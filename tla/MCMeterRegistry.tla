--------------------------- MODULE MCMeterRegistry ---------------------------
(***************************************************************************)
(* MeterRegistry for TLC: a few calls at a time on one account.            *)
(***************************************************************************)
EXTENDS MeterRegistry, TLC

\* Calls differ in their names only, and so do numbers.
Names == Permutations(Txn) \union Permutations(Number)

=============================================================================
