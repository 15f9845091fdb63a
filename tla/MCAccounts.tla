----------------------------- MODULE MCAccounts -----------------------------
(***************************************************************************)
(* Instances of Accounts for TLC.                                          *)
(***************************************************************************)
EXTENDS Accounts, TLC

\* Calls differ in nothing but their names, and so do passwords.
Symmetry == Permutations(Call) \union Permutations(Password)

=============================================================================
