--------------------------- MODULE MCBalanceSweep ---------------------------
(***************************************************************************)
(* Small instances of BalanceSweep. The readings are a full meter, a low   *)
(* one after the same recharge, and one that ran empty and lists a second  *)
(* recharge that is still pending next to a third that went through.       *)
(***************************************************************************)
EXTENDS BalanceSweep, TLC

CONSTANTS i1, i2, p1, p2, m1, m2, u1, t1, t2

Row(token, date, status) ==
    [token |-> token, rechargedDate |-> date, rechargeStatus |-> status]

FullReading  == [balance |-> 500, at |-> 1, recharges |-> <<Row(t1, 1, "success")>>]
LowReading   == [balance |-> 50,  at |-> 2, recharges |-> <<Row(t1, 1, "success")>>]
EmptyReading == [balance |-> 0,   at |-> 2,
                 recharges |-> <<Row(t1, 2, "pending"), Row(t2, 2, "success")>>]

OneReading == {FullReading}
TwoReadings == {FullReading, EmptyReading}
AllReadings == {FullReading, LowReading, EmptyReading}

NoSettings == [name \in {} |-> TRUE]
Muted      == [pushEnabled |-> FALSE]

HostOneEach == (p1 :> i1) @@ (p2 :> i2)
HostTwoOnOne == (p1 :> i1) @@ (p2 :> i1)

OwnerOf == [m \in Meter |-> u1]

JustDefaults  == {NoSettings}
DefaultsMuted == {NoSettings, Muted}

NoFaults  == {}
RemovedMeter == {"remove"}
WriteAndSession == {"session", "failureWrite"}

\* With one pass on each instance, swapping both instances and both passes
\* maps behaviours to behaviours; so does swapping the meters.
MeterSymmetry == Permutations(Meter)
SwapInstances == (i1 :> i2) @@ (i2 :> i1) @@ (p1 :> p2) @@ (p2 :> p1)
Symmetry == MeterSymmetry \union {f @@ SwapInstances : f \in MeterSymmetry}
=============================================================================
