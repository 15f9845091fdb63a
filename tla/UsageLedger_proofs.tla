------------------------- MODULE UsageLedger_proofs -------------------------
(***************************************************************************)
(* The ledger's types, whatever the portal; and, for every portal that     *)
(* stamps its balances and every order of settlements, recharges and       *)
(* polls: that its windows tile the timeline, that they found what the     *)
(* meter consumed, and that none of it is suppressed.                      *)
(***************************************************************************)
EXTENDS UsageLedger, PortalPage_proofs, FiniteSetTheorems, WellFoundedInduction,
        TLAPS

(***************************************************************************)
(* Tiles is not inductive: that the next window starts where the last one  *)
(* ended needs the recorded instant to be one the portal has settled, and  *)
(* no window to reach beyond it.                                           *)
(***************************************************************************)
InstantsInv ==
    /\ clock \in Nat
    /\ settledAt \in 1..clock
    /\ row.lastBalanceAt \in 0..settledAt
    /\ since \in 0..row.lastBalanceAt
    /\ since = NoInstant => row.lastBalanceAt = NoInstant

WindowsInv ==
    /\ since = NoInstant => samples = {}
    /\ \A w \in samples :
          /\ w.windowStart \in Nat /\ w.windowEnd \in Nat
          /\ w.windowStart < w.windowEnd

TilesInv == InstantsInv /\ WindowsInv /\ Tiles

\* When the instants advance, buildUsageSample yields exactly one window, and
\* it runs from the one to the other.
LEMMA OneWindow ==
    ASSUME NEW opening, NEW closing, NEW start \in Nat, NEW end \in Nat,
           NEW recharges, start < end
    PROVE  \E w : /\ BuildUsageSample(opening, closing, start, end, recharges) = {w}
                  /\ w.windowStart = start
                  /\ w.windowEnd = end
<1> DEFINE within   == RechargesWithin(recharges, start, end)
           rawDelta == opening - closing + Credited(within)
           anomaly  == AnomalyOf(rawDelta, end - start)
           cost     == IF anomaly \in {"NEGATIVE_DELTA", "IMPLAUSIBLE_RATE"} \/ rawDelta < 0
                       THEN 0 ELSE rawDelta
           credited == Credited(within)
           paid     == Paid(within)
           sample   == [windowStart      |-> start,
                        windowEnd        |-> end,
                        openingBalance   |-> opening,
                        closingBalance   |-> closing,
                        rechargeCredited |-> credited,
                        rechargePaid     |-> paid,
                        rawDelta         |-> rawDelta,
                        consumedCost     |-> cost,
                        anomaly          |-> anomaly]
<1>1. ~(end <= start)
  OBVIOUS
<1>2. BuildUsageSample(opening, closing, start, end, recharges) = {sample}
  BY <1>1, Zenon DEF BuildUsageSample
<1> HIDE DEF rawDelta, anomaly, cost, credited, paid, within
<1>3. sample.windowStart = start /\ sample.windowEnd = end
  OBVIOUS
<1> QED
  BY <1>2, <1>3, Zenon

\* What a poll makes of a page whose balance is stamped carries the settled
\* instant.
LEMMA SnapshotIsStamped ==
    ASSUME StampFaults = {}, settledAt \in Nat, NEW snapshot \in Snapshots
    PROVE  snapshot.balanceAsOf = settledAt
<1> DEFINE groups == <<Currency, PrintStamp(settledAt)>>
           form   == PageOf(groups).form
           entry  == form[2]
<1>1. Labels = {groups}
  BY DEF Labels
<1>2. snapshot \in GetRechargeSnapshot(PageOf(groups))
  BY <1>1, Zenon DEF Snapshots
<1>3. PICK b \in ParseBalance(form) : snapshot.balanceAsOf = b.asOf
  BY <1>2, SnapshotOfBalance, Zenon
<1>5. /\ DOMAIN form = {1, 2}
      /\ form[1].label = "office"
      /\ entry.label = "balance" /\ entry.suffixed /\ entry.groups = groups
  BY DEF PageOf
<1> HIDE DEF form, groups
<1>6. RequireLabelledEntry(form, "balance") = {entry}
  <2>1. {i \in DOMAIN form : form[i].label = "balance" /\ ~form[i].suffixed} = {}
    BY <1>5
  <2>2. {i \in DOMAIN form : form[i].label = "balance"} = {2}
    BY <1>5
  <2>3. Min({2}) = 2
    BY DEF Min
  <2> QED
    BY <2>1, <2>2, <2>3 DEF RequireLabelledEntry
<1>7. b.asOf = ParseBalanceAsOf(entry)
  <2>1. PICK amount \in ParseAmount(entry.value) :
           b = [balance |-> amount, asOf |-> ParseBalanceAsOf(entry)]
    BY <1>6, Zenon DEF ParseBalance
  <2> QED
    BY <2>1
<1>8. groups # << >> /\ groups[Len(groups)] = PrintStamp(settledAt)
  BY DEF groups
<1>9. ParseBalanceAsOf(entry) = settledAt
  BY <1>5, <1>8, StampIsReadBack, Zenon DEF ParseBalanceAsOf
<1> QED
  BY <1>3, <1>7, <1>9

\* A poll of a portal that stamps its balance records the settled instant.
LEMMA PollIsStamped ==
    ASSUME StampFaults = {}, InstantsInv, Poll
    PROVE  /\ \E snapshot : Record(snapshot, settledAt)
           /\ since' = IF since = NoInstant THEN settledAt ELSE since
           /\ UNCHANGED worldVars
<1>1. PICK snapshot \in Snapshots :
         /\ Record(snapshot, ResolveReadingInstant(snapshot.balanceAsOf, clock))
         /\ since' = IF since = NoInstant
                     THEN ResolveReadingInstant(snapshot.balanceAsOf, clock) ELSE since
  BY Zenon DEF Poll
<1>2. snapshot.balanceAsOf = settledAt
  BY SnapshotIsStamped DEF InstantsInv
<1>3. ResolveReadingInstant(settledAt, clock) = settledAt
  BY DEF InstantsInv, ResolveReadingInstant, NoInstant
<1>4. UNCHANGED worldVars
  BY Zenon DEF Poll
<1> QED
  BY <1>1, <1>2, <1>3, <1>4, Zenon

LEMMA PollKeepsTiles ==
    ASSUME StampFaults = {}, TilesInv, Poll
    PROVE  TilesInv'
<1> USE DEF NoInstant
<1>0. PICK snapshot : Record(snapshot, settledAt)
  BY PollIsStamped, Zenon DEF TilesInv
<1>1. /\ Record(snapshot, settledAt)
      /\ since' = IF since = NoInstant THEN settledAt ELSE since
      /\ clock' = clock /\ settledAt' = settledAt
  BY <1>0, PollIsStamped, Zenon DEF TilesInv, worldVars
<1>2. row'.lastBalanceAt = settledAt
  BY <1>1 DEF Record
<1>3. InstantsInv'
  BY <1>1, <1>2 DEF TilesInv, InstantsInv
<1>4. CASE row.lastBalanceAt = NoInstant
  <2>1. samples = {} /\ since = NoInstant
    BY <1>4 DEF TilesInv, InstantsInv, WindowsInv
  <2>2. SampleOf(snapshot, settledAt) = {}
    BY <1>4, Zenon DEF SampleOf
  <2>3. samples' = {} /\ since' = settledAt
    BY <1>1, <2>1, <2>2, Zenon DEF Record, InsertSamples
  <2>4. Tiles' /\ WindowsInv'
    BY <1>2, <2>3, <1>3 DEF Tiles, WindowsInv, InstantsInv
  <2> QED
    BY <1>3, <2>4 DEF TilesInv
<1>5. CASE row.lastBalanceAt # NoInstant /\ settledAt = row.lastBalanceAt
  <2>1. SampleOf(snapshot, settledAt) = {}
    <3>1. row.lastBalanceAt \in Nat /\ settledAt <= row.lastBalanceAt
      BY <1>5 DEF TilesInv, InstantsInv
    <3> QED
      BY <3>1, <1>5, Zenon DEF SampleOf, BuildUsageSample
  <2>2. samples' = samples
    BY <1>1, <2>1, Zenon DEF Record, InsertSamples
  <2>3. since' = since /\ row'.lastBalanceAt = row.lastBalanceAt
    BY <1>1, <1>2, <1>5 DEF TilesInv, InstantsInv
  <2>4. Tiles' /\ WindowsInv'
    BY <2>2, <2>3, Zenon DEF TilesInv, Tiles, WindowsInv, Covers
  <2> QED
    BY <1>3, <2>4 DEF TilesInv
<1>6. CASE row.lastBalanceAt # NoInstant /\ settledAt # row.lastBalanceAt
  <2>1. /\ row.lastBalanceAt \in Nat /\ settledAt \in Nat
        /\ row.lastBalanceAt < settledAt
        /\ since # NoInstant
    BY <1>6 DEF TilesInv, InstantsInv
  <2>2. PICK w : /\ SampleOf(snapshot, settledAt) = {w}
                 /\ w.windowStart = row.lastBalanceAt
                 /\ w.windowEnd = settledAt
    <3>1. SampleOf(snapshot, settledAt) =
             BuildUsageSample(row.lastBalance, snapshot.balance,
                              row.lastBalanceAt, settledAt, snapshot.recharges)
      BY <1>6, Zenon DEF SampleOf
    <3>2. \E w : /\ BuildUsageSample(row.lastBalance, snapshot.balance,
                                    row.lastBalanceAt, settledAt, snapshot.recharges) = {w}
                 /\ w.windowStart = row.lastBalanceAt
                 /\ w.windowEnd = settledAt
      BY <2>1, OneWindow
    <3> QED
      BY <3>1, <3>2, Zenon
  <2>3. \A v \in samples : v.windowStart # w.windowStart
    BY <2>1, <2>2 DEF TilesInv, Tiles, WindowsInv
  <2>4. samples' = samples \union {w}
    BY <1>1, <2>2, <2>3, Zenon DEF Record, InsertSamples
  <2>5. since' = since
    BY <1>1, <2>1
  <2>6. WindowsInv'
    BY <2>1, <2>2, <2>4, <2>5 DEF TilesInv, WindowsInv
  <2>7. \A v \in samples' : since' <= v.windowStart /\ v.windowEnd <= row'.lastBalanceAt
    BY <2>1, <2>2, <2>4, <2>5, <1>2 DEF TilesInv, Tiles, WindowsInv, InstantsInv
  <2>8. ASSUME NEW hour \in (since' + 1)..row'.lastBalanceAt
        PROVE  \E u \in samples' :
                  /\ Covers(u, hour)
                  /\ \A v \in samples' : Covers(v, hour) => v = u
    <3>1. hour \in Nat /\ hour <= settledAt /\ since + 1 <= hour
      BY <2>1, <2>5, <1>2 DEF TilesInv, InstantsInv
    <3>2. CASE hour <= row.lastBalanceAt
      <4>1. hour \in (since + 1)..row.lastBalanceAt
        BY <3>1, <3>2, <2>1 DEF TilesInv, InstantsInv
      <4>2. PICK u \in samples :
               /\ Covers(u, hour)
               /\ \A v \in samples : Covers(v, hour) => v = u
        BY <4>1, Zenon DEF TilesInv, Tiles
      <4>3. ~Covers(w, hour)
        BY <3>1, <3>2, <2>1, <2>2 DEF Covers
      <4> QED
        BY <4>2, <4>3, <2>4, Zenon
    <3>3. CASE row.lastBalanceAt < hour
      <4>1. Covers(w, hour)
        BY <3>1, <3>3, <2>1, <2>2 DEF Covers
      <4>2. \A v \in samples : ~Covers(v, hour)
        BY <3>1, <3>3, <2>1 DEF TilesInv, Tiles, WindowsInv, Covers
      <4> QED
        BY <4>1, <4>2, <2>4, Zenon
    <3> QED
      BY <3>1, <3>2, <3>3, <2>1
  <2>9. Tiles'
    BY <2>7, <2>8, Zenon DEF Tiles, Covers
  <2> QED
    BY <1>3, <2>6, <2>9 DEF TilesInv
<1> QED
  BY <1>4, <1>5, <1>6

LEMMA StepKeepsTiles ==
    ASSUME StampFaults = {}, TilesInv, [Next]_vars
    PROVE  TilesInv'
<1> USE DEF NoInstant
<1>1. CASE Tick
  <2>1. clock' \in Nat /\ clock' > clock
    BY <1>1 DEF Tick, TilesInv, InstantsInv
  <2> QED
    BY <1>1, <2>1 DEF Tick, TilesInv, InstantsInv, WindowsInv, Tiles, Covers
<1>2. CASE TopUp
  <2>1. UNCHANGED <<clock, settledAt, row, since, samples>>
    BY <1>2, Zenon DEF TopUp
  <2> QED
    BY <2>1, Zenon DEF TilesInv, InstantsInv, WindowsInv, Tiles, Covers
<1>3. CASE Settle
  BY <1>3 DEF Settle, TilesInv, InstantsInv, WindowsInv, Tiles, Covers
<1>4. CASE Poll
  BY <1>4, PollKeepsTiles
<1>5. CASE UNCHANGED vars
  BY <1>5, Zenon DEF vars, TilesInv, InstantsInv, WindowsInv, Tiles, Covers
<1> QED
  BY <1>1, <1>2, <1>3, <1>4, <1>5, Zenon DEF Next

(***************************************************************************)
(* As long as the portal stamps what it publishes, the windows on record   *)
(* tile the time from the first reading to the last (the doc comment of    *)
(* meterUsageSample): for any costs, any number of hours and recharges.    *)
(***************************************************************************)
THEOREM WindowsTile ==
    ASSUME StampFaults = {}
    PROVE  Spec => []Tiles
<1>1. Init => TilesInv
  BY DEF Init, TilesInv, InstantsInv, WindowsInv, Tiles, NoRow, NoInstant
<1>2. TilesInv /\ [Next]_vars => TilesInv'
  BY StepKeepsTiles
<1>3. TilesInv => Tiles
  BY DEF TilesInv
<1> QED
  BY <1>1, <1>2, <1>3, PTL DEF Spec

LEMMA NoCollision ==
    ASSUME StampFaults = {}, TilesInv
    PROVE  CollisionIsReplay
<1>1. ASSUME NEW snapshot \in Snapshots,
             NEW w \in SampleOf(snapshot, settledAt), NEW v \in samples
      PROVE  v.windowStart # w.windowStart
  <2> DEFINE built == BuildUsageSample(row.lastBalance, snapshot.balance,
                                       row.lastBalanceAt, settledAt, snapshot.recharges)
  <2>1. row.lastBalanceAt # NoInstant /\ w \in built
    BY Zenon DEF SampleOf
  <2>2. row.lastBalanceAt \in Nat /\ settledAt \in Nat
    BY DEF TilesInv, InstantsInv
  <2>3. ~(settledAt <= row.lastBalanceAt)
    BY <2>1, Zenon DEF BuildUsageSample
  <2>4. \E u : built = {u} /\ u.windowStart = row.lastBalanceAt /\ u.windowEnd = settledAt
    BY <2>2, <2>3, OneWindow
  <2>5. w.windowStart = row.lastBalanceAt
    BY <2>1, <2>4, Zenon
  <2> QED
    BY <2>2, <2>5 DEF TilesInv, Tiles, WindowsInv
<1>2. ASSUME NEW snapshot \in Snapshots
      PROVE  ResolveReadingInstant(snapshot.balanceAsOf, clock) = settledAt
  <2>1. snapshot.balanceAsOf = settledAt
    BY SnapshotIsStamped DEF TilesInv, InstantsInv
  <2> QED
    BY <2>1 DEF TilesInv, InstantsInv, ResolveReadingInstant, NoInstant
<1> QED
  BY <1>1, <1>2, Zenon DEF CollisionIsReplay

(***************************************************************************)
(* The duplicate guard never turns away a measurement of its own, as long  *)
(* as the portal stamps what it publishes (the comment on recordSuccess):  *)
(* usage_unstamped shows that the assumption is needed.                    *)
(***************************************************************************)
THEOREM GuardLosesNothing ==
    ASSUME StampFaults = {}
    PROVE  Spec => []CollisionIsReplay
<1>1. Init => TilesInv
  BY DEF Init, TilesInv, InstantsInv, WindowsInv, Tiles, NoRow, NoInstant
<1>2. TilesInv /\ [Next]_vars => TilesInv'
  BY StepKeepsTiles
<1>3. TilesInv => CollisionIsReplay
  BY NoCollision
<1> QED
  BY <1>1, <1>2, <1>3, PTL DEF Spec

-----------------------------------------------------------------------------
(***************************************************************************)
(* Sums over sets. Credited and Paid fold a set by taking out one member   *)
(* after another, in an order CHOOSE fixes; what such a fold yields is     *)
(* proved by the least number for which it would be something else.        *)
(***************************************************************************)

\* Every set of naturals that is not empty has a least member.
LEMMA LeastNumber ==
    ASSUME NEW T, T \subseteq Nat, T # {}
    PROVE  \E x \in T : \A y \in T : x <= y
<1> DEFINE R == {p \in Nat \X Nat : p[1] < p[2]}
<1>0. OpToRel(<,Nat) = R
  BY DEF OpToRel
<1>1. IsWellFoundedOn(R, Nat)
  BY <1>0, NatLessThanWellFounded
<1>2. PICK x \in T : \A y \in T : ~(<<y, x>> \in R)
  <2> HIDE DEF R
  <2> QED BY <1>1, WFMin
<1>3. \A y \in T : ~(y < x)
  BY <1>2
<1> QED BY <1>3

\* The member a fold takes out of a set first.
Pick(s) == CHOOSE x \in s : TRUE

\* What a fold makes of a set, and the function it defines on all subsets of one.
Adds(weight, g, s) == IF s = {} THEN 0 ELSE weight[Pick(s)] + g[s \ {Pick(s)}]

IsSum(weight, S, g) == g = [s \in SUBSET S |-> Adds(weight, g, s)]

Total(weight, S) == (CHOOSE g : IsSum(weight, S, g))[S]

\* What each of some recharges credits, and what it cost.
CreditOf(S) == [r \in S |-> r.usableAmount]
PaymentOf(S) == [r \in S |-> r.rechargeAmount]

LEMMA CreditedTotal ==
    ASSUME NEW S, NEW U \in SUBSET S
    PROVE  Credited(U) = Total(CreditOf(S), U)
<1> DEFINE weight == CreditOf(S)
           Plus(g, s) == IF s = {} THEN 0 ELSE Pick(s).usableAmount + g[s \ {Pick(s)}]
           Sums(g) == g = [s \in SUBSET U |-> Plus(g, s)]
<1>1. Credited(U) = (CHOOSE g : Sums(g))[U]
  BY DEF Credited, MapThenSumSet, MapThenFoldSet, Pick
<1>2. ASSUME NEW g, NEW s \in SUBSET U PROVE Plus(g, s) = Adds(weight, g, s)
  <2>1. CASE s = {}
    BY <2>1 DEF Adds
  <2>2. CASE s # {}
    <3>1. Pick(s) \in S
      BY <2>2 DEF Pick
    <3> QED BY <2>2, <3>1 DEF Adds, CreditOf
  <2> QED BY <2>1, <2>2
<1> HIDE DEF Plus, weight
<1>3. \A g : Sums(g) <=> IsSum(weight, U, g)
  BY <1>2 DEF IsSum
<1> HIDE DEF Sums
<1>4. (CHOOSE g : Sums(g)) = (CHOOSE g : IsSum(weight, U, g))
  BY <1>3
<1> QED BY <1>1, <1>4, Zenon DEF Total, weight

LEMMA PaidTotal ==
    ASSUME NEW S, NEW U \in SUBSET S
    PROVE  Paid(U) = Total(PaymentOf(S), U)
<1> DEFINE weight == PaymentOf(S)
           Plus(g, s) == IF s = {} THEN 0 ELSE Pick(s).rechargeAmount + g[s \ {Pick(s)}]
           Sums(g) == g = [s \in SUBSET U |-> Plus(g, s)]
<1>1. Paid(U) = (CHOOSE g : Sums(g))[U]
  BY DEF Paid, MapThenSumSet, MapThenFoldSet, Pick
<1>2. ASSUME NEW g, NEW s \in SUBSET U PROVE Plus(g, s) = Adds(weight, g, s)
  <2>1. CASE s = {}
    BY <2>1 DEF Adds
  <2>2. CASE s # {}
    <3>1. Pick(s) \in S
      BY <2>2 DEF Pick
    <3> QED BY <2>2, <3>1 DEF Adds, PaymentOf
  <2> QED BY <2>1, <2>2
<1> HIDE DEF Plus, weight
<1>3. \A g : Sums(g) <=> IsSum(weight, U, g)
  BY <1>2 DEF IsSum
<1> HIDE DEF Sums
<1>4. (CHOOSE g : Sums(g)) = (CHOOSE g : IsSum(weight, U, g))
  BY <1>3
<1> QED BY <1>1, <1>4, Zenon DEF Total, weight

LEMMA PickRemoved ==
    ASSUME NEW s, IsFiniteSet(s), s # {}
    PROVE  /\ Pick(s) \in s
           /\ IsFiniteSet(s \ {Pick(s)})
           /\ Cardinality(s) \in Nat \ {0}
           /\ Cardinality(s \ {Pick(s)}) = Cardinality(s) - 1
<1>1. Pick(s) \in s
  BY DEF Pick
<1> QED BY <1>1, FS_RemoveElement, FS_CardinalityType, FS_EmptySet

\* There is such a function on the subsets of a finite set...
LEMMA SumExists ==
    ASSUME NEW weight, NEW S, IsFiniteSet(S)
    PROVE  \E g : IsSum(weight, S, g)
<1> DEFINE Upto(h, n) == \A s \in SUBSET S : Cardinality(s) <= n => h[s] = Adds(weight, h, s)
           T == {n \in Nat : ~\E h : Upto(h, n)}
<1>1. \A s \in SUBSET S : IsFiniteSet(s) /\ Cardinality(s) \in Nat /\ Cardinality(s) <= Cardinality(S)
  BY FS_Subset, FS_CardinalityType
<1>2. T = {}
  <2> SUFFICES ASSUME T # {} PROVE FALSE
    OBVIOUS
  <2>1. PICK n \in T : \A k \in T : n <= k
    <3> HIDE DEF T
    <3>1. T \subseteq Nat
      BY DEF T
    <3> QED BY <3>1, LeastNumber, Zenon
  <2>2. CASE n = 0
    <3> DEFINE h == [s \in SUBSET S |-> 0]
    <3>1. Upto(h, 0)
      <4> SUFFICES ASSUME NEW s \in SUBSET S, Cardinality(s) <= 0 PROVE h[s] = Adds(weight, h, s)
        OBVIOUS
      <4>1. s = {}
        BY <1>1, FS_EmptySet
      <4> QED BY <4>1 DEF Adds
    <3> QED BY <3>1, <2>2
  <2>3. CASE n # 0
    <3>1. n - 1 \in Nat /\ n - 1 \notin T
      BY <2>1, <2>3
    <3>2. PICK h : Upto(h, n - 1)
      BY <3>1
    <3> DEFINE k == [s \in SUBSET S |-> Adds(weight, h, s)]
    <3>3. ASSUME NEW s \in SUBSET S, Cardinality(s) <= n PROVE k[s] = Adds(weight, k, s)
      <4>0. k[s] = Adds(weight, h, s)
        OBVIOUS
      <4>1. CASE s = {}
        BY <4>0, <4>1 DEF Adds
      <4>2. CASE s # {}
        <5> DEFINE q == s \ {Pick(s)}
        <5>1. q \in SUBSET S /\ Cardinality(q) <= n - 1
          BY <4>2, <1>1, <3>3, PickRemoved
        <5>2. h[q] = k[q]
          BY <3>2, <5>1
        <5> QED BY <4>0, <4>2, <5>2, Zenon DEF Adds
      <4> QED BY <4>1, <4>2
    <3>4. Upto(k, n)
      <4> HIDE DEF k
      <4> QED BY <3>3
    <3> QED BY <3>4
  <2> QED BY <2>2, <2>3
<1>3. PICK h : Upto(h, Cardinality(S))
  BY <1>2, FS_CardinalityType
<1>4. \A s \in SUBSET S : h[s] = Adds(weight, h, s)
  BY <1>1, <1>3
<1> DEFINE g == [s \in SUBSET S |-> h[s]]
<1>5. ASSUME NEW s \in SUBSET S PROVE Adds(weight, h, s) = Adds(weight, g, s)
  <2>1. CASE s = {}
    BY <2>1 DEF Adds
  <2>2. CASE s # {}
    <3>1. s \ {Pick(s)} \in SUBSET S
      OBVIOUS
    <3>2. g[s \ {Pick(s)}] = h[s \ {Pick(s)}]
      BY <3>1
    <3> QED BY <2>2, <3>2, Zenon DEF Adds
  <2> QED BY <2>1, <2>2
<1>6. g = [s \in SUBSET S |-> Adds(weight, g, s)]
  BY <1>4, <1>5
<1> QED BY <1>6, Zenon DEF IsSum

\* ... and it says the same of a subset as the subset's own.
LEMMA SumUnique ==
    ASSUME NEW weight, NEW S, IsFiniteSet(S), NEW U \in SUBSET S, NEW g, NEW h,
           IsSum(weight, S, g), IsSum(weight, U, h)
    PROVE  g[U] = h[U]
<1> DEFINE T == {n \in Nat : \E s \in SUBSET U : Cardinality(s) = n /\ g[s] # h[s]}
<1>1. \A s \in SUBSET U : IsFiniteSet(s) /\ Cardinality(s) \in Nat
  BY FS_Subset, FS_CardinalityType
<1>2. \A s \in SUBSET U : g[s] = Adds(weight, g, s) /\ h[s] = Adds(weight, h, s)
  BY DEF IsSum
<1>3. T = {}
  <2> SUFFICES ASSUME T # {} PROVE FALSE
    OBVIOUS
  <2>1. PICK n \in T : \A k \in T : n <= k
    <3> HIDE DEF T
    <3>1. T \subseteq Nat
      BY DEF T
    <3> QED BY <3>1, LeastNumber, Zenon
  <2>2. PICK s \in SUBSET U : Cardinality(s) = n /\ g[s] # h[s]
    BY <2>1
  <2>3. s # {}
    BY <1>2, <2>2 DEF Adds
  <2> DEFINE q == s \ {Pick(s)}
  <2>4. q \in SUBSET U /\ Cardinality(q) = n - 1 /\ n - 1 \in Nat
    BY <2>2, <2>3, <1>1, PickRemoved
  <2>5. n - 1 \notin T
    BY <2>1, <2>4
  <2>6. g[q] = h[q]
    BY <2>4, <2>5
  <2>7. Adds(weight, g, s) = Adds(weight, h, s)
    BY <2>6, Zenon DEF Adds
  <2> QED BY <1>2, <2>2, <2>7
<1> QED BY <1>1, <1>3

\* So a sum is one member and the sum of the others: of the member a fold takes
\* out, and, the amounts being numbers, of any.
LEMMA TotalAdds ==
    ASSUME NEW weight, NEW S, IsFiniteSet(S)
    PROVE  /\ S = {} => Total(weight, S) = 0
           /\ S # {} => Total(weight, S) = weight[Pick(S)] + Total(weight, S \ {Pick(S)})
<1> DEFINE Sum(U) == CHOOSE g : IsSum(weight, U, g)
<1>1. \A U \in SUBSET S : IsSum(weight, U, Sum(U))
  BY SumExists, FS_Subset, Zenon
<1>2. \A U \in SUBSET S : Sum(S)[U] = Sum(U)[U]
  <2> SUFFICES ASSUME NEW U \in SUBSET S PROVE Sum(S)[U] = Sum(U)[U]
    BY Zenon
  <2> DEFINE g == Sum(S)
             h == Sum(U)
  <2>1. IsSum(weight, S, g) /\ IsSum(weight, U, h)
    BY <1>1, Zenon
  <2> HIDE DEF g, h
  <2>2. g[U] = h[U]
    BY <2>1, SumUnique
  <2> QED BY <2>2 DEF g, h
<1>3. Sum(S)[S] = Adds(weight, Sum(S), S)
  <2> DEFINE g == Sum(S)
  <2>1. IsSum(weight, S, g)
    BY <1>1, Zenon
  <2> HIDE DEF g
  <2>2. g[S] = Adds(weight, g, S)
    BY <2>1 DEF IsSum
  <2> QED BY <2>2 DEF g
<1>4. \A U : Total(weight, U) = Sum(U)[U]
  BY Zenon DEF Total
<1> HIDE DEF Sum
<1>5. CASE S = {}
  BY <1>3, <1>4, <1>5, Zenon DEF Adds
<1>6. CASE S # {}
  <2>1. S \ {Pick(S)} \in SUBSET S
    OBVIOUS
  <2> QED BY <1>2, <1>3, <1>4, <1>6, <2>1, Zenon DEF Adds
<1> QED BY <1>5, <1>6

Amounts(weight, S) == IsFiniteSet(S) /\ \A r \in S : weight[r] \in Nat

LEMMA TotalType ==
    ASSUME NEW weight, NEW S, Amounts(weight, S)
    PROVE  Total(weight, S) \in Nat
<1> DEFINE T == {n \in Nat : \E s \in SUBSET S : Cardinality(s) = n /\ Total(weight, s) \notin Nat}
<1>1. \A s \in SUBSET S : IsFiniteSet(s) /\ Cardinality(s) \in Nat
  BY FS_Subset, FS_CardinalityType DEF Amounts
<1>2. T = {}
  <2> SUFFICES ASSUME T # {} PROVE FALSE
    OBVIOUS
  <2>1. PICK n \in T : \A k \in T : n <= k
    <3> HIDE DEF T
    <3>1. T \subseteq Nat
      BY DEF T
    <3> QED BY <3>1, LeastNumber, Zenon
  <2>2. PICK s \in SUBSET S : Cardinality(s) = n /\ Total(weight, s) \notin Nat
    BY <2>1
  <2>3. s # {}
    <3>1. s = {} => Total(weight, s) = 0
      BY <1>1, <2>2, TotalAdds, Zenon
    <3> QED BY <2>2, <3>1
  <2> DEFINE q == s \ {Pick(s)}
  <2>4. q \in SUBSET S /\ Cardinality(q) = n - 1 /\ n - 1 \in Nat /\ Pick(s) \in S
    BY <2>2, <2>3, <1>1, PickRemoved
  <2>5. n - 1 \notin T
    BY <2>1, <2>4
  <2>6. Total(weight, q) \in Nat
    BY <2>4, <2>5
  <2>7. Total(weight, s) = weight[Pick(s)] + Total(weight, q)
    BY <2>3, <1>1, TotalAdds, Zenon
  <2>8. weight[Pick(s)] \in Nat
    BY <2>4 DEF Amounts
  <2> HIDE DEF q
  <2> QED BY <2>2, <2>6, <2>7, <2>8
<1> QED BY <1>1, <1>2

LEMMA TotalTakesOut ==
    ASSUME NEW weight, NEW S, Amounts(weight, S), NEW r \in S
    PROVE  Total(weight, S) = weight[r] + Total(weight, S \ {r})
<1> DEFINE Wrong(s) == \E x \in s : Total(weight, s) # weight[x] + Total(weight, s \ {x})
           T == {n \in Nat : \E s \in SUBSET S : Cardinality(s) = n /\ Wrong(s)}
<1>1. \A s \in SUBSET S : IsFiniteSet(s) /\ Cardinality(s) \in Nat /\ Total(weight, s) \in Nat
  BY FS_Subset, FS_CardinalityType, TotalType DEF Amounts
<1>2. \A x \in S : weight[x] \in Nat
  BY DEF Amounts
<1>3. T = {}
  <2> SUFFICES ASSUME T # {} PROVE FALSE
    OBVIOUS
  <2>1. PICK n \in T : \A k \in T : n <= k
    <3> HIDE DEF T
    <3>1. T \subseteq Nat
      BY DEF T
    <3> QED BY <3>1, LeastNumber, Zenon
  <2>20. PICK s \in SUBSET S : Cardinality(s) = n /\ Wrong(s)
    BY <2>1
  <2>2. PICK x \in s : Total(weight, s) # weight[x] + Total(weight, s \ {x})
    BY <2>20
  <2> DEFINE p == Pick(s)
             q == s \ {p}
             u == s \ {x}
  <2>3. p \in s /\ Total(weight, s) = weight[p] + Total(weight, q)
    BY <1>1, <2>20, <2>2, TotalAdds, Zenon DEF Pick
  <2>4. n \in Nat /\ n - 1 \in Nat /\ Cardinality(q) = n - 1 /\ Cardinality(u) = n - 1
    <3>1. IsFiniteSet(s) /\ n \in Nat /\ Cardinality(s) = n
      BY <1>1, <2>20
    <3>2. n # 0
      BY <2>3, <3>1, FS_EmptySet
    <3>3. Cardinality(q) = n - 1 /\ Cardinality(u) = n - 1
      BY <2>2, <2>3, <3>1, FS_RemoveElement
    <3> QED BY <3>1, <3>2, <3>3
  <2>5. p # x /\ x \in q /\ p \in u /\ q \in SUBSET S /\ u \in SUBSET S
    BY <2>20, <2>2, <2>3
  <2> HIDE DEF p, Wrong
  <2>6. ~Wrong(q) /\ ~Wrong(u)
    <3>1. n - 1 \notin T
      BY <2>1, <2>4
    <3> QED BY <2>4, <2>5, <3>1
  <2>7. /\ Total(weight, q) = weight[x] + Total(weight, q \ {x})
        /\ Total(weight, u) = weight[p] + Total(weight, u \ {p})
    BY <2>5, <2>6, Zenon DEF Wrong
  <2>8. q \ {x} = u \ {p} /\ q \ {x} \in SUBSET S
    BY <2>5
  <2>9. Total(weight, q \ {x}) = Total(weight, u \ {p}) /\ Total(weight, q \ {x}) \in Nat
    BY <1>1, <2>8, Zenon
  <2>10. weight[x] \in Nat /\ weight[p] \in Nat
    BY <1>2, <2>20, <2>2, <2>3
  <2> HIDE DEF q, u
  <2>11. Total(weight, s) = weight[x] + Total(weight, u)
    BY <2>3, <2>7, <2>9, <2>10
  <2> QED BY <2>20, <2>2, <2>11, Zenon DEF u
<1>4. Cardinality(S) \in Nat /\ Cardinality(S) \notin T
  BY <1>1, <1>3
<1> QED BY <1>4

\* Sums of two sets that share nothing add up.
LEMMA TotalOfUnion ==
    ASSUME NEW weight, NEW A, NEW B, Amounts(weight, A \union B), A \intersect B = {}
    PROVE  Total(weight, A \union B) = Total(weight, A) + Total(weight, B)
<1> DEFINE Wrong(s) == Total(weight, A \union s) # Total(weight, A) + Total(weight, s)
           T == {n \in Nat : \E s \in SUBSET B : Cardinality(s) = n /\ Wrong(s)}
<1>1. \A s \in SUBSET (A \union B) : Amounts(weight, s) /\ Total(weight, s) \in Nat
  BY FS_Subset, TotalType DEF Amounts
<1>2. \A s \in SUBSET B : IsFiniteSet(s) /\ Cardinality(s) \in Nat
  BY <1>1, FS_CardinalityType DEF Amounts
<1>3. T = {}
  <2> SUFFICES ASSUME T # {} PROVE FALSE
    OBVIOUS
  <2>1. PICK n \in T : \A k \in T : n <= k
    <3> HIDE DEF T
    <3>1. T \subseteq Nat
      BY DEF T
    <3> QED BY <3>1, LeastNumber, Zenon
  <2>2. PICK s \in SUBSET B : Cardinality(s) = n /\ Wrong(s)
    BY <2>1
  <2>3. s # {}
    <3>1. ASSUME s = {} PROVE FALSE
      <4>1. Total(weight, s) = 0
        BY <1>2, <3>1, TotalAdds, Zenon
      <4>2. A \union s = A /\ Total(weight, A) \in Nat
        BY <1>1, <3>1
      <4>3. Total(weight, A \union s) = Total(weight, A)
        BY <4>2, Zenon
      <4> QED BY <2>2, <4>1, <4>2, <4>3
    <3> QED BY <3>1
  <2>4. PICK r \in s : TRUE
    BY <2>3
  <2> DEFINE q == s \ {r}
  <2>5. n - 1 \in Nat /\ Cardinality(q) = n - 1
    BY <1>2, <2>2, <2>4, FS_RemoveElement, FS_CardinalityType, FS_EmptySet
  <2>6. q \in SUBSET B /\ (A \union s) \ {r} = A \union q
    BY <2>2, <2>4
  <2> HIDE DEF Wrong
  <2>7. ~Wrong(q)
    <3>1. n - 1 \notin T
      BY <2>1, <2>5
    <3> QED BY <2>5, <2>6, <3>1
  <2>8. Total(weight, A \union q) = Total(weight, A) + Total(weight, q)
    BY <2>7, Zenon DEF Wrong
  <2>9. Amounts(weight, s) /\ Amounts(weight, A \union s)
    <3>1. s \in SUBSET (A \union B) /\ A \union s \in SUBSET (A \union B)
      BY <2>2
    <3> QED BY <1>1, <3>1
  <2>10. Total(weight, s) = weight[r] + Total(weight, q)
    BY <2>9, TotalTakesOut, <2>4
  <2>11. Total(weight, A \union s) = weight[r] + Total(weight, A \union q)
    <3>1. r \in A \union s
      OBVIOUS
    <3>2. Total(weight, A \union s) = weight[r] + Total(weight, (A \union s) \ {r})
      BY <2>9, <3>1, TotalTakesOut, <2>4
    <3> QED BY <2>6, <3>2, Zenon
  <2>12. weight[r] \in Nat
    BY <2>9 DEF Amounts
  <2>13. Total(weight, A) \in Nat /\ Total(weight, q) \in Nat
    BY <1>1, <2>6
  <2> HIDE DEF q
  <2>14. Total(weight, A \union s) = Total(weight, A) + Total(weight, s)
    BY <2>8, <2>10, <2>11, <2>12, <2>13
  <2> QED BY <2>2, <2>14, Zenon DEF Wrong
<1>4. Cardinality(B) \notin T /\ Cardinality(B) \in Nat
  BY <1>2, <1>3
<1> QED BY <1>4

-----------------------------------------------------------------------------
(***************************************************************************)
(* The page read back.                                                     *)
(***************************************************************************)

\* A recharge as its row shows it: the seconds of its date are not there.
DatedByMinute(r) ==
    [rechargedDate  |-> r.rechargedDate - (r.rechargedDate % SECONDS_PER_MINUTE),
     usableAmount   |-> r.usableAmount,
     rechargeAmount |-> r.rechargeAmount,
     rechargeStatus |-> r.rechargeStatus]

Headers == <<"other", "usable", "amount", "date", "status">>

RowOf(r) == <<"-", Number(r.usableAmount), Number(r.rechargeAmount),
              PrintStamp(r.rechargedDate), r.rechargeStatus>>

LEMMA LeastOfOne == ASSUME NEW i \in Int PROVE Min({i}) = i
  BY DEF Min

LEMMA ColumnsFound ==
    /\ RequireColumn(Headers, "other") = {1}
    /\ RequireColumn(Headers, "usable") = {2}
    /\ RequireColumn(Headers, "amount") = {3}
    /\ RequireColumn(Headers, "date") = {4}
    /\ RequireColumn(Headers, "status") = {5}
<1>1. /\ {i \in DOMAIN Headers : Headers[i] = "other"} = {1}
      /\ {i \in DOMAIN Headers : Headers[i] = "usable"} = {2}
      /\ {i \in DOMAIN Headers : Headers[i] = "amount"} = {3}
      /\ {i \in DOMAIN Headers : Headers[i] = "date"} = {4}
      /\ {i \in DOMAIN Headers : Headers[i] = "status"} = {5}
  BY DEF Headers
<1>2. Min({1}) = 1 /\ Min({2}) = 2 /\ Min({3}) = 3 /\ Min({4}) = 4 /\ Min({5}) = 5
  BY LeastOfOne
<1> QED BY <1>1, <1>2, Zenon DEF RequireColumn

LEMMA CellsFound ==
    ASSUME NEW r
    PROVE  /\ RequireCell(Headers, RowOf(r), "other") = {"-"}
           /\ RequireCell(Headers, RowOf(r), "usable") = {Number(r.usableAmount)}
           /\ RequireCell(Headers, RowOf(r), "amount") = {Number(r.rechargeAmount)}
           /\ RequireCell(Headers, RowOf(r), "date") = {PrintStamp(r.rechargedDate)}
           /\ RequireCell(Headers, RowOf(r), "status") = {r.rechargeStatus}
<1> DEFINE row_ == RowOf(r)
<1>1. /\ DOMAIN row_ = 1..5
      /\ row_[1] = "-" /\ row_[2] = Number(r.usableAmount)
      /\ row_[3] = Number(r.rechargeAmount) /\ row_[4] = PrintStamp(r.rechargedDate)
      /\ row_[5] = r.rechargeStatus
  BY DEF RowOf
<1>2. /\ {1} \intersect DOMAIN row_ = {1} /\ {2} \intersect DOMAIN row_ = {2}
      /\ {3} \intersect DOMAIN row_ = {3} /\ {4} \intersect DOMAIN row_ = {4}
      /\ {5} \intersect DOMAIN row_ = {5}
  BY <1>1
<1> HIDE DEF row_
<1>3. \A i : {row_[j] : j \in {i}} = {row_[i]}
  OBVIOUS
<1>4. /\ RequireCell(Headers, row_, "other") = {row_[1]}
      /\ RequireCell(Headers, row_, "usable") = {row_[2]}
      /\ RequireCell(Headers, row_, "amount") = {row_[3]}
      /\ RequireCell(Headers, row_, "date") = {row_[4]}
      /\ RequireCell(Headers, row_, "status") = {row_[5]}
  BY <1>2, <1>3, ColumnsFound, Zenon DEF RequireCell
<1> QED BY <1>1, <1>4, Zenon DEF row_

LEMMA RowReadBack ==
    ASSUME NEW r, r.rechargedDate \in Nat
    PROVE  ParseRow(Headers, RowOf(r)) = {DatedByMinute(r)}
<1> DEFINE date == r.rechargedDate - (r.rechargedDate % SECONDS_PER_MINUTE)
           dates   == UNION {ParseRechargeDate(c) : c \in {PrintStamp(r.rechargedDate)}}
           usables == UNION {ParseAmount(c) : c \in {Number(r.usableAmount)}}
           amounts == UNION {ParseAmount(c) : c \in {Number(r.rechargeAmount)}}
<1>1. dates = {date}
  <2>1. ParseRechargeDate(PrintStamp(r.rechargedDate)) = {date}
    BY RechargeDatedByMinute
  <2> HIDE DEF date
  <2> QED BY <2>1
<1>2. usables = {r.usableAmount} /\ amounts = {r.rechargeAmount}
  <2>1. /\ ParseAmount(Number(r.usableAmount)) = {r.usableAmount}
        /\ ParseAmount(Number(r.rechargeAmount)) = {r.rechargeAmount}
    BY DEF ParseAmount, Number
  <2> QED BY <2>1
<1> DEFINE Parsed(D, U, A, S) ==
              UNION {{[rechargedDate  |-> instant,
                       usableAmount   |-> usable,
                       rechargeAmount |-> amount,
                       rechargeStatus |-> status] :
                         instant \in UNION {ParseRechargeDate(c) : c \in D},
                         usable  \in UNION {ParseAmount(c) : c \in U},
                         amount  \in UNION {ParseAmount(c) : c \in A}} :
                     status \in S}
           parsed ==
              UNION {{[rechargedDate  |-> instant,
                       usableAmount   |-> usable,
                       rechargeAmount |-> amount,
                       rechargeStatus |-> status] :
                         instant \in dates, usable \in usables, amount \in amounts} :
                     status \in {r.rechargeStatus}}
           Cell(heading) == RequireCell(Headers, RowOf(r), heading)
<1>3. ParseRow(Headers, RowOf(r)) = parsed
  <2>1. /\ Cell("other") = {"-"}
        /\ Cell("date") = {PrintStamp(r.rechargedDate)}
        /\ Cell("usable") = {Number(r.usableAmount)}
        /\ Cell("amount") = {Number(r.rechargeAmount)}
        /\ Cell("status") = {r.rechargeStatus}
    BY CellsFound, Zenon
  <2>2. Cell("other") # {}
    BY <2>1
  <2>3. ParseRow(Headers, RowOf(r)) =
           Parsed(Cell("date"), Cell("usable"), Cell("amount"), Cell("status"))
    <3>1. ParseRow(Headers, RowOf(r)) =
             IF Cell("other") = {} THEN {}
             ELSE Parsed(Cell("date"), Cell("usable"), Cell("amount"), Cell("status"))
      BY DEF ParseRow
    <3> HIDE DEF Parsed, Cell
    <3> QED BY <2>2, <3>1, Zenon
  <2>4. Parsed({PrintStamp(r.rechargedDate)}, {Number(r.usableAmount)},
               {Number(r.rechargeAmount)}, {r.rechargeStatus}) = parsed
    OBVIOUS
  <2> HIDE DEF Parsed, parsed, Cell
  <2> QED BY <2>1, <2>3, <2>4, Zenon
<1> HIDE DEF dates, usables, amounts
<1>4. parsed = {[rechargedDate  |-> date,
            usableAmount   |-> r.usableAmount,
            rechargeAmount |-> r.rechargeAmount,
            rechargeStatus |-> r.rechargeStatus]}
  <2> HIDE DEF date
  <2> QED BY <1>1, <1>2
<1> HIDE DEF parsed
<1> QED BY <1>3, <1>4, Zenon DEF DatedByMinute

ReadBack == {DatedByMinute(r) : r \in history}

LEMMA TableReadBack ==
    ASSUME history \subseteq Recharge, NEW groups
    PROVE  ParseRechargeHistory(PageOf(groups).table) = {ReadBack}
<1> DEFINE table == PageOf(groups).table
           rows  == {RowOf(r) : r \in history}
<1>1. table.headers = Headers /\ table.rows = rows
  BY DEF PageOf, Headers, RowOf
<1>2. \A r \in history : ParseRow(Headers, RowOf(r)) = {DatedByMinute(r)}
  BY RowReadBack DEF Recharge
<1> HIDE DEF table
<1>3. \A heading \in RECHARGE_COLUMN : RequireColumn(Headers, heading) # {}
  BY ColumnsFound, Zenon DEF RECHARGE_COLUMN
<1>4. \A c \in rows : ParseRow(Headers, c) # {}
  BY <1>2
<1>5. UNION {ParseRow(Headers, c) : c \in rows} = ReadBack
  <2>1. {ParseRow(Headers, c) : c \in rows} = {ParseRow(Headers, RowOf(r)) : r \in history}
    OBVIOUS
  <2>2. {ParseRow(Headers, RowOf(r)) : r \in history} = {{DatedByMinute(r)} : r \in history}
    BY <1>2
  <2>3. UNION {{DatedByMinute(r)} : r \in history} = ReadBack
    BY DEF ReadBack
  <2> QED BY <2>1, <2>2, <2>3
<1> HIDE DEF rows
<1> QED BY <1>1, <1>3, <1>4, <1>5, Zenon DEF ParseRechargeHistory, table

LEMMA BalanceReadBack ==
    ASSUME NEW groups
    PROVE  ParseBalance(PageOf(groups).form) =
              {[balance |-> BalanceAt(settledAt),
                asOf    |-> ParseBalanceAsOf(PageOf(groups).form[2])]}
<1> DEFINE form  == PageOf(groups).form
           entry == form[2]
           amounts == ParseAmount(entry.value)
<1>1. /\ DOMAIN form = {1, 2}
      /\ form[1].label = "office" /\ entry.label = "balance" /\ entry.suffixed
      /\ entry.value = Number(BalanceAt(settledAt))
  BY DEF PageOf
<1>2. amounts = {BalanceAt(settledAt)}
  BY <1>1 DEF ParseAmount, Number
<1> HIDE DEF form
<1>3. RequireLabelledEntry(form, "balance") = {entry}
  <2>1. {i \in DOMAIN form : form[i].label = "balance" /\ ~form[i].suffixed} = {}
    BY <1>1
  <2>2. {i \in DOMAIN form : form[i].label = "balance"} = {2}
    BY <1>1
  <2>3. Min({2}) = 2
    BY LeastOfOne
  <2> QED
    BY <2>1, <2>2, <2>3 DEF RequireLabelledEntry
<1>4. ParseBalance(form) =
         UNION {{[balance |-> amount, asOf |-> ParseBalanceAsOf(e)] :
                   amount \in ParseAmount(e.value)} : e \in {entry}}
  BY <1>3, Zenon DEF ParseBalance
<1>5. ParseBalance(form) = {[balance |-> amount, asOf |-> ParseBalanceAsOf(entry)] :
                               amount \in amounts}
  <2> HIDE DEF entry
  <2> QED BY <1>4
<1> HIDE DEF amounts, entry
<1>6. ParseBalance(form) = {[balance |-> BalanceAt(settledAt), asOf |-> ParseBalanceAsOf(entry)]}
  BY <1>2, <1>5
<1> QED BY <1>6 DEF form, entry

\* What a poll makes of a page: the settled balance, the recharges as they show,
\* and an instant, whichever label the portal served.
LEMMA SnapshotReadBack ==
    ASSUME history \subseteq Recharge, NEW snapshot \in Snapshots
    PROVE  /\ snapshot.balance = BalanceAt(settledAt)
           /\ snapshot.recharges = ReadBack
           /\ \E groups \in Labels :
                 snapshot.balanceAsOf = ParseBalanceAsOf(PageOf(groups).form[2])
<1>1. PICK groups \in Labels : snapshot \in GetRechargeSnapshot(PageOf(groups))
  BY Zenon DEF Snapshots
<1> DEFINE balances  == ParseBalance(PageOf(groups).form)
           histories == ParseRechargeHistory(PageOf(groups).table)
           asOf      == ParseBalanceAsOf(PageOf(groups).form[2])
<1>2. snapshot \in {[balance |-> b.balance, balanceAsOf |-> b.asOf, recharges |-> recharges] :
                        b \in balances, recharges \in histories}
  BY <1>1 DEF GetRechargeSnapshot
<1>3. balances = {[balance |-> BalanceAt(settledAt), asOf |-> asOf]}
  BY BalanceReadBack
<1>4. histories = {ReadBack}
  BY TableReadBack
<1> HIDE DEF balances, histories, asOf
<1>5. /\ snapshot.balance = BalanceAt(settledAt)
      /\ snapshot.recharges = ReadBack
      /\ snapshot.balanceAsOf = asOf
  BY <1>2, <1>3, <1>4
<1> QED BY <1>5, Zenon DEF asOf

-----------------------------------------------------------------------------
(***************************************************************************)
(* Type correctness, whatever the portal's stamps.                         *)
(***************************************************************************)
TypeInv == TypeOK /\ IsFiniteSet(history)

\* Every label is read as the settled instant, as none, or as one to come.
LEMMA StampTypes ==
    ASSUME clock \in Nat, settledAt \in Nat, NEW groups \in Labels
    PROVE  ParseBalanceAsOf(PageOf(groups).form[2]) \in {settledAt, NoStamp, clock + 1}
<1> DEFINE entry == PageOf(groups).form[2]
           stamp == groups[Len(groups)]
<1>1. entry.groups = groups
  BY DEF PageOf
<1>2. CASE groups = << >>
  BY <1>1, <1>2, Zenon DEF ParseBalanceAsOf
<1>3. CASE groups = <<Currency>>
  <2>1. stamp = Currency
    BY <1>3
  <2>2. ParseBalanceStamp(stamp) = {}
    BY <2>1 DEF ParseBalanceStamp, Currency
  <2> QED BY <1>1, <2>2, Zenon DEF ParseBalanceAsOf
<1>4. ASSUME NEW instant \in Nat, groups = <<Currency, PrintStamp(instant)>>
      PROVE  ParseBalanceAsOf(entry) = instant
  <2>1. groups # << >> /\ stamp = PrintStamp(instant)
    BY <1>4
  <2>2. ParseBalanceStamp(stamp) = {instant}
    BY <2>1, StampIsReadBack
  <2>3. (CHOOSE i \in {instant} : TRUE) = instant
    OBVIOUS
  <2> QED BY <1>1, <2>1, <2>2, <2>3, Zenon DEF ParseBalanceAsOf
<1>5. \/ groups = << >> \/ groups = <<Currency>>
      \/ groups = <<Currency, PrintStamp(settledAt)>>
      \/ groups = <<Currency, PrintStamp(clock + 1)>>
  BY Zenon DEF Labels
<1>6. clock + 1 \in Nat
  OBVIOUS
<1> QED BY <1>2, <1>3, <1>4, <1>5, <1>6, Zenon

LEMMA InstantType ==
    ASSUME TypeOK, NEW snapshot \in Snapshots
    PROVE  ResolveReadingInstant(snapshot.balanceAsOf, clock) \in settledAt..clock
<1>1. clock \in Nat /\ settledAt \in Nat /\ settledAt \in 1..clock /\ history \subseteq Recharge
  BY LedgerAssumption DEF TypeOK
<1>2. snapshot.balanceAsOf \in {settledAt, NoStamp, clock + 1}
  BY <1>1, SnapshotReadBack, StampTypes, Zenon
<1> QED BY <1>1, <1>2 DEF ResolveReadingInstant, NoStamp, NoInstant

\* The sums of a window are amounts.
LEMMA WindowSums ==
    ASSUME TypeInv, NEW start, NEW end
    PROVE  /\ Credited(RechargesWithin(ReadBack, start, end)) \in Nat
           /\ Paid(RechargesWithin(ReadBack, start, end)) \in Nat
<1> DEFINE within == RechargesWithin(ReadBack, start, end)
<1>1. IsFiniteSet(ReadBack)
  <2> DEFINE f == [r \in history |-> DatedByMinute(r)]
  <2>1. f \in Surjection(history, ReadBack)
    BY DEF Surjection, ReadBack
  <2> HIDE DEF f
  <2> QED BY <2>1, FS_Surjection DEF TypeInv
<1>2. within \subseteq ReadBack
  BY DEF RechargesWithin
<1>3. IsFiniteSet(within)
  BY <1>1, <1>2, FS_Subset
<1>4. \A r \in ReadBack : r.usableAmount \in Nat /\ r.rechargeAmount \in Nat
  BY DEF TypeInv, TypeOK, Recharge, ReadBack, DatedByMinute
<1> HIDE DEF within
<1>5. Amounts(CreditOf(ReadBack), within) /\ Amounts(PaymentOf(ReadBack), within)
  BY <1>2, <1>3, <1>4 DEF Amounts, CreditOf, PaymentOf
<1>6. /\ Credited(within) = Total(CreditOf(ReadBack), within)
      /\ Paid(within) = Total(PaymentOf(ReadBack), within)
  BY <1>2, CreditedTotal, PaidTotal
<1> QED BY <1>5, <1>6, TotalType, Zenon DEF within

LEMMA BalanceType ==
    ASSUME TypeInv, NEW t \in 1..clock
    PROVE  BalanceAt(t) \in Int
<1> DEFINE held == {r \in history : r.rechargeStatus = "success" /\ r.rechargedDate <= t}
<1>1. IsFiniteSet(held)
  BY FS_Subset DEF TypeInv
<1>2. held \subseteq history /\ \A r \in held : r.usableAmount \in Nat
  BY DEF TypeInv, TypeOK, Recharge
<1>3. used[t] \in Nat
  BY DEF TypeInv, TypeOK
<1>4. BalanceAt(t) = Credited(held) - used[t]
  BY DEF BalanceAt
<1> HIDE DEF held
<1>5. Credited(held) \in Nat
  <2>1. Amounts(CreditOf(history), held)
    BY <1>1, <1>2 DEF Amounts, CreditOf
  <2> QED BY <1>2, <2>1, TotalType, CreditedTotal
<1> QED BY <1>3, <1>4, <1>5

\* The window that buildUsageSample yields, when the instants advance.
WindowOf(opening, closing, start, end, recharges) ==
    LET within   == RechargesWithin(recharges, start, end)
        rawDelta == opening - closing + Credited(within)
        anomaly  == AnomalyOf(rawDelta, end - start)
    IN  [windowStart      |-> start,
         windowEnd        |-> end,
         openingBalance   |-> opening,
         closingBalance   |-> closing,
         rechargeCredited |-> Credited(within),
         rechargePaid     |-> Paid(within),
         rawDelta         |-> rawDelta,
         consumedCost     |->
            IF anomaly \in {"NEGATIVE_DELTA", "IMPLAUSIBLE_RATE"} \/ rawDelta < 0
            THEN 0 ELSE rawDelta,
         anomaly          |-> anomaly]

LEMMA WindowBuilt ==
    ASSUME NEW opening, NEW closing, NEW start, NEW end, NEW recharges,
           NEW w \in BuildUsageSample(opening, closing, start, end, recharges)
    PROVE  ~(end <= start) /\ w = WindowOf(opening, closing, start, end, recharges)
<1> DEFINE window == WindowOf(opening, closing, start, end, recharges)
<1>1. BuildUsageSample(opening, closing, start, end, recharges) =
         IF end <= start THEN {} ELSE {window}
  BY DEF BuildUsageSample, WindowOf
<1> HIDE DEF window
<1>2. ~(end <= start) /\ w = window
  BY <1>1, Zenon
<1> QED BY <1>2 DEF window

LEMMA WindowType ==
    ASSUME TypeInv, NEW opening \in Int, NEW closing \in Int,
           NEW start \in Nat \ {0}, NEW end \in Nat,
           NEW w \in BuildUsageSample(opening, closing, start, end, ReadBack)
    PROVE  w \in UsageSample /\ w.windowStart < w.windowEnd /\ w.windowEnd = end
<1> DEFINE within   == RechargesWithin(ReadBack, start, end)
           credited == Credited(within)
           paid     == Paid(within)
           rawDelta == opening - closing + credited
           anomaly  == AnomalyOf(rawDelta, end - start)
           cost     == IF anomaly \in {"NEGATIVE_DELTA", "IMPLAUSIBLE_RATE"} \/ rawDelta < 0
                       THEN 0 ELSE rawDelta
<1>1. credited \in Nat /\ paid \in Nat
  BY WindowSums
<1>2. anomaly \in UsageAnomaly
  BY Zenon DEF AnomalyOf, UsageAnomaly
<1>3. ~(end <= start) /\ w = WindowOf(opening, closing, start, end, ReadBack)
  BY WindowBuilt, Zenon
<1>30. w = [windowStart      |-> start,
            windowEnd        |-> end,
            openingBalance   |-> opening,
            closingBalance   |-> closing,
            rechargeCredited |-> credited,
            rechargePaid     |-> paid,
            rawDelta         |-> rawDelta,
            consumedCost     |-> cost,
            anomaly          |-> anomaly]
  BY <1>3 DEF WindowOf
<1> HIDE DEF within, credited, paid, anomaly
<1>4. rawDelta \in Int
  BY <1>1
<1> HIDE DEF rawDelta
<1>5. cost \in Nat
  BY <1>4
<1> HIDE DEF cost
<1>6. start < end /\ end \in Nat \ {0}
  BY <1>3
<1> QED BY <1>1, <1>2, <1>30, <1>4, <1>5, <1>6 DEF UsageSample

LEMMA PollTypeOK ==
    ASSUME TypeInv, Poll
    PROVE  TypeInv'
<1>1. PICK snapshot \in Snapshots :
         /\ Record(snapshot, ResolveReadingInstant(snapshot.balanceAsOf, clock))
         /\ since' = IF since = NoInstant
                     THEN ResolveReadingInstant(snapshot.balanceAsOf, clock) ELSE since
  BY Zenon DEF Poll
<1> DEFINE at == ResolveReadingInstant(snapshot.balanceAsOf, clock)
<1>2. /\ clock' = clock /\ used' = used /\ history' = history /\ settledAt' = settledAt
  BY Zenon DEF Poll, worldVars
<1>3. at \in settledAt..clock /\ at \in 1..clock
  BY InstantType DEF TypeInv, TypeOK
<1>4. /\ snapshot.balance \in Int
      /\ snapshot.recharges = ReadBack
  BY SnapshotReadBack, BalanceType DEF TypeInv, TypeOK
<1>5. /\ row' = [lastBalance |-> snapshot.balance, lastBalanceAt |-> at]
      /\ samples' = InsertSamples(samples, SampleOf(snapshot, at))
      /\ since' = IF since = NoInstant THEN at ELSE since
  BY <1>1, Zenon DEF Record
<1> HIDE DEF at
<1>6. row' \in [lastBalance : Int, lastBalanceAt : 0..clock] /\ since' \in 0..clock
  BY <1>3, <1>4, <1>5 DEF TypeInv, TypeOK
<1>7. ASSUME NEW w \in SampleOf(snapshot, at)
      PROVE  w \in UsageSample /\ w.windowStart < w.windowEnd /\ w.windowEnd <= clock
  <2>1. /\ row.lastBalanceAt # NoInstant
        /\ w \in BuildUsageSample(row.lastBalance, snapshot.balance,
                                  row.lastBalanceAt, at, ReadBack)
    BY <1>4, <1>7, Zenon DEF SampleOf
  <2>2. row.lastBalance \in Int /\ row.lastBalanceAt \in Nat \ {0} /\ at \in Nat
    BY <1>3, <2>1 DEF TypeInv, TypeOK, NoInstant
  <2>3. w \in UsageSample /\ w.windowStart < w.windowEnd /\ w.windowEnd = at
    BY <1>4, <2>1, <2>2, WindowType
  <2> QED BY <1>3, <2>3
<1>8. \A w \in samples' : w \in samples \/ w \in SampleOf(snapshot, at)
  BY <1>5, Zenon DEF InsertSamples
<1>9. /\ samples' \subseteq UsageSample
      /\ \A w \in samples' : w.windowStart < w.windowEnd /\ w.windowEnd <= clock
  BY <1>7, <1>8, Zenon DEF TypeInv, TypeOK
<1> QED BY <1>2, <1>6, <1>9, Zenon DEF TypeInv, TypeOK

LEMMA TickTypeOK ==
    ASSUME TypeInv, Tick
    PROVE  TypeInv'
<1>1. PICK cost \in Costs :
         used' = [t \in 1..(clock + 1) |-> IF t <= clock THEN used[t] ELSE used[clock] + cost]
  BY DEF Tick
<1>2. /\ clock < MaxHour /\ clock' = clock + 1
      /\ UNCHANGED <<history, settledAt, row, since, samples>>
  BY DEF Tick
<1>3. clock \in 1..MaxHour /\ clock' \in 1..MaxHour /\ MaxHour \in Nat
  BY <1>2, LedgerAssumption DEF TypeInv, TypeOK
<1>4. cost \in Nat
  BY LedgerAssumption
<1>5. used' \in [1..clock' -> Nat]
  BY <1>1, <1>2, <1>3, <1>4 DEF TypeInv, TypeOK
<1>6. /\ settledAt' \in 1..clock' /\ since' \in 0..clock'
      /\ row' \in [lastBalance : Int, lastBalanceAt : 0..clock']
  BY <1>2, <1>3 DEF TypeInv, TypeOK
<1>7. \A w \in samples' : w.windowStart < w.windowEnd /\ w.windowEnd <= clock'
  BY <1>2, <1>3 DEF TypeInv, TypeOK, UsageSample
<1> QED BY <1>2, <1>3, <1>5, <1>6, <1>7 DEF TypeInv, TypeOK

LEMMA TopUpTypeOK ==
    ASSUME TypeInv, TopUp
    PROVE  TypeInv'
<1>1. PICK status \in {"success", "pending"} :
         history' = history \union {[rechargedDate  |-> clock,
                                     usableAmount   |-> UsableAmount,
                                     rechargeAmount |-> PaidAmount,
                                     rechargeStatus |-> status]}
  BY DEF TopUp
<1>2. UNCHANGED <<clock, used, settledAt, row, since, samples>>
  BY DEF TopUp
<1>3. history' \subseteq Recharge
  BY <1>1, LedgerAssumption DEF TypeInv, TypeOK, Recharge
<1>4. IsFiniteSet(history')
  BY <1>1, FS_AddElement DEF TypeInv
<1> QED BY <1>2, <1>3, <1>4 DEF TypeInv, TypeOK

LEMMA StepTypeOK == TypeInv /\ [Next]_vars => TypeInv'
<1> SUFFICES ASSUME TypeInv, [Next]_vars PROVE TypeInv'
  OBVIOUS
<1>1. CASE Settle
  BY <1>1 DEF Settle, TypeInv, TypeOK
<1>2. CASE UNCHANGED vars
  BY <1>2 DEF vars, TypeInv, TypeOK
<1> QED BY <1>1, <1>2, TickTypeOK, TopUpTypeOK, PollTypeOK, Zenon DEF Next

LEMMA InitTypeOK == Init => TypeInv
  BY LedgerAssumption, FS_EmptySet DEF Init, TypeInv, TypeOK, NoRow, NoInstant

\* Whatever the portal stamps its balances with, the ledger's variables keep
\* their types: a window never ends before it begins, nor in the future, and what
\* it holds are amounts.
THEOREM LedgerTypeCorrect == Spec => []TypeOK
<1>1. TypeInv => TypeOK
  BY DEF TypeInv
<1> QED BY <1>1, InitTypeOK, StepTypeOK, PTL DEF Spec

-----------------------------------------------------------------------------
(***************************************************************************)
(* What the windows found, and what the meter consumed.                    *)
(*                                                                         *)
(* A window is only as true as the balances it is the difference of: that  *)
(* the one on record is still what the portal published for its instant    *)
(* rests on no recharge being dated before an instant that is settled. The *)
(* page dates a recharge by its minute, so that this holds as long as none *)
(* was made within one: the hazard at nesco.parsing.ts:223.                *)
(***************************************************************************)
OnTheMinute == \A r \in history : r.rechargedDate % SECONDS_PER_MINUTE = 0

BalanceHeld ==
    row.lastBalanceAt # NoInstant => row.lastBalance = BalanceAt(row.lastBalanceAt)

DeltaInv == OnTheMinute => BalanceHeld /\ TrueDelta

\* The successful recharges that a balance of instant t holds.
HeldAt(t) == {r \in history : r.rechargeStatus = "success" /\ r.rechargedDate <= t}

LEMMA ReadBackAsMade ==
    ASSUME history \subseteq Recharge, OnTheMinute
    PROVE  ReadBack = history
<1>1. ASSUME NEW r \in history
      PROVE  DatedByMinute(r) = r
  <2>1. r \in Recharge /\ r.rechargedDate % SECONDS_PER_MINUTE = 0
    BY DEF OnTheMinute
  <2>2. r.rechargedDate - (r.rechargedDate % SECONDS_PER_MINUTE) = r.rechargedDate
    BY <2>1 DEF Recharge
  <2>3. r = [rechargedDate  |-> r.rechargedDate,
             usableAmount   |-> r.usableAmount,
             rechargeAmount |-> r.rechargeAmount,
             rechargeStatus |-> r.rechargeStatus]
    BY <2>1 DEF Recharge
  <2> QED BY <2>2, <2>3, Zenon DEF DatedByMinute
<1> QED BY <1>1 DEF ReadBack

\* What two balances hold differs by the recharges between them.
LEMMA HeldBetween ==
    ASSUME TypeInv, NEW start \in Nat, NEW end \in Nat, start <= end
    PROVE  /\ Credited(HeldAt(end)) =
                 Credited(HeldAt(start)) + Credited(RechargesWithin(history, start, end))
           /\ Credited(HeldAt(start)) \in Nat
           /\ Credited(RechargesWithin(history, start, end)) \in Nat
<1> DEFINE A == HeldAt(start)
           B == RechargesWithin(history, start, end)
<1>1. \A r \in history : r.rechargedDate \in Nat /\ r.usableAmount \in Nat
  BY DEF TypeInv, TypeOK, Recharge
<1>2. HeldAt(end) = A \union B /\ A \intersect B = {} /\ A \union B \subseteq history
  BY <1>1 DEF HeldAt, RechargesWithin
<1>3. \A S \in SUBSET history : Amounts(CreditOf(history), S)
  BY <1>1, FS_Subset DEF Amounts, CreditOf, TypeInv
<1> HIDE DEF A, B
<1>4. /\ Amounts(CreditOf(history), A \union B)
      /\ Amounts(CreditOf(history), A) /\ Amounts(CreditOf(history), B)
  BY <1>2, <1>3
<1>5. Total(CreditOf(history), A \union B) = Total(CreditOf(history), A) + Total(CreditOf(history), B)
  BY <1>2, <1>4, TotalOfUnion
<1>6. Total(CreditOf(history), A) \in Nat /\ Total(CreditOf(history), B) \in Nat
  BY <1>4, TotalType
<1>7. \A S \in SUBSET history : Credited(S) = Total(CreditOf(history), S)
  BY CreditedTotal
<1>8. A \in SUBSET history /\ B \in SUBSET history /\ A \union B \in SUBSET history
  BY <1>2
<1> QED BY <1>2, <1>5, <1>6, <1>7, <1>8, Zenon DEF A, B

LEMMA BalanceOf == ASSUME NEW t PROVE BalanceAt(t) = Credited(HeldAt(t)) - used[t]
  BY Zenon DEF BalanceAt, HeldAt

\* A poll of a stamped page, with every recharge on the minute.
LEMMA PollKeepsDelta ==
    ASSUME StampFaults = {}, TypeInv, InstantsInv, DeltaInv, Poll
    PROVE  DeltaInv'
<1> SUFFICES ASSUME OnTheMinute' PROVE BalanceHeld' /\ TrueDelta'
  BY Zenon DEF DeltaInv
<1>1. PICK snapshot \in Snapshots :
         Record(snapshot, ResolveReadingInstant(snapshot.balanceAsOf, clock))
  BY Zenon DEF Poll
<1>2. clock' = clock /\ used' = used /\ history' = history /\ settledAt' = settledAt
  BY Zenon DEF Poll, worldVars
<1>3. OnTheMinute /\ BalanceHeld /\ TrueDelta
  BY <1>2, Zenon DEF OnTheMinute, DeltaInv
<1>4. /\ clock \in Nat /\ settledAt \in 1..clock /\ row.lastBalanceAt \in 0..settledAt
      /\ history \subseteq Recharge
  BY DEF InstantsInv, TypeInv, TypeOK
<1>5. snapshot.balanceAsOf = settledAt
  BY <1>4, SnapshotIsStamped
<1>6. snapshot.balance = BalanceAt(settledAt) /\ snapshot.recharges = history
  BY <1>3, <1>4, SnapshotReadBack, ReadBackAsMade, Zenon
<1>7. ResolveReadingInstant(snapshot.balanceAsOf, clock) = settledAt
  BY <1>4, <1>5 DEF ResolveReadingInstant, NoInstant
<1>8. /\ samples' = InsertSamples(samples, SampleOf(snapshot, settledAt))
      /\ row' = [lastBalance |-> BalanceAt(settledAt), lastBalanceAt |-> settledAt]
  BY <1>1, <1>6, <1>7, Zenon DEF Record
<1>9. BalanceHeld'
  <2>1. row'.lastBalanceAt = settledAt /\ row'.lastBalance = BalanceAt(settledAt)
    BY <1>8
  <2>2. BalanceAt(settledAt)' = BalanceAt(settledAt)
    BY <1>2, Zenon DEF BalanceAt
  <2> QED BY <2>1, <2>2, <1>2, Zenon DEF BalanceHeld, BalanceAt
<1>10. ASSUME NEW w \in SampleOf(snapshot, settledAt)
       PROVE  w.rawDelta = used[w.windowEnd] - used[w.windowStart]
  <2> DEFINE start  == row.lastBalanceAt
             within == RechargesWithin(history, start, settledAt)
             delta  == BalanceAt(start) - BalanceAt(settledAt) + Credited(within)
  <2>1. /\ start # NoInstant
        /\ w \in BuildUsageSample(row.lastBalance, BalanceAt(settledAt),
                                  start, settledAt, history)
    BY <1>6, <1>10, Zenon DEF SampleOf
  <2>2. row.lastBalance = BalanceAt(start)
    BY <1>3, <2>1, Zenon DEF BalanceHeld
  <2>3. w = WindowOf(BalanceAt(start), BalanceAt(settledAt), start, settledAt, history)
    <3>1. w \in BuildUsageSample(BalanceAt(start), BalanceAt(settledAt), start, settledAt, history)
      BY <2>1, <2>2, Zenon
    <3> QED BY <3>1, WindowBuilt
  <2>4. w.windowStart = start /\ w.windowEnd = settledAt /\ w.rawDelta = delta
    BY <2>3 DEF WindowOf
  <2>5. start \in 1..clock /\ settledAt \in 1..clock /\ start <= settledAt
    BY <1>4, <2>1 DEF NoInstant
  <2>6. used[start] \in Nat /\ used[settledAt] \in Nat
    BY <2>5 DEF TypeInv, TypeOK
  <2>7. start \in Nat /\ settledAt \in Nat
    BY <2>5
  <2>8. /\ Credited(HeldAt(settledAt)) = Credited(HeldAt(start)) + Credited(within)
        /\ Credited(HeldAt(start)) \in Nat /\ Credited(within) \in Nat
    BY <2>5, <2>7, HeldBetween
  <2>9. /\ BalanceAt(start) = Credited(HeldAt(start)) - used[start]
        /\ BalanceAt(settledAt) = Credited(HeldAt(settledAt)) - used[settledAt]
    BY BalanceOf
  <2> HIDE DEF start, within
  <2>10. delta = used[settledAt] - used[start]
    BY <2>6, <2>8, <2>9
  <2> HIDE DEF delta
  <2> QED BY <2>4, <2>10, Zenon
<1>11. TrueDelta'
  <2>1. \A w \in samples' : w \in samples \/ w \in SampleOf(snapshot, settledAt)
    BY <1>8, Zenon DEF InsertSamples
  <2>2. \A w \in samples' : w.rawDelta = used[w.windowEnd] - used[w.windowStart]
    BY <1>3, <1>10, <2>1, Zenon DEF TrueDelta
  <2> QED BY <1>2, <2>2, Zenon DEF TrueDelta
<1> QED BY <1>9, <1>11

\* The meter and the portal go on: what was published for an earlier instant
\* still is its balance.
LEMMA WorldKeepsDelta ==
    ASSUME TypeInv, InstantsInv, DeltaInv, Tick \/ TopUp
    PROVE  DeltaInv'
<1> SUFFICES ASSUME OnTheMinute' PROVE BalanceHeld' /\ TrueDelta'
  BY Zenon DEF DeltaInv
<1>1. UNCHANGED <<row, since, samples, settledAt>> /\ history \subseteq history'
  BY DEF Tick, TopUp
<1>2. OnTheMinute /\ BalanceHeld /\ TrueDelta
  BY <1>1 DEF OnTheMinute, DeltaInv
<1>3. /\ clock \in Nat /\ settledAt \in 1..clock /\ row.lastBalanceAt \in 0..settledAt
  BY DEF InstantsInv
<1>4. \A t \in 1..clock : used'[t] = used[t]
  <2>1. CASE Tick
    BY <1>3, <2>1 DEF Tick
  <2>2. CASE TopUp
    BY <2>2 DEF TopUp
  <2> QED BY <2>1, <2>2
<1>5. \A t \in 1..settledAt : HeldAt(t)' = HeldAt(t)
  <2> SUFFICES ASSUME NEW t \in 1..settledAt PROVE HeldAt(t)' = HeldAt(t)
    OBVIOUS
  <2>1. CASE Tick
    BY <2>1 DEF Tick, HeldAt
  <2>2. CASE TopUp
    <3>1. PICK r : r.rechargedDate = clock /\ history' = history \union {r}
      <4>1. PICK status \in {"success", "pending"} :
               history' = history \union {[rechargedDate  |-> clock,
                                           usableAmount   |-> UsableAmount,
                                           rechargeAmount |-> PaidAmount,
                                           rechargeStatus |-> status]}
        BY <2>2 DEF TopUp
      <4> QED BY <4>1
    <3>2. settledAt < clock
      BY <2>2 DEF TopUp
    <3>3. ~(r.rechargedDate <= t)
      BY <1>3, <3>1, <3>2
    <3>4. HeldAt(t)' = {x \in history' : x.rechargeStatus = "success" /\ x.rechargedDate <= t}
      BY DEF HeldAt
    <3>5. @ = HeldAt(t)
      BY <3>1, <3>3 DEF HeldAt
    <3> QED BY <3>4, <3>5
  <2> QED BY <2>1, <2>2
<1>51. \A t \in 1..settledAt : BalanceAt(t)' = BalanceAt(t)
  <2> SUFFICES ASSUME NEW t \in 1..settledAt PROVE BalanceAt(t)' = BalanceAt(t)
    OBVIOUS
  <2>1. BalanceAt(t)' = Credited(HeldAt(t)') - used'[t]
    BY DEF BalanceAt, HeldAt
  <2>2. t \in 1..clock
    BY <1>3
  <2> QED BY <1>4, <1>5, <2>1, <2>2, BalanceOf, Zenon
<1>6. BalanceHeld'
  <2>1. CASE row.lastBalanceAt = NoInstant
    BY <1>1, <2>1 DEF BalanceHeld
  <2>2. CASE row.lastBalanceAt # NoInstant
    <3>1. row.lastBalanceAt \in 1..settledAt
      BY <1>3, <2>2 DEF NoInstant
    <3>2. PICK t \in 1..settledAt : row.lastBalanceAt = t
      BY <3>1
    <3>3. row.lastBalance = BalanceAt(t)
      BY <1>2, <2>2, <3>2, Zenon DEF BalanceHeld
    <3>4. row.lastBalance = BalanceAt(t)'
      BY <1>51, <3>3, Zenon
    <3>5. row'.lastBalance = BalanceAt(t)' /\ row'.lastBalanceAt = t
      BY <1>1, <3>2, <3>4, Zenon
    <3> QED BY <3>5, Zenon DEF BalanceHeld, BalanceAt
  <2> QED BY <2>1, <2>2
<1>7. TrueDelta'
  <2>1. \A w \in samples : w.windowStart \in 1..clock /\ w.windowEnd \in 1..clock
    BY <1>3 DEF TypeInv, TypeOK, UsageSample
  <2>2. \A w \in samples : /\ used'[w.windowEnd] = used[w.windowEnd]
                           /\ used'[w.windowStart] = used[w.windowStart]
    BY <1>4, <2>1, Zenon
  <2> QED BY <1>1, <1>2, <2>2, Zenon DEF TrueDelta
<1> QED BY <1>6, <1>7

LedgerInv == TypeInv /\ TilesInv /\ DeltaInv

LEMMA StepKeepsDelta ==
    ASSUME StampFaults = {}, LedgerInv, [Next]_vars
    PROVE  LedgerInv'
<1>1. TypeInv' /\ TilesInv' /\ InstantsInv
  BY StepTypeOK, StepKeepsTiles, Zenon DEF LedgerInv, TilesInv
<1>2. CASE Settle \/ UNCHANGED vars
  <2>1. UNCHANGED <<used, history, row, samples>>
    BY <1>2, Zenon DEF Settle, vars
  <2> QED
    BY <1>1, <2>1, Zenon DEF LedgerInv, DeltaInv, OnTheMinute, BalanceHeld, BalanceAt,
       TrueDelta
<1>3. CASE Tick \/ TopUp \/ Poll
  BY <1>1, <1>3, WorldKeepsDelta, PollKeepsDelta, Zenon DEF LedgerInv
<1> QED BY <1>2, <1>3, Zenon DEF Next

LEMMA LedgerInit == Init => LedgerInv
<1> SUFFICES ASSUME Init PROVE LedgerInv
  OBVIOUS
<1>1. TilesInv
  BY DEF Init, TilesInv, InstantsInv, WindowsInv, Tiles, NoRow, NoInstant
<1>2. BalanceHeld /\ TrueDelta
  BY DEF Init, NoRow, BalanceHeld, TrueDelta
<1> QED BY <1>1, <1>2, InitTypeOK DEF LedgerInv, DeltaInv

LEMMA LedgerInvariant ==
    ASSUME StampFaults = {}
    PROVE  Spec => []LedgerInv
<1>1. LedgerInv /\ [Next]_vars => LedgerInv'
  BY StepKeepsDelta
<1> QED BY <1>1, LedgerInit, PTL DEF Spec

(***************************************************************************)
(* What a window found is what the meter consumed in it, for any costs and *)
(* recharges, in any order of settlements, recharges and polls, as long as *)
(* the portal stamps what it publishes and no recharge was made within a   *)
(* minute.                                                                 *)
(***************************************************************************)
THEOREM DeltasAreTrue ==
    ASSUME StampFaults = {}
    PROVE  Spec => [](OnTheMinute => TrueDelta)
<1>1. LedgerInv => (OnTheMinute => TrueDelta)
  BY DEF LedgerInv, DeltaInv
<1> QED BY <1>1, LedgerInvariant, PTL

-----------------------------------------------------------------------------
(***************************************************************************)
(* What is suppressed: that a window's cost is its delta unless the delta  *)
(* is out of bounds holds of any window; that no delta is needs the meter  *)
(* to have kept below the ceiling hour by hour.                            *)
(***************************************************************************)
WithinCeiling == \A cost \in Costs : cost <= MaxCostPerHour

PaceInv ==
    \A a, b \in 1..clock : a <= b =>
       /\ used[a] <= used[b]
       /\ WithinCeiling => used[b] - used[a] <= MaxCostPerHour * (b - a)

CostOf(rawDelta, windowHours) ==
    IF AnomalyOf(rawDelta, windowHours) \in {"NEGATIVE_DELTA", "IMPLAUSIBLE_RATE"}
       \/ rawDelta < 0
    THEN 0 ELSE rawDelta

CostInv ==
    \A w \in samples : w.consumedCost = CostOf(w.rawDelta, w.windowEnd - w.windowStart)

LEMMA OneHourMore ==
    ASSUME NEW n \in Nat
    PROVE  /\ MaxCostPerHour * (n + 1) = MaxCostPerHour * n + MaxCostPerHour
           /\ MaxCostPerHour * n \in Nat
  BY LimitsAssumption

LEMMA TickKeepsPace ==
    ASSUME TypeInv, PaceInv, Tick
    PROVE  PaceInv'
<1>1. PICK cost \in Costs :
         used' = [t \in 1..(clock + 1) |-> IF t <= clock THEN used[t] ELSE used[clock] + cost]
  BY DEF Tick
<1>2. clock' = clock + 1 /\ clock \in Nat /\ clock \in 1..clock
  BY LedgerAssumption DEF Tick, TypeInv, TypeOK
<1>3. cost \in Nat /\ (WithinCeiling => cost <= MaxCostPerHour) /\ MaxCostPerHour \in Nat
  BY LedgerAssumption, LimitsAssumption DEF WithinCeiling
<1>4. \A t \in 1..clock : used[t] \in Nat /\ used'[t] = used[t]
  BY <1>1, <1>2 DEF TypeInv, TypeOK
<1>5. used'[clock + 1] = used[clock] + cost
  BY <1>1, <1>2
<1>6. ASSUME NEW a \in 1..clock', NEW b \in 1..clock', a <= b
      PROVE  /\ used'[a] <= used'[b]
             /\ WithinCeiling => used'[b] - used'[a] <= MaxCostPerHour * (b - a)
  <2>1. CASE b <= clock
    <3>1. a \in 1..clock /\ b \in 1..clock
      BY <1>2, <1>6, <2>1
    <3> QED BY <1>4, <1>6, <3>1, Zenon DEF PaceInv
  <2>2. CASE b = clock + 1 /\ a = clock + 1
    <3>1. used'[a] = used'[b] /\ used'[b] \in Nat
      BY <1>2, <1>3, <1>4, <1>5, <2>2
    <3>2. b - a = 0
      BY <1>2, <2>2
    <3>3. MaxCostPerHour * (b - a) \in Nat
      BY <3>2, OneHourMore
    <3> QED BY <3>1, <3>3
  <2>3. CASE b = clock + 1 /\ a <= clock
    <3> DEFINE n == clock - a
    <3>1. n \in Nat /\ a \in 1..clock /\ a <= clock /\ b - a = n + 1
      BY <1>2, <1>6, <2>3
    <3>2. /\ used[a] <= used[clock]
          /\ WithinCeiling => used[clock] - used[a] <= MaxCostPerHour * n
      BY <1>2, <3>1, Zenon DEF PaceInv
    <3>3. used'[a] = used[a] /\ used'[b] = used[clock] + cost
      BY <1>4, <1>5, <2>3, <3>1
    <3>4. used[a] \in Nat /\ used[clock] \in Nat
      BY <1>2, <1>4, <3>1
    <3>5. /\ MaxCostPerHour * (b - a) = MaxCostPerHour * n + MaxCostPerHour
          /\ MaxCostPerHour * n \in Nat
      BY <3>1, OneHourMore, Zenon
    <3> HIDE DEF n
    <3> QED BY <1>3, <3>2, <3>3, <3>4, <3>5
  <2> QED BY <1>2, <1>6, <2>1, <2>2, <2>3
<1> QED BY <1>6, Zenon DEF PaceInv, WithinCeiling

LEMMA StepKeepsPace == TypeInv /\ PaceInv /\ [Next]_vars => PaceInv'
<1> SUFFICES ASSUME TypeInv, PaceInv, [Next]_vars PROVE PaceInv'
  OBVIOUS
<1>1. CASE TopUp \/ Settle \/ Poll \/ UNCHANGED vars
  <2>1. clock' = clock /\ used' = used
    BY <1>1, Zenon DEF TopUp, Settle, Poll, worldVars, vars
  <2> QED BY <2>1, Zenon DEF PaceInv, WithinCeiling
<1> QED BY <1>1, TickKeepsPace, Zenon DEF Next

LEMMA StepKeepsCost == CostInv /\ [Next]_vars => CostInv'
<1> SUFFICES ASSUME CostInv, [Next]_vars PROVE CostInv'
  OBVIOUS
<1>1. CASE Poll
  <2>1. PICK snapshot, at : samples' = InsertSamples(samples, SampleOf(snapshot, at))
    BY <1>1, Zenon DEF Poll, Record
  <2>2. ASSUME NEW w \in SampleOf(snapshot, at)
        PROVE  w.consumedCost = CostOf(w.rawDelta, w.windowEnd - w.windowStart)
    <3>1. w \in BuildUsageSample(row.lastBalance, snapshot.balance,
                                 row.lastBalanceAt, at, snapshot.recharges)
      BY <2>2, Zenon DEF SampleOf
    <3> DEFINE within   == RechargesWithin(snapshot.recharges, row.lastBalanceAt, at)
               rawDelta == row.lastBalance - snapshot.balance + Credited(within)
    <3>2. w = WindowOf(row.lastBalance, snapshot.balance,
                       row.lastBalanceAt, at, snapshot.recharges)
      BY <3>1, WindowBuilt
    <3>3. /\ w.windowStart = row.lastBalanceAt /\ w.windowEnd = at
          /\ w.rawDelta = rawDelta
          /\ w.consumedCost = CostOf(rawDelta, at - row.lastBalanceAt)
      BY <3>2 DEF WindowOf, CostOf
    <3> HIDE DEF rawDelta
    <3> QED BY <3>3, Zenon
  <2>3. \A w \in samples' : w \in samples \/ w \in SampleOf(snapshot, at)
    BY <2>1, Zenon DEF InsertSamples
  <2> QED BY <2>2, <2>3, Zenon DEF CostInv
<1>2. CASE Tick \/ TopUp \/ Settle \/ UNCHANGED vars
  <2>1. samples' = samples
    BY <1>2, Zenon DEF Tick, TopUp, Settle, vars
  <2> QED BY <2>1, Zenon DEF CostInv
<1> QED BY <1>1, <1>2, Zenon DEF Next

LEMMA NoneSuppressed ==
    ASSUME TypeInv, TrueDelta, PaceInv, CostInv
    PROVE  NothingSuppressed
<1> SUFFICES ASSUME WithinCeiling, NEW w \in samples
             PROVE  w.consumedCost = w.rawDelta
  BY Zenon DEF NothingSuppressed, WithinCeiling
<1> DEFINE start == w.windowStart
           end   == w.windowEnd
           hours == end - start
<1>1. start \in 1..clock /\ end \in 1..clock /\ start <= end /\ w.rawDelta \in Int
  BY DEF TypeInv, TypeOK, UsageSample
<1>2. used[start] \in Nat /\ used[end] \in Nat
  BY <1>1 DEF TypeInv, TypeOK
<1>3. w.rawDelta = used[end] - used[start]
  BY Zenon DEF TrueDelta
<1>4. used[start] <= used[end] /\ used[end] - used[start] <= MaxCostPerHour * hours
  BY <1>1, Zenon DEF PaceInv
<1>5. hours \in Nat
  BY <1>1
<1>6. MaxCostPerHour * hours \in Nat
  BY <1>5, OneHourMore, Zenon
<1>7. w.consumedCost = CostOf(w.rawDelta, hours)
  BY Zenon DEF CostInv
<1> HIDE DEF start, end, hours
<1> DEFINE limit == MaxCostPerHour * hours
<1>8. w.rawDelta >= 0 /\ ~(w.rawDelta < -EPSILON) /\ ~(w.rawDelta > limit) /\ ~(w.rawDelta < 0)
  <2> HIDE DEF limit
  <2>1. used[end] - used[start] <= limit /\ limit \in Nat
    BY <1>4, <1>6, Zenon DEF limit
  <2> QED BY <1>1, <1>2, <1>3, <1>4, <2>1 DEF EPSILON
<1>9. AnomalyOf(w.rawDelta, hours) \notin {"NEGATIVE_DELTA", "IMPLAUSIBLE_RATE"}
  <2>1. AnomalyOf(w.rawDelta, hours) \in {"STALE_WINDOW", "NONE"}
    BY <1>8, Zenon DEF AnomalyOf
  <2> QED BY <2>1
<1> QED BY <1>7, <1>8, <1>9, Zenon DEF CostOf

LEMMA PaceInit == Init => PaceInv /\ CostInv
<1> SUFFICES ASSUME Init PROVE PaceInv /\ CostInv
  OBVIOUS
<1>1. /\ \A a, b \in 1..clock : a = 1 /\ b = 1
      /\ used[1] = 0
  BY DEF Init
<1>2. MaxCostPerHour * (1 - 1) \in Nat
  BY OneHourMore
<1>3. PaceInv
  BY <1>1, <1>2 DEF PaceInv
<1> QED BY <1>3 DEF Init, CostInv

(***************************************************************************)
(* Under the same conditions a meter that never exceeds the ceiling in any *)
(* hour has none of its consumption suppressed, for any ceiling, however   *)
(* long a window is.                                                       *)
(***************************************************************************)
THEOREM NormalUseIsKept ==
    ASSUME StampFaults = {}
    PROVE  Spec => [](OnTheMinute => NothingSuppressed)
<1>1. Init => TypeInv /\ PaceInv /\ CostInv
  BY InitTypeOK, PaceInit
<1>2. (TypeInv /\ PaceInv /\ CostInv) /\ [Next]_vars => (TypeInv /\ PaceInv /\ CostInv)'
  BY StepTypeOK, StepKeepsPace, StepKeepsCost
<1>3. LedgerInv /\ (TypeInv /\ PaceInv /\ CostInv) => (OnTheMinute => NothingSuppressed)
  BY NoneSuppressed DEF LedgerInv, DeltaInv
<1> QED BY <1>1, <1>2, <1>3, LedgerInvariant, PTL DEF Spec

=============================================================================
