-------------------------- MODULE DailyUsage_proofs --------------------------
(***************************************************************************)
(* That the analytics bill a meter for what it consumed, whatever range of *)
(* days they are asked for, and call the day unusual that is.              *)
(***************************************************************************)
EXTENDS DailyUsage, UsageLedger_proofs

(***************************************************************************)
(* Sums of sums.                                                           *)
(***************************************************************************)

LEMMA TotalOfNone ==
    ASSUME NEW weight PROVE Total(weight, {}) = 0
  BY TotalAdds, FS_EmptySet

LEMMA TotalOfOne ==
    ASSUME NEW weight, NEW x, weight[x] \in Nat
    PROVE  Total(weight, {x}) = weight[x]
<1>1. Amounts(weight, {x})
  BY FS_Singleton DEF Amounts
<1>2. Total(weight, {x}) = weight[x] + Total(weight, {x} \ {x})
  BY <1>1, TotalTakesOut
<1>3. {x} \ {x} = {}
  OBVIOUS
<1> QED BY <1>2, <1>3, TotalOfNone

\* A sum over groups that share nothing is the sum over all they hold.
LEMMA TotalOfGroups ==
    ASSUME NEW weight, NEW sum, NEW P, NEW rows, IsFiniteSet(P),
           Amounts(weight, UNION {rows[p] : p \in P}),
           \A p, q \in P : p # q => rows[p] \intersect rows[q] = {},
           \A p \in P : sum[p] = Total(weight, rows[p])
    PROVE  /\ Total(sum, P) = Total(weight, UNION {rows[p] : p \in P})
           /\ Amounts(sum, P)
<1> DEFINE All(Q) == UNION {rows[p] : p \in Q}
           Wrong(Q) == Total(sum, Q) # Total(weight, All(Q))
           T == {n \in Nat : \E Q \in SUBSET P : Cardinality(Q) = n /\ Wrong(Q)}
<1>1. \A Q \in SUBSET P : /\ IsFiniteSet(Q) /\ Cardinality(Q) \in Nat
                          /\ Amounts(weight, All(Q))
  <2> SUFFICES ASSUME NEW Q \in SUBSET P
               PROVE  IsFiniteSet(Q) /\ Cardinality(Q) \in Nat /\ Amounts(weight, All(Q))
    OBVIOUS
  <2>1. IsFiniteSet(Q) /\ Cardinality(Q) \in Nat
    BY FS_Subset, FS_CardinalityType
  <2>2. All(Q) \subseteq All(P)
    OBVIOUS
  <2> QED BY <2>1, <2>2, FS_Subset DEF Amounts
<1>2. \A p \in P : Amounts(weight, rows[p])
  <2> SUFFICES ASSUME NEW p \in P PROVE Amounts(weight, rows[p])
    OBVIOUS
  <2>1. rows[p] \subseteq All(P)
    OBVIOUS
  <2> QED BY <2>1, <1>1, FS_Subset DEF Amounts
<1>3. Amounts(sum, P)
  BY <1>2, TotalType DEF Amounts
<1>4. T = {}
  <2> SUFFICES ASSUME T # {} PROVE FALSE
    OBVIOUS
  <2>1. PICK n \in T : \A k \in T : n <= k
    <3> HIDE DEF T
    <3>1. T \subseteq Nat
      BY DEF T
    <3> QED BY <3>1, LeastNumber, Zenon
  <2>2. PICK Q \in SUBSET P : Cardinality(Q) = n /\ Wrong(Q)
    BY <2>1
  <2>3. Q # {}
    <3>1. ASSUME Q = {} PROVE FALSE
      <4>1. All(Q) = {}
        BY <3>1
      <4> QED BY <2>2, <3>1, <4>1, TotalOfNone
    <3> QED BY <3>1
  <2>4. PICK p \in Q : TRUE
    BY <2>3
  <2> DEFINE R == Q \ {p}
  <2>5. n - 1 \in Nat /\ Cardinality(R) = n - 1 /\ R \in SUBSET P /\ p \in P
    <3>1. IsFiniteSet(Q) /\ Cardinality(Q) \in Nat
      BY <1>1, <2>2
    <3>2. Cardinality(R) = Cardinality(Q) - 1 /\ Cardinality(R) \in Nat
      BY <3>1, <2>4, FS_RemoveElement, FS_CardinalityType
    <3>3. R \in SUBSET P /\ p \in P
      BY <2>2, <2>4
    <3> HIDE DEF R
    <3> QED BY <2>2, <3>1, <3>2, <3>3
  <2> HIDE DEF Wrong
  <2>6. ~Wrong(R)
    <3>1. n - 1 \notin T
      BY <2>1, <2>5
    <3> QED BY <2>5, <3>1
  <2>7. Total(sum, R) = Total(weight, All(R))
    BY <2>6, Zenon DEF Wrong
  <2>8. Total(sum, Q) = sum[p] + Total(sum, R)
    <3>1. Amounts(sum, Q)
      BY <1>1, <1>3, <2>2 DEF Amounts
    <3> QED BY <3>1, <2>4, TotalTakesOut
  <2>9. All(Q) = rows[p] \union All(R) /\ rows[p] \intersect All(R) = {}
    BY <2>2, <2>4, <2>5
  <2> HIDE DEF All
  <2>10. Total(weight, All(Q)) = Total(weight, rows[p]) + Total(weight, All(R))
    <3> DEFINE A == rows[p]
               B == All(R)
    <3>1. Amounts(weight, A \union B) /\ A \intersect B = {}
      BY <1>1, <2>2, <2>9
    <3> HIDE DEF A, B
    <3>2. Total(weight, A \union B) = Total(weight, A) + Total(weight, B)
      BY <3>1, TotalOfUnion
    <3> QED BY <2>9, <3>2, Zenon DEF A, B
  <2>11. Total(sum, Q) = Total(weight, All(Q))
    <3>1. sum[p] = Total(weight, rows[p])
      BY <2>5
    <3> HIDE DEF R
    <3> QED BY <2>7, <2>8, <2>10, <3>1, Zenon
  <2> QED BY <2>2, <2>11, Zenon DEF Wrong
<1>5. Cardinality(P) \in Nat /\ Cardinality(P) \notin T /\ P \in SUBSET P
  BY <1>1, <1>4
<1> QED BY <1>3, <1>5

\* A sum is that of any subset beyond which there is nothing to add.
LEMMA TotalOfRest ==
    ASSUME NEW weight, NEW S, NEW U \in SUBSET S, Amounts(weight, S),
           \A x \in S \ U : weight[x] = 0
    PROVE  Total(weight, S) = Total(weight, U)
<1> DEFINE V == S \ U
           none == [x \in V |-> Total(weight, {})]
<1>1. Total(weight, V) = 0
  <2> DEFINE T == {n \in Nat : \E s \in SUBSET V : Cardinality(s) = n /\ Total(weight, s) # 0}
  <2>0. \A s \in SUBSET V : IsFiniteSet(s) /\ Cardinality(s) \in Nat /\ Amounts(weight, s)
    BY FS_Subset, FS_CardinalityType DEF Amounts
  <2>1. T = {}
    <3> SUFFICES ASSUME T # {} PROVE FALSE
      OBVIOUS
    <3>1. PICK n \in T : \A k \in T : n <= k
      <4> HIDE DEF T
      <4>1. T \subseteq Nat
        BY DEF T
      <4> QED BY <4>1, LeastNumber, Zenon
    <3>2. PICK s \in SUBSET V : Cardinality(s) = n /\ Total(weight, s) # 0
      BY <3>1
    <3>3. PICK x \in s : TRUE
      BY <3>2, TotalOfNone
    <3>4. n - 1 \in Nat /\ Cardinality(s \ {x}) = n - 1 /\ s \ {x} \in SUBSET V
      BY <2>0, <3>2, <3>3, FS_RemoveElement, FS_CardinalityType, FS_EmptySet
    <3>5. Total(weight, s \ {x}) = 0
      <4>1. n - 1 \notin T
        BY <3>1, <3>4
      <4> QED BY <3>4, <4>1
    <3>6. Total(weight, s) = weight[x] + Total(weight, s \ {x})
      BY <2>0, <3>2, <3>3, TotalTakesOut
    <3>7. weight[x] = 0
      BY <3>2, <3>3
    <3> QED BY <3>2, <3>5, <3>6, <3>7
  <2>2. Cardinality(V) \in Nat /\ Cardinality(V) \notin T /\ V \in SUBSET V
    BY <2>0, <2>1
  <2> QED BY <2>2
<1>2. U \union V = S /\ U \intersect V = {}
  OBVIOUS
<1> HIDE DEF V
<1>3. Total(weight, S) = Total(weight, U) + Total(weight, V)
  BY <1>2, TotalOfUnion
<1>4. Total(weight, U) \in Nat
  BY FS_Subset, TotalType DEF Amounts
<1> QED BY <1>1, <1>3, <1>4

\* One for each member is how many there are.
LEMMA TotalOfOnes ==
    ASSUME NEW one, NEW S, IsFiniteSet(S), \A x \in S : one[x] = 1
    PROVE  Total(one, S) = Cardinality(S)
<1> DEFINE T == {n \in Nat : \E s \in SUBSET S : Cardinality(s) = n /\ Total(one, s) # n}
<1>1. \A s \in SUBSET S : IsFiniteSet(s) /\ Cardinality(s) \in Nat /\ Amounts(one, s)
  BY FS_Subset, FS_CardinalityType DEF Amounts
<1>2. T = {}
  <2> SUFFICES ASSUME T # {} PROVE FALSE
    OBVIOUS
  <2>1. PICK n \in T : \A k \in T : n <= k
    <3> HIDE DEF T
    <3>1. T \subseteq Nat
      BY DEF T
    <3> QED BY <3>1, LeastNumber, Zenon
  <2>2. PICK s \in SUBSET S : Cardinality(s) = n /\ Total(one, s) # n
    BY <2>1
  <2>3. PICK x \in s : TRUE
    BY <2>2, TotalOfNone, FS_EmptySet
  <2>4. n - 1 \in Nat /\ Cardinality(s \ {x}) = n - 1 /\ s \ {x} \in SUBSET S
    BY <1>1, <2>2, <2>3, FS_RemoveElement, FS_CardinalityType, FS_EmptySet
  <2>5. Total(one, s \ {x}) = n - 1
    <3>1. n - 1 \notin T
      BY <2>1, <2>4
    <3> QED BY <2>4, <3>1
  <2>6. Total(one, s) = one[x] + Total(one, s \ {x})
    BY <1>1, <2>2, <2>3, TotalTakesOut
  <2>7. one[x] = 1
    BY <2>2, <2>3
  <2> QED BY <2>2, <2>4, <2>5, <2>6, <2>7
<1> QED BY <1>1, <1>2

\* What is added step by step from one hour to another is the difference of the
\* two.
Steps(step, F, a, b) ==
    /\ F[a] \in Nat
    /\ \A h \in (a + 1)..b : step[h] \in Nat /\ F[h] = F[h - 1] + step[h]

LEMMA TotalOfSteps ==
    ASSUME NEW step, NEW F, NEW a \in Nat, NEW b \in Nat, a <= b, Steps(step, F, a, b)
    PROVE  Total(step, (a + 1)..b) = F[b] - F[a]
<1>0. /\ F[a] \in Nat
      /\ \A h \in (a + 1)..b : step[h] \in Nat /\ F[h] = F[h - 1] + step[h]
  BY DEF Steps
<1> DEFINE Right(n) == Total(step, (a + 1)..(a + n)) = F[a + n] - F[a] /\ F[a + n] \in Nat
           T == {n \in Nat : a + n <= b /\ ~Right(n)}
<1>1. T = {}
  <2> SUFFICES ASSUME T # {} PROVE FALSE
    OBVIOUS
  <2>1. PICK n \in T : \A k \in T : n <= k
    <3> HIDE DEF T
    <3>1. T \subseteq Nat
      BY DEF T
    <3> QED BY <3>1, LeastNumber, Zenon
  <2>2. n \in Nat /\ a + n <= b /\ ~Right(n)
    BY <2>1
  <2>3. n # 0
    <3>1. Right(0)
      <4>1. (a + 1)..(a + 0) = {} /\ a + 0 = a
        OBVIOUS
      <4>2. Total(step, (a + 1)..(a + 0)) = 0
        BY <4>1, TotalOfNone
      <4> QED BY <1>0, <4>1, <4>2
    <3> QED BY <2>2, <3>1
  <2> HIDE DEF Right
  <2>4. PICK m \in Nat : n = m + 1
    <3>1. n - 1 \in Nat /\ n = (n - 1) + 1
      BY <2>2, <2>3
    <3> QED BY <3>1
  <2>5. Right(m)
    <3>1. m \notin T /\ a + m <= b
      BY <2>1, <2>2, <2>4
    <3> QED BY <3>1
  <2> HIDE DEF T
  <2>6. Total(step, (a + 1)..(a + m)) = F[a + m] - F[a] /\ F[a + m] \in Nat
    BY <2>5 DEF Right
  <2> DEFINE S == (a + 1)..(a + n)
             h == a + n
  <2>7. h \in (a + 1)..b /\ h \in S /\ h - 1 = a + m
    BY <2>2, <2>4
  <2>8. S \ {h} = (a + 1)..(a + m) /\ S \subseteq (a + 1)..b
    BY <2>2, <2>4
  <2>9. Amounts(step, S)
    <3>1. IsFiniteSet(S)
      BY <2>2, FS_Interval
    <3> HIDE DEF S
    <3> QED BY <1>0, <3>1, <2>8 DEF Amounts
  <2> HIDE DEF S, h
  <2>10. Total(step, S) = step[h] + Total(step, S \ {h})
    BY <2>7, <2>9, TotalTakesOut
  <2>11. step[h] \in Nat /\ F[h] = F[a + m] + step[h]
    BY <1>0, <2>7
  <2>12. Total(step, S \ {h}) = F[a + m] - F[a]
    BY <2>6, <2>8, Zenon
  <2>13. Total(step, S) = F[h] - F[a] /\ F[h] \in Nat
    BY <1>0, <2>6, <2>10, <2>11, <2>12
  <2> QED BY <2>2, <2>13 DEF Right, S, h
<1>2. PICK n \in Nat : b = a + n
  <2>1. b - a \in Nat /\ b = a + (b - a)
    OBVIOUS
  <2> QED BY <2>1
<1>3. Right(n)
  <2> HIDE DEF Right
  <2>1. n \notin T /\ a + n <= b
    BY <1>1, <1>2
  <2> QED BY <2>1
<1> QED BY <1>2, <1>3

-----------------------------------------------------------------------------
(***************************************************************************)
(* Days and hours.                                                         *)
(***************************************************************************)
LEMMA DayLength == HOURS_PER_DAY \in Nat \ {0}
  BY AnalyticsAssumption

LEMMA MidnightsInOrder ==
    ASSUME NEW d \in Int, NEW e \in Int, d <= e
    PROVE  Midnight(d) \in Int /\ Midnight(d) <= Midnight(e)
<1>1. (e - d) \in Nat /\ (e - d) * HOURS_PER_DAY \in Nat
  BY DayLength
<1>2. e * HOURS_PER_DAY = d * HOURS_PER_DAY + (e - d) * HOURS_PER_DAY
  BY DayLength
<1>3. d * HOURS_PER_DAY \in Int
  BY DayLength
<1> QED BY <1>1, <1>2, <1>3 DEF Midnight

LEMMA NextMidnight ==
    ASSUME NEW d \in Int
    PROVE  /\ Midnight(d) \in Int
           /\ Midnight(d + 1) = Midnight(d) + HOURS_PER_DAY
  BY DayLength DEF Midnight

\* A day ends when the next begins.
LEMMA UpToDay ==
    ASSUME NEW t \in Nat, NEW d \in Int
    PROVE  /\ DayOf(t) \in Nat
           /\ DayOf(t) <= d <=> t < Midnight(d + 1)
           /\ d <= DayOf(t) <=> Midnight(d) <= t
<1> DEFINE q == DayOf(t)
<1>1. q \in Nat /\ Midnight(q) <= t /\ t < Midnight(q) + HOURS_PER_DAY
  BY Division, DayLength DEF DayOf, Midnight
<1> HIDE DEF q
<1>2. Midnight(q) \in Int /\ Midnight(d) \in Int
      /\ Midnight(q + 1) = Midnight(q) + HOURS_PER_DAY
      /\ Midnight(d + 1) = Midnight(d) + HOURS_PER_DAY
  BY <1>1, NextMidnight
<1>3. q <= d => Midnight(q) <= Midnight(d)
  BY <1>1, MidnightsInOrder
<1>4. d < q => Midnight(d + 1) <= Midnight(q)
  BY <1>1, MidnightsInOrder
<1>5. q < d => Midnight(q + 1) <= Midnight(d)
  BY <1>1, MidnightsInOrder
<1>6. d <= q => Midnight(d) <= Midnight(q)
  BY <1>1, MidnightsInOrder
<1> QED BY <1>1, <1>2, <1>3, <1>4, <1>5, <1>6, DayLength DEF q

\* A set of numbers that is bounded has a greatest member.
LEMMA GreatestNumber ==
    ASSUME NEW T, NEW m \in Nat, T \subseteq 0..m, T # {}
    PROVE  Max(T) \in T /\ \A y \in T : y <= Max(T)
<1> DEFINE U == {m - x : x \in T}
<1>1. PICK u \in U : \A v \in U : u <= v
  <2>1. \A x \in T : m - x \in Nat
    OBVIOUS
  <2>2. U \subseteq Nat /\ U # {}
    BY <2>1
  <2> HIDE DEF U
  <2> QED BY <2>2, LeastNumber
<1>2. PICK x \in T : u = m - x
  BY <1>1
<1>3. \A y \in T : m - x <= m - y
  BY <1>1, <1>2
<1>4. \A y \in T : x >= y
  BY <1>3
<1>5. Max(T) \in T /\ \A y \in T : Max(T) >= y
  BY <1>4, Zenon DEF Max
<1> QED BY <1>5

-----------------------------------------------------------------------------
(***************************************************************************)
(* The readings a range of days ends with, and the windows between them.   *)
(***************************************************************************)
LEMMA LastReadingOfDay ==
    ASSUME TilesInv, Observed, NEW day \in Int
    PROVE  /\ LastReading(day) \in since..row.lastBalanceAt
           /\ \A w \in samples :
                 /\ w.windowEnd <= Midnight(day + 1) <=> w.windowEnd <= LastReading(day)
                 /\ w.windowEnd <= LastReading(day) \/ LastReading(day) <= w.windowStart
<1> DEFINE last == row.lastBalanceAt
           ends == {w.windowEnd : w \in {v \in samples : v.windowEnd <= Midnight(day + 1)}}
           all  == {since} \union ends
<1>1. since \in Nat \ {0} /\ last \in Nat /\ since <= last
  BY DEF TilesInv, InstantsInv, Observed, NoInstant
<1>2. \A w \in samples : /\ w.windowStart \in Nat /\ w.windowEnd \in Nat
                         /\ w.windowStart < w.windowEnd
                         /\ since <= w.windowStart /\ w.windowEnd <= last
  BY DEF TilesInv, WindowsInv, Tiles
<1>3. all \subseteq 0..last /\ all # {}
  BY <1>1, <1>2
<1>4. LastReading(day) = Max(all)
  BY DEF LastReading
<1>5. Midnight(day + 1) \in Int
  BY NextMidnight
<1> HIDE DEF last
<1>6. PICK reading \in all : reading = LastReading(day) /\ \A y \in all : y <= reading
  <2> HIDE DEF all
  <2> QED BY <1>1, <1>3, <1>4, GreatestNumber
<1>7. reading \in since..last
  BY <1>1, <1>2
<1>8. ASSUME NEW w \in samples
      PROVE  w.windowEnd <= Midnight(day + 1) <=> w.windowEnd <= reading
  <2>1. w.windowEnd <= Midnight(day + 1) => w.windowEnd <= reading
    BY <1>6
  <2>2. CASE reading = since
    BY <1>1, <1>2, <2>1, <2>2
  <2>3. CASE reading \in ends
    BY <1>2, <1>5, <2>1, <2>3
  <2> QED BY <2>2, <2>3
<1>9. ASSUME NEW w \in samples
      PROVE  w.windowEnd <= reading \/ reading <= w.windowStart
  <2>1. CASE reading = since
    BY <1>2, <2>1
  <2>2. CASE reading \in ends
    <3>1. PICK v \in samples : v.windowEnd = reading
      BY <2>2
    <3>2. reading \in (since + 1)..last
      BY <1>1, <1>2, <3>1
    <3>3. PICK u \in samples : \A x \in samples : Covers(x, reading) => x = u
      BY <3>2 DEF TilesInv, Tiles, last
    <3>4. Covers(v, reading)
      BY <1>2, <3>1 DEF Covers
    <3>5. CASE Covers(w, reading)
      BY <1>2, <3>1, <3>3, <3>4, <3>5
    <3>6. CASE ~Covers(w, reading)
      BY <1>2, <3>1, <3>6 DEF Covers
    <3> QED BY <3>5, <3>6
  <2> QED BY <2>1, <2>2
<1> QED BY <1>6, <1>7, <1>8, <1>9 DEF last

\* The windows whose last instant lies between two.
Between(lo, hi) == {w \in samples : lo < w.windowEnd /\ w.windowEnd <= hi}

\* The windows that close within a range of days fill the time between the last
\* reading before it and the last one in it, and none lies across either.
Filled(from, to, lo, hi) ==
    /\ lo \in Nat /\ hi \in Nat /\ since <= lo /\ lo <= hi
    /\ hi <= row.lastBalanceAt
    /\ \A w \in samples : Midnight(from) < w.windowEnd /\ w.windowEnd <= Midnight(to + 1)
                             <=> w \in Between(lo, hi)
    /\ \A w \in Between(lo, hi) : lo <= w.windowStart
    /\ \A hour \in (lo + 1)..hi : \E w \in Between(lo, hi) : Covers(w, hour)
    /\ \A w, v \in samples : \A hour \in Nat :
          Covers(w, hour) /\ Covers(v, hour) => w = v

LEMMA RangeFilled ==
    ASSUME TilesInv, Observed, NEW from \in Int, NEW to \in Int, from <= to
    PROVE  Filled(from, to, LastReading(from - 1), LastReading(to))
<1> DEFINE last == row.lastBalanceAt
<1>0. PICK lo, hi : lo = LastReading(from - 1) /\ hi = LastReading(to)
  OBVIOUS
<1>1. since \in Nat \ {0} /\ last \in Nat /\ since <= last
  BY DEF TilesInv, InstantsInv, Observed, NoInstant
<1>2. \A w \in samples : /\ w.windowStart \in Nat /\ w.windowEnd \in Nat
                         /\ w.windowStart < w.windowEnd
                         /\ since <= w.windowStart /\ w.windowEnd <= last
  BY DEF TilesInv, WindowsInv, Tiles
<1>3. /\ lo \in since..last
      /\ \A w \in samples : /\ w.windowEnd <= Midnight(from) <=> w.windowEnd <= lo
                            /\ w.windowEnd <= lo \/ lo <= w.windowStart
  <2>1. from - 1 \in Int /\ (from - 1) + 1 = from
    OBVIOUS
  <2> QED BY <1>0, <2>1, LastReadingOfDay DEF last
<1>4. /\ hi \in since..last
      /\ \A w \in samples : /\ w.windowEnd <= Midnight(to + 1) <=> w.windowEnd <= hi
                            /\ w.windowEnd <= hi \/ hi <= w.windowStart
  BY <1>0, LastReadingOfDay DEF last
<1>5. Midnight(from) \in Int /\ Midnight(from) <= Midnight(to + 1) /\ Midnight(to + 1) \in Int
  BY MidnightsInOrder, NextMidnight
<1>6. ASSUME NEW hour \in (since + 1)..last
      PROVE  \E w \in samples : Covers(w, hour) /\ \A v \in samples : Covers(v, hour) => v = w
  BY DEF TilesInv, Tiles, last
<1>7. \A w, v \in samples : \A hour \in Nat : Covers(w, hour) /\ Covers(v, hour) => w = v
  <2> SUFFICES ASSUME NEW w \in samples, NEW v \in samples, NEW hour \in Nat,
                      Covers(w, hour), Covers(v, hour)
               PROVE  w = v
    BY Zenon
  <2>1. hour \in (since + 1)..last
    BY <1>1, <1>2 DEF Covers
  <2> QED BY <1>6, <2>1, Zenon
<1>8. lo <= hi
  <2>1. CASE lo = since
    BY <1>1, <1>4, <2>1
  <2>2. CASE lo # since
    <3>1. lo \in (since + 1)..last
      BY <1>1, <1>3, <2>2
    <3>2. PICK w \in samples : Covers(w, lo)
      BY <1>6, <3>1, Zenon
    <3>3. w.windowEnd = lo
      BY <1>2, <1>3, <3>1, <3>2 DEF Covers
    <3>4. lo <= Midnight(from)
      BY <1>2, <1>3, <3>3
    <3> QED BY <1>2, <1>3, <1>4, <1>5, <3>3, <3>4
  <2> QED BY <2>1, <2>2
<1>9. ASSUME NEW w \in samples
      PROVE  Midnight(from) < w.windowEnd /\ w.windowEnd <= Midnight(to + 1)
                <=> w \in Between(lo, hi)
  BY <1>2, <1>3, <1>4, <1>5 DEF Between
<1>10. \A w \in Between(lo, hi) : lo <= w.windowStart
  BY <1>2, <1>3 DEF Between
<1>11. ASSUME NEW hour \in (lo + 1)..hi
       PROVE  \E w \in Between(lo, hi) : Covers(w, hour)
  <2>1. hour \in (since + 1)..last
    BY <1>1, <1>3, <1>4
  <2>2. PICK w \in samples : Covers(w, hour)
    BY <1>6, <2>1, Zenon
  <2>3. w \in Between(lo, hi)
    BY <1>2, <1>3, <1>4, <2>1, <2>2 DEF Between, Covers
  <2> QED BY <2>2, <2>3
<1>12. lo \in Nat /\ hi \in Nat /\ since <= lo /\ hi <= row.lastBalanceAt
  BY <1>1, <1>3, <1>4
<1>13. Filled(from, to, lo, hi)
  BY <1>7, <1>8, <1>9, <1>10, <1>11, <1>12, Zenon DEF Filled
<1> QED BY <1>0, <1>13, Zenon

-----------------------------------------------------------------------------
(***************************************************************************)
(* The sums of the analytics.                                              *)
(***************************************************************************)

\* What each of some rows or points adds.
CostOfRow(S) == [x \in S |-> Cost(x)]

LEMMA CostTotal ==
    ASSUME NEW S, NEW U \in SUBSET S
    PROVE  MapThenSumSet(Cost, U) = Total(CostOfRow(S), U)
<1> DEFINE weight == CostOfRow(S)
           Plus(g, s) == IF s = {} THEN 0 ELSE Cost(Pick(s)) + g[s \ {Pick(s)}]
           Sums(g) == g = [s \in SUBSET U |-> Plus(g, s)]
<1>1. MapThenSumSet(Cost, U) = (CHOOSE g : Sums(g))[U]
  BY DEF MapThenSumSet, MapThenFoldSet, Pick
<1>2. ASSUME NEW g, NEW s \in SUBSET U PROVE Plus(g, s) = Adds(weight, g, s)
  <2>1. CASE s = {}
    BY <2>1 DEF Adds
  <2>2. CASE s # {}
    <3>1. Pick(s) \in S
      BY <2>2 DEF Pick
    <3> QED BY <2>2, <3>1 DEF Adds, CostOfRow
  <2> QED BY <2>1, <2>2
<1> HIDE DEF Plus, weight
<1>3. \A g : Sums(g) <=> IsSum(weight, U, g)
  BY <1>2 DEF IsSum
<1> HIDE DEF Sums
<1>4. (CHOOSE g : Sums(g)) = (CHOOSE g : IsSum(weight, U, g))
  BY <1>3
<1> QED BY <1>1, <1>4, Zenon DEF Total, weight

RechargedOfRow(S) == [x \in S |-> Recharged(x)]

LEMMA RechargedTotal ==
    ASSUME NEW S, NEW U \in SUBSET S
    PROVE  MapThenSumSet(Recharged, U) = Total(RechargedOfRow(S), U)
<1> DEFINE weight == RechargedOfRow(S)
           Plus(g, s) == IF s = {} THEN 0 ELSE Recharged(Pick(s)) + g[s \ {Pick(s)}]
           Sums(g) == g = [s \in SUBSET U |-> Plus(g, s)]
<1>1. MapThenSumSet(Recharged, U) = (CHOOSE g : Sums(g))[U]
  BY DEF MapThenSumSet, MapThenFoldSet, Pick
<1>2. ASSUME NEW g, NEW s \in SUBSET U PROVE Plus(g, s) = Adds(weight, g, s)
  <2>1. CASE s = {}
    BY <2>1 DEF Adds
  <2>2. CASE s # {}
    <3>1. Pick(s) \in S
      BY <2>2 DEF Pick
    <3> QED BY <2>2, <3>1 DEF Adds, RechargedOfRow
  <2> QED BY <2>1, <2>2
<1> HIDE DEF Plus, weight
<1>3. \A g : Sums(g) <=> IsSum(weight, U, g)
  BY <1>2 DEF IsSum
<1> HIDE DEF Sums
<1>4. (CHOOSE g : Sums(g)) = (CHOOSE g : IsSum(weight, U, g))
  BY <1>3
<1> QED BY <1>1, <1>4, Zenon DEF Total, weight

HoursOfRow(S) == [x \in S |-> Hours(x)]

LEMMA HoursTotal ==
    ASSUME NEW S, NEW U \in SUBSET S
    PROVE  MapThenSumSet(Hours, U) = Total(HoursOfRow(S), U)
<1> DEFINE weight == HoursOfRow(S)
           Plus(g, s) == IF s = {} THEN 0 ELSE Hours(Pick(s)) + g[s \ {Pick(s)}]
           Sums(g) == g = [s \in SUBSET U |-> Plus(g, s)]
<1>1. MapThenSumSet(Hours, U) = (CHOOSE g : Sums(g))[U]
  BY DEF MapThenSumSet, MapThenFoldSet, Pick
<1>2. ASSUME NEW g, NEW s \in SUBSET U PROVE Plus(g, s) = Adds(weight, g, s)
  <2>1. CASE s = {}
    BY <2>1 DEF Adds
  <2>2. CASE s # {}
    <3>1. Pick(s) \in S
      BY <2>2 DEF Pick
    <3> QED BY <2>2, <3>1 DEF Adds, HoursOfRow
  <2> QED BY <2>1, <2>2
<1> HIDE DEF Plus, weight
<1>3. \A g : Sums(g) <=> IsSum(weight, U, g)
  BY <1>2 DEF IsSum
<1> HIDE DEF Sums
<1>4. (CHOOSE g : Sums(g)) = (CHOOSE g : IsSum(weight, U, g))
  BY <1>3
<1> QED BY <1>1, <1>4, Zenon DEF Total, weight

CostOfPoint(S) == [x \in S |-> x.cost]

LEMMA PointsCost ==
    ASSUME NEW S, NEW U \in SUBSET S
    PROVE  TotalCost(U) = Total(CostOfPoint(S), U)
<1> DEFINE weight == CostOfPoint(S)
           Plus(g, s) == IF s = {} THEN 0 ELSE Pick(s).cost + g[s \ {Pick(s)}]
           Sums(g) == g = [s \in SUBSET U |-> Plus(g, s)]
<1>1. TotalCost(U) = (CHOOSE g : Sums(g))[U]
  BY DEF TotalCost, MapThenSumSet, MapThenFoldSet, Pick
<1>2. ASSUME NEW g, NEW s \in SUBSET U PROVE Plus(g, s) = Adds(weight, g, s)
  <2>1. CASE s = {}
    BY <2>1 DEF Adds
  <2>2. CASE s # {}
    <3>1. Pick(s) \in S
      BY <2>2 DEF Pick
    <3> QED BY <2>2, <3>1 DEF Adds, CostOfPoint
  <2> QED BY <2>1, <2>2
<1> HIDE DEF Plus, weight
<1>3. \A g : Sums(g) <=> IsSum(weight, U, g)
  BY <1>2 DEF IsSum
<1> HIDE DEF Sums
<1>4. (CHOOSE g : Sums(g)) = (CHOOSE g : IsSum(weight, U, g))
  BY <1>3
<1> QED BY <1>1, <1>4, Zenon DEF Total, weight

RechargedOfPoint(S) == [x \in S |-> x.recharged]

LEMMA PointsRecharged ==
    ASSUME NEW S, NEW U \in SUBSET S
    PROVE  TotalRecharged(U) = Total(RechargedOfPoint(S), U)
<1> DEFINE weight == RechargedOfPoint(S)
           Plus(g, s) == IF s = {} THEN 0 ELSE Pick(s).recharged + g[s \ {Pick(s)}]
           Sums(g) == g = [s \in SUBSET U |-> Plus(g, s)]
<1>1. TotalRecharged(U) = (CHOOSE g : Sums(g))[U]
  BY DEF TotalRecharged, MapThenSumSet, MapThenFoldSet, Pick
<1>2. ASSUME NEW g, NEW s \in SUBSET U PROVE Plus(g, s) = Adds(weight, g, s)
  <2>1. CASE s = {}
    BY <2>1 DEF Adds
  <2>2. CASE s # {}
    <3>1. Pick(s) \in S
      BY <2>2 DEF Pick
    <3> QED BY <2>2, <3>1 DEF Adds, RechargedOfPoint
  <2> QED BY <2>1, <2>2
<1> HIDE DEF Plus, weight
<1>3. \A g : Sums(g) <=> IsSum(weight, U, g)
  BY <1>2 DEF IsSum
<1> HIDE DEF Sums
<1>4. (CHOOSE g : Sums(g)) = (CHOOSE g : IsSum(weight, U, g))
  BY <1>3
<1> QED BY <1>1, <1>4, Zenon DEF Total, weight

-----------------------------------------------------------------------------
(***************************************************************************)
(* What was paid in a window, when no recharge was made within a minute.   *)
(***************************************************************************)
PaidInv ==
    OnTheMinute =>
       \A w \in samples :
          w.rechargePaid = Paid(RechargesWithin(history, w.windowStart, w.windowEnd))

LEMMA WindowsSettled ==
    ASSUME TilesInv
    PROVE  /\ clock \in Nat /\ settledAt \in 1..clock
           /\ \A w \in samples : /\ w.windowStart \in Nat /\ w.windowEnd \in Nat
                                 /\ w.windowStart < w.windowEnd /\ w.windowEnd <= settledAt
  BY DEF TilesInv, InstantsInv, WindowsInv, Tiles

LEMMA PollKeepsPaid ==
    ASSUME StampFaults = {}, TypeInv, InstantsInv, PaidInv, Poll
    PROVE  PaidInv'
<1>0. PICK snapshot \in Snapshots :
         Record(snapshot, ResolveReadingInstant(snapshot.balanceAsOf, clock))
  BY Zenon DEF Poll
<1>1. PICK at : at = ResolveReadingInstant(snapshot.balanceAsOf, clock) /\ Record(snapshot, at)
  BY <1>0
<1>2. history' = history /\ samples' = InsertSamples(samples, SampleOf(snapshot, at))
  BY <1>1, Zenon DEF Poll, worldVars, Record
<1> SUFFICES ASSUME OnTheMinute', NEW w \in samples'
             PROVE  w.rechargePaid = Paid(RechargesWithin(history, w.windowStart, w.windowEnd))
  BY <1>2, Zenon DEF PaidInv
<1>3. OnTheMinute
  BY <1>2, Zenon DEF OnTheMinute
<1>4. snapshot.recharges = history
  BY <1>3, SnapshotReadBack, ReadBackAsMade, Zenon DEF TypeInv, TypeOK
<1>5. w \in samples \/ w \in SampleOf(snapshot, at)
  BY <1>2, Zenon DEF InsertSamples
<1>6. CASE w \in samples
  BY <1>3, <1>6, Zenon DEF PaidInv
<1>7. CASE w \in SampleOf(snapshot, at)
  <2> DEFINE start == row.lastBalanceAt
  <2>1. w \in BuildUsageSample(row.lastBalance, snapshot.balance, start, at, history)
    BY <1>4, <1>7, Zenon DEF SampleOf
  <2>2. w = WindowOf(row.lastBalance, snapshot.balance, start, at, history)
    BY <2>1, WindowBuilt
  <2>3. /\ w.windowStart = start /\ w.windowEnd = at
        /\ w.rechargePaid = Paid(RechargesWithin(history, start, at))
    BY <2>2 DEF WindowOf
  <2> QED BY <2>3, Zenon
<1> QED BY <1>5, <1>6, <1>7

LEMMA TopUpKeepsPaid ==
    ASSUME TypeInv, TilesInv, PaidInv, TopUp
    PROVE  PaidInv'
<1>1. PICK r : r.rechargedDate = clock /\ history' = history \union {r}
  <2>1. PICK status \in {"success", "pending"} :
           history' = history \union {[rechargedDate  |-> clock,
                                       usableAmount   |-> UsableAmount,
                                       rechargeAmount |-> PaidAmount,
                                       rechargeStatus |-> status]}
    BY DEF TopUp
  <2> QED BY <2>1
<1>2. samples' = samples /\ settledAt < clock
  BY DEF TopUp
<1> SUFFICES ASSUME OnTheMinute', NEW w \in samples
             PROVE  w.rechargePaid = Paid(RechargesWithin(history', w.windowStart, w.windowEnd))
  BY <1>2, Zenon DEF PaidInv
<1>3. OnTheMinute
  BY <1>1 DEF OnTheMinute
<1>4. ~(r.rechargedDate <= w.windowEnd)
  BY <1>1, <1>2, WindowsSettled
<1>5. RechargesWithin(history', w.windowStart, w.windowEnd)
         = RechargesWithin(history, w.windowStart, w.windowEnd)
  BY <1>1, <1>4 DEF RechargesWithin
<1> QED BY <1>3, <1>5, Zenon DEF PaidInv

LEMMA StepKeepsPaid ==
    ASSUME StampFaults = {}, TypeInv, TilesInv, PaidInv, [Next]_vars
    PROVE  PaidInv'
<1>1. CASE Tick \/ Settle \/ UNCHANGED vars
  <2>1. history' = history /\ samples' = samples
    BY <1>1, Zenon DEF Tick, Settle, vars
  <2> QED BY <2>1, Zenon DEF PaidInv, OnTheMinute
<1>2. InstantsInv
  BY DEF TilesInv
<1> QED BY <1>1, <1>2, PollKeepsPaid, TopUpKeepsPaid, Zenon DEF Next

(***************************************************************************)
(* There are finitely many windows: no two end at the same instant.        *)
(***************************************************************************)
LEMMA FinitelyManyWindows ==
    ASSUME TilesInv, Observed
    PROVE  IsFiniteSet(samples)
<1> DEFINE f == [w \in samples |-> w.windowEnd]
           last == row.lastBalanceAt
<1>1. since \in Nat /\ last \in Nat
  BY DEF TilesInv, InstantsInv
<1>2. \A w \in samples : /\ w.windowStart \in Nat /\ w.windowEnd \in Nat
                         /\ w.windowStart < w.windowEnd
                         /\ since <= w.windowStart /\ w.windowEnd <= last
  BY DEF TilesInv, WindowsInv, Tiles
<1>3. \A w \in samples : w.windowEnd \in (since + 1)..last /\ Covers(w, w.windowEnd)
  BY <1>1, <1>2 DEF Covers
<1>4. \A w, v \in samples : w.windowEnd = v.windowEnd => w = v
  BY <1>3, Zenon DEF TilesInv, Tiles, last
<1>5. f \in Injection(samples, (since + 1)..last)
  BY <1>3, <1>4 DEF Injection, IsInjective
<1> HIDE DEF f
<1> QED BY <1>1, <1>5, FS_Injection, FS_Interval

-----------------------------------------------------------------------------
(***************************************************************************)
(* The rows of a range of days.                                            *)
(***************************************************************************)

\* The rows that carry what their window found.
Closing(from, to) == {s \in Spread(samples, from, to) : s.day = ClosingDay(s.window)}

RowsIn(granularity, bucket, from, to) ==
    {s \in Spread(samples, from, to) : Bucket(granularity, s.day) = bucket}

LEMMA FinitelyManyRows ==
    ASSUME TilesInv, Observed, NEW from \in Int, NEW to \in Int
    PROVE  IsFiniteSet(Spread(samples, from, to))
<1> DEFINE S == Spread(samples, from, to)
           f == [s \in S |-> <<s.window, s.day>>]
           T == samples \X (from..to)
<1>1. S \subseteq [window : samples, day : from..to]
  BY DEF Spread, Bounds
<1> HIDE DEF S
<1>2. f \in Injection(S, T)
  BY <1>1 DEF Injection, IsInjective
<1>3. IsFiniteSet(T)
  BY FinitelyManyWindows, FS_Interval, FS_Product
<1> HIDE DEF f, T
<1> QED BY <1>2, <1>3, FS_Injection DEF S

LEMMA ClosingDayInRange ==
    ASSUME TilesInv, NEW w \in samples, NEW from \in Int, NEW to \in Int
    PROVE  /\ ClosingDay(w) \in from..to
                 <=> Midnight(from) < w.windowEnd /\ w.windowEnd <= Midnight(to + 1)
           /\ OpeningDay(w) \in Nat /\ ClosingDay(w) \in Nat
           /\ OpeningDay(w) <= ClosingDay(w)
<1> DEFINE d == ClosingDay(w)
           last == w.windowEnd - 1
<1>1. w.windowStart \in Nat /\ last \in Nat /\ w.windowStart <= last
      /\ w.windowEnd = last + 1
  BY WindowsSettled
<1>2. d = DayOf(last) /\ OpeningDay(w) = DayOf(w.windowStart)
  BY DEF ClosingDay, OpeningDay
<1> HIDE DEF last, d
<1>3. /\ d \in Nat
      /\ d <= to <=> last < Midnight(to + 1)
      /\ from <= d <=> Midnight(from) <= last
  BY <1>1, <1>2, UpToDay
<1>4. last < Midnight(d + 1)
  BY <1>1, <1>2, <1>3, UpToDay
<1>5. DayOf(w.windowStart) \in Nat /\ (DayOf(w.windowStart) <= d <=> w.windowStart < Midnight(d + 1))
  BY <1>1, <1>3, UpToDay
<1>6. Midnight(from) \in Int /\ Midnight(to + 1) \in Int /\ Midnight(d + 1) \in Int
  BY <1>3, NextMidnight
<1> QED BY <1>1, <1>2, <1>3, <1>4, <1>5, <1>6 DEF d

\* One row closes each window of the range, and no other.
Closes(rows, windows) ==
    /\ \A s \in rows : s.window \in windows
    /\ \A w \in windows : \E s \in rows : s.window = w
    /\ \A s, r \in rows : s.window = r.window => s = r

LEMMA ClosingRows ==
    ASSUME TilesInv, NEW from \in Int, NEW to \in Int, NEW lo, NEW hi,
           Filled(from, to, lo, hi)
    PROVE  Closes(Closing(from, to), Between(lo, hi))
<1>1. \A w \in samples : Midnight(from) < w.windowEnd /\ w.windowEnd <= Midnight(to + 1)
                            <=> w \in Between(lo, hi)
  BY Zenon DEF Filled
<1>2. \A s \in Spread(samples, from, to) :
         /\ s \in [window : samples, day : from..to] /\ s.window \in samples
  BY DEF Spread, Bounds
<1>3. \A s \in Closing(from, to) : s.window \in Between(lo, hi)
  <2> SUFFICES ASSUME NEW s \in Closing(from, to) PROVE s.window \in Between(lo, hi)
    OBVIOUS
  <2>1. s.window \in samples /\ ClosingDay(s.window) \in from..to
    BY <1>2 DEF Closing
  <2> QED BY <1>1, <2>1, ClosingDayInRange
<1>4. ASSUME NEW w \in Between(lo, hi)
      PROVE  \E s \in Closing(from, to) : s.window = w
  <2> DEFINE s == [window |-> w, day |-> ClosingDay(w)]
  <2>1. w \in samples
    BY DEF Between
  <2>2. /\ ClosingDay(w) \in from..to /\ OpeningDay(w) \in Nat
        /\ ClosingDay(w) \in Nat /\ OpeningDay(w) <= ClosingDay(w)
        /\ Midnight(from) < w.windowEnd /\ w.windowEnd <= Midnight(to + 1)
    BY <1>1, <2>1, ClosingDayInRange
  <2>3. w.windowStart < Midnight(to + 1) /\ w.windowEnd > Midnight(from)
    BY <2>1, <2>2, WindowsSettled, NextMidnight
  <2>4. w \in Bounds(samples, from, to)
    BY <2>1, <2>3 DEF Bounds
  <2>5. ClosingDay(w) \in OpeningDay(w)..ClosingDay(w)
    BY <2>2
  <2>6. s \in Closing(from, to)
    BY <2>2, <2>4, <2>5 DEF Closing, Spread
  <2> QED BY <2>6
<1>5. \A s, r \in Closing(from, to) : s.window = r.window => s = r
  <2>1. \A s \in Closing(from, to) : /\ s \in [window : samples, day : from..to]
                                     /\ s.day = ClosingDay(s.window)
    BY <1>2 DEF Closing
  <2> HIDE DEF Closing
  <2> QED BY <2>1
<1> QED BY <1>3, <1>4, <1>5, Zenon DEF Closes

-----------------------------------------------------------------------------
(***************************************************************************)
(* What the rows add up to, when the windows found what was consumed and   *)
(* paid in them.                                                           *)
(***************************************************************************)
BilledTruly ==
    /\ TypeInv /\ TilesInv /\ PaceInv
    /\ \A w \in samples :
          /\ w.consumedCost = used[w.windowEnd] - used[w.windowStart]
          /\ w.rechargePaid = Paid(RechargesWithin(history, w.windowStart, w.windowEnd))

\* What the meter consumed in each hour.
HourlyUse == [hour \in 2..clock |-> used[hour] - used[hour - 1]]

HoursIn(w) == (w.windowStart + 1)..w.windowEnd

LEMMA HourlyUseType ==
    ASSUME TypeInv, PaceInv
    PROVE  \A hour \in 2..clock : /\ HourlyUse[hour] \in Nat
                                  /\ used[hour - 1] \in Nat
                                  /\ used[hour] = used[hour - 1] + HourlyUse[hour]
<1> SUFFICES ASSUME NEW hour \in 2..clock
             PROVE  /\ HourlyUse[hour] \in Nat
                    /\ used[hour - 1] \in Nat
                    /\ used[hour] = used[hour - 1] + HourlyUse[hour]
  OBVIOUS
<1>1. clock \in Nat
  BY LedgerAssumption DEF TypeInv, TypeOK
<1>2. hour \in 1..clock /\ hour - 1 \in 1..clock /\ hour - 1 <= hour
  BY <1>1
<1>3. used[hour] \in Nat /\ used[hour - 1] \in Nat
  BY <1>2 DEF TypeInv, TypeOK
<1>4. used[hour - 1] <= used[hour]
  BY <1>2, Zenon DEF PaceInv
<1>5. HourlyUse[hour] = used[hour] - used[hour - 1]
  BY DEF HourlyUse
<1> QED BY <1>3, <1>4, <1>5

\* Hour by hour the meter's consumption adds up to that of a stretch.
LEMMA UseOfStretch ==
    ASSUME TypeInv, PaceInv, NEW a \in Nat \ {0}, NEW b \in Nat, a <= b, b <= clock
    PROVE  /\ Total(HourlyUse, (a + 1)..b) = used[b] - used[a]
           /\ Amounts(HourlyUse, (a + 1)..b)
<1>1. clock \in Nat
  BY LedgerAssumption DEF TypeInv, TypeOK
<1>2. (a + 1)..b \subseteq 2..clock
  BY <1>1
<1>3. used[a] \in Nat
  BY <1>1 DEF TypeInv, TypeOK
<1>4. \A h \in (a + 1)..b : HourlyUse[h] \in Nat /\ used[h] = used[h - 1] + HourlyUse[h]
  BY <1>2, HourlyUseType
<1>5. IsFiniteSet((a + 1)..b)
  BY FS_Interval
<1>6. Steps(HourlyUse, used, a, b)
  BY <1>3, <1>4 DEF Steps
<1>7. Total(HourlyUse, (a + 1)..b) = used[b] - used[a]
  BY <1>6, TotalOfSteps
<1> QED BY <1>4, <1>5, <1>7 DEF Amounts

LEMMA CostOfRange ==
    ASSUME BilledTruly, Observed, NEW from \in Int, NEW to \in Int, from <= to
    PROVE  LET S == Spread(samples, from, to)
           IN  /\ Amounts(CostOfRow(S), S)
               /\ Total(CostOfRow(S), S) = Consumed(from, to)
<1> DEFINE S == Spread(samples, from, to)
           C == Closing(from, to)
           cost == CostOfRow(S)
<1> SUFFICES Amounts(cost, S) /\ Total(cost, S) = Consumed(from, to)
  OBVIOUS
<1>1. PICK lo, hi : lo = LastReading(from - 1) /\ hi = LastReading(to)
  OBVIOUS
<1>2. TypeInv /\ TilesInv /\ PaceInv
  BY DEF BilledTruly
<1>0. Filled(from, to, lo, hi)
  <2>1. Filled(from, to, LastReading(from - 1), LastReading(to))
    BY <1>2, RangeFilled
  <2> QED BY <1>1, <2>1, Zenon
<1>3. /\ lo \in Nat /\ hi \in Nat /\ since <= lo /\ lo <= hi /\ hi <= row.lastBalanceAt
      /\ \A w \in Between(lo, hi) : lo <= w.windowStart
      /\ \A hour \in (lo + 1)..hi : \E w \in Between(lo, hi) : Covers(w, hour)
      /\ \A w, v \in samples : \A hour \in Nat : Covers(w, hour) /\ Covers(v, hour) => w = v
  BY <1>0, Zenon DEF Filled
<1>4. /\ \A s \in C : s.window \in Between(lo, hi)
      /\ \A w \in Between(lo, hi) : \E s \in C : s.window = w
      /\ \A s, r \in C : s.window = r.window => s = r
  BY <1>0, <1>2, ClosingRows DEF Closes
<1>5. \A w \in samples : /\ w.windowStart \in Nat /\ w.windowEnd \in Nat
                         /\ w.windowStart < w.windowEnd /\ w.windowEnd <= clock
                         /\ w.windowStart # 0
  BY <1>2, WindowsSettled DEF TypeInv, TypeOK, UsageSample
<1>6. lo # 0 /\ hi <= clock /\ clock \in Nat
  BY <1>2, <1>3 DEF TilesInv, InstantsInv, Observed, NoInstant
<1>7. /\ \A s \in S : s.window \in samples
      /\ C \subseteq S
  BY DEF Spread, Bounds, Closing
<1>8. \A s \in S : s.window.consumedCost \in Nat
  BY <1>2, <1>7 DEF TypeInv, TypeOK, UsageSample
<1>9. \A s \in S : cost[s] = IF s \in C THEN s.window.consumedCost ELSE 0
  BY DEF CostOfRow, Cost, Closing
<1>10. IsFiniteSet(S)
  BY <1>2, FinitelyManyRows
<1> HIDE DEF S, C, cost
<1>11. Amounts(cost, S)
  BY <1>8, <1>9, <1>10 DEF Amounts
<1> DEFINE hours == [s \in C |-> HoursIn(s.window)]
<1>12. UNION {hours[s] : s \in C} = (lo + 1)..hi
  <2>1. ASSUME NEW s \in C, NEW hour \in HoursIn(s.window)
        PROVE  hour \in (lo + 1)..hi
    BY <1>3, <1>4, <1>5, <2>1 DEF HoursIn, Between
  <2>2. ASSUME NEW hour \in (lo + 1)..hi
        PROVE  \E s \in C : hour \in HoursIn(s.window)
    <3>1. PICK w \in Between(lo, hi) : Covers(w, hour)
      BY <1>3, Zenon
    <3>2. hour \in HoursIn(w)
      BY <1>3, <1>5, <3>1 DEF HoursIn, Between, Covers
    <3> QED BY <1>4, <3>2, Zenon
  <2> HIDE DEF HoursIn
  <2> QED BY <2>1, <2>2
<1>13. \A s, r \in C : s # r => hours[s] \intersect hours[r] = {}
  <2> SUFFICES ASSUME NEW s \in C, NEW r \in C, s # r,
                      NEW hour \in HoursIn(s.window) \intersect HoursIn(r.window)
               PROVE  FALSE
    OBVIOUS
  <2>1. s.window \in samples /\ r.window \in samples
    BY <1>7
  <2>2. hour \in Nat /\ Covers(s.window, hour) /\ Covers(r.window, hour)
    BY <1>5, <2>1 DEF Covers, HoursIn
  <2>3. s.window = r.window
    BY <1>3, <2>1, <2>2, Zenon
  <2> QED BY <1>4, <2>3, Zenon
<1>14. \A s \in C : cost[s] = Total(HourlyUse, hours[s])
  <2> SUFFICES ASSUME NEW s \in C PROVE cost[s] = Total(HourlyUse, HoursIn(s.window))
    OBVIOUS
  <2> DEFINE w == s.window
  <2>1. w \in samples /\ cost[s] = w.consumedCost
    BY <1>7, <1>9
  <2>2. w.consumedCost = used[w.windowEnd] - used[w.windowStart]
    BY <2>1, Zenon DEF BilledTruly
  <2>3. /\ w.windowStart \in Nat \ {0} /\ w.windowEnd \in Nat
        /\ w.windowStart <= w.windowEnd /\ w.windowEnd <= clock
    BY <1>5, <2>1
  <2> HIDE DEF w
  <2>4. Total(HourlyUse, (w.windowStart + 1)..w.windowEnd) = used[w.windowEnd] - used[w.windowStart]
    BY <1>2, <2>3, UseOfStretch
  <2> QED BY <2>1, <2>2, <2>4, Zenon DEF HoursIn, w
<1>15. Amounts(HourlyUse, (lo + 1)..hi) /\ Total(HourlyUse, (lo + 1)..hi) = used[hi] - used[lo]
  BY <1>2, <1>3, <1>6, UseOfStretch
<1>16. IsFiniteSet(C)
  BY <1>7, <1>10, FS_Subset
<1> HIDE DEF hours
<1>17. Total(cost, C) = used[hi] - used[lo]
  <2>1. Amounts(HourlyUse, UNION {hours[s] : s \in C})
    BY <1>12, <1>15
  <2>2. Total(cost, C) = Total(HourlyUse, UNION {hours[s] : s \in C})
    BY <1>13, <1>14, <1>16, <2>1, TotalOfGroups
  <2> QED BY <1>12, <1>15, <2>2
<1>18. Total(cost, S) = Total(cost, C)
  BY <1>7, <1>9, <1>11, TotalOfRest
<1> QED BY <1>1, <1>11, <1>17, <1>18 DEF Consumed

LEMMA PaymentsOfRange ==
    ASSUME BilledTruly, Observed, NEW from \in Int, NEW to \in Int, from <= to
    PROVE  LET S == Spread(samples, from, to)
           IN  /\ Amounts(RechargedOfRow(S), S)
               /\ Total(RechargedOfRow(S), S) = Paid(RechargesOf(from, to))
<1> DEFINE S == Spread(samples, from, to)
           C == Closing(from, to)
           paid == RechargedOfRow(S)
           payment == PaymentOf(history)
           found == RechargesOf(from, to)
<1> SUFFICES Amounts(paid, S) /\ Total(paid, S) = Paid(found)
  OBVIOUS
<1>1. PICK lo, hi : lo = LastReading(from - 1) /\ hi = LastReading(to)
  OBVIOUS
<1>2. TypeInv /\ TilesInv
  BY DEF BilledTruly
<1>3. Filled(from, to, lo, hi)
  <2>1. Filled(from, to, LastReading(from - 1), LastReading(to))
    BY <1>2, RangeFilled
  <2> QED BY <1>1, <2>1, Zenon
<1>4. /\ lo \in Nat /\ hi \in Nat /\ lo <= hi
      /\ \A w \in Between(lo, hi) : lo <= w.windowStart
      /\ \A hour \in (lo + 1)..hi : \E w \in Between(lo, hi) : Covers(w, hour)
      /\ \A w, v \in samples : \A hour \in Nat : Covers(w, hour) /\ Covers(v, hour) => w = v
  BY <1>3, Zenon DEF Filled
<1>5. /\ \A s \in C : s.window \in Between(lo, hi)
      /\ \A w \in Between(lo, hi) : \E s \in C : s.window = w
      /\ \A s, r \in C : s.window = r.window => s = r
  BY <1>2, <1>3, ClosingRows DEF Closes
<1>6. \A w \in samples : /\ w.windowStart \in Nat /\ w.windowEnd \in Nat
                         /\ w.windowStart < w.windowEnd
  BY <1>2, WindowsSettled
<1>7. /\ \A s \in S : s.window \in samples
      /\ C \subseteq S
  BY DEF Spread, Bounds, Closing
<1>8. \A s \in S : s.window.rechargePaid \in Nat
  BY <1>2, <1>7 DEF TypeInv, TypeOK, UsageSample
<1>9. \A s \in S : paid[s] = IF s \in C THEN s.window.rechargePaid ELSE 0
  BY DEF RechargedOfRow, Recharged, Closing
<1>10. IsFiniteSet(S)
  BY <1>2, FinitelyManyRows
<1>11. /\ IsFiniteSet(history)
       /\ \A r \in history : r.rechargedDate \in Nat /\ r.rechargeAmount \in Nat
  BY <1>2 DEF TypeInv, TypeOK, Recharge
<1>12. found = {r \in history : /\ r.rechargeStatus = "success"
                                /\ lo < r.rechargedDate /\ r.rechargedDate <= hi}
  BY <1>1, Zenon DEF RechargesOf
<1>13. \A r \in history : payment[r] = r.rechargeAmount
  BY DEF PaymentOf
<1> HIDE DEF S, C, paid, payment, found
<1>14. Amounts(paid, S)
  BY <1>8, <1>9, <1>10 DEF Amounts
<1> DEFINE within == [s \in C |-> RechargesWithin(history, s.window.windowStart, s.window.windowEnd)]
<1>15. \A s \in C : within[s] = {r \in history : r.rechargeStatus = "success"
                                                 /\ Covers(s.window, r.rechargedDate)}
  BY DEF RechargesWithin, Covers
<1>16. \A s \in C : paid[s] = Total(payment, within[s])
  <2> SUFFICES ASSUME NEW s \in C PROVE paid[s] = Total(payment, within[s])
    OBVIOUS
  <2>1. s.window \in samples /\ paid[s] = s.window.rechargePaid
    BY <1>7, <1>9
  <2>2. s.window.rechargePaid = Paid(within[s])
    BY <2>1 DEF BilledTruly
  <2>3. within[s] \in SUBSET history
    BY <1>15
  <2> QED BY <2>1, <2>2, <2>3, PaidTotal DEF payment
<1> HIDE DEF within
<1>17. UNION {within[s] : s \in C} = found
  <2>1. ASSUME NEW s \in C, NEW r \in within[s]
        PROVE  r \in found
    <3>1. s.window \in Between(lo, hi) /\ s.window \in samples
      BY <1>5, <1>7
    <3>2. r \in history /\ r.rechargeStatus = "success" /\ Covers(s.window, r.rechargedDate)
      BY <1>15, <2>1
    <3>3. lo < r.rechargedDate /\ r.rechargedDate <= hi
      BY <1>4, <1>6, <1>11, <3>1, <3>2 DEF Covers, Between
    <3> QED BY <1>12, <3>2, <3>3
  <2>2. ASSUME NEW r \in found
        PROVE  \E s \in C : r \in within[s]
    <3>1. r \in history /\ r.rechargeStatus = "success" /\ r.rechargedDate \in (lo + 1)..hi
      BY <1>4, <1>11, <1>12
    <3>2. PICK w \in Between(lo, hi) : Covers(w, r.rechargedDate)
      BY <1>4, <3>1, Zenon
    <3>3. PICK s \in C : s.window = w
      BY <1>5, Zenon
    <3> QED BY <1>15, <3>1, <3>2, <3>3
  <2> QED BY <2>1, <2>2
<1>18. \A s, r \in C : s # r => within[s] \intersect within[r] = {}
  <2> SUFFICES ASSUME NEW s \in C, NEW r \in C, s # r,
                      NEW x \in within[s] \intersect within[r]
               PROVE  FALSE
    OBVIOUS
  <2>1. s.window \in samples /\ r.window \in samples
    BY <1>7
  <2>2. /\ x.rechargedDate \in Nat
        /\ Covers(s.window, x.rechargedDate) /\ Covers(r.window, x.rechargedDate)
    BY <1>11, <1>15
  <2>3. s.window = r.window
    BY <1>4, <2>1, <2>2, Zenon
  <2> QED BY <1>5, <2>3, Zenon
<1>19. Amounts(payment, found) /\ found \in SUBSET history
  <2>1. found \in SUBSET history
    BY <1>12
  <2>2. IsFiniteSet(found)
    BY <1>11, <2>1, FS_Subset
  <2> QED BY <1>11, <1>13, <2>1, <2>2 DEF Amounts
<1>20. Total(paid, C) = Total(payment, found)
  <2>1. Amounts(payment, UNION {within[s] : s \in C})
    BY <1>17, <1>19
  <2>2. IsFiniteSet(C)
    BY <1>7, <1>10, FS_Subset
  <2>3. Total(paid, C) = Total(payment, UNION {within[s] : s \in C})
    BY <1>16, <1>18, <2>1, <2>2, TotalOfGroups
  <2> QED BY <1>17, <2>3
<1>21. Total(paid, S) = Total(paid, C)
  BY <1>7, <1>9, <1>14, TotalOfRest
<1>22. Paid(found) = Total(payment, found)
  BY <1>19, PaidTotal DEF payment
<1> QED BY <1>14, <1>20, <1>21, <1>22

-----------------------------------------------------------------------------
(***************************************************************************)
(* The hours of a row, and of a point.                                     *)
(***************************************************************************)
HoursAt(s) == {hour \in HoursIn(s.window) : DayOf(hour - 1) = s.day}

LEMMA LesserOfTwo ==
    ASSUME NEW a \in Int, NEW b \in Int
    PROVE  /\ Min({a, b}) = IF a <= b THEN a ELSE b
           /\ Max({a, b}) = IF a <= b THEN b ELSE a
  BY DEF Min, Max

LEMMA RowType ==
    ASSUME TilesInv, NEW from \in Int, NEW to \in Int, NEW s \in Spread(samples, from, to)
    PROVE  /\ s \in [window : samples, day : from..to] /\ s.window \in samples
           /\ s.day \in from..to /\ s.day \in Nat
           /\ s.window.windowStart < Midnight(s.day + 1)
           /\ Midnight(s.day) < s.window.windowEnd
<1> DEFINE w == s.window
           d == s.day
           last == w.windowEnd - 1
<1>1. s \in [window : samples, day : from..to] /\ w \in samples /\ d \in from..to
      /\ d \in DayOf(w.windowStart)..DayOf(last)
  BY DEF Spread, Bounds, OpeningDay, ClosingDay
<1>2. w.windowStart \in Nat /\ last \in Nat /\ w.windowEnd = last + 1
  BY <1>1, WindowsSettled
<1>3. d \in Int /\ from <= d /\ d <= to
  BY <1>1
<1> HIDE DEF last, d, w
<1>4. /\ DayOf(w.windowStart) \in Nat /\ DayOf(last) \in Nat
      /\ DayOf(w.windowStart) <= d <=> w.windowStart < Midnight(d + 1)
      /\ d <= DayOf(last) <=> Midnight(d) <= last
  BY <1>2, <1>3, UpToDay
<1>5. d \in Nat /\ w.windowStart < Midnight(d + 1) /\ Midnight(d) <= last
  BY <1>1, <1>3, <1>4
<1>6. Midnight(d) < w.windowEnd
  BY <1>2, <1>3, <1>5, NextMidnight
<1> QED BY <1>1, <1>5, <1>6 DEF w, d

LEMMA HoursCounted ==
    ASSUME TilesInv, NEW from \in Int, NEW to \in Int, NEW s \in Spread(samples, from, to)
    PROVE  /\ IsFiniteSet(HoursAt(s)) /\ Hours(s) = Cardinality(HoursAt(s))
           /\ HoursAt(s) # {}
<1> DEFINE start == s.window.windowStart
           end   == s.window.windowEnd
           first == Midnight(s.day)
           next  == Midnight(s.day + 1)
           lo    == IF start <= first THEN first ELSE start
           hi    == IF end <= next THEN end ELSE next
<1>1. s.window \in samples /\ s.day \in Nat /\ start < next /\ first < end
  BY RowType
<1>2. /\ start \in Nat /\ end \in Nat /\ start < end
      /\ first \in Int /\ next \in Int /\ first < next
  BY <1>1, WindowsSettled, NextMidnight, DayLength
<1>3. Hours(s) = hi - lo
  <2>1. Hours(s) = Min({end, next}) - Max({start, first})
    BY DEF Hours
  <2> HIDE DEF start, end, first, next
  <2>2. start \in Int /\ end \in Int /\ first \in Int /\ next \in Int
    BY <1>2
  <2>3. Min({end, next}) = hi /\ Max({start, first}) = lo
    BY <2>2, LesserOfTwo, Zenon
  <2> QED BY <2>1, <2>3
<1>4. HoursAt(s) = (lo + 1)..hi
  <2>1. ASSUME NEW hour \in (start + 1)..end
        PROVE  DayOf(hour - 1) = s.day <=> first < hour /\ hour <= next
    <3>1. hour - 1 \in Nat
      BY <1>2
    <3>2. /\ DayOf(hour - 1) \in Nat
          /\ DayOf(hour - 1) <= s.day <=> hour - 1 < next
          /\ s.day <= DayOf(hour - 1) <=> first <= hour - 1
      BY <1>1, <3>1, UpToDay
    <3> HIDE DEF first, next
    <3> QED BY <1>1, <1>2, <3>1, <3>2
  <2>2. HoursAt(s) = {hour \in (start + 1)..end : first < hour /\ hour <= next}
    BY <2>1 DEF HoursAt, HoursIn
  <2> HIDE DEF start, end, first, next
  <2> QED BY <1>2, <2>2
<1>5. lo \in Int /\ hi \in Int /\ lo < hi
  <2> HIDE DEF start, end, first, next
  <2> QED BY <1>1, <1>2 DEF start, end, first, next
<1> HIDE DEF lo, hi
<1>6. /\ IsFiniteSet((lo + 1)..hi)
      /\ Cardinality((lo + 1)..hi) = hi - lo
  BY <1>5, FS_Interval
<1>7. hi \in (lo + 1)..hi
  BY <1>5
<1> QED BY <1>3, <1>4, <1>6, <1>7

\* Each watched hour lies in one row of its bucket, and nothing else does.
LEMMA HoursOfRows ==
    ASSUME TilesInv, Observed, NEW from \in Int, NEW to \in Int, NEW granularity, NEW bucket
    PROVE  LET R == RowsIn(granularity, bucket, from, to)
               W == Watched(granularity, bucket, from, to)
           IN  /\ \A s \in R : HoursAt(s) \subseteq W
               /\ \A hour \in W : \E s \in R : hour \in HoursAt(s)
               /\ \A s, r \in R : s # r => HoursAt(s) \intersect HoursAt(r) = {}
<1> DEFINE last == row.lastBalanceAt
           S == Spread(samples, from, to)
           R == RowsIn(granularity, bucket, from, to)
           W == Watched(granularity, bucket, from, to)
<1>1. since \in Nat \ {0} /\ last \in Nat /\ since <= last
  BY DEF TilesInv, InstantsInv, Observed, NoInstant
<1>2. \A w \in samples : /\ w.windowStart \in Nat /\ w.windowEnd \in Nat
                         /\ w.windowStart < w.windowEnd
                         /\ since <= w.windowStart /\ w.windowEnd <= last
  BY DEF TilesInv, WindowsInv, Tiles
<1>3. \A s \in R : s \in S /\ Bucket(granularity, s.day) = bucket
  BY DEF RowsIn
<1>4. W = {hour \in (since + 1)..last : /\ DayOf(hour - 1) \in from..to
                                        /\ Bucket(granularity, DayOf(hour - 1)) = bucket}
  BY DEF Watched
<1>5. \A s \in S : /\ s \in [window : samples, day : from..to] /\ s.window \in samples
                   /\ s.day \in from..to
  BY RowType
<1> HIDE DEF W
<1>6. ASSUME NEW s \in R, NEW hour \in HoursAt(s)
      PROVE  hour \in W /\ Covers(s.window, hour) /\ DayOf(hour - 1) = s.day /\ s \in S
  <2> HIDE DEF R, S
  <2>1. s \in S /\ s.window \in samples /\ s.day \in from..to
        /\ Bucket(granularity, s.day) = bucket
    BY <1>3, <1>5
  <2>2. hour \in HoursIn(s.window) /\ DayOf(hour - 1) = s.day
    BY <1>6 DEF HoursAt
  <2>3. hour \in (since + 1)..last /\ Covers(s.window, hour)
    BY <1>1, <1>2, <2>1, <2>2 DEF HoursIn, Covers
  <2> QED BY <1>4, <2>1, <2>2, <2>3
<1>7. ASSUME NEW hour \in W
      PROVE  \E s \in R : hour \in HoursAt(s)
  <2> DEFINE d == DayOf(hour - 1)
             t == hour - 1
  <2>1. hour \in (since + 1)..last /\ d \in from..to /\ Bucket(granularity, d) = bucket
    BY <1>4
  <2>2. PICK w \in samples : Covers(w, hour)
    BY <2>1, Zenon DEF TilesInv, Tiles, last
  <2>3. t \in Nat /\ w.windowEnd - 1 \in Nat /\ w.windowStart <= t /\ t <= w.windowEnd - 1
    BY <1>1, <1>2, <2>1, <2>2 DEF Covers
  <2>4. d \in Nat /\ Midnight(d) <= t /\ t < Midnight(d + 1)
    <3>1. d \in Nat
      BY <2>3, UpToDay
    <3> QED BY <2>3, <3>1, UpToDay
  <2> HIDE DEF t
  <2>5. OpeningDay(w) \in Nat /\ ClosingDay(w) \in Nat /\ d \in OpeningDay(w)..ClosingDay(w)
    <3>1. DayOf(w.windowStart) \in Nat
          /\ (DayOf(w.windowStart) <= d <=> w.windowStart < Midnight(d + 1))
      BY <1>2, <2>4, UpToDay
    <3>2. DayOf(w.windowEnd - 1) \in Nat
          /\ (d <= DayOf(w.windowEnd - 1) <=> Midnight(d) <= w.windowEnd - 1)
      BY <2>3, <2>4, UpToDay
    <3>3. Midnight(d) \in Int /\ Midnight(d + 1) \in Int
      BY <2>4, NextMidnight
    <3> HIDE DEF d
    <3>4. DayOf(w.windowStart) <= d /\ d <= DayOf(w.windowEnd - 1)
      BY <1>2, <2>3, <2>4, <3>1, <3>2, <3>3
    <3> QED BY <2>4, <3>1, <3>2, <3>4 DEF OpeningDay, ClosingDay
  <2>6. w \in Bounds(samples, from, to)
    <3> HIDE DEF d
    <3>1. from <= d /\ d + 1 <= to + 1 /\ d \in Int
      BY <2>1, <2>4
    <3>2. /\ Midnight(from) \in Int /\ Midnight(from) <= Midnight(d)
          /\ Midnight(d + 1) <= Midnight(to + 1)
          /\ Midnight(d) \in Int /\ Midnight(d + 1) \in Int /\ Midnight(to + 1) \in Int
      BY <3>1, MidnightsInOrder, NextMidnight
    <3>3. w.windowEnd > Midnight(from) /\ w.windowStart < Midnight(to + 1)
      BY <1>2, <2>3, <2>4, <3>2
    <3> QED BY <3>3 DEF Bounds
  <2> DEFINE s == [window |-> w, day |-> d]
  <2>7. s \in S
    <3> HIDE DEF d
    <3> QED BY <2>1, <2>5, <2>6 DEF Spread
  <2>8. s \in R
    <3> HIDE DEF d
    <3> QED BY <2>1, <2>7 DEF RowsIn
  <2>9. hour \in HoursIn(w)
    BY <1>1, <1>2, <2>1, <2>2 DEF Covers, HoursIn
  <2>10. hour \in HoursAt(s)
    BY <2>9 DEF HoursAt
  <2> QED BY <2>8, <2>10
<1>8. ASSUME NEW s \in R, NEW r \in R, s # r
      PROVE  HoursAt(s) \intersect HoursAt(r) = {}
  <2> SUFFICES ASSUME NEW hour \in HoursAt(s), hour \in HoursAt(r)
               PROVE  s = r
    BY <1>8
  <2>1. /\ hour \in W /\ Covers(s.window, hour) /\ Covers(r.window, hour)
        /\ s.day = r.day /\ s \in S /\ r \in S
    <3> HIDE DEF S, R
    <3> QED BY <1>6
  <2>2. hour \in (since + 1)..last
    BY <1>4, <2>1
  <2>3. s.window = r.window
    BY <1>5, <2>1, <2>2, Zenon DEF TilesInv, Tiles, last
  <2> HIDE DEF S
  <2> QED BY <1>5, <2>1, <2>3
<1> QED BY <1>6, <1>7, <1>8 DEF W

\* So a point's hours are those that were watched.
LEMMA HoursOfPoint ==
    ASSUME TilesInv, Observed, NEW from \in Int, NEW to \in Int, NEW granularity, NEW bucket
    PROVE  /\ MapThenSumSet(Hours, RowsIn(granularity, bucket, from, to))
                 = Cardinality(Watched(granularity, bucket, from, to))
           /\ IsFiniteSet(Watched(granularity, bucket, from, to))
<1> DEFINE R == RowsIn(granularity, bucket, from, to)
           W == Watched(granularity, bucket, from, to)
           hours == HoursOfRow(R)
           at  == [s \in R |-> HoursAt(s)]
           one == [hour \in W |-> 1]
<1>1. /\ \A s \in R : HoursAt(s) \subseteq W
      /\ \A hour \in W : \E s \in R : hour \in HoursAt(s)
      /\ \A s, r \in R : s # r => HoursAt(s) \intersect HoursAt(r) = {}
  BY HoursOfRows
<1>2. R \subseteq Spread(samples, from, to)
  BY DEF RowsIn
<1>3. IsFiniteSet(R)
  BY <1>2, FinitelyManyRows, FS_Subset
<1>4. IsFiniteSet(W)
  <2>1. W \subseteq (since + 1)..row.lastBalanceAt
    BY DEF Watched
  <2>2. IsFiniteSet((since + 1)..row.lastBalanceAt)
    BY FS_Interval DEF TilesInv, InstantsInv
  <2> QED BY <2>1, <2>2, FS_Subset
<1>5. \A s \in R : IsFiniteSet(HoursAt(s)) /\ hours[s] = Cardinality(HoursAt(s))
  BY <1>2, HoursCounted DEF HoursOfRow
<1>6. MapThenSumSet(Hours, R) = Total(hours, R)
  BY HoursTotal
<1> HIDE DEF R, W, hours
<1>7. \A hour \in W : one[hour] = 1
  OBVIOUS
<1>8. \A s \in R : at[s] = HoursAt(s)
  OBVIOUS
<1> HIDE DEF one, at
<1>9. UNION {at[s] : s \in R} = W
  BY <1>1, <1>8
<1>10. \A s \in R : hours[s] = Total(one, at[s])
  <2> SUFFICES ASSUME NEW s \in R PROVE hours[s] = Total(one, at[s])
    OBVIOUS
  <2>1. IsFiniteSet(at[s]) /\ \A hour \in at[s] : one[hour] = 1
    BY <1>1, <1>5, <1>7, <1>8
  <2> QED BY <1>5, <1>8, <2>1, TotalOfOnes
<1>11. \A s, r \in R : s # r => at[s] \intersect at[r] = {}
  BY <1>1, <1>8, Zenon
<1>12. Amounts(one, UNION {at[s] : s \in R})
  BY <1>4, <1>7, <1>9 DEF Amounts
<1>13. Total(hours, R) = Total(one, UNION {at[s] : s \in R})
  BY <1>3, <1>10, <1>11, <1>12, TotalOfGroups
<1>14. Total(one, W) = Cardinality(W)
  BY <1>4, <1>7, TotalOfOnes
<1> QED BY <1>4, <1>6, <1>9, <1>13, <1>14, Zenon DEF R, W

\* Some days hold no more hours than they have.
LEMMA HoursOfDays ==
    ASSUME NEW D, IsFiniteSet(D), NEW W, IsFiniteSet(W),
           \A hour \in W : hour \in Nat \ {0} /\ DayOf(hour - 1) \in D
    PROVE  Cardinality(W) <= HOURS_PER_DAY * Cardinality(D)
<1> DEFINE H == 0..(HOURS_PER_DAY - 1)
           f == [hour \in W |-> <<DayOf(hour - 1), (hour - 1) % HOURS_PER_DAY>>]
<1>1. \A hour \in W : /\ (hour - 1) % HOURS_PER_DAY \in H
                      /\ hour - 1 = Midnight(DayOf(hour - 1)) + ((hour - 1) % HOURS_PER_DAY)
  <2> SUFFICES ASSUME NEW hour \in W
               PROVE  /\ (hour - 1) % HOURS_PER_DAY \in H
                      /\ hour - 1 = Midnight(DayOf(hour - 1)) + ((hour - 1) % HOURS_PER_DAY)
    OBVIOUS
  <2>1. hour - 1 \in Nat
    OBVIOUS
  <2> QED BY <2>1, Division, DayLength, Zenon DEF Midnight, DayOf
<1>2. \A x, y \in W : f[x] = f[y] => x = y
  <2> SUFFICES ASSUME NEW x \in W, NEW y \in W, f[x] = f[y] PROVE x = y
    OBVIOUS
  <2>1. /\ DayOf(x - 1) = DayOf(y - 1)
        /\ (x - 1) % HOURS_PER_DAY = (y - 1) % HOURS_PER_DAY
    OBVIOUS
  <2>2. x - 1 = y - 1
    BY <1>1, <2>1, Zenon
  <2> QED BY <2>2
<1>3. f \in [W -> D \X H]
  BY <1>1
<1>4. f \in Injection(W, D \X H)
  <2> HIDE DEF f, H
  <2> QED BY <1>2, <1>3 DEF Injection, IsInjective
<1>5. IsFiniteSet(H) /\ Cardinality(H) = HOURS_PER_DAY
  BY DayLength, FS_Interval
<1> HIDE DEF H, f
<1>6. IsFiniteSet(D \X H) /\ Cardinality(D \X H) = Cardinality(D) * HOURS_PER_DAY
  BY <1>5, FS_Product
<1>7. Cardinality(W) <= Cardinality(D \X H)
  BY <1>4, <1>6, FS_Injection
<1>8. Cardinality(D) * HOURS_PER_DAY = HOURS_PER_DAY * Cardinality(D)
  BY DayLength, FS_CardinalityType
<1> QED BY <1>6, <1>7, <1>8

-----------------------------------------------------------------------------
(***************************************************************************)
(* The points of a range.                                                  *)
(***************************************************************************)
LEMMA PointsOfRange ==
    ASSUME NEW from \in Int, NEW to \in Int, from <= to, to - from < MAX_RANGE_DAYS,
           NEW granularity
    PROVE  LET S == Spread(samples, from, to)
               points == Usage(granularity, samples, from, to)
               Rows(b) == RowsIn(granularity, b, from, to)
           IN  /\ \A p \in points :
                     /\ \E s \in S : p.bucket = Bucket(granularity, s.day)
                     /\ p = Point(granularity, p.bucket, Rows(p.bucket), from, to)
               /\ \A s \in S : \E p \in points : p.bucket = Bucket(granularity, s.day)
               /\ IsFiniteSet(S) => IsFiniteSet(points)
<1> DEFINE S == Spread(samples, from, to)
           points == Usage(granularity, samples, from, to)
           Rows(b) == RowsIn(granularity, b, from, to)
           PointOf(b) == Point(granularity, b, Rows(b), from, to)
           buckets == {Bucket(granularity, s.day) : s \in S}
<1>1. ~(to < from \/ to - from >= MAX_RANGE_DAYS)
  BY AnalyticsAssumption
<1>2. points = {PointOf(b) : b \in buckets}
  BY <1>1, Zenon DEF Usage, RowsIn
<1>3. \A b : PointOf(b).bucket = b
  BY DEF Point
<1> HIDE DEF PointOf
<1>4. \A p \in points : p.bucket \in buckets /\ p = PointOf(p.bucket)
  BY <1>2, <1>3, Zenon
<1>5. \A b \in buckets : \E p \in points : p.bucket = b
  BY <1>2, <1>3, Zenon
<1>6. IsFiniteSet(S) => IsFiniteSet(points)
  <2> SUFFICES ASSUME IsFiniteSet(S) PROVE IsFiniteSet(points)
    OBVIOUS
  <2> HIDE DEF points, S
  <2> DEFINE f == [s \in S |-> PointOf(Bucket(granularity, s.day))]
  <2>1. f \in Surjection(S, points)
    BY <1>2 DEF Surjection
  <2> HIDE DEF f
  <2> QED BY <2>1, FS_Surjection
<1> QED BY <1>4, <1>5, <1>6, Zenon DEF PointOf

SumOfCosts(rows) == MapThenSumSet(Cost, rows)
SumOfRecharges(rows) == MapThenSumSet(Recharged, rows)
SumOfHours(rows) == MapThenSumSet(Hours, rows)

DaysIn(rows) == {s.day : s \in rows}

LEMMA PointFields ==
    ASSUME NEW granularity, NEW bucket, NEW rows, NEW from, NEW to
    PROVE  /\ Point(granularity, bucket, rows, from, to).cost = SumOfCosts(rows)
           /\ granularity # "weekday" =>
                 Point(granularity, bucket, rows, from, to).recharged
                    = SumOfRecharges(rows)
           /\ Point(granularity, bucket, rows, from, to).hours = SumOfHours(rows)
           /\ Point(granularity, bucket, rows, from, to).expected
                 = (IF granularity = "weekday" THEN Cardinality(DaysIn(rows)) ELSE 1)
                      * HOURS_PER_DAY * ExpectedDays(granularity, bucket, from, to)
<1> DEFINE p == Point(granularity, bucket, rows, from, to)
           cost  == SumOfCosts(rows)
           paid  == IF granularity = "weekday" THEN 0 ELSE SumOfRecharges(rows)
           hours == SumOfHours(rows)
           over  == IF granularity = "weekday" THEN Cardinality(DaysIn(rows)) ELSE 1
           expected == over * HOURS_PER_DAY * ExpectedDays(granularity, bucket, from, to)
<1>1. p = [bucket |-> bucket, cost |-> cost, recharged |-> paid,
           hours |-> hours, expected |-> expected, over |-> over]
  BY DEF Point, SumOfCosts, SumOfRecharges, SumOfHours, DaysIn
<1> HIDE DEF cost, paid, hours, over, expected, p
<1>2. p.cost = cost /\ p.recharged = paid /\ p.hours = hours /\ p.expected = expected
  BY <1>1
<1> QED BY <1>2, Zenon DEF cost, paid, hours, over, expected, p

\* The points of a range add up to what its rows add up to.
LEMMA PointsAddUp ==
    ASSUME BilledTruly, Observed, NEW from \in Int, NEW to \in Int, from <= to,
           to - from < MAX_RANGE_DAYS, NEW granularity \in {"daily", "weekly"}
    PROVE  LET points == Usage(granularity, samples, from, to)
           IN  /\ TotalCost(points) = Consumed(from, to)
               /\ TotalRecharged(points) = Paid(RechargesOf(from, to))
<1> DEFINE S == Spread(samples, from, to)
           points == Usage(granularity, samples, from, to)
           rows == [p \in points |-> RowsIn(granularity, p.bucket, from, to)]
           cost == CostOfRow(S)
           paid == RechargedOfRow(S)
           costs == CostOfPoint(points)
           payments == RechargedOfPoint(points)
<1> SUFFICES /\ TotalCost(points) = Consumed(from, to)
             /\ TotalRecharged(points) = Paid(RechargesOf(from, to))
  OBVIOUS
<1>1. /\ \A p \in points :
            /\ \E s \in S : p.bucket = Bucket(granularity, s.day)
            /\ p = Point(granularity, p.bucket, RowsIn(granularity, p.bucket, from, to), from, to)
      /\ \A s \in S : \E p \in points : p.bucket = Bucket(granularity, s.day)
      /\ IsFiniteSet(S) => IsFiniteSet(points)
  BY PointsOfRange
<1>2. IsFiniteSet(S)
  BY FinitelyManyRows DEF BilledTruly
<1>3. /\ Amounts(cost, S) /\ Total(cost, S) = Consumed(from, to)
      /\ Amounts(paid, S) /\ Total(paid, S) = Paid(RechargesOf(from, to))
  BY CostOfRange, PaymentsOfRange
<1>4. /\ TotalCost(points) = Total(costs, points)
      /\ TotalRecharged(points) = Total(payments, points)
  BY PointsCost, PointsRecharged
<1>5. \A p \in points : rows[p] = {s \in S : Bucket(granularity, s.day) = p.bucket}
  BY DEF RowsIn
<1>6. ASSUME NEW p \in points
      PROVE  costs[p] = Total(cost, rows[p]) /\ payments[p] = Total(paid, rows[p])
  <2> DEFINE R == RowsIn(granularity, p.bucket, from, to)
  <2>1. p = Point(granularity, p.bucket, R, from, to)
    BY <1>1, Zenon
  <2>2. p.cost = SumOfCosts(R) /\ p.recharged = SumOfRecharges(R)
    <3> HIDE DEF R, rows, cost, paid, costs, payments, points
    <3>1. granularity # "weekday"
      OBVIOUS
    <3>2. /\ Point(granularity, p.bucket, R, from, to).cost = SumOfCosts(R)
          /\ Point(granularity, p.bucket, R, from, to).recharged = SumOfRecharges(R)
      BY <3>1, PointFields
    <3> QED BY <2>1, <3>2, Zenon
  <2>3. R \in SUBSET S
    BY DEF RowsIn
  <2>4. SumOfCosts(R) = Total(cost, R)
    BY <2>3, CostTotal DEF SumOfCosts
  <2>5. SumOfRecharges(R) = Total(paid, R)
    BY <2>3, RechargedTotal DEF SumOfRecharges
  <2>6. rows[p] = R
    OBVIOUS
  <2>7. costs[p] = p.cost /\ payments[p] = p.recharged
    BY DEF CostOfPoint, RechargedOfPoint
  <2> HIDE DEF R, rows, cost, paid, costs, payments
  <2> QED BY <2>2, <2>4, <2>5, <2>6, <2>7
<1> HIDE DEF S, points, rows, cost, paid, costs, payments
<1>7. UNION {rows[p] : p \in points} = S
  <2>1. \A s \in S : \E p \in points : s \in rows[p]
    BY <1>1, <1>5
  <2> QED BY <1>5, <2>1
<1>8. \A p, q \in points : p # q => rows[p] \intersect rows[q] = {}
  <2>1. \A p, q \in points : p.bucket = q.bucket => p = q
    BY <1>1, Zenon
  <2> QED BY <1>5, <2>1
<1>9. IsFiniteSet(points)
  BY <1>1, <1>2
<1>10. Total(costs, points) = Total(cost, S)
  <2>1. Amounts(cost, UNION {rows[p] : p \in points})
    BY <1>3, <1>7
  <2>2. \A p \in points : costs[p] = Total(cost, rows[p])
    BY <1>6
  <2>3. Total(costs, points) = Total(cost, UNION {rows[p] : p \in points})
    BY <1>8, <1>9, <2>1, <2>2, TotalOfGroups
  <2> QED BY <1>7, <2>3
<1>11. Total(payments, points) = Total(paid, S)
  <2>1. Amounts(paid, UNION {rows[p] : p \in points})
    BY <1>3, <1>7
  <2>2. \A p \in points : payments[p] = Total(paid, rows[p])
    BY <1>6
  <2>3. Total(payments, points) = Total(paid, UNION {rows[p] : p \in points})
    BY <1>8, <1>9, <2>1, <2>2, TotalOfGroups
  <2> QED BY <1>7, <2>3
<1> QED BY <1>3, <1>4, <1>10, <1>11

\* A point's hours are those that were watched, and fit into its days.
LEMMA HoursFit ==
    ASSUME TilesInv, Observed, NEW from \in Int, NEW to \in Int, from <= to,
           to - from < MAX_RANGE_DAYS, NEW granularity \in USAGE_GRANULARITY,
           NEW p \in Usage(granularity, samples, from, to)
    PROVE  /\ p.hours = Cardinality(Watched(granularity, p.bucket, from, to))
           /\ p.hours <= p.expected
<1> DEFINE S == Spread(samples, from, to)
           b == p.bucket
           R == RowsIn(granularity, b, from, to)
           W == Watched(granularity, b, from, to)
           seen == DaysIn(R)
           inRange == {day \in from..to : Bucket("weekly", day) = b}
           over == IF granularity = "weekday" THEN Cardinality(seen) ELSE 1
<1>1. p = Point(granularity, b, R, from, to)
  BY PointsOfRange
<1>2. /\ p.hours = SumOfHours(R)
      /\ p.expected = over * HOURS_PER_DAY * ExpectedDays(granularity, b, from, to)
  <2> HIDE DEF R
  <2>1. /\ Point(granularity, b, R, from, to).hours = SumOfHours(R)
        /\ Point(granularity, b, R, from, to).expected
              = over * HOURS_PER_DAY * ExpectedDays(granularity, b, from, to)
    BY PointFields
  <2> QED BY <1>1, <2>1, Zenon
<1>3. p.hours = Cardinality(W) /\ IsFiniteSet(W)
  BY <1>2, HoursOfPoint DEF SumOfHours
<1>4. \A s \in R : s \in S /\ s.day \in from..to
  BY RowType DEF RowsIn
<1>5. \A hour \in W : /\ hour \in Nat \ {0}
                      /\ DayOf(hour - 1) \in from..to
                      /\ Bucket(granularity, DayOf(hour - 1)) = b
  BY DEF Watched, TilesInv, InstantsInv
<1>6. \A hour \in W : DayOf(hour - 1) \in seen
  <2>1. \A hour \in W : \E s \in R : hour \in HoursAt(s)
    BY HoursOfRows
  <2>2. \A s \in R : \A hour \in HoursAt(s) : DayOf(hour - 1) = s.day
    BY DEF HoursAt
  <2> HIDE DEF W, R
  <2> QED BY <2>1, <2>2 DEF DaysIn
<1>7. IsFiniteSet(from..to)
  BY FS_Interval
<1>8. IsFiniteSet(seen) /\ IsFiniteSet(inRange)
  <2>1. seen \subseteq from..to /\ inRange \subseteq from..to
    BY <1>4 DEF DaysIn
  <2> QED BY <1>7, <2>1, FS_Subset
<1> HIDE DEF W, R
<1> SUFFICES p.hours <= p.expected
  BY <1>3 DEF W
<1>9. CASE granularity = "daily"
  <2>1. \A hour \in W : DayOf(hour - 1) = b
    BY <1>5, <1>9, Zenon DEF Bucket
  <2>2. IsFiniteSet({b}) /\ Cardinality({b}) = 1
    BY FS_Singleton
  <2>3. \A hour \in W : hour \in Nat \ {0} /\ DayOf(hour - 1) \in {b}
    BY <1>5, <2>1
  <2>4. Cardinality(W) <= HOURS_PER_DAY * Cardinality({b})
    BY <1>3, <2>2, <2>3, HoursOfDays
  <2>5. p.expected = 1 * HOURS_PER_DAY * 1
    BY <1>2, <1>9 DEF ExpectedDays
  <2> QED BY <1>3, <2>2, <2>4, <2>5, DayLength
<1>10. CASE granularity = "weekly"
  <2>1. \A hour \in W : hour \in Nat \ {0} /\ DayOf(hour - 1) \in inRange
    BY <1>5, <1>10
  <2>2. Cardinality(W) <= HOURS_PER_DAY * Cardinality(inRange)
    <3> HIDE DEF inRange
    <3> QED BY <1>3, <1>8, <2>1, HoursOfDays
  <2>3. p.expected = 1 * HOURS_PER_DAY * Cardinality(inRange)
    BY <1>2, <1>10 DEF ExpectedDays
  <2>4. Cardinality(inRange) \in Nat
    BY <1>8, FS_CardinalityType
  <2> HIDE DEF inRange
  <2> QED BY <1>3, <2>2, <2>3, <2>4, DayLength
<1>11. CASE granularity = "weekday"
  <2>1. \A hour \in W : hour \in Nat \ {0} /\ DayOf(hour - 1) \in seen
    BY <1>5, <1>6
  <2>2. Cardinality(W) <= HOURS_PER_DAY * Cardinality(seen)
    <3> HIDE DEF seen
    <3> QED BY <1>3, <1>8, <2>1, HoursOfDays
  <2>3. p.expected = Cardinality(seen) * HOURS_PER_DAY * 1
    BY <1>2, <1>11 DEF ExpectedDays
  <2>4. Cardinality(seen) \in Nat
    BY <1>8, FS_CardinalityType
  <2> HIDE DEF seen
  <2> QED BY <1>3, <2>2, <2>3, <2>4, DayLength
<1> QED BY <1>9, <1>10, <1>11 DEF USAGE_GRANULARITY

LEMMA RangesAddUp ==
    ASSUME BilledTruly
    PROVE  DaysAddUp
<1> SUFFICES ASSUME Observed, NEW from \in 0..Today, NEW to \in 0..Today, from <= to,
                    to - from < MAX_RANGE_DAYS
             PROVE  /\ \A granularity \in {"daily", "weekly"} :
                          LET points == Usage(granularity, samples, from, to)
                          IN  /\ TotalCost(points) = Consumed(from, to)
                              /\ TotalRecharged(points) = Paid(RechargesOf(from, to))
                    /\ \A granularity \in USAGE_GRANULARITY :
                          \A p \in Usage(granularity, samples, from, to) :
                             /\ p.hours = Cardinality(Watched(granularity, p.bucket, from, to))
                             /\ p.hours <= p.expected
  BY Zenon DEF DaysAddUp
<1>1. from \in Int /\ to \in Int
  OBVIOUS
<1>2. TilesInv
  BY DEF BilledTruly
<1> QED BY <1>1, <1>2, PointsAddUp, HoursFit

\* What holds of the ledger whatever happens, for a meter that keeps below the
\* ceiling and a portal that stamps its balances.
RecordInv == TypeInv /\ PaceInv /\ CostInv /\ LedgerInv /\ PaidInv

LEMMA RecordInvInitially ==
    ASSUME Init PROVE RecordInv
<1>1. PaceInv /\ CostInv
  BY PaceInit
<1>2. LedgerInv
  BY LedgerInit
<1>3. PaidInv
  BY DEF Init, PaidInv
<1> QED BY <1>1, <1>2, <1>3, InitTypeOK DEF RecordInv

LEMMA StepKeepsRecordInv ==
    ASSUME StampFaults = {}, WithinCeiling, RecordInv, [Next]_vars
    PROVE  RecordInv'
<1>1. TypeInv /\ PaceInv /\ CostInv /\ LedgerInv /\ PaidInv
  BY DEF RecordInv
<1>2. (TypeInv /\ PaceInv /\ CostInv)'
  BY <1>1, StepTypeOK, StepKeepsPace, StepKeepsCost
<1>3. LedgerInv'
  BY <1>1, StepKeepsDelta
<1>4. PaidInv'
  BY <1>1, StepKeepsPaid DEF LedgerInv
<1> QED BY <1>2, <1>3, <1>4 DEF RecordInv

LEMMA RecordIsTrue ==
    ASSUME StampFaults = {}, WithinCeiling, RecordInv, OnTheMinute
    PROVE  BilledTruly
<1>1. TypeInv /\ PaceInv /\ CostInv /\ LedgerInv /\ PaidInv
  BY DEF RecordInv
<1>2. TilesInv /\ TrueDelta
  BY <1>1 DEF LedgerInv, DeltaInv
<1>3. NothingSuppressed
  BY <1>1, <1>2, NoneSuppressed
<1>4. \A w \in samples : w.consumedCost = used[w.windowEnd] - used[w.windowStart]
  BY <1>2, <1>3 DEF NothingSuppressed, TrueDelta, WithinCeiling
<1>5. \A w \in samples :
         w.rechargePaid = Paid(RechargesWithin(history, w.windowStart, w.windowEnd))
  BY <1>1 DEF PaidInv
<1> QED BY <1>1, <1>2, <1>4, <1>5, Zenon DEF BilledTruly

(***************************************************************************)
(* For a meter that keeps below the ceiling, read from a portal that       *)
(* stamps its balances, any range of days is billed exactly what was       *)
(* consumed and paid between the readings it ends with, and its points     *)
(* cover the hours that were watched: for every length of day and week,    *)
(* every run of settlements, recharges and polls, and every place of the   *)
(* windows among the midnights. Recharges within a minute are excepted, as *)
(* in DeltasAreTrue.                                                       *)
(***************************************************************************)
THEOREM RangesAreBilledTruly ==
    ASSUME StampFaults = {}, WithinCeiling
    PROVE  Spec => [](OnTheMinute => DaysAddUp)
<1>1. Init => RecordInv
  BY RecordInvInitially
<1>2. RecordInv /\ [Next]_vars => RecordInv'
  BY StepKeepsRecordInv
<1>3. RecordInv => (OnTheMinute => DaysAddUp)
  BY RecordIsTrue, RangesAddUp
<1> QED BY <1>1, <1>2, <1>3, PTL DEF Spec

-----------------------------------------------------------------------------
(***************************************************************************)
(* The day that stands out.                                                *)
(***************************************************************************)

\* A day is billed in a longer range what it is billed alone.
LEMMA RowsOfDay ==
    ASSUME TilesInv, NEW from \in Int, NEW to \in Int, NEW d \in from..to
    PROVE  RowsIn("daily", d, from, to) = Spread(samples, d, d)
<1>1. d \in Int /\ from <= d /\ d <= to
  OBVIOUS
<1>2. \A s \in Spread(samples, from, to) :
         /\ s \in [window : samples, day : from..to]
         /\ s.window.windowStart < Midnight(s.day + 1)
         /\ Midnight(s.day) < s.window.windowEnd
  BY RowType
<1>3. \A s \in RowsIn("daily", d, from, to) :
         s \in Spread(samples, from, to) /\ s.day = d
  BY DEF RowsIn, Bucket
<1>4. ASSUME NEW s \in RowsIn("daily", d, from, to)
      PROVE  s \in Spread(samples, d, d)
  <2>1. s \in Spread(samples, from, to) /\ s.day = d /\ d \in d..d
    BY <1>1, <1>3
  <2>2. s \in [window : samples, day : from..to]
        /\ s.window.windowStart < Midnight(d + 1) /\ Midnight(d) < s.window.windowEnd
    BY <1>2, <2>1
  <2>3. s.window \in Bounds(samples, d, d)
    BY <1>1, <2>2, NextMidnight, WindowsSettled DEF Bounds
  <2>4. s.day \in OpeningDay(s.window)..ClosingDay(s.window)
    BY <2>1 DEF Spread
  <2>5. s \in [window : Bounds(samples, d, d), day : d..d]
    BY <2>1, <2>2, <2>3
  <2> QED BY <2>4, <2>5 DEF Spread
<1>5. ASSUME NEW s \in Spread(samples, d, d)
      PROVE  s \in RowsIn("daily", d, from, to)
  <2>1. /\ s \in [window : samples, day : d..d] /\ s.window \in samples /\ s.day = d
        /\ s.window.windowStart < Midnight(d + 1) /\ Midnight(d) < s.window.windowEnd
    BY <1>1, RowType
  <2>2. /\ Midnight(from) \in Int /\ Midnight(from) <= Midnight(d) /\ Midnight(d) \in Int
        /\ Midnight(d + 1) \in Int /\ Midnight(d + 1) <= Midnight(to + 1)
        /\ Midnight(to + 1) \in Int
    <3>1. d + 1 \in Int /\ to + 1 \in Int /\ d + 1 <= to + 1
      BY <1>1
    <3> QED BY <1>1, <3>1, MidnightsInOrder, NextMidnight
  <2>3. s.window.windowStart \in Nat /\ s.window.windowEnd \in Nat
    BY <2>1, WindowsSettled
  <2>4. s.window \in Bounds(samples, from, to)
    BY <2>1, <2>2, <2>3 DEF Bounds
  <2>5. s.day \in OpeningDay(s.window)..ClosingDay(s.window)
    BY DEF Spread
  <2>6. s \in [window : Bounds(samples, from, to), day : from..to]
    BY <2>1, <2>4
  <2>7. s \in Spread(samples, from, to)
    BY <2>5, <2>6 DEF Spread
  <2> QED BY <2>1, <2>7 DEF RowsIn, Bucket
<1> QED BY <1>4, <1>5

LEMMA ConsumedIsAmount ==
    ASSUME BilledTruly, Observed, NEW from \in Int, NEW to \in Int, from <= to
    PROVE  Consumed(from, to) \in Nat
  BY CostOfRange, TotalType

\* The daily points of a range: one for each day that was watched, billed what
\* that day consumed.
DayPoints(from, to) == Usage("daily", samples, from, to)

LEMMA DayPointsOfRange ==
    ASSUME BilledTruly, Observed, NEW from \in Int, NEW to \in Int, from <= to,
           to - from < MAX_RANGE_DAYS
    PROVE  /\ \A p \in DayPoints(from, to) :
                 p.bucket \in from..to /\ p.cost = Consumed(p.bucket, p.bucket) /\ p.cost \in Nat
           /\ \A p, q \in DayPoints(from, to) : p.bucket = q.bucket => p = q
           /\ \A d \in from..to :
                 Watched("daily", d, d, d) # {} <=> \E p \in DayPoints(from, to) : p.bucket = d
           /\ IsFiniteSet(DayPoints(from, to))
<1> DEFINE S == Spread(samples, from, to)
           points == Usage("daily", samples, from, to)
<1>1. TilesInv
  BY DEF BilledTruly
<1>2. /\ \A p \in points :
            /\ \E s \in S : p.bucket = Bucket("daily", s.day)
            /\ p = Point("daily", p.bucket, RowsIn("daily", p.bucket, from, to), from, to)
      /\ \A s \in S : \E p \in points : p.bucket = Bucket("daily", s.day)
      /\ IsFiniteSet(S) => IsFiniteSet(points)
  BY PointsOfRange
<1>3. IsFiniteSet(points)
  BY <1>1, <1>2, FinitelyManyRows
<1>4. \A s \in S : Bucket("daily", s.day) = s.day
  BY DEF Bucket
<1>5. \A s \in S : s.day \in from..to
  BY <1>1, RowType
<1>6. ASSUME NEW p \in points
      PROVE  p.bucket \in from..to /\ p.cost = Consumed(p.bucket, p.bucket) /\ p.cost \in Nat
  <2> HIDE DEF S, points
  <2>1. PICK d \in from..to : p.bucket = d
    BY <1>2, <1>4, <1>5
  <2>2. d \in Int
    OBVIOUS
  <2> DEFINE R == RowsIn("daily", d, from, to)
             D == Spread(samples, d, d)
  <2>3. p = Point("daily", d, R, from, to)
    BY <1>2, <2>1, Zenon
  <2>4. R = D
    BY <1>1, RowsOfDay
  <2>5. SumOfCosts(D) = Total(CostOfRow(D), D)
    BY CostTotal DEF SumOfCosts
  <2>6. Total(CostOfRow(D), D) = Consumed(d, d)
    BY <2>2, CostOfRange
  <2> HIDE DEF R, D
  <2>7. Point("daily", d, R, from, to).cost = SumOfCosts(R)
    BY PointFields
  <2>8. Consumed(d, d) \in Nat
    BY <2>2, ConsumedIsAmount
  <2> QED BY <2>1, <2>3, <2>4, <2>5, <2>6, <2>7, <2>8
<1>7. \A p, q \in points : p.bucket = q.bucket => p = q
  BY <1>2, Zenon
<1>8. ASSUME NEW d \in from..to
      PROVE  Watched("daily", d, d, d) # {} <=> \E p \in points : p.bucket = d
  <2> DEFINE D == Spread(samples, d, d)
  <2>1. RowsIn("daily", d, d, d) = D /\ RowsIn("daily", d, from, to) = D
    BY <1>1, RowsOfDay
  <2>2. d \in Int
    OBVIOUS
  <2>3. /\ \A s \in RowsIn("daily", d, d, d) : HoursAt(s) \subseteq Watched("daily", d, d, d)
        /\ \A hour \in Watched("daily", d, d, d) :
              \E s \in RowsIn("daily", d, d, d) : hour \in HoursAt(s)
    BY <1>1, <2>2, HoursOfRows
  <2>4. \A s \in D : HoursAt(s) # {}
    BY <1>1, <2>2, HoursCounted
  <2> HIDE DEF D
  <2>5. Watched("daily", d, d, d) # {} <=> D # {}
    BY <2>1, <2>3, <2>4
  <2>6. D # {} <=> \E s \in S : s.day = d
    <3>1. D = {s \in S : Bucket("daily", s.day) = d}
      BY <2>1 DEF RowsIn
    <3> HIDE DEF S
    <3> QED BY <1>4, <3>1
  <2> HIDE DEF S, points
  <2>7. (\E s \in S : s.day = d) <=> \E p \in points : p.bucket = d
    BY <1>2, <1>4
  <2> QED BY <2>5, <2>6, <2>7
<1> QED BY <1>3, <1>6, <1>7, <1>8 DEF DayPoints

LEMMA WholeDivision ==
    ASSUME NEW n \in Int, NEW d \in Nat \ {0}
    PROVE  n \div d \in Int /\ d * (n \div d) <= n /\ n < d * (n \div d) + d
<1>1. n \div d \in Int
  OBVIOUS
<1>2. n % d \in 0..(d - 1)
  OBVIOUS
<1>3. n = d * (n \div d) + (n % d)
  OBVIOUS
<1> QED BY <1>1, <1>2, <1>3

\* The rounded percentage reaches a threshold when the cost does, to the half
\* percent.
LEMMA Rounding ==
    ASSUME NEW cost \in Nat, NEW sum \in Nat \ {0}, NEW n \in Nat, NEW threshold \in Nat
    PROVE  PercentAbove(cost, sum, n) >= threshold
              <=> 200 * cost * n >= (199 + 2 * threshold) * sum
<1> DEFINE q == PercentAbove(cost, sum, n)
           a == cost * n
           b == threshold * sum
           c == q * sum
<1>1. a \in Nat /\ b \in Nat
  OBVIOUS
<1>2. /\ q \in Int
      /\ (2 * sum) * q <= 200 * (a - sum) + sum
      /\ 200 * (a - sum) + sum < (2 * sum) * q + 2 * sum
  <2> DEFINE x == 200 * (a - sum) + sum
             y == 2 * sum
  <2>1. x \in Int /\ y \in Nat \ {0}
    BY <1>1
  <2>2. q = x \div y
    BY DEF PercentAbove
  <2> HIDE DEF x, y, q, a
  <2>3. x \div y \in Int /\ y * (x \div y) <= x /\ x < y * (x \div y) + y
    BY <2>1, WholeDivision
  <2>4. q \in Int /\ y * q <= x /\ x < y * q + y
    BY <2>2, <2>3, Zenon
  <2> QED BY <2>4 DEF x, y
<1> HIDE DEF q
<1>3. c \in Int /\ (2 * sum) * q = 2 * c
  BY <1>2
<1>4. q >= threshold => c >= b
  <2> SUFFICES ASSUME q >= threshold PROVE c >= b
    OBVIOUS
  <2>1. q - threshold \in Nat /\ (q - threshold) * sum \in Nat
    BY <1>2
  <2>2. (q - threshold) * sum = c - b
    BY <1>2
  <2> QED BY <1>1, <1>3, <2>1, <2>2
<1>5. q < threshold => c + sum <= b
  <2> SUFFICES ASSUME q < threshold PROVE c + sum <= b
    OBVIOUS
  <2>1. threshold - q - 1 \in Nat /\ (threshold - q - 1) * sum \in Nat
    BY <1>2
  <2>2. (threshold - q - 1) * sum = b - c - sum
    BY <1>2
  <2> QED BY <1>1, <1>3, <2>1, <2>2
<1>6. 200 * cost * n = 200 * a /\ (199 + 2 * threshold) * sum = 199 * sum + 2 * b
  OBVIOUS
<1> HIDE DEF a, b, c
<1>7. q >= threshold <=> 200 * a >= 199 * sum + 2 * b
  BY <1>1, <1>2, <1>3, <1>4, <1>5
<1> QED BY <1>6, <1>7 DEF q
-----------------------------------------------------------------------------
\* The days of a range that were watched.
WatchedDays(from, to) == {d \in from..to : Watched("daily", d, d, d) # {}}

\* All the other days of the range are the baseline of the last one.
LEMMA BaselineIsTheRest ==
    ASSUME BilledTruly, Observed, NEW from \in Int, NEW to \in Int,
           to = from + ANOMALY_BASELINE_DAYS, NEW s \in DayPoints(from, to)
    PROVE  BaselineDays(DayPoints(from, to), s) = DayPoints(from, to) \ {s}
<1> DEFINE days == DayPoints(from, to)
<1>1. ANOMALY_BASELINE_DAYS \in Nat /\ from <= to /\ to - from < MAX_RANGE_DAYS
  BY AnalyticsAssumption, DailyAssumption
<1>2. /\ \A p \in days : p.bucket \in from..to
      /\ \A p, q \in days : p.bucket = q.bucket => p = q
  BY <1>1, DayPointsOfRange
<1> SUFFICES ASSUME NEW p \in days
             PROVE  Cardinality({q \in days : p.bucket < q.bucket}) <= ANOMALY_BASELINE_DAYS
  BY DEF BaselineDays
<1> HIDE DEF days
<1> DEFINE later == {q \in days : p.bucket < q.bucket}
           rest  == (from + 1)..to
           f     == [q \in later |-> q.bucket]
<1>3. \A q \in later : q.bucket \in rest
  BY <1>1, <1>2
<1>4. f \in Injection(later, rest)
  BY <1>2, <1>3 DEF Injection, IsInjective
<1>5. IsFiniteSet(rest) /\ Cardinality(rest) = to - from
  <2> DEFINE a == from + 1
  <2>1. a \in Int /\ a = from + 1
    OBVIOUS
  <2> HIDE DEF a
  <2>2. IsFiniteSet(a..to) /\ Cardinality(a..to) = IF a > to THEN 0 ELSE to - a + 1
    BY <2>1, FS_Interval
  <2> QED BY <1>1, <2>1, <2>2
<1> HIDE DEF later, rest, f
<1>6. Cardinality(later) <= Cardinality(rest)
  BY <1>4, <1>5, FS_Injection
<1> QED BY <1>1, <1>5, <1>6 DEF later

\* They are as many as the watched days before it.
LEMMA BaselineCounted ==
    ASSUME BilledTruly, Observed, NEW from \in Int, NEW to \in Int, from <= to,
           to - from < MAX_RANGE_DAYS, NEW s \in DayPoints(from, to),
           \A p \in DayPoints(from, to) : p.bucket <= s.bucket
    PROVE  /\ Cardinality(DayPoints(from, to) \ {s}) \in Nat
           /\ Cardinality(DayPoints(from, to) \ {s})
                 = Cardinality({e \in WatchedDays(from, to) : e < s.bucket})
<1> DEFINE days == DayPoints(from, to)
           rest == days \ {s}
           earlier == {e \in WatchedDays(from, to) : e < s.bucket}
           f == [p \in rest |-> p.bucket]
<1>1. /\ \A p \in days : p.bucket \in from..to
      /\ \A p, q \in days : p.bucket = q.bucket => p = q
      /\ \A d \in from..to : Watched("daily", d, d, d) # {} <=> \E p \in days : p.bucket = d
      /\ IsFiniteSet(days)
  BY DayPointsOfRange
<1>2. \A d : d \in WatchedDays(from, to) <=> \E p \in days : p.bucket = d
  BY <1>1 DEF WatchedDays
<1>3. \A p \in days : p.bucket <= s.bucket
  OBVIOUS
<1>4. s \in days
  OBVIOUS
<1> HIDE DEF days
<1>5. \A p \in rest : p.bucket \in earlier
  BY <1>1, <1>2, <1>3, <1>4
<1>6. \A e \in earlier : \E p \in rest : p.bucket = e
  BY <1>1, <1>2, <1>4
<1>7. IsFiniteSet(rest)
  BY <1>1, FS_Subset
<1>8. \A p, q \in rest : p.bucket = q.bucket => p = q
  BY <1>1
<1> HIDE DEF rest, earlier
<1>9. f \in Bijection(rest, earlier)
  BY <1>5, <1>6, <1>8 DEF Bijection, Injection, Surjection, IsInjective
<1>10. ExistsBijection(rest, earlier)
  BY <1>9 DEF ExistsBijection
<1>11. Cardinality(earlier) = Cardinality(rest) /\ Cardinality(rest) \in Nat
  BY <1>7, <1>10, FS_Bijection, FS_CardinalityType
<1> QED BY <1>11 DEF rest, earlier, days

\* No reading is taken on a day that was not watched.
LEMMA NoReadingUnwatched ==
    ASSUME TilesInv, Observed, NEW d \in Int, NEW to \in Int, d <= to,
           \A e \in (d + 1)..to : Watched("daily", e, e, e) = {}
    PROVE  LastReading(d) = LastReading(to)
<1>1. CASE d = to
  BY <1>1
<1>2. CASE d < to
  <2>1. PICK lo, hi : lo = LastReading(d) /\ hi = LastReading(to)
    OBVIOUS
  <2>2. d + 1 \in Int /\ d + 1 <= to /\ (d + 1) - 1 = d
    BY <1>2
  <2>3. Filled(d + 1, to, lo, hi)
    <3>1. Filled(d + 1, to, LastReading((d + 1) - 1), LastReading(to))
      BY <2>2, RangeFilled
    <3> QED BY <2>1, <2>2, <3>1
  <2>4. /\ lo \in Nat /\ hi \in Nat /\ since <= lo /\ lo <= hi /\ hi <= row.lastBalanceAt
        /\ \A w \in samples : Midnight(d + 1) < w.windowEnd /\ w.windowEnd <= Midnight(to + 1)
                                 <=> w \in Between(lo, hi)
        /\ \A hour \in (lo + 1)..hi : \E w \in Between(lo, hi) : Covers(w, hour)
    BY <2>3, Zenon DEF Filled
  <2>5. since \in Nat \ {0} /\ row.lastBalanceAt \in Nat
    BY DEF TilesInv, InstantsInv, Observed, NoInstant
  <2>6. ASSUME lo < hi PROVE FALSE
    <3>1. hi \in (lo + 1)..hi
      BY <2>4, <2>6
    <3>2. PICK w \in Between(lo, hi) : Covers(w, hi)
      BY <2>4, <3>1, Zenon
    <3>3. w \in samples /\ w.windowEnd \in Nat
      BY <3>2, WindowsSettled DEF Between
    <3>4. w.windowEnd = hi
      BY <2>4, <3>2, <3>3 DEF Between, Covers
    <3>5. Midnight(d + 1) < hi /\ hi <= Midnight(to + 1)
      BY <2>4, <3>2, <3>3, <3>4
    <3> DEFINE e == DayOf(hi - 1)
    <3>6. hi - 1 \in Nat
      BY <2>4, <2>6
    <3>7. /\ e \in Nat
          /\ e <= to <=> hi - 1 < Midnight(to + 1)
          /\ d + 1 <= e <=> Midnight(d + 1) <= hi - 1
      BY <2>2, <3>6, UpToDay
    <3>8. Midnight(d + 1) \in Int /\ Midnight(to + 1) \in Int
      BY <2>2, NextMidnight
    <3>9. e \in (d + 1)..to
      <4> HIDE DEF e
      <4> QED BY <2>2, <2>4, <3>5, <3>7, <3>8
    <3>10. hi \in (since + 1)..row.lastBalanceAt
      BY <2>4, <2>5, <2>6
    <3>11. e \in e..e
      BY <3>7
    <3>12. hi \in Watched("daily", e, e, e)
      BY <3>10, <3>11 DEF Watched, Bucket
    <3> QED BY <3>9, <3>12
  <2> QED BY <2>1, <2>4, <2>6
<1> QED BY <1>1, <1>2
\* What they cost is what was consumed before it.
LEMMA BaselineCost ==
    ASSUME BilledTruly, Observed, NEW from \in Int, NEW to \in Int, from <= to,
           to - from < MAX_RANGE_DAYS, NEW s \in DayPoints(from, to),
           \A p \in DayPoints(from, to) : p.bucket <= s.bucket
    PROVE  /\ TotalCost(DayPoints(from, to) \ {s}) \in Nat
           /\ TotalCost(DayPoints(from, to) \ {s}) = Consumed(from, s.bucket - 1)
<1> DEFINE days == DayPoints(from, to)
           weight == CostOfPoint(days)
           d == s.bucket
           spent(day) == used[LastReading(day)]
<1>1. /\ \A p \in days : p.bucket \in from..to /\ p.cost \in Nat
      /\ s.cost = Consumed(d, d)
      /\ \A e \in from..to : Watched("daily", e, e, e) # {} <=> \E p \in days : p.bucket = e
      /\ IsFiniteSet(days)
  BY DayPointsOfRange
<1>2. d \in Int /\ d \in from..to /\ s \in days /\ s.cost \in Nat
  BY <1>1
<1>3. TypeInv /\ TilesInv
  BY DEF BilledTruly
<1>4. TotalCost(days) = Consumed(from, to)
  BY PointsAddUp DEF DayPoints
<1>5. \A p \in days : p.bucket <= d
  OBVIOUS
<1> HIDE DEF days, d
<1>6. TotalCost(days) = s.cost + TotalCost(days \ {s}) /\ TotalCost(days \ {s}) \in Nat
  <2>1. Amounts(weight, days)
    BY <1>1 DEF Amounts, CostOfPoint
  <2>2. Total(weight, days) = weight[s] + Total(weight, days \ {s})
    BY <1>2, <2>1, TotalTakesOut
  <2>3. TotalCost(days) = Total(weight, days)
    BY PointsCost
  <2>4. TotalCost(days \ {s}) = Total(weight, days \ {s})
    BY PointsCost
  <2>5. weight[s] = s.cost
    BY <1>2 DEF CostOfPoint
  <2>6. Amounts(weight, days \ {s})
    BY <2>1, FS_Subset DEF Amounts
  <2>7. Total(weight, days \ {s}) \in Nat
    BY <2>6, TotalType
  <2> QED BY <2>2, <2>3, <2>4, <2>5, <2>7
<1>7. LastReading(d) = LastReading(to)
  <2>1. ASSUME NEW e \in (d + 1)..to PROVE Watched("daily", e, e, e) = {}
    <3>1. e \in from..to /\ d < e
      BY <1>2
    <3>2. \A p \in days : p.bucket # e
      BY <1>1, <1>2, <1>5, <3>1
    <3> QED BY <1>1, <3>1, <3>2
  <2>2. d <= to
    BY <1>2
  <2> QED BY <1>2, <1>3, <2>1, <2>2, NoReadingUnwatched
<1>8. \A e \in Int : spent(e) \in Nat
  <2> SUFFICES ASSUME NEW e \in Int PROVE spent(e) \in Nat
    OBVIOUS
  <2>1. LastReading(e) \in since..row.lastBalanceAt
    BY <1>3, LastReadingOfDay
  <2>2. /\ since \in Nat \ {0} /\ row.lastBalanceAt \in Nat /\ row.lastBalanceAt <= clock
        /\ clock \in Nat
    BY <1>3 DEF TilesInv, InstantsInv, Observed, NoInstant
  <2>3. LastReading(e) \in 1..clock
    BY <2>1, <2>2
  <2> QED BY <1>3, <2>3 DEF TypeInv, TypeOK
<1>9. /\ Consumed(from, to) = spent(to) - spent(from - 1)
      /\ Consumed(d, d) = spent(d) - spent(d - 1)
      /\ Consumed(from, d - 1) = spent(d - 1) - spent(from - 1)
  BY DEF Consumed
<1>10. spent(d) = spent(to)
  BY <1>7
<1>11. spent(to) \in Nat /\ spent(d - 1) \in Nat /\ spent(from - 1) \in Nat
  BY <1>2, <1>8
<1> HIDE DEF spent
<1>12. TotalCost(days \ {s}) = Consumed(from, d - 1)
  <2> DEFINE rest == TotalCost(days \ {s})
             a == spent(from - 1)
             b == spent(d - 1)
             c == spent(to)
  <2>1. rest \in Nat /\ a \in Nat /\ b \in Nat /\ c \in Nat
    BY <1>6, <1>11
  <2>2. c - a = (c - b) + rest
    BY <1>1, <1>4, <1>6, <1>9, <1>10
  <2>3. Consumed(from, d - 1) = b - a
    BY <1>9
  <2> HIDE DEF rest, a, b, c
  <2>4. rest = b - a
    BY <2>1, <2>2
  <2> QED BY <2>3, <2>4 DEF rest
<1> QED BY <1>6, <1>12 DEF days, d
\* The condition on the day a poll would report, and the one on what the meter
\* consumed.
Reported(days, threshold, last, s) ==
    LET baselineDays == BaselineDays(days, s)
        n   == Cardinality(baselineDays)
        sum == TotalCost(baselineDays)
    IN  /\ \A p \in days : p.bucket <= s.bucket
        /\ s.bucket > last
        /\ n >= ANOMALY_MIN_BASELINE_DAYS
        /\ sum >= ANOMALY_MIN_BASELINE_COST * n
        /\ PercentAbove(s.cost, sum, n) >= threshold

StandsOut(from, watched, threshold, last, d) ==
    LET n    == Cardinality({e \in watched : e < d})
        sum  == Consumed(from, d - 1)
        cost == Consumed(d, d)
    IN  /\ \A e \in watched : e <= d
        /\ d > last
        /\ n >= ANOMALY_MIN_BASELINE_DAYS
        /\ sum >= ANOMALY_MIN_BASELINE_COST * n
        /\ 200 * cost * n >= (199 + 2 * threshold) * sum

LEMMA ReportedStandsOut ==
    ASSUME BilledTruly, Observed, NEW from \in Int, NEW to \in Int,
           to = from + ANOMALY_BASELINE_DAYS, NEW threshold \in Nat, NEW last \in Int,
           NEW s \in DayPoints(from, to)
    PROVE  Reported(DayPoints(from, to), threshold, last, s)
              <=> StandsOut(from, WatchedDays(from, to), threshold, last, s.bucket)
<1> DEFINE days    == DayPoints(from, to)
           watched == WatchedDays(from, to)
           d       == s.bucket
           rest    == days \ {s}
           earlier == {e \in watched : e < d}
           n       == Cardinality(rest)
           sum     == TotalCost(rest)
           cost    == s.cost
           before  == Consumed(from, d - 1)
           today   == Consumed(d, d)
           N       == Cardinality(earlier)
           LastOne == \A p \in days : p.bucket <= d
           LastDay == \A e \in watched : e <= d
<1>1. from <= to /\ to - from < MAX_RANGE_DAYS
  BY AnalyticsAssumption, DailyAssumption
<1>2. BaselineDays(days, s) = rest
  BY BaselineIsTheRest
<1>3. /\ \A p \in days : p.bucket \in from..to
      /\ \A e \in from..to : Watched("daily", e, e, e) # {} <=> \E p \in days : p.bucket = e
      /\ cost = today /\ cost \in Nat
  BY <1>1, DayPointsOfRange
<1>4. LastOne <=> LastDay
  <2>1. \A e : e \in watched <=> \E p \in days : p.bucket = e
    BY <1>3 DEF WatchedDays
  <2> HIDE DEF days, watched, d
  <2> QED BY <2>1
<1>5. LastOne => n \in Nat /\ n = N
  BY <1>1, BaselineCounted
<1>6. LastOne => sum \in Nat /\ sum = before
  BY <1>1, BaselineCost
<1>7. Reported(days, threshold, last, s)
         <=> /\ LastOne
             /\ d > last
             /\ n >= ANOMALY_MIN_BASELINE_DAYS
             /\ sum >= ANOMALY_MIN_BASELINE_COST * n
             /\ PercentAbove(cost, sum, n) >= threshold
  <2> HIDE DEF rest
  <2> QED BY <1>2 DEF Reported
<1>8. StandsOut(from, watched, threshold, last, d)
         <=> /\ LastDay
             /\ d > last
             /\ N >= ANOMALY_MIN_BASELINE_DAYS
             /\ before >= ANOMALY_MIN_BASELINE_COST * N
             /\ 200 * today * N >= (199 + 2 * threshold) * before
  BY DEF StandsOut
<1> HIDE DEF days, watched, d, rest, earlier, n, sum, cost, before, today, N, LastOne, LastDay
<1>9. ASSUME LastOne, n >= ANOMALY_MIN_BASELINE_DAYS, sum >= ANOMALY_MIN_BASELINE_COST * n
      PROVE  PercentAbove(cost, sum, n) >= threshold
                <=> 200 * cost * n >= (199 + 2 * threshold) * sum
  <2>1. /\ ANOMALY_MIN_BASELINE_DAYS \in Nat \ {0}
        /\ ANOMALY_MIN_BASELINE_COST \in Nat \ {0}
    BY AnalyticsAssumption
  <2>2. n \in Nat \ {0} /\ sum \in Nat
    BY <1>5, <1>6, <1>9, <2>1
  <2>3. ANOMALY_MIN_BASELINE_COST * n \in Nat \ {0}
    <3>1. (ANOMALY_MIN_BASELINE_COST - 1) * n \in Nat
      BY <2>1, <2>2
    <3>2. ANOMALY_MIN_BASELINE_COST * n = (ANOMALY_MIN_BASELINE_COST - 1) * n + n
      BY <2>1, <2>2
    <3> QED BY <2>2, <3>1, <3>2
  <2>4. sum \in Nat \ {0}
    BY <1>9, <2>2, <2>3
  <2> QED BY <1>3, <2>2, <2>4, Rounding
<1>10. Reported(days, threshold, last, s)
          <=> /\ LastOne
              /\ d > last
              /\ n >= ANOMALY_MIN_BASELINE_DAYS
              /\ sum >= ANOMALY_MIN_BASELINE_COST * n
              /\ 200 * cost * n >= (199 + 2 * threshold) * sum
  BY <1>7, <1>9, Zenon
<1>11. Reported(days, threshold, last, s) <=> StandsOut(from, watched, threshold, last, d)
  <2>1. CASE LastOne
    <3>1. n = N /\ sum = before /\ cost = today
      BY <1>3, <1>5, <1>6, <2>1
    <3>2. LastDay
      BY <1>4, <2>1
    <3> QED BY <1>8, <1>10, <2>1, <3>1, <3>2, Zenon
  <2>2. CASE ~LastOne
    BY <1>4, <1>8, <1>10, <2>2, Zenon
  <2> QED BY <2>1, <2>2
<1> QED BY <1>11 DEF days, watched, d

LEMMA DaysReported ==
    ASSUME NEW days, NEW threshold, NEW last, NEW day
    PROVE  day \in {found.day : found \in EvaluateUsageAnomaly(days, threshold, last)}
              <=> \E s \in days : s.bucket = day /\ Reported(days, threshold, last, s)
<1> DEFINE subjects == {s \in days : Reported(days, threshold, last, s)}
           finding(s) == [day          |-> s.bucket,
                          cost         |-> s.cost,
                          percentAbove |-> PercentAbove(s.cost,
                                              TotalCost(BaselineDays(days, s)),
                                              Cardinality(BaselineDays(days, s)))]
<1>1. EvaluateUsageAnomaly(days, threshold, last) = {finding(s) : s \in subjects}
  BY Zenon DEF EvaluateUsageAnomaly, Reported
<1>2. \A s : finding(s).day = s.bucket
  OBVIOUS
<1> HIDE DEF finding
<1> QED BY <1>1, <1>2
LEMMA UnusualDayReported ==
    ASSUME BilledTruly
    PROVE  UnusualDayFound
<1> SUFFICES ASSUME Observed, NEW threshold \in Thresholds,
                    NEW last \in {NoDay, Today - 2}
             PROVE  {found.day : found \in Found(threshold, last)} = Unusual(threshold, last)
  BY Zenon DEF UnusualDayFound
<1> DEFINE to   == Today - 1
           from == to - ANOMALY_BASELINE_DAYS
           days == DayPoints(from, to)
           watched == WatchedDays(from, to)
<1>1. ANOMALY_BASELINE_DAYS \in Nat /\ threshold \in Nat
  BY AnalyticsAssumption, DailyAssumption
<1>2. Today \in Nat
  <2>1. clock \in Nat
    BY DEF BilledTruly, TilesInv, InstantsInv
  <2> QED BY <2>1, UpToDay DEF Today
<1>3. /\ to \in Int /\ from \in Int /\ to = from + ANOMALY_BASELINE_DAYS
      /\ last \in Int /\ ~(last >= Today - 1)
  BY <1>1, <1>2 DEF NoDay
<1>4. Found(threshold, last) = EvaluateUsageAnomaly(days, threshold, last)
  BY <1>3 DEF Found, DayPoints
<1>5. Unusual(threshold, last)
         = {d \in watched : StandsOut(from, watched, threshold, last, d)}
  BY Zenon DEF Unusual, StandsOut, WatchedDays
<1>6. \A d : d \in watched <=> \E p \in days : p.bucket = d
  <2>1. from <= to /\ to - from < MAX_RANGE_DAYS
    BY <1>1, <1>3, AnalyticsAssumption, DailyAssumption
  <2>2. /\ \A p \in days : p.bucket \in from..to
        /\ \A e \in from..to : Watched("daily", e, e, e) # {} <=> \E p \in days : p.bucket = e
    BY <1>3, <2>1, DayPointsOfRange
  <2> HIDE DEF from, to, days
  <2> QED BY <2>2 DEF WatchedDays
<1> HIDE DEF to, from
<1>7. \A s \in days :
         Reported(days, threshold, last, s)
            <=> StandsOut(from, watched, threshold, last, s.bucket)
  BY <1>1, <1>3, ReportedStandsOut
<1> HIDE DEF days, watched
<1>8. ASSUME NEW day
      PROVE  day \in {found.day : found \in Found(threshold, last)}
                <=> day \in Unusual(threshold, last)
  <2>1. day \in {found.day : found \in Found(threshold, last)}
           <=> \E s \in days : s.bucket = day /\ Reported(days, threshold, last, s)
    BY <1>4, DaysReported
  <2>2. day \in Unusual(threshold, last)
           <=> \E s \in days : s.bucket = day /\ StandsOut(from, watched, threshold, last, day)
    BY <1>5, <1>6
  <2> QED BY <1>7, <2>1, <2>2, Zenon
<1> QED BY <1>8
(***************************************************************************)
(* Of such a meter, and whatever the thresholds, the baseline's length and *)
(* its minima: a poll calls a day unusual exactly when it is the last day  *)
(* that is over and was watched and its consumption, from reading to       *)
(* reading, exceeds the mean of the watched days before it by the          *)
(* threshold. The rows that are clipped at the ends of the range, the cost *)
(* that lands whole on the day a window closes, the slice that takes the   *)
(* baseline and the rounding of the percentage change nothing of it.       *)
(***************************************************************************)
THEOREM UnusualDaysAreFound ==
    ASSUME StampFaults = {}, WithinCeiling
    PROVE  Spec => [](OnTheMinute => UnusualDayFound)
<1>1. Init => RecordInv
  BY RecordInvInitially
<1>2. RecordInv /\ [Next]_vars => RecordInv'
  BY StepKeepsRecordInv
<1>3. RecordInv => (OnTheMinute => UnusualDayFound)
  BY RecordIsTrue, UnusualDayReported
<1> QED BY <1>1, <1>2, <1>3, PTL DEF Spec

=============================================================================
