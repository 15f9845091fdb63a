----------------------------- MODULE UsageLedger -----------------------------
(***************************************************************************)
(* What meter_usage_sample records of one meter, poll after poll, beside   *)
(* what the meter really consumed.                                         *)
(*                                                                         *)
(* The portal settles the balance now and then and publishes it with the   *)
(* instant it covers; a poll may come long after, or several times between *)
(* two settlements. A poll here is the stretch from monitoredMeters to     *)
(* recordSuccess: BalanceSweep shows (RowsFresh) that nothing comes in     *)
(* between which the poll's copy of the row would miss.                    *)
(***************************************************************************)
EXTENDS UsageSampling, PortalPage

CONSTANTS
    Costs,         \* what the meter may consume in an hour
    UsableAmount,  \* what a top-up credits
    PaidAmount,    \* what it costs
    MaxHour,       \* bound: the last hour
    MaxRecharges,  \* bound: rows of the recharge history
    StampFaults    \* which of PossibleStampFaults the portal is prone to

\* "missing": the page shows no usable stamp; "ahead": its clock is ahead of
\* the poll.
PossibleStampFaults == {"missing", "ahead"}

ASSUME LedgerAssumption ==
    /\ Costs \subseteq Nat
    /\ UsableAmount \in Nat /\ PaidAmount \in Nat
    /\ MaxHour \in Nat \ {0}
    /\ MaxRecharges \in Nat
    /\ StampFaults \subseteq PossibleStampFaults

VARIABLES
    clock,      \* the current hour
    used,       \* used[t]: all the meter has consumed up to hour t
    history,    \* the recharges the portal lists
    settledAt,  \* the instant the published balance covers
    row,        \* meter_alert_state: last_balance and last_balance_at
    since,      \* the instant of the very first reading
    samples     \* meter_usage_sample

vars == <<clock, used, history, settledAt, row, since, samples>>

worldVars == <<clock, used, history, settledAt>>

NoRow == [lastBalance |-> 0, lastBalanceAt |-> NoInstant]

\* Type invariant; what is recorded never lies in the future.
TypeOK ==
    /\ clock \in 1..MaxHour
    /\ used \in [1..clock -> Nat]
    /\ history \subseteq Recharge
    /\ settledAt \in 1..clock
    /\ row \in [lastBalance : Int, lastBalanceAt : 0..clock]
    /\ since \in 0..clock
    /\ samples \subseteq UsageSample
    /\ \A w \in samples : w.windowStart < w.windowEnd /\ w.windowEnd <= clock

Init ==
    /\ clock = 1
    /\ used = [t \in {1} |-> 0]
    /\ history = {}
    /\ settledAt = 1
    /\ row = NoRow
    /\ since = NoInstant
    /\ samples = {}

-----------------------------------------------------------------------------
(***************************************************************************)
(* The meter and the portal. A balance published for hour t holds every    *)
(* successful recharge dated up to t, and none dated later.                *)
(***************************************************************************)
BalanceAt(t) ==
    Credited({r \in history : r.rechargeStatus = "success" /\ r.rechargedDate <= t})
       - used[t]

Tick ==
    /\ clock < MaxHour
    /\ \E cost \in Costs :
          used' = [t \in 1..(clock + 1) |->
                      IF t <= clock THEN used[t] ELSE used[clock] + cost]
    /\ clock' = clock + 1
    /\ UNCHANGED <<history, settledAt, row, since, samples>>

TopUp ==
    /\ settledAt < clock
    /\ \A r \in history : r.rechargedDate < clock
    /\ Cardinality(history) < MaxRecharges
    /\ \E status \in {"success", "pending"} :
          history' = history \union {[rechargedDate  |-> clock,
                                      usableAmount   |-> UsableAmount,
                                      rechargeAmount |-> PaidAmount,
                                      rechargeStatus |-> status]}
    /\ UNCHANGED <<clock, used, settledAt, row, since, samples>>

Settle ==
    /\ settledAt' \in (settledAt + 1)..clock
    /\ UNCHANGED <<clock, used, history, row, since, samples>>

\* What the label of the balance ends with, in parentheses: the currency, and
\* the instant that is settled.
Currency == [legible |-> FALSE]

Labels ==
    {<<Currency, PrintStamp(settledAt)>>}
       \union (IF "missing" \in StampFaults THEN {<< >>, <<Currency>>} ELSE {})
       \union (IF "ahead" \in StampFaults
               THEN {<<Currency, PrintStamp(clock + 1)>>} ELSE {})

Number(n) == [kind |-> "number", amount |-> n]

\* The page of the meter. A minute shows of a recharge's date, no second.
PageOf(groups) ==
    [form  |-> <<[label |-> "office", suffixed |-> FALSE,
                  value |-> [kind |-> "other"], groups |-> << >>],
                 [label |-> "balance", suffixed |-> TRUE,
                  value |-> Number(BalanceAt(settledAt)), groups |-> groups]>>,
     table |-> [headers |-> <<"other", "usable", "amount", "date", "status">>,
                rows    |-> {<<"-", Number(r.usableAmount), Number(r.rechargeAmount),
                               PrintStamp(r.rechargedDate), r.rechargeStatus>> : r \in history}]]

\* What a poll may be served, and make of it.
Snapshots == UNION {GetRechargeSnapshot(PageOf(groups)) : groups \in Labels}

-----------------------------------------------------------------------------
(***************************************************************************)
(* A poll. A failed one leaves all of this as it is (recordFailure).       *)
(***************************************************************************)

\* buildSample: nothing to subtract from on a meter's first reading.
SampleOf(snapshot, at) ==
    IF row.lastBalanceAt = NoInstant THEN {}
    ELSE BuildUsageSample(row.lastBalance, snapshot.balance,
                          row.lastBalanceAt, at, snapshot.recharges)

\* ON CONFLICT (meter_id, window_start) DO NOTHING.
InsertSamples(old, new) ==
    old \union {w \in new : \A v \in old : v.windowStart # w.windowStart}

\* Mutant: a row whose balance did not move is not written again.
RecordUnlessSame(snapshot, at) ==
    /\ samples' = InsertSamples(samples, SampleOf(snapshot, at))
    /\ row' = IF row.lastBalanceAt # NoInstant /\ row.lastBalance = snapshot.balance
              THEN row
              ELSE [lastBalance |-> snapshot.balance, lastBalanceAt |-> at]

\* Mutant: the two statements are not one transaction.
RecordInTwo(snapshot, at) ==
    /\ samples' = InsertSamples(samples, SampleOf(snapshot, at))
    /\ row' \in {row, [lastBalance |-> snapshot.balance, lastBalanceAt |-> at]}

\* recordSuccess, in one transaction.
Record(snapshot, at) ==
    /\ samples' = InsertSamples(samples, SampleOf(snapshot, at))
    /\ row' = [lastBalance |-> snapshot.balance, lastBalanceAt |-> at]

Poll ==
    /\ \E snapshot \in Snapshots :
          LET at == ResolveReadingInstant(snapshot.balanceAsOf, clock)
          IN  /\ Record(snapshot, at)
              /\ since' = IF since = NoInstant THEN at ELSE since
    /\ UNCHANGED worldVars

-----------------------------------------------------------------------------
Next == Tick \/ TopUp \/ Settle \/ Poll

Spec == Init /\ [][Next]_vars

-----------------------------------------------------------------------------
Covers(w, hour) == w.windowStart < hour /\ hour <= w.windowEnd

\* The windows tile the time from the first reading to the last: every hour in
\* it lies in exactly one of them and none reaches beyond it, whatever the
\* portal's pace and the sweep's, so that no consumption is counted twice or
\* missed.
Tiles ==
    /\ \A hour \in (since + 1)..row.lastBalanceAt :
          \E w \in samples :
             /\ Covers(w, hour)
             /\ \A v \in samples : Covers(v, hour) => v = w
    /\ \A w \in samples : since <= w.windowStart /\ w.windowEnd <= row.lastBalanceAt

\* What a window found is what the meter consumed in it: recharges on the
\* bounds, rows that did not go through, and recharges the published balance
\* does not hold yet are all accounted for.
TrueDelta ==
    \A w \in samples : w.rawDelta = used[w.windowEnd] - used[w.windowStart]

\* A meter that never exceeds the ceiling in any hour has none of its
\* consumption suppressed, however long the portal or the sweep was down.
NothingSuppressed ==
    (\A cost \in Costs : cost <= MaxCostPerHour) =>
        \A w \in samples : w.consumedCost = w.rawDelta

\* A measurement that the primary key turns away is one already on record, so
\* that ignoring it loses nothing: the duplicate guard of recordSuccess. Stated
\* of every reading that the next poll may be served.
CollisionIsReplay ==
    \A snapshot \in Snapshots :
       LET at == ResolveReadingInstant(snapshot.balanceAsOf, clock)
       IN  \A w \in SampleOf(snapshot, at), v \in samples :
              v.windowStart = w.windowStart => v = w

=============================================================================
