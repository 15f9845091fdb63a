----------------------------- MODULE DailyUsage -----------------------------
(***************************************************************************)
(* What the analytics make of a meter's ledger, beside what the meter      *)
(* really consumed: the days and weeks a client asks for, and the day the  *)
(* next poll would call unusual.                                           *)
(***************************************************************************)
EXTENDS UsageLedger, UsageAnalytics

CONSTANT Thresholds   \* values of usageAnomalyThreshold

ASSUME DailyAssumption ==
    /\ Thresholds \subseteq Nat
    /\ HOURS_PER_DAY = HoursPerDay * MINUTES_PER_HOUR * SECONDS_PER_MINUTE
    /\ ANOMALY_BASELINE_DAYS < MAX_RANGE_DAYS   \* the baseline's range is accepted

Today == DayOf(clock)

\* Mutant: the day that is still under way is in the series.
FoundToday(usageAnomalyThreshold, lastAnomalyOn) ==
    EvaluateUsageAnomaly(
        Usage("daily", samples, Today - ANOMALY_BASELINE_DAYS, Today),
        usageAnomalyThreshold, lastAnomalyOn)

\* checkUsageAnomaly: the last completed day and the ones before it.
Found(usageAnomalyThreshold, lastAnomalyOn) ==
    IF lastAnomalyOn >= Today - 1 THEN {}
    ELSE EvaluateUsageAnomaly(
            Usage("daily", samples, Today - 1 - ANOMALY_BASELINE_DAYS, Today - 1),
            usageAnomalyThreshold, lastAnomalyOn)

-----------------------------------------------------------------------------
\* The last reading of a day, or the last one before it.
LastReading(day) ==
    Max({since} \union {w.windowEnd : w \in {v \in samples : v.windowEnd <= Midnight(day + 1)}})

\* What the meter consumed from the last reading before a range of days to the
\* last one in it.
Consumed(from, to) == used[LastReading(to)] - used[LastReading(from - 1)]

RechargesOf(from, to) ==
    {r \in history : /\ r.rechargeStatus = "success"
                     /\ LastReading(from - 1) < r.rechargedDate
                     /\ r.rechargedDate <= LastReading(to)}

\* The hours between the first reading and the last that lie in a bucket.
Watched(granularity, bucket, from, to) ==
    {hour \in (since + 1)..row.lastBalanceAt :
        /\ DayOf(hour - 1) \in from..to
        /\ Bucket(granularity, DayOf(hour - 1)) = bucket}

Observed == since # NoInstant

\* Any range of days that is accepted is billed what the meter consumed between
\* the readings it ends with, and what was paid to it, no hour twice and none
\* left out, however the windows lie across midnights and the ends of the range;
\* its points cover exactly the hours that were watched, and never more than
\* there are.
DaysAddUp ==
    Observed => \A from, to \in 0..Today : from <= to /\ to - from < MAX_RANGE_DAYS =>
       /\ \A granularity \in {"daily", "weekly"} :
             LET points == Usage(granularity, samples, from, to)
             IN  /\ TotalCost(points) = Consumed(from, to)
                 /\ TotalRecharged(points) = Paid(RechargesOf(from, to))
       /\ \A granularity \in USAGE_GRANULARITY :
             \A p \in Usage(granularity, samples, from, to) :
                /\ p.hours = Cardinality(Watched(granularity, p.bucket, from, to))
                /\ p.hours <= p.expected

\* The days of a checked range that stand out by what the meter consumed: the
\* last one that was watched, if it is not reported yet and exceeds the mean of
\* the watched days before it by the threshold, to the half percent.
Unusual(usageAnomalyThreshold, lastReportedDay) ==
    LET first  == Today - 1 - ANOMALY_BASELINE_DAYS
        watched == {d \in first..(Today - 1) : Watched("daily", d, d, d) # {}}
    IN  {d \in watched :
           LET n    == Cardinality({e \in watched : e < d})
               sum  == Consumed(first, d - 1)
               cost == Consumed(d, d)
           IN  /\ \A e \in watched : e <= d
               /\ d > lastReportedDay
               /\ n >= ANOMALY_MIN_BASELINE_DAYS
               /\ sum >= ANOMALY_MIN_BASELINE_COST * n
               /\ 200 * cost * n >= (199 + 2 * usageAnomalyThreshold) * sum}

\* The day a poll calls unusual is the last one of those that are over and were
\* watched, and the poll calls it so exactly when its consumption, from reading
\* to reading, stands out: no part of a day and no hour of another day decides.
UnusualDayFound ==
    Observed => \A threshold \in Thresholds, lastReported \in {NoDay, Today - 2} :
       {found.day : found \in Found(threshold, lastReported)}
          = Unusual(threshold, lastReported)

=============================================================================
