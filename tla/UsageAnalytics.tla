--------------------------- MODULE UsageAnalytics ---------------------------
(***************************************************************************)
(* modules/analytics/analytics.service.ts and modules/alerts/              *)
(* usage-anomaly.ts: windows made into days, weeks and weekdays, and the   *)
(* day that stands out.                                                    *)
(*                                                                         *)
(* Instants are whole hours in the reporting time zone, days are numbered, *)
(* and day d begins at its midnight, so that "less a microsecond" is in    *)
(* the hour before. Means stay quotients: nothing is rounded to paisa.     *)
(***************************************************************************)
EXTENDS Integers, FiniteSetsExt

CONSTANTS
    HOURS_PER_DAY,
    DAYS_PER_WEEK,
    MAX_RANGE_DAYS,
    ANOMALY_BASELINE_DAYS,
    ANOMALY_MIN_BASELINE_DAYS,
    ANOMALY_MIN_BASELINE_COST

ASSUME AnalyticsAssumption ==
    {HOURS_PER_DAY, DAYS_PER_WEEK, MAX_RANGE_DAYS, ANOMALY_BASELINE_DAYS,
     ANOMALY_MIN_BASELINE_DAYS, ANOMALY_MIN_BASELINE_COST} \subseteq Nat \ {0}

Midnight(day) == day * HOURS_PER_DAY

DayOf(instant) == instant \div HOURS_PER_DAY

-----------------------------------------------------------------------------
(***************************************************************************)
(* fetchBuckets                                                            *)
(***************************************************************************)
OpeningDay(w) == DayOf(w.windowStart)

\* Mutant: a window that ends at midnight closes on the day it touches.
ClosingDayTouched(w) == DayOf(w.windowEnd)

ClosingDay(w) == DayOf(w.windowEnd - 1)

\* bounds: the windows that overlap the range.
Bounds(samples, from, to) ==
    {w \in samples : w.windowEnd > Midnight(from) /\ w.windowStart < Midnight(to + 1)}

\* One row for each of the range's days that a window touches.
Spread(samples, from, to) ==
    {s \in [window : Bounds(samples, from, to), day : from..to] :
        s.day \in OpeningDay(s.window)..ClosingDay(s.window)}

Hours(s) == Min({s.window.windowEnd, Midnight(s.day + 1)})
               - Max({s.window.windowStart, Midnight(s.day)})

\* Cost and recharges land whole on the closing day.
Cost(s) == IF s.day = ClosingDay(s.window) THEN s.window.consumedCost ELSE 0
Recharged(s) == IF s.day = ClosingDay(s.window) THEN s.window.rechargePaid ELSE 0

-----------------------------------------------------------------------------
USAGE_GRANULARITY == {"daily", "weekly", "weekday"}

Bucket(granularity, day) ==
    CASE granularity = "daily"   -> day
      [] granularity = "weekly"  -> day \div DAYS_PER_WEEK
      [] granularity = "weekday" -> day % DAYS_PER_WEEK

\* A week that the range clips holds fewer days.
ExpectedDays(granularity, bucket, from, to) ==
    IF granularity = "weekly"
    THEN Cardinality({day \in from..to : Bucket("weekly", day) = bucket}) ELSE 1

\* toPoint, of one meter. Every figure is to be divided by "over": weekdays
\* are averaged over the days that were observed. Coverage is hours / expected.
Point(granularity, bucket, rows, from, to) ==
    LET days == {s.day : s \in rows}
        over == IF granularity = "weekday" THEN Cardinality(days) ELSE 1
    IN  [bucket    |-> bucket,
         cost      |-> MapThenSumSet(Cost, rows),
         recharged |-> IF granularity = "weekday" THEN 0 ELSE MapThenSumSet(Recharged, rows),
         hours     |-> MapThenSumSet(Hours, rows),
         expected  |-> over * HOURS_PER_DAY * ExpectedDays(granularity, bucket, from, to),
         over      |-> over]

\* usage: nothing for a range that resolveRange rejects.
Usage(granularity, samples, from, to) ==
    IF to < from \/ to - from >= MAX_RANGE_DAYS THEN {}
    ELSE LET spread == Spread(samples, from, to)
             In(b)  == {s \in spread : Bucket(granularity, s.day) = b}
         IN  {Point(granularity, b, In(b), from, to) :
                 b \in {Bucket(granularity, s.day) : s \in spread}}

TotalCost(points)      == MapThenSumSet(LAMBDA p : p.cost, points)
TotalRecharged(points) == MapThenSumSet(LAMBDA p : p.recharged, points)

-----------------------------------------------------------------------------
(***************************************************************************)
(* evaluateUsageAnomaly, of daily points, for a user who wants to know.    *)
(* No day is as old as NoDay.                                              *)
(***************************************************************************)
NoDay == -1000

\* slice(-1 - ANOMALY_BASELINE_DAYS, -1) of the days in order.
BaselineDays(days, subject) ==
    {p \in days \ {subject} :
        Cardinality({q \in days : p.bucket < q.bucket}) <= ANOMALY_BASELINE_DAYS}

\* Math.round of the percentage, where sum / n is the baseline.
PercentAbove(cost, sum, n) == (200 * (cost * n - sum) + sum) \div (2 * sum)

\* The finding, or none.
EvaluateUsageAnomaly(days, usageAnomalyThreshold, lastReportedDay) ==
    {[day          |-> subject.bucket,
      cost         |-> subject.cost,
      percentAbove |-> PercentAbove(subject.cost,
                                    TotalCost(BaselineDays(days, subject)),
                                    Cardinality(BaselineDays(days, subject)))] :
       subject \in
          {s \in days :
             LET baselineDays == BaselineDays(days, s)
                 n   == Cardinality(baselineDays)
                 sum == TotalCost(baselineDays)
             IN  /\ \A p \in days : p.bucket <= s.bucket
                 /\ s.bucket > lastReportedDay
                 /\ n >= ANOMALY_MIN_BASELINE_DAYS
                 /\ sum >= ANOMALY_MIN_BASELINE_COST * n
                 /\ PercentAbove(s.cost, sum, n) >= usageAnomalyThreshold}}

=============================================================================
