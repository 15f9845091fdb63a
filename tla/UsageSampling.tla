---------------------------- MODULE UsageSampling ----------------------------
(***************************************************************************)
(* modules/alerts/usage-sampling.ts: what a meter consumed between two     *)
(* readings of its balance, and which instant a reading describes.         *)
(*                                                                         *)
(* Instants are whole hours, so that a window's length is its windowHours. *)
(* Money is whole paisa: the code rounds every sum to two decimals, and    *)
(* its EPSILON of 0.01 taka is one paisa.                                  *)
(***************************************************************************)
EXTENDS Integers, FiniteSetsExt

CONSTANTS
    MaxCostPerHour,   \* USAGE_MAX_COST_PER_HOUR
    MaxWindowHours    \* USAGE_MAX_WINDOW_HOURS

ASSUME LimitsAssumption ==
    /\ MaxCostPerHour \in Nat \ {0}
    /\ MaxWindowHours \in Nat \ {0}

NoInstant == 0   \* null
EPSILON == 1

UsageAnomaly == {"NONE", "NEGATIVE_DELTA", "IMPLAUSIBLE_RATE", "STALE_WINDOW"}

\* A row of the portal's recharge history. What it credits to the meter is
\* less than what was paid.
Recharge == [rechargedDate  : Nat \ {0},
             usableAmount   : Nat,
             rechargeAmount : Nat,
             rechargeStatus : {"success", "pending"}]

UsageSample == [windowStart      : Nat \ {0},
                windowEnd        : Nat \ {0},
                openingBalance   : Int,
                closingBalance   : Int,
                rechargeCredited : Nat,
                rechargePaid     : Nat,
                rawDelta         : Int,
                consumedCost     : Nat,
                anomaly          : UsageAnomaly]

\* The portal's own stamp, unless it is missing or lies in the future.
ResolveReadingInstant(balanceAsOf, polledAt) ==
    IF balanceAsOf = NoInstant \/ balanceAsOf > polledAt
    THEN polledAt ELSE balanceAsOf

\* Mutant: the window is taken to be closed at its start.
RechargesWithinClosed(recharges, windowStart, windowEnd) ==
    {r \in recharges : /\ r.rechargeStatus = "success"
                       /\ windowStart <= r.rechargedDate
                       /\ r.rechargedDate <= windowEnd}

\* (windowStart, windowEnd]: the opening balance already holds a recharge
\* made at windowStart. Only successful ones move the balance.
RechargesWithin(recharges, windowStart, windowEnd) ==
    {r \in recharges : /\ r.rechargeStatus = "success"
                       /\ windowStart < r.rechargedDate
                       /\ r.rechargedDate <= windowEnd}

Credited(recharges) == MapThenSumSet(LAMBDA r : r.usableAmount, recharges)
Paid(recharges) == MapThenSumSet(LAMBDA r : r.rechargeAmount, recharges)

\* Mutant: a ceiling on the total, whatever the length of the window.
AnomalyOfTotal(rawDelta, windowHours) ==
    IF rawDelta < -EPSILON THEN "NEGATIVE_DELTA"
    ELSE IF rawDelta > MaxCostPerHour THEN "IMPLAUSIBLE_RATE"
    ELSE IF windowHours > MaxWindowHours THEN "STALE_WINDOW"
    ELSE "NONE"

AnomalyOf(rawDelta, windowHours) ==
    IF rawDelta < -EPSILON THEN "NEGATIVE_DELTA"
    ELSE IF rawDelta > MaxCostPerHour * windowHours THEN "IMPLAUSIBLE_RATE"
    ELSE IF windowHours > MaxWindowHours THEN "STALE_WINDOW"
    ELSE "NONE"

\* Mutant: the two instants are not compared.
BuildUsageSampleAlways(openingBalance, closingBalance, windowStart, windowEnd, recharges) ==
    LET within   == RechargesWithin(recharges, windowStart, windowEnd)
        rawDelta == openingBalance - closingBalance + Credited(within)
    IN  {[windowStart      |-> windowStart,
          windowEnd        |-> windowEnd,
          openingBalance   |-> openingBalance,
          closingBalance   |-> closingBalance,
          rechargeCredited |-> Credited(within),
          rechargePaid     |-> Paid(within),
          rawDelta         |-> rawDelta,
          consumedCost     |-> IF rawDelta < 0 THEN 0 ELSE rawDelta,
          anomaly          |-> AnomalyOf(rawDelta, windowEnd - windowStart)]}

\* The measurement from one reading to the next, or none when the clock of
\* the readings did not advance.
BuildUsageSample(openingBalance, closingBalance, windowStart, windowEnd, recharges) ==
    LET within   == RechargesWithin(recharges, windowStart, windowEnd)
        rawDelta == openingBalance - closingBalance + Credited(within)
        anomaly  == AnomalyOf(rawDelta, windowEnd - windowStart)
    IN  IF windowEnd <= windowStart THEN {}
        ELSE {[windowStart      |-> windowStart,
               windowEnd        |-> windowEnd,
               openingBalance   |-> openingBalance,
               closingBalance   |-> closingBalance,
               rechargeCredited |-> Credited(within),
               rechargePaid     |-> Paid(within),
               rawDelta         |-> rawDelta,
               consumedCost     |->
                  IF anomaly \in {"NEGATIVE_DELTA", "IMPLAUSIBLE_RATE"} \/ rawDelta < 0
                  THEN 0 ELSE rawDelta,
               anomaly          |-> anomaly]}

=============================================================================
