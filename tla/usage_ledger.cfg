\* Six hours in three days, one recharge that goes through or stays pending.
SPECIFICATION Spec
CONSTANTS
    HOURS_ON_DIAL = 1
    MINUTES_PER_HOUR = 1
    SECONDS_PER_MINUTE = 1
    MaxCostPerHour = 2
    MaxWindowHours = 2
    Costs = {0, 2}
    UsableAmount = 4
    PaidAmount = 5
    MaxHour = 6
    MaxRecharges = 2
    StampFaults = {}
    HOURS_PER_DAY = 2
    DAYS_PER_WEEK = 2
    MAX_RANGE_DAYS = 4
    ANOMALY_BASELINE_DAYS = 2
    ANOMALY_MIN_BASELINE_DAYS = 1
    ANOMALY_MIN_BASELINE_COST = 1
    Thresholds = {40}
INVARIANTS TypeOK Tiles TrueDelta NothingSuppressed CollisionIsReplay DaysAddUp 
CHECK_DEADLOCK FALSE
