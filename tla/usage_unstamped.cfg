\* The portal may omit the stamp of a balance.
SPECIFICATION Spec
CONSTANTS
    HOURS_ON_DIAL = 1
    MINUTES_PER_HOUR = 1
    SECONDS_PER_MINUTE = 1
    MaxCostPerHour = 2
    MaxWindowHours = 2
    Costs = {1}
    UsableAmount = 4
    PaidAmount = 5
    MaxHour = 4
    MaxRecharges = 0
    StampFaults = {"missing"}
INVARIANT CollisionIsReplay
CHECK_DEADLOCK FALSE
