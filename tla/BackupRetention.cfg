CONSTANTS
    Keep = 3
    Days = 3
    Minute = 3
    Sched = 1
    MaxPromotions = 2
    MaxCrashes = 1
    MaxManual = 1
SPECIFICATION Spec
CHECK_DEADLOCK FALSE
INVARIANTS LatestKept SafetyKept OncePerDay
