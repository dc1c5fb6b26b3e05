\* The deletion breaker with the code's numbers, a tick being 360 seconds.
CONSTANTS
    Threads = {t1}
    Keys = {fleet}
    NoKey = NoKey
    Cost = 1
    Full = 10
    Idle = 10
    MaxStale = 0
    MaxClock = 10
SPECIFICATION Spec
INVARIANTS AtMostCapacityPerHour
CHECK_DEADLOCK FALSE
