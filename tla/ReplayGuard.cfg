\* Two callers race for three pairs and two slots; no symmetry, for liveness.
\* The clock is bounded, so the system stops: no deadlock check.
CONSTANTS
    Callers = {t1, t2}
    Keys = {k1, k2, k3}
    NoKey = NoKey
    NoOne = NoOne
    Ttl = 1
    MaxEntries = 2
    MaxClock = 3
    MaxGeneration = 4
SPECIFICATION FairSpec
INVARIANTS TypeOK ReplayWindowHolds EveryLeaseHasItsOwner HeapMatchesSeen CapacityRespected
PROPERTIES DeliveriesAreApart SuppressionIsTimely ImplementsWindow InFlightEnds
CHECK_DEADLOCK FALSE
