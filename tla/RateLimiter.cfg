\* Two clients, two threads that may each be one tick late.
\* The clock is bounded, so the system stops: no deadlock check.
CONSTANTS
    Threads = {t1, t2}
    Keys = {k1, k2}
    NoKey = NoKey
    Cost = 2
    Full = 4
    Idle = 6
    MaxStale = 1
    MaxClock = 8
SPECIFICATION Spec
INVARIANTS TypeOK BudgetHolds NoDebt
PROPERTIES ImplementsBudget
SYMMETRY Symmetry
CHECK_DEADLOCK FALSE
