\* Two threads, one device: every interleaving of sends, registrations and unregistrations.
CONSTANTS
    d1 = d1
    d2 = d2
    n1 = n1
    n2 = n2
    c1 = c1
    NoOne = NoOne
    Workers = {w1, w2}
    Devices = {d1}
    Users = {u1}
    Notifs = {n1, c1}
    DeviceOf <- OneDevice
    Calls = {c1}
    Flaws = {"none"}
    MaxGeneration = 2
    Batches <- OneEach
    BatchCap = 1
    GuardCapacity = 2
    BreakerCapacity = 1
    LegacyMismatch = TRUE
    MaxFaults = 1
    MaxRestarts = 1
    CountLimit = 3
SPECIFICATION Spec
INVARIANTS TypeOK LeasesMatchThreads NoRepeatWhileRemembered BreakerBoundsDamage TargetIsAddressed
SYMMETRY Symmetry
