\* Every request ends, and reports that get lost are made again; no symmetry.
CONSTANTS
    d1 = d1
    d2 = d2
    n1 = n1
    n2 = n2
    c1 = c1
    NoOne = NoOne
    Workers = {w1, w2}
    Devices = {d1}
    Users = {u1}
    Notifs = {n1}
    DeviceOf <- OneAlert
    Calls = {}
    Flaws = {"none", "unparsable", "invalid", "raises"}
    MaxGeneration = 1
    Batches <- Mixed
    BatchCap = 2
    GuardCapacity = 1
    BreakerCapacity = 1
    LegacyMismatch = TRUE
    MaxFaults = 2
    MaxRestarts = 1
    CountLimit = 0
SPECIFICATION HealSpec
INVARIANTS EveryEntryCounted
PROPERTIES RequestsEnd LostReportsHeal
