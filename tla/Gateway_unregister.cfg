\* Two unregistrations and a registration under another key in between.
CONSTANTS
    d1 = d1
    d2 = d2
    n1 = n1
    n2 = n2
    c1 = c1
    NoOne = NoOne
    Workers = {w1, w2}
    Devices = {d1}
    Users = {u1, u2}
    Notifs = {n1}
    DeviceOf <- OneAlert
    Calls = {}
    Flaws = {"none"}
    MaxGeneration = 1
    Batches <- OneEach
    BatchCap = 1
    GuardCapacity = 1
    BreakerCapacity = 1
    LegacyMismatch = FALSE
    MaxFaults = 0
    MaxRestarts = 0
    CountLimit = 0
SPECIFICATION FairSpec
PROPERTIES UnregisterMatchesStoredKey
