\* A registration between the answer of the provider and the deletion.
CONSTANTS
    d1 = d1
    d2 = d2
    n1 = n1
    n2 = n2
    c1 = c1
    NoOne = NoOne
    Workers = {w1}
    Devices = {d1}
    Users = {u1}
    Notifs = {n1}
    DeviceOf <- OneAlert
    Calls = {}
    Flaws = {"none"}
    MaxGeneration = 2
    Batches <- OneEach
    BatchCap = 1
    GuardCapacity = 1
    BreakerCapacity = 1
    LegacyMismatch = FALSE
    MaxFaults = 0
    MaxRestarts = 0
    CountLimit = 0
SPECIFICATION FairSpec
PROPERTIES OnlyDeadTokensForgotten
