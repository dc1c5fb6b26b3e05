\* One handler and every kind of request, with shutdown() from another thread.
\* The process ends, so the system stops: no deadlock check.
CONSTANTS
    Handlers = {h1}
    CallerIsServer = FALSE
    c1 = c1
    c2 = c2
    k1 = k1
    Requests <- AllRequests
    Clients <- TwoClients
    Proxy = proxy
    TrustedProxy = proxy
    ConfiguredKeys <- Keys
    Blank = blank
    Nobody = nobody
    MaxBody = 2
    DrainCap = 4
    Buffer = 2
    Capacity = 1
SPECIFICATION FrontFairSpec
INVARIANTS FrontTypeOK NothingAcceptedAfterShutdown
PROPERTIES OnlyAdmissibleRequestsPay AnswersArrive ConnectionsEnd ShutdownCompletes
CHECK_DEADLOCK FALSE
