\* shutdown() called by the signal handler, as the program does.
\* The process ends, so the system stops: no deadlock check.
CONSTANTS
    Handlers = {h1, h2, h3}
    CallerIsServer = TRUE
SPECIFICATION FairSpec
PROPERTIES ShutdownCompletes
CHECK_DEADLOCK FALSE
