CONSTANTS
    c1 = c1
    c2 = c2
    c3 = c3
    Conns = {c1, c2, c3}
    NumFds = 2
    FdOf <- MCFdOf
    MaxInConnections = 2
    MaxWaitWorker = 2
    MaxCommands = 1
    ResourcesFail = TRUE
SPECIFICATION FairSpec
CHECK_DEADLOCK FALSE
INVARIANTS TypeOK SlotsConserved
PROPERTIES EveryConnectionAccepted ServerThreadStops EveryConnectionServed
