SPECIFICATION FairSpec
CONSTANTS
    Ip = {h1}
    Peers = {p1}
    LOCALHOST = localhost
    NULL = NULL
    ActionThreshold <- MCActionThreshold
    TimeInterval <- MCTimeInterval
    PurgeAfter <- MCPurgeAfter
    MaxTime = 4
    MaxOccurrences = 3
    Inform = TRUE
    UserPurge = TRUE
    AccessMayFail = FALSE
    BatchLen = 1
    MaxCalls = 2
CHECK_DEADLOCK FALSE
INVARIANTS
    TypeOK
    ScriptsMatchMemory
    RelayedAreLocalOffenders
    OffenderNotForgotten
PROPERTIES
    OffenderActedUpon
    StaleHostPurged
