SPECIFICATION Spec
CONSTANTS
    Ip = {h1, h2}
    Peers = {p1}
    LOCALHOST = localhost
    NULL = NULL
    ActionThreshold <- MCActionThreshold
    TimeInterval <- MCTimeInterval
    PurgeAfter <- MCPurgeAfter
    MaxTime = 2
    MaxOccurrences = 2
    Inform = TRUE
    UserPurge = TRUE
    AccessMayFail = FALSE
    BatchLen = 1
    MaxCalls = 2
    ChunkSize = 1
    TestApi = FALSE
    MaxVectorSize = 2
    MaxPurges = 1
CHECK_DEADLOCK FALSE
SYMMETRY Symmetry
PROPERTIES
    ImplementsEnforcement
