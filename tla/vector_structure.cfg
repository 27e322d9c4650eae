SPECIFICATION Spec
CONSTANTS
    Ip = {h1, h2, h3, h4}
    Peers = {}
    LOCALHOST = localhost
    NULL = NULL
    ActionThreshold <- MCActionThreshold
    TimeInterval <- MCTimeInterval
    PurgeAfter <- MCPurgeAfter
    MaxTime = 1
    MaxOccurrences = 1
    Inform = TRUE
    UserPurge = TRUE
    AccessMayFail = FALSE
    BatchLen = 1
    MaxCalls = 2
    ChunkSize = 2
    TestApi = TRUE
    MaxVectorSize = 6
    MaxPurges = 1
CHECK_DEADLOCK FALSE
SYMMETRY Symmetry
INVARIANTS
    TypeOK
    FillCoversRecords
    OneRecordPerHost
    WholeChunks
PROPERTIES
    MaintenanceGivesBack
