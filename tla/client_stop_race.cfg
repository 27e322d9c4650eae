CONSTANTS
    NumQueues = 2
    BatchLen = 2
    InformRetry = 1
    MaxRecords = 3
    Stops = TRUE
SPECIFICATION Spec
CHECK_DEADLOCK FALSE
INVARIANTS NoUseAfterFree
