CONSTANTS
    NumQueues = 2
    BatchLen = 1
    InformRetry = 2
    MaxRecords = 2
    Stops = TRUE
SPECIFICATION FairSpec
CHECK_DEADLOCK FALSE
INVARIANTS TypeOK NothingLostOrDoubled ReceivedInOrder DescriptorLossBounded
PROPERTIES EveryRecordSettled ClientStopReturns
