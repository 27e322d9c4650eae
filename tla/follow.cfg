CONSTANTS
    MaxLines = 4
    MaxFiles = 2
    Rotates = TRUE
    Truncates = TRUE
    Removes = TRUE
    ReadFails = TRUE
SPECIFICATION FairSpec
CHECK_DEADLOCK FALSE
INVARIANTS TypeOK EachLineOnceInOrder OneLineSpoiltPerChange
PROPERTIES LinesInPlaceMatched FollowReturns
