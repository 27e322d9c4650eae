CONSTANTS
    MaxLines = 3
    MaxFiles = 2
    Rotates = TRUE
    Truncates = FALSE
    Removes = FALSE
    ReadFails = FALSE
SPECIFICATION FairSpec
CHECK_DEADLOCK FALSE
PROPERTIES EveryLineMatched
