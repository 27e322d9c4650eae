CONSTANTS
    Hosts = {h1, h2}
    Walkers = {}
    MayPurge = TRUE
SPECIFICATION FairSpec
CHECK_DEADLOCK FALSE
PROPERTIES ShutdownCompletes
