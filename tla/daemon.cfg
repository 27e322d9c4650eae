CONSTANTS
    Hosts = {h1, h2}
    Walkers = {w1}
    MayPurge = TRUE
    ConfigFiles <- MCFiles
    Unreadable = {"missing"}
    Unusable = {"bad"}
    Modes = {"daemon", "test"}
SPECIFICATION DaemonFairSpec
CHECK_DEADLOCK FALSE
INVARIANTS DaemonTypeOK ConfigSound OneInVector NothingUsedTooEarlyOrLate CleanExit
PROPERTIES TermEndsDaemon
