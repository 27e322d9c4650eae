CONSTANTS
    WordBits = 2
    ByteBits = 2
    NumBytes = 2
    ChunkSize = 1
    Readers = {r1, r2}
    Files <- MCFiles
    Hosts <- MCHosts
    AddFails = FALSE
    NULL = NULL
    Size32 = 1
    Size64 = 2
    IPADDR_SIZE = 1
    Byte <- MCByte
    Commands <- MCCommands
    HostOf <- MCHostOf
    SenderBigEndian = FALSE
    ReceiverBigEndian = TRUE
    remote_authoritative = 0
    Pieces = {8}
    SocketBuffer = 8
    MaxCommands = 0
SPECIFICATION IntakeSpec
CHECK_DEADLOCK FALSE
PROPERTIES ExcludedNotRemembered
