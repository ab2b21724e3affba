SPECIFICATION P2pSpec
CONSTANTS
    LEN = 3
    Junk = Junk
    Ptrs = {p1, p2}
    NULL = NULL
    Fds = {3, 4}
    NoBlock = NoBlock
    Closed = Closed
    NoAddress = NoAddress
    NoCall = NoCall
    BYTE = 2
    SECOND = 3
    INT = 64
    HOST = 1
    EPHEMERAL = 2
    Sizes = {1, 5}
    Texts <- MCTexts
    Ips = {0, 1}
    Ports = {1, 5}
    Timeouts <- MCTimeouts
    Senders <- MCSenders
    IN_FLIGHT = 1
    COMM_PORT = 1
    PACKET = 5
    BLOCK = 1
    INDEXES = 2
    Others <- MCOthers
CHECK_DEADLOCK FALSE
INVARIANT StatusLeft
