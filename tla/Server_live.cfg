SPECIFICATION FairSpec
CONSTANTS
    MAX_CLIENTS = 2
    KeepAliveLimit = 0
    MAX_REQUEST_HEADERS = 1
    HeadParts <- OnePart
    JunkLengths <- Junk
    Fd = {f1, f2}
    ListenFd = listener
    THIS = this
    NULL = null
    Streams <- Single
    MaxBacklog = 1
    Faults = FALSE
PROPERTIES
    ClientsMoveOn
    InputIsRead
