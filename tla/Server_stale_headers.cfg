SPECIFICATION Spec
CONSTANTS
    MAX_CLIENTS = 3
    KeepAliveLimit = 1
    MAX_REQUEST_HEADERS = 2
    HeadParts <- OnePart
    JunkLengths <- Junk
    Fd = {f1, f2}
    ListenFd = listener
    THIS = this
    NULL = null
    Streams <- Posts
    MaxBacklog = 1
    Faults = FALSE
INVARIANTS
    ServedOnlyWhenReceived
