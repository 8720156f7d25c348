SPECIFICATION Spec
CONSTANTS
    MAX_CLIENTS = 2
    KeepAliveLimit = 1
    MAX_REQUEST_HEADERS = 1
    HeadParts <- TwoParts
    JunkLengths <- Junk
    Fd = {f1, f2}
    ListenFd = listener
    THIS = this
    NULL = null
    Streams <- OneOff
    MaxBacklog = 1
    Faults = TRUE
SYMMETRY Descriptors
INVARIANTS
    TypeOK
    RequestFits
    ClosingIsFinal
    QueueConsistent
    LoopMatchesPool
    OutputHasWakeup
    InputHasWakeup
