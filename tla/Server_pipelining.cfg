SPECIFICATION Spec
CONSTANTS
    MAX_CLIENTS = 3
    KeepAliveLimit = 1
    MAX_REQUEST_HEADERS = 2
    HeadParts <- OnePart
    JunkLengths <- Junk
    Fd = {f1, f2}
    ListenFd = listener
    THIS = this
    NULL = null
    Streams <- Pipelined
    MaxBacklog = 1
    Faults = FALSE
SYMMETRY Descriptors
INVARIANTS
    QueueConsistent
    LoopMatchesPool
    NothingSkipped
    ClosingIsFinal
    ServedWithinLimit
    NoRequestForgotten
PROPERTIES
    CandidatesAreFifo
