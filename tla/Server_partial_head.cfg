SPECIFICATION Spec
CONSTANTS
    MAX_CLIENTS = 2
    KeepAliveLimit = 1
    MAX_REQUEST_HEADERS = 2
    HeadParts <- ThreeParts
    JunkLengths <- Junk
    Fd = {f1}
    ListenFd = listener
    THIS = this
    NULL = null
    Streams <- AllKinds
    MaxBacklog = 1
    Faults = FALSE
INVARIANTS
    CandidatesHaveFullHead
