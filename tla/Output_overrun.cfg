SPECIFICATION Spec
CONSTANTS
    INITIAL_SIZE = 7
    MIN_READ = 7
    MAX_INT = 2147483647
    WIDTH = 2
    BASE = 3
    Char <- Letters
    Strings <- Parts
    Memory <- Sizes
    MaxHeaderBytes = 1
    MaxBody = 8
    MaxResponses = 2
    MaxSplits = 2
INVARIANTS
    NoOverrun
