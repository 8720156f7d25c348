SPECIFICATION Spec
CONSTANTS
    Size = 4
    NULL = null
    Item = {a, b}
INVARIANTS
    TypeOK
    NothingLeftBehind

    
