SPECIFICATION Spec
CONSTANTS
    N = 17
    TableBits = 2
    Addresses <- SomeAddresses
    NULL = null
INVARIANTS
    TypeOK
    CountMatchesBits
    RoomIsFound
PROPERTIES
    ImplementsSlotSet
