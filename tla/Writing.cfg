CONSTANTS
    OperandSpan = 1
    DataSpan = 1
    WordBits = 3
    BufSize = 3
    Sections <- MCSections
    Rooms <- MCRooms
SPECIFICATION Spec
INVARIANTS
    TypeOK
    LoadsPrefix
    SuccessAlmostTold
