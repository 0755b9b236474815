CONSTANTS
    OperandSpan = 2
    DataSpan = 2
    Segments <- MCSegments
    Indexes <- MCIndexes
SPECIFICATION Spec
INVARIANTS
    TypeOK
    LinesEncode
    OnlyAliasCrashes
    Reassembles
