CONSTANTS
    OperandSpan = 32
    DataSpan = 1
    StoreSize = 32
    Images <- MCImages
    CycleSpan = 256
    SigSpan = 2
    MaxSignals = 0
SPECIFICATION MCSpec
PROPERTY
    ProgramResults
