CONSTANTS
    OperandSpan = 8
    DataSpan = 1
    StoreSize = 4
    Images <- MCImages
    CycleSpan = 2
    SigSpan = 3
    MaxSignals = 3
SPECIFICATION Spec
INVARIANTS
    TypeOK
    QuitPrompt
    PrintsBacked
PROPERTIES
    ImplementsBaby
    SigintAnswered
    QuitStops
