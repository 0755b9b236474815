CONSTANTS
    OperandSpan = 8
    DataSpan = 1
    GrowBy = 2
    StackDepth = 4
    EvalExpr <- Eval
    IndexSize = 2
    Programs <- MCPrograms
SPECIFICATION ListingSpec
INVARIANTS
    TypeOK
    PassesAgree
    MeaningKept
    CrashesOnly
    IndexHolds
    LinesRight
PROPERTIES
    TakenKept
    BasEnds
