CONSTANTS
    OperandSpan = 8
    DataSpan = 1
    GrowBy = 2
    StackDepth = 4
    EvalExpr <- Eval
    IndexSize = 2
    Programs <- MCTwice
SPECIFICATION ListingSpec
INVARIANT
    MeaningKept
