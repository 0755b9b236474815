CONSTANTS
    OperandSpan = 1
    DataSpan = 1
    WordBits = 3
    DefaultSize = 2
    MaxSize = 8
    AddrSpan = 32
    Requests <- MCRequests
    Sections <- MCSections
    OtherFiles <- MCOtherFiles
    AsWords <- MCAsWords
    AsLines <- MCAsLines
    Tools = {"bsim", "bdump"}
SPECIFICATION Spec
INVARIANTS
    TypeOK
    LeastPage
    VerdictRight
    RoundTrip
    FormatsTold
    Confined
PROPERTY
    LoadingEnds
