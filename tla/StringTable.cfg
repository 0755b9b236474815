CONSTANTS
    Strings <- MCStrings
    Length <- MCLength
    Places = {p, q, r}
    Scanned = {p, q}
    InitialSize = 8
    MinTableSize = 5
    p = p
    q = q
    r = r
SPECIFICATION Spec
INVARIANTS
    TypeOK
    AnswersRight
    OneIndex
