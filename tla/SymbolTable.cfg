CONSTANTS
    x = x
    y = y
    y2 = y2
    Names <- MCNames
    Key <- MCKey
    Contexts <- MCContexts
    Parent <- MCParent
    Words = {word}
    Trees = {tree}
    Undef = undef
    InitialCapacity = 1
SPECIFICATION Spec
INVARIANTS
    TypeOK
    Searchable
    HeldStays
PROPERTY
    ImplementsMaps
