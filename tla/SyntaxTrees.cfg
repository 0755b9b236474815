CONSTANTS
    Names = {"x"}
    MaxParsed = 9
    MaxNodes = 17
SPECIFICATION TreesSpec
INVARIANTS
    NothingDangles
    Apart
    InOrder
