CONSTANTS
    x = x
    semicolon = semicolon
    minus = minus
    Newline = newline
    Texts <- MCTexts
    CommentMarks <- MCCommentMarks
SPECIFICATION ScannerSpec
INVARIANT
    PlacesRight
