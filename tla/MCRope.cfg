SPECIFICATION Spec
CONSTANTS
    b = b
    c = c
    Nul = Nul
    N = 2
    MaxNodes = 7
    Chars <- MCChars
    First <- MCFirst
    Texts <- MCTexts
INVARIANTS
    TailWritten
PROPERTIES
    ImplementsText
    WalkEnds
