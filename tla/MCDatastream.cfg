SPECIFICATION Spec
CONSTANTS
    Width = 3
    Half = 8
    Digit = 2
    ByMod = 8
    Start = 2
    Size = 3
    Around <- MCAround
    Fill <- MCFill
INVARIANTS
    EscapesExplained
    RoundTrip
    OneEncoding
CHECK_DEADLOCK FALSE
