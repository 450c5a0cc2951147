SPECIFICATION Spec
CONSTANTS
    Programs <- MCPrograms
    Statements <- MCStatements
    Depth <- MCDepth
INVARIANTS
    VerdictExact
    TargetIsRunning
PROPERTIES
    SilenceExplained
    Terminates
CHECK_DEADLOCK FALSE
