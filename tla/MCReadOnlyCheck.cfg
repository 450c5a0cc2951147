SPECIFICATION Spec
CONSTANTS
    Functions = {"w", "f", "g", "a", "d"}
    Writers = {"w"}
    Actions = {"a"}
    Vars = {"v"}
    Units <- MCUnits
    MaxDepth = 6
INVARIANTS
    NoCallMissed
    NoRedirectionMissed
    AlarmsExplained
    MissesExplained
PROPERTY SearchEnds
CHECK_DEADLOCK FALSE
