SPECIFICATION Spec
CONSTANTS
    Keys = {0}
    KeyMax = 3
    Secs = {0, 1}
    MaxGen = 1
    Absent = Absent
    End = End
    a = a
    b = b
    Insts = {a, b}
INVARIANTS
    SameKeys
PROPERTIES
    OnlyStaleItemsTear
SYMMETRY Sym
