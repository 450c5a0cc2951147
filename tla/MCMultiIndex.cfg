SPECIFICATION Spec
CONSTANTS
    Keys = {0, 1, 3}
    KeyMax = 3
    Secs = {0, 1}
    MaxGen = 1
    Absent = Absent
    End = End
    a = a
    b = b
    Insts = {a}
INVARIANTS
    TypeOK
    CacheCoherent
    IndexMatchesTable
    NoDeadIterator
    AvailableKeyUnused
PROPERTIES
    ImplementsTable
    LookupsExact
