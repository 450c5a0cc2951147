SPECIFICATION Spec
CONSTANTS
    MemBlock = 2
    PageUnits = 6
    InitPages = 2
    MaxPages = 3
    InitialHeap = 3
    InitialSize = 6
    HeapsSize = 16
    Sizes = {1, 5}
    ReallocSizes = {0, 1, 3, 5}
    Tame = FALSE
    Data = Data
INVARIANT BlocksDisjoint
