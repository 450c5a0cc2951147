SPECIFICATION Spec
CONSTANTS
    MemBlock = 2
    PageUnits = 4
    InitPages = 3
    MaxPages = 5
    InitialHeap = 3
    InitialSize = 6
    HeapsSize = 16
    Sizes = {0, 1, 5}
    ReallocSizes = {0, 1, 3, 5}
    Tame = TRUE
    Data = Data
INVARIANTS
    HeapTiled
    BlocksDisjoint
    ContentsKept
