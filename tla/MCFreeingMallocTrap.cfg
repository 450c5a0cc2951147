SPECIFICATION Spec
CONSTANTS
    MemBlock = 2
    PageUnits = 6
    InitPages = 2
    MaxPages = 3
    InitialHeap = 3
    InitialSize = 6
    HeapsSize = 16
    Sizes = {1, 5}
    ReallocSizes = {}
    Tame = TRUE
    Data = Data
INVARIANT FailsOnlyWhenFull
