SPECIFICATION Spec
CONSTANTS
    PageSize = 12
    Align = 4
    Word = 72
    MaxPages = 4
    HeapBase = 5
    InitPages = 1
    Sizes = {0, 1, 4, 11, 12, 25, 70}
    CMem = TRUE
INVARIANTS
    Backed
    BlocksInMemory
    BlocksDisjoint
    CopyInMemory
    SlackBounded
