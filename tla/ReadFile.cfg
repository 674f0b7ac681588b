SPECIFICATION FairSpec
CONSTANTS
    Bs            = 3
    InitialBlocks = 2
    PageSize      = 8
    MaxFile       = 60
    Memory        = 48
INVARIANTS
    WritesInside
    PagesFreed
PROPERTIES
    ImplementsWholeRead
    Returns
CHECK_DEADLOCK FALSE
