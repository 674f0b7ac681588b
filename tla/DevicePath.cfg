SPECIFICATION FairSpec
CONSTANTS
    MaxInfoSize = 72
    MaxLength   = 22
    NumHandles  = 2
    DpOffset    = 52
    MaxPath     = 10
INVARIANTS
    HeadersInside
    NodesInside
    WalksValidated
    SearchFindsFile
    PathFills
PROPERTY
    Ends
CHECK_DEADLOCK FALSE
