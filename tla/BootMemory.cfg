SPECIFICATION Spec
CONSTANTS
    NumVars    = 3
    MaxUpdates = 2
INVARIANTS
    FreedOnce
    TableLive
    HandedOverLive
    ReturnLeaves
CHECK_DEADLOCK FALSE
