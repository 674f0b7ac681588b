SPECIFICATION Spec
CONSTANTS
    NumVars     = 5
    Skipped     = {2}
    Huge        = {5}
    Broken      = {}
    MaxUpdates  = 2
    Writable    = {"armed", "malformed", "absent"}
    MaxWrites   = 2
    WarningMayFault = TRUE
    MaxFailures = 3
INVARIANTS
    AtMostOnce
    SpentBeforeSent
    DescriptorsMatch
    InBounds
    HugeNameHoldsAll
    NoneOverlooked
PROPERTIES
    OnlySpends
    ImplementsLifecycle
