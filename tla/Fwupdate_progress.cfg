SPECIFICATION FairSpec
CONSTANTS
    NumVars     = 3
    Skipped     = {}
    Huge        = {}
    Broken      = {1}
    MaxUpdates  = 2
    Writable    = {"armed", "malformed", "absent"}
    MaxWrites   = 2
    WarningMayFault = TRUE
    MaxFailures = 3
PROPERTIES
    RunEnds
    ArmedIsSpent
