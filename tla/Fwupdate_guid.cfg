SPECIFICATION Spec
CONSTANTS
    NumVars     = 2
    Skipped     = {}
    Huge        = {}
    Broken      = {1}
    MaxUpdates  = 2
    Writable    = {"armed", "absent"}
    MaxWrites   = 1
    WarningMayFault = TRUE
    MaxFailures = 1
PROPERTY FailingCapsuleIgnored
