SPECIFICATION FairSpec
CONSTANTS
    NumVars     = 3
    Skipped     = {}
    Huge        = {2}
    Broken      = {}
    MaxUpdates  = 2
    Writable    = {"armed", "absent"}
    MaxWrites   = 1
    WarningMayFault = FALSE
    MaxFailures = 1
PROPERTY HugeNamesIgnored
