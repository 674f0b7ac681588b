SPECIFICATION Spec
CONSTANTS
    NumVars     = 2
    Skipped     = {}
    Huge        = {}
    Broken      = {}
    MaxUpdates  = 2
    Writable    = {"armed", "malformed", "absent"}
    MaxWrites   = 1
    WarningMayFault = FALSE
    MaxFailures = 1
PROPERTY MalformedIsDeleted
