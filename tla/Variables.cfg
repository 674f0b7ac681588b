SPECIFICATION Spec
CONSTANTS
    Attributes  = {"nv", "bs"}
    MaxSize     = 2
    MaxWrites   = 2
    MaxFailures = 2
INVARIANTS
    ReadsWhole
    BuffersBalance
PROPERTY
    WritesBack
