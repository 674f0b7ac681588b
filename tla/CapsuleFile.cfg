SPECIFICATION Spec
CONSTANTS
    CapsuleHeader = 3
    UxHeader      = 2
    Byte          = 3
    Uint32        = 8
    Uintn         = 8
    MaxFile       = 7
    NumHandles    = 2
    Modes         = {0, 2}
    InfoFlags     = {"other"}
    AddedFlags    = {"persist", "initiate"}
INVARIANTS
    PayloadInside
    DescriptorCovers
    ChecksumFresh
    FlagsComplete
CHECK_DEADLOCK FALSE
