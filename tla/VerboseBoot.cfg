SPECIFICATION VerboseSpec
CONSTANTS
    MaxBoots    = 2
    MaxMessages = 6
    MaxFailures = 2
    MaxSetting  = 3
    DataBytes   = 2
    NumUpdates  = 3
INVARIANTS
    RecursionBounded
    LogOrdered
    LogComplete
    VerboseIfAsked
    EveryUpdateOnce
PROPERTY EnumerationEnds
CHECK_DEADLOCK FALSE
