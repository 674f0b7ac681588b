SPECIFICATION Spec
CONSTANTS
    FuzzNodes = 3
    FuzzLengths = {0, 3, 4, 5, 8, 65535}
    FuzzInfoSizes = {0, 52, 55, 56, 60, 61, 64, 65}
    FuzzFileSizes = {27, 28, 43, 44, 45, 256, 65535}
    FuzzFields = {0, 27, 28, 29, 43, 44, 45, 60, 256, 65492, 65519, 65520, 65535}
INVARIANTS
    AssertionsHold
    FuzzVerdicts
CHECK_DEADLOCK FALSE
