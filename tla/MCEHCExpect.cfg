SPECIFICATION MCSpec
CHECK_DEADLOCK FALSE
CONSTANTS
    Address = {1, 2, 3, 4}
    NumSets = 2
    Assoc = 2
    SetOf <- MCSetOf
    HHTSets = 1
    HHTWays = 2
    HHTIndex <- MCIndex
    HHTTag <- MCTag
    CHCMax = 2
    EFHMod = 3
    MaxAccesses = 9
PROPERTIES
    HitLowersExpectation
