SPECIFICATION Spec
CONSTANTS
    Address = {1, 2, 3, 4}
    NumSets = 2
    Assoc = 2
    SetOf <- MCSetOf
    MaxSHCT = 3
    SHCTSize = 2
    Signature <- MCSignature
INVARIANTS
    TypeOK
    TagsUnique
    VictimWasOldest
    MetaTracksLine
PROPERTIES
    DeadLineTrains
    MissEnds
