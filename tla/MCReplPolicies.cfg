CONSTANTS
    Address = {1, 2, 3, 4}
    NumSets = 2
    Ways = 2
    Candidates = 6
    Hash <- MCHash
    Policies = {"LRU", "LRUNoSh", "NRU", "LFU", "Rand"}
    MaxSharers = 1
    ScoreRange = 8
    TsStep = 10
    MaxAccesses = 6
SPECIFICATION Spec
INVARIANTS
    LinesReachable
PROPERTIES
    VictimLeastUsed
CHECK_DEADLOCK FALSE
