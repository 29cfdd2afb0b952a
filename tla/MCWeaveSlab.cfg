SPECIFICATION Spec
CONSTANTS
    ThreadCounts = {1, 2}
    PhaseLength = 4
    MaxPhases = 2
    PQBlocks = 4
    PQWidth = 1
    NumDomains = 2
    Core <- MCCore
    Bank <- MCBank
    BankDomain <- MCBankDomain
    CoreDomain <- MCCoreDomain
    MemDomain = 0
    AccLat = 1
    NumMSHRs <- MCNumMSHRs
    ZeroLoadLat = 2
    MemLat = 3
    L1Lat = 1
    BblSizes = {5}
    MaxOps <- MCMaxOps
    Accesses <- MCAccesses
INVARIANT SlabsOutliveEvents
CHECK_DEADLOCK FALSE
