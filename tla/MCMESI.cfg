SPECIFICATION ProgramSpec
CONSTANTS
    c1 = c1  c2 = c2
    d1 = d1  d2 = d2  i1 = i1  m2 = m2  b0 = b0  b1 = b1
    a1 = a1  a2 = a2  a3 = a3
    Core = {c1, c2}
    Cache = {d1, d2, i1, m2, b0, b1}
    L1 = {d1, d2, i1}
    ICache = {i1}
    Mem = Mem
    None = None
    Addr = {a1, a2, a3}
    CoreOf <- MCCoreOf
    Parents <- MCParents
    Hash <- MCHash
    NumLines <- MCNumLines
INVARIANTS
    NoAssertFails
    SingleWriter
    Inclusion
    DirectoryExact
    DirtyKept
    FilterBacked
    NoDeadlock
