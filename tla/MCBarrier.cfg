SPECIFICATION Spec
CONSTANTS
    Thread = {t1, t2, t3}
    Parallel = {1, 2}
    CleanupPeriod = 2
    KillNewcomers = FALSE
INVARIANTS
    CountersExact
    AssertsHold
PROPERTIES
    ImplementsPhaseBarrier
    EverybodyRuns
