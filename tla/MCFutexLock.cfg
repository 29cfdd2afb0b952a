SPECIFICATION Spec
CONSTANTS
    Thread = {t1, t2, t3}
    SpinTries = 2
INVARIANTS
    Exclusive
    NoLostWakeup
PROPERTIES
    ImplementsMutex
    Progress
    WaitersShow
