SPECIFICATION Spec
CONSTANTS
    t1 = t1  t2 = t2  t3 = t3
    c1 = c1  c2 = c2
    p1 = p1  p2 = p2
    Thread = {t1, t2, t3}
    Core = {c1, c2}
    Mask <- MCMask
    Process <- MCProcess
    Pc <- MCProcess
    Calls <- FewCalls
    FirstCore = c1
    None = None
    Parallel = 2
    Quantum = 2
    SleepPhases = {1, 2}
    LeavesKept = 0
    RaceWatchdog = FALSE
    BackToBack = {"plain"}
PROPERTIES
    QueuedRuns
    SleepersWake
