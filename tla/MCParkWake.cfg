SPECIFICATION Spec
CONSTANTS
    Stopper = Stopper
    NoTask = NoTask
    Tasks = {t1, t2}
    Workers = {w1, w2}
    Wakers = {k1, k2}
    MaxTasks = 1
    GenModulus = 2
SYMMETRY Symmetry
INVARIANTS
    TypeOK
    ScheduledOnce
    NoUseAfterFree
    TokenReachesItsTask
    NoLostWake
    StopSeenBeforeUnwind
