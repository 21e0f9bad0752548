SPECIFICATION Spec
CONSTANTS
    None = None
    Workers = {w1, w2}
    Sleepers = {e1, e2}
    MaxTime = 2
    MaxWork = 1
    RampUpDelay = FALSE
    Pinned = FALSE
SYMMETRY Symmetry
INVARIANTS
    KeeperHasDeadline
    TimersStayCovered
