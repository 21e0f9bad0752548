SPECIFICATION FairSpec
CONSTANTS
    None = None
    Workers = {w1, w2}
    Sleepers = {e1}
    MaxTime = 1
    MaxWork = 0
    RampUpDelay = TRUE
    Pinned = TRUE
PROPERTY SleepersWake
