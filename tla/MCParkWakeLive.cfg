SPECIFICATION FairSpec
CONSTANTS
    Stopper = Stopper
    NoTask = NoTask
    Tasks = {t1}
    Workers = {w1}
    Wakers = {k1}
    MaxTasks = 1
    GenModulus = 2
PROPERTIES
    StopCompletes
