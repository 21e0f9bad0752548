SPECIFICATION PlainParkerSpec
CONSTANTS
    w1 = w1
    w2 = w2
    w3 = w3
    o1 = o1
    n1 = n1
    n2 = n2
    NoOne = NoOne
    Unparkers = {w2, w3}
    PoolThreads = {w1, w2, w3}
    kMaxThreads = 3
    MaxJobs = 5
    Coroutines = {n1, n2, w3}
    Carriers = {w1, w2}
    MaxWaits = 2
    Io <- SmallIo
    Teams <- SmallTeams
    Slots = {1, 2}
    kBatch = 1
    kCapacity = 1
    MaxSpawns = 3
CHECK_DEADLOCK FALSE
INVARIANT NoUnparkLost
