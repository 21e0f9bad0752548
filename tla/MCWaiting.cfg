SPECIFICATION FairSpec
CONSTANTS
    NoOne = NoOne
    Tasks = {k1}
    Threads = {t1, t2}
    Ops = {o1}
    Sleepers = {k1, t1}
    Callbacks = {o1, o2}
    Permits = 2
    GroupThreads = {t1, t2, t3}
    Workers = {t1, t2}
    MaxAdds = 1
    Senders = {t1, t2}
    Receivers = {k1, o1}
    Capacity = 2
    CondTasks = {k1, t3}
    CondProducers = {t1}
    CondConsumers = {k1, t2, t3}
    MaxItems = 2
    Producers = {t1, t2}
    Consumers = {k1, o1}
    MaxPushes = 4
    Selector = k1
    Sources <- SmallSources
    MaxEvents = 2
    MaxTime = 2
    MaxEntries = 6
CHECK_DEADLOCK FALSE
INVARIANTS
    NoneForgotten
    NoneSleepsThrough
    WaiterInOnePlace
    CallbackOnce
    NoneKeptAfterLeaving
    ResultIsTrue
    ItemsInOrder
    MutexBalanced
    HeapInOrder
    NothingAfterDone
PROPERTIES
    StopEndsOperation
