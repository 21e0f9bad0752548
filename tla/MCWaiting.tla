----------------------------- MODULE MCWaiting -----------------------------
(***************************************************************************)
(* Instances of everything a task, a thread or an operation of             *)
(* stackfull::exec can wait on.  A behaviour is one of one instance, the   *)
(* one obj.is names; the semaphore has variables of its own, and the heap  *)
(* of a TimerQueue is all there is in th.                                  *)
(***************************************************************************)
EXTENDS Naturals, FiniteSets, Sequences

CONSTANTS
    NoOne,
    Tasks, Threads, Ops,      \* where nothing else is said
    Sleepers, Callbacks, Permits,                      \* of the semaphore
    GroupThreads, Workers, MaxAdds,                    \* of the wait group
    Senders, Receivers, Capacity,                      \* of the channel
    CondTasks, CondProducers, CondConsumers, MaxItems, \* of the condition variable
    Producers, Consumers, MaxPushes,                   \* of stream and completion
    Selector, Sources, MaxEvents,                      \* of select()
    MaxTime,                                           \* of the timers
    MaxEntries                                         \* of the heap

VARIABLES obj, th,
          permits, waiterCount, lock, waiters, satisfied, cancelled, chain, pc, forfeited

semVars == <<permits, waiterCount, lock, waiters, satisfied, cancelled, chain, pc, forfeited>>
vars == <<obj, th, semVars>>

E == INSTANCE Semaphore WITH Blocking <- Sleepers
G == INSTANCE WaitGroup WITH Kind <- "WaitGroup", Threads <- GroupThreads, Reuse <- FALSE
C == INSTANCE Channel WITH Kind <- "Channel"
V == INSTANCE ConditionVariable WITH Kind <- "ConditionVariable", Tasks <- CondTasks,
         Ops <- {}, Producers <- CondProducers, Consumers <- CondConsumers
S == INSTANCE Stream WITH Kind <- "Stream"
F == INSTANCE Completion WITH Kind <- "Completion"
L == INSTANCE Select WITH Kind <- "Select", Ops <- {}, Consumer <- Selector
T == INSTANCE TimerQueue WITH Kind <- "Timers", Deadlines <- 1 .. MaxTime
H == INSTANCE TimerHeap WITH Entries <- 1 .. MaxEntries, queue <- th,
         Due <- [e \in 1 .. MaxEntries |-> e]

ASSUME SemaphoreUsers ==
    /\ Sleepers \cap Callbacks = {} /\ NoOne \notin Sleepers \cup Callbacks
    /\ Permits \in Nat \ {0}
ASSUME OperationsDiffer == (Tasks \cup Threads \cup GroupThreads) \cap Ops = {}
ASSUME ConditionUsers == IsFiniteSet(CondTasks \cup Threads)
ASSUME GroupUsers == Workers \subseteq GroupThreads /\ IsFiniteSet(Workers)
ASSUME CompletionUsers == NoOne \notin Producers /\ Producers \cap Consumers = {}

\* For TLC: a stream, a mailbox and a completion.
SmallSources == <<"Stream", "Mailbox", "Completion">>

Is(kind) == obj.is = kind

InitOthers ==
    \/ G!Init \/ C!Init \/ V!Init \/ S!Init \/ F!Init \/ L!Init
    \/ T!Init \/ (obj = [is |-> "Heap"] /\ H!Init)
Init ==
    \/ /\ InitOthers
       /\ permits = NoOne /\ waiterCount = NoOne /\ lock = NoOne /\ waiters = NoOne
       /\ satisfied = NoOne /\ cancelled = NoOne /\ chain = NoOne /\ pc = NoOne
       /\ forfeited = NoOne
    \/ obj = [is |-> "Semaphore"] /\ th = <<>> /\ E!Init
NextOthers ==
    \/ Is("WaitGroup") /\ G!Next
    \/ Is("Channel") /\ C!Next
    \/ Is("ConditionVariable") /\ V!Next
    \/ Is("Stream") /\ S!Next
    \/ Is("Completion") /\ F!Next
    \/ Is("Select") /\ L!Next
    \/ Is("Timers") /\ T!Next
    \/ Is("Heap") /\ H!Next /\ UNCHANGED obj
Next ==
    \/ NextOthers /\ UNCHANGED semVars
    \/ Is("Semaphore") /\ E!Next /\ UNCHANGED <<obj, th>>
Spec == Init /\ [][Next]_vars

Step(p) ==
    \/ Is("WaitGroup") /\ G!Step(p)
    \/ Is("Channel") /\ C!Step(p)
    \/ Is("ConditionVariable") /\ V!Step(p)
    \/ Is("Stream") /\ S!Step(p)
    \/ Is("Completion") /\ F!Step(p)
    \/ Is("Select") /\ L!Step(p)
    \/ Is("Timers") /\ T!Step(p)

\* on_stop runs on the thread that requests the stop.
OnStop(p) ==
    \/ Is("WaitGroup") /\ G!OnStop(p)
    \/ Is("Channel") /\ C!OnStop(p)
    \/ Is("Stream") /\ S!OnStop(p)
    \/ Is("Completion") /\ F!OnStop(p)
    \/ Is("Timers") /\ T!CancelOnStop(p)

\* A thread that has something to do goes on; nothing makes a caller call, a
\* stop request come, or the scheduler unwind a task.
FairSpec ==
    /\ Spec
    /\ \A p \in CondTasks \cup GroupThreads \cup Ops :
          WF_vars(p \in DOMAIN th /\ Step(p) /\ UNCHANGED semVars)
    /\ \A o \in Ops : WF_vars(o \in DOMAIN th /\ OnStop(o) /\ UNCHANGED semVars)

-----------------------------------------------------------------------------
\* Semaphore, WaitGroup, Channel, ConditionVariable: nobody is left in a wait
\* list beside what it waits for - a permit, the count at zero, an item, a
\* place or the end of the channel, a condition it was not told of - while
\* nobody who is awake is about to see to it.
NoneForgotten ==
    /\ Is("Semaphore") => E!NoPermitForgotten
    /\ Is("WaitGroup") => G!NoneLeftAtZero
    /\ Is("Channel") => C!NoneStranded /\ C!CloseReachesAll
    /\ Is("ConditionVariable") => V!NoMissedNotify

\* Stream, Completion, select(), Mailbox, sleepUntil(): nobody sleeps on its
\* park permit through an item, the end, an outcome or a timer that has come.
NoneSleepsThrough ==
    /\ Is("Stream") => S!ConsumerAwakened
    /\ Is("Completion") => F!AwaiterAwakened
    /\ Is("Select") => L!SelectorAwakened
    /\ Is("Timers") => T!FiredWakes

\* Waiter, WaitList, WaitGuard: a waiter is linked or in a notifier's chain, in
\* one of them only, exactly while its owner waits for it; the semaphore's
\* count of waiters covers its list.
WaiterInOnePlace ==
    /\ Is("Semaphore") => E!NoDanglingWaiter /\ E!CountCoversList
    /\ Is("WaitGroup") => G!InOnePlace(G!Callers)
    /\ Is("Channel") => C!InOnePlace(C!Parties)
    /\ Is("ConditionVariable") => V!InOnePlace(CondConsumers)

\* Stream, Completion, TimerQueue: the Waker or the entry that is kept for an
\* operation calls it back once, and finds it waiting.
CallbackOnce ==
    /\ Is("Stream") => S!CallbackOnce
    /\ Is("Completion") => F!CallbackOnce
    /\ Is("Timers") => T!CalledBackOnce

\* select(), Mailbox, TimerQueue: nothing is kept that belongs to a consumer, a
\* frame or an operation that has left; a closed queue keeps no operation.
NoneKeptAfterLeaving ==
    /\ Is("Select") => L!NoneAttachedOutside
    /\ Is("Timers") => T!EntriesAlive /\ T!ClosedLeavesNone

\* WaitGroup, Completion: what a wait returns with is true - the count was zero
\* at some moment of the call; the whole outcome is the claimer's.
ResultIsTrue ==
    /\ Is("WaitGroup") => G!WaitMeansZero
    /\ Is("Completion") => F!OutcomeOfTheClaimer

\* Channel, Stream: every item accepted is in the ring, received, or (Stream)
\* dropped and counted, and they are received in the order of acceptance.
ItemsInOrder ==
    /\ Is("Channel") => C!RingInOrder
    /\ Is("Stream") => S!ItemsAccounted

\* ConditionVariable: the mutex stays one through waits, relocks and unwinds.
MutexBalanced == Is("ConditionVariable") => V!MutexBalanced

\* TimerQueue: the heap is one, and every heapIndex is true.
HeapInOrder == Is("Heap") => H!HeapInOrder

\* exec operations of every kind: once its on_stop runs, an operation comes to
\* its end, whatever it raced with, and however often it had been queued.
StopEndsOperation ==
    \A o \in Ops :
        (o \in DOMAIN th /\ th[o].stop = "running") ~> (o \in DOMAIN th => th[o].pc = "done")
\* exec operations of every kind: when one completes, its receiver may
\* destroy it: no stop callback is running on it, and it has its result.
NothingAfterDone ==
    /\ Is("WaitGroup") => G!NothingAfterDone
    /\ Is("Channel") => C!NothingAfterDone
    /\ Is("Stream") => S!NothingAfterDone
    /\ Is("Completion") => F!NothingAfterDone
    /\ Is("Timers") => T!NothingAfterDone
=============================================================================
