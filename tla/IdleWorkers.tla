---------------------------- MODULE IdleWorkers ----------------------------
(***************************************************************************)
(* How idle workers sleep and how new work wakes them: Worker::run() with  *)
(* searchForWork(), spinForWork(), parkIdle() and sleepIdle() on one side, *)
(* SchedulerCore::inject(), notifyIdleWorker(), unparkWorker() and         *)
(* requestRampUp() on the other, and Scheduler::stop() against both.       *)
(*                                                                         *)
(* Tasks are counted, not named: what matters is in which queue they are.  *)
(* A step is one access to a word that another thread writes (idleMask,    *)
(* searching, timekeeper, keeperDeadline, rampUpDeadline, stopping, a      *)
(* Parker token, the Driver's wake-up).  There are no timers here, so      *)
(* ensureTimekeeper() and fireTimers() find none and do nothing.           *)
(* Spin back-off, handoffWake and the random victim are heuristics: the    *)
(* model allows every choice they could make.                              *)
(***************************************************************************)
EXTENDS Integers, FiniteSets

CONSTANTS Workers,
          Producers,      \* foreign threads that spawn or wake tasks
          Stoppers,       \* the thread that calls Scheduler::stop(), or none
          None,           \* a null Worker pointer
          MaxTasks,       \* SchedulerOptions::maxTasks
          Options,        \* the SchedulerOptions to choose from
          MaxSpinners     \* kMaxSpinners

ASSUME ThreadsAreDistinct ==
    /\ Workers \cap Producers = {}
    /\ Stoppers \cap (Workers \cup Producers) = {}
    /\ None \notin Workers
ASSUME OptionsAreBoolean ==
    Options \subseteq [driver : BOOLEAN, rampUpDelay : BOOLEAN, idleSpin : BOOLEAN]
\* resolveWorkerCount(): between 1 and kMaxWorkers.
ASSUME SomeWorkers == IsFiniteSet(Workers) /\ Workers # {}
ASSUME BoundsAreNumbers == MaxTasks \in Nat /\ MaxSpinners \in Nat

VARIABLES
    queue,       \* tasks committed to the injection queue
    local,       \* tasks in a worker's own queues
    gathered,    \* tasks a worker woke inside Driver::wait()
    waiting,     \* parked tasks
    live,        \* liveTasks()
    idle,        \* idleMask
    searching,
    keeper,      \* timekeeper
    keeperDeadline,  \* "none" (kNoDeadline, also kScanningTimers) or "set"
    rampUp,      \* rampUpDeadline: "none", "later" or "due"
    token,       \* Parker tokens
    signal,      \* a pending Driver::wake()
    options,     \* SchedulerOptions: driver is set, rampUpDelay > 0, idleSpin > 0
    stopping, parkedWoken,
    th           \* a thread's program counter and local variables

workVars  == <<queue, local, gathered, waiting, live>>
coordVars == <<idle, searching, keeper, keeperDeadline, rampUp>>
wakeVars  == <<token, signal>>
lifeVars  == <<options, stopping, parkedWoken>>
vars == <<workVars, coordVars, wakeVars, lifeVars, th>>

HasDriver   == options.driver
RampUpDelay == options.rampUpDelay
IdleSpin    == options.idleSpin

Threads == Workers \cup Producers \cup Stoppers
Idling == {"mark", "recheck", "unmark", "sleep", "claim", "scan", "readRampUp",
           "publish", "keep", "keepRelease", "keepDue", "parked", "awake", "place"}
Notifying == {"commit", "notify", "pick", "unparkDriver", "unparkParker"}
Pc == Idling \cup Notifying \cup
      {"top", "maintain", "poll", "pollRelease", "placePolled", "topPop",
       "search", "searchPop", "searchSteal", "searchAgain", "searchLeave",
       "leftovers", "rampUp", "rampUpKeeper", "rampUpDeadline", "run",
       "noWork", "spinning", "spinLeave", "spinRecheck", "unparkAll",
       "wakeParked", "free", "exited"}

Local == [pc : Pc, ret : Pc, target : Workers \cup {None},
          todo : SUBSET Workers,
          searcher : BOOLEAN,  \* counted in `searching`
          last : BOOLEAN,      \* was the last one to leave it
          found : BOOLEAN,     \* has a task in hand
          timed : BOOLEAN,     \* sleeps with a timeout
          sawStop : BOOLEAN]   \* read `stopping` before going to sleep

TypeOK ==
    /\ {queue, waiting, live, searching} \subseteq 0 .. MaxTasks + Cardinality(Workers)
    /\ local \in [Workers -> 0 .. MaxTasks]
    /\ gathered \in [Workers -> 0 .. MaxTasks]
    /\ idle \subseteq Workers
    /\ keeper \in Workers \cup {None}
    /\ keeperDeadline \in {"none", "set"}
    /\ rampUp \in {"none", "later", "due"}
    /\ token \in [Workers -> BOOLEAN]
    /\ options \in Options
    /\ {signal, stopping, parkedWoken} \subseteq BOOLEAN
    /\ th \in [Threads -> Local]

Thread(pc) == [pc |-> pc, ret |-> "free", target |-> None, todo |-> {},
               searcher |-> FALSE, last |-> FALSE, found |-> FALSE,
               timed |-> FALSE, sawStop |-> FALSE]

Init ==
    /\ queue = 0 /\ waiting = 0 /\ live = 0
    /\ local = [w \in Workers |-> 0]
    /\ gathered = [w \in Workers |-> 0]
    /\ idle = {} /\ searching = 0
    /\ keeper = None /\ keeperDeadline = "none" /\ rampUp = "none"
    /\ token = [w \in Workers |-> FALSE]
    /\ signal = FALSE
    /\ options \in Options
    /\ stopping = FALSE /\ parkedWoken = FALSE
    /\ th = [a \in Threads |-> Thread(IF a \in Workers THEN "top" ELSE "free")]

At(a, pc) == th[a].pc = pc
GoTo(a, pc) == th' = [th EXCEPT ![a].pc = pc]
\* Run the steps of Notifying from pc, then go on at ret.
Call(a, pc, ret) == th' = [th EXCEPT ![a].pc = pc, ![a].ret = ret]
Return(a) == th' = [th EXCEPT ![a].pc = th[a].ret, ![a].ret = "free"]
\* Go on at pc with a task in hand.
Got(a, pc) == th' = [th EXCEPT ![a].pc = pc, ![a].found = TRUE]

\* A producer between allocating and committing its entry of the queue.
Pushing == \E a \in Threads : At(a, "commit")

\* popInjection(): Empty, or Busy until it gives up.
PopFails == queue = 0 \/ Pushing
PopSucceeds == queue > 0 /\ queue' = queue - 1
TakeLocal(w) == local[w] > 0 /\ local' = [local EXCEPT ![w] = @ - 1]

-----------------------------------------------------------------------------
(* Publishing work and waking a worker for it: any thread.                 *)

\* pushInjection() commits.
Commit(a) ==
    /\ At(a, "commit")
    /\ queue' = queue + 1
    /\ GoTo(a, "notify")
    /\ UNCHANGED <<local, gathered, waiting, live, coordVars,
                   wakeVars, lifeVars>>

\* notifyIdleWorker(): a searching worker will find the work by itself.
Notify(a) ==
    /\ At(a, "notify")
    /\ IF searching > 0 THEN Return(a) ELSE GoTo(a, "pick")
    /\ UNCHANGED <<workVars, coordVars, wakeVars, lifeVars>>

\* Its CAS takes one bit out of idleMask, the timekeeper's only if alone; the
\* keeper k is what a relaxed load saw and may be out of date.
Candidates(k) == IF idle \ {k} # {} THEN idle \ {k} ELSE idle

Pick(a) ==
    /\ At(a, "pick")
    /\ \/ /\ idle = {}
          /\ Return(a)
          /\ UNCHANGED idle
       \/ \E k \in Workers \cup {None} : \E w \in Candidates(k) :
            /\ idle' = idle \ {w}
            /\ th' = [th EXCEPT ![a].pc = "unparkDriver", ![a].target = w]
    /\ UNCHANGED <<workVars, searching, keeper, keeperDeadline, rampUp,
                   wakeVars, lifeVars>>

\* unparkWorker(): the Driver, if the target is the timekeeper now ...
UnparkDriver(a) ==
    /\ At(a, "unparkDriver")
    /\ signal' = (signal \/ (HasDriver /\ keeper = th[a].target))
    /\ GoTo(a, "unparkParker")
    /\ UNCHANGED <<workVars, coordVars, token, lifeVars>>

\* Mutant: the timekeeper is taken to sleep in the Driver always.
UnparkParkerUnlessKeeper(a) ==
    /\ At(a, "unparkParker")
    /\ token' = [token EXCEPT ![th[a].target] = @ \/ keeper # th[a].target]
    /\ th' = [th EXCEPT ![a].pc = th[a].ret, ![a].ret = "free",
                        ![a].target = None]
    /\ UNCHANGED <<workVars, coordVars, signal, lifeVars>>

\* ... and its Parker.
UnparkParker(a) ==
    /\ At(a, "unparkParker")
    /\ token' = [token EXCEPT ![th[a].target] = TRUE]
    /\ th' = [th EXCEPT ![a].pc = th[a].ret, ![a].ret = "free",
                        ![a].target = None]
    /\ UNCHANGED <<workVars, coordVars, signal, lifeVars>>

\* unparkWorker() on every worker, one after the other.
UnparkNext(a) ==
    /\ At(a, "unparkAll")
    /\ \/ \E w \in th[a].todo :
            th' = [th EXCEPT ![a].pc = "unparkDriver", ![a].target = w,
                             ![a].ret = "unparkAll", ![a].todo = @ \ {w}]
       \/ /\ th[a].todo = {}
          /\ GoTo(a, IF a \in Workers THEN "top" ELSE "exited")
    /\ UNCHANGED <<workVars, coordVars, wakeVars, lifeVars>>

\* A task from nowhere (spawn) or a parked one (wake): before it is queued.
NewTask ==
    \/ /\ ~stopping /\ live < MaxTasks
       /\ live' = live + 1
       /\ UNCHANGED waiting
    \/ /\ waiting > 0
       /\ waiting' = waiting - 1
       /\ UNCHANGED live

\* schedule() on a foreign thread: inject().
Produce(a) ==
    /\ At(a, "free") /\ a \in Producers
    /\ NewTask
    /\ Call(a, "commit", "free")
    /\ UNCHANGED <<queue, local, gathered, coordVars, wakeVars, lifeVars>>

-----------------------------------------------------------------------------
(* The task a worker runs.                                                 *)

\* nextOrDispatcher(): hand off to a local task or go back to the dispatcher.
HandOff(w) ==
    \/ TakeLocal(w) /\ UNCHANGED th
    \/ local[w] = 0 /\ GoTo(w, "top") /\ UNCHANGED local

RunPark(w) ==
    /\ At(w, "run")
    /\ waiting' = waiting + 1
    /\ HandOff(w)
    /\ UNCHANGED <<queue, gathered, live, coordVars, wakeVars, lifeVars>>

\* onTaskFinished(); the last task to finish under stop() wakes everyone.
RunFinish(w) ==
    /\ At(w, "run")
    /\ live' = live - 1
    /\ \/ /\ stopping /\ live = 1
          /\ th' = [th EXCEPT ![w].pc = "unparkAll", ![w].todo = Workers]
          /\ UNCHANGED local
       \/ ~(stopping /\ live = 1) /\ HandOff(w)
    /\ UNCHANGED <<queue, gathered, waiting, coordVars, wakeVars, lifeVars>>

\* schedule() from a task: an idle peer gets it, else it stays here.
RunSchedule(w) ==
    /\ At(w, "run")
    /\ NewTask
    /\ \/ /\ idle = {}
          /\ local' = [local EXCEPT ![w] = @ + 1]
          /\ UNCHANGED th
       \/ /\ idle # {}
          /\ Call(w, "commit", "run")
          /\ UNCHANGED local
    /\ UNCHANGED <<queue, gathered, coordVars, wakeVars, lifeVars>>

-----------------------------------------------------------------------------
(* Worker::run(): looking for the next task.                               *)

\* Every kInjectionCheckPeriod tasks maintain() and the injection queue go
\* first; otherwise the worker's own queues.
Top(w) ==
    /\ At(w, "top")
    /\ \/ GoTo(w, "maintain") /\ UNCHANGED local
       \/ TakeLocal(w) /\ GoTo(w, "run")
       \/ local[w] = 0 /\ GoTo(w, "search") /\ UNCHANGED local
    /\ UNCHANGED <<queue, gathered, waiting, live, coordVars,
                   wakeVars, lifeVars>>

\* Mutant: polls the Driver whoever is inside it.
MaintainUnclaimed(w) ==
    /\ At(w, "maintain")
    /\ GoTo(w, IF HasDriver THEN "poll" ELSE "placePolled")
    /\ UNCHANGED <<workVars, coordVars, wakeVars, lifeVars>>

\* maintain(): with nobody inside the Driver, poll it.
Maintain(w) ==
    /\ At(w, "maintain")
    /\ \/ /\ HasDriver /\ keeper = None
          /\ keeper' = w
          /\ GoTo(w, "poll")
       \/ /\ ~(HasDriver /\ keeper = None)
          /\ GoTo(w, "placePolled")
          /\ UNCHANGED keeper
    /\ UNCHANGED <<workVars, idle, searching, keeperDeadline, rampUp, wakeVars,
                   lifeVars>>

\* Driver::wait(): drains a pending wake() and wakes what became ready.
DriverReturns(w) ==
    /\ signal' = FALSE
    /\ \E n \in 0 .. waiting :
         /\ waiting' = waiting - n
         /\ gathered' = [gathered EXCEPT ![w] = n]

Poll(w) ==
    /\ At(w, "poll")
    /\ DriverReturns(w)
    /\ GoTo(w, "pollRelease")
    /\ UNCHANGED <<queue, local, live, coordVars, token, lifeVars>>

PollRelease(w) ==
    /\ At(w, "pollRelease")
    /\ keeper' = None
    /\ GoTo(w, "placePolled")
    /\ UNCHANGED <<workVars, idle, searching, keeperDeadline, rampUp, wakeVars,
                   lifeVars>>

\* placeGathered(): n tasks go to idle peers in one batch, or stay here.
PlaceRest(w, n, ret) ==
    /\ gathered' = [gathered EXCEPT ![w] = 0]
    /\ \/ /\ idle # {} /\ n > 0
          /\ queue' = queue + n
          /\ Call(w, "notify", ret)
          /\ UNCHANGED local
       \/ /\ idle = {} \/ n = 0
          /\ local' = [local EXCEPT ![w] = @ + n]
          /\ GoTo(w, ret)
          /\ UNCHANGED queue

\* From maintain(): a lone task with nothing else queued runs here next.
PlacePolled(w) ==
    /\ At(w, "placePolled")
    /\ \/ /\ gathered[w] = 1 /\ local[w] = 0
          /\ gathered' = [gathered EXCEPT ![w] = 0]
          /\ local' = [local EXCEPT ![w] = 1]
          /\ GoTo(w, "topPop")
          /\ UNCHANGED queue
       \/ /\ ~(gathered[w] = 1 /\ local[w] = 0)
          /\ PlaceRest(w, gathered[w], "topPop")
    /\ UNCHANGED <<waiting, live, coordVars, wakeVars, lifeVars>>

TopPop(w) ==
    /\ At(w, "topPop")
    /\ \/ PopSucceeds /\ GoTo(w, "run") /\ UNCHANGED local
       \/ /\ PopFails
          /\ \/ TakeLocal(w) /\ GoTo(w, "run")
             \/ local[w] = 0 /\ GoTo(w, "search") /\ UNCHANGED local
          /\ UNCHANGED queue
    /\ UNCHANGED <<gathered, waiting, live, coordVars, wakeVars, lifeVars>>

-----------------------------------------------------------------------------
(* searchForWork().                                                        *)

SearchLimit == Cardinality(Workers) \div 2 + 1

Search(w) ==
    /\ At(w, "search")
    /\ LET joins == searching < SearchLimit
       IN  /\ searching' = IF joins THEN searching + 1 ELSE searching
           /\ th' = [th EXCEPT ![w].pc = "searchPop", ![w].searcher = joins,
                               ![w].found = FALSE]
    /\ UNCHANGED <<workVars, idle, keeper, keeperDeadline, rampUp, wakeVars, lifeVars>>

\* popInjection() at pc, going on at `next` when it finds nothing.
PopAt(w, pc, next) ==
    /\ At(w, pc)
    /\ \/ PopSucceeds /\ Got(w, "searchLeave")
       \/ PopFails /\ GoTo(w, next) /\ UNCHANGED queue
    /\ UNCHANGED <<local, gathered, waiting, live, coordVars, wakeVars, lifeVars>>

SearchPop(w) ==
    PopAt(w, "searchPop", IF th[w].searcher THEN "searchSteal" ELSE "searchLeave")
SearchAgain(w) == PopAt(w, "searchAgain", "searchLeave")

\* steal(): the first of a victim's block to run, the rest to keep.
Steal(w, v, n) ==
    /\ v # w /\ n \in 1 .. local[v]
    /\ local' = [local EXCEPT ![v] = @ - n, ![w] = @ + n - 1]

\* It may come back empty-handed from a short queue.
SearchSteal(w) ==
    /\ At(w, "searchSteal")
    /\ \/ /\ \E v \in Workers, n \in 1 .. MaxTasks : Steal(w, v, n)
          /\ Got(w, "searchLeave")
       \/ GoTo(w, "searchAgain") /\ UNCHANGED local
    /\ UNCHANGED <<queue, gathered, waiting, live, coordVars, wakeVars, lifeVars>>

AfterFind(w, last) == IF last THEN "leftovers" ELSE "run"

SearchLeave(w) ==
    /\ At(w, "searchLeave")
    /\ searching' = IF th[w].searcher THEN searching - 1 ELSE searching
    /\ th' = [th EXCEPT ![w].searcher = FALSE, ![w].found = FALSE,
                ![w].pc = IF th[w].found
                          THEN AfterFind(w, th[w].searcher /\ searching = 1)
                          ELSE "noWork"]
    /\ UNCHANGED <<workVars, idle, keeper, keeperDeadline, rampUp, wakeVars, lifeVars>>

\* wakePeerForLeftovers().
Leftovers(w) ==
    /\ At(w, "leftovers")
    /\ GoTo(w, IF queue > 0 \/ local[w] > 0 THEN "rampUp" ELSE "run")
    /\ UNCHANGED <<workVars, coordVars, wakeVars, lifeVars>>

\* requestRampUp(): a request that is pending already is due before ours.
RampUp(w) ==
    /\ At(w, "rampUp")
    /\ \/ ~RampUpDelay /\ Call(w, "notify", "run") /\ UNCHANGED rampUp
       \/ /\ RampUpDelay /\ (idle = {} \/ rampUp # "none")
          /\ GoTo(w, "run") /\ UNCHANGED rampUp
       \/ /\ RampUpDelay /\ idle # {} /\ rampUp = "none"
          /\ rampUp' = "later" /\ GoTo(w, "rampUpKeeper")
    /\ UNCHANGED <<workVars, idle, searching, keeper, keeperDeadline, wakeVars, lifeVars>>

RampUpKeeper(w) ==
    /\ At(w, "rampUpKeeper")
    /\ \/ keeper = None /\ Call(w, "notify", "run")
       \/ /\ keeper # None
          /\ th' = [th EXCEPT ![w].pc = "rampUpDeadline", ![w].target = keeper]
    /\ UNCHANGED <<workVars, coordVars, wakeVars, lifeVars>>

\* The keeper sleeps without a timeout or is still looking for one: wake it.
RampUpDeadline(w) ==
    /\ At(w, "rampUpDeadline")
    /\ \/ keeperDeadline = "none" /\ Call(w, "unparkDriver", "run")
       \/ /\ keeperDeadline # "none"
          /\ th' = [th EXCEPT ![w].pc = "run", ![w].target = None]
    /\ UNCHANGED <<workVars, coordVars, wakeVars, lifeVars>>

\* rampUpDelay goes by.
RampUpDue ==
    /\ rampUp = "later"
    /\ rampUp' = "due"
    /\ UNCHANGED <<workVars, idle, searching, keeper, keeperDeadline, wakeVars, lifeVars, th>>
-----------------------------------------------------------------------------
(* No work found.                                                          *)

\* Under stop(), a parked task is claimed and unwound, or run() returns.
NoWorkStopping(w) ==
    /\ At(w, "noWork") /\ stopping
    /\ \/ /\ parkedWoken /\ waiting > 0
          /\ waiting' = waiting - 1
          /\ GoTo(w, "run")
       \/ /\ live = 0
          /\ GoTo(w, "exited")
          /\ UNCHANGED waiting
       \/ /\ live # 0
          /\ GoTo(w, "mark")
          /\ UNCHANGED waiting
    /\ UNCHANGED <<queue, local, gathered, live, coordVars, wakeVars, lifeVars>>

\* spinForWork() as one more searcher, or not at all.
NoWork(w) ==
    /\ At(w, "noWork") /\ ~stopping
    /\ \/ /\ IdleSpin /\ ~(HasDriver /\ keeper = None)
          /\ searching < MaxSpinners
          /\ searching' = searching + 1
          /\ GoTo(w, "spinning")
       \/ GoTo(w, "mark") /\ UNCHANGED searching
    /\ UNCHANGED <<workVars, idle, keeper, keeperDeadline, rampUp, wakeVars, lifeVars>>

\* The spin finds something or times out.
Spin(w) ==
    /\ At(w, "spinning")
    /\ \/ TakeLocal(w) /\ Got(w, "spinLeave") /\ UNCHANGED queue
       \/ PopSucceeds /\ Got(w, "spinLeave") /\ UNCHANGED local
       \/ /\ \E v \in Workers, n \in 1 .. MaxTasks : Steal(w, v, n)
          /\ Got(w, "spinLeave") /\ UNCHANGED queue
       \/ GoTo(w, "spinLeave") /\ UNCHANGED <<queue, local>>
    /\ UNCHANGED <<gathered, waiting, live, coordVars, wakeVars, lifeVars>>

SpinLeave(w) ==
    /\ At(w, "spinLeave")
    /\ searching' = searching - 1
    /\ th' = [th EXCEPT ![w].pc = "spinRecheck", ![w].last = (searching = 1)]
    /\ UNCHANGED <<workVars, idle, keeper, keeperDeadline, rampUp, wakeVars, lifeVars>>

SpinRecheck(w) ==
    /\ At(w, "spinRecheck")
    /\ LET Leave(pc) == th' = [th EXCEPT ![w].pc = pc, ![w].found = FALSE,
                                         ![w].last = FALSE]
           next == AfterFind(w, th[w].last)
       IN  \/ th[w].found /\ Leave(next) /\ UNCHANGED <<queue, local>>
           \/ ~th[w].found /\ TakeLocal(w) /\ Leave(next) /\ UNCHANGED queue
           \/ /\ ~th[w].found /\ local[w] = 0
              /\ \/ PopSucceeds /\ Leave(next)
                 \/ PopFails /\ Leave("mark") /\ UNCHANGED queue
              /\ UNCHANGED local
    /\ UNCHANGED <<gathered, waiting, live, coordVars, wakeVars, lifeVars>>

\* parkIdle(): publish idleness, then look once more.
Mark(w) ==
    /\ At(w, "mark")
    /\ idle' = idle \cup {w}
    /\ GoTo(w, "recheck")
    /\ UNCHANGED <<workVars, searching, keeper, keeperDeadline, rampUp, wakeVars, lifeVars>>

\* Mutant: goes to sleep without looking once more.
RecheckSkipped(w) ==
    /\ At(w, "recheck")
    /\ GoTo(w, "sleep")
    /\ UNCHANGED <<workVars, coordVars, wakeVars, lifeVars>>

Recheck(w) ==
    /\ At(w, "recheck")
    /\ \/ TakeLocal(w) /\ GoTo(w, "unmark") /\ UNCHANGED queue
       \/ /\ local[w] = 0
          /\ \/ PopSucceeds /\ GoTo(w, "unmark")
             \/ PopFails /\ GoTo(w, "sleep") /\ UNCHANGED queue
          /\ UNCHANGED local
    /\ UNCHANGED <<gathered, waiting, live, coordVars, wakeVars, lifeVars>>

\* Somebody who claimed us meanwhile will unpark us: drop that token.
Unmark(w) ==
    /\ At(w, "unmark")
    /\ idle' = idle \ {w}
    /\ token' = IF w \in idle THEN token ELSE [token EXCEPT ![w] = FALSE]
    /\ GoTo(w, "run")
    /\ UNCHANGED <<workVars, searching, keeper, keeperDeadline, rampUp, signal, lifeVars>>

-----------------------------------------------------------------------------
(* sleepIdle().                                                            *)

\* Mutant: sleeps without a timeout under stop() too.
SleepForGood(w) ==
    /\ At(w, "sleep")
    /\ GoTo(w, "claim")
    /\ UNCHANGED <<workVars, coordVars, wakeVars, lifeVars>>

Sleep(w) ==
    /\ At(w, "sleep")
    /\ th' = [th EXCEPT ![w].pc = "claim", ![w].sawStop = stopping]
    /\ UNCHANGED <<workVars, coordVars, wakeVars, lifeVars>>

\* tryBecomeTimekeeper().
Claim(w) ==
    /\ At(w, "claim")
    /\ \/ keeper = None /\ keeper' = w /\ GoTo(w, "scan")
       \/ keeper # None /\ GoTo(w, "parked") /\ UNCHANGED keeper
    /\ UNCHANGED <<workVars, idle, searching, keeperDeadline, rampUp, wakeVars, lifeVars>>

\* keeperDeadline := kScanningTimers, above every deadline like kNoDeadline.
Scan(w) ==
    /\ At(w, "scan")
    /\ keeperDeadline' = "none"
    /\ GoTo(w, "readRampUp")
    /\ UNCHANGED <<workVars, idle, searching, keeper, rampUp, wakeVars, lifeVars>>

ReadRampUp(w) ==
    /\ At(w, "readRampUp")
    /\ th' = [th EXCEPT ![w].pc = "publish", ![w].timed = (rampUp # "none")]
    /\ UNCHANGED <<workVars, coordVars, wakeVars, lifeVars>>

Publish(w) ==
    /\ At(w, "publish")
    /\ keeperDeadline' = IF th[w].timed THEN "set" ELSE "none"
    /\ GoTo(w, "keep")
    /\ UNCHANGED <<workVars, idle, searching, keeper, rampUp, wakeVars, lifeVars>>

\* The timeout the timekeeper sleeps with may have run out.
TimeoutPasses(w) == th[w].sawStop \/ (th[w].timed /\ rampUp # "later")

\* The timekeeper's sleep ends: in the Driver ...
KeepDriver(w) ==
    /\ At(w, "keep") /\ HasDriver
    /\ signal \/ TimeoutPasses(w) \/ waiting > 0
    /\ DriverReturns(w)
    /\ GoTo(w, "keepRelease")
    /\ UNCHANGED <<queue, local, live, coordVars, token, lifeVars>>

\* ... or on its Parker.
KeepParker(w) ==
    /\ At(w, "keep") /\ ~HasDriver
    /\ token[w] \/ TimeoutPasses(w)
    /\ token' = [token EXCEPT ![w] = FALSE]
    /\ GoTo(w, "keepRelease")
    /\ UNCHANGED <<workVars, coordVars, signal, lifeVars>>

KeepRelease(w) ==
    /\ At(w, "keepRelease")
    /\ keeper' = None
    /\ GoTo(w, "keepDue")
    /\ UNCHANGED <<workVars, idle, searching, keeperDeadline, rampUp, wakeVars, lifeVars>>

\* A due request is answered by this worker going back to the run loop.
KeepDue(w) ==
    /\ At(w, "keepDue")
    /\ rampUp' = IF rampUp = "due" THEN "none" ELSE rampUp
    /\ GoTo(w, "awake")
    /\ UNCHANGED <<workVars, idle, searching, keeper, keeperDeadline, wakeVars, lifeVars>>

\* Any other idle worker: Parker::park(), or parkFor(1ms) under stop().
Parked(w) ==
    /\ At(w, "parked")
    /\ token[w] \/ th[w].sawStop
    /\ token' = [token EXCEPT ![w] = FALSE]
    /\ GoTo(w, "awake")
    /\ UNCHANGED <<workVars, coordVars, signal, lifeVars>>

Awake(w) ==
    /\ At(w, "awake")
    /\ idle' = idle \ {w}
    /\ th' = [th EXCEPT ![w].pc = "place", ![w].timed = FALSE, ![w].sawStop = FALSE]
    /\ UNCHANGED <<workVars, searching, keeper, keeperDeadline, rampUp, wakeVars, lifeVars>>

\* placeGathered(true): the first task is run here.
Place(w) ==
    /\ At(w, "place")
    /\ \/ /\ gathered[w] = 0
          /\ GoTo(w, "top")
          /\ UNCHANGED <<queue, local, gathered>>
       \/ gathered[w] > 0 /\ PlaceRest(w, gathered[w] - 1, "run")
    /\ UNCHANGED <<waiting, live, coordVars, wakeVars, lifeVars>>

-----------------------------------------------------------------------------
(* Scheduler::stop().                                                      *)

Stop(a) ==
    /\ At(a, "free") /\ ~stopping
    /\ stopping' = TRUE
    /\ GoTo(a, "wakeParked")
    /\ UNCHANGED <<workVars, coordVars, wakeVars, options, parkedWoken>>

\* wakeAllParked(), parkedWoken, then every worker is unparked.
StopWakes(a) ==
    /\ At(a, "wakeParked")
    /\ \/ /\ waiting > 0
          /\ waiting' = waiting - 1
          /\ Call(a, "commit", "wakeParked")
          /\ UNCHANGED parkedWoken
       \/ /\ waiting = 0
          /\ parkedWoken' = TRUE
          /\ th' = [th EXCEPT ![a].pc = "unparkAll", ![a].todo = Workers]
          /\ UNCHANGED waiting
    /\ UNCHANGED <<queue, local, gathered, live, coordVars, wakeVars, options, stopping>>

Stopped ==
    /\ \A w \in Workers : At(w, "exited")
    /\ UNCHANGED vars

-----------------------------------------------------------------------------
NotifyStep(a) == \/ Commit(a) \/ Notify(a) \/ Pick(a) \/ UnparkDriver(a)
                 \/ UnparkParker(a) \/ UnparkNext(a)

FindStep(w) == \/ Top(w) \/ Maintain(w) \/ Poll(w) \/ PollRelease(w)
               \/ PlacePolled(w) \/ TopPop(w) \/ Search(w) \/ SearchPop(w)
               \/ SearchSteal(w) \/ SearchAgain(w) \/ SearchLeave(w)
               \/ Leftovers(w) \/ RampUp(w) \/ RampUpKeeper(w)
               \/ RampUpDeadline(w)

IdleStep(w) == \/ NoWorkStopping(w) \/ NoWork(w) \/ Spin(w) \/ SpinLeave(w)
               \/ SpinRecheck(w) \/ Mark(w) \/ Recheck(w) \/ Unmark(w)
               \/ Sleep(w) \/ Claim(w) \/ Scan(w) \/ ReadRampUp(w)
               \/ Publish(w) \/ KeepDriver(w) \/ KeepParker(w)
               \/ KeepRelease(w) \/ KeepDue(w) \/ Parked(w) \/ Awake(w)
               \/ Place(w)

RunStep(w) == RunPark(w) \/ RunFinish(w) \/ RunSchedule(w)

Next ==
    \/ \E a \in Threads : NotifyStep(a)
    \/ \E a \in Producers : Produce(a)
    \/ \E w \in Workers : RunStep(w) \/ FindStep(w) \/ IdleStep(w)
    \/ \E a \in Stoppers : Stop(a) \/ StopWakes(a)
    \/ RampUpDue \/ Stopped

Spec == Init /\ [][Next]_vars
-----------------------------------------------------------------------------
(* Properties.                                                             *)

\* Asleep, with nothing under way that would end the sleep.
Deaf(w) ==
    \/ At(w, "parked") /\ ~token[w] /\ ~th[w].sawStop
    \/ At(w, "keep") /\ ~HasDriver /\ ~token[w] /\ ~th[w].sawStop /\ ~th[w].timed
    \/ At(w, "keep") /\ HasDriver /\ ~signal /\ ~th[w].sawStop /\ ~th[w].timed

Quiet(a) == th[a].pc \notin Notifying \cup {"unparkAll"}

\* The push in inject() and the worker's publishing of its idleness form a
\* Dekker pair (notifyIdleWorker, parkIdle): injected work is never left with
\* every worker asleep and no producer still about to wake one.
NoLostWork ==
    queue > 0 /\ (\A a \in Threads : Quiet(a)) => \E w \in Workers : ~Deaf(w)

\* After stop() has unparked everyone, no worker sleeps without a timeout:
\* each saw `stopping` on its way to sleep or was woken (stop, unparkWorker).
NoneSleepsThroughStop ==
    (\E a \in Stoppers : At(a, "exited")) => \A w \in Workers : ~Deaf(w)

\* At most one worker is inside Driver::wait(), and it holds the timekeeper
\* role that unparkWorker() reads to reach it there (Driver.h).
OnlyKeeperInDriver ==
    \A w \in Workers : th[w].pc \in {"keep", "poll"} => keeper = w

\* A worker the producer took out of idleMask to wake it does get woken.
ClaimedIsWoken ==
    \A w \in Workers : Deaf(w) =>
        \/ w \in idle
        \/ \E a \in Threads : th[a].target = w

\* Without a Driver injected work is not left with every worker asleep and no
\* producer about to wake one (inject, notifyIdleWorker, parkIdle).
InjectedWorkIsSeen == ~HasDriver => NoLostWork

\* A worker taken out of idleMask to be woken is woken (notifyIdleWorker).
ClaimReachesSleeper == ~HasDriver => ClaimedIsWoken

\* "More work is left over: have an idle worker join after rampUpDelay,
\* through the timekeeper's timeout" (SchedulerCore.h, requestRampUp): while
\* a request is pending, and so further ones are dropped, somebody is there
\* to answer it: not every worker is either running a task or asleep for good.
RampUpIsAnswered ==
    rampUp # "none" /\ queue > 0 /\ (\E w \in idle : Deaf(w)) =>
        \/ \E a \in Threads : ~Quiet(a)
        \/ \E w \in Workers : ~Deaf(w) /\ ~At(w, "run")
=============================================================================
