----------------------------- MODULE Timekeeper -----------------------------
(***************************************************************************)
(* Who sleeps on the timers: SchedulerCore::addTimer(), ensureTimekeeper() *)
(* and fireTimers() against the worker that holds the timekeeper role, and *)
(* the lock-free mirrors (timerMask, TimerQueue::earliest) between them.   *)
(*                                                                         *)
(* Tasks other than sleepers are counted (`work`), or known by a worker    *)
(* having some lined up for itself (`more`).  How an idle worker is        *)
(* notified is IdleWorkers.tla's subject: here it is one step, and there   *)
(* is no Driver and no stop().  Deadlines are ticks of a clock that ends   *)
(* at MaxTime.                                                             *)
(***************************************************************************)
EXTENDS Integers, FiniteSets, FiniteSetsExt

CONSTANTS Workers,
          Sleepers,     \* tasks that call this_task::sleepUntil()
          None,         \* a null Worker or Task pointer
          MaxTime,
          MaxWork,      \* most tasks in the injection queue
          RampUpDelay,  \* SchedulerOptions::rampUpDelay > 0
          Pinned        \* there are tasks pinned to a worker

ASSUME NoneIsNobody == None \notin Workers \cup Sleepers
ASSUME TimeIsNatural == MaxTime \in Nat /\ MaxWork \in Nat
ASSUME SwitchesAreBoolean == RampUpDelay \in BOOLEAN /\ Pinned \in BOOLEAN

VARIABLES
    heap, lock,        \* TimerQueue, one per worker
    earliest, mask,    \* its mirrors: earliest, and timerMask
    deadline, fired,   \* TimerEntry of a sleeper
    task, notified,    \* where a sleeper is, and its sticky wake token
    keeper, keeperDeadline,
    idle, token,       \* idleMask, Parker tokens
    recent,            \* lastKeeperWake is less than rampUpDelay ago
    now, work,
    th                 \* a worker's program counter and local variables

timerVars == <<heap, lock, earliest, mask, deadline, fired>>
taskVars  == <<task, notified, work>>
keepVars  == <<keeper, keeperDeadline>>
idleVars  == <<idle, token>>
vars == <<timerVars, taskVars, keepVars, idleVars, recent, now, th>>

Never == MaxTime + 1    \* kNoDeadline, and kScanningTimers, which equals it
Pc == {"run", "add", "mirror", "askKeeper", "askDeadline", "check", "park",
       "top", "again", "take", "dispatch", "ensure", "place", "mark", "recheck",
       "claim", "scanMark", "scanMask", "scan", "keep", "release", "parked",
       "awake", "fire", "fireNext", "expire", "expireMirror", "wake"}
Local == [pc : Pc, ret : Pc, entry : Sleepers \cup {None},
          more : BOOLEAN,                    \* hasLocalWork()
          gathered : SUBSET Sleepers,
          target : Workers \cup {None}, todo : SUBSET Workers,
          wakeAt : 0 .. Never, clock : 0 .. MaxTime]

TypeOK ==
    /\ heap \in [Workers -> SUBSET Sleepers]
    /\ lock \in [Workers -> Workers \cup {None}]
    /\ earliest \in [Workers -> 0 .. Never]
    /\ mask \subseteq Workers
    /\ deadline \in [Sleepers -> 0 .. MaxTime]
    /\ fired \in [Sleepers -> BOOLEAN]
    /\ task \in [Sleepers -> {"awake", "onWorker", "parked", "gathered", "ready"}]
    /\ notified \in [Sleepers -> BOOLEAN]
    /\ keeper \in Workers \cup {None}
    /\ keeperDeadline \in 0 .. Never
    /\ idle \subseteq Workers
    /\ token \in [Workers -> BOOLEAN]
    /\ recent \in BOOLEAN
    /\ now \in 0 .. MaxTime
    /\ work \in 0 .. MaxWork
    /\ th \in [Workers -> Local]

Init ==
    /\ heap = [w \in Workers |-> {}] /\ lock = [w \in Workers |-> None]
    /\ earliest = [w \in Workers |-> Never] /\ mask = {}
    /\ deadline = [e \in Sleepers |-> 0] /\ fired = [e \in Sleepers |-> FALSE]
    /\ task = [e \in Sleepers |-> "awake"]
    /\ notified = [e \in Sleepers |-> FALSE]
    /\ keeper = None /\ keeperDeadline = Never
    /\ idle = {} /\ token = [w \in Workers |-> FALSE]
    /\ recent = FALSE /\ now = 0 /\ work = 0
    /\ th = [w \in Workers |-> [pc |-> "top", ret |-> "top", entry |-> None,
                                more |-> FALSE, gathered |-> {}, target |-> None, todo |-> {},
                                wakeAt |-> Never, clock |-> 0]]

At(w, pc) == th[w].pc = pc
GoTo(w, pc) == th' = [th EXCEPT ![w].pc = pc]
Call(w, pc, ret) == th' = [th EXCEPT ![w].pc = pc, ![w].ret = ret]
Return(w) == th' = [th EXCEPT ![w].pc = th[w].ret, ![w].ret = "top"]

\* The earliest deadline among the entries, or kNoDeadline.
EarliestOf(entries) == Min({deadline[e] : e \in entries} \cup {Never})

\* notifyIdleWorker(): a searching worker will do, else one of those that
\* idle, the timekeeper only if it is alone.
Searching == \E w \in Workers : At(w, "take")
NotifyIdleWorker(sleeping) ==
    \/ /\ Searching \/ sleeping = {}
       /\ idle' = sleeping /\ UNCHANGED token
    \/ \E w \in IF sleeping \ {keeper} # {} THEN sleeping \ {keeper} ELSE sleeping :
         /\ idle' = sleeping \ {w}
         /\ token' = [token EXCEPT ![w] = TRUE]

-----------------------------------------------------------------------------
(* this_task::sleepUntil() and addTimer(), on the sleeper's worker.        *)

\* With more tasks lined up behind the sleeper or not.
SleepUntil(w, e) ==
    /\ At(w, "run") /\ task[e] = "awake"
    /\ \E d \in now + 1 .. MaxTime : deadline' = [deadline EXCEPT ![e] = d]
    /\ \E more \in {th[w].more, TRUE} :
         th' = [th EXCEPT ![w].pc = "add", ![w].entry = e, ![w].more = more]
    /\ task' = [task EXCEPT ![e] = "onWorker"]
    /\ UNCHANGED <<heap, lock, earliest, mask, fired, notified, work, keepVars,
                   idleVars, recent, now>>

\* TimerQueue::add() under its lock: the entry, the active bit ...
Add(w) ==
    /\ At(w, "add") /\ lock[w] = None
    /\ lock' = [lock EXCEPT ![w] = w]
    /\ fired' = [fired EXCEPT ![th[w].entry] = FALSE]
    /\ heap' = [heap EXCEPT ![w] = @ \cup {th[w].entry}]
    /\ mask' = mask \cup {w}
    /\ GoTo(w, "mirror")
    /\ UNCHANGED <<earliest, deadline, taskVars, keepVars, idleVars, recent, now>>

\* ... and then the earliest deadline.
AddMirror(w) ==
    /\ At(w, "mirror")
    /\ earliest' = [earliest EXCEPT ![w] = EarliestOf(heap[w])]
    /\ lock' = [lock EXCEPT ![w] = None]
    /\ GoTo(w, "askKeeper")
    /\ UNCHANGED <<heap, mask, deadline, fired, taskVars, keepVars, idleVars,
                   recent, now>>

\* Nobody sleeps on the timers and more tasks are lined up: a peer must.
AskKeeper(w) ==
    /\ At(w, "askKeeper")
    /\ \/ keeper # None /\ th' = [th EXCEPT ![w].pc = "askDeadline", ![w].target = keeper]
       \/ keeper = None /\ th[w].more /\ Call(w, "ensure", "check")
       \/ keeper = None /\ ~th[w].more /\ GoTo(w, "check")
    /\ UNCHANGED <<timerVars, taskVars, keepVars, idleVars, recent, now>>

\* It would sleep past our deadline: unparkWorker().
AskDeadline(w) ==
    /\ At(w, "askDeadline")
    /\ token' = [token EXCEPT ![th[w].target] =
                   @ \/ deadline[th[w].entry] < keeperDeadline]
    /\ th' = [th EXCEPT ![w].pc = "check", ![w].target = None]
    /\ UNCHANGED <<timerVars, taskVars, keepVars, idle, recent, now>>

\* while (not fired) park(): the task goes on, and its entry is gone, or is
\* about to park.
Check(w) ==
    /\ At(w, "check")
    /\ \/ /\ fired[th[w].entry]
          /\ task' = [task EXCEPT ![th[w].entry] = "awake"]
          /\ deadline' = [deadline EXCEPT ![th[w].entry] = 0]
          /\ fired' = [fired EXCEPT ![th[w].entry] = FALSE]
          /\ th' = [th EXCEPT ![w].pc = "run", ![w].entry = None]
       \/ /\ ~fired[th[w].entry]
          /\ GoTo(w, "park")
          /\ UNCHANGED <<task, deadline, fired>>
    /\ UNCHANGED <<heap, lock, earliest, mask, notified, work, keepVars, idleVars,
                   recent, now>>

\* The worker goes on with the tasks it has, or with its dispatcher.  A wake
\* is found before the switch, or after it: then the task is queued again.
Park(w) ==
    /\ At(w, "park")
    /\ LET e == th[w].entry
           switched == [th EXCEPT ![w].entry = None, ![w].more = FALSE,
                                  ![w].pc = IF th[w].more THEN "run" ELSE "top"]
       IN  \/ /\ notified[e]
              /\ notified' = [notified EXCEPT ![e] = FALSE]
              /\ GoTo(w, "check")
              /\ UNCHANGED <<task, idleVars>>
           \/ /\ notified[e]
              /\ notified' = [notified EXCEPT ![e] = FALSE]
              /\ task' = [task EXCEPT ![e] = "ready"]
              /\ th' = switched
              /\ NotifyIdleWorker(idle)
           \/ /\ ~notified[e]
              /\ task' = [task EXCEPT ![e] = "parked"]
              /\ th' = switched
              /\ UNCHANGED <<notified, idleVars>>
    /\ UNCHANGED <<timerVars, work, keepVars, recent, now>>

-----------------------------------------------------------------------------
(* The dispatcher.                                                         *)

\* A task ends or parks: the next one the worker has, or the dispatcher.
RunEnds(w) ==
    /\ At(w, "run")
    /\ th' = [th EXCEPT ![w].more = FALSE,
                        ![w].pc = IF th[w].more THEN "run" ELSE "top"]
    /\ UNCHANGED <<timerVars, taskVars, keepVars, idleVars, recent, now>>

\* The loop's top, after a task or again after some sleep: every so many
\* tasks, maintain() fires what is due before anything else.
Maintain(w) ==
    /\ At(w, "top") \/ At(w, "again")
    /\ Call(w, "fire", "place")
    /\ UNCHANGED <<timerVars, taskVars, keepVars, idleVars, recent, now>>

Look(w) ==
    /\ At(w, "top") \/ At(w, "again")
    /\ GoTo(w, "take")
    /\ UNCHANGED <<timerVars, taskVars, keepVars, idleVars, recent, now>>

\* maintain(), placeGathered(): a lone sleeper that was woken runs here next,
\* several are for the peers as well.
Place(w) ==
    /\ At(w, "place")
    /\ LET woken == th[w].gathered
       IN  /\ task' = [e \in Sleepers |-> IF e \in woken THEN "ready" ELSE task[e]]
           /\ IF woken # {} /\ (Cardinality(woken) > 1 \/ th[w].more)
                THEN NotifyIdleWorker(idle) ELSE UNCHANGED idleVars
    /\ th' = [th EXCEPT ![w].pc = "take", ![w].gathered = {}]
    /\ UNCHANGED <<timerVars, notified, work, keepVars, recent, now>>

\* Some task to run: the worker's own, an injected one, or a sleeper that
\* was woken.
Found(w) ==
    \/ /\ th[w].more
       /\ th' = [th EXCEPT ![w].pc = "dispatch", ![w].ret = "run", ![w].more = FALSE]
       /\ UNCHANGED <<task, work>>
    \/ /\ work > 0 /\ work' = work - 1
       /\ Call(w, "dispatch", "run")
       /\ UNCHANGED task
    \/ \E e \in Sleepers :
         /\ task[e] = "ready"
         /\ task' = [task EXCEPT ![e] = "onWorker"]
         /\ th' = [th EXCEPT ![w].pc = "dispatch", ![w].ret = "check", ![w].entry = e]
         /\ UNCHANGED work
NothingToRun(w) == work = 0 /\ ~th[w].more /\ \A e \in Sleepers : task[e] # "ready"

Take(w) ==
    /\ At(w, "take")
    /\ Found(w) \/ (NothingToRun(w) /\ GoTo(w, "mark") /\ UNCHANGED <<task, work>>)
    /\ UNCHANGED <<timerVars, notified, keepVars, idleVars, recent, now>>

\* Mutant: leaves the timers to somebody else.
DispatchOnly(w) ==
    /\ At(w, "dispatch")
    /\ Return(w)
    /\ UNCHANGED <<timerVars, taskVars, keepVars, idleVars, recent, now>>

\* A task may keep the worker for long: pending timers must not wait for it.
Dispatch(w) ==
    /\ At(w, "dispatch")
    /\ IF keeper = None THEN GoTo(w, "ensure") ELSE Return(w)
    /\ UNCHANGED <<timerVars, taskVars, keepVars, idleVars, recent, now>>

\* ensureTimekeeper(): at most one wake-up per rampUpDelay.  The timekeeper
\* may appear after it was looked for.
Ensure(w) ==
    /\ At(w, "ensure")
    /\ \/ /\ keeper # None \/ idle = {} \/ mask = {} \/ recent
          /\ UNCHANGED <<idleVars, recent>>
       \/ /\ idle # {} /\ mask # {} /\ ~recent
          /\ recent' = RampUpDelay
          /\ NotifyIdleWorker(idle)
    /\ Return(w)
    /\ UNCHANGED <<timerVars, taskVars, keepVars, now>>

-----------------------------------------------------------------------------
(* parkIdle() and sleepIdle().                                             *)

Mark(w) ==
    /\ At(w, "mark")
    /\ idle' = idle \cup {w}
    /\ GoTo(w, "recheck")
    /\ UNCHANGED <<timerVars, taskVars, keepVars, token, recent, now>>

\* Found after all: unmark, and drop the token of who claimed us.
Recheck(w) ==
    /\ At(w, "recheck")
    /\ \/ /\ Found(w)
          /\ idle' = idle \ {w}
          /\ token' = IF w \in idle THEN token ELSE [token EXCEPT ![w] = FALSE]
       \/ /\ NothingToRun(w) /\ GoTo(w, "claim")
          /\ UNCHANGED <<task, work, idleVars>>
    /\ UNCHANGED <<timerVars, notified, keepVars, recent, now>>

Claim(w) ==
    /\ At(w, "claim")
    /\ \/ keeper = None /\ keeper' = w /\ GoTo(w, "scanMark")
       \/ keeper # None /\ GoTo(w, "parked") /\ UNCHANGED keeper
    /\ UNCHANGED <<timerVars, taskVars, keeperDeadline, idleVars, recent, now>>

\* Mutant: the deadline of an earlier sleep stays while we look.
ScanUnmarked(w) ==
    /\ At(w, "scanMark")
    /\ GoTo(w, "scanMask")
    /\ UNCHANGED <<timerVars, taskVars, keepVars, idleVars, recent, now>>

ScanMark(w) ==
    /\ At(w, "scanMark")
    /\ keeperDeadline' = Never
    /\ GoTo(w, "scanMask")
    /\ UNCHANGED <<timerVars, taskVars, keeper, idleVars, recent, now>>

\* nextDeadline(): the queues that hold entries, one after the other.
ScanMask(w) ==
    /\ At(w, "scanMask")
    /\ th' = [th EXCEPT ![w].pc = "scan", ![w].todo = mask, ![w].wakeAt = Never]
    /\ UNCHANGED <<timerVars, taskVars, keepVars, idleVars, recent, now>>

Scan(w) ==
    /\ At(w, "scan")
    /\ \/ \E v \in th[w].todo :
            /\ th' = [th EXCEPT ![w].todo = @ \ {v},
                                ![w].wakeAt = Min({@, earliest[v]})]
            /\ UNCHANGED keeperDeadline
       \/ /\ th[w].todo = {}
          /\ keeperDeadline' = th[w].wakeAt
          /\ GoTo(w, "keep")
    /\ UNCHANGED <<timerVars, taskVars, keeper, idleVars, recent, now>>

\* The Parker returns: a token, or the timeout.
Keep(w) ==
    /\ At(w, "keep")
    /\ token[w] \/ now >= th[w].wakeAt
    /\ token' = [token EXCEPT ![w] = FALSE]
    /\ th' = [th EXCEPT ![w].pc = "release", ![w].wakeAt = Never]
    /\ UNCHANGED <<timerVars, taskVars, keepVars, idle, recent, now>>

Release(w) ==
    /\ At(w, "release")
    /\ keeper' = None
    /\ Call(w, "fire", "awake")
    /\ UNCHANGED <<timerVars, taskVars, keeperDeadline, idleVars, recent, now>>

Parked(w) ==
    /\ At(w, "parked") /\ token[w]
    /\ token' = [token EXCEPT ![w] = FALSE]
    /\ GoTo(w, "awake")
    /\ UNCHANGED <<timerVars, taskVars, keepVars, idle, recent, now>>

\* Off the idle mask, then run one of the sleepers we woke; the others are
\* for the peers.
Awake(w) ==
    /\ At(w, "awake")
    /\ \/ /\ th[w].gathered = {}
          /\ idle' = idle \ {w}
          /\ GoTo(w, "again")
          /\ UNCHANGED <<task, token>>
       \/ \E e \in th[w].gathered :
            LET others == th[w].gathered \ {e}
            IN  /\ IF others = {} THEN idle' = idle \ {w} /\ UNCHANGED token
                                 ELSE NotifyIdleWorker(idle \ {w})
                /\ task' = [f \in Sleepers |-> CASE f = e -> "onWorker"
                                                 [] f \in others -> "ready"
                                                 [] OTHER -> task[f]]
                /\ th' = [th EXCEPT ![w].pc = "dispatch", ![w].ret = "check",
                                    ![w].entry = e, ![w].gathered = {}]
    /\ UNCHANGED <<timerVars, notified, work, keepVars, recent, now>>

-----------------------------------------------------------------------------
(* fireTimers() and fireExpired().                                         *)

Fire(w) ==
    /\ At(w, "fire")
    /\ th' = [th EXCEPT ![w].pc = "fireNext", ![w].todo = mask, ![w].clock = now]
    /\ UNCHANGED <<timerVars, taskVars, keepVars, idleVars, recent, now>>

FireNext(w) ==
    /\ At(w, "fireNext")
    /\ \/ \E v \in th[w].todo :
            /\ earliest[v] > th[w].clock
            /\ th' = [th EXCEPT ![w].todo = @ \ {v}]
       \/ \E v \in th[w].todo :
            /\ earliest[v] <= th[w].clock
            /\ th' = [th EXCEPT ![w].pc = "expire", ![w].todo = @ \ {v}, ![w].target = v]
       \/ /\ th[w].todo = {}
          /\ th' = [th EXCEPT ![w].pc = th[w].ret, ![w].ret = "top", ![w].clock = 0]
    /\ UNCHANGED <<timerVars, taskVars, keepVars, idleVars, recent, now>>

\* Under the queue's lock: its first entry, if that is due.
Expire(w) ==
    /\ At(w, "expire")
    /\ LET v == th[w].target
       IN  /\ lock[v] = None
           /\ \/ /\ EarliestOf(heap[v]) > th[w].clock
                 /\ th' = [th EXCEPT ![w].pc = "fireNext", ![w].target = None]
                 /\ UNCHANGED <<heap, lock, mask>>
              \/ /\ EarliestOf(heap[v]) <= th[w].clock
                 /\ \E e \in heap[v] :
                      /\ deadline[e] = EarliestOf(heap[v])
                      /\ heap' = [heap EXCEPT ![v] = @ \ {e}]
                      /\ mask' = IF heap[v] = {e} THEN mask \ {v} ELSE mask
                      /\ th' = [th EXCEPT ![w].pc = "expireMirror", ![w].entry = e]
                 /\ lock' = [lock EXCEPT ![v] = w]
    /\ UNCHANGED <<earliest, deadline, fired, taskVars, keepVars, idleVars, recent, now>>

ExpireMirror(w) ==
    /\ At(w, "expireMirror")
    /\ earliest' = [earliest EXCEPT ![th[w].target] = EarliestOf(heap[th[w].target])]
    /\ fired' = [fired EXCEPT ![th[w].entry] = TRUE]
    /\ lock' = [lock EXCEPT ![th[w].target] = None]
    /\ GoTo(w, "wake")
    /\ UNCHANGED <<heap, mask, deadline, taskVars, keepVars, idleVars, recent, now>>

\* Mutant: a sleeper that is still on its way to park is not told.
WakeParkedOnly(w) ==
    /\ At(w, "wake")
    /\ LET e == th[w].entry
           parked == task[e] = "parked"
       IN  /\ task' = IF parked THEN [task EXCEPT ![e] = "gathered"] ELSE task
           /\ th' = [th EXCEPT ![w].pc = "expire", ![w].entry = None,
                               ![w].gathered = IF parked THEN @ \cup {e} ELSE @]
    /\ UNCHANGED <<timerVars, notified, work, keepVars, idleVars, recent, now>>

\* WakeToken::wake(), on a worker that gathers.
Wake(w) ==
    /\ At(w, "wake")
    /\ LET e == th[w].entry
           next == [th EXCEPT ![w].pc = "expire", ![w].entry = None]
       IN  \/ /\ task[e] = "parked"
              /\ task' = [task EXCEPT ![e] = "gathered"]
              /\ th' = [next EXCEPT ![w].gathered = @ \cup {e}]
              /\ UNCHANGED notified
           \/ /\ task[e] # "parked"
              /\ notified' = [notified EXCEPT ![e] = TRUE]
              /\ th' = next
              /\ UNCHANGED task
    /\ UNCHANGED <<timerVars, work, keepVars, idleVars, recent, now>>

-----------------------------------------------------------------------------
(* The surroundings: new work, and time.                                   *)

Inject ==
    /\ work < MaxWork
    /\ work' = work + 1
    /\ NotifyIdleWorker(idle)
    /\ UNCHANGED <<timerVars, task, notified, keepVars, recent, now, th>>

\* A task pinned to w is woken from another thread: into w's inbox, and w is
\* notified if it idles.
PinnedWake(w) ==
    /\ Pinned /\ ~th[w].more
    /\ th' = [th EXCEPT ![w].more = TRUE]
    /\ idle' = idle \ {w}
    /\ token' = IF w \in idle THEN [token EXCEPT ![w] = TRUE] ELSE token
    /\ UNCHANGED <<timerVars, taskVars, keepVars, recent, now>>

Tick ==
    /\ now < MaxTime
    /\ now' = now + 1
    /\ UNCHANGED <<timerVars, taskVars, keepVars, idleVars, recent, th>>

\* rampUpDelay goes by.
DelayPasses ==
    /\ recent
    /\ recent' = FALSE
    /\ UNCHANGED <<timerVars, taskVars, keepVars, idleVars, now, th>>

AddStep(w) == \/ Add(w) \/ AddMirror(w) \/ AskKeeper(w) \/ AskDeadline(w)
              \/ Check(w) \/ Park(w)

DispatchStep(w) == \/ Maintain(w) \/ Look(w) \/ Place(w) \/ Take(w) \/ Dispatch(w)
                   \/ Ensure(w)

IdleStep(w) == \/ Mark(w) \/ Recheck(w) \/ Claim(w) \/ ScanMark(w)
               \/ ScanMask(w) \/ Scan(w) \/ Keep(w) \/ Release(w)
               \/ Parked(w) \/ Awake(w)

FireStep(w) == \/ Fire(w) \/ FireNext(w) \/ Expire(w) \/ ExpireMirror(w)
               \/ Wake(w)

WorkerStep(w) == AddStep(w) \/ DispatchStep(w) \/ IdleStep(w) \/ FireStep(w)

Next ==
    \/ \E w \in Workers : \/ WorkerStep(w) \/ RunEnds(w) \/ PinnedWake(w)
                          \/ \E e \in Sleepers : SleepUntil(w, e)
    \/ Inject \/ Tick \/ DelayPasses

Spec == Init /\ [][Next]_vars

-----------------------------------------------------------------------------
(* Properties.                                                             *)

Adding(w, e) == th[w].entry = e /\ th[w].pc \in {"mirror", "askKeeper", "askDeadline"}

\* The argument above addTimer(): a timekeeper that sleeps past a queued
\* deadline is about to be woken for it, by whoever added the timer.
KeeperHasDeadline ==
    \A w, v \in Workers : \A e \in heap[v] :
        At(w, "keep") /\ th[w].wakeAt > deadline[e] =>
            token[w] \/ \E u \in Workers : Adding(u, e)

AsleepForGood(w) == At(w, "parked") /\ ~token[w]

\* "timers stay covered, just up to that much later" (SchedulerCore.cpp,
\* ensureTimekeeper): once rampUpDelay has passed since the last such wake-up,
\* timers are not pending with some worker idle and all others in tasks.
TimersStayCovered ==
    /\ keeper = None /\ ~recent
    /\ \E v \in Workers : heap[v] # {}
    /\ \E w \in Workers : AsleepForGood(w)
    => \E w \in Workers : ~At(w, "run") /\ ~AsleepForGood(w)

\* Threads keep running, tasks end or park, and time passes.  `tick` counts
\* tasks: of infinitely many, infinitely many are followed by maintain().
Fairness ==
    /\ \A w \in Workers : /\ WF_vars(WorkerStep(w)) /\ WF_vars(RunEnds(w))
                          /\ SF_vars(At(w, "top") /\ Maintain(w))
    /\ WF_vars(Tick)

\* Other threads wake pinned tasks finitely often: tasks that hand over to
\* each other for ever keep a worker from its loop, and from its timers.
PinnedRest == <>[][\A w \in Workers : ~PinnedWake(w)]_vars

FairSpec == Spec /\ Fairness /\ PinnedRest

\* "the timekeeper worker fires the deadline" (Sleep.h, sleepUntil), or else a
\* busy one in maintain(): who sleeps until a deadline is woken.
SleepersWake == \A e \in Sleepers : task[e] = "parked" ~> task[e] # "parked"
=============================================================================
