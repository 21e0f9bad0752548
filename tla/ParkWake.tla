------------------------------ MODULE ParkWake ------------------------------
(***************************************************************************)
(* A scheduled task's life: spawn, park/wake, yield, finish, and the two   *)
(* ways Scheduler::stop() ends what is still parked.                       *)
(*                                                                         *)
(* Every atomic access to Task::parkState and to the wake-token slab       *)
(* (TaskSlot: task, generation, pins) is one step, so that wakers, the     *)
(* stop() scan, reaping workers and the post-switch hooks interleave as    *)
(* threads do.  Run queues are abstracted to how many copies of a task     *)
(* they hold together; slot `pins` is the set of the threads that hold a   *)
(* pin instead of their number.  Atomics are sequentially consistent here. *)
(***************************************************************************)
EXTENDS Naturals, FiniteSets

CONSTANTS Tasks,      \* task incarnations; each is spawned at most once
          Workers,    \* worker threads
          Wakers,     \* threads that call WakeToken::wake() or forEachTask()
          Stopper,    \* the thread that calls Scheduler::stop()
          NoTask,     \* the null Task pointer / the dispatcher context
          MaxTasks,   \* SchedulerOptions::maxTasks
          GenModulus  \* 2^32 in the code: TaskSlot::generation wraps

ASSUME ConstantsAreDistinct ==
    /\ NoTask \notin Tasks
    /\ Workers \cap Wakers = {}
    /\ Stopper \notin Workers \cup Wakers
ASSUME MaxTasksPositive == MaxTasks \in Nat \ {0}
ASSUME GenModulusPositive == GenModulus \in Nat \ {0}

VARIABLES
    parkState,   \* Task::parkState
    life,        \* how far creation and release of a task got
    ready,       \* copies of a task in all run queues together
    cur,         \* the context on a worker: a task, or NoTask (dispatcher)
    dep,         \* the task that just switched out and its PostSwitchHook
    slotTask, slotGen, pins,       \* TaskSlot
    freeSlots,
    slotOf, genOf,                 \* Task::slot, Task::generation
    shields,     \* Task::forcedStopShields
    unwinding,   \* resumed through throwForcedUnwindIntoTask
    stopping, parkedWoken,
    pc, at, ptr, tok,   \* a thread inside the slab: step, slot, Task*, token
    resumed,     \* history: ran again since stop() was requested
    owed         \* history: a wake() began since park() last returned

taskVars == <<parkState, life, ready, slotOf, genOf, shields, unwinding>>
slabVars == <<slotTask, slotGen, pins, freeSlots>>
runVars  == <<cur, dep>>
stopVars == <<stopping, parkedWoken>>
slabPcVars == <<pc, at, ptr, tok>>
history  == <<resumed, owed>>
vars == <<taskVars, slabVars, runVars, stopVars, slabPcVars, history>>

Slots == 0 .. MaxTasks - 1
Threads == Workers \cup Wakers \cup {Stopper}
NoDep == [task |-> NoTask, hook |-> "none"]

TaskState == {"Running", "Parked", "Notified", "Done"}
Life == {"unborn", "created", "published", "live", "freed"}
Hook == {"none", "yield", "park", "resched", "sched", "finish",
         "unslot", "bumpGen", "awaitPins", "putSlot"}
Pc == {"idle", "scan", "gen", "load", "cas", "store", "sched", "read",
       "claim", "unpin", "shield", "reResched", "reSched", "exited"}

TypeTask ==
    /\ parkState \in [Tasks -> TaskState]
    /\ life \in [Tasks -> Life]
    /\ ready \in [Tasks -> Nat]
    /\ slotOf \in [Tasks -> Slots]
    /\ genOf \in [Tasks -> 0 .. GenModulus - 1]
    /\ shields \in [Tasks -> BOOLEAN]
    /\ unwinding \in [Tasks -> BOOLEAN]

TypeSlab ==
    /\ slotTask \in [Slots -> Tasks \cup {NoTask}]
    /\ slotGen \in [Slots -> 0 .. GenModulus - 1]
    /\ pins \in [Slots -> SUBSET Threads]
    /\ freeSlots \in SUBSET Slots

TypeRun ==
    /\ cur \in [Workers -> Tasks \cup {NoTask}]
    /\ dep \in [Workers -> [task : Tasks \cup {NoTask}, hook : Hook]]

TypeThread ==
    /\ pc \in [Threads -> Pc]
    /\ at \in [Threads -> 0 .. MaxTasks]
    /\ ptr \in [Threads -> Tasks \cup {NoTask}]
    /\ tok \in [Threads -> Tasks \cup {NoTask}]

TypeFlags ==
    /\ stopping \in BOOLEAN
    /\ parkedWoken \in BOOLEAN
    /\ resumed \in [Tasks -> BOOLEAN]
    /\ owed \in [Tasks -> BOOLEAN]

TypeOK == TypeTask /\ TypeSlab /\ TypeRun /\ TypeThread /\ TypeFlags

Init ==
    /\ parkState = [t \in Tasks |-> "Running"]
    /\ life = [t \in Tasks |-> "unborn"]
    /\ ready = [t \in Tasks |-> 0]
    /\ cur = [w \in Workers |-> NoTask]
    /\ dep = [w \in Workers |-> NoDep]
    /\ slotTask = [s \in Slots |-> NoTask]
    /\ slotGen = [s \in Slots |-> 0]
    /\ pins = [s \in Slots |-> {}]
    /\ freeSlots = Slots
    /\ slotOf = [t \in Tasks |-> 0]
    /\ genOf = [t \in Tasks |-> 0]
    /\ shields = [t \in Tasks |-> FALSE]
    /\ unwinding = [t \in Tasks |-> FALSE]
    /\ stopping = FALSE
    /\ parkedWoken = FALSE
    /\ pc = [a \in Threads |-> "idle"]
    /\ at = [a \in Threads |-> 0]
    /\ ptr = [a \in Threads |-> NoTask]
    /\ tok = [a \in Threads |-> NoTask]
    /\ resumed = [t \in Tasks |-> FALSE]
    /\ owed = [t \in Tasks |-> FALSE]

-----------------------------------------------------------------------------
(* createTask() and spawn(): the slot is taken, the task becomes visible   *)
(* through it, and only then is it scheduled.                              *)

SpawnCreate(t) ==
    /\ life[t] = "unborn"
    /\ ~stopping
    /\ \E s \in freeSlots :
         /\ freeSlots' = freeSlots \ {s}
         /\ slotOf' = [slotOf EXCEPT ![t] = s]
         /\ genOf' = [genOf EXCEPT ![t] = slotGen[s]]
    /\ life' = [life EXCEPT ![t] = "created"]
    /\ UNCHANGED <<parkState, ready, shields, unwinding, slotTask, slotGen,
                   pins, runVars, stopVars, slabPcVars, history>>

\* No stack, or the body does not fit it: SlotReleaseGuard gives the slot back.
SpawnFail(t) ==
    /\ life[t] = "created"
    /\ freeSlots' = freeSlots \cup {slotOf[t]}
    /\ life' = [life EXCEPT ![t] = "unborn"]
    /\ UNCHANGED <<parkState, ready, slotOf, genOf, shields, unwinding,
                   slotTask, slotGen, pins, runVars, stopVars, slabPcVars,
                   history>>

SpawnPublish(t) ==
    /\ life[t] = "created"
    /\ slotTask' = [slotTask EXCEPT ![slotOf[t]] = t]
    /\ life' = [life EXCEPT ![t] = "published"]
    /\ UNCHANGED <<parkState, ready, slotOf, genOf, shields, unwinding,
                   slotGen, pins, freeSlots, runVars, stopVars, slabPcVars,
                   history>>

SpawnSchedule(t) ==
    /\ life[t] = "published"
    /\ life' = [life EXCEPT ![t] = "live"]
    /\ ready' = [ready EXCEPT ![t] = @ + 1]
    /\ UNCHANGED <<parkState, slotOf, genOf, shields, unwinding, slabVars,
                   runVars, stopVars, slabPcVars, history>>

-----------------------------------------------------------------------------
(* Running tasks.  A switch saves the departing task's registers, jumps to *)
(* the next one (or the dispatcher), and the arriving side runs the hook.  *)

\* Dispatcher or arriving task n takes over worker w, with n off its queue.
Arrive(w, n) ==
    /\ n # NoTask => ready[n] > 0
    /\ cur' = [cur EXCEPT ![w] = n]
    /\ ready' = [t \in Tasks |-> IF t = n THEN ready[t] - 1 ELSE ready[t]]
    /\ resumed' = [t \in Tasks |-> resumed[t] \/ (t = n /\ stopping)]

\* The body of task t runs on worker w: arrived, and its hook is done.
OnCpu(w, t) == t # NoTask /\ cur[w] = t /\ dep[w] = NoDep

SwitchAway(w, t, hook) ==
    /\ OnCpu(w, t)
    /\ \E n \in Tasks \cup {NoTask} : Arrive(w, n)
    /\ dep' = [dep EXCEPT ![w] = [task |-> t, hook |-> hook]]

\* Worker::run(): the dispatcher switches to a task it found.
Dispatch(w) ==
    /\ cur[w] = NoTask /\ dep[w] = NoDep /\ pc[w] = "idle"
    /\ \E n \in Tasks : Arrive(w, n)
    /\ UNCHANGED <<parkState, life, slotOf, genOf, shields, unwinding,
                   slabVars, dep, stopVars, slabPcVars, owed>>

\* this_task::yield() with something else to run (else it just returns).
Yield(w, t) ==
    /\ SwitchAway(w, t, "yield")
    /\ ~unwinding[t]
    /\ UNCHANGED <<parkState, life, slotOf, genOf, shields, unwinding,
                   slabVars, stopVars, slabPcVars, owed>>

\* this_task::park() with a token pending: consumed without a switch.
ParkConsume(w, t) ==
    /\ OnCpu(w, t) /\ ~unwinding[t]
    /\ parkState[t] = "Notified"
    /\ parkState' = [parkState EXCEPT ![t] = "Running"]
    /\ owed' = [owed EXCEPT ![t] = FALSE]
    /\ resumed' = [resumed EXCEPT ![t] = @ \/ stopping]
    /\ UNCHANGED <<life, ready, slotOf, genOf, shields, unwinding, slabVars,
                   runVars, stopVars, slabPcVars>>

\* this_task::park() without one.
Park(w, t) ==
    /\ SwitchAway(w, t, "park")
    /\ ~unwinding[t]
    /\ parkState[t] # "Notified"
    /\ UNCHANGED <<parkState, life, slotOf, genOf, shields, unwinding,
                   slabVars, stopVars, slabPcVars, owed>>

\* The body returned, or a forced unwind left it.
Finish(w, t) ==
    /\ SwitchAway(w, t, "finish")
    /\ ~shields[t]
    /\ UNCHANGED <<parkState, life, slotOf, genOf, shields, unwinding,
                   slabVars, stopVars, slabPcVars, owed>>

\* NoForcedStop's constructor and destructor (one guard suffices here).
ToggleShield(w, t) ==
    /\ OnCpu(w, t) /\ ~unwinding[t]
    /\ shields' = [shields EXCEPT ![t] = ~@]
    /\ UNCHANGED <<parkState, life, ready, slotOf, genOf, unwinding, slabVars,
                   runVars, stopVars, slabPcVars, history>>

-----------------------------------------------------------------------------
(* Post-switch hooks, run by the arriving side.                            *)

SetHook(w, hook) == dep' = [dep EXCEPT ![w].hook = hook]
Departed(w, hook) == dep[w].hook = hook

\* onTaskYielded.
HookYield(w) ==
    /\ Departed(w, "yield")
    /\ ready' = [ready EXCEPT ![dep[w].task] = @ + 1]
    /\ dep' = [dep EXCEPT ![w] = NoDep]
    /\ UNCHANGED <<parkState, life, slotOf, genOf, shields, unwinding,
                   slabVars, cur, stopVars, slabPcVars, history>>

\* Mutant: a blind store instead of the CAS.
HookParkBlindStore(w) ==
    /\ Departed(w, "park")
    /\ parkState' = [parkState EXCEPT ![dep[w].task] = "Parked"]
    /\ dep' = [dep EXCEPT ![w] = NoDep]
    /\ UNCHANGED <<life, ready, slotOf, genOf, shields, unwinding, slabVars,
                   cur, stopVars, slabPcVars, history>>

\* onTaskParked: CAS Running -> Parked; a wake that raced ahead makes it fail.
HookPark(w) ==
    /\ Departed(w, "park")
    /\ \/ /\ parkState[dep[w].task] = "Running"
          /\ parkState' = [parkState EXCEPT ![dep[w].task] = "Parked"]
          /\ dep' = [dep EXCEPT ![w] = NoDep]
       \/ /\ parkState[dep[w].task] # "Running"
          /\ SetHook(w, "resched")
          /\ UNCHANGED parkState
    /\ UNCHANGED <<life, ready, slotOf, genOf, shields, unwinding, slabVars,
                   cur, stopVars, slabPcVars, history>>

HookResched(w) ==
    /\ Departed(w, "resched")
    /\ parkState' = [parkState EXCEPT ![dep[w].task] = "Running"]
    /\ owed' = [owed EXCEPT ![dep[w].task] = FALSE]
    /\ SetHook(w, "sched")
    /\ UNCHANGED <<life, ready, slotOf, genOf, shields, unwinding, slabVars,
                   cur, stopVars, slabPcVars, resumed>>

HookSchedule(w) ==
    /\ Departed(w, "sched")
    /\ ready' = [ready EXCEPT ![dep[w].task] = @ + 1]
    /\ dep' = [dep EXCEPT ![w] = NoDep]
    /\ UNCHANGED <<parkState, life, slotOf, genOf, shields, unwinding,
                   slabVars, cur, stopVars, slabPcVars, history>>

\* onTaskFinished -> releaseTask, one step per store others can see.
ReleaseDone(w) ==
    /\ Departed(w, "finish")
    /\ parkState' = [parkState EXCEPT ![dep[w].task] = "Done"]
    /\ SetHook(w, "unslot")
    /\ UNCHANGED <<life, ready, slotOf, genOf, shields, unwinding, slabVars,
                   cur, stopVars, slabPcVars, history>>

ReleaseUnslot(w) ==
    /\ Departed(w, "unslot")
    /\ slotTask' = [slotTask EXCEPT ![slotOf[dep[w].task]] = NoTask]
    /\ SetHook(w, "bumpGen")
    /\ UNCHANGED <<taskVars, slotGen, pins, freeSlots, cur, stopVars,
                   slabPcVars, history>>

\* Mutant: the counter outgrows its width.
ReleaseBumpGenWide(w) ==
    /\ Departed(w, "bumpGen")
    /\ slotGen' = [slotGen EXCEPT ![slotOf[dep[w].task]] = @ + 1]
    /\ SetHook(w, "awaitPins")
    /\ UNCHANGED <<taskVars, slotTask, pins, freeSlots, cur, stopVars,
                   slabPcVars, history>>

ReleaseBumpGen(w) ==
    /\ Departed(w, "bumpGen")
    /\ slotGen' = [slotGen EXCEPT ![slotOf[dep[w].task]] = (@ + 1) % GenModulus]
    /\ SetHook(w, "awaitPins")
    /\ UNCHANGED <<taskVars, slotTask, pins, freeSlots, cur, stopVars,
                   slabPcVars, history>>

\* Mutant: frees without waiting the pins out.
ReleaseFreeAtOnce(w) ==
    /\ Departed(w, "awaitPins")
    /\ life' = [life EXCEPT ![dep[w].task] = "freed"]
    /\ SetHook(w, "putSlot")
    /\ UNCHANGED <<parkState, ready, slotOf, genOf, shields, unwinding,
                   slabVars, cur, stopVars, slabPcVars, history>>

\* The stack, and the Task on it, go once nobody pins the slot; the task is
\* counted as finished before its slot is free again.
ReleaseFree(w) ==
    /\ Departed(w, "awaitPins")
    /\ pins[slotOf[dep[w].task]] = {}
    /\ life' = [life EXCEPT ![dep[w].task] = "freed"]
    /\ SetHook(w, "putSlot")
    /\ UNCHANGED <<parkState, ready, slotOf, genOf, shields, unwinding,
                   slabVars, cur, stopVars, slabPcVars, history>>

ReleasePutSlot(w) ==
    /\ Departed(w, "putSlot")
    /\ freeSlots' = freeSlots \cup {slotOf[dep[w].task]}
    /\ dep' = [dep EXCEPT ![w] = NoDep]
    /\ UNCHANGED <<taskVars, slotTask, slotGen, pins, cur, stopVars,
                   slabPcVars, history>>

-----------------------------------------------------------------------------
(* Threads inside the slab: WakeToken::wake(), forEachTask(), the stop()   *)
(* scan and the reaper pin a slot, load its task, use it and unpin.        *)

GoTo(a, step) == pc' = [pc EXCEPT ![a] = step]
Pin(a, s) == pins' = [pins EXCEPT ![s] = @ \cup {a}]

\* WakeToken::wake() on a token of t, which only a live task's body hands out.
WakeBegin(a, t) ==
    /\ a \in Wakers /\ pc[a] = "idle"
    /\ life[t] \in {"live", "freed"}
    /\ Pin(a, slotOf[t])
    /\ at' = [at EXCEPT ![a] = slotOf[t]]
    /\ tok' = [tok EXCEPT ![a] = t]
    /\ GoTo(a, "gen")
    /\ owed' = [owed EXCEPT ![t] = TRUE]
    /\ UNCHANGED <<taskVars, slotTask, slotGen, freeSlots, runVars, stopVars,
                   ptr, resumed>>

\* Mutant: the slot's present task, whoever it is.
WakeAnyGeneration(a) ==
    /\ pc[a] = "gen"
    /\ GoTo(a, "load")
    /\ UNCHANGED <<taskVars, slabVars, runVars, stopVars, at, ptr, tok,
                   history>>

WakeCheckGeneration(a) ==
    /\ pc[a] = "gen"
    /\ GoTo(a, IF slotGen[at[a]] = genOf[tok[a]] THEN "load" ELSE "unpin")
    /\ UNCHANGED <<taskVars, slabVars, runVars, stopVars, at, ptr, tok,
                   history>>

\* Scheduler::forEachTask() visits a slot that looked occupied.
VisitBegin(a, s) ==
    /\ a \in Wakers /\ pc[a] = "idle"
    /\ slotTask[s] # NoTask
    /\ Pin(a, s)
    /\ at' = [at EXCEPT ![a] = s]
    /\ GoTo(a, "load")
    /\ UNCHANGED <<taskVars, slotTask, slotGen, freeSlots, runVars, stopVars,
                   ptr, tok, history>>

\* What a thread does with a Task pointer: wake it, read it, or claim it.
AfterLoad(a) ==
    CASE a \in Workers -> "claim"
      [] a \in Wakers /\ tok[a] = NoTask -> "read"
      [] OTHER -> "cas"

LoadTask(a) ==
    /\ pc[a] = "load"
    /\ ptr' = [ptr EXCEPT ![a] = slotTask[at[a]]]
    /\ GoTo(a, IF slotTask[at[a]] = NoTask THEN "unpin" ELSE AfterLoad(a))
    /\ UNCHANGED <<taskVars, slabVars, runVars, stopVars, at, tok, history>>

VisitRead(a) ==
    /\ pc[a] = "read"
    /\ GoTo(a, "unpin")
    /\ UNCHANGED <<taskVars, slabVars, runVars, stopVars, at, ptr, tok,
                   history>>

\* Mutant: every successful CAS schedules, one from Running too.
WakeCasAlwaysSchedules(a) ==
    /\ pc[a] = "cas"
    /\ \/ /\ parkState[ptr[a]] \in {"Notified", "Done"}
          /\ GoTo(a, "unpin")
          /\ UNCHANGED parkState
       \/ /\ parkState[ptr[a]] \in {"Running", "Parked"}
          /\ parkState' = [parkState EXCEPT ![ptr[a]] = "Notified"]
          /\ GoTo(a, "store")
    /\ UNCHANGED <<life, ready, slotOf, genOf, shields, unwinding, slabVars,
                   runVars, stopVars, at, ptr, tok, history>>

\* SchedulerCore::wake(): the CAS loop; only a waker that took the task out
\* of Parked goes on to schedule it.
WakeCas(a) ==
    /\ pc[a] = "cas"
    /\ \/ /\ parkState[ptr[a]] \in {"Notified", "Done"}
          /\ GoTo(a, "unpin")
          /\ UNCHANGED parkState
       \/ /\ parkState[ptr[a]] \in {"Running", "Parked"}
          /\ parkState' = [parkState EXCEPT ![ptr[a]] = "Notified"]
          /\ GoTo(a, IF parkState[ptr[a]] = "Parked" THEN "store" ELSE "unpin")
    /\ UNCHANGED <<life, ready, slotOf, genOf, shields, unwinding, slabVars,
                   runVars, stopVars, at, ptr, tok, history>>

WakeStore(a) ==
    /\ pc[a] = "store"
    /\ parkState' = [parkState EXCEPT ![ptr[a]] = "Running"]
    /\ owed' = [owed EXCEPT ![ptr[a]] = FALSE]
    /\ GoTo(a, "sched")
    /\ UNCHANGED <<life, ready, slotOf, genOf, shields, unwinding, slabVars,
                   runVars, stopVars, at, ptr, tok, resumed>>

WakeSchedule(a) ==
    /\ pc[a] = "sched"
    /\ ready' = [ready EXCEPT ![ptr[a]] = @ + 1]
    /\ GoTo(a, "unpin")
    /\ UNCHANGED <<parkState, life, slotOf, genOf, shields, unwinding,
                   slabVars, runVars, stopVars, at, ptr, tok, history>>

\* A pin goes; the scans move to their next slot, a reaper looks at its claim.
Unpin(a) ==
    /\ pc[a] = "unpin"
    /\ pins' = [pins EXCEPT ![at[a]] = @ \ {a}]
    /\ \/ /\ a \in Wakers
          /\ GoTo(a, "idle")
          /\ ptr' = [ptr EXCEPT ![a] = NoTask]
          /\ tok' = [tok EXCEPT ![a] = NoTask]
          /\ UNCHANGED at
       \/ /\ a \notin Wakers /\ (a = Stopper \/ ptr[a] = NoTask)
          /\ GoTo(a, "scan")
          /\ ptr' = [ptr EXCEPT ![a] = NoTask]
          /\ at' = [at EXCEPT ![a] = @ + 1]
          /\ UNCHANGED tok
       \/ /\ a \in Workers /\ ptr[a] # NoTask
          /\ GoTo(a, "shield")
          /\ UNCHANGED <<ptr, at, tok>>
    /\ UNCHANGED <<taskVars, slotTask, slotGen, freeSlots, runVars, stopVars,
                   history>>

-----------------------------------------------------------------------------
(* Scheduler::stop() and Worker::reapParkedTasks().                        *)

Stop ==
    /\ pc[Stopper] = "idle" /\ ~stopping
    /\ stopping' = TRUE
    /\ GoTo(Stopper, "scan")
    /\ UNCHANGED <<taskVars, slabVars, runVars, parkedWoken, at, ptr, tok,
                   history>>

\* wakeAllParked() pins its next slot, or is through and lets reaping begin.
StopScan ==
    /\ pc[Stopper] = "scan"
    /\ \/ /\ at[Stopper] < MaxTasks
          /\ Pin(Stopper, at[Stopper])
          /\ GoTo(Stopper, "load")
          /\ UNCHANGED parkedWoken
       \/ /\ at[Stopper] = MaxTasks
          /\ parkedWoken' = TRUE
          /\ GoTo(Stopper, "exited")
          /\ UNCHANGED pins
    /\ UNCHANGED <<taskVars, slotTask, slotGen, freeSlots, runVars, stopping,
                   at, ptr, tok, history>>

\* Mutant: reaps while stop() is still waking parked tasks.
ReapBeginEarly(w) ==
    /\ cur[w] = NoTask /\ dep[w] = NoDep /\ pc[w] = "idle"
    /\ stopping
    /\ GoTo(w, "scan")
    /\ at' = [at EXCEPT ![w] = 0]
    /\ UNCHANGED <<taskVars, slabVars, runVars, stopVars, ptr, tok, history>>

\* The dispatcher found no work while stopping.
ReapBegin(w) ==
    /\ cur[w] = NoTask /\ dep[w] = NoDep /\ pc[w] = "idle"
    /\ stopping /\ parkedWoken
    /\ GoTo(w, "scan")
    /\ at' = [at EXCEPT ![w] = 0]
    /\ UNCHANGED <<taskVars, slabVars, runVars, stopVars, ptr, tok, history>>

\* The loop over the slots; the dispatcher is in it while cur[w] is NoTask.
ReapScan(w) ==
    /\ cur[w] = NoTask /\ dep[w] = NoDep /\ pc[w] = "scan"
    /\ \/ /\ at[w] < MaxTasks
          /\ Pin(w, at[w])
          /\ GoTo(w, "load")
       \/ /\ at[w] = MaxTasks
          /\ GoTo(w, "idle")
          /\ UNCHANGED pins
    /\ UNCHANGED <<taskVars, slotTask, slotGen, freeSlots, runVars, stopVars,
                   at, ptr, tok, history>>

\* CAS Parked -> Running.
ReapClaim(w) ==
    /\ pc[w] = "claim"
    /\ \/ /\ parkState[ptr[w]] = "Parked"
          /\ parkState' = [parkState EXCEPT ![ptr[w]] = "Running"]
          /\ UNCHANGED ptr
       \/ /\ parkState[ptr[w]] # "Parked"
          /\ ptr' = [ptr EXCEPT ![w] = NoTask]
          /\ UNCHANGED parkState
    /\ GoTo(w, "unpin")
    /\ UNCHANGED <<life, ready, slotOf, genOf, shields, unwinding, slabVars,
                   runVars, stopVars, at, tok, history>>

NextSlot(w) ==
    /\ GoTo(w, "scan")
    /\ at' = [at EXCEPT ![w] = @ + 1]
    /\ ptr' = [ptr EXCEPT ![w] = NoTask]

\* Mutant: a shielded task is left claimed.
ReapKeepShielded(w) ==
    /\ pc[w] = "shield" /\ shields[ptr[w]]
    /\ NextSlot(w)
    /\ UNCHANGED <<taskVars, slabVars, runVars, stopVars, tok, history>>

\* Claimed and shielded: put it back, unless it was woken meanwhile.
ReapPutBack(w) ==
    /\ pc[w] = "shield" /\ shields[ptr[w]]
    /\ \/ /\ parkState[ptr[w]] = "Running"
          /\ parkState' = [parkState EXCEPT ![ptr[w]] = "Parked"]
          /\ NextSlot(w)
       \/ /\ parkState[ptr[w]] # "Running"
          /\ GoTo(w, "reResched")
          /\ UNCHANGED <<parkState, at, ptr>>
    /\ UNCHANGED <<life, ready, slotOf, genOf, shields, unwinding, slabVars,
                   runVars, stopVars, tok, history>>

ReapResched(w) ==
    /\ pc[w] = "reResched"
    /\ parkState' = [parkState EXCEPT ![ptr[w]] = "Running"]
    /\ owed' = [owed EXCEPT ![ptr[w]] = FALSE]
    /\ GoTo(w, "reSched")
    /\ UNCHANGED <<life, ready, slotOf, genOf, shields, unwinding, slabVars,
                   runVars, stopVars, at, ptr, tok, resumed>>

ReapSchedule(w) ==
    /\ pc[w] = "reSched"
    /\ ready' = [ready EXCEPT ![ptr[w]] = @ + 1]
    /\ NextSlot(w)
    /\ UNCHANGED <<parkState, life, slotOf, genOf, shields, unwinding,
                   slabVars, runVars, stopVars, tok, history>>

\* Claimed and not shielded: switchToOnTop(throwForcedUnwindIntoTask).  The
\* loop goes on when the dispatcher gets the worker back.
ReapUnwind(w) ==
    /\ pc[w] = "shield" /\ ~shields[ptr[w]]
    /\ cur' = [cur EXCEPT ![w] = ptr[w]]
    /\ unwinding' = [unwinding EXCEPT ![ptr[w]] = TRUE]
    /\ owed' = [owed EXCEPT ![ptr[w]] = FALSE]
    /\ NextSlot(w)
    /\ UNCHANGED <<parkState, life, ready, slotOf, genOf, shields, slabVars,
                   dep, stopVars, tok, resumed>>

\* liveTasks(): counted as created and not yet as finished.
Live(t) == life[t] \in {"published", "live"}

\* Worker::run() returns.
WorkerExit(w) ==
    /\ cur[w] = NoTask /\ dep[w] = NoDep /\ pc[w] = "idle"
    /\ stopping
    /\ \A t \in Tasks : ~Live(t)
    /\ GoTo(w, "exited")
    /\ UNCHANGED <<taskVars, slabVars, runVars, stopVars, at, ptr, tok,
                   history>>

\* ~SchedulerCore(), after every thread left: tasks that never ran go too.
Destroy(t) ==
    /\ \A a \in Workers \cup {Stopper} : pc[a] = "exited"
    /\ \A a \in Wakers : pc[a] = "idle"
    /\ \A u \in Tasks : life[u] \notin {"created", "published"}
    /\ life[t] = "live" /\ slotTask[slotOf[t]] = t
    /\ parkState' = [parkState EXCEPT ![t] = "Done"]
    /\ slotTask' = [slotTask EXCEPT ![slotOf[t]] = NoTask]
    /\ slotGen' = [slotGen EXCEPT ![slotOf[t]] = (@ + 1) % GenModulus]
    /\ life' = [life EXCEPT ![t] = "freed"]
    /\ ready' = [ready EXCEPT ![t] = 0]
    /\ freeSlots' = freeSlots \cup {slotOf[t]}
    /\ UNCHANGED <<slotOf, genOf, shields, unwinding, pins, runVars, stopVars,
                   slabPcVars, history>>

\* Everything has stopped and is gone: nothing more is due.
Stopped ==
    /\ \A a \in Workers \cup {Stopper} : pc[a] = "exited"
    /\ \A t \in Tasks : life[t] \in {"unborn", "freed"}
    /\ UNCHANGED vars

-----------------------------------------------------------------------------
Spawning(t) == \/ SpawnCreate(t) \/ SpawnFail(t) \/ SpawnPublish(t)
               \/ SpawnSchedule(t)

Body(w, t) == Yield(w, t) \/ ParkConsume(w, t) \/ Park(w, t) \/ Finish(w, t)
                \/ ToggleShield(w, t)

HookStep(w) == \/ HookYield(w) \/ HookPark(w) \/ HookResched(w)
               \/ HookSchedule(w) \/ ReleaseDone(w) \/ ReleaseUnslot(w)
               \/ ReleaseBumpGen(w) \/ ReleaseFree(w) \/ ReleasePutSlot(w)

SlabStep(a) == \/ WakeCheckGeneration(a) \/ LoadTask(a) \/ VisitRead(a)
               \/ WakeCas(a) \/ WakeStore(a) \/ WakeSchedule(a) \/ Unpin(a)

ReapStep(w) == \/ ReapBegin(w) \/ ReapScan(w) \/ ReapClaim(w)
               \/ ReapPutBack(w) \/ ReapResched(w) \/ ReapSchedule(w)
               \/ ReapUnwind(w)

Next ==
    \/ \E t \in Tasks : Spawning(t) \/ Destroy(t)
    \/ \E w \in Workers : \/ Dispatch(w) \/ HookStep(w) \/ ReapStep(w)
                          \/ WorkerExit(w)
                          \/ \E t \in Tasks : Body(w, t)
    \/ \E a \in Wakers : \/ \E t \in Tasks : WakeBegin(a, t)
                         \/ \E s \in Slots : VisitBegin(a, s)
    \/ \E a \in Threads : SlabStep(a)
    \/ Stop \/ StopScan \/ Stopped

Spec == Init /\ [][Next]_vars
-----------------------------------------------------------------------------
(* Properties.                                                             *)

\* The steps between taking a task out of Parked and queueing it again.
Reviving(a, t) ==
    ptr[a] = t /\ (\/ pc[a] \in {"store", "sched", "shield", "reResched", "reSched"}
                   \/ pc[a] = "unpin" /\ a \in Workers)

\* A task that is queued is nowhere else and queued once; it is on one
\* worker at most, where it either runs or is being switched out; and only
\* one thread at a time may be putting it back.  "Resumed twice" (README,
\* park/wake protocol) would be a violation: SchedulerCore::wake(),
\* onTaskParked() and reapParkedTasks() all schedule the same task.
ScheduledOnce ==
    \A t \in Tasks :
        LET runners  == {w \in Workers : cur[w] = t}
            leavers  == {w \in Workers : dep[w].task = t}
            revivers == {a \in Threads : Reviving(a, t)}
        IN  ready[t] + Cardinality(runners) + Cardinality(leavers)
              + Cardinality(revivers)
              <= IF parkState[t] = "Parked" THEN 0 ELSE 1

\* No thread follows a Task pointer into a freed stack: pins hold back
\* releaseTask() (TaskSlot), and a queued or running task is never freed.
NoUseAfterFree ==
    /\ \A a \in Threads : ptr[a] # NoTask => life[ptr[a]] # "freed"
    /\ \A t \in Tasks : life[t] = "freed" =>
         ready[t] = 0 /\ \A w \in Workers : cur[w] # t

\* A WakeToken reaches its own incarnation of the slot or nothing: a stale
\* token never wakes the slot's next task (WakeToken.h).
TokenReachesItsTask ==
    \A a \in Wakers : tok[a] # NoTask /\ ptr[a] # NoTask => ptr[a] = tok[a]

\* A task is never left Parked with a wake() already delivered: the token is
\* sticky (WakeToken.h), so some waker is still on its way to the CAS.
NoLostWake ==
    \A t \in Tasks : parkState[t] = "Parked" /\ owed[t] =>
        \E a \in Wakers : tok[a] = t /\ pc[a] \in {"gen", "load", "cas"}

\* stop() wakes before it reaps: a task is unwound only if its body ran
\* again after stop() was requested, so it got to see stopRequested()
\* (Worker::run, parkedWoken).
StopSeenBeforeUnwind == \A t \in Tasks : unwinding[t] => resumed[t]

\* What a NoForcedStop frame waits for comes, after stop() too: the operation
\* it started on another thread completes and wakes it.
ShieldedWake(t) ==
    /\ stopping /\ shields[t] /\ parkState[t] = "Parked"
    /\ \E a \in Wakers : WakeBegin(a, t)

\* Threads keep running; a worker looks for queued tasks and at liveTasks()
\* each time round its loop, and a release polls the pins until it sees none;
\* a body that polls stopRequested() ends once it has been resumed often
\* enough after stop().
Fairness ==
    /\ \A t \in Tasks : /\ SF_vars(ShieldedWake(t))
                        /\ WF_vars(SpawnPublish(t))
                        /\ WF_vars(SpawnSchedule(t))
    /\ \A w \in Workers : /\ SF_vars(Dispatch(w))
                          /\ WF_vars(HookStep(w))
                          /\ SF_vars(ReleaseFree(w))
                          /\ WF_vars(ReapStep(w))
                          /\ SF_vars(WorkerExit(w))
    /\ \A a \in Threads : WF_vars(SlabStep(a))
    /\ WF_vars(StopScan)
    /\ \A t \in Tasks, w \in Workers :
         /\ SF_vars(stopping /\ Finish(w, t))
         /\ SF_vars(stopping /\ shields[t] /\ ToggleShield(w, t))

\* Threads outside the scheduler call wake() and forEachTask() finitely often.
WakersRest == <>[][\A a \in Wakers : pc[a] = "idle" => pc'[a] = "idle"]_vars

FairSpec == Spec /\ Fairness /\ WakersRest

\* Scheduler::stop() completes: every worker's run() returns.
StopCompletes == stopping ~> \A w \in Workers : pc[w] = "exited"
=============================================================================
