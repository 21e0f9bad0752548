--------------------------- MODULE ParkWakeProofs ---------------------------
(***************************************************************************)
(* The inductive invariant behind the theorems about ParkWake, which hold  *)
(* for every set of tasks, workers and wakers, every maxTasks and every    *)
(* generation width.  First type correctness; that a task is in one place  *)
(* at a time (on one run queue once, or on one worker, or with one thread  *)
(* that took it out of Parked); and the slot's pins, for which a Task      *)
(* pointer that a thread loaded from the slab is good until that thread    *)
(* lets go of it.                                                          *)
(*                                                                         *)
(* Then that no wake is lost, and no token reaches a stranger.  Both rest  *)
(* on who owns a slot: from createTask() to the end of releaseTask() a     *)
(* task is the only one with its slot, is found through it, and carries    *)
(* the slot's generation, so a token that is not stale finds its task.     *)
(* And stop() wakes before it reaps: whatever wakeAllParked() has gone     *)
(* past runs again before it can be Parked, so that what a worker claims   *)
(* once parkedWoken is set has seen stopRequested().                       *)
(***************************************************************************)
EXTENDS ParkWake, FiniteSetTheorems, TLAPS

-----------------------------------------------------------------------------
(* The inductive invariant.                                                *)

InSlab == {"gen", "load", "cas", "store", "sched", "read", "claim", "unpin",
           "shield", "reResched", "reSched"}

\* A thread inside the slab is at a slot of it.
AtASlot == \A a \in Threads : pc[a] \in InSlab => at[a] \in Slots

\* A hook has a departed task to work on.
DepIsTask == \A w \in Workers : dep[w].hook # "none" => dep[w].task \in Tasks

\* Workers reap, the others wake; only a worker keeps a task past its pin.
Roles ==
    /\ \A w \in Workers : pc[w] \notin {"gen", "cas", "store", "sched", "read"}
    /\ \A a \in Threads : pc[a] \in {"claim", "shield", "reResched", "reSched"} => a \in Workers

\* What ScheduledOnce says, without counting: the holders of a task exclude
\* each other pairwise, and a Parked task has none.
Unheld(t) ==
    /\ ready[t] = 0
    /\ \A w \in Workers : cur[w] # t /\ dep[w].task # t
    /\ \A a \in Threads : ~Reviving(a, t)

Exclusive(t) ==
    /\ ready[t] \in {0, 1}
    /\ \A w \in Workers : cur[w] = t =>
         /\ ready[t] = 0
         /\ \A v \in Workers : (cur[v] = t => v = w) /\ dep[v].task # t
         /\ \A a \in Threads : ~Reviving(a, t)
    /\ \A w \in Workers : dep[w].task = t =>
         /\ ready[t] = 0
         /\ \A v \in Workers : (dep[v].task = t => v = w) /\ cur[v] # t
         /\ \A a \in Threads : ~Reviving(a, t)
    /\ \A a \in Threads : Reviving(a, t) =>
         /\ ready[t] = 0
         /\ \A w \in Workers : cur[w] # t /\ dep[w].task # t
         /\ \A b \in Threads : Reviving(b, t) => b = a
    /\ parkState[t] = "Parked" => Unheld(t)

Once == \A t \in Tasks : Exclusive(t)

\* Before spawn() schedules it, nobody has a task and it is not Parked.
Untouched(t) ==
    life[t] \in {"unborn", "created", "published"} =>
        Unheld(t) /\ parkState[t] # "Parked"

NotYetRun == \A t \in Tasks : Untouched(t)

\* The slab points to tasks that were published and not yet taken out of it.
SlabIsLive ==
    \A s \in Slots, t \in Tasks : slotTask[s] = t =>
        /\ slotOf[t] = s
        /\ life[t] \in {"published", "live"}
        /\ \A w \in Workers : dep[w].task = t =>
             dep[w].hook \notin {"bumpGen", "awaitPins", "putSlot"}

\* A thread that may load from a slot, or still wakes from it, has it pinned.
Pinned ==
    \A a \in Threads :
        /\ pc[a] \in {"gen", "load"} => a \in pins[at[a]]
        /\ ptr[a] # NoTask =>
             /\ pc[a] \notin {"idle", "scan", "exited", "gen", "load"}
             /\ life[ptr[a]] \in {"published", "live"}
             /\ pc[a] \notin {"shield", "reResched", "reSched"} =>
                  a \in pins[slotOf[ptr[a]]]

\* A freed task has left every queue and worker, but for the release itself.
FreedIsGone ==
    \A t \in Tasks : life[t] = "freed" =>
        /\ ready[t] = 0
        /\ \A w \in Workers : cur[w] # t /\ (dep[w].task = t => dep[w].hook = "putSlot")

\* A worker whose run() returned has nothing in hand.
ExitedIsIdle ==
    \A w \in Workers : pc[w] = "exited" => cur[w] = NoTask /\ dep[w] = NoDep

TypeInv == TypeOK /\ AtASlot /\ DepIsTask
OnceInv == Roles /\ Once /\ NotYetRun
FreeInv == SlabIsLive /\ Pinned /\ FreedIsGone /\ ExitedIsIdle
-----------------------------------------------------------------------------
(* Type correctness.                                                       *)

USE DEF taskVars, slabVars, runVars, stopVars, slabPcVars, history

\* The initial state is well typed.
LEMMA TypeInit == Init => TypeInv
<1> SUFFICES ASSUME Init PROVE TypeInv
  OBVIOUS
<1> USE ConstantsAreDistinct, MaxTasksPositive, GenModulusPositive
<1> USE DEF Init, Slots, Threads
<1>1. TypeTask
  BY DEF TypeTask, TaskState, Life
<1>2. TypeSlab
  BY DEF TypeSlab
<1>3. TypeRun /\ DepIsTask
  BY DEF TypeRun, DepIsTask, Hook, NoDep
<1>4. TypeThread /\ AtASlot
  BY DEF TypeThread, AtASlot, InSlab, Pc
<1>5. TypeFlags
  BY DEF TypeFlags
<1> QED
  BY <1>1, <1>2, <1>3, <1>4, <1>5 DEF TypeInv, TypeOK

\* A step that leaves a group of variables alone leaves its type alone.
LEMMA SameTask == TypeTask /\ UNCHANGED taskVars => TypeTask'
  BY DEF TypeTask

\* The same for the slab.
LEMMA SameSlab == TypeSlab /\ UNCHANGED slabVars => TypeSlab'
  BY DEF TypeSlab

\* The same for what runs on the workers.
LEMMA SameRun ==
    TypeRun /\ DepIsTask /\ UNCHANGED runVars => TypeRun' /\ DepIsTask'
  BY DEF TypeRun, DepIsTask

\* The same for the threads inside the slab.
LEMMA SameThread ==
    TypeThread /\ AtASlot /\ UNCHANGED slabPcVars => TypeThread' /\ AtASlot'
  BY DEF TypeThread, AtASlot

\* The same for the flags.
LEMMA SameFlags ==
    TypeFlags /\ UNCHANGED <<stopVars, history>> => TypeFlags'
  BY DEF TypeFlags

\* One more copy of a task in the queues.
LEMMA ReadyMore ==
    ASSUME TypeTask, NEW t PROVE [ready EXCEPT ![t] = @ + 1] \in [Tasks -> Nat]
<1>1. CASE t \in Tasks
  BY <1>1 DEF TypeTask
<1>2. CASE t \notin Tasks
  <2>1. [ready EXCEPT ![t] = @ + 1] = ready
    BY <1>2 DEF TypeTask
  <2> QED
    BY <2>1 DEF TypeTask
<1> QED
  BY <1>1, <1>2

\* A generation stays within its width.
LEMMA GenNext ==
    ASSUME NEW g \in 0 .. GenModulus - 1
    PROVE  (g + 1) % GenModulus \in 0 .. GenModulus - 1
  BY GenModulusPositive

\* A thread pins a slot.
LEMMA PinMore ==
    ASSUME TypeSlab, NEW s, NEW a \in Threads
    PROVE  [pins EXCEPT ![s] = @ \cup {a}] \in [Slots -> SUBSET Threads]
<1>1. CASE s \in Slots
  BY <1>1 DEF TypeSlab
<1>2. CASE s \notin Slots
  <2>1. [pins EXCEPT ![s] = @ \cup {a}] = pins
    BY <1>2 DEF TypeSlab
  <2> QED
    BY <2>1 DEF TypeSlab
<1> QED
  BY <1>1, <1>2

\* And unpins it.
LEMMA PinLess ==
    ASSUME TypeSlab, NEW s, NEW a
    PROVE  [pins EXCEPT ![s] = @ \ {a}] \in [Slots -> SUBSET Threads]
<1>1. CASE s \in Slots
  BY <1>1 DEF TypeSlab
<1>2. CASE s \notin Slots
  <2>1. [pins EXCEPT ![s] = @ \ {a}] = pins
    BY <1>2 DEF TypeSlab
  <2> QED
    BY <2>1 DEF TypeSlab
<1> QED
  BY <1>1, <1>2

\* A slot that is given back has its next generation.
LEMMA GenBumped ==
    ASSUME TypeSlab, NEW s \in Slots
    PROVE  [slotGen EXCEPT ![s] = (@ + 1) % GenModulus] \in [Slots -> 0 .. GenModulus - 1]
<1>1. slotGen \in [Slots -> 0 .. GenModulus - 1] /\ slotGen[s] \in 0 .. GenModulus - 1
  BY DEF TypeSlab
<1>2. (slotGen[s] + 1) % GenModulus \in 0 .. GenModulus - 1
  BY <1>1, GenNext
<1> QED
  BY <1>1, <1>2

\* Every step keeps the types, and a thread inside the slab at a slot of it.
LEMMA TypeStep == TypeInv /\ [Next]_vars => TypeInv'
<1> SUFFICES ASSUME TypeInv, [Next]_vars PROVE TypeInv'
  OBVIOUS
<1>a. TypeTask /\ TypeSlab /\ TypeRun /\ TypeThread /\ TypeFlags /\ AtASlot /\ DepIsTask
  BY DEF TypeInv, TypeOK
<1> USE <1>a, ConstantsAreDistinct, MaxTasksPositive
<1> USE DEF Slots, Threads
<1>1. ASSUME NEW t \in Tasks, SpawnCreate(t) PROVE TypeInv'
  <2>1. TypeTask'
    BY <1>1 DEF SpawnCreate, TypeTask, TaskState, Life, TypeSlab
  <2>2. TypeSlab'
    BY <1>1 DEF SpawnCreate, TypeSlab
  <2> QED
    BY <2>1, <2>2, <1>1, SameRun, SameThread, SameFlags
    DEF TypeInv, TypeOK, SpawnCreate
<1>2. ASSUME NEW t \in Tasks, SpawnFail(t) PROVE TypeInv'
  <2>1. TypeTask'
    BY <1>2 DEF SpawnFail, TypeTask, TaskState, Life
  <2>2. TypeSlab'
    BY <1>2 DEF SpawnFail, TypeSlab, TypeTask
  <2> QED
    BY <2>1, <2>2, <1>2, SameRun, SameThread, SameFlags
    DEF TypeInv, TypeOK, SpawnFail
<1>3. ASSUME NEW t \in Tasks, SpawnPublish(t) PROVE TypeInv'
  <2>1. TypeTask'
    BY <1>3 DEF SpawnPublish, TypeTask, TaskState, Life
  <2>2. TypeSlab'
    BY <1>3 DEF SpawnPublish, TypeSlab, TypeTask
  <2> QED
    BY <2>1, <2>2, <1>3, SameRun, SameThread, SameFlags
    DEF TypeInv, TypeOK, SpawnPublish
<1>4. ASSUME NEW t \in Tasks, SpawnSchedule(t) PROVE TypeInv'
  <2>1. TypeTask'
    BY <1>4, ReadyMore DEF SpawnSchedule, TypeTask, TaskState, Life
  <2> QED
    BY <2>1, <1>4, SameSlab, SameRun, SameThread, SameFlags
    DEF TypeInv, TypeOK, SpawnSchedule
<1>5. ASSUME NEW t \in Tasks, Destroy(t) PROVE TypeInv'
  <2>1. TypeTask'
    BY <1>5 DEF Destroy, TypeTask, TaskState, Life
  <2>2. TypeSlab'
    <3>1. slotOf[t] \in Slots
      BY DEF TypeTask
    <3>2. slotGen' \in [Slots -> 0 .. GenModulus - 1]
      BY <1>5, <3>1, GenBumped DEF Destroy
    <3>3. slotTask' \in [Slots -> Tasks \cup {NoTask}]
      BY <1>5 DEF Destroy, TypeSlab
    <3>4. freeSlots' \in SUBSET Slots /\ UNCHANGED pins
      BY <1>5, <3>1 DEF Destroy, TypeSlab
    <3> QED
      BY <3>2, <3>3, <3>4 DEF TypeSlab
  <2> QED
    BY <2>1, <2>2, <1>5, SameRun, SameThread, SameFlags
    DEF TypeInv, TypeOK, Destroy
<1>6. ASSUME NEW w \in Workers, Dispatch(w) PROVE TypeInv'
  <2>1. TypeTask'
    BY <1>6 DEF Dispatch, Arrive, TypeTask, TaskState, Life
  <2>2. TypeRun' /\ DepIsTask'
    BY <1>6 DEF Dispatch, Arrive, TypeRun, Hook, NoDep, DepIsTask
  <2>3. TypeFlags'
    BY <1>6 DEF Dispatch, Arrive, TypeFlags
  <2> QED
    BY <2>1, <2>2, <2>3, <1>6, SameSlab, SameThread
    DEF TypeInv, TypeOK, Dispatch, Arrive
<1>7. ASSUME NEW w \in Workers, NEW t \in Tasks, Yield(w, t) PROVE TypeInv'
  <2>1. TypeTask'
    BY <1>7 DEF Yield, SwitchAway, Arrive, OnCpu, TypeTask, TaskState, Life
  <2>2. TypeRun' /\ DepIsTask'
    BY <1>7
    DEF Yield, SwitchAway, Arrive, OnCpu, TypeRun, Hook, NoDep, DepIsTask
  <2>3. TypeFlags'
    BY <1>7 DEF Yield, SwitchAway, Arrive, OnCpu, TypeFlags
  <2> QED
    BY <2>1, <2>2, <2>3, <1>7, SameSlab, SameThread
    DEF TypeInv, TypeOK, Yield, SwitchAway, Arrive, OnCpu
<1>8. ASSUME NEW w \in Workers, NEW t \in Tasks, ParkConsume(w, t) PROVE TypeInv'
  <2>1. TypeTask'
    BY <1>8 DEF ParkConsume, TypeTask, TaskState, Life
  <2>2. TypeFlags'
    BY <1>8 DEF ParkConsume, TypeFlags
  <2> QED
    BY <2>1, <2>2, <1>8, SameSlab, SameRun, SameThread
    DEF TypeInv, TypeOK, ParkConsume
<1>9. ASSUME NEW w \in Workers, NEW t \in Tasks, Park(w, t) PROVE TypeInv'
  <2>1. TypeTask'
    BY <1>9 DEF Park, SwitchAway, Arrive, OnCpu, TypeTask, TaskState, Life
  <2>2. TypeRun' /\ DepIsTask'
    BY <1>9
    DEF Park, SwitchAway, Arrive, OnCpu, TypeRun, Hook, NoDep, DepIsTask
  <2>3. TypeFlags'
    BY <1>9 DEF Park, SwitchAway, Arrive, OnCpu, TypeFlags
  <2> QED
    BY <2>1, <2>2, <2>3, <1>9, SameSlab, SameThread
    DEF TypeInv, TypeOK, Park, SwitchAway, Arrive, OnCpu
<1>10. ASSUME NEW w \in Workers, NEW t \in Tasks, Finish(w, t) PROVE TypeInv'
  <2>1. TypeTask'
    BY <1>10 DEF Finish, SwitchAway, Arrive, OnCpu, TypeTask, TaskState, Life
  <2>2. TypeRun' /\ DepIsTask'
    BY <1>10
    DEF Finish, SwitchAway, Arrive, OnCpu, TypeRun, Hook, NoDep, DepIsTask
  <2>3. TypeFlags'
    BY <1>10 DEF Finish, SwitchAway, Arrive, OnCpu, TypeFlags
  <2> QED
    BY <2>1, <2>2, <2>3, <1>10, SameSlab, SameThread
    DEF TypeInv, TypeOK, Finish, SwitchAway, Arrive, OnCpu
<1>11. ASSUME NEW w \in Workers, NEW t \in Tasks, ToggleShield(w, t) PROVE TypeInv'
  <2>1. TypeTask'
    BY <1>11 DEF ToggleShield, TypeTask, TaskState, Life
  <2> QED
    BY <2>1, <1>11, SameSlab, SameRun, SameThread, SameFlags
    DEF TypeInv, TypeOK, ToggleShield
<1>12. ASSUME NEW w \in Workers, HookYield(w) PROVE TypeInv'
  <2>1. TypeTask'
    BY <1>12, ReadyMore DEF HookYield, Departed, TypeTask, TaskState, Life
  <2>2. TypeRun' /\ DepIsTask'
    BY <1>12 DEF HookYield, Departed, TypeRun, Hook, NoDep, DepIsTask
  <2> QED
    BY <2>1, <2>2, <1>12, SameSlab, SameThread, SameFlags
    DEF TypeInv, TypeOK, HookYield, Departed
<1>13. ASSUME NEW w \in Workers, HookPark(w) PROVE TypeInv'
  <2>1. TypeTask'
    BY <1>13 DEF HookPark, Departed, SetHook, TypeTask, TaskState, Life
  <2>2. TypeRun' /\ DepIsTask'
    BY <1>13 DEF HookPark, Departed, SetHook, TypeRun, Hook, NoDep, DepIsTask
  <2> QED
    BY <2>1, <2>2, <1>13, SameSlab, SameThread, SameFlags
    DEF TypeInv, TypeOK, HookPark, Departed, SetHook
<1>14. ASSUME NEW w \in Workers, HookResched(w) PROVE TypeInv'
  <2>1. TypeTask'
    BY <1>14 DEF HookResched, Departed, SetHook, TypeTask, TaskState, Life
  <2>2. TypeRun' /\ DepIsTask'
    BY <1>14
    DEF HookResched, Departed, SetHook, TypeRun, Hook, NoDep, DepIsTask
  <2>3. TypeFlags'
    BY <1>14 DEF HookResched, Departed, SetHook, TypeFlags
  <2> QED
    BY <2>1, <2>2, <2>3, <1>14, SameSlab, SameThread
    DEF TypeInv, TypeOK, HookResched, Departed, SetHook
<1>15. ASSUME NEW w \in Workers, HookSchedule(w) PROVE TypeInv'
  <2>1. TypeTask'
    BY <1>15, ReadyMore DEF HookSchedule, Departed, TypeTask, TaskState, Life
  <2>2. TypeRun' /\ DepIsTask'
    BY <1>15 DEF HookSchedule, Departed, TypeRun, Hook, NoDep, DepIsTask
  <2> QED
    BY <2>1, <2>2, <1>15, SameSlab, SameThread, SameFlags
    DEF TypeInv, TypeOK, HookSchedule, Departed
<1>16. ASSUME NEW w \in Workers, ReleaseDone(w) PROVE TypeInv'
  <2>1. TypeTask'
    BY <1>16 DEF ReleaseDone, Departed, SetHook, TypeTask, TaskState, Life
  <2>2. TypeRun' /\ DepIsTask'
    BY <1>16
    DEF ReleaseDone, Departed, SetHook, TypeRun, Hook, NoDep, DepIsTask
  <2> QED
    BY <2>1, <2>2, <1>16, SameSlab, SameThread, SameFlags
    DEF TypeInv, TypeOK, ReleaseDone, Departed, SetHook
<1>17. ASSUME NEW w \in Workers, ReleaseUnslot(w) PROVE TypeInv'
  <2>1. TypeSlab'
    BY <1>17 DEF ReleaseUnslot, Departed, SetHook, TypeSlab
  <2>2. TypeRun' /\ DepIsTask'
    BY <1>17
    DEF ReleaseUnslot, Departed, SetHook, TypeRun, Hook, NoDep, DepIsTask
  <2> QED
    BY <2>1, <2>2, <1>17, SameTask, SameThread, SameFlags
    DEF TypeInv, TypeOK, ReleaseUnslot, Departed, SetHook
<1>18. ASSUME NEW w \in Workers, ReleaseBumpGen(w) PROVE TypeInv'
  <2>1. TypeSlab'
    BY <1>18, GenNext DEF ReleaseBumpGen, Departed, SetHook, TypeSlab
  <2>2. TypeRun' /\ DepIsTask'
    BY <1>18
    DEF ReleaseBumpGen, Departed, SetHook, TypeRun, Hook, NoDep, DepIsTask
  <2> QED
    BY <2>1, <2>2, <1>18, SameTask, SameThread, SameFlags
    DEF TypeInv, TypeOK, ReleaseBumpGen, Departed, SetHook
<1>19. ASSUME NEW w \in Workers, ReleaseFree(w) PROVE TypeInv'
  <2>1. TypeTask'
    BY <1>19 DEF ReleaseFree, Departed, SetHook, TypeTask, TaskState, Life
  <2>2. TypeRun' /\ DepIsTask'
    BY <1>19
    DEF ReleaseFree, Departed, SetHook, TypeRun, Hook, NoDep, DepIsTask
  <2> QED
    BY <2>1, <2>2, <1>19, SameSlab, SameThread, SameFlags
    DEF TypeInv, TypeOK, ReleaseFree, Departed, SetHook
<1>20. ASSUME NEW w \in Workers, ReleasePutSlot(w) PROVE TypeInv'
  <2>1. TypeSlab'
    BY <1>20
    DEF ReleasePutSlot, Departed, TypeSlab, TypeTask, TypeRun, DepIsTask
  <2>2. TypeRun' /\ DepIsTask'
    BY <1>20 DEF ReleasePutSlot, Departed, TypeRun, Hook, NoDep, DepIsTask
  <2> QED
    BY <2>1, <2>2, <1>20, SameTask, SameThread, SameFlags
    DEF TypeInv, TypeOK, ReleasePutSlot, Departed
<1>21. ASSUME NEW w \in Workers, ReapBegin(w) PROVE TypeInv'
  <2>1. TypeThread' /\ AtASlot'
    BY <1>21 DEF ReapBegin, GoTo, TypeThread, Pc, AtASlot, InSlab
  <2> QED
    BY <2>1, <1>21, SameTask, SameSlab, SameRun, SameFlags
    DEF TypeInv, TypeOK, ReapBegin, GoTo
<1>22. ASSUME NEW w \in Workers, ReapScan(w) PROVE TypeInv'
  <2>1. TypeSlab'
    <3>1. UNCHANGED pins \/ pins' = [pins EXCEPT ![at[w]] = @ \cup {w}]
      BY <1>22 DEF ReapScan, Pin
    <3>2. UNCHANGED <<slotTask, slotGen, freeSlots>>
      BY <1>22 DEF ReapScan
    <3>3. pins' \in [Slots -> SUBSET Threads]
      <4>1. CASE UNCHANGED pins
        BY <4>1 DEF TypeSlab
      <4>2. CASE pins' = [pins EXCEPT ![at[w]] = @ \cup {w}]
        BY <4>2, PinMore
      <4> QED
        BY <3>1, <4>1, <4>2
    <3> QED
      BY <3>2, <3>3 DEF TypeSlab
  <2>2. TypeThread' /\ AtASlot'
    BY <1>22 DEF ReapScan, GoTo, Pin, TypeThread, Pc, AtASlot, InSlab
  <2> QED
    BY <2>1, <2>2, <1>22, SameTask, SameRun, SameFlags
    DEF TypeInv, TypeOK, ReapScan, GoTo, Pin
<1>23. ASSUME NEW w \in Workers, ReapClaim(w) PROVE TypeInv'
  <2>1. TypeTask'
    BY <1>23 DEF ReapClaim, GoTo, TypeTask, TaskState, Life
  <2>2. TypeThread' /\ AtASlot'
    BY <1>23 DEF ReapClaim, GoTo, TypeThread, Pc, AtASlot, InSlab
  <2> QED
    BY <2>1, <2>2, <1>23, SameSlab, SameRun, SameFlags
    DEF TypeInv, TypeOK, ReapClaim, GoTo
<1>24. ASSUME NEW w \in Workers, ReapPutBack(w) PROVE TypeInv'
  <2>1. TypeTask'
    BY <1>24 DEF ReapPutBack, GoTo, NextSlot, TypeTask, TaskState, Life
  <2>2. TypeThread' /\ AtASlot'
    BY <1>24 DEF ReapPutBack, GoTo, NextSlot, TypeThread, Pc, AtASlot, InSlab
  <2> QED
    BY <2>1, <2>2, <1>24, SameSlab, SameRun, SameFlags
    DEF TypeInv, TypeOK, ReapPutBack, GoTo, NextSlot
<1>25. ASSUME NEW w \in Workers, ReapResched(w) PROVE TypeInv'
  <2>1. TypeTask'
    BY <1>25 DEF ReapResched, GoTo, TypeTask, TaskState, Life
  <2>2. TypeThread' /\ AtASlot'
    BY <1>25 DEF ReapResched, GoTo, TypeThread, Pc, AtASlot, InSlab
  <2>3. TypeFlags'
    BY <1>25 DEF ReapResched, GoTo, TypeFlags
  <2> QED
    BY <2>1, <2>2, <2>3, <1>25, SameSlab, SameRun
    DEF TypeInv, TypeOK, ReapResched, GoTo
<1>26. ASSUME NEW w \in Workers, ReapSchedule(w) PROVE TypeInv'
  <2>1. TypeTask'
    BY <1>26, ReadyMore
    DEF ReapSchedule, GoTo, NextSlot, TypeTask, TaskState, Life
  <2>2. TypeThread' /\ AtASlot'
    BY <1>26 DEF ReapSchedule, GoTo, NextSlot, TypeThread, Pc, AtASlot, InSlab
  <2> QED
    BY <2>1, <2>2, <1>26, SameSlab, SameRun, SameFlags
    DEF TypeInv, TypeOK, ReapSchedule, GoTo, NextSlot
<1>27. ASSUME NEW w \in Workers, ReapUnwind(w) PROVE TypeInv'
  <2>1. TypeTask'
    BY <1>27 DEF ReapUnwind, GoTo, NextSlot, TypeTask, TaskState, Life
  <2>2. TypeRun' /\ DepIsTask'
    BY <1>27
    DEF ReapUnwind, GoTo, NextSlot, TypeRun, Hook, NoDep, DepIsTask,
        TypeThread
  <2>3. TypeThread' /\ AtASlot'
    BY <1>27 DEF ReapUnwind, GoTo, NextSlot, TypeThread, Pc, AtASlot, InSlab
  <2>4. TypeFlags'
    BY <1>27 DEF ReapUnwind, GoTo, NextSlot, TypeFlags
  <2> QED
    BY <2>1, <2>2, <2>3, <2>4, <1>27, SameSlab
    DEF TypeInv, TypeOK, ReapUnwind, GoTo, NextSlot
<1>28. ASSUME NEW w \in Workers, WorkerExit(w) PROVE TypeInv'
  <2>1. TypeThread' /\ AtASlot'
    BY <1>28 DEF WorkerExit, GoTo, TypeThread, Pc, AtASlot, InSlab
  <2> QED
    BY <2>1, <1>28, SameTask, SameSlab, SameRun, SameFlags
    DEF TypeInv, TypeOK, WorkerExit, GoTo
<1>29. ASSUME NEW a \in Wakers, NEW t \in Tasks, WakeBegin(a, t) PROVE TypeInv'
  <2>1. TypeSlab'
    BY <1>29 DEF WakeBegin, GoTo, Pin, TypeSlab
  <2>2. TypeThread' /\ AtASlot'
    BY <1>29
    DEF WakeBegin, GoTo, Pin, TypeThread, Pc, AtASlot, InSlab, TypeTask
  <2>3. TypeFlags'
    BY <1>29 DEF WakeBegin, GoTo, Pin, TypeFlags
  <2> QED
    BY <2>1, <2>2, <2>3, <1>29, SameTask, SameRun
    DEF TypeInv, TypeOK, WakeBegin, GoTo, Pin
<1>30. ASSUME NEW a \in Wakers, NEW s \in Slots, VisitBegin(a, s) PROVE TypeInv'
  <2>1. TypeSlab'
    BY <1>30 DEF VisitBegin, GoTo, Pin, TypeSlab
  <2>2. TypeThread' /\ AtASlot'
    BY <1>30 DEF VisitBegin, GoTo, Pin, TypeThread, Pc, AtASlot, InSlab
  <2> QED
    BY <2>1, <2>2, <1>30, SameTask, SameRun, SameFlags
    DEF TypeInv, TypeOK, VisitBegin, GoTo, Pin
<1>31. ASSUME NEW a \in Threads, WakeCheckGeneration(a) PROVE TypeInv'
  <2>1. TypeThread' /\ AtASlot'
    BY <1>31 DEF WakeCheckGeneration, GoTo, TypeThread, Pc, AtASlot, InSlab
  <2> QED
    BY <2>1, <1>31, SameTask, SameSlab, SameRun, SameFlags
    DEF TypeInv, TypeOK, WakeCheckGeneration, GoTo
<1>32. ASSUME NEW a \in Threads, LoadTask(a) PROVE TypeInv'
  <2>1. TypeThread' /\ AtASlot'
    BY <1>32
    DEF LoadTask, GoTo, AfterLoad, TypeThread, Pc, AtASlot, InSlab,
        TypeSlab
  <2> QED
    BY <2>1, <1>32, SameTask, SameSlab, SameRun, SameFlags
    DEF TypeInv, TypeOK, LoadTask, GoTo, AfterLoad
<1>33. ASSUME NEW a \in Threads, VisitRead(a) PROVE TypeInv'
  <2>1. TypeThread' /\ AtASlot'
    BY <1>33 DEF VisitRead, GoTo, TypeThread, Pc, AtASlot, InSlab
  <2> QED
    BY <2>1, <1>33, SameTask, SameSlab, SameRun, SameFlags
    DEF TypeInv, TypeOK, VisitRead, GoTo
<1>34. ASSUME NEW a \in Threads, WakeCas(a) PROVE TypeInv'
  <2>1. TypeTask'
    BY <1>34 DEF WakeCas, GoTo, TypeTask, TaskState, Life
  <2>2. TypeThread' /\ AtASlot'
    BY <1>34 DEF WakeCas, GoTo, TypeThread, Pc, AtASlot, InSlab
  <2> QED
    BY <2>1, <2>2, <1>34, SameSlab, SameRun, SameFlags
    DEF TypeInv, TypeOK, WakeCas, GoTo
<1>35. ASSUME NEW a \in Threads, WakeStore(a) PROVE TypeInv'
  <2>1. TypeTask'
    BY <1>35 DEF WakeStore, GoTo, TypeTask, TaskState, Life
  <2>2. TypeThread' /\ AtASlot'
    BY <1>35 DEF WakeStore, GoTo, TypeThread, Pc, AtASlot, InSlab
  <2>3. TypeFlags'
    BY <1>35 DEF WakeStore, GoTo, TypeFlags
  <2> QED
    BY <2>1, <2>2, <2>3, <1>35, SameSlab, SameRun
    DEF TypeInv, TypeOK, WakeStore, GoTo
<1>36. ASSUME NEW a \in Threads, WakeSchedule(a) PROVE TypeInv'
  <2>1. TypeTask'
    BY <1>36, ReadyMore DEF WakeSchedule, GoTo, TypeTask, TaskState, Life
  <2>2. TypeThread' /\ AtASlot'
    BY <1>36 DEF WakeSchedule, GoTo, TypeThread, Pc, AtASlot, InSlab
  <2> QED
    BY <2>1, <2>2, <1>36, SameSlab, SameRun, SameFlags
    DEF TypeInv, TypeOK, WakeSchedule, GoTo
<1>37. ASSUME NEW a \in Threads, Unpin(a) PROVE TypeInv'
  <2>1. TypeSlab'
    <3>1. pins' = [pins EXCEPT ![at[a]] = @ \ {a}] /\ UNCHANGED <<slotTask, slotGen, freeSlots>>
      BY <1>37 DEF Unpin
    <3> QED
      BY <3>1, PinLess DEF TypeSlab
  <2>2. TypeThread' /\ AtASlot'
    BY <1>37 DEF Unpin, GoTo, TypeThread, Pc, AtASlot, InSlab
  <2> QED
    BY <2>1, <2>2, <1>37, SameTask, SameRun, SameFlags
    DEF TypeInv, TypeOK, Unpin, GoTo
<1>38. ASSUME Stop PROVE TypeInv'
  <2>1. TypeThread' /\ AtASlot'
    BY <1>38 DEF Stop, GoTo, TypeThread, Pc, AtASlot, InSlab
  <2>2. TypeFlags'
    BY <1>38 DEF Stop, GoTo, TypeFlags
  <2> QED
    BY <2>1, <2>2, <1>38, SameTask, SameSlab, SameRun
    DEF TypeInv, TypeOK, Stop, GoTo
<1>39. ASSUME StopScan PROVE TypeInv'
  <2>1. TypeSlab'
    <3>1. UNCHANGED pins \/ pins' = [pins EXCEPT ![at[Stopper]] = @ \cup {Stopper}]
      BY <1>39 DEF StopScan, Pin
    <3>2. UNCHANGED <<slotTask, slotGen, freeSlots>>
      BY <1>39 DEF StopScan
    <3>3. pins' \in [Slots -> SUBSET Threads]
      <4>1. CASE UNCHANGED pins
        BY <4>1 DEF TypeSlab
      <4>2. CASE pins' = [pins EXCEPT ![at[Stopper]] = @ \cup {Stopper}]
        BY <4>2, PinMore
      <4> QED
        BY <3>1, <4>1, <4>2
    <3> QED
      BY <3>2, <3>3 DEF TypeSlab
  <2>2. TypeThread' /\ AtASlot'
    BY <1>39 DEF StopScan, GoTo, Pin, TypeThread, Pc, AtASlot, InSlab
  <2>3. TypeFlags'
    BY <1>39 DEF StopScan, GoTo, Pin, TypeFlags
  <2> QED
    BY <2>1, <2>2, <2>3, <1>39, SameTask, SameRun
    DEF TypeInv, TypeOK, StopScan, GoTo, Pin
<1>40. ASSUME Stopped PROVE TypeInv'
  BY <1>40, SameTask, SameSlab, SameRun, SameThread, SameFlags
  DEF TypeInv, TypeOK, Stopped, vars
<1>50. CASE UNCHANGED vars
  BY <1>50, SameTask, SameSlab, SameRun, SameThread, SameFlags
  DEF vars, TypeInv, TypeOK
<1> QED
  BY <1>1, <1>2, <1>3, <1>4, <1>5, <1>6, <1>7, <1>8, <1>9, <1>10, <1>11,
     <1>12, <1>13, <1>14, <1>15, <1>16, <1>17, <1>18, <1>19, <1>20, <1>21,
     <1>22, <1>23, <1>24, <1>25, <1>26, <1>27, <1>28, <1>29, <1>30, <1>31,
     <1>32, <1>33, <1>34, <1>35, <1>36, <1>37, <1>38, <1>39, <1>40, <1>50
  DEF Next, Spawning, Body, HookStep, SlabStep, ReapStep

\* Every reachable state is well typed (TypeOK), whatever the sizes.
THEOREM TypeCorrect == Spec => []TypeOK
<1>1. TypeInv => TypeOK
  BY DEF TypeInv
<1> QED
  BY TypeInit, TypeStep, <1>1, PTL DEF Spec

USE DEF taskVars, slabVars, runVars, stopVars, slabPcVars, history

-----------------------------------------------------------------------------
(* A task is scheduled once.                                               *)

\* Nobody holds anything to begin with.
LEMMA OnceInit == Init => OnceInv
  BY ConstantsAreDistinct
  DEF Init, OnceInv, Roles, Once, NotYetRun, Untouched, Exclusive,
     Unheld, Reviving, Threads, NoDep

\* OnceInv is about these variables only.
LEMMA OnceSame ==
    OnceInv /\ UNCHANGED <<parkState, ready, life, cur, dep, pc, ptr>> => OnceInv'
  BY
  DEF OnceInv, Roles, Once, NotYetRun, Untouched, Exclusive, Unheld,
      Reviving

\* Every step keeps the holders of a task apart, one action at a time.
LEMMA OnceStep == TypeInv /\ OnceInv /\ [Next]_vars => OnceInv'
<1> SUFFICES ASSUME TypeInv, OnceInv, [Next]_vars PROVE OnceInv'
  OBVIOUS
<1>a. /\ TypeTask /\ TypeRun /\ TypeThread /\ DepIsTask
      /\ Roles /\ NotYetRun /\ \A t \in Tasks : Exclusive(t)
  BY DEF TypeInv, TypeOK, OnceInv, Once
<1> USE <1>a, ConstantsAreDistinct
<1> USE DEF Threads
<1>1. ASSUME NEW t \in Tasks, SpawnCreate(t) PROVE OnceInv'
  <2>1. Roles'
    BY <1>1 DEF SpawnCreate, Roles
  <2>2. ASSUME NEW u \in Tasks PROVE Exclusive(u)'
    BY <1>1, <2>2 DEF SpawnCreate, Exclusive, Unheld, Reviving
  <2>3. ASSUME NEW u \in Tasks PROVE Untouched(u)'
    BY <1>1, <2>3 DEF SpawnCreate, Unheld, Reviving, NotYetRun, Untouched
  <2> QED
    BY <2>1, <2>2, <2>3 DEF OnceInv, Once, NotYetRun
<1>2. ASSUME NEW t \in Tasks, SpawnFail(t) PROVE OnceInv'
  <2>1. Roles'
    BY <1>2 DEF SpawnFail, Roles
  <2>2. ASSUME NEW u \in Tasks PROVE Exclusive(u)'
    BY <1>2, <2>2 DEF SpawnFail, Exclusive, Unheld, Reviving
  <2>3. ASSUME NEW u \in Tasks PROVE Untouched(u)'
    BY <1>2, <2>3 DEF SpawnFail, Unheld, Reviving, NotYetRun, Untouched
  <2> QED
    BY <2>1, <2>2, <2>3 DEF OnceInv, Once, NotYetRun
<1>3. ASSUME NEW t \in Tasks, SpawnPublish(t) PROVE OnceInv'
  <2>1. Roles'
    BY <1>3 DEF SpawnPublish, Roles
  <2>2. ASSUME NEW u \in Tasks PROVE Exclusive(u)'
    BY <1>3, <2>2 DEF SpawnPublish, Exclusive, Unheld, Reviving
  <2>3. ASSUME NEW u \in Tasks PROVE Untouched(u)'
    BY <1>3, <2>3 DEF SpawnPublish, Unheld, Reviving, NotYetRun, Untouched
  <2> QED
    BY <2>1, <2>2, <2>3 DEF OnceInv, Once, NotYetRun
<1>4. ASSUME NEW t \in Tasks, SpawnSchedule(t) PROVE OnceInv'
  <2>1. Roles'
    BY <1>4 DEF SpawnSchedule, Roles
  <2>2. ASSUME NEW u \in Tasks PROVE Exclusive(u)'
    BY <1>4, <2>2
    DEF SpawnSchedule, Exclusive, Unheld, Reviving, NotYetRun, Untouched
  <2>3. ASSUME NEW u \in Tasks PROVE Untouched(u)'
    BY <1>4, <2>3
    DEF SpawnSchedule, Unheld, Reviving, NotYetRun, Untouched, TypeTask
  <2> QED
    BY <2>1, <2>2, <2>3 DEF OnceInv, Once, NotYetRun
<1>5. ASSUME NEW t \in Tasks, Destroy(t) PROVE OnceInv'
  <2>1. Roles'
    BY <1>5 DEF Destroy, Roles
  <2>2. ASSUME NEW u \in Tasks PROVE Exclusive(u)'
    BY <1>5, <2>2 DEF Destroy, Exclusive, Unheld, Reviving
  <2>3. ASSUME NEW u \in Tasks PROVE Untouched(u)'
    BY <1>5, <2>3 DEF Destroy, Unheld, Reviving, NotYetRun, Untouched
  <2> QED
    BY <2>1, <2>2, <2>3 DEF OnceInv, Once, NotYetRun
<1>6. ASSUME NEW w \in Workers, Dispatch(w) PROVE OnceInv'
  <2>1. Roles'
    BY <1>6 DEF Dispatch, Arrive, Roles
  <2>2. ASSUME NEW u \in Tasks PROVE Exclusive(u)'
    BY <1>6, <2>2 DEF Dispatch, Arrive, Exclusive, Unheld, Reviving
  <2>3. ASSUME NEW u \in Tasks PROVE Untouched(u)'
    BY <1>6, <2>3 DEF Dispatch, Arrive, Unheld, Reviving, NotYetRun, Untouched
  <2> QED
    BY <2>1, <2>2, <2>3 DEF OnceInv, Once, NotYetRun
<1>7. ASSUME NEW w \in Workers, NEW t \in Tasks, Yield(w, t) PROVE OnceInv'
  <2>1. Roles'
    BY <1>7 DEF Yield, SwitchAway, Arrive, Roles
  <2>2. ASSUME NEW u \in Tasks PROVE Exclusive(u)'
    BY <1>7, <2>2
    DEF Yield, SwitchAway, Arrive, OnCpu, Exclusive, Unheld, Reviving,
        TypeRun
  <2>3. ASSUME NEW u \in Tasks PROVE Untouched(u)'
    BY <1>7, <2>3
    DEF Yield, SwitchAway, Arrive, OnCpu, Unheld, Reviving, NotYetRun,
        Untouched
  <2> QED
    BY <2>1, <2>2, <2>3 DEF OnceInv, Once, NotYetRun
<1>8. ASSUME NEW w \in Workers, NEW t \in Tasks, ParkConsume(w, t) PROVE OnceInv'
  <2>1. Roles'
    BY <1>8 DEF ParkConsume, Roles
  <2>2. ASSUME NEW u \in Tasks PROVE Exclusive(u)'
    BY <1>8, <2>2 DEF ParkConsume, Exclusive, Unheld, Reviving
  <2>3. ASSUME NEW u \in Tasks PROVE Untouched(u)'
    BY <1>8, <2>3 DEF ParkConsume, Unheld, Reviving, NotYetRun, Untouched
  <2> QED
    BY <2>1, <2>2, <2>3 DEF OnceInv, Once, NotYetRun
<1>9. ASSUME NEW w \in Workers, NEW t \in Tasks, Park(w, t) PROVE OnceInv'
  <2>1. Roles'
    BY <1>9 DEF Park, SwitchAway, Arrive, Roles
  <2>2. ASSUME NEW u \in Tasks PROVE Exclusive(u)'
    BY <1>9, <2>2
    DEF Park, SwitchAway, Arrive, OnCpu, Exclusive, Unheld, Reviving,
        TypeRun
  <2>3. ASSUME NEW u \in Tasks PROVE Untouched(u)'
    BY <1>9, <2>3
    DEF Park, SwitchAway, Arrive, OnCpu, Unheld, Reviving, NotYetRun,
        Untouched
  <2> QED
    BY <2>1, <2>2, <2>3 DEF OnceInv, Once, NotYetRun
<1>10. ASSUME NEW w \in Workers, NEW t \in Tasks, Finish(w, t) PROVE OnceInv'
  <2>1. Roles'
    BY <1>10 DEF Finish, SwitchAway, Arrive, Roles
  <2>2. ASSUME NEW u \in Tasks PROVE Exclusive(u)'
    BY <1>10, <2>2
    DEF Finish, SwitchAway, Arrive, OnCpu, Exclusive, Unheld, Reviving,
        TypeRun
  <2>3. ASSUME NEW u \in Tasks PROVE Untouched(u)'
    BY <1>10, <2>3
    DEF Finish, SwitchAway, Arrive, OnCpu, Unheld, Reviving, NotYetRun,
        Untouched
  <2> QED
    BY <2>1, <2>2, <2>3 DEF OnceInv, Once, NotYetRun
<1>11. ASSUME NEW w \in Workers, NEW t \in Tasks, ToggleShield(w, t) PROVE OnceInv'
  BY <1>11, OnceSame DEF ToggleShield
<1>12. ASSUME NEW w \in Workers, HookYield(w) PROVE OnceInv'
  <2>1. Roles'
    BY <1>12 DEF HookYield, Departed, Roles
  <2>2. ASSUME NEW u \in Tasks PROVE Exclusive(u)'
    BY <1>12, <2>2
    DEF HookYield, Departed, Exclusive, Unheld, Reviving, NoDep, TypeRun
  <2>3. ASSUME NEW u \in Tasks PROVE Untouched(u)'
    BY <1>12, <2>3
    DEF HookYield, Departed, Unheld, Reviving, NotYetRun, Untouched, NoDep
  <2> QED
    BY <2>1, <2>2, <2>3 DEF OnceInv, Once, NotYetRun
<1>13. ASSUME NEW w \in Workers, HookPark(w) PROVE OnceInv'
  <2>1. Roles'
    BY <1>13 DEF HookPark, Departed, SetHook, Roles
  <2>2. ASSUME NEW u \in Tasks PROVE Exclusive(u)'
    <3>0. UNCHANGED <<ready, cur, pc, ptr>> /\ dep[w].task \in Tasks
      BY <1>13 DEF HookPark, Departed, DepIsTask
    <3>1. CASE parkState[dep[w].task] = "Running"
      <4>1. /\ parkState' = [parkState EXCEPT ![dep[w].task] = "Parked"]
            /\ dep' = [dep EXCEPT ![w] = NoDep]
        BY <1>13, <3>1 DEF HookPark
      <4>2. CASE u = dep[w].task
        BY <2>2, <3>0, <4>1, <4>2
        DEF Exclusive, Unheld, Reviving, NoDep, TypeTask, TypeRun
      <4>3. CASE u # dep[w].task
        BY <2>2, <3>0, <4>1, <4>3
        DEF Exclusive, Unheld, Reviving, NoDep, TypeTask, TypeRun
      <4> QED
        BY <4>2, <4>3
    <3>2. CASE parkState[dep[w].task] # "Running"
      <4>1. parkState' = parkState /\ dep' = [dep EXCEPT ![w].hook = "resched"]
        BY <1>13, <3>2 DEF HookPark, SetHook
      <4>2. \A v \in Workers : dep'[v].task = dep[v].task
        BY <4>1 DEF TypeRun
      <4> QED
        BY <2>2, <3>0, <4>1, <4>2 DEF Exclusive, Unheld, Reviving
    <3> QED
      BY <3>1, <3>2
  <2>3. ASSUME NEW u \in Tasks PROVE Untouched(u)'
    BY <1>13, <2>3
    DEF HookPark, Departed, SetHook, Unheld, Reviving, NotYetRun,
        Untouched, NoDep, DepIsTask, TypeTask, TypeRun
  <2> QED
    BY <2>1, <2>2, <2>3 DEF OnceInv, Once, NotYetRun
<1>14. ASSUME NEW w \in Workers, HookResched(w) PROVE OnceInv'
  <2>1. Roles'
    BY <1>14 DEF HookResched, Departed, SetHook, Roles
  <2>2. ASSUME NEW u \in Tasks PROVE Exclusive(u)'
    BY <1>14, <2>2
    DEF HookResched, Departed, SetHook, Exclusive, Unheld, Reviving
  <2>3. ASSUME NEW u \in Tasks PROVE Untouched(u)'
    BY <1>14, <2>3
    DEF HookResched, Departed, SetHook, Unheld, Reviving, NotYetRun,
        Untouched
  <2> QED
    BY <2>1, <2>2, <2>3 DEF OnceInv, Once, NotYetRun
<1>15. ASSUME NEW w \in Workers, HookSchedule(w) PROVE OnceInv'
  <2>1. Roles'
    BY <1>15 DEF HookSchedule, Departed, Roles
  <2>2. ASSUME NEW u \in Tasks PROVE Exclusive(u)'
    BY <1>15, <2>2
    DEF HookSchedule, Departed, Exclusive, Unheld, Reviving, NoDep,
        TypeRun
  <2>3. ASSUME NEW u \in Tasks PROVE Untouched(u)'
    BY <1>15, <2>3
    DEF HookSchedule, Departed, Unheld, Reviving, NotYetRun, Untouched,
        NoDep
  <2> QED
    BY <2>1, <2>2, <2>3 DEF OnceInv, Once, NotYetRun
<1>16. ASSUME NEW w \in Workers, ReleaseDone(w) PROVE OnceInv'
  <2>1. Roles'
    BY <1>16 DEF ReleaseDone, Departed, SetHook, Roles
  <2>2. ASSUME NEW u \in Tasks PROVE Exclusive(u)'
    BY <1>16, <2>2
    DEF ReleaseDone, Departed, SetHook, Exclusive, Unheld, Reviving
  <2>3. ASSUME NEW u \in Tasks PROVE Untouched(u)'
    BY <1>16, <2>3
    DEF ReleaseDone, Departed, SetHook, Unheld, Reviving, NotYetRun,
        Untouched
  <2> QED
    BY <2>1, <2>2, <2>3 DEF OnceInv, Once, NotYetRun
<1>17. ASSUME NEW w \in Workers, ReleaseUnslot(w) PROVE OnceInv'
  <2>1. Roles'
    BY <1>17 DEF ReleaseUnslot, Departed, SetHook, Roles
  <2>2. ASSUME NEW u \in Tasks PROVE Exclusive(u)'
    BY <1>17, <2>2
    DEF ReleaseUnslot, Departed, SetHook, Exclusive, Unheld, Reviving
  <2>3. ASSUME NEW u \in Tasks PROVE Untouched(u)'
    BY <1>17, <2>3
    DEF ReleaseUnslot, Departed, SetHook, Unheld, Reviving, NotYetRun,
        Untouched
  <2> QED
    BY <2>1, <2>2, <2>3 DEF OnceInv, Once, NotYetRun
<1>18. ASSUME NEW w \in Workers, ReleaseBumpGen(w) PROVE OnceInv'
  <2>1. Roles'
    BY <1>18 DEF ReleaseBumpGen, Departed, SetHook, Roles
  <2>2. ASSUME NEW u \in Tasks PROVE Exclusive(u)'
    BY <1>18, <2>2
    DEF ReleaseBumpGen, Departed, SetHook, Exclusive, Unheld, Reviving
  <2>3. ASSUME NEW u \in Tasks PROVE Untouched(u)'
    BY <1>18, <2>3
    DEF ReleaseBumpGen, Departed, SetHook, Unheld, Reviving, NotYetRun,
        Untouched
  <2> QED
    BY <2>1, <2>2, <2>3 DEF OnceInv, Once, NotYetRun
<1>19. ASSUME NEW w \in Workers, ReleaseFree(w) PROVE OnceInv'
  <2>1. Roles'
    BY <1>19 DEF ReleaseFree, Departed, SetHook, Roles
  <2>2. ASSUME NEW u \in Tasks PROVE Exclusive(u)'
    BY <1>19, <2>2
    DEF ReleaseFree, Departed, SetHook, Exclusive, Unheld, Reviving
  <2>3. ASSUME NEW u \in Tasks PROVE Untouched(u)'
    BY <1>19, <2>3
    DEF ReleaseFree, Departed, SetHook, Unheld, Reviving, NotYetRun,
        Untouched
  <2> QED
    BY <2>1, <2>2, <2>3 DEF OnceInv, Once, NotYetRun
<1>20. ASSUME NEW w \in Workers, ReleasePutSlot(w) PROVE OnceInv'
  <2>1. Roles'
    BY <1>20 DEF ReleasePutSlot, Departed, Roles
  <2>2. ASSUME NEW u \in Tasks PROVE Exclusive(u)'
    BY <1>20, <2>2
    DEF ReleasePutSlot, Departed, Exclusive, Unheld, Reviving, NoDep
  <2>3. ASSUME NEW u \in Tasks PROVE Untouched(u)'
    BY <1>20, <2>3
    DEF ReleasePutSlot, Departed, Unheld, Reviving, NotYetRun, Untouched,
        NoDep
  <2> QED
    BY <2>1, <2>2, <2>3 DEF OnceInv, Once, NotYetRun
<1>21. ASSUME NEW w \in Workers, ReapBegin(w) PROVE OnceInv'
  <2>1. Roles'
    BY <1>21 DEF ReapBegin, GoTo, Roles
  <2>2. ASSUME NEW u \in Tasks PROVE Exclusive(u)'
    BY <1>21, <2>2 DEF ReapBegin, GoTo, Exclusive, Unheld, Reviving
  <2>3. ASSUME NEW u \in Tasks PROVE Untouched(u)'
    BY <1>21, <2>3 DEF ReapBegin, GoTo, Unheld, Reviving, NotYetRun, Untouched
  <2> QED
    BY <2>1, <2>2, <2>3 DEF OnceInv, Once, NotYetRun
<1>22. ASSUME NEW w \in Workers, ReapScan(w) PROVE OnceInv'
  <2>1. Roles'
    BY <1>22 DEF ReapScan, GoTo, Pin, Roles, TypeThread
  <2>2. ASSUME NEW u \in Tasks PROVE Exclusive(u)'
    BY <1>22, <2>2
    DEF ReapScan, GoTo, Pin, Exclusive, Unheld, Reviving, TypeThread
  <2>3. ASSUME NEW u \in Tasks PROVE Untouched(u)'
    BY <1>22, <2>3
    DEF ReapScan, GoTo, Pin, Unheld, Reviving, NotYetRun, Untouched,
        TypeThread
  <2> QED
    BY <2>1, <2>2, <2>3 DEF OnceInv, Once, NotYetRun
<1>23. ASSUME NEW w \in Workers, ReapClaim(w) PROVE OnceInv'
  <2>1. Roles'
    BY <1>23 DEF ReapClaim, GoTo, Roles
  <2>2. ASSUME NEW u \in Tasks PROVE Exclusive(u)'
    BY <1>23, <2>2
    DEF ReapClaim, GoTo, Exclusive, Unheld, Reviving, TypeTask, TypeThread
  <2>3. ASSUME NEW u \in Tasks PROVE Untouched(u)'
    BY <1>23, <2>3
    DEF ReapClaim, GoTo, Unheld, Reviving, NotYetRun, Untouched, TypeTask,
        TypeThread
  <2> QED
    BY <2>1, <2>2, <2>3 DEF OnceInv, Once, NotYetRun
<1>24. ASSUME NEW w \in Workers, ReapPutBack(w) PROVE OnceInv'
  <2>1. Roles'
    BY <1>24 DEF ReapPutBack, GoTo, NextSlot, Roles, TypeThread
  <2>2. ASSUME NEW u \in Tasks PROVE Exclusive(u)'
    <3>0. UNCHANGED <<ready, cur, dep>> /\ Reviving(w, ptr[w])
      BY <1>24 DEF ReapPutBack, Reviving
    <3>1. CASE parkState[ptr[w]] = "Running"
      <4>1. /\ parkState' = [parkState EXCEPT ![ptr[w]] = "Parked"]
            /\ pc' = [pc EXCEPT ![w] = "scan"]
            /\ ptr' = [ptr EXCEPT ![w] = NoTask]
        BY <1>24, <3>1 DEF ReapPutBack, NextSlot, GoTo
      <4>2. \A a \in Threads : Reviving(a, u)' <=> Reviving(a, u) /\ a # w
        BY <2>2, <4>1 DEF Reviving, TypeThread
      <4>3. CASE u = ptr[w]
        BY <2>2, <3>0, <4>1, <4>2, <4>3 DEF Exclusive, Unheld, TypeTask
      <4>4. CASE u # ptr[w]
        BY <2>2, <3>0, <4>1, <4>2, <4>4 DEF Exclusive, Unheld, TypeTask
      <4> QED
        BY <4>3, <4>4
    <3>2. CASE parkState[ptr[w]] # "Running"
      BY <1>24, <2>2, <3>2
      DEF ReapPutBack, GoTo, NextSlot, Exclusive, Unheld, Reviving,
          Roles, TypeThread
    <3> QED
      BY <3>1, <3>2
  <2>3. ASSUME NEW u \in Tasks PROVE Untouched(u)'
    BY <1>24, <2>3
    DEF ReapPutBack, GoTo, NextSlot, Unheld, Reviving, NotYetRun,
        Untouched, TypeTask, TypeThread
  <2> QED
    BY <2>1, <2>2, <2>3 DEF OnceInv, Once, NotYetRun
<1>25. ASSUME NEW w \in Workers, ReapResched(w) PROVE OnceInv'
  <2>1. Roles'
    BY <1>25 DEF ReapResched, GoTo, Roles
  <2>2. ASSUME NEW u \in Tasks PROVE Exclusive(u)'
    BY <1>25, <2>2 DEF ReapResched, GoTo, Exclusive, Unheld, Reviving
  <2>3. ASSUME NEW u \in Tasks PROVE Untouched(u)'
    BY <1>25, <2>3
    DEF ReapResched, GoTo, Unheld, Reviving, NotYetRun, Untouched
  <2> QED
    BY <2>1, <2>2, <2>3 DEF OnceInv, Once, NotYetRun
<1>26. ASSUME NEW w \in Workers, ReapSchedule(w) PROVE OnceInv'
  <2>1. Roles'
    BY <1>26 DEF ReapSchedule, GoTo, NextSlot, Roles
  <2>2. ASSUME NEW u \in Tasks PROVE Exclusive(u)'
    BY <1>26, <2>2
    DEF ReapSchedule, GoTo, NextSlot, Exclusive, Unheld, Reviving,
        TypeThread
  <2>3. ASSUME NEW u \in Tasks PROVE Untouched(u)'
    BY <1>26, <2>3
    DEF ReapSchedule, GoTo, NextSlot, Unheld, Reviving, NotYetRun,
        Untouched
  <2> QED
    BY <2>1, <2>2, <2>3 DEF OnceInv, Once, NotYetRun
<1>27. ASSUME NEW w \in Workers, ReapUnwind(w) PROVE OnceInv'
  <2>1. Roles'
    BY <1>27 DEF ReapUnwind, GoTo, NextSlot, Roles
  <2>2. ASSUME NEW u \in Tasks PROVE Exclusive(u)'
    BY <1>27, <2>2
    DEF ReapUnwind, GoTo, NextSlot, Exclusive, Unheld, Reviving,
        TypeThread
  <2>3. ASSUME NEW u \in Tasks PROVE Untouched(u)'
    BY <1>27, <2>3
    DEF ReapUnwind, GoTo, NextSlot, Unheld, Reviving, NotYetRun, Untouched
  <2> QED
    BY <2>1, <2>2, <2>3 DEF OnceInv, Once, NotYetRun
<1>28. ASSUME NEW w \in Workers, WorkerExit(w) PROVE OnceInv'
  <2>1. Roles'
    BY <1>28 DEF WorkerExit, GoTo, Roles
  <2>2. ASSUME NEW u \in Tasks PROVE Exclusive(u)'
    BY <1>28, <2>2 DEF WorkerExit, GoTo, Exclusive, Unheld, Reviving
  <2>3. ASSUME NEW u \in Tasks PROVE Untouched(u)'
    BY <1>28, <2>3
    DEF WorkerExit, GoTo, Unheld, Reviving, NotYetRun, Untouched
  <2> QED
    BY <2>1, <2>2, <2>3 DEF OnceInv, Once, NotYetRun
<1>29. ASSUME NEW a \in Wakers, NEW t \in Tasks, WakeBegin(a, t) PROVE OnceInv'
  <2>1. Roles'
    BY <1>29 DEF WakeBegin, GoTo, Pin, Roles
  <2>2. ASSUME NEW u \in Tasks PROVE Exclusive(u)'
    BY <1>29, <2>2 DEF WakeBegin, GoTo, Pin, Exclusive, Unheld, Reviving
  <2>3. ASSUME NEW u \in Tasks PROVE Untouched(u)'
    BY <1>29, <2>3
    DEF WakeBegin, GoTo, Pin, Unheld, Reviving, NotYetRun, Untouched
  <2> QED
    BY <2>1, <2>2, <2>3 DEF OnceInv, Once, NotYetRun
<1>30. ASSUME NEW a \in Wakers, NEW s \in Slots, VisitBegin(a, s) PROVE OnceInv'
  <2>1. Roles'
    BY <1>30 DEF VisitBegin, GoTo, Pin, Roles
  <2>2. ASSUME NEW u \in Tasks PROVE Exclusive(u)'
    BY <1>30, <2>2 DEF VisitBegin, GoTo, Pin, Exclusive, Unheld, Reviving
  <2>3. ASSUME NEW u \in Tasks PROVE Untouched(u)'
    BY <1>30, <2>3
    DEF VisitBegin, GoTo, Pin, Unheld, Reviving, NotYetRun, Untouched
  <2> QED
    BY <2>1, <2>2, <2>3 DEF OnceInv, Once, NotYetRun
<1>31. ASSUME NEW a \in Threads, WakeCheckGeneration(a) PROVE OnceInv'
  <2>1. Roles'
    BY <1>31 DEF WakeCheckGeneration, GoTo, Roles
  <2>2. ASSUME NEW u \in Tasks PROVE Exclusive(u)'
    BY <1>31, <2>2
    DEF WakeCheckGeneration, GoTo, Exclusive, Unheld, Reviving, Roles
  <2>3. ASSUME NEW u \in Tasks PROVE Untouched(u)'
    BY <1>31, <2>3
    DEF WakeCheckGeneration, GoTo, Unheld, Reviving, Roles, NotYetRun,
        Untouched
  <2> QED
    BY <2>1, <2>2, <2>3 DEF OnceInv, Once, NotYetRun
<1>32. ASSUME NEW a \in Threads, LoadTask(a) PROVE OnceInv'
  <2>1. Roles'
    BY <1>32 DEF LoadTask, GoTo, AfterLoad, Roles
  <2>2. ASSUME NEW u \in Tasks PROVE Exclusive(u)'
    BY <1>32, <2>2
    DEF LoadTask, GoTo, AfterLoad, Exclusive, Unheld, Reviving, TypeThread
  <2>3. ASSUME NEW u \in Tasks PROVE Untouched(u)'
    BY <1>32, <2>3
    DEF LoadTask, GoTo, AfterLoad, Unheld, Reviving, NotYetRun, Untouched,
        TypeThread
  <2> QED
    BY <2>1, <2>2, <2>3 DEF OnceInv, Once, NotYetRun
<1>33. ASSUME NEW a \in Threads, VisitRead(a) PROVE OnceInv'
  <2>1. Roles'
    BY <1>33 DEF VisitRead, GoTo, Roles
  <2>2. ASSUME NEW u \in Tasks PROVE Exclusive(u)'
    BY <1>33, <2>2 DEF VisitRead, GoTo, Exclusive, Unheld, Reviving, Roles
  <2>3. ASSUME NEW u \in Tasks PROVE Untouched(u)'
    BY <1>33, <2>3
    DEF VisitRead, GoTo, Unheld, Reviving, Roles, NotYetRun, Untouched
  <2> QED
    BY <2>1, <2>2, <2>3 DEF OnceInv, Once, NotYetRun
<1>34. ASSUME NEW a \in Threads, WakeCas(a) PROVE OnceInv'
  <2>1. Roles'
    BY <1>34 DEF WakeCas, GoTo, Roles, TypeThread
  <2>2. ASSUME NEW u \in Tasks PROVE Exclusive(u)'
    BY <1>34, <2>2
    DEF WakeCas, GoTo, Exclusive, Unheld, Reviving, Roles, TypeTask,
        TypeThread
  <2>3. ASSUME NEW u \in Tasks PROVE Untouched(u)'
    BY <1>34, <2>3
    DEF WakeCas, GoTo, Unheld, Reviving, Roles, NotYetRun, Untouched,
        TypeTask, TypeThread
  <2> QED
    BY <2>1, <2>2, <2>3 DEF OnceInv, Once, NotYetRun
<1>35. ASSUME NEW a \in Threads, WakeStore(a) PROVE OnceInv'
  <2>1. Roles'
    BY <1>35 DEF WakeStore, GoTo, Roles
  <2>2. ASSUME NEW u \in Tasks PROVE Exclusive(u)'
    BY <1>35, <2>2 DEF WakeStore, GoTo, Exclusive, Unheld, Reviving
  <2>3. ASSUME NEW u \in Tasks PROVE Untouched(u)'
    BY <1>35, <2>3 DEF WakeStore, GoTo, Unheld, Reviving, NotYetRun, Untouched
  <2> QED
    BY <2>1, <2>2, <2>3 DEF OnceInv, Once, NotYetRun
<1>36. ASSUME NEW a \in Threads, WakeSchedule(a) PROVE OnceInv'
  <2>1. Roles'
    BY <1>36 DEF WakeSchedule, GoTo, Roles
  <2>2. ASSUME NEW u \in Tasks PROVE Exclusive(u)'
    BY <1>36, <2>2
    DEF WakeSchedule, GoTo, Exclusive, Unheld, Reviving, Roles, TypeThread
  <2>3. ASSUME NEW u \in Tasks PROVE Untouched(u)'
    BY <1>36, <2>3
    DEF WakeSchedule, GoTo, Unheld, Reviving, NotYetRun, Untouched
  <2> QED
    BY <2>1, <2>2, <2>3 DEF OnceInv, Once, NotYetRun
<1>37. ASSUME NEW a \in Threads, Unpin(a) PROVE OnceInv'
  <2>1. Roles'
    BY <1>37 DEF Unpin, GoTo, Roles, TypeThread
  <2>2. ASSUME NEW u \in Tasks PROVE Exclusive(u)'
    BY <1>37, <2>2
    DEF Unpin, GoTo, Exclusive, Unheld, Reviving, DepIsTask, TypeThread
  <2>3. ASSUME NEW u \in Tasks PROVE Untouched(u)'
    <3>1. ASSUME NEW b \in Threads, Reviving(b, u)' PROVE Reviving(b, u)
      <4>1. CASE b = a
        BY <1>37, <3>1, <4>1 DEF Unpin, GoTo, Reviving, TypeThread
      <4>2. CASE b # a
        BY <1>37, <3>1, <4>2 DEF Unpin, GoTo, Reviving, TypeThread
      <4> QED
        BY <4>1, <4>2
    <3>2. UNCHANGED <<taskVars, runVars>>
      BY <1>37 DEF Unpin
    <3> QED
      BY <3>1, <3>2 DEF NotYetRun, Untouched, Unheld
  <2> QED
    BY <2>1, <2>2, <2>3 DEF OnceInv, Once, NotYetRun
<1>38. ASSUME Stop PROVE OnceInv'
  <2>1. Roles'
    BY <1>38 DEF Stop, GoTo, Roles
  <2>2. ASSUME NEW u \in Tasks PROVE Exclusive(u)'
    BY <1>38, <2>2 DEF Stop, GoTo, Exclusive, Unheld, Reviving
  <2>3. ASSUME NEW u \in Tasks PROVE Untouched(u)'
    BY <1>38, <2>3 DEF Stop, GoTo, Unheld, Reviving, NotYetRun, Untouched
  <2> QED
    BY <2>1, <2>2, <2>3 DEF OnceInv, Once, NotYetRun
<1>39. ASSUME StopScan PROVE OnceInv'
  <2>1. Roles'
    BY <1>39 DEF StopScan, GoTo, Pin, Roles, TypeThread
  <2>2. ASSUME NEW u \in Tasks PROVE Exclusive(u)'
    BY <1>39, <2>2
    DEF StopScan, GoTo, Pin, Exclusive, Unheld, Reviving, TypeThread
  <2>3. ASSUME NEW u \in Tasks PROVE Untouched(u)'
    BY <1>39, <2>3
    DEF StopScan, GoTo, Pin, Unheld, Reviving, NotYetRun, Untouched,
        TypeThread
  <2> QED
    BY <2>1, <2>2, <2>3 DEF OnceInv, Once, NotYetRun
<1>40. ASSUME Stopped PROVE OnceInv'
  BY <1>40, OnceSame DEF Stopped, vars
<1>50. CASE UNCHANGED vars
  BY <1>50, OnceSame DEF vars
<1> QED
  BY <1>1, <1>2, <1>3, <1>4, <1>5, <1>6, <1>7, <1>8, <1>9, <1>10, <1>11,
     <1>12, <1>13, <1>14, <1>15, <1>16, <1>17, <1>18, <1>19, <1>20, <1>21,
     <1>22, <1>23, <1>24, <1>25, <1>26, <1>27, <1>28, <1>29, <1>30, <1>31,
     <1>32, <1>33, <1>34, <1>35, <1>36, <1>37, <1>38, <1>39, <1>40, <1>50
  DEF Next, Spawning, Body, HookStep, SlabStep, ReapStep

\* What the state predicates of a reachable state are, for the proofs to come.
LEMMA OnceInvariant == Spec => [](TypeInv /\ OnceInv)
  BY TypeInit, TypeStep, OnceInit, OnceStep, PTL DEF Spec

\* Counting the holders of a task: a set of at most one has cardinality 0 or 1.
LEMMA AtMostOne ==
    ASSUME NEW S, \A x, y \in S : x = y
    PROVE  /\ Cardinality(S) \in {0, 1}
           /\ S = {} => Cardinality(S) = 0
<1>1. CASE S = {}
  BY <1>1, FS_EmptySet
<1>2. CASE S # {}
  <2>1. PICK x \in S : TRUE
    BY <1>2
  <2>2. S = {x}
    BY <2>1
  <2> QED
    BY <2>2, FS_Singleton
<1> QED
  BY <1>1, <1>2

\* Holders that exclude each other add up to one, or to none while Parked.
LEMMA OnceCounted == TypeInv /\ OnceInv => ScheduledOnce
<1> SUFFICES ASSUME TypeInv, OnceInv, NEW t \in Tasks
             PROVE  LET runners  == {w \in Workers : cur[w] = t}
                        leavers  == {w \in Workers : dep[w].task = t}
                        revivers == {a \in Threads : Reviving(a, t)}
                    IN  ready[t] + Cardinality(runners) + Cardinality(leavers)
                          + Cardinality(revivers)
                          <= IF parkState[t] = "Parked" THEN 0 ELSE 1
  BY DEF ScheduledOnce
<1> DEFINE runners  == {w \in Workers : cur[w] = t}
           leavers  == {w \in Workers : dep[w].task = t}
           revivers == {a \in Threads : Reviving(a, t)}
<1>1. Exclusive(t)
  BY DEF OnceInv, Once
<1>2. /\ Cardinality(runners) \in {0, 1}
      /\ runners = {} => Cardinality(runners) = 0
  <2>1. \A x, y \in runners : x = y
    BY <1>1 DEF Exclusive
  <2> QED
    BY <2>1, AtMostOne
<1>3. /\ Cardinality(leavers) \in {0, 1}
      /\ leavers = {} => Cardinality(leavers) = 0
  <2>1. \A x, y \in leavers : x = y
    BY <1>1 DEF Exclusive
  <2> QED
    BY <2>1, AtMostOne
<1>4. /\ Cardinality(revivers) \in {0, 1}
      /\ revivers = {} => Cardinality(revivers) = 0
  <2>1. \A x, y \in revivers : x = y
    BY <1>1 DEF Exclusive
  <2> QED
    BY <2>1, AtMostOne
<1>5. /\ ready[t] \in {0, 1}
      /\ ready[t] = 1 => runners = {} /\ leavers = {} /\ revivers = {}
  BY <1>1 DEF Exclusive
<1>6. /\ runners # {} => leavers = {} /\ revivers = {}
      /\ leavers # {} => revivers = {}
  BY <1>1 DEF Exclusive
<1>7. parkState[t] = "Parked" =>
        ready[t] = 0 /\ runners = {} /\ leavers = {} /\ revivers = {}
  BY <1>1 DEF Exclusive, Unheld
<1> HIDE DEF runners, leavers, revivers
<1>8. ready[t] + Cardinality(runners) + Cardinality(leavers)
        + Cardinality(revivers) <= IF parkState[t] = "Parked" THEN 0 ELSE 1
  BY <1>2, <1>3, <1>4, <1>5, <1>6, <1>7
<1> QED
  BY <1>8 DEF runners, leavers, revivers

\* ScheduledOnce for every instance: wake(), onTaskParked(), onTaskYielded(),
\* spawn() and reapParkedTasks() between them never schedule a task twice.
THEOREM ResumedOnce == Spec => []ScheduledOnce
  BY OnceInvariant, OnceCounted, PTL

-----------------------------------------------------------------------------
(* No Task pointer outlives its task.                                      *)

\* The slab is empty to begin with.
LEMMA FreeInit == Init => FreeInv
  BY ConstantsAreDistinct DEF Init, FreeInv, SlabIsLive, Pinned, FreedIsGone,
     ExitedIsIdle, Threads, NoDep

\* SlabIsLive is about these variables only.
LEMMA SameSlabIsLive ==
    SlabIsLive /\ UNCHANGED <<slotTask, slotOf, life, dep>> => SlabIsLive'
  BY DEF SlabIsLive

\* The same for Pinned.
LEMMA SamePinned ==
    Pinned /\ UNCHANGED <<pc, at, pins, ptr, life, slotOf>> => Pinned'
  BY DEF Pinned

\* The same for FreedIsGone.
LEMMA SameFreed ==
    FreedIsGone /\ UNCHANGED <<life, ready, cur, dep>> => FreedIsGone'
  BY DEF FreedIsGone

\* The same for ExitedIsIdle.
LEMMA SameExited ==
    ExitedIsIdle /\ UNCHANGED <<pc, cur, dep>> => ExitedIsIdle'
  BY DEF ExitedIsIdle

\* Every step keeps pointers pinned and the slab free of released tasks.
LEMMA FreeStep == TypeInv /\ OnceInv /\ FreeInv /\ [Next]_vars => FreeInv'
<1> SUFFICES ASSUME TypeInv, OnceInv, FreeInv, [Next]_vars PROVE FreeInv'
  OBVIOUS
<1>a. /\ TypeTask /\ TypeSlab /\ TypeRun /\ TypeThread /\ AtASlot /\ DepIsTask
      /\ Roles /\ NotYetRun /\ \A t \in Tasks : Exclusive(t)
      /\ SlabIsLive /\ Pinned /\ FreedIsGone /\ ExitedIsIdle
  BY DEF TypeInv, TypeOK, OnceInv, Once, FreeInv
<1> USE <1>a, ConstantsAreDistinct
<1> USE DEF Threads
<1>1. ASSUME NEW t \in Tasks, SpawnCreate(t) PROVE FreeInv'
  <2>1. SlabIsLive'
    BY <1>1 DEF SpawnCreate, SlabIsLive
  <2>2. Pinned'
    BY <1>1 DEF SpawnCreate, Pinned
  <2>3. FreedIsGone'
    BY <1>1 DEF SpawnCreate, FreedIsGone
  <2> QED
    BY <2>1, <2>2, <2>3, <1>1, SameExited DEF FreeInv, SpawnCreate
<1>2. ASSUME NEW t \in Tasks, SpawnFail(t) PROVE FreeInv'
  <2>1. SlabIsLive'
    BY <1>2 DEF SpawnFail, SlabIsLive
  <2>2. Pinned'
    BY <1>2 DEF SpawnFail, Pinned
  <2>3. FreedIsGone'
    BY <1>2 DEF SpawnFail, FreedIsGone
  <2> QED
    BY <2>1, <2>2, <2>3, <1>2, SameExited DEF FreeInv, SpawnFail
<1>3. ASSUME NEW t \in Tasks, SpawnPublish(t) PROVE FreeInv'
  <2>1. SlabIsLive'
    BY <1>3
    DEF SpawnPublish, SlabIsLive, TypeTask, NotYetRun, Untouched, Unheld
  <2>2. Pinned'
    BY <1>3 DEF SpawnPublish, Pinned
  <2>3. FreedIsGone'
    BY <1>3 DEF SpawnPublish, FreedIsGone
  <2> QED
    BY <2>1, <2>2, <2>3, <1>3, SameExited DEF FreeInv, SpawnPublish
<1>4. ASSUME NEW t \in Tasks, SpawnSchedule(t) PROVE FreeInv'
  <2>1. SlabIsLive'
    BY <1>4 DEF SpawnSchedule, SlabIsLive
  <2>2. Pinned'
    BY <1>4 DEF SpawnSchedule, Pinned
  <2>3. FreedIsGone'
    BY <1>4 DEF SpawnSchedule, FreedIsGone
  <2> QED
    BY <2>1, <2>2, <2>3, <1>4, SameExited DEF FreeInv, SpawnSchedule
<1>5. ASSUME NEW t \in Tasks, Destroy(t) PROVE FreeInv'
  <2>1. SlabIsLive'
    BY <1>5 DEF Destroy, SlabIsLive, TypeSlab
  <2>2. Pinned'
    BY <1>5 DEF Destroy, Pinned
  <2>3. FreedIsGone'
    BY <1>5 DEF Destroy, FreedIsGone, ExitedIsIdle, TypeTask, NoDep
  <2> QED
    BY <2>1, <2>2, <2>3, <1>5, SameExited DEF FreeInv, Destroy
<1>6. ASSUME NEW w \in Workers, Dispatch(w) PROVE FreeInv'
  <2>1. FreedIsGone'
    BY <1>6 DEF Dispatch, Arrive, FreedIsGone
  <2>2. ExitedIsIdle'
    BY <1>6 DEF Dispatch, Arrive, ExitedIsIdle
  <2> QED
    BY <2>1, <2>2, <1>6, SameSlabIsLive, SamePinned DEF FreeInv, Dispatch
<1>7. ASSUME NEW w \in Workers, NEW t \in Tasks, Yield(w, t) PROVE FreeInv'
  <2>1. SlabIsLive'
    BY <1>7 DEF Yield, SwitchAway, Arrive, SlabIsLive
  <2>2. FreedIsGone'
    BY <1>7 DEF Yield, SwitchAway, Arrive, OnCpu, FreedIsGone
  <2>3. ExitedIsIdle'
    BY <1>7 DEF Yield, SwitchAway, Arrive, OnCpu, ExitedIsIdle
  <2> QED
    BY <2>1, <2>2, <2>3, <1>7, SamePinned DEF FreeInv, Yield
<1>8. ASSUME NEW w \in Workers, NEW t \in Tasks, ParkConsume(w, t) PROVE FreeInv'
  BY <1>8, SameSlabIsLive, SamePinned, SameFreed, SameExited
  DEF FreeInv, ParkConsume
<1>9. ASSUME NEW w \in Workers, NEW t \in Tasks, Park(w, t) PROVE FreeInv'
  <2>1. SlabIsLive'
    BY <1>9 DEF Park, SwitchAway, Arrive, SlabIsLive
  <2>2. FreedIsGone'
    BY <1>9 DEF Park, SwitchAway, Arrive, OnCpu, FreedIsGone
  <2>3. ExitedIsIdle'
    BY <1>9 DEF Park, SwitchAway, Arrive, OnCpu, ExitedIsIdle
  <2> QED
    BY <2>1, <2>2, <2>3, <1>9, SamePinned DEF FreeInv, Park
<1>10. ASSUME NEW w \in Workers, NEW t \in Tasks, Finish(w, t) PROVE FreeInv'
  <2>1. SlabIsLive'
    BY <1>10 DEF Finish, SwitchAway, Arrive, SlabIsLive
  <2>2. FreedIsGone'
    BY <1>10 DEF Finish, SwitchAway, Arrive, OnCpu, FreedIsGone
  <2>3. ExitedIsIdle'
    BY <1>10 DEF Finish, SwitchAway, Arrive, OnCpu, ExitedIsIdle
  <2> QED
    BY <2>1, <2>2, <2>3, <1>10, SamePinned DEF FreeInv, Finish
<1>11. ASSUME NEW w \in Workers, NEW t \in Tasks, ToggleShield(w, t) PROVE FreeInv'
  BY <1>11, SameSlabIsLive, SamePinned, SameFreed, SameExited
  DEF FreeInv, ToggleShield
<1>12. ASSUME NEW w \in Workers, HookYield(w) PROVE FreeInv'
  <2>1. SlabIsLive'
    BY <1>12 DEF HookYield, Departed, SlabIsLive, NoDep
  <2>2. FreedIsGone'
    BY <1>12 DEF HookYield, Departed, FreedIsGone, NoDep
  <2>3. ExitedIsIdle'
    BY <1>12 DEF HookYield, Departed, ExitedIsIdle
  <2> QED
    BY <2>1, <2>2, <2>3, <1>12, SamePinned DEF FreeInv, HookYield
<1>13. ASSUME NEW w \in Workers, HookPark(w) PROVE FreeInv'
  <2>1. SlabIsLive'
    <3>1. UNCHANGED <<life, ready, slotOf, slotTask, cur>>
      BY <1>13 DEF HookPark
    <3>2. \/ dep' = [dep EXCEPT ![w] = NoDep]
          \/ dep' = [dep EXCEPT ![w].hook = "resched"]
      BY <1>13 DEF HookPark, SetHook
    <3>3. \A v \in Workers \ {w} : dep'[v] = dep[v]
      BY <3>2 DEF TypeRun
    <3>4. \/ dep'[w].task = NoTask
          \/ dep'[w].task = dep[w].task /\ dep'[w].hook = "resched"
      BY <3>2 DEF TypeRun, NoDep
    <3> QED
      BY <3>1, <3>3, <3>4 DEF SlabIsLive, TypeRun
  <2>2. FreedIsGone'
    <3>1. UNCHANGED <<life, ready, slotOf, slotTask, cur>>
      BY <1>13 DEF HookPark
    <3>2. \/ dep' = [dep EXCEPT ![w] = NoDep]
          \/ dep' = [dep EXCEPT ![w].hook = "resched"]
      BY <1>13 DEF HookPark, SetHook
    <3>3. \A v \in Workers \ {w} : dep'[v] = dep[v]
      BY <3>2 DEF TypeRun
    <3>4. \/ dep'[w].task = NoTask
          \/ dep'[w].task = dep[w].task /\ dep'[w].hook = "resched"
      BY <3>2 DEF TypeRun, NoDep
    <3> QED
      BY <1>13, <3>1, <3>3, <3>4 DEF HookPark, Departed, FreedIsGone, TypeRun
  <2>3. ExitedIsIdle'
    BY <1>13 DEF HookPark, Departed, SetHook, ExitedIsIdle, TypeRun, NoDep
  <2> QED
    BY <2>1, <2>2, <2>3, <1>13, SamePinned DEF FreeInv, HookPark
<1>14. ASSUME NEW w \in Workers, HookResched(w) PROVE FreeInv'
  <2>1. SlabIsLive'
    BY <1>14 DEF HookResched, Departed, SetHook, SlabIsLive
  <2>2. FreedIsGone'
    BY <1>14 DEF HookResched, Departed, SetHook, FreedIsGone
  <2>3. ExitedIsIdle'
    BY <1>14 DEF HookResched, Departed, SetHook, ExitedIsIdle, NoDep
  <2> QED
    BY <2>1, <2>2, <2>3, <1>14, SamePinned DEF FreeInv, HookResched
<1>15. ASSUME NEW w \in Workers, HookSchedule(w) PROVE FreeInv'
  <2>1. SlabIsLive'
    BY <1>15 DEF HookSchedule, Departed, SlabIsLive, NoDep
  <2>2. FreedIsGone'
    BY <1>15 DEF HookSchedule, Departed, FreedIsGone, NoDep
  <2>3. ExitedIsIdle'
    BY <1>15 DEF HookSchedule, Departed, ExitedIsIdle
  <2> QED
    BY <2>1, <2>2, <2>3, <1>15, SamePinned DEF FreeInv, HookSchedule
<1>16. ASSUME NEW w \in Workers, ReleaseDone(w) PROVE FreeInv'
  <2>1. SlabIsLive'
    BY <1>16 DEF ReleaseDone, Departed, SetHook, SlabIsLive
  <2>2. FreedIsGone'
    BY <1>16 DEF ReleaseDone, Departed, SetHook, FreedIsGone
  <2>3. ExitedIsIdle'
    BY <1>16 DEF ReleaseDone, Departed, SetHook, ExitedIsIdle, NoDep
  <2> QED
    BY <2>1, <2>2, <2>3, <1>16, SamePinned DEF FreeInv, ReleaseDone
<1>17. ASSUME NEW w \in Workers, ReleaseUnslot(w) PROVE FreeInv'
  <2>1. SlabIsLive'
    BY <1>17 DEF ReleaseUnslot, Departed, SetHook, SlabIsLive, TypeSlab
  <2>2. FreedIsGone'
    BY <1>17 DEF ReleaseUnslot, Departed, SetHook, FreedIsGone
  <2>3. ExitedIsIdle'
    BY <1>17 DEF ReleaseUnslot, Departed, SetHook, ExitedIsIdle, NoDep
  <2> QED
    BY <2>1, <2>2, <2>3, <1>17, SamePinned DEF FreeInv, ReleaseUnslot
<1>18. ASSUME NEW w \in Workers, ReleaseBumpGen(w) PROVE FreeInv'
  <2>1. SlabIsLive'
    BY <1>18 DEF ReleaseBumpGen, Departed, SetHook, SlabIsLive
  <2>2. FreedIsGone'
    BY <1>18 DEF ReleaseBumpGen, Departed, SetHook, FreedIsGone
  <2>3. ExitedIsIdle'
    BY <1>18 DEF ReleaseBumpGen, Departed, SetHook, ExitedIsIdle, NoDep
  <2> QED
    BY <2>1, <2>2, <2>3, <1>18, SamePinned DEF FreeInv, ReleaseBumpGen
<1>19. ASSUME NEW w \in Workers, ReleaseFree(w) PROVE FreeInv'
  <2>1. SlabIsLive'
    BY <1>19 DEF ReleaseFree, Departed, SetHook, SlabIsLive
  <2>2. Pinned'
    BY <1>19
    DEF ReleaseFree, Departed, SetHook, Pinned, TypeTask, TypeSlab,
        Exclusive, Reviving
  <2>3. FreedIsGone'
    BY <1>19
    DEF ReleaseFree, Departed, SetHook, FreedIsGone, TypeRun, Exclusive
  <2>4. ExitedIsIdle'
    BY <1>19 DEF ReleaseFree, Departed, SetHook, ExitedIsIdle, NoDep
  <2> QED
    BY <2>1, <2>2, <2>3, <2>4 DEF FreeInv
<1>20. ASSUME NEW w \in Workers, ReleasePutSlot(w) PROVE FreeInv'
  <2>1. SlabIsLive'
    BY <1>20 DEF ReleasePutSlot, Departed, SlabIsLive, NoDep
  <2>2. FreedIsGone'
    BY <1>20 DEF ReleasePutSlot, Departed, FreedIsGone, NoDep
  <2>3. ExitedIsIdle'
    BY <1>20 DEF ReleasePutSlot, Departed, ExitedIsIdle
  <2> QED
    BY <2>1, <2>2, <2>3, <1>20, SamePinned DEF FreeInv, ReleasePutSlot
<1>21. ASSUME NEW w \in Workers, ReapBegin(w) PROVE FreeInv'
  <2>1. Pinned'
    BY <1>21 DEF ReapBegin, GoTo, Pinned
  <2>2. ExitedIsIdle'
    BY <1>21 DEF ReapBegin, GoTo, ExitedIsIdle
  <2> QED
    BY <2>1, <2>2, <1>21, SameSlabIsLive, SameFreed DEF FreeInv, ReapBegin
<1>22. ASSUME NEW w \in Workers, ReapScan(w) PROVE FreeInv'
  <2>1. Pinned'
    <3>1. CASE at[w] < MaxTasks
      <4>1. /\ pins' = [pins EXCEPT ![at[w]] = @ \cup {w}]
            /\ pc' = [pc EXCEPT ![w] = "load"]
            /\ at[w] \in Slots /\ UNCHANGED <<at, ptr, life, slotOf>>
        BY <1>22, <3>1, MaxTasksPositive
        DEF ReapScan, Pin, GoTo, TypeThread, Slots
      <4> QED
        BY <1>22, <4>1
        DEF ReapScan, Pinned, TypeSlab, TypeThread, TypeTask, AtASlot,
            InSlab
    <3>2. CASE at[w] = MaxTasks
      BY <1>22, <3>2, MaxTasksPositive DEF ReapScan, GoTo, Pinned, TypeThread
    <3> QED
      BY <1>22, <3>1, <3>2 DEF ReapScan
  <2>2. ExitedIsIdle'
    BY <1>22 DEF ReapScan, GoTo, Pin, ExitedIsIdle, TypeThread
  <2> QED
    BY <2>1, <2>2, <1>22, SameSlabIsLive, SameFreed DEF FreeInv, ReapScan
<1>23. ASSUME NEW w \in Workers, ReapClaim(w) PROVE FreeInv'
  <2>1. Pinned'
    BY <1>23 DEF ReapClaim, GoTo, Pinned, TypeThread
  <2>2. ExitedIsIdle'
    BY <1>23 DEF ReapClaim, GoTo, ExitedIsIdle
  <2> QED
    BY <2>1, <2>2, <1>23, SameSlabIsLive, SameFreed DEF FreeInv, ReapClaim
<1>24. ASSUME NEW w \in Workers, ReapPutBack(w) PROVE FreeInv'
  <2>1. Pinned'
    <3>1. \/ UNCHANGED ptr /\ pc' = [pc EXCEPT ![w] = "reResched"]
          \/ ptr' = [ptr EXCEPT ![w] = NoTask] /\ pc' = [pc EXCEPT ![w] = "scan"]
      BY <1>24 DEF ReapPutBack, GoTo, NextSlot
    <3>2. pc[w] = "shield" /\ UNCHANGED <<life, slotOf, pins>>
      BY <1>24 DEF ReapPutBack
    <3>3. \A a \in Threads : pc'[a] \in {"gen", "load"} =>
             pc[a] \in {"gen", "load"} /\ at'[a] = at[a]
      BY <1>24 DEF ReapPutBack, GoTo, NextSlot, TypeThread
    <3> QED
      BY <3>1, <3>2, <3>3 DEF Pinned, TypeThread
  <2>2. ExitedIsIdle'
    BY <1>24 DEF ReapPutBack, GoTo, NextSlot, ExitedIsIdle, TypeThread
  <2> QED
    BY <2>1, <2>2, <1>24, SameSlabIsLive, SameFreed DEF FreeInv, ReapPutBack
<1>25. ASSUME NEW w \in Workers, ReapResched(w) PROVE FreeInv'
  <2>1. Pinned'
    BY <1>25 DEF ReapResched, GoTo, Pinned
  <2>2. ExitedIsIdle'
    BY <1>25 DEF ReapResched, GoTo, ExitedIsIdle
  <2> QED
    BY <2>1, <2>2, <1>25, SameSlabIsLive, SameFreed DEF FreeInv, ReapResched
<1>26. ASSUME NEW w \in Workers, ReapSchedule(w) PROVE FreeInv'
  <2>1. Pinned'
    BY <1>26 DEF ReapSchedule, GoTo, NextSlot, Pinned, TypeThread
  <2>2. FreedIsGone'
    BY <1>26 DEF ReapSchedule, NextSlot, FreedIsGone, Pinned
  <2>3. ExitedIsIdle'
    BY <1>26 DEF ReapSchedule, GoTo, NextSlot, ExitedIsIdle
  <2> QED
    BY <2>1, <2>2, <2>3, <1>26, SameSlabIsLive DEF FreeInv, ReapSchedule
<1>27. ASSUME NEW w \in Workers, ReapUnwind(w) PROVE FreeInv'
  <2>1. Pinned'
    BY <1>27 DEF ReapUnwind, GoTo, NextSlot, Pinned, TypeThread
  <2>2. FreedIsGone'
    BY <1>27
    DEF ReapUnwind, NextSlot, FreedIsGone, Pinned, Unheld, NotYetRun,
        Untouched
  <2>3. ExitedIsIdle'
    BY <1>27 DEF ReapUnwind, GoTo, NextSlot, ExitedIsIdle
  <2> QED
    BY <2>1, <2>2, <2>3, <1>27, SameSlabIsLive DEF FreeInv, ReapUnwind
<1>28. ASSUME NEW w \in Workers, WorkerExit(w) PROVE FreeInv'
  <2>1. Pinned'
    BY <1>28 DEF WorkerExit, GoTo, Pinned
  <2>2. ExitedIsIdle'
    BY <1>28 DEF WorkerExit, GoTo, ExitedIsIdle
  <2> QED
    BY <2>1, <2>2, <1>28, SameSlabIsLive, SameFreed DEF FreeInv, WorkerExit
<1>29. ASSUME NEW a \in Wakers, NEW t \in Tasks, WakeBegin(a, t) PROVE FreeInv'
  <2>1. Pinned'
    BY <1>29 DEF WakeBegin, GoTo, Pin, Pinned, TypeTask, TypeSlab, TypeThread
  <2>2. ExitedIsIdle'
    BY <1>29 DEF WakeBegin, GoTo, Pin, ExitedIsIdle
  <2> QED
    BY <2>1, <2>2, <1>29, SameSlabIsLive, SameFreed DEF FreeInv, WakeBegin
<1>30. ASSUME NEW a \in Wakers, NEW s \in Slots, VisitBegin(a, s) PROVE FreeInv'
  <2>1. Pinned'
    BY <1>30 DEF VisitBegin, GoTo, Pin, Pinned, TypeSlab, TypeThread
  <2>2. ExitedIsIdle'
    BY <1>30 DEF VisitBegin, GoTo, Pin, ExitedIsIdle
  <2> QED
    BY <2>1, <2>2, <1>30, SameSlabIsLive, SameFreed DEF FreeInv, VisitBegin
<1>31. ASSUME NEW a \in Threads, WakeCheckGeneration(a) PROVE FreeInv'
  <2>1. Pinned'
    BY <1>31 DEF WakeCheckGeneration, GoTo, Pinned
  <2>2. ExitedIsIdle'
    BY <1>31 DEF WakeCheckGeneration, GoTo, ExitedIsIdle
  <2> QED
    BY <2>1, <2>2, <1>31, SameSlabIsLive, SameFreed
    DEF FreeInv, WakeCheckGeneration
<1>32. ASSUME NEW a \in Threads, LoadTask(a) PROVE FreeInv'
  <2>1. Pinned'
    BY <1>32
    DEF LoadTask, GoTo, AfterLoad, Pinned, SlabIsLive, TypeSlab,
        TypeThread, AtASlot, InSlab
  <2>2. ExitedIsIdle'
    BY <1>32 DEF LoadTask, GoTo, AfterLoad, ExitedIsIdle
  <2> QED
    BY <2>1, <2>2, <1>32, SameSlabIsLive, SameFreed DEF FreeInv, LoadTask
<1>33. ASSUME NEW a \in Threads, VisitRead(a) PROVE FreeInv'
  <2>1. Pinned'
    BY <1>33 DEF VisitRead, GoTo, Pinned
  <2>2. ExitedIsIdle'
    BY <1>33 DEF VisitRead, GoTo, ExitedIsIdle
  <2> QED
    BY <2>1, <2>2, <1>33, SameSlabIsLive, SameFreed DEF FreeInv, VisitRead
<1>34. ASSUME NEW a \in Threads, WakeCas(a) PROVE FreeInv'
  <2>1. Pinned'
    BY <1>34 DEF WakeCas, GoTo, Pinned, TypeThread
  <2>2. ExitedIsIdle'
    BY <1>34 DEF WakeCas, GoTo, ExitedIsIdle, TypeThread
  <2> QED
    BY <2>1, <2>2, <1>34, SameSlabIsLive, SameFreed DEF FreeInv, WakeCas
<1>35. ASSUME NEW a \in Threads, WakeStore(a) PROVE FreeInv'
  <2>1. Pinned'
    BY <1>35 DEF WakeStore, GoTo, Pinned
  <2>2. ExitedIsIdle'
    BY <1>35 DEF WakeStore, GoTo, ExitedIsIdle
  <2> QED
    BY <2>1, <2>2, <1>35, SameSlabIsLive, SameFreed DEF FreeInv, WakeStore
<1>36. ASSUME NEW a \in Threads, WakeSchedule(a) PROVE FreeInv'
  <2>1. Pinned'
    BY <1>36 DEF WakeSchedule, GoTo, Pinned
  <2>2. FreedIsGone'
    BY <1>36 DEF WakeSchedule, FreedIsGone, Pinned, NotYetRun
  <2>3. ExitedIsIdle'
    BY <1>36 DEF WakeSchedule, GoTo, ExitedIsIdle
  <2> QED
    BY <2>1, <2>2, <2>3, <1>36, SameSlabIsLive DEF FreeInv, WakeSchedule
<1>37. ASSUME NEW a \in Threads, Unpin(a) PROVE FreeInv'
  <2>1. Pinned'
    BY <1>37 DEF Unpin, GoTo, Pinned, TypeThread
  <2>2. ExitedIsIdle'
    BY <1>37 DEF Unpin, GoTo, ExitedIsIdle, TypeThread
  <2> QED
    BY <2>1, <2>2, <1>37, SameSlabIsLive, SameFreed DEF FreeInv, Unpin
<1>38. ASSUME Stop PROVE FreeInv'
  <2>1. Pinned'
    BY <1>38 DEF Stop, GoTo, Pinned
  <2>2. ExitedIsIdle'
    BY <1>38 DEF Stop, GoTo, ExitedIsIdle
  <2> QED
    BY <2>1, <2>2, <1>38, SameSlabIsLive, SameFreed DEF FreeInv, Stop
<1>39. ASSUME StopScan PROVE FreeInv'
  <2>1. Pinned'
    <3>1. CASE at[Stopper] < MaxTasks
      <4>1. /\ pins' = [pins EXCEPT ![at[Stopper]] = @ \cup {Stopper}]
            /\ pc' = [pc EXCEPT ![Stopper] = "load"]
            /\ at[Stopper] \in Slots /\ UNCHANGED <<at, ptr, life, slotOf>>
        BY <1>39, <3>1, MaxTasksPositive
        DEF StopScan, Pin, GoTo, TypeThread, Slots
      <4> QED
        BY <1>39, <4>1
        DEF StopScan, Pinned, TypeSlab, TypeThread, TypeTask, AtASlot,
            InSlab
    <3>2. CASE at[Stopper] = MaxTasks
      BY <1>39, <3>2, MaxTasksPositive DEF StopScan, GoTo, Pinned, TypeThread
    <3> QED
      BY <1>39, <3>1, <3>2 DEF StopScan
  <2>2. ExitedIsIdle'
    BY <1>39 DEF StopScan, GoTo, Pin, ExitedIsIdle, TypeThread
  <2> QED
    BY <2>1, <2>2, <1>39, SameSlabIsLive, SameFreed DEF FreeInv, StopScan
<1>40. ASSUME Stopped PROVE FreeInv'
  BY <1>40, SameSlabIsLive, SamePinned, SameFreed, SameExited
  DEF FreeInv, Stopped, vars
<1>50. CASE UNCHANGED vars
  BY <1>50, SameSlabIsLive, SamePinned, SameFreed, SameExited
  DEF vars, FreeInv
<1> QED
  BY <1>1, <1>2, <1>3, <1>4, <1>5, <1>6, <1>7, <1>8, <1>9, <1>10, <1>11,
     <1>12, <1>13, <1>14, <1>15, <1>16, <1>17, <1>18, <1>19, <1>20, <1>21,
     <1>22, <1>23, <1>24, <1>25, <1>26, <1>27, <1>28, <1>29, <1>30, <1>31,
     <1>32, <1>33, <1>34, <1>35, <1>36, <1>37, <1>38, <1>39, <1>40, <1>50
  DEF Next, Spawning, Body, HookStep, SlabStep, ReapStep

\* The three parts together are invariant.
LEMMA FreeInvariant == Spec => [](TypeInv /\ OnceInv /\ FreeInv)
  BY OnceInvariant, FreeInit, FreeStep, PTL DEF Spec

\* NoUseAfterFree for every instance: releaseTask() waits out the pins of
\* WakeToken::wake(), forEachTask(), wakeAllParked() and reapParkedTasks().
THEOREM PointersOutlived == Spec => []NoUseAfterFree
<1>1. FreeInv => NoUseAfterFree
  <2> SUFFICES ASSUME FreeInv PROVE NoUseAfterFree
    OBVIOUS
  <2>1. \A a \in Threads : ptr[a] # NoTask => life[ptr[a]] # "freed"
    BY DEF FreeInv, Pinned
  <2>2. \A t \in Tasks : life[t] = "freed" =>
           ready[t] = 0 /\ \A w \in Workers : cur[w] # t
    BY DEF FreeInv, FreedIsGone
  <2> QED
    BY <2>1, <2>2 DEF NoUseAfterFree
<1> QED
  BY <1>1, FreeInvariant, PTL

USE DEF taskVars, slabVars, runVars, stopVars, slabPcVars, history

-----------------------------------------------------------------------------
(* The slot of a task.                                                     *)

Leaving(t, hooks) == \E w \in Workers : dep[w].task = t /\ dep[w].hook \in hooks

\* releaseTask() from the Done store on.
Releasing == {"unslot", "bumpGen", "awaitPins", "putSlot"}

\* From createTask() to the end of releaseTask(), or to a failed creation.
HasSlot(t) ==
    life[t] \in {"created", "published", "live"} \/ Leaving(t, {"putSlot"})

\* The slot has a new generation.
Bumped(t) == life[t] = "freed" \/ Leaving(t, {"awaitPins", "putSlot"})

\* A slot is free or has one owner.
SlotOwned ==
    \A t \in Tasks : HasSlot(t) =>
        /\ slotOf[t] \notin freeSlots
        /\ \A u \in Tasks : HasSlot(u) /\ slotOf[u] = slotOf[t] => u = t

\* releaseTask() stores Done first and frees before it puts the slot back.
ReleasedIsDone ==
    /\ \A t \in Tasks : life[t] = "freed" => parkState[t] = "Done"
    /\ \A w \in Workers :
         /\ dep[w].hook \in Releasing => parkState[dep[w].task] = "Done"
         /\ dep[w].hook = "putSlot" => life[dep[w].task] = "freed"

\* Done is final: whoever could store to parkState again is gone.
DoneIsLast ==
    \A t \in Tasks : parkState[t] = "Done" =>
        /\ life[t] \in {"live", "freed"}
        /\ ready[t] = 0
        /\ \A w \in Workers : /\ cur[w] # t
                              /\ dep[w].task = t => dep[w].hook \in Releasing
        /\ \A a \in Threads : ~Reviving(a, t)

\* A task is found through its slot until releaseTask() takes it out.
InItsSlot ==
    \A t \in Tasks : life[t] \in {"published", "live"} /\ parkState[t] # "Done" =>
        slotTask[slotOf[t]] = t

\* It carries its slot's generation until releaseTask() bumps that.
GenIsSlots ==
    \A t \in Tasks : life[t] \in {"created", "published", "live"} /\ ~Bumped(t) =>
        slotGen[slotOf[t]] = genOf[t]

SlotInv == SlotOwned /\ ReleasedIsDone /\ DoneIsLast /\ InItsSlot /\ GenIsSlots

\* Nobody else has a task whose hook is due.
LEMMA DepartedAlone ==
    ASSUME TypeRun, DepIsTask, Once, NEW w \in Workers, dep[w].hook # "none"
    PROVE  /\ dep[w].task \in Tasks
           /\ \A v \in Workers : v # w => dep[v].task # dep[w].task
           /\ \A v \in Workers : cur[v] # dep[w].task
           /\ ready[dep[w].task] = 0
           /\ \A a \in Threads : ~Reviving(a, dep[w].task)
           /\ parkState[dep[w].task] # "Parked"
<1>1. dep[w].task \in Tasks
  BY DEF DepIsTask
<1>2. Exclusive(dep[w].task)
  BY <1>1 DEF Once
<1> QED
  BY <1>1, <1>2 DEF Exclusive, Unheld

\* Every slot is free to begin with.
LEMMA SlotInit == Init => SlotInv
  BY ConstantsAreDistinct
  DEF Init, SlotInv, SlotOwned, HasSlot, Leaving, ReleasedIsDone, DoneIsLast,
      InItsSlot, GenIsSlots, Releasing, NoDep

\* SlotOwned is about these variables only.
LEMMA SameSlotOwned ==
    SlotOwned /\ UNCHANGED <<life, dep, slotOf, freeSlots>> => SlotOwned'
  BY DEF SlotOwned, HasSlot, Leaving

\* The same for ReleasedIsDone.
LEMMA SameReleased ==
    ReleasedIsDone /\ UNCHANGED <<life, parkState, dep>> => ReleasedIsDone'
  BY DEF ReleasedIsDone

\* The same for DoneIsLast.
LEMMA SameDone ==
    DoneIsLast /\ UNCHANGED <<life, parkState, ready, cur, dep, ptr, pc>>
        => DoneIsLast'
  BY DEF DoneIsLast, Reviving

\* The same for InItsSlot.
LEMMA SameInItsSlot ==
    InItsSlot /\ UNCHANGED <<life, parkState, slotTask, slotOf>> => InItsSlot'
  BY DEF InItsSlot

\* The same for GenIsSlots.
LEMMA SameGenIsSlots ==
    GenIsSlots /\ UNCHANGED <<life, dep, slotGen, slotOf, genOf>> => GenIsSlots'
  BY DEF GenIsSlots, Bumped, Leaving

\* Every step keeps each slot with its one owner.
LEMMA SlotStep == TypeInv /\ OnceInv /\ FreeInv /\ SlotInv /\ [Next]_vars => SlotInv'
<1> SUFFICES ASSUME TypeInv, OnceInv, FreeInv, SlotInv, [Next]_vars PROVE SlotInv'
  OBVIOUS
<1>a. /\ TypeTask /\ TypeSlab /\ TypeRun /\ TypeThread /\ AtASlot /\ DepIsTask
      /\ Roles /\ NotYetRun /\ Once /\ \A t \in Tasks : Exclusive(t)
      /\ SlabIsLive /\ Pinned /\ FreedIsGone /\ ExitedIsIdle
      /\ SlotOwned /\ ReleasedIsDone /\ DoneIsLast /\ InItsSlot /\ GenIsSlots
  BY DEF TypeInv, TypeOK, OnceInv, Once, FreeInv, SlotInv
<1> USE <1>a, ConstantsAreDistinct
<1> USE DEF Threads
<1>1. ASSUME NEW t \in Tasks, SpawnCreate(t) PROVE SlotInv'
  <2>1. SlotOwned'
    BY <1>1 DEF SpawnCreate, SlotOwned, HasSlot, Leaving, TypeRun, TypeTask
  <2>2. ReleasedIsDone'
    BY <1>1 DEF SpawnCreate, ReleasedIsDone, Releasing, TypeRun, TypeTask
  <2>3. DoneIsLast'
    BY <1>1
    DEF SpawnCreate, DoneIsLast, Releasing, Reviving, TypeRun, TypeTask,
        TypeThread, Exclusive, Roles
  <2>4. InItsSlot'
    BY <1>1 DEF SpawnCreate, InItsSlot, TypeTask, TypeSlab
  <2>5. GenIsSlots'
    BY <1>1
    DEF SpawnCreate, GenIsSlots, Bumped, Leaving, TypeTask, TypeSlab, TypeRun
  <2> QED
    BY <2>1, <2>2, <2>3, <2>4, <2>5, <1>1 DEF SlotInv, SpawnCreate
<1>2. ASSUME NEW t \in Tasks, SpawnFail(t) PROVE SlotInv'
  <2>1. SlotOwned'
    BY <1>2
    DEF SpawnFail, SlotOwned, HasSlot, Leaving, TypeRun, TypeTask, NotYetRun,
        Untouched, Unheld
  <2>2. ReleasedIsDone'
    BY <1>2 DEF SpawnFail, ReleasedIsDone, Releasing, TypeRun, TypeTask
  <2>3. DoneIsLast'
    BY <1>2
    DEF SpawnFail, DoneIsLast, Releasing, Reviving, TypeRun, TypeTask,
        TypeThread, Exclusive, Roles
  <2>4. InItsSlot'
    BY <1>2 DEF SpawnFail, InItsSlot, TypeTask, TypeSlab
  <2>5. GenIsSlots'
    BY <1>2
    DEF SpawnFail, GenIsSlots, Bumped, Leaving, TypeTask, TypeSlab, TypeRun
  <2> QED
    BY <2>1, <2>2, <2>3, <2>4, <2>5, <1>2 DEF SlotInv, SpawnFail
<1>3. ASSUME NEW t \in Tasks, SpawnPublish(t) PROVE SlotInv'
  <2>1. SlotOwned'
    BY <1>3 DEF SpawnPublish, SlotOwned, HasSlot, Leaving, TypeRun, TypeTask
  <2>2. ReleasedIsDone'
    BY <1>3 DEF SpawnPublish, ReleasedIsDone, Releasing, TypeRun, TypeTask
  <2>3. DoneIsLast'
    BY <1>3
    DEF SpawnPublish, DoneIsLast, Releasing, Reviving, TypeRun, TypeTask,
        TypeThread, Exclusive, Roles
  <2>4. InItsSlot'
    BY <1>3
    DEF SpawnPublish, InItsSlot, TypeTask, TypeSlab, SlotOwned, HasSlot
  <2>5. GenIsSlots'
    BY <1>3
    DEF SpawnPublish, GenIsSlots, Bumped, Leaving, TypeTask, TypeSlab, TypeRun
  <2> QED
    BY <2>1, <2>2, <2>3, <2>4, <2>5, <1>3 DEF SlotInv, SpawnPublish
<1>4. ASSUME NEW t \in Tasks, SpawnSchedule(t) PROVE SlotInv'
  <2>1. SlotOwned'
    BY <1>4 DEF SpawnSchedule, SlotOwned, HasSlot, Leaving, TypeRun, TypeTask
  <2>2. ReleasedIsDone'
    BY <1>4 DEF SpawnSchedule, ReleasedIsDone, Releasing, TypeRun, TypeTask
  <2>3. DoneIsLast'
    BY <1>4
    DEF SpawnSchedule, DoneIsLast, Releasing, Reviving, TypeRun, TypeTask,
        TypeThread, Exclusive, Roles
  <2>4. InItsSlot'
    BY <1>4 DEF SpawnSchedule, InItsSlot, TypeTask, TypeSlab
  <2>5. GenIsSlots'
    BY <1>4
    DEF SpawnSchedule, GenIsSlots, Bumped, Leaving, TypeTask, TypeSlab,
        TypeRun
  <2> QED
    BY <2>1, <2>2, <2>3, <2>4, <2>5, <1>4 DEF SlotInv, SpawnSchedule
<1>5. ASSUME NEW t \in Tasks, Destroy(t) PROVE SlotInv'
  <2>a. /\ \A v \in Workers : cur[v] = NoTask /\ dep[v].task = NoTask /\ dep[v].hook = "none"
        /\ \A b \in Threads : ~Reviving(b, t)
    BY <1>5 DEF Destroy, ExitedIsIdle, NoDep, Reviving
  <2>1. SlotOwned'
    BY <1>5, <2>a DEF Destroy, SlotOwned, HasSlot, Leaving, TypeRun, TypeTask
  <2>2. ReleasedIsDone'
    BY <1>5, <2>a DEF Destroy, ReleasedIsDone, Releasing, TypeRun, TypeTask
  <2>3. DoneIsLast'
    BY <1>5, <2>a
    DEF Destroy, DoneIsLast, Releasing, Reviving, TypeRun, TypeTask,
        TypeThread, Exclusive, Roles
  <2>4. InItsSlot'
    BY <1>5, <2>a DEF Destroy, InItsSlot, TypeTask, TypeSlab
  <2>5. GenIsSlots'
    BY <1>5, <2>a
    DEF Destroy, GenIsSlots, Bumped, Leaving, TypeTask, TypeSlab, TypeRun,
        SlotOwned, HasSlot
  <2> QED
    BY <2>1, <2>2, <2>3, <2>4, <2>5, <1>5 DEF SlotInv, Destroy
<1>6. ASSUME NEW w \in Workers, Dispatch(w) PROVE SlotInv'
  <2>1. DoneIsLast'
    BY <1>6
    DEF Dispatch, Arrive, DoneIsLast, Releasing, Reviving, TypeRun, TypeTask,
        TypeThread, Exclusive, Roles
  <2> QED
    BY <2>1, <1>6, SameSlotOwned, SameReleased, SameInItsSlot, SameGenIsSlots
    DEF SlotInv, Dispatch, Arrive
<1>7. ASSUME NEW w \in Workers, NEW t \in Tasks, Yield(w, t) PROVE SlotInv'
  <2>1. SlotOwned'
    BY <1>7
    DEF Yield, SwitchAway, Arrive, OnCpu, NoDep, SlotOwned, HasSlot, Leaving,
        TypeRun, TypeTask
  <2>2. ReleasedIsDone'
    BY <1>7
    DEF Yield, SwitchAway, Arrive, OnCpu, NoDep, ReleasedIsDone, Releasing,
        TypeRun, TypeTask
  <2>3. DoneIsLast'
    BY <1>7
    DEF Yield, SwitchAway, Arrive, OnCpu, NoDep, DoneIsLast, Releasing,
        Reviving, TypeRun, TypeTask, TypeThread, Exclusive, Roles
  <2>4. GenIsSlots'
    BY <1>7
    DEF Yield, SwitchAway, Arrive, OnCpu, NoDep, GenIsSlots, Bumped, Leaving,
        TypeTask, TypeSlab, TypeRun
  <2> QED
    BY <2>1, <2>2, <2>3, <2>4, <1>7, SameInItsSlot
    DEF SlotInv, Yield, SwitchAway, Arrive
<1>8. ASSUME NEW w \in Workers, NEW t \in Tasks, ParkConsume(w, t) PROVE SlotInv'
  <2>1. ReleasedIsDone'
    BY <1>8
    DEF ParkConsume, OnCpu, ReleasedIsDone, Releasing, TypeRun, TypeTask
  <2>2. DoneIsLast'
    BY <1>8
    DEF ParkConsume, OnCpu, DoneIsLast, Releasing, Reviving, TypeRun,
        TypeTask, TypeThread, Exclusive, Roles
  <2>3. InItsSlot'
    BY <1>8 DEF ParkConsume, OnCpu, InItsSlot, TypeTask, TypeSlab
  <2> QED
    BY <2>1, <2>2, <2>3, <1>8, SameSlotOwned, SameGenIsSlots
    DEF SlotInv, ParkConsume
<1>9. ASSUME NEW w \in Workers, NEW t \in Tasks, Park(w, t) PROVE SlotInv'
  <2>1. SlotOwned'
    BY <1>9
    DEF Park, SwitchAway, Arrive, OnCpu, NoDep, SlotOwned, HasSlot, Leaving,
        TypeRun, TypeTask
  <2>2. ReleasedIsDone'
    BY <1>9
    DEF Park, SwitchAway, Arrive, OnCpu, NoDep, ReleasedIsDone, Releasing,
        TypeRun, TypeTask
  <2>3. DoneIsLast'
    BY <1>9
    DEF Park, SwitchAway, Arrive, OnCpu, NoDep, DoneIsLast, Releasing,
        Reviving, TypeRun, TypeTask, TypeThread, Exclusive, Roles
  <2>4. GenIsSlots'
    BY <1>9
    DEF Park, SwitchAway, Arrive, OnCpu, NoDep, GenIsSlots, Bumped, Leaving,
        TypeTask, TypeSlab, TypeRun
  <2> QED
    BY <2>1, <2>2, <2>3, <2>4, <1>9, SameInItsSlot
    DEF SlotInv, Park, SwitchAway, Arrive
<1>10. ASSUME NEW w \in Workers, NEW t \in Tasks, Finish(w, t) PROVE SlotInv'
  <2>1. SlotOwned'
    BY <1>10
    DEF Finish, SwitchAway, Arrive, OnCpu, NoDep, SlotOwned, HasSlot, Leaving,
        TypeRun, TypeTask
  <2>2. ReleasedIsDone'
    BY <1>10
    DEF Finish, SwitchAway, Arrive, OnCpu, NoDep, ReleasedIsDone, Releasing,
        TypeRun, TypeTask
  <2>3. DoneIsLast'
    BY <1>10
    DEF Finish, SwitchAway, Arrive, OnCpu, NoDep, DoneIsLast, Releasing,
        Reviving, TypeRun, TypeTask, TypeThread, Exclusive, Roles
  <2>4. GenIsSlots'
    BY <1>10
    DEF Finish, SwitchAway, Arrive, OnCpu, NoDep, GenIsSlots, Bumped, Leaving,
        TypeTask, TypeSlab, TypeRun
  <2> QED
    BY <2>1, <2>2, <2>3, <2>4, <1>10, SameInItsSlot
    DEF SlotInv, Finish, SwitchAway, Arrive
<1>11. ASSUME NEW w \in Workers, NEW t \in Tasks, ToggleShield(w, t) PROVE SlotInv'
  BY <1>11, SameSlotOwned, SameReleased, SameDone, SameInItsSlot,
     SameGenIsSlots
  DEF SlotInv, ToggleShield
<1>12. ASSUME NEW w \in Workers, HookYield(w) PROVE SlotInv'
  <2>a. dep[w].hook # "none"
    BY <1>12 DEF HookYield, Departed
  <2>b. /\ \A v \in Workers : v # w => dep'[v] = dep[v]
        /\ dep'[w].task = NoTask /\ dep'[w].hook = "none"
    BY <1>12 DEF HookYield, Departed, NoDep, TypeRun
  <2>c. life[dep[w].task] = "live"
    BY <1>12, <2>a, DepartedAlone
    DEF HookYield, Departed, FreedIsGone, NotYetRun, Untouched, Unheld, TypeTask, Life
  <2>d. parkState[dep[w].task] # "Done"
    BY <1>12, <2>a, DepartedAlone DEF HookYield, Departed, DoneIsLast, Releasing
  <2>e. \A u \in Tasks : HasSlot(u)' <=> HasSlot(u)
    BY <1>12, <2>b DEF HookYield, Departed, HasSlot, Leaving
  <2>f. \A u \in Tasks : Bumped(u)' <=> Bumped(u)
    BY <1>12, <2>b DEF HookYield, Departed, Bumped, Leaving
  <2>1. SlotOwned'
    BY <1>12, <2>e DEF HookYield, SlotOwned
  <2>2. ReleasedIsDone'
    BY <1>12, <2>a, <2>b, DepartedAlone, <2>d
    DEF HookYield, Departed, NoDep, ReleasedIsDone, Releasing, TypeRun,
        TypeTask
  <2>3. DoneIsLast'
    BY <1>12, <2>a, <2>b, DepartedAlone, <2>d
    DEF HookYield, Departed, NoDep, DoneIsLast, Releasing, Reviving, TypeRun,
        TypeTask, TypeThread, Exclusive, Roles
  <2>4. GenIsSlots'
    BY <1>12, <2>f DEF HookYield, GenIsSlots
  <2> QED
    BY <2>1, <2>2, <2>3, <2>4, <1>12, SameInItsSlot DEF SlotInv, HookYield
<1>13. ASSUME NEW w \in Workers, HookPark(w) PROVE SlotInv'
  <2>a. dep[w].hook # "none"
    BY <1>13 DEF HookPark, Departed
  <2>b. /\ \A v \in Workers : v # w => dep'[v] = dep[v]
        /\ \/ dep'[w].task = NoTask /\ dep'[w].hook = "none"
           \/ dep'[w].task = dep[w].task /\ dep'[w].hook = "resched"
    BY <1>13 DEF HookPark, Departed, SetHook, NoDep, TypeRun
  <2>c. life[dep[w].task] = "live"
    BY <1>13, <2>a, DepartedAlone
    DEF HookPark, Departed, FreedIsGone, NotYetRun, Untouched, Unheld, TypeTask, Life
  <2>d. parkState[dep[w].task] # "Done"
    BY <1>13, <2>a, DepartedAlone DEF HookPark, Departed, DoneIsLast, Releasing
  <2>e. \A u \in Tasks : HasSlot(u)' <=> HasSlot(u)
    BY <1>13, <2>b DEF HookPark, Departed, HasSlot, Leaving
  <2>f. \A u \in Tasks : Bumped(u)' <=> Bumped(u)
    BY <1>13, <2>b DEF HookPark, Departed, Bumped, Leaving
  <2>1. SlotOwned'
    BY <1>13, <2>e DEF HookPark, SlotOwned
  <2>2. ReleasedIsDone'
    BY <1>13, <2>a, <2>b, DepartedAlone, <2>d
    DEF HookPark, Departed, SetHook, NoDep, ReleasedIsDone, Releasing,
        TypeRun, TypeTask
  <2>3. DoneIsLast'
    <3>1. \A u \in Tasks : parkState'[u] = "Done" => parkState[u] = "Done" /\ u # dep[w].task
      BY <1>13, <2>d DEF HookPark, TypeTask
    <3>2. \A b \in Threads, u \in Tasks : Reviving(b, u)' <=> Reviving(b, u)
      BY <1>13 DEF HookPark, Reviving
    <3> QED
      BY <1>13, <2>b, <3>1, <3>2 DEF HookPark, DoneIsLast
  <2>4. InItsSlot'
    BY <1>13, <2>d DEF HookPark, InItsSlot, TypeTask
  <2>5. GenIsSlots'
    BY <1>13, <2>f DEF HookPark, GenIsSlots
  <2> QED
    BY <2>1, <2>2, <2>3, <2>4, <2>5, <1>13 DEF SlotInv, HookPark
<1>14. ASSUME NEW w \in Workers, HookResched(w) PROVE SlotInv'
  <2>a. dep[w].hook # "none"
    BY <1>14 DEF HookResched, Departed
  <2>b. /\ \A v \in Workers : v # w => dep'[v] = dep[v]
        /\ dep'[w].task = dep[w].task /\ dep'[w].hook = "sched"
    BY <1>14 DEF HookResched, Departed, SetHook, TypeRun
  <2>c. life[dep[w].task] = "live"
    BY <1>14, <2>a, DepartedAlone
    DEF HookResched, Departed, FreedIsGone, NotYetRun, Untouched, Unheld, TypeTask, Life
  <2>d. parkState[dep[w].task] # "Done"
    BY <1>14, <2>a, DepartedAlone DEF HookResched, Departed, DoneIsLast, Releasing
  <2>e. \A u \in Tasks : HasSlot(u)' <=> HasSlot(u)
    BY <1>14, <2>b DEF HookResched, Departed, HasSlot, Leaving
  <2>f. \A u \in Tasks : Bumped(u)' <=> Bumped(u)
    BY <1>14, <2>b DEF HookResched, Departed, Bumped, Leaving
  <2>1. SlotOwned'
    BY <1>14, <2>e DEF HookResched, SlotOwned
  <2>2. ReleasedIsDone'
    BY <1>14, <2>a, <2>b, DepartedAlone, <2>d
    DEF HookResched, Departed, SetHook, ReleasedIsDone, Releasing, TypeRun,
        TypeTask
  <2>3. DoneIsLast'
    BY <1>14, <2>a, <2>b, DepartedAlone, <2>d
    DEF HookResched, Departed, SetHook, DoneIsLast, Releasing, Reviving,
        TypeRun, TypeTask, TypeThread, Exclusive, Roles
  <2>4. InItsSlot'
    BY <1>14, <2>d DEF HookResched, InItsSlot, TypeTask
  <2>5. GenIsSlots'
    BY <1>14, <2>f DEF HookResched, GenIsSlots
  <2> QED
    BY <2>1, <2>2, <2>3, <2>4, <2>5, <1>14 DEF SlotInv, HookResched
<1>15. ASSUME NEW w \in Workers, HookSchedule(w) PROVE SlotInv'
  <2>a. dep[w].hook # "none"
    BY <1>15 DEF HookSchedule, Departed
  <2>b. /\ \A v \in Workers : v # w => dep'[v] = dep[v]
        /\ dep'[w].task = NoTask /\ dep'[w].hook = "none"
    BY <1>15 DEF HookSchedule, Departed, NoDep, TypeRun
  <2>c. life[dep[w].task] = "live"
    BY <1>15, <2>a, DepartedAlone
    DEF HookSchedule, Departed, FreedIsGone, NotYetRun, Untouched, Unheld, TypeTask, Life
  <2>d. parkState[dep[w].task] # "Done"
    BY <1>15, <2>a, DepartedAlone DEF HookSchedule, Departed, DoneIsLast, Releasing
  <2>e. \A u \in Tasks : HasSlot(u)' <=> HasSlot(u)
    BY <1>15, <2>b DEF HookSchedule, Departed, HasSlot, Leaving
  <2>f. \A u \in Tasks : Bumped(u)' <=> Bumped(u)
    BY <1>15, <2>b DEF HookSchedule, Departed, Bumped, Leaving
  <2>1. SlotOwned'
    BY <1>15, <2>e DEF HookSchedule, SlotOwned
  <2>2. ReleasedIsDone'
    BY <1>15, <2>a, <2>b, DepartedAlone, <2>d
    DEF HookSchedule, Departed, NoDep, ReleasedIsDone, Releasing, TypeRun,
        TypeTask
  <2>3. DoneIsLast'
    BY <1>15, <2>a, <2>b, DepartedAlone, <2>d
    DEF HookSchedule, Departed, NoDep, DoneIsLast, Releasing, Reviving,
        TypeRun, TypeTask, TypeThread, Exclusive, Roles
  <2>4. GenIsSlots'
    BY <1>15, <2>f DEF HookSchedule, GenIsSlots
  <2> QED
    BY <2>1, <2>2, <2>3, <2>4, <1>15, SameInItsSlot DEF SlotInv, HookSchedule
<1>16. ASSUME NEW w \in Workers, ReleaseDone(w) PROVE SlotInv'
  <2>a. dep[w].hook # "none"
    BY <1>16 DEF ReleaseDone, Departed
  <2>b. /\ \A v \in Workers : v # w => dep'[v] = dep[v]
        /\ dep'[w].task = dep[w].task /\ dep'[w].hook = "unslot"
    BY <1>16 DEF ReleaseDone, Departed, SetHook, TypeRun
  <2>c. life[dep[w].task] = "live"
    BY <1>16, <2>a, DepartedAlone
    DEF ReleaseDone, Departed, FreedIsGone, NotYetRun, Untouched, Unheld, TypeTask, Life
  <2>d. parkState[dep[w].task] # "Done"
    BY <1>16, <2>a, DepartedAlone DEF ReleaseDone, Departed, DoneIsLast, Releasing
  <2>e. \A u \in Tasks : HasSlot(u)' <=> HasSlot(u)
    BY <1>16, <2>b DEF ReleaseDone, Departed, HasSlot, Leaving
  <2>f. \A u \in Tasks : Bumped(u)' <=> Bumped(u)
    BY <1>16, <2>b DEF ReleaseDone, Departed, Bumped, Leaving
  <2>1. SlotOwned'
    BY <1>16, <2>e DEF ReleaseDone, SlotOwned
  <2>2. ReleasedIsDone'
    BY <1>16, <2>a, <2>b, DepartedAlone, <2>d
    DEF ReleaseDone, Departed, SetHook, ReleasedIsDone, Releasing, TypeRun,
        TypeTask
  <2>3. DoneIsLast'
    <3>1. \A u \in Tasks : parkState'[u] = "Done" => parkState[u] = "Done" \/ u = dep[w].task
      BY <1>16, <2>d DEF ReleaseDone, TypeTask
    <3>2. \A b \in Threads, u \in Tasks : Reviving(b, u)' <=> Reviving(b, u)
      BY <1>16 DEF ReleaseDone, Reviving
    <3> QED
      BY <1>16, <2>a, <2>b, <2>c, <3>1, <3>2, DepartedAlone
      DEF ReleaseDone, DoneIsLast, Releasing
  <2>4. InItsSlot'
    BY <1>16, <2>a, <2>b, DepartedAlone, <2>d
    DEF ReleaseDone, Departed, SetHook, InItsSlot, TypeTask, TypeSlab
  <2>5. GenIsSlots'
    BY <1>16, <2>f DEF ReleaseDone, GenIsSlots
  <2> QED
    BY <2>1, <2>2, <2>3, <2>4, <2>5, <1>16 DEF SlotInv, ReleaseDone
<1>17. ASSUME NEW w \in Workers, ReleaseUnslot(w) PROVE SlotInv'
  <2>a. dep[w].hook # "none"
    BY <1>17 DEF ReleaseUnslot, Departed
  <2>b. /\ \A v \in Workers : v # w => dep'[v] = dep[v]
        /\ dep'[w].task = dep[w].task /\ dep'[w].hook = "bumpGen"
    BY <1>17 DEF ReleaseUnslot, Departed, SetHook, TypeRun
  <2>c. life[dep[w].task] = "live"
    BY <1>17, <2>a, DepartedAlone
    DEF ReleaseUnslot, Departed, FreedIsGone, NotYetRun, Untouched, Unheld, TypeTask, Life
  <2>e. \A u \in Tasks : HasSlot(u)' <=> HasSlot(u)
    BY <1>17, <2>b DEF ReleaseUnslot, Departed, HasSlot, Leaving
  <2>f. \A u \in Tasks : Bumped(u)' <=> Bumped(u)
    BY <1>17, <2>b DEF ReleaseUnslot, Departed, Bumped, Leaving
  <2>1. SlotOwned'
    BY <1>17, <2>e DEF ReleaseUnslot, SlotOwned
  <2>2. ReleasedIsDone'
    BY <1>17, <2>a, <2>b, DepartedAlone
    DEF ReleaseUnslot, Departed, SetHook, ReleasedIsDone, Releasing, TypeRun,
        TypeTask
  <2>3. DoneIsLast'
    BY <1>17, <2>a, <2>b, DepartedAlone
    DEF ReleaseUnslot, Departed, SetHook, DoneIsLast, Releasing, Reviving,
        TypeRun, TypeTask, TypeThread, Exclusive, Roles
  <2>4. InItsSlot'
    <3>1. parkState[dep[w].task] = "Done"
      BY <1>17 DEF ReleaseUnslot, Departed, ReleasedIsDone, Releasing
    <3>2. \A u \in Tasks : HasSlot(u) /\ slotOf[u] = slotOf[dep[w].task] => u = dep[w].task
      BY <2>a, <2>c, DepartedAlone DEF SlotOwned, HasSlot
    <3> QED
      BY <1>17, <3>1, <3>2 DEF ReleaseUnslot, InItsSlot, HasSlot, TypeTask, TypeSlab
  <2>5. GenIsSlots'
    BY <1>17, <2>f DEF ReleaseUnslot, GenIsSlots
  <2> QED
    BY <2>1, <2>2, <2>3, <2>4, <2>5, <1>17 DEF SlotInv, ReleaseUnslot
<1>18. ASSUME NEW w \in Workers, ReleaseBumpGen(w) PROVE SlotInv'
  <2>a. dep[w].hook # "none"
    BY <1>18 DEF ReleaseBumpGen, Departed
  <2>b. /\ \A v \in Workers : v # w => dep'[v] = dep[v]
        /\ dep'[w].task = dep[w].task /\ dep'[w].hook = "awaitPins"
    BY <1>18 DEF ReleaseBumpGen, Departed, SetHook, TypeRun
  <2>c. life[dep[w].task] = "live"
    BY <1>18, <2>a, DepartedAlone
    DEF ReleaseBumpGen, Departed, FreedIsGone, NotYetRun, Untouched, Unheld, TypeTask, Life
  <2>1. SlotOwned'
    <3>1. \A u \in Tasks : Leaving(u, {"putSlot"})' <=> Leaving(u, {"putSlot"})
      BY <1>18, <2>b DEF ReleaseBumpGen, Departed, Leaving
    <3> QED
      BY <1>18, <3>1 DEF ReleaseBumpGen, SlotOwned, HasSlot
  <2>2. ReleasedIsDone'
    BY <1>18, <2>a, <2>b, DepartedAlone
    DEF ReleaseBumpGen, Departed, SetHook, ReleasedIsDone, Releasing, TypeRun,
        TypeTask
  <2>3. DoneIsLast'
    BY <1>18, <2>a, <2>b, DepartedAlone
    DEF ReleaseBumpGen, Departed, SetHook, DoneIsLast, Releasing, Reviving,
        TypeRun, TypeTask, TypeThread, Exclusive, Roles
  <2>4. GenIsSlots'
    <3>1. \A u \in Tasks : HasSlot(u) /\ slotOf[u] = slotOf[dep[w].task] => u = dep[w].task
      BY <2>a, <2>c, DepartedAlone DEF SlotOwned, HasSlot
    <3>2. \A u \in Tasks : ~Bumped(u)' => ~Bumped(u) /\ u # dep[w].task
      BY <1>18, <2>b DEF ReleaseBumpGen, Departed, Bumped, Leaving
    <3> QED
      BY <1>18, <3>1, <3>2 DEF ReleaseBumpGen, GenIsSlots, HasSlot, TypeTask, TypeSlab
  <2> QED
    BY <2>1, <2>2, <2>3, <2>4, <1>18, SameInItsSlot
    DEF SlotInv, ReleaseBumpGen
<1>19. ASSUME NEW w \in Workers, ReleaseFree(w) PROVE SlotInv'
  <2>a. dep[w].hook # "none"
    BY <1>19 DEF ReleaseFree, Departed
  <2>b. /\ \A v \in Workers : v # w => dep'[v] = dep[v]
        /\ dep'[w].task = dep[w].task /\ dep'[w].hook = "putSlot"
    BY <1>19 DEF ReleaseFree, Departed, SetHook, TypeRun
  <2>c. life[dep[w].task] = "live"
    BY <1>19, <2>a, DepartedAlone
    DEF ReleaseFree, Departed, FreedIsGone, NotYetRun, Untouched, Unheld, TypeTask, Life
  <2>1. SlotOwned'
    <3>1. \A u \in Tasks : HasSlot(u)' => HasSlot(u)
      BY <1>19, <2>b, <2>c DEF ReleaseFree, HasSlot, Leaving, TypeTask
    <3> QED
      BY <1>19, <3>1 DEF ReleaseFree, SlotOwned
  <2>2. ReleasedIsDone'
    BY <1>19, <2>a, <2>b, DepartedAlone
    DEF ReleaseFree, Departed, SetHook, ReleasedIsDone, Releasing, TypeRun,
        TypeTask
  <2>3. DoneIsLast'
    BY <1>19, <2>a, <2>b, DepartedAlone
    DEF ReleaseFree, Departed, SetHook, DoneIsLast, Releasing, Reviving,
        TypeRun, TypeTask, TypeThread, Exclusive, Roles
  <2>4. InItsSlot'
    BY <1>19, <2>a, <2>b, DepartedAlone
    DEF ReleaseFree, Departed, SetHook, InItsSlot, TypeTask, TypeSlab
  <2>5. GenIsSlots'
    BY <1>19, <2>a, <2>b, DepartedAlone
    DEF ReleaseFree, Departed, SetHook, GenIsSlots, Bumped, Leaving, TypeTask,
        TypeSlab, TypeRun
  <2> QED
    BY <2>1, <2>2, <2>3, <2>4, <2>5, <1>19 DEF SlotInv, ReleaseFree
<1>20. ASSUME NEW w \in Workers, ReleasePutSlot(w) PROVE SlotInv'
  <2>a. dep[w].hook # "none"
    BY <1>20 DEF ReleasePutSlot, Departed
  <2>b. /\ \A v \in Workers : v # w => dep'[v] = dep[v]
        /\ dep'[w].task = NoTask /\ dep'[w].hook = "none"
    BY <1>20 DEF ReleasePutSlot, Departed, NoDep, TypeRun
  <2>c. life[dep[w].task] = "freed"
    BY <1>20 DEF ReleasePutSlot, Departed, ReleasedIsDone
  <2>1. SlotOwned'
    <3>1. HasSlot(dep[w].task)
      BY <1>20 DEF ReleasePutSlot, Departed, HasSlot, Leaving
    <3>2. \A u \in Tasks : HasSlot(u)' => HasSlot(u) /\ u # dep[w].task
      BY <1>20, <2>a, <2>b, <2>c, DepartedAlone
      DEF ReleasePutSlot, Departed, HasSlot, Leaving
    <3>3. \A u \in Tasks : HasSlot(u)' => slotOf[u] # slotOf[dep[w].task]
      BY <2>a, <3>1, <3>2, DepartedAlone DEF SlotOwned
    <3> QED
      BY <1>20, <3>2, <3>3 DEF ReleasePutSlot, SlotOwned
  <2>2. ReleasedIsDone'
    BY <1>20, <2>a, <2>b, DepartedAlone
    DEF ReleasePutSlot, Departed, NoDep, ReleasedIsDone, Releasing, TypeRun,
        TypeTask
  <2>3. DoneIsLast'
    BY <1>20, <2>a, <2>b, DepartedAlone
    DEF ReleasePutSlot, Departed, NoDep, DoneIsLast, Releasing, Reviving,
        TypeRun, TypeTask, TypeThread, Exclusive, Roles
  <2>4. GenIsSlots'
    <3>1. \A u \in Tasks : ~Bumped(u)' => ~Bumped(u) \/ life[u] = "freed"
      BY <1>20, <2>b, <2>c DEF ReleasePutSlot, Departed, Bumped, Leaving
    <3> QED
      BY <1>20, <3>1 DEF ReleasePutSlot, GenIsSlots
  <2> QED
    BY <2>1, <2>2, <2>3, <2>4, <1>20, SameInItsSlot
    DEF SlotInv, ReleasePutSlot
<1>21. ASSUME NEW w \in Workers, ReapBegin(w) PROVE SlotInv'
  <2>1. DoneIsLast'
    BY <1>21
    DEF ReapBegin, GoTo, DoneIsLast, Releasing, Reviving, TypeRun, TypeTask,
        TypeThread, Exclusive, Roles
  <2> QED
    BY <2>1, <1>21, SameSlotOwned, SameReleased, SameInItsSlot, SameGenIsSlots
    DEF SlotInv, ReapBegin
<1>22. ASSUME NEW w \in Workers, ReapScan(w) PROVE SlotInv'
  <2>1. DoneIsLast'
    BY <1>22
    DEF ReapScan, GoTo, Pin, DoneIsLast, Releasing, Reviving, TypeRun,
        TypeTask, TypeThread, Exclusive, Roles
  <2> QED
    BY <2>1, <1>22, SameSlotOwned, SameReleased, SameInItsSlot, SameGenIsSlots
    DEF SlotInv, ReapScan
<1>23. ASSUME NEW w \in Workers, ReapClaim(w) PROVE SlotInv'
  <2>0. \A t \in Tasks : parkState[t] = "Done" => parkState'[t] = "Done"
    BY <1>23 DEF ReapClaim, TypeTask
  <2>1. ReleasedIsDone'
    BY <1>23, <2>0
    DEF ReapClaim, GoTo, ReleasedIsDone, Releasing, TypeRun, TypeTask,
        DepIsTask
  <2>2. DoneIsLast'
    BY <1>23
    DEF ReapClaim, GoTo, DoneIsLast, Releasing, Reviving, TypeRun, TypeTask,
        TypeThread, Exclusive, Roles
  <2>3. InItsSlot'
    BY <1>23 DEF ReapClaim, GoTo, InItsSlot, TypeTask, TypeSlab
  <2> QED
    BY <2>1, <2>2, <2>3, <1>23, SameSlotOwned, SameGenIsSlots
    DEF SlotInv, ReapClaim
<1>24. ASSUME NEW w \in Workers, ReapPutBack(w) PROVE SlotInv'
  <2>0. ptr[w] \in Tasks => parkState[ptr[w]] # "Done"
    BY <1>24 DEF ReapPutBack, DoneIsLast, Reviving
  <2>1. ReleasedIsDone'
    BY <1>24, <2>0
    DEF ReapPutBack, GoTo, NextSlot, ReleasedIsDone, Releasing, TypeRun,
        TypeTask, DepIsTask, TypeThread
  <2>2. DoneIsLast'
    BY <1>24
    DEF ReapPutBack, GoTo, NextSlot, DoneIsLast, Releasing, Reviving, TypeRun,
        TypeTask, TypeThread, Exclusive, Roles
  <2>3. InItsSlot'
    BY <1>24, <2>0
    DEF ReapPutBack, GoTo, NextSlot, InItsSlot, TypeTask, TypeSlab, TypeThread
  <2> QED
    BY <2>1, <2>2, <2>3, <1>24, SameSlotOwned, SameGenIsSlots
    DEF SlotInv, ReapPutBack
<1>25. ASSUME NEW w \in Workers, ReapResched(w) PROVE SlotInv'
  <2>0. ptr[w] \in Tasks => parkState[ptr[w]] # "Done"
    BY <1>25 DEF ReapResched, DoneIsLast, Reviving
  <2>1. ReleasedIsDone'
    BY <1>25, <2>0
    DEF ReapResched, GoTo, ReleasedIsDone, Releasing, TypeRun, TypeTask,
        TypeThread
  <2>2. DoneIsLast'
    BY <1>25
    DEF ReapResched, GoTo, DoneIsLast, Releasing, Reviving, TypeRun, TypeTask,
        TypeThread, Exclusive, Roles
  <2>3. InItsSlot'
    BY <1>25, <2>0
    DEF ReapResched, GoTo, InItsSlot, TypeTask, TypeSlab, TypeThread
  <2> QED
    BY <2>1, <2>2, <2>3, <1>25, SameSlotOwned, SameGenIsSlots
    DEF SlotInv, ReapResched
<1>26. ASSUME NEW w \in Workers, ReapSchedule(w) PROVE SlotInv'
  <2>1. DoneIsLast'
    BY <1>26
    DEF ReapSchedule, GoTo, NextSlot, DoneIsLast, Releasing, Reviving,
        TypeRun, TypeTask, TypeThread, Exclusive, Roles
  <2> QED
    BY <2>1, <1>26, SameSlotOwned, SameReleased, SameInItsSlot, SameGenIsSlots
    DEF SlotInv, ReapSchedule
<1>27. ASSUME NEW w \in Workers, ReapUnwind(w) PROVE SlotInv'
  <2>1. DoneIsLast'
    BY <1>27
    DEF ReapUnwind, GoTo, NextSlot, DoneIsLast, Releasing, Reviving, TypeRun,
        TypeTask, TypeThread, Exclusive, Roles
  <2> QED
    BY <2>1, <1>27, SameSlotOwned, SameReleased, SameInItsSlot, SameGenIsSlots
    DEF SlotInv, ReapUnwind
<1>28. ASSUME NEW w \in Workers, WorkerExit(w) PROVE SlotInv'
  <2>1. DoneIsLast'
    BY <1>28
    DEF WorkerExit, GoTo, DoneIsLast, Releasing, Reviving, TypeRun, TypeTask,
        TypeThread, Exclusive, Roles
  <2> QED
    BY <2>1, <1>28, SameSlotOwned, SameReleased, SameInItsSlot, SameGenIsSlots
    DEF SlotInv, WorkerExit
<1>29. ASSUME NEW a \in Wakers, NEW t \in Tasks, WakeBegin(a, t) PROVE SlotInv'
  <2>1. DoneIsLast'
    BY <1>29
    DEF WakeBegin, GoTo, Pin, DoneIsLast, Releasing, Reviving, TypeRun,
        TypeTask, TypeThread, Exclusive, Roles
  <2> QED
    BY <2>1, <1>29, SameSlotOwned, SameReleased, SameInItsSlot, SameGenIsSlots
    DEF SlotInv, WakeBegin
<1>30. ASSUME NEW a \in Wakers, NEW s \in Slots, VisitBegin(a, s) PROVE SlotInv'
  <2>1. DoneIsLast'
    BY <1>30
    DEF VisitBegin, GoTo, Pin, DoneIsLast, Releasing, Reviving, TypeRun,
        TypeTask, TypeThread, Exclusive, Roles
  <2> QED
    BY <2>1, <1>30, SameSlotOwned, SameReleased, SameInItsSlot, SameGenIsSlots
    DEF SlotInv, VisitBegin
<1>31. ASSUME NEW a \in Threads, WakeCheckGeneration(a) PROVE SlotInv'
  <2>1. DoneIsLast'
    BY <1>31
    DEF WakeCheckGeneration, GoTo, DoneIsLast, Releasing, Reviving, TypeRun,
        TypeTask, TypeThread, Exclusive, Roles
  <2> QED
    BY <2>1, <1>31, SameSlotOwned, SameReleased, SameInItsSlot, SameGenIsSlots
    DEF SlotInv, WakeCheckGeneration
<1>32. ASSUME NEW a \in Threads, LoadTask(a) PROVE SlotInv'
  <2>1. DoneIsLast'
    BY <1>32
    DEF LoadTask, GoTo, AfterLoad, DoneIsLast, Releasing, Reviving, TypeRun,
        TypeTask, TypeThread, Exclusive, Roles
  <2> QED
    BY <2>1, <1>32, SameSlotOwned, SameReleased, SameInItsSlot, SameGenIsSlots
    DEF SlotInv, LoadTask
<1>33. ASSUME NEW a \in Threads, VisitRead(a) PROVE SlotInv'
  <2>1. DoneIsLast'
    BY <1>33
    DEF VisitRead, GoTo, DoneIsLast, Releasing, Reviving, TypeRun, TypeTask,
        TypeThread, Exclusive, Roles
  <2> QED
    BY <2>1, <1>33, SameSlotOwned, SameReleased, SameInItsSlot, SameGenIsSlots
    DEF SlotInv, VisitRead
<1>34. ASSUME NEW a \in Threads, WakeCas(a) PROVE SlotInv'
  <2>0. \A t \in Tasks : parkState[t] = "Done" => parkState'[t] = "Done"
    BY <1>34 DEF WakeCas, TypeTask
  <2>1. ReleasedIsDone'
    BY <1>34, <2>0
    DEF WakeCas, GoTo, ReleasedIsDone, Releasing, TypeRun, TypeTask, DepIsTask
  <2>2. DoneIsLast'
    BY <1>34
    DEF WakeCas, GoTo, DoneIsLast, Releasing, Reviving, TypeRun, TypeTask,
        TypeThread, Exclusive, Roles
  <2>3. InItsSlot'
    BY <1>34 DEF WakeCas, GoTo, InItsSlot, TypeTask, TypeSlab
  <2> QED
    BY <2>1, <2>2, <2>3, <1>34, SameSlotOwned, SameGenIsSlots
    DEF SlotInv, WakeCas
<1>35. ASSUME NEW a \in Threads, WakeStore(a) PROVE SlotInv'
  <2>0. ptr[a] \in Tasks => parkState[ptr[a]] # "Done"
    BY <1>35 DEF WakeStore, DoneIsLast, Reviving
  <2>1. ReleasedIsDone'
    BY <1>35, <2>0
    DEF WakeStore, GoTo, ReleasedIsDone, Releasing, TypeRun, TypeTask,
        TypeThread
  <2>2. DoneIsLast'
    BY <1>35
    DEF WakeStore, GoTo, DoneIsLast, Releasing, Reviving, TypeRun, TypeTask,
        TypeThread, Exclusive, Roles
  <2>3. InItsSlot'
    BY <1>35, <2>0
    DEF WakeStore, GoTo, InItsSlot, TypeTask, TypeSlab, TypeThread
  <2> QED
    BY <2>1, <2>2, <2>3, <1>35, SameSlotOwned, SameGenIsSlots
    DEF SlotInv, WakeStore
<1>36. ASSUME NEW a \in Threads, WakeSchedule(a) PROVE SlotInv'
  <2>1. DoneIsLast'
    BY <1>36
    DEF WakeSchedule, GoTo, DoneIsLast, Releasing, Reviving, TypeRun,
        TypeTask, TypeThread, Exclusive, Roles
  <2> QED
    BY <2>1, <1>36, SameSlotOwned, SameReleased, SameInItsSlot, SameGenIsSlots
    DEF SlotInv, WakeSchedule
<1>37. ASSUME NEW a \in Threads, Unpin(a) PROVE SlotInv'
  <2>1. DoneIsLast'
    <3>0. \A b \in Threads, t \in Tasks : Reviving(b, t)' => Reviving(b, t)
      BY <1>37 DEF Unpin, GoTo, Reviving, TypeThread
    <3> QED
      BY <1>37, <3>0 DEF Unpin, DoneIsLast
  <2> QED
    BY <2>1, <1>37, SameSlotOwned, SameReleased, SameInItsSlot, SameGenIsSlots
    DEF SlotInv, Unpin
<1>38. ASSUME Stop PROVE SlotInv'
  <2>1. DoneIsLast'
    BY <1>38
    DEF Stop, GoTo, DoneIsLast, Releasing, Reviving, TypeRun, TypeTask,
        TypeThread, Exclusive, Roles
  <2> QED
    BY <2>1, <1>38, SameSlotOwned, SameReleased, SameInItsSlot, SameGenIsSlots
    DEF SlotInv, Stop
<1>39. ASSUME StopScan PROVE SlotInv'
  <2>1. DoneIsLast'
    BY <1>39
    DEF StopScan, GoTo, Pin, DoneIsLast, Releasing, Reviving, TypeRun,
        TypeTask, TypeThread, Exclusive, Roles
  <2> QED
    BY <2>1, <1>39, SameSlotOwned, SameReleased, SameInItsSlot, SameGenIsSlots
    DEF SlotInv, StopScan
<1>40. ASSUME Stopped PROVE SlotInv'
  BY <1>40, SameSlotOwned, SameReleased, SameDone, SameInItsSlot,
     SameGenIsSlots
  DEF SlotInv, Stopped, vars
<1>50. CASE UNCHANGED vars
  BY <1>50, SameSlotOwned, SameReleased, SameDone, SameInItsSlot,
     SameGenIsSlots
  DEF vars, SlotInv
<1> QED
  BY <1>1, <1>2, <1>3, <1>4, <1>5, <1>6, <1>7, <1>8, <1>9, <1>10, <1>11,
     <1>12, <1>13, <1>14, <1>15, <1>16, <1>17, <1>18, <1>19, <1>20, <1>21,
     <1>22, <1>23, <1>24, <1>25, <1>26, <1>27, <1>28, <1>29, <1>30, <1>31,
     <1>32, <1>33, <1>34, <1>35, <1>36, <1>37, <1>38, <1>39, <1>40, <1>50
  DEF Next, Spawning, Body, HookStep, SlabStep, ReapStep

-----------------------------------------------------------------------------
(* The wake-up is not lost.                                                *)

\* A token's thread is at the slot of the task it is for, and so is a
\* pointer's.
AtItsSlot ==
    \A a \in Threads :
        /\ tok[a] # NoTask => /\ a \in Wakers /\ pc[a] # "idle"
                              /\ life[tok[a]] \in {"live", "freed"}
                              /\ at[a] = slotOf[tok[a]]
        /\ ptr[a] # NoTask => at[a] = slotOf[ptr[a]]
        /\ pc[a] = "gen" => tok[a] # NoTask
        /\ pc[a] = "cas" => ptr[a] # NoTask

\* Short of the CAS, a wake() cannot miss: its thread has the task, or the
\* task has ended.
OnItsWay ==
    \A a \in Wakers : pc[a] = "cas" /\ tok[a] # NoTask =>
        ptr[a] = tok[a] \/ parkState[tok[a]] = "Done"

\* What wake() owes a task is in parkState already, or on its way there.
WakeOwed ==
    \A t \in Tasks : owed[t] =>
        \/ parkState[t] \in {"Notified", "Done"}
        \/ \E a \in Wakers : tok[a] = t /\ pc[a] \in {"gen", "load", "cas"}

WakeInv == AtItsSlot /\ OnItsWay /\ WakeOwed

\* No token is out to begin with.
LEMMA WakeInit == Init => WakeInv
  BY ConstantsAreDistinct
  DEF Init, WakeInv, AtItsSlot, OnItsWay, WakeOwed, Threads

\* AtItsSlot is about these variables only.
LEMMA SameAtItsSlot ==
    AtItsSlot /\ UNCHANGED <<tok, pc, life, at, slotOf, ptr>> => AtItsSlot'
  BY DEF AtItsSlot

\* The same for OnItsWay.
LEMMA SameOnItsWay ==
    OnItsWay /\ UNCHANGED <<pc, tok, ptr, parkState>> => OnItsWay'
  BY DEF OnItsWay

\* The same for WakeOwed.
LEMMA SameWakeOwed ==
    WakeOwed /\ UNCHANGED <<owed, parkState, tok, pc>> => WakeOwed'
  BY DEF WakeOwed

\* Every step keeps a wake() that is owed in parkState or on its way.
LEMMA WakeStep == TypeInv /\ OnceInv /\ FreeInv /\ SlotInv /\ WakeInv /\ [Next]_vars => WakeInv'
<1> SUFFICES ASSUME TypeInv, OnceInv, FreeInv, SlotInv, WakeInv, [Next]_vars PROVE WakeInv'
  OBVIOUS
<1>a. /\ TypeTask /\ TypeSlab /\ TypeRun /\ TypeThread /\ TypeFlags
      /\ AtASlot /\ DepIsTask /\ Roles /\ NotYetRun /\ Once
      /\ SlabIsLive /\ Pinned /\ FreedIsGone /\ ExitedIsIdle
      /\ ReleasedIsDone /\ DoneIsLast /\ InItsSlot /\ GenIsSlots
      /\ AtItsSlot /\ OnItsWay /\ WakeOwed
  BY DEF TypeInv, TypeOK, OnceInv, FreeInv, SlotInv, WakeInv
<1> USE <1>a, ConstantsAreDistinct
<1> USE DEF Threads
<1>1. ASSUME NEW t \in Tasks, SpawnCreate(t) PROVE WakeInv'
  <2>1. AtItsSlot'
    BY <1>1 DEF SpawnCreate, AtItsSlot, TypeThread, TypeTask, Roles, Pinned
  <2> QED
    BY <2>1, <1>1, SameOnItsWay, SameWakeOwed DEF WakeInv, SpawnCreate
<1>2. ASSUME NEW t \in Tasks, SpawnFail(t) PROVE WakeInv'
  <2>1. AtItsSlot'
    BY <1>2 DEF SpawnFail, AtItsSlot, TypeThread, TypeTask, Roles
  <2> QED
    BY <2>1, <1>2, SameOnItsWay, SameWakeOwed DEF WakeInv, SpawnFail
<1>3. ASSUME NEW t \in Tasks, SpawnPublish(t) PROVE WakeInv'
  <2>1. AtItsSlot'
    BY <1>3 DEF SpawnPublish, AtItsSlot, TypeThread, TypeTask, Roles
  <2> QED
    BY <2>1, <1>3, SameOnItsWay, SameWakeOwed DEF WakeInv, SpawnPublish
<1>4. ASSUME NEW t \in Tasks, SpawnSchedule(t) PROVE WakeInv'
  <2>1. AtItsSlot'
    BY <1>4 DEF SpawnSchedule, AtItsSlot, TypeThread, TypeTask, Roles
  <2> QED
    BY <2>1, <1>4, SameOnItsWay, SameWakeOwed DEF WakeInv, SpawnSchedule
<1>5. ASSUME NEW t \in Tasks, Destroy(t) PROVE WakeInv'
  <2>1. AtItsSlot'
    BY <1>5 DEF Destroy, AtItsSlot, TypeThread, TypeTask, Roles
  <2>2. OnItsWay'
    BY <1>5 DEF Destroy, OnItsWay, TypeThread, TypeTask
  <2>3. WakeOwed'
    BY <1>5 DEF Destroy, WakeOwed, TypeThread, TypeTask, TypeFlags, Roles
  <2> QED
    BY <2>1, <2>2, <2>3, <1>5 DEF WakeInv, Destroy
<1>6. ASSUME NEW w \in Workers, Dispatch(w) PROVE WakeInv'
  BY <1>6, SameAtItsSlot, SameOnItsWay, SameWakeOwed DEF WakeInv, Dispatch
<1>7. ASSUME NEW w \in Workers, NEW t \in Tasks, Yield(w, t) PROVE WakeInv'
  BY <1>7, SameAtItsSlot, SameOnItsWay, SameWakeOwed DEF WakeInv, Yield
<1>8. ASSUME NEW w \in Workers, NEW t \in Tasks, ParkConsume(w, t) PROVE WakeInv'
  <2>1. OnItsWay'
    BY <1>8 DEF ParkConsume, OnCpu, OnItsWay, TypeThread, TypeTask
  <2>2. WakeOwed'
    BY <1>8
    DEF ParkConsume, OnCpu, WakeOwed, TypeThread, TypeTask, TypeFlags, Roles
  <2> QED
    BY <2>1, <2>2, <1>8, SameAtItsSlot DEF WakeInv, ParkConsume
<1>9. ASSUME NEW w \in Workers, NEW t \in Tasks, Park(w, t) PROVE WakeInv'
  BY <1>9, SameAtItsSlot, SameOnItsWay, SameWakeOwed DEF WakeInv, Park
<1>10. ASSUME NEW w \in Workers, NEW t \in Tasks, Finish(w, t) PROVE WakeInv'
  BY <1>10, SameAtItsSlot, SameOnItsWay, SameWakeOwed DEF WakeInv, Finish
<1>11. ASSUME NEW w \in Workers, NEW t \in Tasks, ToggleShield(w, t) PROVE WakeInv'
  BY <1>11, SameAtItsSlot, SameOnItsWay, SameWakeOwed
  DEF WakeInv, ToggleShield
<1>12. ASSUME NEW w \in Workers, HookYield(w) PROVE WakeInv'
  BY <1>12, SameAtItsSlot, SameOnItsWay, SameWakeOwed DEF WakeInv, HookYield
<1>13. ASSUME NEW w \in Workers, HookPark(w) PROVE WakeInv'
  <2>1. OnItsWay'
    BY <1>13
    DEF HookPark, Departed, SetHook, NoDep, OnItsWay, TypeThread, TypeTask
  <2>2. WakeOwed'
    BY <1>13
    DEF HookPark, Departed, SetHook, NoDep, WakeOwed, TypeThread, TypeTask,
        TypeFlags, Roles
  <2> QED
    BY <2>1, <2>2, <1>13, SameAtItsSlot DEF WakeInv, HookPark
<1>14. ASSUME NEW w \in Workers, HookResched(w) PROVE WakeInv'
  <2>0. dep[w].task \in Tasks /\ parkState[dep[w].task] # "Done"
    BY <1>14 DEF HookResched, Departed, DepIsTask, DoneIsLast, Releasing
  <2>1. OnItsWay'
    BY <1>14, <2>0
    DEF HookResched, Departed, SetHook, OnItsWay, TypeThread, TypeTask
  <2>2. WakeOwed'
    BY <1>14
    DEF HookResched, Departed, SetHook, WakeOwed, TypeThread, TypeTask,
        TypeFlags, Roles
  <2> QED
    BY <2>1, <2>2, <1>14, SameAtItsSlot DEF WakeInv, HookResched
<1>15. ASSUME NEW w \in Workers, HookSchedule(w) PROVE WakeInv'
  BY <1>15, SameAtItsSlot, SameOnItsWay, SameWakeOwed
  DEF WakeInv, HookSchedule
<1>16. ASSUME NEW w \in Workers, ReleaseDone(w) PROVE WakeInv'
  <2>1. OnItsWay'
    BY <1>16
    DEF ReleaseDone, Departed, SetHook, OnItsWay, TypeThread, TypeTask
  <2>2. WakeOwed'
    BY <1>16
    DEF ReleaseDone, Departed, SetHook, WakeOwed, TypeThread, TypeTask,
        TypeFlags, Roles
  <2> QED
    BY <2>1, <2>2, <1>16, SameAtItsSlot DEF WakeInv, ReleaseDone
<1>17. ASSUME NEW w \in Workers, ReleaseUnslot(w) PROVE WakeInv'
  BY <1>17, SameAtItsSlot, SameOnItsWay, SameWakeOwed
  DEF WakeInv, ReleaseUnslot
<1>18. ASSUME NEW w \in Workers, ReleaseBumpGen(w) PROVE WakeInv'
  BY <1>18, SameAtItsSlot, SameOnItsWay, SameWakeOwed
  DEF WakeInv, ReleaseBumpGen
<1>19. ASSUME NEW w \in Workers, ReleaseFree(w) PROVE WakeInv'
  <2>1. AtItsSlot'
    BY <1>19
    DEF ReleaseFree, Departed, SetHook, AtItsSlot, TypeThread, TypeTask, Roles
  <2> QED
    BY <2>1, <1>19, SameOnItsWay, SameWakeOwed DEF WakeInv, ReleaseFree
<1>20. ASSUME NEW w \in Workers, ReleasePutSlot(w) PROVE WakeInv'
  BY <1>20, SameAtItsSlot, SameOnItsWay, SameWakeOwed
  DEF WakeInv, ReleasePutSlot
<1>21. ASSUME NEW w \in Workers, ReapBegin(w) PROVE WakeInv'
  <2>1. AtItsSlot'
    BY <1>21
    DEF ReapBegin, GoTo, AtItsSlot, TypeThread, TypeTask, Roles, Pinned
  <2>2. OnItsWay'
    BY <1>21 DEF ReapBegin, GoTo, OnItsWay, TypeThread, TypeTask
  <2>3. WakeOwed'
    BY <1>21
    DEF ReapBegin, GoTo, WakeOwed, TypeThread, TypeTask, TypeFlags, Roles
  <2> QED
    BY <2>1, <2>2, <2>3, <1>21 DEF WakeInv, ReapBegin
<1>22. ASSUME NEW w \in Workers, ReapScan(w) PROVE WakeInv'
  <2>1. AtItsSlot'
    BY <1>22 DEF ReapScan, GoTo, Pin, AtItsSlot, TypeThread, TypeTask, Roles
  <2>2. OnItsWay'
    BY <1>22 DEF ReapScan, GoTo, Pin, OnItsWay, TypeThread, TypeTask
  <2>3. WakeOwed'
    BY <1>22
    DEF ReapScan, GoTo, Pin, WakeOwed, TypeThread, TypeTask, TypeFlags, Roles
  <2> QED
    BY <2>1, <2>2, <2>3, <1>22 DEF WakeInv, ReapScan
<1>23. ASSUME NEW w \in Workers, ReapClaim(w) PROVE WakeInv'
  <2>1. AtItsSlot'
    BY <1>23 DEF ReapClaim, GoTo, AtItsSlot, TypeThread, TypeTask, Roles
  <2>2. OnItsWay'
    BY <1>23 DEF ReapClaim, GoTo, OnItsWay, TypeThread, TypeTask
  <2>3. WakeOwed'
    BY <1>23
    DEF ReapClaim, GoTo, WakeOwed, TypeThread, TypeTask, TypeFlags, Roles
  <2> QED
    BY <2>1, <2>2, <2>3, <1>23 DEF WakeInv, ReapClaim
<1>24. ASSUME NEW w \in Workers, ReapPutBack(w) PROVE WakeInv'
  <2>1. AtItsSlot'
    BY <1>24
    DEF ReapPutBack, GoTo, NextSlot, AtItsSlot, TypeThread, TypeTask, Roles
  <2>2. OnItsWay'
    BY <1>24 DEF ReapPutBack, GoTo, NextSlot, OnItsWay, TypeThread, TypeTask
  <2>3. WakeOwed'
    BY <1>24
    DEF ReapPutBack, GoTo, NextSlot, WakeOwed, TypeThread, TypeTask,
        TypeFlags, Roles
  <2> QED
    BY <2>1, <2>2, <2>3, <1>24 DEF WakeInv, ReapPutBack
<1>25. ASSUME NEW w \in Workers, ReapResched(w) PROVE WakeInv'
  <2>0. ptr[w] \in Tasks => parkState[ptr[w]] # "Done"
    BY <1>25 DEF ReapResched, DoneIsLast, Reviving
  <2>1. AtItsSlot'
    BY <1>25 DEF ReapResched, GoTo, AtItsSlot, TypeThread, TypeTask, Roles
  <2>2. OnItsWay'
    BY <1>25, <2>0 DEF ReapResched, GoTo, OnItsWay, TypeThread, TypeTask
  <2>3. WakeOwed'
    BY <1>25
    DEF ReapResched, GoTo, WakeOwed, TypeThread, TypeTask, TypeFlags, Roles
  <2> QED
    BY <2>1, <2>2, <2>3, <1>25 DEF WakeInv, ReapResched
<1>26. ASSUME NEW w \in Workers, ReapSchedule(w) PROVE WakeInv'
  <2>1. AtItsSlot'
    BY <1>26
    DEF ReapSchedule, GoTo, NextSlot, AtItsSlot, TypeThread, TypeTask, Roles
  <2>2. OnItsWay'
    BY <1>26 DEF ReapSchedule, GoTo, NextSlot, OnItsWay, TypeThread, TypeTask
  <2>3. WakeOwed'
    BY <1>26
    DEF ReapSchedule, GoTo, NextSlot, WakeOwed, TypeThread, TypeTask,
        TypeFlags, Roles
  <2> QED
    BY <2>1, <2>2, <2>3, <1>26 DEF WakeInv, ReapSchedule
<1>27. ASSUME NEW w \in Workers, ReapUnwind(w) PROVE WakeInv'
  <2>1. AtItsSlot'
    BY <1>27
    DEF ReapUnwind, GoTo, NextSlot, AtItsSlot, TypeThread, TypeTask, Roles
  <2>2. OnItsWay'
    BY <1>27 DEF ReapUnwind, GoTo, NextSlot, OnItsWay, TypeThread, TypeTask
  <2>3. WakeOwed'
    BY <1>27
    DEF ReapUnwind, GoTo, NextSlot, WakeOwed, TypeThread, TypeTask, TypeFlags,
        Roles
  <2> QED
    BY <2>1, <2>2, <2>3, <1>27 DEF WakeInv, ReapUnwind
<1>28. ASSUME NEW w \in Workers, WorkerExit(w) PROVE WakeInv'
  <2>1. AtItsSlot'
    BY <1>28 DEF WorkerExit, GoTo, AtItsSlot, TypeThread, TypeTask, Roles
  <2>2. OnItsWay'
    BY <1>28 DEF WorkerExit, GoTo, OnItsWay, TypeThread, TypeTask
  <2>3. WakeOwed'
    BY <1>28
    DEF WorkerExit, GoTo, WakeOwed, TypeThread, TypeTask, TypeFlags, Roles
  <2> QED
    BY <2>1, <2>2, <2>3, <1>28 DEF WakeInv, WorkerExit
<1>29. ASSUME NEW a \in Wakers, NEW t \in Tasks, WakeBegin(a, t) PROVE WakeInv'
  <2>1. AtItsSlot'
    BY <1>29
    DEF WakeBegin, GoTo, Pin, AtItsSlot, TypeThread, TypeTask, Roles, Pinned
  <2>2. OnItsWay'
    BY <1>29 DEF WakeBegin, GoTo, Pin, OnItsWay, TypeThread, TypeTask
  <2>3. WakeOwed'
    BY <1>29
    DEF WakeBegin, GoTo, Pin, WakeOwed, TypeThread, TypeTask, TypeFlags, Roles
  <2> QED
    BY <2>1, <2>2, <2>3, <1>29 DEF WakeInv, WakeBegin
<1>30. ASSUME NEW a \in Wakers, NEW s \in Slots, VisitBegin(a, s) PROVE WakeInv'
  <2>1. AtItsSlot'
    BY <1>30
    DEF VisitBegin, GoTo, Pin, AtItsSlot, TypeThread, TypeTask, Roles, Pinned
  <2>2. OnItsWay'
    BY <1>30 DEF VisitBegin, GoTo, Pin, OnItsWay, TypeThread, TypeTask
  <2>3. WakeOwed'
    BY <1>30
    DEF VisitBegin, GoTo, Pin, WakeOwed, TypeThread, TypeTask, TypeFlags,
        Roles
  <2> QED
    BY <2>1, <2>2, <2>3, <1>30 DEF WakeInv, VisitBegin
<1>31. ASSUME NEW a \in Threads, WakeCheckGeneration(a) PROVE WakeInv'
  <2>0. ASSUME pc'[a] = "unpin" PROVE tok[a] \in Tasks /\ parkState[tok[a]] = "Done"
    <3>1. tok[a] \in Tasks /\ at[a] = slotOf[tok[a]] /\ life[tok[a]] \in {"live", "freed"}
      BY <1>31 DEF WakeCheckGeneration, AtItsSlot, TypeThread
    <3>2. slotGen[at[a]] # genOf[tok[a]]
      BY <1>31, <2>0 DEF WakeCheckGeneration, GoTo, TypeThread
    <3>3. Bumped(tok[a])
      BY <3>1, <3>2 DEF GenIsSlots, Bumped
    <3> QED
      BY <3>1, <3>3 DEF Bumped, Leaving, ReleasedIsDone, Releasing
  <2>1. AtItsSlot'
    BY <1>31
    DEF WakeCheckGeneration, GoTo, AtItsSlot, TypeThread, TypeTask, Roles
  <2>2. OnItsWay'
    BY <1>31 DEF WakeCheckGeneration, GoTo, OnItsWay, TypeThread, TypeTask
  <2>3. WakeOwed'
    <3>1. pc' = [pc EXCEPT ![a] = pc'[a]] /\ pc'[a] \in {"load", "unpin"}
      BY <1>31 DEF WakeCheckGeneration, GoTo, TypeThread
    <3> QED
      BY <1>31, <2>0, <3>1 DEF WakeCheckGeneration, WakeOwed, TypeThread
  <2> QED
    BY <2>1, <2>2, <2>3, <1>31 DEF WakeInv, WakeCheckGeneration
<1>32. ASSUME NEW a \in Threads, LoadTask(a) PROVE WakeInv'
  <2>0. ASSUME tok[a] # NoTask, slotTask[at[a]] # tok[a] PROVE parkState[tok[a]] = "Done"
    <3>1. tok[a] \in Tasks /\ at[a] = slotOf[tok[a]] /\ life[tok[a]] \in {"live", "freed"}
      BY <2>0 DEF AtItsSlot, TypeThread
    <3> QED
      BY <2>0, <3>1 DEF InItsSlot, ReleasedIsDone
  <2>1. AtItsSlot'
    BY <1>32
    DEF LoadTask, GoTo, AfterLoad, AtItsSlot, TypeThread, TypeTask, Roles,
        SlabIsLive, TypeSlab, AtASlot, InSlab
  <2>2. OnItsWay'
    BY <1>32, <2>0
    DEF LoadTask, GoTo, AfterLoad, OnItsWay, TypeThread, TypeTask, AtItsSlot
  <2>3. WakeOwed'
    <3>1. /\ pc' = [pc EXCEPT ![a] = pc'[a]]
          /\ a \in Wakers /\ tok[a] # NoTask /\ slotTask[at[a]] # NoTask => pc'[a] = "cas"
      BY <1>32 DEF LoadTask, GoTo, AfterLoad, TypeThread
    <3> QED
      BY <1>32, <2>0, <3>1 DEF LoadTask, WakeOwed, TypeThread
  <2> QED
    BY <2>1, <2>2, <2>3, <1>32 DEF WakeInv, LoadTask
<1>33. ASSUME NEW a \in Threads, VisitRead(a) PROVE WakeInv'
  <2>1. AtItsSlot'
    BY <1>33 DEF VisitRead, GoTo, AtItsSlot, TypeThread, TypeTask, Roles
  <2>2. OnItsWay'
    BY <1>33 DEF VisitRead, GoTo, OnItsWay, TypeThread, TypeTask
  <2>3. WakeOwed'
    BY <1>33
    DEF VisitRead, GoTo, WakeOwed, TypeThread, TypeTask, TypeFlags, Roles
  <2> QED
    BY <2>1, <2>2, <2>3, <1>33 DEF WakeInv, VisitRead
<1>34. ASSUME NEW a \in Threads, WakeCas(a) PROVE WakeInv'
  <2>1. AtItsSlot'
    BY <1>34 DEF WakeCas, GoTo, AtItsSlot, TypeThread, TypeTask, Roles
  <2>2. OnItsWay'
    BY <1>34 DEF WakeCas, GoTo, OnItsWay, TypeThread, TypeTask
  <2>3. WakeOwed'
    <3>1. /\ pc' = [pc EXCEPT ![a] = pc'[a]]
          /\ ptr[a] \in Tasks /\ parkState'[ptr[a]] \in {"Notified", "Done"}
          /\ \A t \in Tasks : t # ptr[a] => parkState'[t] = parkState[t]
      BY <1>34 DEF WakeCas, GoTo, TypeThread, TypeTask, TaskState, AtItsSlot
    <3>2. \A t \in Tasks : parkState[t] \in {"Notified", "Done"} => parkState'[t] \in {"Notified", "Done"}
      BY <1>34, <3>1
    <3>3. a \in Wakers /\ tok[a] \in Tasks => parkState'[tok[a]] \in {"Notified", "Done"}
      BY <1>34, <3>1, <3>2 DEF OnItsWay, WakeCas
    <3> QED
      BY <1>34, <3>1, <3>2, <3>3 DEF WakeCas, WakeOwed, TypeThread
  <2> QED
    BY <2>1, <2>2, <2>3, <1>34 DEF WakeInv, WakeCas
<1>35. ASSUME NEW a \in Threads, WakeStore(a) PROVE WakeInv'
  <2>0. ptr[a] \in Tasks => parkState[ptr[a]] # "Done"
    BY <1>35 DEF WakeStore, DoneIsLast, Reviving
  <2>1. AtItsSlot'
    BY <1>35 DEF WakeStore, GoTo, AtItsSlot, TypeThread, TypeTask, Roles
  <2>2. OnItsWay'
    BY <1>35, <2>0 DEF WakeStore, GoTo, OnItsWay, TypeThread, TypeTask
  <2>3. WakeOwed'
    BY <1>35
    DEF WakeStore, GoTo, WakeOwed, TypeThread, TypeTask, TypeFlags, Roles
  <2> QED
    BY <2>1, <2>2, <2>3, <1>35 DEF WakeInv, WakeStore
<1>36. ASSUME NEW a \in Threads, WakeSchedule(a) PROVE WakeInv'
  <2>1. AtItsSlot'
    BY <1>36 DEF WakeSchedule, GoTo, AtItsSlot, TypeThread, TypeTask, Roles
  <2>2. OnItsWay'
    BY <1>36 DEF WakeSchedule, GoTo, OnItsWay, TypeThread, TypeTask
  <2>3. WakeOwed'
    BY <1>36
    DEF WakeSchedule, GoTo, WakeOwed, TypeThread, TypeTask, TypeFlags, Roles
  <2> QED
    BY <2>1, <2>2, <2>3, <1>36 DEF WakeInv, WakeSchedule
<1>37. ASSUME NEW a \in Threads, Unpin(a) PROVE WakeInv'
  <2>1. AtItsSlot'
    BY <1>37 DEF Unpin, GoTo, AtItsSlot, TypeThread, TypeTask, Roles
  <2>2. OnItsWay'
    BY <1>37 DEF Unpin, GoTo, OnItsWay, TypeThread, TypeTask
  <2>3. WakeOwed'
    BY <1>37 DEF Unpin, GoTo, WakeOwed, TypeThread, TypeTask, TypeFlags, Roles
  <2> QED
    BY <2>1, <2>2, <2>3, <1>37 DEF WakeInv, Unpin
<1>38. ASSUME Stop PROVE WakeInv'
  <2>1. AtItsSlot'
    BY <1>38 DEF Stop, GoTo, AtItsSlot, TypeThread, TypeTask, Roles
  <2>2. OnItsWay'
    BY <1>38 DEF Stop, GoTo, OnItsWay, TypeThread, TypeTask
  <2>3. WakeOwed'
    BY <1>38 DEF Stop, GoTo, WakeOwed, TypeThread, TypeTask, TypeFlags, Roles
  <2> QED
    BY <2>1, <2>2, <2>3, <1>38 DEF WakeInv, Stop
<1>39. ASSUME StopScan PROVE WakeInv'
  <2>1. AtItsSlot'
    BY <1>39 DEF StopScan, GoTo, Pin, AtItsSlot, TypeThread, TypeTask, Roles
  <2>2. OnItsWay'
    BY <1>39 DEF StopScan, GoTo, Pin, OnItsWay, TypeThread, TypeTask
  <2>3. WakeOwed'
    BY <1>39
    DEF StopScan, GoTo, Pin, WakeOwed, TypeThread, TypeTask, TypeFlags, Roles
  <2> QED
    BY <2>1, <2>2, <2>3, <1>39 DEF WakeInv, StopScan
<1>40. ASSUME Stopped PROVE WakeInv'
  BY <1>40, SameAtItsSlot, SameOnItsWay, SameWakeOwed
  DEF WakeInv, Stopped, vars
<1>50. CASE UNCHANGED vars
  BY <1>50, SameAtItsSlot, SameOnItsWay, SameWakeOwed DEF vars, WakeInv
<1> QED
  BY <1>1, <1>2, <1>3, <1>4, <1>5, <1>6, <1>7, <1>8, <1>9, <1>10, <1>11,
     <1>12, <1>13, <1>14, <1>15, <1>16, <1>17, <1>18, <1>19, <1>20, <1>21,
     <1>22, <1>23, <1>24, <1>25, <1>26, <1>27, <1>28, <1>29, <1>30, <1>31,
     <1>32, <1>33, <1>34, <1>35, <1>36, <1>37, <1>38, <1>39, <1>40, <1>50
  DEF Next, Spawning, Body, HookStep, SlabStep, ReapStep

\* The slot and the wake-up part are invariant as well.
LEMMA WakeInvariant == Spec => [](TypeInv /\ OnceInv /\ FreeInv /\ SlotInv /\ WakeInv)
  BY FreeInvariant, SlotInit, SlotStep, WakeInit, WakeStep, PTL DEF Spec

\* NoLostWake for every instance: WakeToken::wake() is sticky whatever the
\* post-switch hook, the reaper and other wakers do meanwhile.
THEOREM WakeIsSticky == Spec => []NoLostWake
<1>1. WakeInv => NoLostWake
  BY DEF WakeInv, WakeOwed, NoLostWake
<1> QED
  BY <1>1, WakeInvariant, PTL

-----------------------------------------------------------------------------
(* Stale tokens.  A slot's generation tells its tasks apart as long as it  *)
(* has not come round: while no more tasks have lived than it has values.  *)

BumpedIn(s) == {t \in Tasks : Bumped(t) /\ slotOf[t] = s}

\* While a task is still to give up its slot, no generation has come round.
GenCounts ==
    (\E u \in Tasks : ~Bumped(u)) =>
        \A s \in Slots : slotGen[s] = Cardinality(BumpedIn(s))

\* The generation of a task that has gone lies behind its slot's.
GoneIsBehind ==
    \A t \in Tasks : Bumped(t) => genOf[t] < Cardinality(BumpedIn(slotOf[t]))

\* Past the generation check a token's task is live, and is what gets loaded.
TokenIsLive ==
    \A a \in Wakers : tok[a] # NoTask =>
        /\ pc[a] = "load" => life[tok[a]] = "live" \/ \A u \in Tasks : Bumped(u)
        /\ ptr[a] # NoTask => ptr[a] = tok[a]

Generations == GenCounts /\ GoneIsBehind
TokenInv == Generations /\ TokenIsLive

\* Tasks other than one are fewer than the generation has values.
LEMMA OthersAreFewer ==
    ASSUME IsFiniteSet(Tasks), Cardinality(Tasks) <= GenModulus,
           NEW u \in Tasks, NEW S \in SUBSET Tasks, u \notin S
    PROVE  IsFiniteSet(S) /\ Cardinality(S) \in 0 .. GenModulus - 1
<1>1. IsFiniteSet(Tasks \ {u}) /\ Cardinality(Tasks \ {u}) = Cardinality(Tasks) - 1
  BY FS_RemoveElement
<1>2. IsFiniteSet(S) /\ Cardinality(S) <= Cardinality(Tasks \ {u})
  BY <1>1, FS_Subset
<1>3. Cardinality(Tasks) \in Nat /\ Cardinality(S) \in Nat
  BY <1>2, FS_CardinalityType
<1> QED
  BY <1>1, <1>2, <1>3, GenModulusPositive

\* No task has gone to begin with.
LEMMA TokenInit == Init => TokenInv
<1> SUFFICES ASSUME Init PROVE TokenInv
  OBVIOUS
<1>1. \A t \in Tasks : ~Bumped(t)
  BY DEF Init, Bumped, Leaving, NoDep
<1>2. \A s \in Slots : BumpedIn(s) = {}
  BY <1>1 DEF BumpedIn
<1>3. GenCounts
  BY <1>2, FS_EmptySet DEF GenCounts, Init
<1> QED
  BY <1>1, <1>3
  DEF TokenInv, Generations, GoneIsBehind, TokenIsLive, Init, Threads

\* A step after which the same tasks are gone leaves the generations right.
LEMMA SameGone ==
    ASSUME Generations, slotGen' = slotGen,
           \A u \in Tasks : Bumped(u)' <=> Bumped(u),
           \A u \in Tasks : Bumped(u) => slotOf'[u] = slotOf[u] /\ genOf'[u] = genOf[u]
    PROVE  Generations'
<1>1. \A s : BumpedIn(s)' = BumpedIn(s)
  BY DEF BumpedIn
<1> QED
  BY <1>1 DEF Generations, GenCounts, GoneIsBehind

\* One more task gone from slot s is one more to count.
LEMMA OneMoreGone ==
    ASSUME IsFiniteSet(Tasks), NEW d \in Tasks, ~Bumped(d),
           \A u \in Tasks : Bumped(u)' <=> Bumped(u) \/ u = d, slotOf' = slotOf
    PROVE  /\ Cardinality(BumpedIn(slotOf[d]))' = Cardinality(BumpedIn(slotOf[d])) + 1
           /\ Cardinality(BumpedIn(slotOf[d])) \in Nat
           /\ \A s : s # slotOf[d] => BumpedIn(s)' = BumpedIn(s)
<1>1. BumpedIn(slotOf[d])' = BumpedIn(slotOf[d]) \cup {d} /\ d \notin BumpedIn(slotOf[d])
  BY DEF BumpedIn
<1>2. \A s : s # slotOf[d] => BumpedIn(s)' = BumpedIn(s)
  BY DEF BumpedIn
<1>3. IsFiniteSet(BumpedIn(slotOf[d]))
  BY FS_Subset DEF BumpedIn
<1>4. Cardinality(BumpedIn(slotOf[d])) \in Nat
  BY <1>3, FS_CardinalityType
<1>5. Cardinality(BumpedIn(slotOf[d]) \cup {d}) = Cardinality(BumpedIn(slotOf[d])) + 1
  BY <1>1, <1>3, FS_AddElement
<1> QED
  BY <1>1, <1>2, <1>4, <1>5

\* A task that gives up its slot takes the generation with it.
LEMMA GenerationTaken ==
    ASSUME IsFiniteSet(Tasks), Cardinality(Tasks) <= GenModulus,
           TypeTask, TypeSlab, Generations, GenIsSlots,
           NEW d \in Tasks, life[d] = "live", ~Bumped(d),
           \A u \in Tasks : Bumped(u)' <=> Bumped(u) \/ u = d,
           slotOf' = slotOf, genOf' = genOf,
           slotGen' = [slotGen EXCEPT ![slotOf[d]] = (@ + 1) % GenModulus]
    PROVE  Generations'
<1> DEFINE c == Cardinality(BumpedIn(slotOf[d]))
<1>1. c \in Nat /\ Cardinality(BumpedIn(slotOf[d]))' = c + 1
  BY OneMoreGone
<1>2. slotOf[d] \in Slots /\ slotGen[slotOf[d]] = c /\ genOf[d] = c
  BY DEF Generations, GenCounts, GenIsSlots, TypeTask
<1>3. \A s : s # slotOf[d] => BumpedIn(s)' = BumpedIn(s)
  BY OneMoreGone
<1>4. GoneIsBehind'
  <2> SUFFICES ASSUME NEW t \in Tasks, Bumped(t)'
               PROVE  genOf[t] < Cardinality(BumpedIn(slotOf[t]))'
    BY DEF GoneIsBehind
  <2>1. genOf[t] \in Nat
    BY GenModulusPositive DEF TypeTask
  <2>2. CASE t = d
    BY <1>1, <1>2, <2>2
  <2>3. CASE t # d /\ slotOf[t] = slotOf[d]
    <3>1. genOf[t] < c
      BY <2>3 DEF Generations, GoneIsBehind
    <3>2. genOf[t] < c + 1
      BY <1>1, <2>1, <3>1
    <3> QED
      BY <1>1, <2>3, <3>2
  <2>4. CASE t # d /\ slotOf[t] # slotOf[d]
    BY <1>3, <2>4 DEF Generations, GoneIsBehind
  <2> QED
    BY <2>2, <2>3, <2>4
<1>5. GenCounts'
  <2> SUFFICES ASSUME NEW u \in Tasks, ~Bumped(u)', NEW s \in Slots
               PROVE  slotGen'[s] = Cardinality(BumpedIn(s))'
    BY DEF GenCounts
  <2>1. CASE s # slotOf[d]
    BY <1>3, <2>1 DEF Generations, GenCounts, TypeSlab
  <2>2. CASE s = slotOf[d]
    <3>1. u \notin BumpedIn(s)' /\ BumpedIn(s)' \in SUBSET Tasks
      BY DEF BumpedIn
    <3>2. Cardinality(BumpedIn(s)') \in 0 .. GenModulus - 1
      BY <3>1, OthersAreFewer
    <3>3. c + 1 \in 0 .. GenModulus - 1
      BY <1>1, <2>2, <3>2
    <3>4. (c + 1) % GenModulus = c + 1
      BY <1>1, <3>3, GenModulusPositive
    <3> QED
      BY <1>1, <1>2, <2>2, <3>4 DEF TypeSlab
  <2> QED
    BY <2>1, <2>2
<1> QED
  BY <1>4, <1>5 DEF Generations

\* Generations is about these variables only.
LEMMA SameGenerations ==
    Generations /\ UNCHANGED <<life, dep, slotGen, slotOf, genOf>> => Generations'
  BY DEF Generations, GenCounts, GoneIsBehind, BumpedIn, Bumped, Leaving

\* The same for TokenIsLive.
LEMMA SameTokenIsLive ==
    TokenIsLive /\ UNCHANGED <<tok, pc, life, ptr, dep>> => TokenIsLive'
  BY DEF TokenIsLive, Bumped, Leaving

\* Every step keeps the generations apart.
LEMMA TokenStep ==
    ASSUME IsFiniteSet(Tasks), Cardinality(Tasks) <= GenModulus
    PROVE  TypeInv /\ OnceInv /\ FreeInv /\ SlotInv /\ WakeInv /\ TokenInv /\ [Next]_vars
             => TokenInv'
<1> SUFFICES ASSUME TypeInv, OnceInv, FreeInv, SlotInv, WakeInv, TokenInv, [Next]_vars
             PROVE  TokenInv'
  OBVIOUS
<1>a. /\ TypeTask /\ TypeSlab /\ TypeRun /\ TypeThread /\ AtASlot /\ DepIsTask
      /\ NotYetRun /\ Once /\ SlabIsLive /\ Pinned /\ FreedIsGone /\ ExitedIsIdle
      /\ SlotOwned /\ ReleasedIsDone /\ GenIsSlots /\ AtItsSlot
      /\ Generations /\ TokenIsLive
  BY DEF TypeInv, TypeOK, OnceInv, FreeInv, SlotInv, WakeInv, TokenInv
<1> USE <1>a, ConstantsAreDistinct
<1> USE DEF Threads
<1>1. ASSUME NEW t \in Tasks, SpawnCreate(t) PROVE TokenInv'
  <2>0. \A u \in Tasks : Bumped(u)' <=> Bumped(u)
    BY <1>1
    DEF SpawnCreate, Bumped, Leaving, TypeTask, TypeRun, NotYetRun, Untouched,
        Unheld
  <2>1. Generations'
    BY <1>1, <2>0, SameGone
    DEF SpawnCreate, TypeTask, Bumped, Leaving, NotYetRun, Untouched, Unheld
  <2>2. TokenIsLive'
    BY <1>1, <2>0 DEF SpawnCreate, TokenIsLive, TypeTask, TypeThread, AtItsSlot
  <2> QED
    BY <2>1, <2>2, <1>1 DEF TokenInv, SpawnCreate
<1>2. ASSUME NEW t \in Tasks, SpawnFail(t) PROVE TokenInv'
  <2>0. \A u \in Tasks : Bumped(u)' <=> Bumped(u)
    BY <1>2 DEF SpawnFail, Bumped, Leaving, TypeTask, TypeRun
  <2>1. Generations'
    BY <1>2, <2>0, SameGone DEF SpawnFail
  <2>2. TokenIsLive'
    BY <1>2, <2>0 DEF SpawnFail, TokenIsLive, TypeTask, TypeThread, AtItsSlot
  <2> QED
    BY <2>1, <2>2, <1>2 DEF TokenInv, SpawnFail
<1>3. ASSUME NEW t \in Tasks, SpawnPublish(t) PROVE TokenInv'
  <2>0. \A u \in Tasks : Bumped(u)' <=> Bumped(u)
    BY <1>3 DEF SpawnPublish, Bumped, Leaving, TypeTask, TypeRun
  <2>1. Generations'
    BY <1>3, <2>0, SameGone DEF SpawnPublish
  <2>2. TokenIsLive'
    BY <1>3, <2>0 DEF SpawnPublish, TokenIsLive, TypeTask, TypeThread, AtItsSlot
  <2> QED
    BY <2>1, <2>2, <1>3 DEF TokenInv, SpawnPublish
<1>4. ASSUME NEW t \in Tasks, SpawnSchedule(t) PROVE TokenInv'
  <2>0. \A u \in Tasks : Bumped(u)' <=> Bumped(u)
    BY <1>4 DEF SpawnSchedule, Bumped, Leaving, TypeTask, TypeRun
  <2>1. Generations'
    BY <1>4, <2>0, SameGone DEF SpawnSchedule
  <2>2. TokenIsLive'
    BY <1>4, <2>0 DEF SpawnSchedule, TokenIsLive, TypeTask, TypeThread, AtItsSlot
  <2> QED
    BY <2>1, <2>2, <1>4 DEF TokenInv, SpawnSchedule
<1>5. ASSUME NEW t \in Tasks, Destroy(t) PROVE TokenInv'
  <2>d. life[t] = "live" /\ ~Bumped(t)
    BY <1>5 DEF Destroy, Bumped, Leaving, ExitedIsIdle, NoDep
  <2>e. \A u \in Tasks : Bumped(u)' <=> Bumped(u) \/ u = t
    BY <1>5 DEF Destroy, Bumped, Leaving, TypeTask
  <2>1. Generations'
    BY <1>5, <2>d, <2>e, GenerationTaken DEF Destroy
  <2>2. TokenIsLive'
    BY <1>5 DEF Destroy, TokenIsLive, Pinned
  <2> QED
    BY <2>1, <2>2, <1>5 DEF TokenInv, Destroy
<1>6. ASSUME NEW w \in Workers, Dispatch(w) PROVE TokenInv'
  BY <1>6, SameGenerations, SameTokenIsLive DEF TokenInv, Dispatch
<1>7. ASSUME NEW w \in Workers, NEW t \in Tasks, Yield(w, t) PROVE TokenInv'
  <2>0. \A u \in Tasks : Bumped(u)' <=> Bumped(u)
    BY <1>7
    DEF Yield, SwitchAway, Arrive, OnCpu, NoDep, Bumped, Leaving, TypeTask,
        TypeRun
  <2>1. Generations'
    BY <1>7, <2>0, SameGone DEF Yield, SwitchAway
  <2>2. TokenIsLive'
    BY <1>7, <2>0 DEF Yield, TokenIsLive, TypeTask, TypeThread, SwitchAway
  <2> QED
    BY <2>1, <2>2, <1>7 DEF TokenInv, Yield
<1>8. ASSUME NEW w \in Workers, NEW t \in Tasks, ParkConsume(w, t) PROVE TokenInv'
  BY <1>8, SameGenerations, SameTokenIsLive DEF TokenInv, ParkConsume
<1>9. ASSUME NEW w \in Workers, NEW t \in Tasks, Park(w, t) PROVE TokenInv'
  <2>0. \A u \in Tasks : Bumped(u)' <=> Bumped(u)
    BY <1>9
    DEF Park, SwitchAway, Arrive, OnCpu, NoDep, Bumped, Leaving, TypeTask,
        TypeRun
  <2>1. Generations'
    BY <1>9, <2>0, SameGone DEF Park, SwitchAway
  <2>2. TokenIsLive'
    BY <1>9, <2>0 DEF Park, TokenIsLive, TypeTask, TypeThread, SwitchAway
  <2> QED
    BY <2>1, <2>2, <1>9 DEF TokenInv, Park
<1>10. ASSUME NEW w \in Workers, NEW t \in Tasks, Finish(w, t) PROVE TokenInv'
  <2>0. \A u \in Tasks : Bumped(u)' <=> Bumped(u)
    BY <1>10
    DEF Finish, SwitchAway, Arrive, OnCpu, NoDep, Bumped, Leaving, TypeTask,
        TypeRun
  <2>1. Generations'
    BY <1>10, <2>0, SameGone DEF Finish, SwitchAway
  <2>2. TokenIsLive'
    BY <1>10, <2>0 DEF Finish, TokenIsLive, TypeTask, TypeThread, SwitchAway
  <2> QED
    BY <2>1, <2>2, <1>10 DEF TokenInv, Finish
<1>11. ASSUME NEW w \in Workers, NEW t \in Tasks, ToggleShield(w, t) PROVE TokenInv'
  BY <1>11, SameGenerations, SameTokenIsLive DEF TokenInv, ToggleShield
<1>12. ASSUME NEW w \in Workers, HookYield(w) PROVE TokenInv'
  <2>0. \A u \in Tasks : Bumped(u)' <=> Bumped(u)
    BY <1>12 DEF HookYield, Departed, NoDep, Bumped, Leaving, TypeTask, TypeRun
  <2>1. Generations'
    BY <1>12, <2>0, SameGone DEF HookYield
  <2>2. TokenIsLive'
    BY <1>12, <2>0 DEF HookYield, TokenIsLive, TypeTask, TypeThread
  <2> QED
    BY <2>1, <2>2, <1>12 DEF TokenInv, HookYield
<1>13. ASSUME NEW w \in Workers, HookPark(w) PROVE TokenInv'
  <2>0. \A u \in Tasks : Bumped(u)' <=> Bumped(u)
    BY <1>13
    DEF HookPark, Departed, SetHook, NoDep, Bumped, Leaving, TypeTask, TypeRun
  <2>1. Generations'
    BY <1>13, <2>0, SameGone DEF HookPark
  <2>2. TokenIsLive'
    BY <1>13, <2>0 DEF HookPark, TokenIsLive, TypeTask, TypeThread
  <2> QED
    BY <2>1, <2>2, <1>13 DEF TokenInv, HookPark
<1>14. ASSUME NEW w \in Workers, HookResched(w) PROVE TokenInv'
  <2>0. \A u \in Tasks : Bumped(u)' <=> Bumped(u)
    BY <1>14
    DEF HookResched, Departed, SetHook, Bumped, Leaving, TypeTask, TypeRun
  <2>1. Generations'
    BY <1>14, <2>0, SameGone DEF HookResched
  <2>2. TokenIsLive'
    BY <1>14, <2>0 DEF HookResched, TokenIsLive, TypeTask, TypeThread
  <2> QED
    BY <2>1, <2>2, <1>14 DEF TokenInv, HookResched
<1>15. ASSUME NEW w \in Workers, HookSchedule(w) PROVE TokenInv'
  <2>0. \A u \in Tasks : Bumped(u)' <=> Bumped(u)
    BY <1>15
    DEF HookSchedule, Departed, NoDep, Bumped, Leaving, TypeTask, TypeRun
  <2>1. Generations'
    BY <1>15, <2>0, SameGone DEF HookSchedule
  <2>2. TokenIsLive'
    BY <1>15, <2>0 DEF HookSchedule, TokenIsLive, TypeTask, TypeThread
  <2> QED
    BY <2>1, <2>2, <1>15 DEF TokenInv, HookSchedule
<1>16. ASSUME NEW w \in Workers, ReleaseDone(w) PROVE TokenInv'
  <2>0. \A u \in Tasks : Bumped(u)' <=> Bumped(u)
    BY <1>16
    DEF ReleaseDone, Departed, SetHook, Bumped, Leaving, TypeTask, TypeRun
  <2>1. Generations'
    BY <1>16, <2>0, SameGone DEF ReleaseDone
  <2>2. TokenIsLive'
    BY <1>16, <2>0 DEF ReleaseDone, TokenIsLive, TypeTask, TypeThread
  <2> QED
    BY <2>1, <2>2, <1>16 DEF TokenInv, ReleaseDone
<1>17. ASSUME NEW w \in Workers, ReleaseUnslot(w) PROVE TokenInv'
  <2>0. \A u \in Tasks : Bumped(u)' <=> Bumped(u)
    BY <1>17
    DEF ReleaseUnslot, Departed, SetHook, Bumped, Leaving, TypeTask, TypeRun
  <2>1. Generations'
    BY <1>17, <2>0, SameGone DEF ReleaseUnslot
  <2>2. TokenIsLive'
    BY <1>17, <2>0 DEF ReleaseUnslot, TokenIsLive, TypeTask, TypeThread
  <2> QED
    BY <2>1, <2>2, <1>17 DEF TokenInv, ReleaseUnslot
<1>18. ASSUME NEW w \in Workers, ReleaseBumpGen(w) PROVE TokenInv'
  <2>a. dep[w].hook # "none"
    BY <1>18 DEF ReleaseBumpGen, Departed
  <2>b. /\ \A v \in Workers : v # w => dep'[v] = dep[v]
        /\ dep'[w].task = dep[w].task /\ dep'[w].hook = "awaitPins"
    BY <1>18 DEF ReleaseBumpGen, Departed, SetHook, TypeRun
  <2>c. life[dep[w].task] = "live"
    BY <1>18, <2>a, DepartedAlone
    DEF ReleaseBumpGen, Departed, FreedIsGone, NotYetRun, Untouched, Unheld, TypeTask, Life
  <2>d. ~Bumped(dep[w].task)
    BY <1>18, <2>a, <2>c, DepartedAlone DEF ReleaseBumpGen, Departed, Bumped, Leaving
  <2>e. \A u \in Tasks : Bumped(u)' <=> Bumped(u) \/ u = dep[w].task
    BY <1>18, <2>b DEF ReleaseBumpGen, Departed, Bumped, Leaving
  <2>1. Generations'
    BY <1>18, <2>a, <2>c, <2>d, <2>e, DepartedAlone, GenerationTaken DEF ReleaseBumpGen
  <2>2. TokenIsLive'
    BY <1>18, <2>e DEF ReleaseBumpGen, TokenIsLive
  <2> QED
    BY <2>1, <2>2, <1>18 DEF TokenInv, ReleaseBumpGen
<1>19. ASSUME NEW w \in Workers, ReleaseFree(w) PROVE TokenInv'
  <2>0. \A u \in Tasks : Bumped(u)' <=> Bumped(u)
    BY <1>19
    DEF ReleaseFree, Departed, SetHook, Bumped, Leaving, TypeTask, TypeRun
  <2>1. Generations'
    BY <1>19, <2>0, SameGone DEF ReleaseFree
  <2>2. TokenIsLive'
    <3>1. \A a \in Wakers : tok[a] = dep[w].task /\ tok[a] # NoTask => pc[a] # "load"
      BY <1>19 DEF ReleaseFree, Pinned, AtItsSlot
    <3>2. \A u \in Tasks : u # dep[w].task => life'[u] = life[u]
      BY <1>19 DEF ReleaseFree, TypeTask
    <3> QED
      BY <1>19, <2>0, <3>1, <3>2 DEF ReleaseFree, TokenIsLive, TypeThread
  <2> QED
    BY <2>1, <2>2, <1>19 DEF TokenInv, ReleaseFree
<1>20. ASSUME NEW w \in Workers, ReleasePutSlot(w) PROVE TokenInv'
  <2>0. \A u \in Tasks : Bumped(u)' <=> Bumped(u)
    BY <1>20
    DEF ReleasePutSlot, Departed, NoDep, Bumped, Leaving, TypeTask, TypeRun,
        ReleasedIsDone
  <2>1. Generations'
    BY <1>20, <2>0, SameGone DEF ReleasePutSlot
  <2>2. TokenIsLive'
    BY <1>20, <2>0 DEF ReleasePutSlot, TokenIsLive, TypeTask, TypeThread
  <2> QED
    BY <2>1, <2>2, <1>20 DEF TokenInv, ReleasePutSlot
<1>21. ASSUME NEW w \in Workers, ReapBegin(w) PROVE TokenInv'
  <2>1. TokenIsLive'
    BY <1>21
    DEF ReapBegin, GoTo, TokenIsLive, TypeThread, TypeTask, Bumped, Leaving,
        TypeRun
  <2> QED
    BY <2>1, <1>21, SameGenerations DEF TokenInv, ReapBegin
<1>22. ASSUME NEW w \in Workers, ReapScan(w) PROVE TokenInv'
  <2>1. TokenIsLive'
    BY <1>22
    DEF ReapScan, GoTo, Pin, TokenIsLive, TypeThread, TypeTask, Bumped,
        Leaving, TypeRun
  <2> QED
    BY <2>1, <1>22, SameGenerations DEF TokenInv, ReapScan
<1>23. ASSUME NEW w \in Workers, ReapClaim(w) PROVE TokenInv'
  <2>1. TokenIsLive'
    BY <1>23
    DEF ReapClaim, GoTo, TokenIsLive, TypeThread, TypeTask, Bumped, Leaving,
        TypeRun
  <2> QED
    BY <2>1, <1>23, SameGenerations DEF TokenInv, ReapClaim
<1>24. ASSUME NEW w \in Workers, ReapPutBack(w) PROVE TokenInv'
  <2>1. TokenIsLive'
    BY <1>24
    DEF ReapPutBack, GoTo, NextSlot, TokenIsLive, TypeThread, TypeTask,
        Bumped, Leaving, TypeRun
  <2> QED
    BY <2>1, <1>24, SameGenerations DEF TokenInv, ReapPutBack
<1>25. ASSUME NEW w \in Workers, ReapResched(w) PROVE TokenInv'
  <2>1. TokenIsLive'
    BY <1>25
    DEF ReapResched, GoTo, TokenIsLive, TypeThread, TypeTask, Bumped, Leaving,
        TypeRun
  <2> QED
    BY <2>1, <1>25, SameGenerations DEF TokenInv, ReapResched
<1>26. ASSUME NEW w \in Workers, ReapSchedule(w) PROVE TokenInv'
  <2>1. TokenIsLive'
    BY <1>26
    DEF ReapSchedule, GoTo, NextSlot, TokenIsLive, TypeThread, TypeTask,
        Bumped, Leaving, TypeRun
  <2> QED
    BY <2>1, <1>26, SameGenerations DEF TokenInv, ReapSchedule
<1>27. ASSUME NEW w \in Workers, ReapUnwind(w) PROVE TokenInv'
  <2>1. TokenIsLive'
    BY <1>27
    DEF ReapUnwind, GoTo, NextSlot, TokenIsLive, TypeThread, TypeTask, Bumped,
        Leaving, TypeRun
  <2> QED
    BY <2>1, <1>27, SameGenerations DEF TokenInv, ReapUnwind
<1>28. ASSUME NEW w \in Workers, WorkerExit(w) PROVE TokenInv'
  <2>1. TokenIsLive'
    BY <1>28
    DEF WorkerExit, GoTo, TokenIsLive, TypeThread, TypeTask, Bumped, Leaving,
        TypeRun
  <2> QED
    BY <2>1, <1>28, SameGenerations DEF TokenInv, WorkerExit
<1>29. ASSUME NEW a \in Wakers, NEW t \in Tasks, WakeBegin(a, t) PROVE TokenInv'
  <2>1. TokenIsLive'
    BY <1>29 DEF WakeBegin, GoTo, TokenIsLive, Pinned, TypeThread, Bumped, Leaving
  <2> QED
    BY <2>1, <1>29, SameGenerations DEF TokenInv, WakeBegin
<1>30. ASSUME NEW a \in Wakers, NEW s \in Slots, VisitBegin(a, s) PROVE TokenInv'
  <2>1. TokenIsLive'
    BY <1>30 DEF VisitBegin, GoTo, TokenIsLive, AtItsSlot, TypeThread, Bumped, Leaving
  <2> QED
    BY <2>1, <1>30, SameGenerations DEF TokenInv, VisitBegin
<1>31. ASSUME NEW a \in Threads, WakeCheckGeneration(a) PROVE TokenInv'
  <2>1. TokenIsLive'
    <3>1. \A u \in Tasks : Bumped(u)' <=> Bumped(u)
      BY <1>31 DEF WakeCheckGeneration, Bumped, Leaving
    <3>2. ASSUME slotGen[at[a]] = genOf[tok[a]], NEW u \in Tasks, ~Bumped(u) PROVE life[tok[a]] = "live"
      <4>1. tok[a] \in Tasks /\ at[a] = slotOf[tok[a]] /\ life[tok[a]] \in {"live", "freed"}
        BY <1>31 DEF WakeCheckGeneration, AtItsSlot, TypeThread
      <4>2. slotGen[at[a]] = Cardinality(BumpedIn(at[a])) /\ slotGen[at[a]] \in Nat
        BY <1>31, <3>2, GenModulusPositive
        DEF WakeCheckGeneration, Generations, GenCounts, AtASlot, InSlab, TypeSlab
      <4>3. ~Bumped(tok[a])
        BY <3>2, <4>1, <4>2 DEF Generations, GoneIsBehind
      <4> QED
        BY <4>1, <4>3 DEF Bumped
    <3> QED
      BY <1>31, <3>1, <3>2 DEF WakeCheckGeneration, GoTo, TokenIsLive, TypeThread
  <2> QED
    BY <2>1, <1>31, SameGenerations DEF TokenInv, WakeCheckGeneration
<1>32. ASSUME NEW a \in Threads, LoadTask(a) PROVE TokenInv'
  <2>1. TokenIsLive'
    <3>1. \A u \in Tasks : Bumped(u)' <=> Bumped(u)
      BY <1>32 DEF LoadTask, Bumped, Leaving
    <3>2. ASSUME a \in Wakers, tok[a] # NoTask, slotTask[at[a]] # NoTask PROVE slotTask[at[a]] = tok[a]
      <4> DEFINE u == slotTask[at[a]]
      <4>1. /\ at[a] \in Slots /\ u \in Tasks
            /\ tok[a] \in Tasks /\ at[a] = slotOf[tok[a]]
        BY <1>32, <3>2 DEF LoadTask, AtASlot, InSlab, AtItsSlot, TypeSlab, TypeThread
      <4>2. slotOf[u] = at[a] /\ HasSlot(u) /\ ~Bumped(u)
        BY <4>1 DEF SlabIsLive, HasSlot, Bumped, Leaving
      <4>3. HasSlot(tok[a])
        BY <1>32, <3>2, <4>1, <4>2 DEF LoadTask, TokenIsLive, HasSlot
      <4> QED
        BY <4>1, <4>2, <4>3 DEF SlotOwned
    <3> QED
      BY <1>32, <3>1, <3>2 DEF LoadTask, GoTo, AfterLoad, TokenIsLive, TypeThread
  <2> QED
    BY <2>1, <1>32, SameGenerations DEF TokenInv, LoadTask
<1>33. ASSUME NEW a \in Threads, VisitRead(a) PROVE TokenInv'
  <2>1. TokenIsLive'
    BY <1>33
    DEF VisitRead, GoTo, TokenIsLive, TypeThread, TypeTask, Bumped, Leaving,
        TypeRun
  <2> QED
    BY <2>1, <1>33, SameGenerations DEF TokenInv, VisitRead
<1>34. ASSUME NEW a \in Threads, WakeCas(a) PROVE TokenInv'
  <2>1. TokenIsLive'
    BY <1>34
    DEF WakeCas, GoTo, TokenIsLive, TypeThread, TypeTask, Bumped, Leaving,
        TypeRun
  <2> QED
    BY <2>1, <1>34, SameGenerations DEF TokenInv, WakeCas
<1>35. ASSUME NEW a \in Threads, WakeStore(a) PROVE TokenInv'
  <2>1. TokenIsLive'
    BY <1>35
    DEF WakeStore, GoTo, TokenIsLive, TypeThread, TypeTask, Bumped, Leaving,
        TypeRun
  <2> QED
    BY <2>1, <1>35, SameGenerations DEF TokenInv, WakeStore
<1>36. ASSUME NEW a \in Threads, WakeSchedule(a) PROVE TokenInv'
  <2>1. TokenIsLive'
    BY <1>36
    DEF WakeSchedule, GoTo, TokenIsLive, TypeThread, TypeTask, Bumped,
        Leaving, TypeRun
  <2> QED
    BY <2>1, <1>36, SameGenerations DEF TokenInv, WakeSchedule
<1>37. ASSUME NEW a \in Threads, Unpin(a) PROVE TokenInv'
  <2>1. TokenIsLive'
    BY <1>37
    DEF Unpin, GoTo, TokenIsLive, TypeThread, TypeTask, Bumped, Leaving,
        TypeRun
  <2> QED
    BY <2>1, <1>37, SameGenerations DEF TokenInv, Unpin
<1>38. ASSUME Stop PROVE TokenInv'
  <2>1. TokenIsLive'
    BY <1>38
    DEF Stop, GoTo, TokenIsLive, TypeThread, TypeTask, Bumped, Leaving,
        TypeRun
  <2> QED
    BY <2>1, <1>38, SameGenerations DEF TokenInv, Stop
<1>39. ASSUME StopScan PROVE TokenInv'
  <2>1. TokenIsLive'
    BY <1>39
    DEF StopScan, GoTo, Pin, TokenIsLive, TypeThread, TypeTask, Bumped,
        Leaving, TypeRun
  <2> QED
    BY <2>1, <1>39, SameGenerations DEF TokenInv, StopScan
<1>40. ASSUME Stopped PROVE TokenInv'
  BY <1>40, SameGenerations, SameTokenIsLive DEF TokenInv, Stopped, vars
<1>50. CASE UNCHANGED vars
  BY <1>50, SameGenerations, SameTokenIsLive DEF vars, TokenInv
<1> QED
  BY <1>1, <1>2, <1>3, <1>4, <1>5, <1>6, <1>7, <1>8, <1>9, <1>10, <1>11,
     <1>12, <1>13, <1>14, <1>15, <1>16, <1>17, <1>18, <1>19, <1>20, <1>21,
     <1>22, <1>23, <1>24, <1>25, <1>26, <1>27, <1>28, <1>29, <1>30, <1>31,
     <1>32, <1>33, <1>34, <1>35, <1>36, <1>37, <1>38, <1>39, <1>40, <1>50
  DEF Next, Spawning, Body, HookStep, SlabStep, ReapStep

\* TokenReachesItsTask for every instance in which no more tasks live than
\* TaskSlot::generation has values: WakeToken::wake() on a stale token wakes
\* nobody.  Past that number a token may be taken for a later task's.
THEOREM TokenIsExact ==
    ASSUME IsFiniteSet(Tasks), Cardinality(Tasks) <= GenModulus
    PROVE  Spec => []TokenReachesItsTask
<1>1. TokenInv => TokenReachesItsTask
  BY DEF TokenInv, TokenIsLive, TokenReachesItsTask
<1>2. TypeInv /\ OnceInv /\ FreeInv /\ SlotInv /\ WakeInv /\ TokenInv /\ [Next]_vars
        => TokenInv'
  BY TokenStep
<1> QED
  BY <1>1, <1>2, WakeInvariant, TokenInit, PTL DEF Spec

-----------------------------------------------------------------------------
(* The scan of stop().                                                     *)

\* stop()'s thread is outside the slab until stop() is called and after the
\* scan; parkedWoken says that the scan is over, and workers reap only then.
ScanThenReap ==
    /\ pc[Stopper] \in {"idle", "scan", "load", "cas", "store", "sched",
                        "unpin", "exited"}
    /\ ~stopping => pc[Stopper] = "idle" /\ at[Stopper] = 0
    /\ parkedWoken => stopping /\ at[Stopper] = MaxTasks
    /\ \A w \in Workers : pc[w] \notin {"idle", "exited"} => parkedWoken

\* wakeAllParked() is through with the slot of t.
Passed(t) ==
    /\ stopping
    /\ \/ slotOf[t] < at[Stopper]
       \/ slotOf[t] = at[Stopper] /\ pc[Stopper] \in {"store", "sched", "unpin"}

\* t is not Parked, and runs before it is again: it has yet to be scheduled,
\* has a token, has ended, or is queued or about to be.
RunsFirst(t) ==
    \/ life[t] \in {"unborn", "created", "published"}
    \/ parkState[t] \in {"Notified", "Done"}
    \/ /\ parkState[t] = "Running"
       /\ \/ ready[t] > 0
          \/ Leaving(t, {"sched"})
          \/ \E a \in Threads : ptr[a] = t /\ pc[a] \in {"sched", "reSched"}

\* The scan leaves no task behind that could park unresumed.
ScanReaches == \A t \in Tasks : Passed(t) => resumed[t] \/ RunsFirst(t)

\* What a worker claimed to unwind it has run since stop().
ClaimedHasRun ==
    \A w \in Workers : ptr[w] # NoTask /\ pc[w] # "claim" => resumed[ptr[w]]

StopInv ==
    ScanThenReap /\ ScanReaches /\ ClaimedHasRun /\ StopSeenBeforeUnwind

\* Nothing is stopping to begin with.
LEMMA StopInit == Init => StopInv
  BY ConstantsAreDistinct, MaxTasksPositive
  DEF Init, StopInv, ScanThenReap, ScanReaches, Passed, ClaimedHasRun,
      StopSeenBeforeUnwind, Threads

\* ScanThenReap is about these variables only.
LEMMA SameScanThenReap ==
    ScanThenReap /\ UNCHANGED <<pc, at, stopping, parkedWoken>> => ScanThenReap'
  BY DEF ScanThenReap

\* The same for ScanReaches.
LEMMA SameScanReaches ==
    ScanReaches /\ UNCHANGED <<stopping, slotOf, at, pc, life, parkState, ready,
                               dep, ptr, resumed>>
        => ScanReaches'
  BY DEF ScanReaches, Passed, RunsFirst, Leaving

\* Whatever keeps a task that the scan has passed on its way to run.
LEMMA KeepsReaching ==
    ASSUME ScanReaches,
           \A t \in Tasks : /\ Passed(t)' => Passed(t)
                            /\ resumed[t] => resumed'[t]
                            /\ RunsFirst(t) => resumed'[t] \/ RunsFirst(t)'
    PROVE  ScanReaches'
  BY DEF ScanReaches

\* The same for ClaimedHasRun.
LEMMA SameClaimed ==
    ClaimedHasRun /\ UNCHANGED <<ptr, pc, resumed>> => ClaimedHasRun'
  BY DEF ClaimedHasRun

\* The same for StopSeenBeforeUnwind.
LEMMA SameSeen ==
    StopSeenBeforeUnwind /\ UNCHANGED <<unwinding, resumed>>
        => StopSeenBeforeUnwind'
  BY DEF StopSeenBeforeUnwind

\* Every step keeps what the scan has gone past out of the reapers' hands
\* until it has run.
LEMMA StopStep == TypeInv /\ OnceInv /\ FreeInv /\ SlotInv /\ WakeInv /\ StopInv /\ [Next]_vars => StopInv'
<1> SUFFICES ASSUME TypeInv, OnceInv, FreeInv, SlotInv, WakeInv, StopInv, [Next]_vars PROVE StopInv'
  OBVIOUS
<1>a. /\ TypeTask /\ TypeSlab /\ TypeRun /\ TypeThread /\ TypeFlags
      /\ AtASlot /\ DepIsTask /\ Roles /\ NotYetRun /\ Once
      /\ SlabIsLive /\ Pinned /\ FreedIsGone /\ ExitedIsIdle
      /\ SlotOwned /\ ReleasedIsDone /\ DoneIsLast /\ InItsSlot /\ AtItsSlot
      /\ ScanThenReap /\ ScanReaches /\ ClaimedHasRun /\ StopSeenBeforeUnwind
      /\ \A t \in Tasks : Exclusive(t)
  BY DEF TypeInv, TypeOK, OnceInv, Once, FreeInv, SlotInv, WakeInv, StopInv
<1> USE <1>a, ConstantsAreDistinct, MaxTasksPositive
<1> USE DEF Threads
<1>1. ASSUME NEW t \in Tasks, SpawnCreate(t) PROVE StopInv'
  <2>1. ScanReaches'
    BY <1>1
    DEF SpawnCreate, ScanReaches, Passed, RunsFirst, Leaving, TypeRun,
        TypeTask, TypeThread, TypeFlags, Slots
  <2> QED
    BY <2>1, <1>1, SameScanThenReap, SameClaimed, SameSeen
    DEF StopInv, SpawnCreate
<1>2. ASSUME NEW t \in Tasks, SpawnFail(t) PROVE StopInv'
  <2>1. ScanReaches'
    BY <1>2
    DEF SpawnFail, ScanReaches, Passed, RunsFirst, Leaving, TypeRun, TypeTask,
        TypeThread, TypeFlags, Slots
  <2> QED
    BY <2>1, <1>2, SameScanThenReap, SameClaimed, SameSeen
    DEF StopInv, SpawnFail
<1>3. ASSUME NEW t \in Tasks, SpawnPublish(t) PROVE StopInv'
  <2>1. ScanReaches'
    BY <1>3
    DEF SpawnPublish, ScanReaches, Passed, RunsFirst, Leaving, TypeRun,
        TypeTask, TypeThread, TypeFlags, Slots
  <2> QED
    BY <2>1, <1>3, SameScanThenReap, SameClaimed, SameSeen
    DEF StopInv, SpawnPublish
<1>4. ASSUME NEW t \in Tasks, SpawnSchedule(t) PROVE StopInv'
  <2>1. ScanReaches'
    BY <1>4
    DEF SpawnSchedule, ScanReaches, Passed, RunsFirst, Leaving, TypeRun,
        TypeTask, TypeThread, TypeFlags, Slots, NotYetRun, Untouched,
        TaskState
  <2> QED
    BY <2>1, <1>4, SameScanThenReap, SameClaimed, SameSeen
    DEF StopInv, SpawnSchedule
<1>5. ASSUME NEW t \in Tasks, Destroy(t) PROVE StopInv'
  <2>1. ScanReaches'
    BY <1>5
    DEF Destroy, ScanReaches, Passed, RunsFirst, Leaving, TypeRun, TypeTask,
        TypeThread, TypeFlags, Slots
  <2> QED
    BY <2>1, <1>5, SameScanThenReap, SameClaimed, SameSeen
    DEF StopInv, Destroy
<1>6. ASSUME NEW w \in Workers, Dispatch(w) PROVE StopInv'
  <2>1. ScanReaches'
    <3>1. PICK n \in Tasks : Arrive(w, n)
      BY <1>6 DEF Dispatch
    <3>2. \A u \in Tasks : u # n => ready'[u] = ready[u] /\ resumed'[u] = resumed[u]
      BY <3>1 DEF Arrive, TypeTask, TypeFlags
    <3>3. stopping => resumed'[n]
      BY <3>1 DEF Arrive
    <3> QED
      BY <1>6, <3>2, <3>3 DEF Dispatch, ScanReaches, Passed, RunsFirst, Leaving
  <2>2. ClaimedHasRun'
    BY <1>6 DEF Dispatch, Arrive, ClaimedHasRun, TypeThread, TypeFlags
  <2>3. StopSeenBeforeUnwind'
    BY <1>6 DEF Dispatch, Arrive, StopSeenBeforeUnwind, TypeTask, TypeFlags
  <2> QED
    BY <2>1, <2>2, <2>3, <1>6, SameScanThenReap DEF StopInv, Dispatch, Arrive
<1>7. ASSUME NEW w \in Workers, NEW t \in Tasks, Yield(w, t) PROVE StopInv'
  <2>1. ScanReaches'
    <3>1. PICK n \in Tasks \cup {NoTask} : Arrive(w, n)
      BY <1>7 DEF Yield, SwitchAway
    <3>2. \A u \in Tasks : u # n => ready'[u] = ready[u] /\ resumed'[u] = resumed[u]
      BY <3>1 DEF Arrive, TypeTask, TypeFlags
    <3>3. n \in Tasks /\ stopping => resumed'[n]
      BY <3>1 DEF Arrive
    <3>4. \A u \in Tasks : Leaving(u, {"sched"}) => Leaving(u, {"sched"})'
      BY <1>7 DEF Yield, SwitchAway, OnCpu, NoDep, Leaving, TypeRun
    <3> QED
      BY <1>7, <3>2, <3>3, <3>4 DEF Yield, ScanReaches, Passed, RunsFirst
  <2>2. ClaimedHasRun'
    BY <1>7
    DEF Yield, SwitchAway, Arrive, OnCpu, NoDep, ClaimedHasRun, TypeThread,
        TypeFlags
  <2>3. StopSeenBeforeUnwind'
    BY <1>7
    DEF Yield, SwitchAway, Arrive, OnCpu, NoDep, StopSeenBeforeUnwind,
        TypeTask, TypeFlags
  <2> QED
    BY <2>1, <2>2, <2>3, <1>7, SameScanThenReap
    DEF StopInv, Yield, SwitchAway, Arrive
<1>8. ASSUME NEW w \in Workers, NEW t \in Tasks, ParkConsume(w, t) PROVE StopInv'
  <2>1. ScanReaches'
    <3>1. stopping => resumed'[t]
      BY <1>8 DEF ParkConsume, TypeFlags
    <3>2. \A u \in Tasks : u # t => parkState'[u] = parkState[u] /\ resumed'[u] = resumed[u]
      BY <1>8 DEF ParkConsume, TypeTask, TypeFlags
    <3> QED
      BY <1>8, <3>1, <3>2 DEF ParkConsume, ScanReaches, Passed, RunsFirst, Leaving
  <2>2. ClaimedHasRun'
    BY <1>8 DEF ParkConsume, OnCpu, ClaimedHasRun, TypeThread, TypeFlags
  <2>3. StopSeenBeforeUnwind'
    BY <1>8 DEF ParkConsume, OnCpu, StopSeenBeforeUnwind, TypeTask, TypeFlags
  <2> QED
    BY <2>1, <2>2, <2>3, <1>8, SameScanThenReap DEF StopInv, ParkConsume
<1>9. ASSUME NEW w \in Workers, NEW t \in Tasks, Park(w, t) PROVE StopInv'
  <2>1. ScanReaches'
    <3>1. PICK n \in Tasks \cup {NoTask} : Arrive(w, n)
      BY <1>9 DEF Park, SwitchAway
    <3>2. \A u \in Tasks : u # n => ready'[u] = ready[u] /\ resumed'[u] = resumed[u]
      BY <3>1 DEF Arrive, TypeTask, TypeFlags
    <3>3. n \in Tasks /\ stopping => resumed'[n]
      BY <3>1 DEF Arrive
    <3>4. \A u \in Tasks : Leaving(u, {"sched"}) => Leaving(u, {"sched"})'
      BY <1>9 DEF Park, SwitchAway, OnCpu, NoDep, Leaving, TypeRun
    <3> QED
      BY <1>9, <3>2, <3>3, <3>4 DEF Park, ScanReaches, Passed, RunsFirst
  <2>2. ClaimedHasRun'
    BY <1>9
    DEF Park, SwitchAway, Arrive, OnCpu, NoDep, ClaimedHasRun, TypeThread,
        TypeFlags
  <2>3. StopSeenBeforeUnwind'
    BY <1>9
    DEF Park, SwitchAway, Arrive, OnCpu, NoDep, StopSeenBeforeUnwind,
        TypeTask, TypeFlags
  <2> QED
    BY <2>1, <2>2, <2>3, <1>9, SameScanThenReap
    DEF StopInv, Park, SwitchAway, Arrive
<1>10. ASSUME NEW w \in Workers, NEW t \in Tasks, Finish(w, t) PROVE StopInv'
  <2>1. ScanReaches'
    <3>1. PICK n \in Tasks \cup {NoTask} : Arrive(w, n)
      BY <1>10 DEF Finish, SwitchAway
    <3>2. \A u \in Tasks : u # n => ready'[u] = ready[u] /\ resumed'[u] = resumed[u]
      BY <3>1 DEF Arrive, TypeTask, TypeFlags
    <3>3. n \in Tasks /\ stopping => resumed'[n]
      BY <3>1 DEF Arrive
    <3>4. \A u \in Tasks : Leaving(u, {"sched"}) => Leaving(u, {"sched"})'
      BY <1>10 DEF Finish, SwitchAway, OnCpu, NoDep, Leaving, TypeRun
    <3> QED
      BY <1>10, <3>2, <3>3, <3>4 DEF Finish, ScanReaches, Passed, RunsFirst
  <2>2. ClaimedHasRun'
    BY <1>10
    DEF Finish, SwitchAway, Arrive, OnCpu, NoDep, ClaimedHasRun, TypeThread,
        TypeFlags
  <2>3. StopSeenBeforeUnwind'
    BY <1>10
    DEF Finish, SwitchAway, Arrive, OnCpu, NoDep, StopSeenBeforeUnwind,
        TypeTask, TypeFlags
  <2> QED
    BY <2>1, <2>2, <2>3, <1>10, SameScanThenReap
    DEF StopInv, Finish, SwitchAway, Arrive
<1>11. ASSUME NEW w \in Workers, NEW t \in Tasks, ToggleShield(w, t) PROVE StopInv'
  BY <1>11, SameScanThenReap, SameScanReaches, SameClaimed, SameSeen
  DEF StopInv, ToggleShield
<1>12. ASSUME NEW w \in Workers, HookYield(w) PROVE StopInv'
  <2>1. ScanReaches'
    BY <1>12
    DEF HookYield, Departed, NoDep, ScanReaches, Passed, RunsFirst, Leaving,
        TypeRun, TypeTask, TypeThread, TypeFlags, Slots
  <2> QED
    BY <2>1, <1>12, SameScanThenReap, SameClaimed, SameSeen
    DEF StopInv, HookYield
<1>13. ASSUME NEW w \in Workers, HookPark(w) PROVE StopInv'
  <2>1. ScanReaches'
    <3>a. dep[w].hook # "none"
      BY <1>13 DEF HookPark, Departed
    <3>1. life[dep[w].task] = "live"
      BY <1>13, <3>a, DepartedAlone
      DEF HookPark, Departed, FreedIsGone, NotYetRun, Untouched, Unheld, TypeTask, Life
    <3>2. parkState[dep[w].task] = "Running" => ~RunsFirst(dep[w].task)
      BY <1>13, <3>a, <3>1, DepartedAlone
      DEF HookPark, Departed, RunsFirst, Leaving, Reviving, TypeTask
    <3>3. \A u \in Tasks : Leaving(u, {"sched"}) => Leaving(u, {"sched"})'
      BY <1>13 DEF HookPark, Departed, SetHook, NoDep, Leaving, TypeRun
    <3>4. \A u \in Tasks : u = dep[w].task \/ parkState'[u] = parkState[u]
      BY <1>13 DEF HookPark, TypeTask
    <3>5. ASSUME NEW u \in Tasks, Passed(u)' PROVE resumed'[u] \/ RunsFirst(u)'
      <4>1. Passed(u) /\ resumed' = resumed
        BY <1>13, <3>5 DEF HookPark, Passed
      <4>2. CASE u # dep[w].task
        BY <1>13, <3>3, <3>4, <4>1, <4>2 DEF HookPark, ScanReaches, RunsFirst
      <4>3. CASE u = dep[w].task
        BY <1>13, <3>2, <3>3, <4>1, <4>3 DEF HookPark, ScanReaches, RunsFirst
      <4> QED
        BY <4>2, <4>3
    <3> QED
      BY <3>5 DEF ScanReaches
  <2> QED
    BY <2>1, <1>13, SameScanThenReap, SameClaimed, SameSeen
    DEF StopInv, HookPark
<1>14. ASSUME NEW w \in Workers, HookResched(w) PROVE StopInv'
  <2>1. ScanReaches'
    BY <1>14
    DEF HookResched, Departed, SetHook, ScanReaches, Passed, RunsFirst,
        Leaving, TypeRun, TypeTask, TypeThread, TypeFlags, Slots
  <2> QED
    BY <2>1, <1>14, SameScanThenReap, SameClaimed, SameSeen
    DEF StopInv, HookResched
<1>15. ASSUME NEW w \in Workers, HookSchedule(w) PROVE StopInv'
  <2>1. ScanReaches'
    BY <1>15
    DEF HookSchedule, Departed, NoDep, ScanReaches, Passed, RunsFirst,
        Leaving, TypeRun, TypeTask, TypeThread, TypeFlags, Slots
  <2> QED
    BY <2>1, <1>15, SameScanThenReap, SameClaimed, SameSeen
    DEF StopInv, HookSchedule
<1>16. ASSUME NEW w \in Workers, ReleaseDone(w) PROVE StopInv'
  <2>1. ScanReaches'
    BY <1>16
    DEF ReleaseDone, Departed, SetHook, ScanReaches, Passed, RunsFirst,
        Leaving, TypeRun, TypeTask, TypeThread, TypeFlags, Slots
  <2> QED
    BY <2>1, <1>16, SameScanThenReap, SameClaimed, SameSeen
    DEF StopInv, ReleaseDone
<1>17. ASSUME NEW w \in Workers, ReleaseUnslot(w) PROVE StopInv'
  <2>1. ScanReaches'
    <3>1. \A u \in Tasks : Leaving(u, {"sched"}) => Leaving(u, {"sched"})'
      BY <1>17 DEF ReleaseUnslot, Departed, SetHook, Leaving, TypeRun
    <3>2. UNCHANGED <<stopping, slotOf, at, pc, life, parkState, ready, ptr, resumed>>
      BY <1>17 DEF ReleaseUnslot
    <3> QED
      BY <3>1, <3>2, KeepsReaching DEF Passed, RunsFirst
  <2> QED
    BY <2>1, <1>17, SameScanThenReap, SameClaimed, SameSeen
    DEF StopInv, ReleaseUnslot
<1>18. ASSUME NEW w \in Workers, ReleaseBumpGen(w) PROVE StopInv'
  <2>1. ScanReaches'
    <3>1. \A u \in Tasks : Leaving(u, {"sched"}) => Leaving(u, {"sched"})'
      BY <1>18 DEF ReleaseBumpGen, Departed, SetHook, Leaving, TypeRun
    <3>2. UNCHANGED <<stopping, slotOf, at, pc, life, parkState, ready, ptr, resumed>>
      BY <1>18 DEF ReleaseBumpGen
    <3> QED
      BY <3>1, <3>2, KeepsReaching DEF Passed, RunsFirst
  <2> QED
    BY <2>1, <1>18, SameScanThenReap, SameClaimed, SameSeen
    DEF StopInv, ReleaseBumpGen
<1>19. ASSUME NEW w \in Workers, ReleaseFree(w) PROVE StopInv'
  <2>1. ScanReaches'
    <3>1. dep[w].task \in Tasks /\ parkState[dep[w].task] = "Done"
      BY <1>19 DEF ReleaseFree, Departed, ReleasedIsDone, Releasing, DepIsTask
    <3>2. \A u \in Tasks : Leaving(u, {"sched"}) => Leaving(u, {"sched"})'
      BY <1>19 DEF ReleaseFree, Departed, SetHook, Leaving, TypeRun
    <3> QED
      BY <1>19, <3>1, <3>2 DEF ReleaseFree, ScanReaches, Passed, RunsFirst, TypeTask
  <2> QED
    BY <2>1, <1>19, SameScanThenReap, SameClaimed, SameSeen
    DEF StopInv, ReleaseFree
<1>20. ASSUME NEW w \in Workers, ReleasePutSlot(w) PROVE StopInv'
  <2>1. ScanReaches'
    BY <1>20
    DEF ReleasePutSlot, Departed, NoDep, ScanReaches, Passed, RunsFirst,
        Leaving, TypeRun, TypeTask, TypeThread, TypeFlags, Slots
  <2> QED
    BY <2>1, <1>20, SameScanThenReap, SameClaimed, SameSeen
    DEF StopInv, ReleasePutSlot
<1>21. ASSUME NEW w \in Workers, ReapBegin(w) PROVE StopInv'
  <2>1. ScanThenReap'
    BY <1>21 DEF ReapBegin, GoTo, ScanThenReap, TypeThread
  <2>2. ScanReaches'
    BY <1>21
    DEF ReapBegin, GoTo, ScanReaches, Passed, RunsFirst, Leaving, TypeRun,
        TypeTask, TypeThread, TypeFlags, Slots
  <2>3. ClaimedHasRun'
    BY <1>21 DEF ReapBegin, GoTo, ClaimedHasRun, TypeThread, TypeFlags
  <2> QED
    BY <2>1, <2>2, <2>3, <1>21, SameSeen DEF StopInv, ReapBegin
<1>22. ASSUME NEW w \in Workers, ReapScan(w) PROVE StopInv'
  <2>1. ScanThenReap'
    BY <1>22 DEF ReapScan, GoTo, Pin, ScanThenReap, TypeThread
  <2>2. ScanReaches'
    BY <1>22
    DEF ReapScan, GoTo, Pin, ScanReaches, Passed, RunsFirst, Leaving, TypeRun,
        TypeTask, TypeThread, TypeFlags, Slots
  <2>3. ClaimedHasRun'
    BY <1>22 DEF ReapScan, GoTo, Pin, ClaimedHasRun, TypeThread, TypeFlags
  <2> QED
    BY <2>1, <2>2, <2>3, <1>22, SameSeen DEF StopInv, ReapScan
<1>23. ASSUME NEW w \in Workers, ReapClaim(w) PROVE StopInv'
  <2>1. ScanThenReap'
    BY <1>23 DEF ReapClaim, GoTo, ScanThenReap, TypeThread
  <2>2. ScanReaches'
    <3>0. /\ pc[w] = "claim" /\ pc' = [pc EXCEPT ![w] = "unpin"]
          /\ UNCHANGED <<stopping, slotOf, at, life, ready, dep, resumed>>
          /\ \A b \in Threads \ {w} : ptr'[b] = ptr[b]
      BY <1>23 DEF ReapClaim, GoTo, TypeThread
    <3>1. \A u \in Tasks : Passed(u)' => Passed(u)
      BY <3>0 DEF Passed, TypeThread
    <3>2. ASSUME NEW u \in Tasks, RunsFirst(u) PROVE RunsFirst(u)'
      <4>1. \/ parkState'[u] = parkState[u]
            \/ parkState[u] = "Parked"
        BY <1>23 DEF ReapClaim, TypeTask
      <4>2. \A b \in Threads : ptr[b] = u /\ pc[b] \in {"sched", "reSched"} =>
               ptr'[b] = u /\ pc'[b] \in {"sched", "reSched"}
        BY <3>0 DEF TypeThread
      <4> QED
        BY <3>0, <3>2, <4>1, <4>2 DEF RunsFirst, Leaving
    <3> QED
      BY <3>0, <3>1, <3>2, KeepsReaching
  <2>3. ClaimedHasRun'
    <3>1. ASSUME ptr[w] \in Tasks, parkState[ptr[w]] = "Parked" PROVE resumed[ptr[w]]
      <4>1. Passed(ptr[w])
        BY <1>23, <3>1 DEF ReapClaim, ScanThenReap, Passed, TypeTask, Slots
      <4>2. ~RunsFirst(ptr[w])
        BY <3>1 DEF RunsFirst, NotYetRun, Untouched
      <4> QED
        BY <3>1, <4>1, <4>2 DEF ScanReaches
    <3> QED
      BY <1>23, <3>1 DEF ReapClaim, GoTo, ClaimedHasRun, TypeThread
  <2> QED
    BY <2>1, <2>2, <2>3, <1>23, SameSeen DEF StopInv, ReapClaim
<1>24. ASSUME NEW w \in Workers, ReapPutBack(w) PROVE StopInv'
  <2>1. ScanThenReap'
    BY <1>24 DEF ReapPutBack, GoTo, NextSlot, ScanThenReap, TypeThread
  <2>2. ScanReaches'
    <3>1. ptr[w] \in Tasks => resumed[ptr[w]]
      BY <1>24 DEF ReapPutBack, ClaimedHasRun
    <3>2. \A u \in Tasks : u = ptr[w] \/ parkState'[u] = parkState[u]
      BY <1>24 DEF ReapPutBack, TypeTask
    <3>3. \A b \in Threads : pc[b] \in {"sched", "reSched"} => pc'[b] = pc[b] /\ ptr'[b] = ptr[b]
      BY <1>24 DEF ReapPutBack, GoTo, NextSlot, TypeThread
    <3>4. at'[Stopper] = at[Stopper] /\ pc'[Stopper] = pc[Stopper]
      BY <1>24 DEF ReapPutBack, GoTo, NextSlot, TypeThread
    <3>5. \A u \in Tasks : Passed(u)' => Passed(u)
      BY <1>24, <3>4 DEF ReapPutBack, Passed
    <3>6. \A u \in Tasks : RunsFirst(u) /\ u # ptr[w] => RunsFirst(u)'
      BY <1>24, <3>2, <3>3 DEF ReapPutBack, RunsFirst, Leaving
    <3> QED
      BY <1>24, <3>1, <3>5, <3>6 DEF ReapPutBack, ScanReaches
  <2>3. ClaimedHasRun'
    BY <1>24
    DEF ReapPutBack, GoTo, NextSlot, ClaimedHasRun, TypeThread, TypeFlags
  <2> QED
    BY <2>1, <2>2, <2>3, <1>24, SameSeen DEF StopInv, ReapPutBack
<1>25. ASSUME NEW w \in Workers, ReapResched(w) PROVE StopInv'
  <2>1. ScanThenReap'
    BY <1>25 DEF ReapResched, GoTo, ScanThenReap, TypeThread
  <2>2. ScanReaches'
    BY <1>25
    DEF ReapResched, GoTo, ScanReaches, Passed, RunsFirst, Leaving, TypeRun,
        TypeTask, TypeThread, TypeFlags, Slots
  <2>3. ClaimedHasRun'
    BY <1>25 DEF ReapResched, GoTo, ClaimedHasRun, TypeThread, TypeFlags
  <2> QED
    BY <2>1, <2>2, <2>3, <1>25, SameSeen DEF StopInv, ReapResched
<1>26. ASSUME NEW w \in Workers, ReapSchedule(w) PROVE StopInv'
  <2>1. ScanThenReap'
    BY <1>26 DEF ReapSchedule, GoTo, NextSlot, ScanThenReap, TypeThread
  <2>2. ScanReaches'
    BY <1>26
    DEF ReapSchedule, GoTo, NextSlot, ScanReaches, Passed, RunsFirst, Leaving,
        TypeRun, TypeTask, TypeThread, TypeFlags, Slots
  <2>3. ClaimedHasRun'
    BY <1>26
    DEF ReapSchedule, GoTo, NextSlot, ClaimedHasRun, TypeThread, TypeFlags
  <2> QED
    BY <2>1, <2>2, <2>3, <1>26, SameSeen DEF StopInv, ReapSchedule
<1>27. ASSUME NEW w \in Workers, ReapUnwind(w) PROVE StopInv'
  <2>1. ScanThenReap'
    BY <1>27 DEF ReapUnwind, GoTo, NextSlot, ScanThenReap, TypeThread
  <2>2. ScanReaches'
    <3>0. /\ pc[w] = "shield" /\ pc' = [pc EXCEPT ![w] = "scan"]
          /\ UNCHANGED <<stopping, slotOf, life, parkState, ready, dep, resumed>>
          /\ \A b \in Threads \ {w} : ptr'[b] = ptr[b] /\ at'[b] = at[b]
      BY <1>27 DEF ReapUnwind, NextSlot, GoTo, TypeThread
    <3>1. \A u \in Tasks : Passed(u)' => Passed(u)
      BY <3>0 DEF Passed, TypeThread
    <3>2. ASSUME NEW u \in Tasks, RunsFirst(u) PROVE RunsFirst(u)'
      <4>1. \A b \in Threads : ptr[b] = u /\ pc[b] \in {"sched", "reSched"} =>
               ptr'[b] = u /\ pc'[b] \in {"sched", "reSched"}
        BY <3>0 DEF TypeThread
      <4> QED
        BY <3>0, <3>2, <4>1 DEF RunsFirst, Leaving
    <3> QED
      BY <3>0, <3>1, <3>2, KeepsReaching
  <2>3. ClaimedHasRun'
    BY <1>27
    DEF ReapUnwind, GoTo, NextSlot, ClaimedHasRun, TypeThread, TypeFlags
  <2>4. StopSeenBeforeUnwind'
    BY <1>27
    DEF ReapUnwind, GoTo, NextSlot, StopSeenBeforeUnwind, TypeTask, TypeFlags,
        ClaimedHasRun, TypeThread
  <2> QED
    BY <2>1, <2>2, <2>3, <2>4, <1>27 DEF StopInv, ReapUnwind
<1>28. ASSUME NEW w \in Workers, WorkerExit(w) PROVE StopInv'
  <2>1. ScanThenReap'
    BY <1>28 DEF WorkerExit, GoTo, ScanThenReap, TypeThread
  <2>2. ScanReaches'
    BY <1>28
    DEF WorkerExit, GoTo, ScanReaches, Passed, RunsFirst, Leaving, TypeRun,
        TypeTask, TypeThread, TypeFlags, Slots
  <2>3. ClaimedHasRun'
    BY <1>28 DEF WorkerExit, GoTo, ClaimedHasRun, TypeThread, TypeFlags
  <2> QED
    BY <2>1, <2>2, <2>3, <1>28, SameSeen DEF StopInv, WorkerExit
<1>29. ASSUME NEW a \in Wakers, NEW t \in Tasks, WakeBegin(a, t) PROVE StopInv'
  <2>1. ScanThenReap'
    BY <1>29 DEF WakeBegin, GoTo, Pin, ScanThenReap, TypeThread
  <2>2. ScanReaches'
    BY <1>29
    DEF WakeBegin, GoTo, Pin, ScanReaches, Passed, RunsFirst, Leaving,
        TypeRun, TypeTask, TypeThread, TypeFlags, Slots
  <2>3. ClaimedHasRun'
    BY <1>29 DEF WakeBegin, GoTo, Pin, ClaimedHasRun, TypeThread, TypeFlags
  <2> QED
    BY <2>1, <2>2, <2>3, <1>29, SameSeen DEF StopInv, WakeBegin
<1>30. ASSUME NEW a \in Wakers, NEW s \in Slots, VisitBegin(a, s) PROVE StopInv'
  <2>1. ScanThenReap'
    BY <1>30 DEF VisitBegin, GoTo, Pin, ScanThenReap, TypeThread
  <2>2. ScanReaches'
    BY <1>30
    DEF VisitBegin, GoTo, Pin, ScanReaches, Passed, RunsFirst, Leaving,
        TypeRun, TypeTask, TypeThread, TypeFlags, Slots
  <2>3. ClaimedHasRun'
    BY <1>30 DEF VisitBegin, GoTo, Pin, ClaimedHasRun, TypeThread, TypeFlags
  <2> QED
    BY <2>1, <2>2, <2>3, <1>30, SameSeen DEF StopInv, VisitBegin
<1>31. ASSUME NEW a \in Threads, WakeCheckGeneration(a) PROVE StopInv'
  <2>1. ScanThenReap'
    BY <1>31 DEF WakeCheckGeneration, GoTo, ScanThenReap, TypeThread
  <2>2. ScanReaches'
    <3>1. a # Stopper
      BY <1>31 DEF WakeCheckGeneration, ScanThenReap
    <3>2. \A b \in Threads : b = Stopper \/ pc[b] \in {"sched", "reSched"} => pc'[b] = pc[b]
      BY <1>31, <3>1 DEF WakeCheckGeneration, GoTo, TypeThread
    <3>3. \A u \in Tasks : Passed(u)' <=> Passed(u)
      BY <1>31, <3>2 DEF WakeCheckGeneration, Passed
    <3> QED
      BY <1>31, <3>2, <3>3 DEF WakeCheckGeneration, ScanReaches, RunsFirst, Leaving
  <2>3. ClaimedHasRun'
    BY <1>31
    DEF WakeCheckGeneration, GoTo, ClaimedHasRun, TypeThread, TypeFlags
  <2> QED
    BY <2>1, <2>2, <2>3, <1>31, SameSeen DEF StopInv, WakeCheckGeneration
<1>32. ASSUME NEW a \in Threads, LoadTask(a) PROVE StopInv'
  <2>1. ScanThenReap'
    BY <1>32 DEF LoadTask, GoTo, AfterLoad, ScanThenReap, TypeThread
  <2>2. ScanReaches'
    <3>1. \A b \in Threads : pc[b] \in {"sched", "reSched"} => pc'[b] = pc[b] /\ ptr'[b] = ptr[b]
      BY <1>32 DEF LoadTask, GoTo, TypeThread
    <3>2. \A u \in Tasks : RunsFirst(u) => RunsFirst(u)'
      BY <1>32, <3>1 DEF LoadTask, RunsFirst, Leaving
    <3>3. ASSUME a = Stopper, pc'[a] = "unpin", NEW u \in Tasks, slotOf[u] = at[a] PROVE RunsFirst(u)
      <4>1. slotTask[at[a]] = NoTask
        BY <1>32, <3>3 DEF LoadTask, GoTo, AfterLoad, TypeThread
      <4> QED
        BY <3>3, <4>1 DEF InItsSlot, ReleasedIsDone, RunsFirst, TypeTask, Life
    <3>4. pc'[a] \notin {"store", "sched"} /\ \A b \in Threads : b # a => pc'[b] = pc[b]
      BY <1>32 DEF LoadTask, GoTo, AfterLoad, TypeThread
    <3>5. ASSUME NEW u \in Tasks, Passed(u)' PROVE Passed(u) \/ RunsFirst(u)
      BY <1>32, <3>3, <3>4, <3>5 DEF LoadTask, Passed
    <3> QED
      BY <1>32, <3>2, <3>5 DEF LoadTask, ScanReaches
  <2>3. ClaimedHasRun'
    BY <1>32
    DEF LoadTask, GoTo, AfterLoad, ClaimedHasRun, TypeThread, TypeFlags
  <2> QED
    BY <2>1, <2>2, <2>3, <1>32, SameSeen DEF StopInv, LoadTask
<1>33. ASSUME NEW a \in Threads, VisitRead(a) PROVE StopInv'
  <2>1. ScanThenReap'
    BY <1>33 DEF VisitRead, GoTo, ScanThenReap, TypeThread
  <2>2. ScanReaches'
    <3>1. a # Stopper
      BY <1>33 DEF VisitRead, ScanThenReap
    <3>2. \A b \in Threads : b = Stopper \/ pc[b] \in {"sched", "reSched"} => pc'[b] = pc[b]
      BY <1>33, <3>1 DEF VisitRead, GoTo, TypeThread
    <3>3. \A u \in Tasks : Passed(u)' <=> Passed(u)
      BY <1>33, <3>2 DEF VisitRead, Passed
    <3> QED
      BY <1>33, <3>2, <3>3 DEF VisitRead, ScanReaches, RunsFirst, Leaving
  <2>3. ClaimedHasRun'
    BY <1>33 DEF VisitRead, GoTo, ClaimedHasRun, TypeThread, TypeFlags
  <2> QED
    BY <2>1, <2>2, <2>3, <1>33, SameSeen DEF StopInv, VisitRead
<1>34. ASSUME NEW a \in Threads, WakeCas(a) PROVE StopInv'
  <2>1. ScanThenReap'
    BY <1>34 DEF WakeCas, GoTo, ScanThenReap, TypeThread
  <2>2. ScanReaches'
    <3>1. /\ ptr[a] \in Tasks /\ parkState'[ptr[a]] \in {"Notified", "Done"}
          /\ \A u \in Tasks : u = ptr[a] \/ parkState'[u] = parkState[u]
      BY <1>34 DEF WakeCas, AtItsSlot, TypeThread, TypeTask, TaskState
    <3>2. \A b \in Threads : (pc[b] \in {"sched", "reSched"} \/ b # a) => pc'[b] = pc[b]
      BY <1>34 DEF WakeCas, GoTo, TypeThread
    <3>3. \A u \in Tasks : RunsFirst(u) \/ u = ptr[a] => RunsFirst(u)'
      BY <1>34, <3>1, <3>2 DEF WakeCas, RunsFirst, Leaving
    <3>4. ASSUME a = Stopper, NEW u \in Tasks, slotOf[u] = at[a], u # ptr[a] PROVE RunsFirst(u)
      <4>1. slotOf[ptr[a]] = at[a] /\ HasSlot(ptr[a])
        BY <1>34, <3>1 DEF WakeCas, AtItsSlot, Pinned, HasSlot
      <4>2. ~HasSlot(u)
        BY <3>1, <3>4, <4>1 DEF SlotOwned
      <4> QED
        BY <4>2 DEF HasSlot, ReleasedIsDone, RunsFirst, TypeTask, Life
    <3>5. ASSUME NEW u \in Tasks, Passed(u)' PROVE Passed(u) \/ RunsFirst(u) \/ u = ptr[a]
      BY <1>34, <3>2, <3>4, <3>5 DEF WakeCas, Passed
    <3> QED
      BY <1>34, <3>3, <3>5 DEF WakeCas, ScanReaches
  <2>3. ClaimedHasRun'
    BY <1>34 DEF WakeCas, GoTo, ClaimedHasRun, TypeThread, TypeFlags
  <2> QED
    BY <2>1, <2>2, <2>3, <1>34, SameSeen DEF StopInv, WakeCas
<1>35. ASSUME NEW a \in Threads, WakeStore(a) PROVE StopInv'
  <2>1. ScanThenReap'
    BY <1>35 DEF WakeStore, GoTo, ScanThenReap, TypeThread
  <2>2. ScanReaches'
    BY <1>35
    DEF WakeStore, GoTo, ScanReaches, Passed, RunsFirst, Leaving, TypeRun,
        TypeTask, TypeThread, TypeFlags, Slots
  <2>3. ClaimedHasRun'
    BY <1>35 DEF WakeStore, GoTo, ClaimedHasRun, TypeThread, TypeFlags
  <2> QED
    BY <2>1, <2>2, <2>3, <1>35, SameSeen DEF StopInv, WakeStore
<1>36. ASSUME NEW a \in Threads, WakeSchedule(a) PROVE StopInv'
  <2>1. ScanThenReap'
    BY <1>36 DEF WakeSchedule, GoTo, ScanThenReap, TypeThread
  <2>2. ScanReaches'
    BY <1>36
    DEF WakeSchedule, GoTo, ScanReaches, Passed, RunsFirst, Leaving, TypeRun,
        TypeTask, TypeThread, TypeFlags, Slots
  <2>3. ClaimedHasRun'
    BY <1>36 DEF WakeSchedule, GoTo, ClaimedHasRun, TypeThread, TypeFlags
  <2> QED
    BY <2>1, <2>2, <2>3, <1>36, SameSeen DEF StopInv, WakeSchedule
<1>37. ASSUME NEW a \in Threads, Unpin(a) PROVE StopInv'
  <2>1. ScanThenReap'
    BY <1>37 DEF Unpin, GoTo, ScanThenReap, TypeThread, AtASlot, InSlab, Slots
  <2>2. ScanReaches'
    <3>1. \A b \in Threads : pc[b] \in {"sched", "reSched"} => pc'[b] = pc[b] /\ ptr'[b] = ptr[b]
      BY <1>37 DEF Unpin, GoTo, TypeThread
    <3>2. \A u \in Tasks : RunsFirst(u) => RunsFirst(u)'
      BY <1>37, <3>1 DEF Unpin, RunsFirst, Leaving
    <3>3. a # Stopper => at'[Stopper] = at[Stopper] /\ pc'[Stopper] = pc[Stopper]
      BY <1>37 DEF Unpin, GoTo, TypeThread
    <3>4. a = Stopper => at'[a] = at[a] + 1 /\ pc'[a] = "scan"
      BY <1>37 DEF Unpin, GoTo, TypeThread
    <3>5. ASSUME NEW u \in Tasks, Passed(u)' PROVE Passed(u)
      BY <1>37, <3>3, <3>4, <3>5 DEF Unpin, Passed, TypeTask, TypeThread, Slots
    <3> QED
      BY <1>37, <3>2, <3>5 DEF Unpin, ScanReaches
  <2>3. ClaimedHasRun'
    BY <1>37 DEF Unpin, GoTo, ClaimedHasRun, TypeThread, TypeFlags
  <2> QED
    BY <2>1, <2>2, <2>3, <1>37, SameSeen DEF StopInv, Unpin
<1>38. ASSUME Stop PROVE StopInv'
  <2>1. ScanThenReap'
    BY <1>38 DEF Stop, GoTo, ScanThenReap, TypeThread
  <2>2. ScanReaches'
    BY <1>38
    DEF Stop, GoTo, ScanReaches, Passed, RunsFirst, Leaving, TypeRun,
        TypeTask, TypeThread, TypeFlags, Slots, ScanThenReap
  <2>3. ClaimedHasRun'
    BY <1>38 DEF Stop, GoTo, ClaimedHasRun, TypeThread, TypeFlags
  <2> QED
    BY <2>1, <2>2, <2>3, <1>38, SameSeen DEF StopInv, Stop
<1>39. ASSUME StopScan PROVE StopInv'
  <2>1. ScanThenReap'
    BY <1>39 DEF StopScan, GoTo, Pin, ScanThenReap, TypeThread
  <2>2. ScanReaches'
    BY <1>39
    DEF StopScan, GoTo, Pin, ScanReaches, Passed, RunsFirst, Leaving, TypeRun,
        TypeTask, TypeThread, TypeFlags, Slots
  <2>3. ClaimedHasRun'
    BY <1>39 DEF StopScan, GoTo, Pin, ClaimedHasRun, TypeThread, TypeFlags
  <2> QED
    BY <2>1, <2>2, <2>3, <1>39, SameSeen DEF StopInv, StopScan
<1>40. ASSUME Stopped PROVE StopInv'
  BY <1>40, SameScanThenReap, SameScanReaches, SameClaimed, SameSeen
  DEF StopInv, Stopped, vars
<1>50. CASE UNCHANGED vars
  BY <1>50, SameScanThenReap, SameScanReaches, SameClaimed, SameSeen
  DEF vars, StopInv
<1> QED
  BY <1>1, <1>2, <1>3, <1>4, <1>5, <1>6, <1>7, <1>8, <1>9, <1>10, <1>11,
     <1>12, <1>13, <1>14, <1>15, <1>16, <1>17, <1>18, <1>19, <1>20, <1>21,
     <1>22, <1>23, <1>24, <1>25, <1>26, <1>27, <1>28, <1>29, <1>30, <1>31,
     <1>32, <1>33, <1>34, <1>35, <1>36, <1>37, <1>38, <1>39, <1>40, <1>50
  DEF Next, Spawning, Body, HookStep, SlabStep, ReapStep

\* The stop part is invariant as well.
LEMMA StopInvariant == Spec => []StopInv
  BY WakeInvariant, StopInit, StopStep, PTL DEF Spec

\* StopSeenBeforeUnwind for every instance: Worker::run() reaps only what
\* Scheduler::stop() woke first.
THEOREM WokenBeforeReaped == Spec => []StopSeenBeforeUnwind
<1>1. StopInv => StopSeenBeforeUnwind
  BY DEF StopInv
<1> QED
  BY <1>1, StopInvariant, PTL
=============================================================================
