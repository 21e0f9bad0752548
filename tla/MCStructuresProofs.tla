------------------------- MODULE MCStructuresProofs -------------------------
(***************************************************************************)
(* What StructuresProofs shows of the components, put together: theorems   *)
(* about the properties that MCStructures checks, in all its behaviours.   *)
(***************************************************************************)
EXTENDS MCStructures, StructuresProofs

\* Whichever instance a behaviour is of.
PartsInv ==
    /\ Is("Join") => JoinInv
    /\ Is("Parker") => ParkerInv
    /\ Is("Blocking") => PoolInv
    /\ Is("Coroutine") => CoroutineInv
    /\ Is("ExecTask") => ExecInv
    /\ Is("Slots") => SlotInv
    /\ Is("Socket") => I!RegInv
    /\ Is("Descriptor") => D!RegInv
    /\ Is("Connect") => Y!RegInv
    /\ Is("Connect2") => Y2!RegInv

LEMMA PartsInit == Init => PartsInv
<1>1. I!Roles /\ D!Roles /\ Y!Roles /\ Y2!Roles
  BY RolesAreTheirs
<1>2. /\ I!Init => I!RegInv
      /\ D!Init => D!RegInv
      /\ Y!Init => Y!RegInv
      /\ Y2!Init => Y2!RegInv
  BY <1>1, I!RegInit, D!RegInit, Y!RegInit, Y2!RegInit
<1> QED
  BY <1>2, JoinInit, ParkerInit, PoolInit, CoroutineInit, ExecInit, SlotInit
  DEF Init, Is, PartsInv

LEMMA RegistrationsKeep ==
    ASSUME PartsInv, Next
    PROVE  /\ Is("Socket") => I!RegInv'
           /\ Is("Descriptor") => D!RegInv'
           /\ Is("Connect") => Y!RegInv'
           /\ Is("Connect2") => Y2!RegInv'
<1> USE RolesAreTheirs DEF Next, PartsInv, Is
<1>1. Is("Socket") => I!RegInv'
  BY I!RegKeeps
<1>2. Is("Descriptor") => D!RegInv'
  BY D!RegKeeps
<1>3. Is("Connect") => Y!RegInv'
  BY Y!RegKeeps
<1>4. Is("Connect2") => Y2!RegInv'
  BY Y2!RegKeeps
<1> QED
  BY <1>1, <1>2, <1>3, <1>4

LEMMA PartsKeep ==
    ASSUME PartsInv, [Next]_<<obj, th>>
    PROVE  PartsInv'
<1>1. CASE UNCHANGED <<obj, th>>
  <2>1. /\ I!RegInv => I!RegInv'
        /\ D!RegInv => D!RegInv'
        /\ Y!RegInv => Y!RegInv'
        /\ Y2!RegInv => Y2!RegInv'
    BY <1>1, I!RegStutters, D!RegStutters, Y!RegStutters, Y2!RegStutters
    DEF I!vars, D!vars, Y!vars, Y2!vars
  <2> QED
    BY <1>1, <2>1, StutterKeeps, SlotStutter DEF PartsInv, Is
<1>2. CASE Next
  <2>1. obj'.is = obj.is
    BY <1>2 DEF Next
  <2>2. Is("Join") => JoinInv'
    BY <1>2, JoinKeeps DEF Next, PartsInv, Is
  <2>3. Is("Parker") => ParkerInv'
    BY <1>2, ParkerKeeps DEF Next, PartsInv, Is
  <2>4. Is("Blocking") => PoolInv'
    BY <1>2, PoolKeeps DEF Next, PartsInv, Is
  <2>5. Is("Coroutine") => CoroutineInv'
    BY <1>2, CoroutineKeeps DEF Next, PartsInv, Is
  <2>6. Is("ExecTask") => ExecInv'
    BY <1>2, ExecKeeps DEF Next, PartsInv, Is
  <2>7. Is("Slots") => SlotInv'
    BY <1>2, SlotKeeps DEF Next, PartsInv, Is
  <2> QED
    BY <1>2, <2>1, <2>2, <2>3, <2>4, <2>5, <2>6, <2>7, RegistrationsKeep DEF PartsInv, Is
<1> QED
  BY <1>1, <1>2

LEMMA PartsHold == Spec => []PartsInv
  BY PartsInit, PartsKeep, PTL DEF Spec

\* What the invariants of the registrations mean.
LEMMA RegistrationsMean ==
    ASSUME PartsInv
    PROVE  /\ ReadinessNotMissed /\ WakerAlive
           /\ Is("Socket") => I!NothingAfterDone
           /\ Is("Connect2") => Y2!NothingAfterDone
           /\ Is("Connect") => Y!ConnectedMeansConnected
           /\ Is("Connect2") => Y2!ConnectedMeansConnected
<1> USE RolesAreTheirs DEF PartsInv
<1>1. Is("Socket") => /\ I!ReadinessNotMissed /\ I!ExhaustedIsTrue /\ I!WakerAlive
                      /\ I!StopNotForgotten /\ I!NothingAfterDone
  BY I!RegMeans
<1>2. Is("Descriptor") => D!ReadinessNotMissed /\ D!ExhaustedIsTrue /\ D!WakerAlive
  BY D!RegMeans
<1>3. Is("Connect") => Y!ReadinessNotMissed /\ Y!WakerAlive /\ Y!ConnectedMeansConnected
  BY Y!RegMeans
<1>4. Is("Connect2") => /\ Y2!ReadinessNotMissed /\ Y2!WakerAlive /\ Y2!StopNotForgotten
                        /\ Y2!NothingAfterDone /\ Y2!ConnectedMeansConnected
  BY Y2!RegMeans
<1> QED
  BY <1>1, <1>2, <1>3, <1>4 DEF ReadinessNotMissed, WakerAlive

-----------------------------------------------------------------------------
\* JoinHandle, exec::wait(), blocking(): nobody sleeps through what they wait
\* for, for every number of waits in a task, of pool threads and of jobs.
THEOREM SleepersHear == Spec => []NoneSleepsThrough
<1>1. PartsInv => NoneSleepsThrough
  BY ExecMeans, NotStrandedMeans DEF PartsInv, NoneSleepsThrough, JoinInv, PoolInv
<1> QED
  BY <1>1, PartsHold, PTL

\* Parker: no unpark() is lost to the return of an earlier park(), for every
\* number of callers and both backends.
THEOREM UnparkArrives == Spec => []NoUnparkLost
<1>1. PartsInv => NoUnparkLost
  BY DEF PartsInv, NoUnparkLost, P!NoUnparkLost, ParkerInv, ParkerType, ParkerPc,
         NothingBuffered, TokenThere, WakeThere
<1> QED
  BY <1>1, PartsHold, PTL

\* Coroutine: control finds its way back, for every number of coroutines and
\* threads, however they are nested and move.
THEOREM ControlComesBack == Spec => []ResumersWait
<1>1. PartsInv => ResumersWait
  BY DEF PartsInv, ResumersWait, CoroutineInv
<1> QED
  BY <1>1, PartsHold, PTL

\* Registration, both pollers: nobody waits for readiness that nobody will
\* report, and a transfer is skipped only while it would move nothing; for every
\* set of parties and every number of arrivals and transfers.
THEOREM ReadinessIsReported == Spec => []ReadinessNotMissed
<1>1. PartsInv => ReadinessNotMissed
  BY RegistrationsMean
<1> QED
  BY <1>1, PartsHold, PTL

\* Registration: its wakers belong to parties that wait, and a stop request is
\* not forgotten, for every set of parties.
THEOREM WakersAreAlive == Spec => []WakerAlive
<1>1. PartsInv => WakerAlive
  BY RegistrationsMean
<1> QED
  BY <1>1, PartsHold, PTL

\* join(), connect(), the receivers of exec: what callers are told is true.
THEOREM OutcomesAreTrue == Spec => []OutcomeIsTrue
<1>1. PartsInv => OutcomeIsTrue
  BY RegistrationsMean, ExecMeans DEF PartsInv, OutcomeIsTrue, JoinInv
<1> QED
  BY <1>1, PartsHold, PTL

\* Operations, tasks of exec, coroutines: nothing reaches into what is gone.
THEOREM TheDeadStayUntouched == Spec => []DeadUntouched
<1>1. PartsInv => DeadUntouched
  BY RegistrationsMean, ExecMeans DEF PartsInv, DeadUntouched, CoroutineInv
<1> QED
  BY <1>1, PartsHold, PTL

\* Task slots: none is lost and none is given out twice, however refills, raids
\* on other caches, hand-backs and failures to create a task interleave; for
\* every number of workers and foreign threads, of slots and of spawns, and
\* every batch and cache size.
THEOREM NoSlotIsLost == Spec => []SlotsInOnePlace
<1>1. PartsInv => SlotsInOnePlace
  BY SlotsAreInOnePlace DEF PartsInv, SlotsInOnePlace
<1> QED
  BY <1>1, PartsHold, PTL

\* liveTasks(), finishedTask(), the end of a worker's loop: a sum of counters
\* that others move meanwhile never misses a task that lives all along, the last
\* task after stop() tells the workers, and they leave none behind; for every
\* number of workers, foreign threads, slots and spawns.
THEOREM LiveTasksAreCounted == Spec => []LiveTasksCounted
<1>1. PartsInv => LiveTasksCounted
  BY SlotMeans DEF PartsInv, LiveTasksCounted
<1> QED
  BY <1>1, PartsHold, PTL
=============================================================================
