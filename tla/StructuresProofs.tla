-------------------------- MODULE StructuresProofs --------------------------
(***************************************************************************)
(* Theorems about what workers and other threads share, one component      *)
(* after the other: an inductive invariant for each, for every number of   *)
(* threads, coroutines, jobs, waits and slots.  MCStructuresProofs states  *)
(* the theorems about the properties that MCStructures composes from them. *)
(***************************************************************************)
EXTENDS Structures, Sequences, FiniteSetTheorems, TLAPS

-----------------------------------------------------------------------------
(* JoinHandle.                                                             *)

JoinPc == {"body", "storeDone", "loadKind", "wake", "release", "gone",
           "handle", "register", "recheck", "park", "take", "detach"}
JoinType ==
    /\ obj \in [is : {"Join"}, joiner : {"task", "thread"}, refs : Int, done : BOOLEAN,
                waiterKind : {"none", "task", "thread"}, exception : {"none", "error"},
                permit : BOOLEAN, escaped : {"none", "error"}]
    /\ th \in [{w1, w2} -> [pc : JoinPc, got : {"nothing", "none", "error"}]]

\* Whoever is past its look at `done` has registered; what escaped the body is
\* in the state from before `done` until join() takes it.
JoinInv ==
    /\ JoinType
    /\ obj.done <=> th[w1].pc \in {"loadKind", "wake", "release", "gone"}
    /\ th[w1].pc = "body" => obj.exception = "none" /\ obj.escaped = "none"
    /\ th[w2].pc \in {"recheck", "park"} => obj.waiterKind = obj.joiner
    /\ th[w2].pc \in {"take", "detach"} \/ th[w2].got # "nothing" => obj.done
    /\ th[w2].pc \in {"handle", "register", "recheck", "park", "take"} =>
          obj.exception = obj.escaped /\ th[w2].got = "nothing"
    /\ J!JoinNotMissed /\ J!JoinSeesOutcome

LEMMA JoinInit == J!Init => JoinInv
  BY PartiesDiffer
  DEF J!Init, JoinInv, JoinType, JoinPc, J!JoinNotMissed, J!JoinSeesOutcome

\* A Dekker pair: the joiner registers before it looks at `done`, the finisher
\* stores `done` before it looks for a waiter.
LEMMA JoinKeeps ==
    ASSUME JoinInv, J!Next
    PROVE  JoinInv'
<1> USE PartiesDiffer
    DEF JoinInv, JoinType, JoinPc, J!At, J!Go, J!Release, J!JoinNotMissed, J!JoinSeesOutcome
<1>1. CASE J!Escape
  BY ZenonT(40), <1>1 DEF J!Escape
<1>2. CASE J!StoreDone
  BY <1>2 DEF J!StoreDone
<1>3. CASE J!LoadKind
  BY <1>3 DEF J!LoadKind
<1>4. CASE J!Wake
  BY <1>4 DEF J!Wake
<1>5. CASE J!FinisherReleases
  BY <1>5 DEF J!FinisherReleases
<1>6. CASE J!Detach
  BY <1>6 DEF J!Detach
<1>7. CASE J!JoinCall
  BY <1>7 DEF J!JoinCall
<1>8. CASE J!Register
  BY <1>8 DEF J!Register
<1>9. CASE J!Recheck
  BY <1>9 DEF J!Recheck
<1>10. CASE J!Park
  BY <1>10 DEF J!Park
<1>11. CASE J!ParkSpurious
  BY <1>11 DEF J!ParkSpurious
<1>12. CASE J!Unwind
  BY <1>12 DEF J!Unwind
<1>13. CASE J!Take
  BY <1>13 DEF J!Take
<1>14. CASE J!JoinReturns
  BY <1>14 DEF J!JoinReturns
<1> QED
  BY <1>1, <1>2, <1>3, <1>4, <1>5, <1>6, <1>7, <1>8, <1>9, <1>10, <1>11, <1>12,
     <1>13, <1>14
  DEF J!Next, J!Step

-----------------------------------------------------------------------------
(* Parker.                                                                 *)

ParkerPc == {"idle", "futex", "condvar", "loop", "futexWait", "asleep", "consume", "waiting",
             "exchange", "signal"}
Parties == Unparkers \cup {w1}
ParkerType ==
    /\ obj \in [is : {"Parker"}, backend : {"futex", "condvar"},
                state : {"Empty", "Parked", "Notified"},
                buffered : BOOLEAN, condition : BOOLEAN]
    /\ th \in [Parties -> [pc : ParkerPc, timed : BOOLEAN]]

\* The store that consumes the token is visible before the caller parks again.
NothingBuffered ==
    /\ obj.buffered => th[w1].pc = "idle"
    /\ th[w1].pc \notin {"exchange", "signal"}
    /\ th[w1].pc \in {"futex", "loop", "futexWait", "asleep", "consume"} => obj.backend = "futex"
    /\ th[w1].pc \in {"condvar", "waiting"} => obj.backend = "condvar"
\* So a condition that came after the caller's look has left its token, or
\* its unpark() is under way.
TokenThere ==
    obj.condition /\ th[w1].pc \in {"futex", "loop", "futexWait", "asleep", "condvar", "waiting"}
        => obj.state = "Notified" \/ \E u \in Unparkers : th[u].pc = "exchange"
\* Whoever took the announced sleep out of the word has yet to wake the sleeper.
WakeThere ==
    th[w1].pc = "asleep" /\ obj.state # "Parked" => \E u \in Unparkers : th[u].pc = "signal"
ParkerInv == ParkerType /\ NothingBuffered /\ TokenThere /\ WakeThere

LEMMA ParkerInit == P!Init => ParkerInv
  BY PartiesDiffer
  DEF P!Init, ParkerInv, ParkerType, ParkerPc, Parties, NothingBuffered, TokenThere, WakeThere

\* The caller's steps.
LEMMA ParkedKeeps ==
    ASSUME ParkerInv, P!ParkedStep \/ P!Spurious \/ P!GiveUp \/ P!CondvarReturns
    PROVE  ParkerInv'
<1> USE PartiesDiffer
    DEF ParkerInv, ParkerType, ParkerPc, Parties, NothingBuffered, TokenThere, WakeThere,
        P!At, P!Go
<1>1. CASE P!Drain
  BY <1>1 DEF P!Drain
<1>2. CASE P!Look
  <2>1. CASE obj.condition
    BY <1>2, <2>1 DEF P!Look
  <2>2. CASE ~obj.condition
    <3>1. PICK timed \in BOOLEAN : th' = [th EXCEPT ![w1] = [pc |-> obj.backend, timed |-> timed]]
      BY <1>2, <2>2 DEF P!Look
    <3>2. th'[w1].pc = obj.backend /\ \A u \in Unparkers : th'[u] = th[u]
      BY <3>1
    <3>3. obj' = obj /\ ~obj.buffered
      BY <1>2, <2>2 DEF P!Look
    <3>4. ParkerType'
      BY <3>1, <3>3
    <3> QED
      BY <2>2, <3>2, <3>3, <3>4
  <2> QED
    BY <2>1, <2>2
<1>3. CASE P!Announce
  BY <1>3 DEF P!Announce
<1>4. CASE P!Loop
  BY <1>4 DEF P!Loop
<1>5. CASE P!FutexWait
  BY <1>5 DEF P!FutexWait
<1>6. CASE P!Consume
  BY <1>6 DEF P!Consume
<1>7. CASE P!CheckNotified
  BY <1>7 DEF P!CheckNotified
<1>8. CASE P!Spurious
  BY <1>8 DEF P!Spurious
<1>9. CASE P!GiveUp
  BY <1>9 DEF P!GiveUp
<1>10. CASE P!CondvarReturns
  BY <1>10 DEF P!CondvarReturns
<1> QED
  BY <1>1, <1>2, <1>3, <1>4, <1>5, <1>6, <1>7, <1>8, <1>9, <1>10 DEF P!ParkedStep

\* Those of unpark().
LEMMA UnparkKeeps ==
    ASSUME ParkerInv, NEW u \in Unparkers, P!Change(u) \/ P!Unpark(u) \/ P!Signal(u)
    PROVE  ParkerInv'
<1> USE PartiesDiffer
    DEF ParkerInv, ParkerType, ParkerPc, Parties, NothingBuffered, TokenThere, WakeThere,
        P!At, P!Go
<1>1. CASE P!Change(u)
  BY ZenonT(40), <1>1 DEF P!Change
<1>2. CASE P!Unpark(u)
  BY <1>2 DEF P!Unpark
<1>3. CASE P!Signal(u)
  BY <1>3 DEF P!Signal
<1> QED
  BY <1>1, <1>2, <1>3

LEMMA ParkerKeeps ==
    ASSUME ParkerInv, P!Next
    PROVE  ParkerInv'
<1>1. CASE P!Spurious \/ P!GiveUp \/ P!CondvarReturns \/ P!ParkedStep
  BY <1>1, ParkedKeeps
<1>2. CASE \E u \in Unparkers : P!Change(u) \/ P!Unpark(u) \/ P!Signal(u)
  BY <1>2, UnparkKeeps
<1>3. ~P!Change(w1) /\ ~P!Unpark(w1) /\ ~P!Signal(w1)
  BY PartiesDiffer
  DEF P!Change, P!Unpark, P!Signal, P!At, ParkerInv, ParkerType, NothingBuffered
<1> QED
  BY <1>1, <1>2, <1>3 DEF P!Next, P!Step

-----------------------------------------------------------------------------
(* The blocking pool.                                                      *)

PoolPc == {"none", "lock", "waiting", "woken", "timedOut", "run"}
OnTheirWay == {"lock", "woken", "timedOut"}
CountedIdle == {"waiting", "woken", "timedOut"}
Started == PoolPc \ {"none"}
PoolType ==
    /\ obj \in [is : {"Blocking"}, jobs : Nat, threads : Nat, idle : Nat, submitted : Nat]
    /\ th \in [PoolThreads -> PoolPc]

NotStranded ==
    \/ obj.jobs <= Cardinality(N!In(OnTheirWay))
    \/ obj.threads = kMaxThreads /\ N!In({"waiting"}) = {}

\* The two counters count, and the cap holds.
PoolInv ==
    /\ PoolType
    /\ obj.idle = Cardinality(N!In(CountedIdle))
    /\ obj.threads = Cardinality(N!In(Started)) /\ obj.threads <= kMaxThreads
    /\ NotStranded

\* The Cardinality of the instance is the one the theorems are about.
LEMMA NotStrandedMeans == N!JobNotStranded <=> NotStranded
<1>1. \A E : N!Cardinality(E) = Cardinality(E)
  BY DEF N!Cardinality, Cardinality
<1> QED
  BY <1>1 DEF N!JobNotStranded, NotStranded, OnTheirWay

LEMMA PoolFinite ==
    ASSUME NEW E
    PROVE  IsFiniteSet(N!In(E)) /\ Cardinality(N!In(E)) \in Nat
<1>1. N!In(E) \subseteq PoolThreads
  BY DEF N!In
<1> QED
  BY <1>1, PoolIsFinite, FS_Subset, FS_CardinalityType

LEMMA PoolInit == N!Init => PoolInv
<1> SUFFICES ASSUME N!Init
             PROVE  PoolInv
  OBVIOUS
<1>1. N!In(CountedIdle) = {} /\ N!In(Started) = {}
  BY DEF N!Init, N!In, CountedIdle, Started
<1>2. Cardinality({}) = 0
  BY FS_EmptySet
<1>3. Cardinality(N!In(OnTheirWay)) \in Nat
  BY PoolFinite
<1>4. PoolType /\ obj.jobs = 0 /\ obj.idle = 0 /\ obj.threads = 0
  BY DEF N!Init, PoolType, PoolPc
<1> QED
  BY <1>1, <1>2, <1>3, <1>4, PoolIsFinite DEF PoolInv, NotStranded

\* What one thread's step does to such a count.
LEMMA PoolMoves ==
    ASSUME PoolType, NEW t \in PoolThreads, NEW pc, N!Go(t, pc), NEW CONSTANT E
    PROVE  /\ Cardinality(N!In(E)) \in Nat /\ Cardinality(N!In(E)') \in Nat
           /\ (th[t] \in E <=> pc \in E) => Cardinality(N!In(E)') = Cardinality(N!In(E))
           /\ th[t] \in E /\ pc \notin E => Cardinality(N!In(E)') = Cardinality(N!In(E)) - 1
           /\ th[t] \notin E /\ pc \in E => Cardinality(N!In(E)') = Cardinality(N!In(E)) + 1
<1> DEFINE A == N!In(E)
           B == N!In(E)'
<1>1. /\ \A u \in PoolThreads : u \in A <=> th[u] \in E
      /\ \A u \in PoolThreads : u \in B <=> th'[u] \in E
      /\ A \subseteq PoolThreads /\ B \subseteq PoolThreads
  BY DEF N!In
<1>2. th'[t] = pc /\ \A u \in PoolThreads \ {t} : th'[u] = th[u]
  BY DEF N!Go, PoolType
<1>3. IsFiniteSet(A) /\ IsFiniteSet(B) /\ Cardinality(A) \in Nat /\ Cardinality(B) \in Nat
  BY <1>1, PoolIsFinite, FS_Subset, FS_CardinalityType
<1> HIDE DEF A, B
<1>4. CASE th[t] \in E <=> pc \in E
  <2>1. A = B
    BY <1>1, <1>2, <1>4
  <2> QED
    BY <1>3, <1>4, <2>1 DEF A, B
<1>5. CASE th[t] \in E /\ pc \notin E
  <2>1. B = A \ {t} /\ t \in A
    BY <1>1, <1>2, <1>5
  <2> QED
    BY <1>3, <1>5, <2>1, FS_RemoveElement DEF A, B
<1>6. CASE th[t] \notin E /\ pc \in E
  <2>1. B = A \cup {t} /\ t \notin A
    BY <1>1, <1>2, <1>6
  <2> QED
    BY <1>3, <1>6, <2>1, FS_AddElement DEF A, B
<1> QED
  BY <1>4, <1>5, <1>6

\* A thread that goes from one place to another, for the three counts at once.
LEMMA PoolCounts ==
    ASSUME PoolInv, NEW t \in PoolThreads, NEW pc \in PoolPc, N!Go(t, pc)
    PROVE  /\ th' \in [PoolThreads -> PoolPc]
           /\ Cardinality(N!In(OnTheirWay)) \in Nat /\ Cardinality(N!In(OnTheirWay)') \in Nat
           /\ Cardinality(N!In(OnTheirWay)') = Cardinality(N!In(OnTheirWay))
                 + (IF pc \in OnTheirWay THEN 1 ELSE 0) - (IF th[t] \in OnTheirWay THEN 1 ELSE 0)
           /\ Cardinality(N!In(CountedIdle)') = obj.idle
                 + (IF pc \in CountedIdle THEN 1 ELSE 0) - (IF th[t] \in CountedIdle THEN 1 ELSE 0)
           /\ Cardinality(N!In(Started)') = obj.threads
                 + (IF pc = "none" THEN 0 ELSE 1) - (IF th[t] = "none" THEN 0 ELSE 1)
           /\ Cardinality(N!In(CountedIdle)') \in Nat /\ Cardinality(N!In(Started)') \in Nat
<1>1. PoolType
  BY DEF PoolInv
<1>2. th' \in [PoolThreads -> PoolPc] /\ th[t] \in PoolPc
  BY <1>1 DEF PoolType, N!Go
<1>3. /\ Cardinality(N!In(OnTheirWay)) \in Nat /\ Cardinality(N!In(OnTheirWay)') \in Nat
      /\ Cardinality(N!In(OnTheirWay)') = Cardinality(N!In(OnTheirWay))
            + (IF pc \in OnTheirWay THEN 1 ELSE 0) - (IF th[t] \in OnTheirWay THEN 1 ELSE 0)
  BY <1>1, PoolMoves
<1>4. /\ Cardinality(N!In(CountedIdle)) \in Nat /\ Cardinality(N!In(CountedIdle)') \in Nat
      /\ Cardinality(N!In(CountedIdle)') = Cardinality(N!In(CountedIdle))
            + (IF pc \in CountedIdle THEN 1 ELSE 0) - (IF th[t] \in CountedIdle THEN 1 ELSE 0)
  BY <1>1, PoolMoves
<1>5. /\ Cardinality(N!In(Started)) \in Nat /\ Cardinality(N!In(Started)') \in Nat
      /\ Cardinality(N!In(Started)') = Cardinality(N!In(Started))
            + (IF pc \in Started THEN 1 ELSE 0) - (IF th[t] \in Started THEN 1 ELSE 0)
  BY <1>1, PoolMoves
<1>6. (pc \in Started <=> pc # "none") /\ (th[t] \in Started <=> th[t] # "none")
  BY <1>2 DEF Started
<1> QED
  BY <1>2, <1>3, <1>4, <1>5, <1>6 DEF PoolInv

\* A thread waits, or is counted on.
LEMMA PoolWaiting ==
    ASSUME PoolInv, N!In({"waiting"}) = {}
    PROVE  obj.idle <= Cardinality(N!In(OnTheirWay))
<1>1. N!In(CountedIdle) \subseteq N!In(OnTheirWay)
  BY DEF N!In, CountedIdle, OnTheirWay
<1>2. IsFiniteSet(N!In(OnTheirWay))
  BY PoolFinite
<1> QED
  BY <1>1, <1>2, FS_Subset DEF PoolInv

\* submit() starts a thread or wakes one, if there is one to be had.
LEMMA PoolSubmit ==
    ASSUME PoolInv, N!submit
    PROVE  PoolInv'
<1>0. PoolType /\ kMaxThreads \in Nat /\ Cardinality(N!In(OnTheirWay)) \in Nat
  BY PoolIsFinite, PoolFinite DEF PoolInv
<1>1. obj.jobs \in Nat /\ obj.threads \in Nat /\ obj.idle \in Nat
  BY <1>0 DEF PoolType
<1> DEFINE starts == N!JobsExceedIdle /\ obj.threads < kMaxThreads
           Submitted(n) == obj' = [is |-> "Blocking", jobs |-> obj.jobs + 1, threads |-> n,
                                   idle |-> obj.idle, submitted |-> obj.submitted + 1]
<1>2. starts => Submitted(obj.threads + 1)
  <2> HAVE starts
  <2>1. obj' = [obj EXCEPT !.submitted = @ + 1, !.jobs = @ + 1, !.threads = @ + 1]
    BY DEF N!submit
  <2> QED
    BY <1>0, <2>1 DEF PoolType
<1>3. ~starts => Submitted(obj.threads)
  <2> HAVE ~starts
  <2>1. obj' = [obj EXCEPT !.submitted = @ + 1, !.jobs = @ + 1, !.threads = @]
    BY DEF N!submit
  <2> QED
    BY <1>0, <2>1 DEF PoolType
<1>4. \/ obj.jobs <= Cardinality(N!In(OnTheirWay))
      \/ obj.threads = kMaxThreads /\ N!In({"waiting"}) = {}
  BY DEF PoolInv, NotStranded
<1>5. CASE starts
  <2>1. PICK t \in PoolThreads : th[t] = "none" /\ N!Go(t, "lock")
    BY <1>5 DEF N!submit, N!In
  <2>2. /\ Cardinality(N!In(OnTheirWay)') = Cardinality(N!In(OnTheirWay)) + 1
        /\ Cardinality(N!In(CountedIdle)') = obj.idle
        /\ Cardinality(N!In(Started)') = obj.threads + 1
        /\ th' \in [PoolThreads -> PoolPc]
    BY <2>1, <1>0, <1>1, PoolCounts DEF PoolPc, OnTheirWay, CountedIdle
  <2>3. /\ obj'.jobs = obj.jobs + 1 /\ obj'.idle = obj.idle /\ obj'.threads = obj.threads + 1
        /\ obj.threads < kMaxThreads
    BY <1>2, <1>5
  <2>4. PoolType'
    BY <1>0, <1>1, <1>2, <1>5, <2>2 DEF PoolType
  <2>5. NotStranded'
    BY <1>0, <1>1, <1>4, <2>2, <2>3 DEF NotStranded
  <2> QED
    BY <1>0, <1>1, <2>2, <2>3, <2>4, <2>5 DEF PoolInv
<1>6. CASE ~starts /\ N!In({"waiting"}) = {}
  <2>1. UNCHANGED th
    BY <1>6 DEF N!submit, N!notify_one
  <2>2. \A E : N!In(E)' = N!In(E)
    BY <2>1 DEF N!In
  <2>3. obj'.jobs = obj.jobs + 1 /\ obj'.idle = obj.idle /\ obj'.threads = obj.threads
    BY <1>3, <1>6
  <2>4. PoolType'
    BY <1>0, <1>1, <1>3, <1>6, <2>1 DEF PoolType
  <2>5. obj.threads <= kMaxThreads
    BY DEF PoolInv
  <2>6. obj.jobs + 1 <= Cardinality(N!In(OnTheirWay)) \/ obj.threads = kMaxThreads
    <3>1. CASE N!JobsExceedIdle
      BY <1>0, <1>1, <1>6, <2>5, <3>1
    <3>2. CASE ~N!JobsExceedIdle
      BY <1>0, <1>1, <1>6, <3>2, PoolWaiting DEF N!JobsExceedIdle
    <3> QED
      BY <3>1, <3>2
  <2>7. NotStranded'
    BY <1>6, <2>2, <2>3, <2>6 DEF NotStranded
  <2> QED
    BY <2>2, <2>3, <2>4, <2>7 DEF PoolInv
<1>7. CASE ~starts /\ N!In({"waiting"}) # {}
  <2>1. PICK t \in PoolThreads : th[t] = "waiting" /\ N!Go(t, "woken")
    BY <1>7 DEF N!submit, N!notify_one, N!In
  <2>2. /\ Cardinality(N!In(OnTheirWay)') = Cardinality(N!In(OnTheirWay)) + 1
        /\ Cardinality(N!In(CountedIdle)') = obj.idle
        /\ Cardinality(N!In(Started)') = obj.threads
        /\ th' \in [PoolThreads -> PoolPc]
    BY <2>1, <1>0, <1>1, PoolCounts DEF PoolPc, OnTheirWay, CountedIdle
  <2>3. obj'.jobs = obj.jobs + 1 /\ obj'.idle = obj.idle /\ obj'.threads = obj.threads
    BY <1>3, <1>7
  <2>4. PoolType'
    BY <1>0, <1>1, <1>3, <1>7, <2>2 DEF PoolType
  <2>5. NotStranded'
    BY <1>0, <1>1, <1>4, <1>7, <2>2, <2>3 DEF NotStranded
  <2> QED
    BY <2>2, <2>3, <2>4, <2>5 DEF PoolInv
<1> QED
  BY <1>5, <1>6, <1>7

\* A thread that goes to sleep or exits has seen an empty queue; one that goes
\* elsewhere takes a job, or is on its way as before.
LEMMA PoolStep ==
    ASSUME PoolInv, NEW t \in PoolThreads, NEW pc \in PoolPc, N!Go(t, pc), th[t] # "none",
           obj' \in [is : {"Blocking"}, jobs : Nat, threads : Int, idle : Int, submitted : Nat],
           obj'.idle = obj.idle + (IF pc \in CountedIdle THEN 1 ELSE 0)
                                - (IF th[t] \in CountedIdle THEN 1 ELSE 0),
           obj'.threads = obj.threads - (IF pc = "none" THEN 1 ELSE 0),
           \/ obj'.jobs = 0
           \/ /\ pc \notin {"waiting", "none"}
              /\ obj'.jobs + (IF th[t] \in OnTheirWay THEN 1 ELSE 0)
                   <= obj.jobs + (IF pc \in OnTheirWay THEN 1 ELSE 0)
    PROVE  PoolInv'
<1>1. /\ PoolType /\ kMaxThreads \in Nat /\ obj.jobs \in Nat /\ obj.threads \in Nat
      /\ obj.threads <= kMaxThreads
      /\ \/ obj.jobs <= Cardinality(N!In(OnTheirWay))
         \/ obj.threads = kMaxThreads /\ N!In({"waiting"}) = {}
  BY PoolIsFinite DEF PoolInv, PoolType, NotStranded
<1>2. /\ th' \in [PoolThreads -> PoolPc]
      /\ Cardinality(N!In(OnTheirWay)) \in Nat /\ Cardinality(N!In(OnTheirWay)') \in Nat
      /\ Cardinality(N!In(OnTheirWay)') = Cardinality(N!In(OnTheirWay))
            + (IF pc \in OnTheirWay THEN 1 ELSE 0) - (IF th[t] \in OnTheirWay THEN 1 ELSE 0)
      /\ Cardinality(N!In(CountedIdle)') = obj'.idle /\ obj'.idle \in Nat
      /\ Cardinality(N!In(Started)') = obj'.threads /\ obj'.threads \in Nat
  BY <1>1, PoolCounts
<1>3. N!In({"waiting"}) = {} /\ pc # "waiting" => N!In({"waiting"})' = {}
  BY <1>1 DEF N!In, N!Go, PoolType
<1>4. PoolType'
  BY <1>2 DEF PoolType
<1>5. \/ obj'.jobs <= Cardinality(N!In(OnTheirWay)')
      \/ obj'.threads = kMaxThreads /\ N!In({"waiting"})' = {}
  BY <1>1, <1>2, <1>3
<1>6. obj'.threads <= kMaxThreads
  BY <1>1
<1> QED
  BY <1>2, <1>4, <1>5, <1>6 DEF PoolInv, NotStranded

LEMMA PoolTake ==
    ASSUME PoolInv, NEW t \in PoolThreads, obj.jobs # 0, th[t] \in OnTheirWay,
           N!Take(t, obj.idle - (IF th[t] \in CountedIdle THEN 1 ELSE 0))
    PROVE  PoolInv'
<1> DEFINE less == IF th[t] \in CountedIdle THEN 1 ELSE 0
<1>1. /\ PoolType /\ obj.jobs \in Nat /\ obj.idle \in Nat /\ obj.threads \in Nat
      /\ obj.submitted \in Nat /\ less \in Nat
  BY DEF PoolInv, PoolType
<1>2. obj' = [is |-> "Blocking", jobs |-> obj.jobs - 1, threads |-> obj.threads,
              idle |-> obj.idle - less, submitted |-> obj.submitted]
  <2> HIDE DEF less
  <2>1. obj' = [obj EXCEPT !.jobs = @ - 1, !.idle = obj.idle - less]
    BY DEF N!Take, less
  <2> QED
    BY <1>1, <2>1 DEF PoolType
<1>3. obj.jobs - 1 \in Nat /\ obj.idle - less \in Int
  BY <1>1
<1>4. N!Go(t, "run") /\ "run" \in PoolPc /\ th[t] # "none"
  BY DEF N!Take, PoolPc, OnTheirWay
<1>5. "run" \notin CountedIdle /\ "run" \notin OnTheirWay
  BY DEF CountedIdle, OnTheirWay
<1>6. obj' \in [is : {"Blocking"}, jobs : Nat, threads : Int, idle : Int, submitted : Nat]
  <2> HIDE DEF less
  <2> QED
    BY <1>1, <1>2, <1>3
<1>7. /\ obj'.idle = obj.idle + (IF "run" \in CountedIdle THEN 1 ELSE 0) - less
      /\ obj'.threads = obj.threads - (IF "run" = "none" THEN 1 ELSE 0)
      /\ obj'.jobs = obj.jobs - 1
  <2> HIDE DEF less
  <2> QED
    BY <1>1, <1>2, <1>5
<1>8. obj'.jobs + (IF th[t] \in OnTheirWay THEN 1 ELSE 0)
        <= obj.jobs + (IF "run" \in OnTheirWay THEN 1 ELSE 0)
  BY <1>1, <1>5, <1>7
<1> QED
  BY <1>4, <1>6, <1>7, <1>8, PoolStep

LEMMA PoolKeeps ==
    ASSUME PoolInv, N!Next
    PROVE  PoolInv'
<1>0. PoolType
  BY DEF PoolInv
<1>1. CASE N!submit
  BY <1>1, PoolSubmit
<1>2. ASSUME NEW t \in PoolThreads, N!Loop(t)
      PROVE  PoolInv'
  <2>1. CASE obj.jobs # 0
    <3>1. th[t] = "lock" /\ N!Take(t, obj.idle)
      BY <1>2, <2>1 DEF N!Loop
    <3>2. obj.idle - 0 = obj.idle
      BY <1>0 DEF PoolType
    <3> QED
      BY <2>1, <3>1, <3>2, PoolTake DEF OnTheirWay, CountedIdle
  <2>2. CASE obj.jobs = 0
    BY <1>0, <1>2, <2>2, PoolStep DEF N!Loop, PoolType, PoolPc, OnTheirWay, CountedIdle
  <2> QED
    BY <2>1, <2>2
<1>3. ASSUME NEW t \in PoolThreads, N!Woken(t)
      PROVE  PoolInv'
  <2>1. CASE obj.jobs # 0
    <3>1. th[t] = "woken" /\ N!Take(t, obj.idle - 1)
      BY <1>3, <2>1 DEF N!Woken
    <3> QED
      BY <2>1, <3>1, PoolTake DEF OnTheirWay, CountedIdle
  <2>2. CASE obj.jobs = 0
    BY <1>0, <1>3, <2>2, PoolStep DEF N!Woken, PoolType, PoolPc, OnTheirWay, CountedIdle
  <2> QED
    BY <2>1, <2>2
<1>4. ASSUME NEW t \in PoolThreads, N!WakesUnasked(t)
      PROVE  PoolInv'
  BY <1>0, <1>4, PoolStep DEF N!WakesUnasked, PoolType, PoolPc, OnTheirWay, CountedIdle
<1>5. ASSUME NEW t \in PoolThreads, N!TimesOut(t)
      PROVE  PoolInv'
  BY <1>0, <1>5, PoolStep DEF N!TimesOut, PoolType, PoolPc, OnTheirWay, CountedIdle
<1>6. ASSUME NEW t \in PoolThreads, N!GotOrExit(t)
      PROVE  PoolInv'
  <2>1. CASE obj.jobs # 0
    <3>1. th[t] = "timedOut" /\ N!Take(t, obj.idle - 1)
      BY <1>6, <2>1 DEF N!GotOrExit
    <3> QED
      BY <2>1, <3>1, PoolTake DEF OnTheirWay, CountedIdle
  <2>2. CASE obj.jobs = 0
    <3>1. /\ th[t] = "timedOut" /\ N!Go(t, "none")
          /\ obj' = [obj EXCEPT !.idle = @ - 1, !.threads = @ - 1]
      BY <1>6, <2>2 DEF N!GotOrExit
    <3>2. /\ obj.idle \in Nat /\ obj.threads \in Nat /\ obj.submitted \in Nat
          /\ obj.idle - 1 \in Int /\ obj.threads - 1 \in Int
      BY <1>0 DEF PoolType
    <3>3. obj' = [is |-> "Blocking", jobs |-> 0, threads |-> obj.threads - 1,
                  idle |-> obj.idle - 1, submitted |-> obj.submitted]
      BY <1>0, <2>2, <3>1, <3>2 DEF PoolType
    <3>4. /\ obj' \in [is : {"Blocking"}, jobs : Nat, threads : Int, idle : Int, submitted : Nat]
          /\ obj'.jobs = 0 /\ obj'.threads = obj.threads - 1 /\ obj'.idle = obj.idle + 0 - 1
      BY <3>2, <3>3
    <3> QED
      BY <3>1, <3>4, PoolStep DEF PoolPc, CountedIdle
  <2> QED
    BY <2>1, <2>2
<1>7. ASSUME NEW t \in PoolThreads, N!run(t)
      PROVE  PoolInv'
  BY <1>0, <1>7, PoolStep DEF N!run, PoolType, PoolPc, OnTheirWay, CountedIdle
<1> QED
  BY <1>1, <1>2, <1>3, <1>4, <1>5, <1>6, <1>7 DEF N!Next

-----------------------------------------------------------------------------
(* Coroutines.                                                             *)

CoContexts == Coroutines \cup Carriers
CoStates == {"None", "Created", "Running", "Suspended", "Done", "Freed"}
CoRecord ==
    [is : {"Coroutine"}, exceptions : BOOLEAN,
     current : [Carriers -> CoContexts],
     thread : [CoContexts -> Carriers \cup {NoOne}],
     state : [CoContexts -> CoStates],
     resumer : [Coroutines -> CoContexts \cup {NoOne}],
     entry : SUBSET Coroutines, exception : SUBSET Coroutines,
     unwinding : SUBSET Coroutines,
     busy : [CoContexts -> Coroutines \cup {NoOne}]]
CoType == obj \in CoRecord /\ th \in [Carriers -> CoContexts]

\* What runs, runs on the thread it knows.
RunsSomewhere ==
    \A x \in CoContexts : obj.state[x] = "Running" =>
        obj.thread[x] \in Carriers /\ th[obj.thread[x]] = x
\* A coroutine has one resumer at a time, who waits for it alone.
OneWaits ==
    \A x, y \in CoContexts : obj.busy[x] = obj.busy[y] /\ obj.busy[x] # NoOne => x = y
ResumersExist ==
    \A c \in Coroutines : obj.state[c] = "Running" \/ obj.busy[c] # NoOne =>
        obj.resumer[c] \in CoContexts
\* Somebody waits for whom an exception is parked, and for whom is unwound; a
\* body that has ended is gone, and an unwound coroutine does not yield.
WaitedFor(c) == \E x \in CoContexts : obj.busy[x] = c
BodiesEnd ==
    /\ \A c \in obj.exception \cup obj.unwinding : WaitedFor(c)
    /\ \A c \in obj.entry : obj.state[c] # "Done"
    /\ \A c \in obj.unwinding :
          obj.state[c] \in {"Running", "Done"} \/ obj.busy[c] # NoOne
CoroutineInv ==
    /\ CoType /\ RunsSomewhere /\ OneWaits /\ ResumersExist /\ BodiesEnd
    /\ O!ThreadKnowsItsContext /\ O!ResumersWait /\ O!FreedIsSpent

LEMMA CoroutineInit == O!Init => CoroutineInv
  BY ContextsDiffer
  DEF O!Init, CoroutineInv, CoType, CoRecord, CoStates, CoContexts, O!Contexts, RunsSomewhere, OneWaits,
      ResumersExist, BodiesEnd, WaitedFor, O!ThreadKnowsItsContext, O!ResumersWait,
      O!FreedIsSpent, O!Idle

\* Whoever runs and waits, waits for one that neither runs nor waits itself.
LEMMA WaitIsOver ==
    ASSUME CoroutineInv, NEW x \in CoContexts, obj.state[x] = "Running",
           obj.busy[x] # NoOne
    PROVE  /\ obj.busy[x] \in Coroutines /\ obj.busy[x] # x
           /\ obj.state[obj.busy[x]] # "Running"
           /\ obj.busy[obj.busy[x]] = NoOne
<1> DEFINE c == obj.busy[x]
<1>1. c \in Coroutines /\ c \in CoContexts
  BY DEF CoroutineInv, CoType, CoRecord, CoContexts
<1>2. ~(obj.state[c] = "Running" \/ obj.busy[c] # NoOne)
  <2> SUFFICES ASSUME obj.state[c] = "Running" \/ obj.busy[c] # NoOne
               PROVE  FALSE
    OBVIOUS
  <2>1. /\ obj.resumer[c] \in CoContexts /\ obj.busy[obj.resumer[c]] = c
        /\ obj.state[obj.resumer[c]] = "Suspended"
    BY <1>1 DEF CoroutineInv, ResumersExist, O!ResumersWait, O!Idle
  <2>2. obj.resumer[c] = x
    BY <1>1, <2>1 DEF CoroutineInv, OneWaits
  <2> QED
    BY <2>1, <2>2
<1> QED
  BY <1>1, <1>2

\* makeCoroutine().
LEMMA MakeKeeps ==
    ASSUME CoroutineInv, NEW t \in Carriers, NEW c \in Coroutines, O!makeCoroutine(t, c)
    PROVE  CoroutineInv'
<1>1. /\ obj.state[c] = "None" /\ th' = th /\ c \in CoContexts
      /\ obj' = [obj EXCEPT !.state = [obj.state EXCEPT ![c] = "Created"],
                            !.entry = obj.entry \cup {c}]
  BY DEF O!makeCoroutine, CoContexts
<1>2. /\ CoType'
      /\ obj'.state = [obj.state EXCEPT ![c] = "Created"]
      /\ obj'.entry = obj.entry \cup {c}
      /\ obj'.current = obj.current /\ obj'.thread = obj.thread /\ obj'.resumer = obj.resumer
      /\ obj'.exception = obj.exception /\ obj'.unwinding = obj.unwinding
      /\ obj'.busy = obj.busy
  <2>1. [obj.state EXCEPT ![c] = "Created"] \in [CoContexts -> CoStates]
    BY DEF CoroutineInv, CoType, CoRecord, CoStates
  <2>2. obj.entry \cup {c} \in SUBSET Coroutines
    BY DEF CoroutineInv, CoType, CoRecord
  <2> QED
    BY <1>1, <2>1, <2>2 DEF CoroutineInv, CoType, CoRecord
<1>3. \A x \in CoContexts : x # c => obj'.state[x] = obj.state[x]
  BY <1>2 DEF CoroutineInv, CoType, CoRecord
<1>4. obj'.state[c] = "Created" /\ \A u \in Carriers : th[u] # c
  BY <1>1, <1>2 DEF CoroutineInv, CoType, CoRecord, O!ThreadKnowsItsContext
<1> QED
  BY <1>1, <1>2, <1>3, <1>4
  DEF CoroutineInv, CoType, CoRecord, CoContexts, O!Contexts, RunsSomewhere,
      OneWaits, ResumersExist, BodiesEnd, WaitedFor, O!ThreadKnowsItsContext, O!ResumersWait,
      O!FreedIsSpent, O!Idle

\* What a switch from one context to another writes.
Written(t, o, from, to, fromState) ==
    /\ obj' \in CoRecord
    /\ obj'.current = [o.current EXCEPT ![t] = to]
    /\ obj'.thread = [o.thread EXCEPT ![to] = t]
    /\ obj'.state = [[o.state EXCEPT ![from] = fromState] EXCEPT ![to] = "Running"]
    /\ obj'.resumer = o.resumer /\ obj'.busy = o.busy /\ obj'.exceptions = o.exceptions
    /\ obj'.entry = o.entry /\ obj'.exception = o.exception /\ obj'.unwinding = o.unwinding
LEMMA SwitchWrites ==
    ASSUME NEW t, NEW o \in CoRecord, NEW from \in CoContexts, NEW to \in CoContexts, from # to,
           NEW fromState \in CoStates, o.thread[from] = t, t \in Carriers,
           O!SwitchTo(t, o, from, to, fromState)
    PROVE  Written(t, o, from, to, fromState)
<1> DEFINE current == [o.current EXCEPT ![t] = to]
           state == [[o.state EXCEPT ![from] = fromState] EXCEPT ![to] = "Running"]
           thread == [o.thread EXCEPT ![to] = t]
<1>1. obj' = [[o EXCEPT !.current = current, !.state = state] EXCEPT !.thread = thread]
  BY DEF O!SwitchTo, O!onArrival, CoRecord
<1>2. /\ current \in [Carriers -> CoContexts]
      /\ state \in [CoContexts -> CoStates]
      /\ thread \in [CoContexts -> Carriers \cup {NoOne}]
  BY DEF CoRecord, CoStates
<1> HIDE DEF current, state, thread
<1>3. /\ obj' \in CoRecord
      /\ obj'.current = current /\ obj'.thread = thread /\ obj'.state = state
      /\ obj'.resumer = o.resumer /\ obj'.busy = o.busy /\ obj'.exceptions = o.exceptions
      /\ obj'.entry = o.entry /\ obj'.exception = o.exception /\ obj'.unwinding = o.unwinding
  BY <1>1, <1>2 DEF CoRecord
<1> QED
  BY <1>3 DEF Written, current, state, thread

\* resume(), and the resume() of unwindSuspended().
LEMMA EnterKeeps ==
    ASSUME CoroutineInv, NEW t \in Carriers, NEW c \in Coroutines, NEW unwinding,
           O!Acts(t, th[t]), O!Free(c), obj.state[c] \in {"Created", "Suspended"},
           unwinding \in {obj.unwinding, obj.unwinding \cup {c}},
           O!SwitchTo(t, [obj EXCEPT !.resumer[c] = th[t], !.busy[th[t]] = c,
                                     !.unwinding = unwinding], th[t], c, "Suspended")
    PROVE  CoroutineInv'
<1> DEFINE from == th[t]
           resumer == [obj.resumer EXCEPT ![c] = from]
           busy == [obj.busy EXCEPT ![from] = c]
           o == [obj EXCEPT !.resumer = resumer, !.busy = busy, !.unwinding = unwinding]
<1>1. /\ obj \in CoRecord /\ from \in CoContexts /\ c \in CoContexts
      /\ th \in [Carriers -> CoContexts]
  BY DEF CoroutineInv, CoType, CoContexts
<1>2. /\ obj.state[from] = "Running" /\ obj.thread[from] = t /\ obj.busy[from] = NoOne
      /\ obj.busy[c] = NoOne /\ \A x \in CoContexts : obj.busy[x] # c
      /\ c # from /\ obj.current[t] = from
  BY <1>1 DEF CoroutineInv, O!ThreadKnowsItsContext, O!Acts, O!Idle, O!Free, O!Contexts,
     CoContexts
<1>3. /\ resumer \in [Coroutines -> CoContexts \cup {NoOne}]
      /\ busy \in [CoContexts -> Coroutines \cup {NoOne}]
      /\ unwinding \in SUBSET Coroutines
  BY <1>1 DEF CoRecord
<1> HIDE DEF resumer, busy
<1>4. /\ o \in CoRecord /\ o.resumer = resumer /\ o.busy = busy /\ o.unwinding = unwinding
      /\ o.current = obj.current /\ o.thread = obj.thread /\ o.state = obj.state
      /\ o.entry = obj.entry /\ o.exception = obj.exception
  BY <1>1, <1>3 DEF CoRecord
<1>5. O!SwitchTo(t, o, from, c, "Suspended")
  BY DEF resumer, busy
<1>6. th' = [th EXCEPT ![t] = c]
  BY DEF O!SwitchTo
<1> HIDE DEF o
<1>7. /\ obj' \in CoRecord
      /\ obj'.current = [obj.current EXCEPT ![t] = c]
      /\ obj'.thread = [obj.thread EXCEPT ![c] = t]
      /\ obj'.state = [[obj.state EXCEPT ![from] = "Suspended"] EXCEPT ![c] = "Running"]
      /\ obj'.resumer = resumer /\ obj'.busy = busy /\ obj'.entry = obj.entry
      /\ obj'.exception = obj.exception /\ obj'.unwinding = unwinding
  <2>1. "Suspended" \in CoStates /\ from # c /\ o.thread[from] = t
    BY <1>2, <1>4 DEF CoStates
  <2> HIDE DEF from
  <2>2. Written(t, o, from, c, "Suspended")
    BY <1>1, <1>4, <1>5, <2>1, SwitchWrites
  <2> QED
    BY <1>4, <2>2 DEF Written
<1> HIDE DEF from
<1>8. /\ obj'.current[t] = c /\ obj'.thread[c] = t /\ obj'.state[c] = "Running"
      /\ obj'.state[from] = "Suspended" /\ obj'.resumer[c] = from /\ obj'.busy[from] = c
      /\ th'[t] = c
      /\ \A u \in Carriers : u # t => th'[u] = th[u] /\ obj'.current[u] = obj.current[u]
      /\ \A x \in CoContexts : x # c => obj'.thread[x] = obj.thread[x]
      /\ \A x \in CoContexts : x # c /\ x # from => obj'.state[x] = obj.state[x]
      /\ \A d \in Coroutines : d # c => obj'.resumer[d] = obj.resumer[d]
      /\ \A x \in CoContexts : x # from => obj'.busy[x] = obj.busy[x]
  BY <1>1, <1>2, <1>6, <1>7 DEF CoRecord, resumer, busy
<1>9. th[t] = from /\ c # NoOne
  BY <1>1, ContextsDiffer DEF from, CoContexts
<1>10. CoType'
  BY <1>1, <1>6, <1>7 DEF CoType
<1>11. O!ThreadKnowsItsContext'
  BY <1>1, <1>2, <1>8, <1>9 DEF CoroutineInv, O!ThreadKnowsItsContext
<1>12. RunsSomewhere'
  BY <1>1, <1>2, <1>8, <1>9 DEF CoroutineInv, RunsSomewhere
<1>13. OneWaits'
  BY <1>1, <1>2, <1>8 DEF CoroutineInv, OneWaits
<1>14. ResumersExist'
  BY <1>1, <1>2, <1>8 DEF CoroutineInv, ResumersExist, CoContexts
<1>15. BodiesEnd'
  BY SMTT(20), <1>1, <1>2, <1>7, <1>8, <1>9 DEF CoroutineInv, CoRecord, BodiesEnd, WaitedFor, CoContexts
<1>16. O!ResumersWait'
  <2> SUFFICES ASSUME NEW d \in Coroutines, obj'.state[d] = "Running" \/ obj'.busy[d] # NoOne
               PROVE  /\ obj'.busy[obj'.resumer[d]] = d
                      /\ obj'.state[obj'.resumer[d]] = "Suspended"
    BY DEF O!ResumersWait, O!Idle
  <2>1. CASE d = c
    BY <1>8, <2>1
  <2>2. CASE d # c
    <3>1. obj.state[d] = "Running" \/ obj.busy[d] # NoOne
      BY <1>2, <1>8, <2>2 DEF CoContexts
    <3>2. /\ obj.busy[obj.resumer[d]] = d /\ obj.state[obj.resumer[d]] = "Suspended"
          /\ obj.resumer[d] \in CoContexts
      BY <3>1 DEF CoroutineInv, ResumersExist, O!ResumersWait, O!Idle
    <3>3. d # NoOne
      BY ContextsDiffer
    <3> QED
      BY <1>2, <1>8, <1>9, <2>2, <3>2, <3>3
  <2> QED
    BY <2>1, <2>2
<1>17. O!FreedIsSpent'
  BY <1>1, <1>2, <1>7, <1>8, <1>9
  DEF CoroutineInv, O!FreedIsSpent, O!Idle, O!Contexts, CoContexts
<1> QED
  BY <1>10, <1>11, <1>12, <1>13, <1>14, <1>15, <1>16, <1>17 DEF CoroutineInv

\* Yield, and the end of contextEntry().
LEMMA LeaveKeeps ==
    ASSUME CoroutineInv, NEW t \in Carriers, NEW fromState, NEW entry, NEW exception,
           th[t] \in Coroutines, O!Acts(t, th[t]),
           fromState \in {"Suspended", "Done"},
           fromState = "Suspended" => th[t] \notin obj.unwinding,
           entry \in {obj.entry, obj.entry \ {th[t]}},
           fromState = "Done" => th[t] \notin entry,
           exception \in {obj.exception, obj.exception \cup {th[t]}},
           O!SwitchTo(t, [obj EXCEPT !.entry = entry, !.exception = exception],
                      th[t], obj.resumer[th[t]], fromState)
    PROVE  CoroutineInv'
<1> DEFINE c == th[t]
           r == obj.resumer[c]
           o == [obj EXCEPT !.entry = entry, !.exception = exception]
<1>1. /\ obj \in CoRecord /\ c \in CoContexts /\ c \in Coroutines
      /\ th \in [Carriers -> CoContexts]
  BY DEF CoroutineInv, CoType, CoContexts
<1>2. /\ obj.state[c] = "Running" /\ obj.thread[c] = t /\ obj.busy[c] = NoOne
      /\ obj.current[t] = c
  BY <1>1 DEF CoroutineInv, O!ThreadKnowsItsContext, O!Acts, O!Idle
<1>3. /\ r \in CoContexts /\ obj.busy[r] = c /\ obj.state[r] = "Suspended" /\ r # c
  BY <1>1, <1>2 DEF CoroutineInv, ResumersExist, O!ResumersWait
<1>4. /\ o \in CoRecord /\ o.entry = entry /\ o.exception = exception
      /\ o.current = obj.current /\ o.thread = obj.thread /\ o.state = obj.state
      /\ o.resumer = obj.resumer /\ o.busy = obj.busy /\ o.unwinding = obj.unwinding
  <2>1. entry \in SUBSET Coroutines /\ exception \in SUBSET Coroutines
    BY <1>1 DEF CoRecord
  <2> QED
    BY <1>1, <2>1 DEF CoRecord
<1>5. O!SwitchTo(t, o, c, r, fromState)
  OBVIOUS
<1>6. th' = [th EXCEPT ![t] = r]
  BY DEF O!SwitchTo
<1> HIDE DEF o
<1>7. /\ obj' \in CoRecord
      /\ obj'.current = [obj.current EXCEPT ![t] = r]
      /\ obj'.thread = [obj.thread EXCEPT ![r] = t]
      /\ obj'.state = [[obj.state EXCEPT ![c] = fromState] EXCEPT ![r] = "Running"]
      /\ obj'.resumer = obj.resumer /\ obj'.busy = obj.busy /\ obj'.entry = entry
      /\ obj'.exception = exception /\ obj'.unwinding = obj.unwinding
  <2>1. fromState \in CoStates /\ c # r /\ o.thread[c] = t
    BY <1>2, <1>3, <1>4 DEF CoStates
  <2> HIDE DEF c, r
  <2>2. Written(t, o, c, r, fromState)
    BY <1>1, <1>3, <1>4, <1>5, <2>1, SwitchWrites
  <2> QED
    BY <1>4, <2>2 DEF Written
<1>8. th[t] = c /\ c # NoOne
  BY <1>1, ContextsDiffer DEF CoContexts
<1> HIDE DEF c, r
<1>9. /\ obj'.current[t] = r /\ obj'.thread[r] = t /\ obj'.state[r] = "Running"
      /\ obj'.state[c] = fromState /\ th'[t] = r
      /\ \A u \in Carriers : u # t => th'[u] = th[u] /\ obj'.current[u] = obj.current[u]
      /\ \A x \in CoContexts : x # r => obj'.thread[x] = obj.thread[x]
      /\ \A x \in CoContexts : x # c /\ x # r => obj'.state[x] = obj.state[x]
  BY <1>1, <1>2, <1>3, <1>6, <1>7 DEF CoRecord
<1>10. CoType'
  BY <1>1, <1>3, <1>6, <1>7 DEF CoType
<1>11. O!ThreadKnowsItsContext'
  BY <1>1, <1>2, <1>3, <1>8, <1>9 DEF CoroutineInv, O!ThreadKnowsItsContext
<1>12. RunsSomewhere'
  BY <1>1, <1>2, <1>3, <1>8, <1>9 DEF CoroutineInv, RunsSomewhere
<1>13. OneWaits'
  BY <1>7 DEF CoroutineInv, OneWaits
<1>14. ResumersExist'
  BY <1>1, <1>3, <1>7, <1>8, <1>9 DEF CoroutineInv, ResumersExist, CoContexts
<1>15. BodiesEnd'
  <2>1. \A x \in CoContexts : obj'.busy[x] = obj.busy[x]
    BY <1>7
  <2> QED
    BY <1>1, <1>2, <1>3, <1>7, <1>8, <1>9, <2>1
    DEF CoroutineInv, CoRecord, BodiesEnd, WaitedFor, CoContexts
<1>16. O!ResumersWait'
  <2> SUFFICES ASSUME NEW d \in Coroutines, obj'.state[d] = "Running" \/ obj.busy[d] # NoOne
               PROVE  /\ obj.busy[obj.resumer[d]] = d
                      /\ obj'.state[obj.resumer[d]] = "Suspended"
    BY <1>7 DEF O!ResumersWait, O!Idle
  <2>1. d # c /\ d \in CoContexts
    BY <1>2, <1>3, <1>9 DEF CoContexts
  <2>2. obj.state[d] = "Running" \/ obj.busy[d] # NoOne
    BY <1>3, <1>8, <1>9, <2>1
  <2>3. /\ obj.busy[obj.resumer[d]] = d /\ obj.state[obj.resumer[d]] = "Suspended"
        /\ obj.resumer[d] \in CoContexts
    BY <2>2 DEF CoroutineInv, ResumersExist, O!ResumersWait, O!Idle
  <2> QED
    BY <1>2, <1>3, <1>9, <2>1, <2>3
<1>17. O!FreedIsSpent'
  <2> SUFFICES ASSUME NEW d \in Coroutines, obj'.state[d] = "Freed"
               PROVE  /\ d \notin entry \cup exception \cup obj.unwinding
                      /\ obj.busy[d] = NoOne /\ \A x \in CoContexts : obj.busy[x] # d
                      /\ \A u \in Carriers : th'[u] # d
    BY <1>7 DEF O!FreedIsSpent, O!Idle, O!Contexts, CoContexts
  <2>1. d # c /\ d # r /\ d \in CoContexts /\ obj.state[d] = "Freed"
    BY <1>9 DEF CoContexts
  <2> QED
    BY <1>8, <1>9, <2>1 DEF CoroutineInv, O!FreedIsSpent, O!Idle, O!Contexts, CoContexts
<1> QED
  BY <1>10, <1>11, <1>12, <1>13, <1>14, <1>15, <1>16, <1>17 DEF CoroutineInv

\* resume() has returned: of a coroutine that goes on living, or of one that
\* was unwound and is freed.
LEMMA ReturnKeeps ==
    ASSUME CoroutineInv, NEW t \in Carriers, O!ResumeReturns(t) \/ O!Unwound(t)
    PROVE  CoroutineInv'
<1> DEFINE x == th[t]
           c == obj.busy[x]
           busy == [obj.busy EXCEPT ![x] = NoOne]
<1>1. /\ obj \in CoRecord /\ x \in CoContexts /\ th' = th /\ c # NoOne
      /\ th \in [Carriers -> CoContexts]
  BY ContextsDiffer DEF CoroutineInv, CoType, CoRecord, O!ResumeReturns, O!Unwound
<1>2. obj.state[x] = "Running"
  BY <1>1 DEF CoroutineInv, O!ThreadKnowsItsContext
<1>3. /\ c \in Coroutines /\ c \in CoContexts /\ c # x /\ obj.state[c] # "Running"
      /\ obj.busy[c] = NoOne
  BY <1>1, <1>2, WaitIsOver DEF CoContexts
<1>4. /\ \A y \in CoContexts : y # x => obj.busy[y] # c
      /\ \A u \in Carriers : th[u] # c
  BY <1>1, <1>3 DEF CoroutineInv, OneWaits, O!ThreadKnowsItsContext
<1> DEFINE state == IF c \in obj.unwinding THEN [obj.state EXCEPT ![c] = "Freed"] ELSE obj.state
<1>5. busy \in [CoContexts -> Coroutines \cup {NoOne}] /\ state \in [CoContexts -> CoStates]
  BY <1>1 DEF CoRecord, CoStates
<1>6. /\ obj' = [obj EXCEPT !.busy = busy, !.exception = obj.exception \ {c},
                             !.state = state, !.unwinding = obj.unwinding \ {c}]
  <2>1. CASE O!ResumeReturns(t)
    <3>1. c \notin obj.unwinding /\ obj.unwinding \ {c} = obj.unwinding
      BY <2>1 DEF O!ResumeReturns
    <3>2. state = obj.state
      BY <3>1
    <3>3. obj' = [obj EXCEPT !.busy = busy, !.exception = obj.exception \ {c}]
      BY <2>1 DEF O!ResumeReturns
    <3> HIDE DEF busy, state
    <3> QED
      BY <1>1, <3>1, <3>2, <3>3 DEF CoRecord
  <2>2. CASE O!Unwound(t)
    <3>1. c \in obj.unwinding
      BY <2>2 DEF O!Unwound
    <3>2. state = [obj.state EXCEPT ![c] = "Freed"]
      BY <3>1
    <3>3. obj' = [[obj EXCEPT !.busy = busy, !.exception = obj.exception \ {c}]
                     EXCEPT !.state = [@ EXCEPT ![c] = "Freed"], !.unwinding = @ \ {c}]
      BY <2>2 DEF O!Unwound, O!Released
    <3> HIDE DEF busy, c
    <3> QED
      BY <1>1, <3>2, <3>3 DEF CoRecord
  <2> QED
    BY <2>1, <2>2
<1> HIDE DEF busy, state
<1>7. /\ obj' \in CoRecord /\ obj'.busy = busy /\ obj'.exception = obj.exception \ {c}
      /\ obj'.state = state /\ obj'.unwinding = obj.unwinding \ {c}
      /\ obj'.current = obj.current /\ obj'.thread = obj.thread /\ obj'.resumer = obj.resumer
      /\ obj'.entry = obj.entry
  <2>1. obj.exception \ {c} \in SUBSET Coroutines /\ obj.unwinding \ {c} \in SUBSET Coroutines
    BY <1>1 DEF CoRecord
  <2> HIDE DEF c
  <2> QED
    BY <1>1, <1>5, <1>6, <2>1 DEF CoRecord
<1> HIDE DEF c
<1>8. /\ obj'.busy[x] = NoOne /\ c = obj.busy[x]
      /\ \A y \in CoContexts : y # x => obj'.busy[y] = obj.busy[y]
      /\ \A y \in CoContexts : y # c => obj'.state[y] = obj.state[y]
      /\ obj'.state[c] = obj.state[c] \/ (c \in obj.unwinding /\ obj'.state[c] = "Freed")
  BY <1>1, <1>3, <1>7 DEF CoRecord, busy, state, c
<1> HIDE DEF x
<1>9. th[t] = x
  BY DEF x
<1>10. CoType'
  BY <1>1, <1>7 DEF CoType
<1>11. O!ThreadKnowsItsContext'
  BY <1>1, <1>3, <1>4, <1>7, <1>8 DEF CoroutineInv, O!ThreadKnowsItsContext
<1>12. RunsSomewhere'
  BY <1>1, <1>3, <1>7, <1>8 DEF CoroutineInv, RunsSomewhere
<1>13. OneWaits'
  BY <1>1, <1>8 DEF CoroutineInv, OneWaits
<1>14. ResumersExist'
  BY <1>1, <1>3, <1>7, <1>8 DEF CoroutineInv, ResumersExist, CoContexts
<1>15. BodiesEnd'
  <2>1. \A d \in obj'.exception \cup obj'.unwinding : WaitedFor(d)'
    <3> TAKE d \in obj'.exception \cup obj'.unwinding
    <3>1. d # c /\ d \in obj.exception \cup obj.unwinding
      BY <1>7
    <3>2. PICK y \in CoContexts : obj.busy[y] = d
      BY <3>1 DEF CoroutineInv, BodiesEnd, WaitedFor
    <3> QED
      BY <1>8, <3>1, <3>2 DEF WaitedFor
  <2>2. \A d \in obj'.entry : obj'.state[d] # "Done"
    <3> TAKE d \in obj'.entry
    <3>1. d \in CoContexts /\ obj.state[d] # "Done"
      BY <1>1, <1>7 DEF CoroutineInv, BodiesEnd, CoRecord, CoContexts
    <3> QED
      BY <1>8, <3>1
  <2>3. \A d \in obj'.unwinding : obj'.state[d] \in {"Running", "Done"} \/ obj'.busy[d] # NoOne
    <3> TAKE d \in obj'.unwinding
    <3>1. /\ d # c /\ d \in obj.unwinding /\ d \in CoContexts
          /\ obj.state[d] \in {"Running", "Done"} \/ obj.busy[d] # NoOne
      BY <1>1, <1>7 DEF CoroutineInv, BodiesEnd, CoRecord, CoContexts
    <3> QED
      BY <1>2, <1>8, <1>9, <3>1
  <2> QED
    BY <2>1, <2>2, <2>3 DEF BodiesEnd
<1>16. O!ResumersWait'
  <2> SUFFICES ASSUME NEW d \in Coroutines, obj'.state[d] = "Running" \/ obj'.busy[d] # NoOne
               PROVE  /\ obj'.busy[obj.resumer[d]] = d
                      /\ obj'.state[obj.resumer[d]] = "Suspended"
    BY <1>7 DEF O!ResumersWait, O!Idle
  <2>1. d # c /\ d \in CoContexts /\ d # NoOne
    BY <1>3, <1>8, ContextsDiffer DEF CoContexts
  <2>2. obj.state[d] = "Running" \/ obj.busy[d] # NoOne
    BY <1>8, <2>1
  <2>3. /\ obj.busy[obj.resumer[d]] = d /\ obj.state[obj.resumer[d]] = "Suspended"
        /\ obj.resumer[d] \in CoContexts
    BY <2>2 DEF CoroutineInv, ResumersExist, O!ResumersWait, O!Idle
  <2> QED
    BY <1>3, <1>8, <2>1, <2>3
<1>17. O!FreedIsSpent'
  <2> SUFFICES ASSUME NEW d \in Coroutines, obj'.state[d] = "Freed"
               PROVE  /\ d \notin obj.entry \cup (obj.exception \ {c}) \cup (obj.unwinding \ {c})
                      /\ obj'.busy[d] = NoOne /\ \A y \in CoContexts : obj'.busy[y] # d
                      /\ \A u \in Carriers : th[u] # d
    BY <1>1, <1>7 DEF O!FreedIsSpent, O!Idle, O!Contexts, CoContexts
  <2>0. d \in CoContexts /\ d # NoOne
    BY ContextsDiffer DEF CoContexts
  <2>1. CASE d # c \/ obj.state[d] = "Freed"
    <3>1. obj.state[d] = "Freed"
      BY <1>8, <2>0, <2>1
    <3>2. /\ d \notin obj.entry \cup obj.exception \cup obj.unwinding
          /\ obj.busy[d] = NoOne /\ \A y \in CoContexts : obj.busy[y] # d
          /\ \A u \in Carriers : th[u] # d
      BY <3>1 DEF CoroutineInv, O!FreedIsSpent, O!Idle, O!Contexts, CoContexts
    <3> QED
      BY <1>8, <2>0, <3>2
  <2>2. CASE d = c /\ obj.state[d] # "Freed"
    <3>1. c \in obj.unwinding /\ obj.state[c] = "Done"
      BY <1>3, <1>8, <2>2 DEF CoroutineInv, BodiesEnd
    <3>2. c \notin obj.entry
      BY <3>1 DEF CoroutineInv, BodiesEnd
    <3> QED
      BY <1>3, <1>4, <1>8, <2>0, <2>2, <3>2
  <2> QED
    BY <2>1, <2>2
<1> QED
  BY <1>10, <1>11, <1>12, <1>13, <1>14, <1>15, <1>16, <1>17 DEF CoroutineInv

\* destroyBlock() without an unwinding.
LEMMA DestroyKeeps ==
    ASSUME CoroutineInv, NEW t \in Carriers, NEW c \in Coroutines, O!DestroyAtRest(t, c)
    PROVE  CoroutineInv'
<1> DEFINE state == [obj.state EXCEPT ![c] = "Freed"]
<1>1. /\ obj \in CoRecord /\ c \in CoContexts /\ c # NoOne /\ th' = th
      /\ th \in [Carriers -> CoContexts]
  BY ContextsDiffer DEF CoroutineInv, CoType, CoContexts, O!DestroyAtRest
<1>2. /\ obj.busy[c] = NoOne /\ \A x \in CoContexts : obj.busy[x] # c
      /\ obj.state[c] \in {"Created", "Done", "Suspended"}
  BY <1>1 DEF O!DestroyAtRest, O!Free, O!Idle, O!Contexts, CoContexts
<1>3. /\ \A u \in Carriers : th[u] # c
      /\ c \notin obj.exception /\ c \notin obj.unwinding
  BY <1>1, <1>2 DEF CoroutineInv, O!ThreadKnowsItsContext, BodiesEnd, WaitedFor
<1>4. state \in [CoContexts -> CoStates]
  BY <1>1 DEF CoRecord, CoStates
<1>5. obj' = [obj EXCEPT !.entry = obj.entry \ {c}, !.state = state,
                         !.unwinding = obj.unwinding \ {c}]
  <2>1. obj' = [[obj EXCEPT !.entry = obj.entry \ {c}]
                   EXCEPT !.state = [@ EXCEPT ![c] = "Freed"], !.unwinding = @ \ {c}]
    BY DEF O!DestroyAtRest, O!Released
  <2> QED
    BY <1>1, <2>1 DEF CoRecord
<1> HIDE DEF state
<1>6. /\ obj' \in CoRecord /\ obj'.entry = obj.entry \ {c} /\ obj'.state = state
      /\ obj'.unwinding = obj.unwinding /\ obj'.exception = obj.exception
      /\ obj'.current = obj.current /\ obj'.thread = obj.thread /\ obj'.resumer = obj.resumer
      /\ obj'.busy = obj.busy
  <2>1. obj.entry \ {c} \in SUBSET Coroutines /\ obj.unwinding \ {c} = obj.unwinding
    BY <1>1, <1>3 DEF CoRecord
  <2> QED
    BY <1>1, <1>4, <1>5, <2>1 DEF CoRecord
<1>7. /\ obj'.state[c] = "Freed"
      /\ \A x \in CoContexts : x # c => obj'.state[x] = obj.state[x]
  BY <1>1, <1>6 DEF CoRecord, state
<1>8. CoType'
  BY <1>1, <1>6 DEF CoType
<1>9. O!ThreadKnowsItsContext' /\ RunsSomewhere' /\ OneWaits'
  BY <1>1, <1>2, <1>3, <1>6, <1>7
  DEF CoroutineInv, O!ThreadKnowsItsContext, RunsSomewhere, OneWaits
<1>10. ResumersExist' /\ O!ResumersWait'
  <2> SUFFICES ASSUME NEW d \in Coroutines, obj'.state[d] = "Running" \/ obj.busy[d] # NoOne
               PROVE  /\ obj.resumer[d] \in CoContexts /\ obj.busy[obj.resumer[d]] = d
                      /\ obj'.state[obj.resumer[d]] = "Suspended"
    BY <1>6 DEF ResumersExist, O!ResumersWait, O!Idle
  <2>1. d # c /\ d \in CoContexts /\ d # NoOne
    BY <1>2, <1>7, ContextsDiffer DEF CoContexts
  <2>2. obj.state[d] = "Running" \/ obj.busy[d] # NoOne
    BY <1>7, <2>1
  <2>3. /\ obj.resumer[d] \in CoContexts /\ obj.busy[obj.resumer[d]] = d
        /\ obj.state[obj.resumer[d]] = "Suspended"
    BY <2>2 DEF CoroutineInv, ResumersExist, O!ResumersWait, O!Idle
  <2> QED
    BY <1>2, <1>7, <2>1, <2>3
<1>11. BodiesEnd'
  <2>1. \A x \in CoContexts : obj'.busy[x] = obj.busy[x]
    BY <1>6
  <2> QED
    BY <1>1, <1>3, <1>6, <1>7, <2>1
    DEF CoroutineInv, CoRecord, BodiesEnd, WaitedFor, CoContexts
<1>12. O!FreedIsSpent'
  BY <1>1, <1>2, <1>3, <1>6, <1>7
  DEF CoroutineInv, O!FreedIsSpent, O!Idle, O!Contexts, CoContexts
<1> QED
  BY <1>8, <1>9, <1>10, <1>11, <1>12 DEF CoroutineInv

LEMMA CoroutineKeeps ==
    ASSUME CoroutineInv, O!Next
    PROVE  CoroutineInv'
<1>0. PICK t \in Carriers :
          \/ O!ResumeReturns(t) \/ O!Yield(t) \/ O!Finish(t) \/ O!Unwound(t)
          \/ \E c \in Coroutines :
                \/ O!makeCoroutine(t, c) \/ O!resume(t, c)
                \/ O!DestroyAtRest(t, c) \/ O!unwindSuspended(t, c)
  BY DEF O!Next
<1>1. CASE O!ResumeReturns(t) \/ O!Unwound(t)
  BY <1>1, ReturnKeeps
<1>2. CASE O!Yield(t)
  <2>1. obj = [obj EXCEPT !.entry = obj.entry, !.exception = obj.exception]
    BY DEF CoroutineInv, CoType, CoRecord
  <2> QED
    BY <1>2, <2>1, LeaveKeeps DEF O!Yield
<1>3. CASE O!Finish(t)
  <2> DEFINE c == th[t]
  <2>1. PICK escaped \in {FALSE, obj.exceptions} :
            O!SwitchTo(t, O!RunBody(c, escaped), c, obj.resumer[c], "Done")
    BY <1>3 DEF O!Finish
  <2> DEFINE entry == obj.entry \ {c}
             exception == IF escaped THEN obj.exception \cup {c} ELSE obj.exception
  <2>2. O!RunBody(c, escaped) = [obj EXCEPT !.entry = entry, !.exception = exception]
    BY DEF O!RunBody, CoroutineInv, CoType, CoRecord
  <2>3. exception \in {obj.exception, obj.exception \cup {c}} /\ c \notin entry
    OBVIOUS
  <2>4. c \in Coroutines /\ O!Acts(t, c)
    BY <1>3 DEF O!Finish
  <2>5. O!SwitchTo(t, [obj EXCEPT !.entry = entry, !.exception = exception], c,
                   obj.resumer[c], "Done")
    BY <2>1, <2>2
  <2> HIDE DEF exception
  <2> QED
    BY <2>3, <2>4, <2>5, LeaveKeeps
<1>4. ASSUME NEW c \in Coroutines, O!makeCoroutine(t, c)
      PROVE  CoroutineInv'
  BY <1>4, MakeKeeps
<1>5. ASSUME NEW c \in Coroutines, O!resume(t, c)
      PROVE  CoroutineInv'
  <2> DEFINE from == th[t]
  <2>1. [obj EXCEPT !.resumer[c] = from, !.busy[from] = c]
            = [obj EXCEPT !.resumer[c] = from, !.busy[from] = c, !.unwinding = obj.unwinding]
    BY DEF CoroutineInv, CoType, CoRecord
  <2> QED
    BY <1>5, <2>1, EnterKeeps DEF O!resume
<1>6. ASSUME NEW c \in Coroutines, O!DestroyAtRest(t, c)
      PROVE  CoroutineInv'
  BY <1>6, DestroyKeeps
<1>7. ASSUME NEW c \in Coroutines, O!unwindSuspended(t, c)
      PROVE  CoroutineInv'
  <2> DEFINE from == th[t]
  <2>1. O!SwitchTo(t, [obj EXCEPT !.resumer[c] = from, !.busy[from] = c,
                                  !.unwinding = obj.unwinding \cup {c}], from, c, "Suspended")
    BY <1>7 DEF O!unwindSuspended, CoroutineInv, CoType, CoRecord
  <2> QED
    BY <1>7, <2>1, EnterKeeps DEF O!unwindSuspended
<1> QED
  BY <1>0, <1>1, <1>2, <1>3, <1>4, <1>5, <1>6, <1>7

-----------------------------------------------------------------------------
(* exec::spawn, schedule() and exec::wait().                               *)

TaskPc == {"none", "run", "fn", "parked", "complete", "deliver", "receiver", "ended",
           "starting", "look", "park", "result"}
SenderPc == {"none", "pending", "finish", "inFinish", "wake", "over"}
Verdicts == {"none", "value", "error", "stopped"}
ExecRecord ==
    [is : {"ExecTask"}, how : {"spawn", "schedule"}, exceptions : BOOLEAN,
     requested : BOOLEAN, forwarding : BOOLEAN, source : BOOLEAN, context : BOOLEAN,
     verdict : Verdicts, completed : Seq(Verdicts), stopping : {"no", "stopping", "woken"},
     token : BOOLEAN, waits : 0 .. MaxWaits, uses : {"own", "op"}, own : BOOLEAN,
     forwarded : BOOLEAN, done : BOOLEAN, sent : Verdicts, from : {"none", "fn", "receiver"}]
ExecThreads ==
    [starter : {"start", "spawn", "refused", "returned"}, task : TaskPc,
     stopper : {"idle", "forwarding"}, sender : [X!Waits -> SenderPc]]
ExecType == obj \in ExecRecord /\ th \in ExecThreads

\* The operation lives: its receiver has yet to hear of it.
InFunction == th.task \in {"run", "fn", "parked", "complete"} \/ (X!InWait /\ obj.from = "fn")
Called ==
    \/ th.task \in {"receiver", "ended"} \/ (X!InWait /\ obj.from = "receiver")
    \/ th.task = "none" /\ th.starter = "returned"
CalledOnce ==
    /\ ~Called => obj.completed = <<>>
    /\ Called => Len(obj.completed) = 1
    /\ th.task # "none" => th.starter = "returned"
    /\ th.task = "none" => obj.waits = 0 /\ ~obj.forwarded

\* Stop requests are forwarded to what lives, and arrive at the task's source.
Forwards ==
    /\ obj.forwarding <=>
          obj.how = "spawn" /\ (th.starter \in {"spawn", "refused"} \/ InFunction)
    /\ th.stopper = "forwarding" => obj.forwarding
    /\ obj.context => obj.how = "spawn" /\ InFunction
    /\ obj.forwarding /\ obj.requested /\ th.stopper = "idle" => obj.source
    /\ X!InWait => obj.from \in {"fn", "receiver"}
    /\ X!InWait /\ obj.uses = "op" => obj.context

\* The senders of waits that are over are done with them, but for a wake-up.
Active == {"pending", "finish", "inFinish"}
Senders ==
    \A i \in X!Waits :
        /\ i > obj.waits => th.sender[i] = "none"
        /\ i < obj.waits \/ (i = obj.waits /\ ~X!InWait) => th.sender[i] \in {"wake", "over"}
        /\ i = obj.waits /\ X!InWait =>
              IF obj.done THEN th.sender[i] \in {"wake", "over"} ELSE th.sender[i] \in Active
Hears ==
    /\ X!InWait => obj.waits > 0
    /\ X!At("result") => obj.done
    /\ X!At("park") /\ obj.done /\ th.sender[obj.waits] = "over" => obj.token
    /\ X!At("park") /\ ~obj.forwarded /\ obj.stopping = "woken" => obj.token
    /\ obj.forwarded => IF obj.uses = "op" THEN obj.source ELSE obj.own
ExecInv == ExecType /\ CalledOnce /\ Forwards /\ Senders /\ Hears

LEMMA ExecInit == X!Init => ExecInv
<1> SUFFICES ASSUME X!Init
             PROVE  ExecInv
  OBVIOUS
<1>1. ExecType /\ X!Waits \subseteq Nat \ {0}
  BY WaitsAreCounted
  DEF X!Init, ExecType, ExecRecord, ExecThreads, TaskPc, SenderPc, Verdicts, X!Waits
<1>2. CalledOnce /\ Forwards /\ Hears
  BY DEF X!Init, CalledOnce, Called, Forwards, Hears, InFunction, X!InWait, X!At
<1>3. Senders
  BY <1>1 DEF X!Init, Senders, X!InWait
<1> QED
  BY <1>1, <1>2, <1>3 DEF ExecInv

LEMMA Hearing ==
    ASSUME NEW s \in Seq(Verdicts), NEW v \in Verdicts
    PROVE  Append(s, v) \in Seq(Verdicts) /\ Len(Append(s, v)) = Len(s) + 1
  OBVIOUS

LEMMA ExecTypeKeeps ==
    ASSUME ExecType, X!Next
    PROVE  ExecType'
<1> USE DEF ExecType, ExecRecord, ExecThreads, TaskPc, SenderPc, Verdicts, X!At, X!Go, X!InWait, X!Waits
<1>1. CASE X!start
  BY <1>1 DEF X!start
<1>2. CASE X!Spawn
  <2>1. CASE UNCHANGED obj /\ th' = [th EXCEPT !.starter = "returned", !.task = "run"]
    <3>1. th' \in ExecThreads
      BY <2>1
    <3> HIDE DEF ExecThreads, ExecRecord
    <3> QED
      BY <2>1, <3>1
  <2>2. CASE th' = [th EXCEPT !.starter = "refused"]
             /\ \E v \in {"error", "stopped"} : obj' = [obj EXCEPT !.verdict = v]
    BY <2>2
  <2> QED
    BY <1>2, <2>1, <2>2 DEF X!Spawn
<1>3. CASE X!RefuseAndComplete
  <2>0. obj.completed \in Seq(Verdicts) /\ obj.verdict \in Verdicts
    OBVIOUS
  <2>1. PICK heard \in Seq(Verdicts) : heard = Append(obj.completed, obj.verdict)
    <3> HIDE DEF Verdicts, ExecType
    <3> QED
      BY <2>0, Hearing
  <2>2. obj' = [obj EXCEPT !.forwarding = FALSE, !.completed = heard]
    BY <1>3, <2>1 DEF X!RefuseAndComplete
  <2>3. obj' \in ExecRecord
    <3> HIDE DEF Verdicts
    <3> QED
      BY <2>2
  <2> QED
    BY <1>3, <2>3 DEF X!RefuseAndComplete
<1>4. CASE X!RequestStop
  BY <1>4 DEF X!RequestStop
<1>5. CASE X!forward_stop
  BY <1>5 DEF X!forward_stop
<1>6. CASE X!SpawnRun
  BY <1>6 DEF X!SpawnRun
<1>7. CASE X!ScheduleRun
  BY <1>7 DEF X!ScheduleRun
<1>8. CASE X!FnEnds
  <2>1. PICK v \in Verdicts : obj' = [obj EXCEPT !.verdict = v]
    BY <1>8 DEF X!FnEnds
  <2> QED
    BY <1>8, <2>1 DEF X!FnEnds
<1>9. CASE X!FnParks
  BY <1>9 DEF X!FnParks
<1>10. CASE X!ParkReturns
  BY <1>10 DEF X!ParkReturns
<1>11. CASE X!complete
  BY <1>11 DEF X!complete, X!stop_forwarding
<1>12. CASE X!Deliver
  <2>0. obj.completed \in Seq(Verdicts) /\ obj.verdict \in Verdicts
    OBVIOUS
  <2>1. PICK heard \in Seq(Verdicts) : heard = Append(obj.completed, obj.verdict)
    <3> HIDE DEF Verdicts, ExecType
    <3> QED
      BY <2>0, Hearing
  <2>2. obj' = [obj EXCEPT !.completed = heard]
    BY <1>12, <2>1 DEF X!Deliver
  <2>3. obj' \in ExecRecord
    <3> HIDE DEF Verdicts
    <3> QED
      BY <2>2
  <2> QED
    BY <1>12, <2>3 DEF X!Deliver
<1>13. CASE X!ReceiverReturns
  BY <1>13 DEF X!ReceiverReturns
<1>14. CASE X!StopBegins
  BY <1>14 DEF X!StopBegins
<1>15. CASE X!StopWakesOnce
  BY ZenonT(40), <1>15 DEF X!StopWakesOnce
<1>16. CASE X!CatchForcedUnwind
  BY <1>16 DEF X!CatchForcedUnwind, X!Reapable
<1>17. CASE X!dropped
  <2>0. obj.completed \in Seq(Verdicts) /\ "stopped" \in Verdicts
    OBVIOUS
  <2>1. PICK heard \in Seq(Verdicts) : heard = Append(obj.completed, "stopped")
    <3> HIDE DEF Verdicts, ExecType
    <3> QED
      BY <2>0, Hearing
  <2>2. obj' = [obj EXCEPT !.forwarding = FALSE, !.context = FALSE,
                              !.completed = heard]
    BY <1>17, <2>1 DEF X!dropped
  <2>3. obj' \in ExecRecord
    <3> HIDE DEF Verdicts
    <3> QED
      BY <2>2
  <2> QED
    BY <1>17, <2>3 DEF X!dropped
<1>18. CASE X!Begin
  <2>1. obj.waits + 1 \in X!Waits /\ obj.waits + 1 \in 0 .. MaxWaits
    BY <1>18, WaitsAreCounted DEF X!Begin
  <2>2. PICK n \in X!Waits : n = obj.waits + 1 /\ n \in 0 .. MaxWaits
    BY <2>1
  <2>3. PICK u \in {"own", "op"} : u = IF obj.context THEN "op" ELSE "own"
    OBVIOUS
  <2>4. PICK f \in {"fn", "receiver"} : f = th.task
    BY <1>18 DEF X!Begin
  <2>5. PICK sender \in [X!Waits -> SenderPc] : sender = [th.sender EXCEPT ![n] = "pending"]
    OBVIOUS
  <2>6. obj' = [obj EXCEPT !.waits = n, !.uses = u, !.own = FALSE, !.forwarded = FALSE,
                           !.done = FALSE, !.sent = "none", !.from = f]
    BY <1>18, <2>2, <2>3, <2>4 DEF X!Begin
  <2>7. th' = [th EXCEPT !.task = "starting", !.sender = sender]
    BY <1>18, <2>2, <2>5 DEF X!Begin
  <2>8. obj' \in ExecRecord
    <3>1. PICK o \in ExecRecord : o = [obj EXCEPT !.waits = n, !.uses = u, !.own = FALSE]
      BY ZenonT(40), <2>2
    <3>2. PICK p \in ExecRecord : p = [o EXCEPT !.forwarded = FALSE, !.done = FALSE]
      BY ZenonT(40)
    <3>3. obj' = [p EXCEPT !.sent = "none", !.from = f]
      BY <2>6, <3>1, <3>2
    <3> HIDE DEF Verdicts
    <3>4. "none" \in Verdicts
      BY DEF Verdicts
    <3> QED
      BY <3>3, <3>4
  <2>9. th' \in ExecThreads
    BY <2>7
  <2> QED
    BY <2>8, <2>9
<1>19. CASE X!CompletesInStart
  <2>1. PICK r \in Verdicts : obj' = [obj EXCEPT !.sent = r, !.done = TRUE]
    <3>1. PICK r \in X!Results(obj.exceptions) : obj' = [obj EXCEPT !.sent = r, !.done = TRUE]
      BY <1>19 DEF X!CompletesInStart
    <3>2. r \in Verdicts
      BY DEF X!Results
    <3> QED
      BY <3>1, <3>2
  <2>2. th' = [th EXCEPT !.sender = [th.sender EXCEPT ![obj.waits] = "over"]]
    BY <1>19 DEF X!CompletesInStart
  <2> QED
    BY <2>1, <2>2
<1>20. CASE X!StartReturns
  BY <1>20 DEF X!StartReturns
<1>21. CASE X!Look
  <2>1. CASE X!PassStopOn /\ UNCHANGED th
    <3>1. PICK source \in BOOLEAN, own \in BOOLEAN :
              obj' = [obj EXCEPT !.forwarded = TRUE, !.source = source, !.own = own]
      BY <2>1 DEF X!PassStopOn
    <3> QED
      BY ZenonT(40), <2>1, <3>1
  <2>2. CASE UNCHANGED obj /\ \E pc \in {"result", "park"} : X!Go(pc)
    BY <2>2
  <2> QED
    BY <1>21, <2>1, <2>2 DEF X!Look
<1>22. CASE X!Park
  BY <1>22 DEF X!Park
<1>23. CASE X!Result
  BY <1>23 DEF X!Result
<1>24. ASSUME NEW i \in X!Waits, X!Store(i)
      PROVE  ExecType'
  <2>1. PICK r \in Verdicts : obj' = [obj EXCEPT !.sent = r]
    BY <1>24 DEF X!Store, X!Results
  <2>2. th' = [th EXCEPT !.sender = [th.sender EXCEPT ![i] = "finish"]]
    BY <1>24 DEF X!Store
  <2> QED
    BY <2>1, <2>2
<1>25. ASSUME NEW i \in X!Waits, X!finish(i)
      PROVE  ExecType'
  <2>1. PICK pc \in {"inFinish", "wake"} :
            th' = [th EXCEPT !.sender = [th.sender EXCEPT ![i] = pc]]
    BY <1>25 DEF X!finish
  <2>4. UNCHANGED obj \/ obj' = [obj EXCEPT !.done = TRUE]
    BY <1>25 DEF X!finish
  <2>5. [obj EXCEPT !.done = TRUE] \in ExecRecord
    OBVIOUS
  <2>2. obj' \in ExecRecord
    <3> HIDE DEF ExecRecord
    <3> QED
      BY <2>4, <2>5
  <2>3. th' \in ExecThreads
    BY <2>1
  <2> QED
    BY <2>2, <2>3
<1>26. ASSUME NEW i \in X!Waits, X!Wake(i)
      PROVE  ExecType'
  BY ZenonT(40), <1>26 DEF X!Wake
<1> QED
  BY <1>1, <1>2, <1>3, <1>4, <1>5, <1>6, <1>7, <1>8, <1>9, <1>10, <1>11, <1>12, <1>13, <1>14, <1>15, <1>16, <1>17, <1>18, <1>19, <1>20, <1>21, <1>22, <1>23, <1>24, <1>25, <1>26 DEF X!Next

LEMMA SpawnCases ==
    ASSUME ExecType, X!Spawn
    PROVE  /\ th.starter = "spawn"
           /\ \/ UNCHANGED obj /\ th' = [th EXCEPT !.starter = "returned", !.task = "run"]
              \/ /\ th' = [th EXCEPT !.starter = "refused"]
                 /\ \E v \in {"error", "stopped"} : obj' = [obj EXCEPT !.verdict = v]
  BY DEF X!Spawn

LEMMA LookCases ==
    ASSUME ExecType, X!Look
    PROVE  /\ th.task = "look"
           /\ \/ /\ ~obj.done /\ UNCHANGED th
                 /\ \/ /\ obj.uses = "op"
                       /\ obj' = [obj EXCEPT !.forwarded = TRUE, !.source = TRUE]
                    \/ /\ obj.uses = "own"
                       /\ obj' = [obj EXCEPT !.forwarded = TRUE, !.own = TRUE]
              \/ UNCHANGED obj /\ obj.done /\ th' = [th EXCEPT !.task = "result"]
              \/ /\ UNCHANGED obj /\ ~obj.done
                 /\ obj.forwarded \/ obj.stopping = "no"
                 /\ th' = [th EXCEPT !.task = "park"]
<1>1. th.task = "look"
  BY DEF X!Look, X!At
<1>2. CASE X!StopDue
  <2>1. CASE obj.uses = "op"
    <3>1. UNCHANGED th /\ obj' = [obj EXCEPT !.forwarded = TRUE, !.source = TRUE, !.own = @]
      BY <1>2, <2>1 DEF X!Look, X!PassStopOn, ExecType, ExecRecord
    <3>2. [obj EXCEPT !.forwarded = TRUE, !.source = TRUE, !.own = @]
              = [obj EXCEPT !.forwarded = TRUE, !.source = TRUE]
      BY DEF ExecType, ExecRecord
    <3> QED
      BY <1>1, <1>2, <2>1, <3>1, <3>2 DEF X!StopDue
  <2>2. CASE obj.uses = "own"
    <3>1. UNCHANGED th /\ obj' = [obj EXCEPT !.forwarded = TRUE, !.source = @, !.own = TRUE]
      BY <1>2, <2>2 DEF X!Look, X!PassStopOn, ExecType, ExecRecord
    <3>2. [obj EXCEPT !.forwarded = TRUE, !.source = @, !.own = TRUE]
              = [obj EXCEPT !.forwarded = TRUE, !.own = TRUE]
      BY DEF ExecType, ExecRecord
    <3> QED
      BY <1>1, <1>2, <2>2, <3>1, <3>2 DEF X!StopDue
  <2> QED
    BY <2>1, <2>2 DEF ExecType, ExecRecord
<1>3. CASE ~X!StopDue
  BY <1>1, <1>3 DEF X!Look, X!StopDue, X!Go, ExecType, ExecRecord
<1> QED
  BY <1>2, <1>3

LEMMA ExecCalled ==
    ASSUME ExecInv, ExecType', X!Next
    PROVE  CalledOnce'
<1> USE DEF ExecType, ExecRecord, ExecThreads, X!At, X!Go, X!InWait, X!Waits, ExecInv, CalledOnce, Called
<1>1. CASE X!start
  BY <1>1 DEF X!start
<1>2. CASE X!Spawn
  <2>1. CASE UNCHANGED obj /\ th' = [th EXCEPT !.starter = "returned", !.task = "run"]
    BY <1>2, <2>1, SpawnCases
  <2>2. CASE th' = [th EXCEPT !.starter = "refused"]
             /\ \E v \in {"error", "stopped"} : obj' = [obj EXCEPT !.verdict = v]
    BY <1>2, <2>2, SpawnCases
  <2> QED
    BY <1>2, <2>1, <2>2, SpawnCases
<1>3. CASE X!RefuseAndComplete
  BY <1>3 DEF X!RefuseAndComplete, X!stop_forwarding
<1>4. CASE X!RequestStop
  BY <1>4 DEF X!RequestStop
<1>5. CASE X!forward_stop
  BY <1>5 DEF X!forward_stop
<1>6. CASE X!SpawnRun
  BY <1>6 DEF X!SpawnRun
<1>7. CASE X!ScheduleRun
  BY <1>7 DEF X!ScheduleRun
<1>8. CASE X!FnEnds
  BY <1>8 DEF X!FnEnds
<1>9. CASE X!FnParks
  BY <1>9 DEF X!FnParks
<1>10. CASE X!ParkReturns
  BY <1>10 DEF X!ParkReturns
<1>11. CASE X!complete
  BY <1>11 DEF X!complete, X!stop_forwarding
<1>12. CASE X!Deliver
  BY <1>12 DEF X!Deliver
<1>13. CASE X!ReceiverReturns
  BY <1>13 DEF X!ReceiverReturns
<1>14. CASE X!StopBegins
  BY <1>14 DEF X!StopBegins
<1>15. CASE X!StopWakesOnce
  BY <1>15 DEF X!StopWakesOnce
<1>16. CASE X!CatchForcedUnwind
  BY <1>16 DEF X!CatchForcedUnwind, X!Reapable
<1>17. CASE X!dropped
  BY <1>17 DEF X!dropped, X!stop_forwarding, X!Reapable
<1>18. CASE X!Begin
  BY <1>18 DEF X!Begin, X!Waits
<1>19. CASE X!CompletesInStart
  BY <1>19 DEF X!CompletesInStart, X!Results
<1>20. CASE X!StartReturns
  BY <1>20 DEF X!StartReturns
<1>21. CASE X!Look
  <2>1. CASE obj.uses = "op" /\ obj' = [obj EXCEPT !.forwarded = TRUE, !.source = TRUE] /\ UNCHANGED th
    BY <1>21, <2>1, LookCases
  <2>2. CASE obj.uses = "own" /\ obj' = [obj EXCEPT !.forwarded = TRUE, !.own = TRUE] /\ UNCHANGED th
    BY <1>21, <2>2, LookCases
  <2>3. CASE UNCHANGED obj
    BY <1>21, <2>3, LookCases
  <2> HIDE DEF ExecType, ExecRecord, ExecThreads, X!At, X!Go, X!InWait, X!Waits, ExecInv, CalledOnce, Called
  <2> QED
    BY <1>21, <2>1, <2>2, <2>3, LookCases DEF ExecInv
<1>22. CASE X!Park
  BY <1>22 DEF X!Park
<1>23. CASE X!Result
  <2>1. /\ obj'.completed = obj.completed /\ obj'.from = obj.from
        /\ obj'.waits = obj.waits /\ obj'.forwarded = obj.forwarded
    BY <1>23 DEF X!Result
  <2>2. /\ th.task = "result" /\ th'.starter = th.starter
        /\ th'.task = obj.from \/ (obj.from = "fn" /\ th'.task = "complete")
    BY <1>23 DEF X!Result
  <2>3. obj.from \in {"fn", "receiver"}
    BY <2>2 DEF Forwards
  <2> QED
    BY <2>1, <2>2, <2>3
<1>24. ASSUME NEW i \in X!Waits, X!Store(i)
      PROVE  CalledOnce'
  BY <1>24 DEF X!Store, X!Results
<1>25. ASSUME NEW i \in X!Waits, X!finish(i)
      PROVE  CalledOnce'
  BY <1>25 DEF X!finish
<1>26. ASSUME NEW i \in X!Waits, X!Wake(i)
      PROVE  CalledOnce'
  BY <1>26 DEF X!Wake
<1> QED
  BY <1>1, <1>2, <1>3, <1>4, <1>5, <1>6, <1>7, <1>8, <1>9, <1>10, <1>11, <1>12, <1>13, <1>14, <1>15, <1>16, <1>17, <1>18, <1>19, <1>20, <1>21, <1>22, <1>23, <1>24, <1>25, <1>26 DEF X!Next

LEMMA ExecForwards ==
    ASSUME ExecInv, ExecType', X!Next
    PROVE  Forwards'
<1> USE DEF ExecType, ExecRecord, ExecThreads, X!At, X!Go, X!InWait, X!Waits, ExecInv, Forwards, InFunction
<1>1. CASE X!start
  BY <1>1 DEF X!start
<1>2. CASE X!Spawn
  <2>1. CASE UNCHANGED obj /\ th' = [th EXCEPT !.starter = "returned", !.task = "run"]
    BY <1>2, <2>1, SpawnCases
  <2>2. CASE th' = [th EXCEPT !.starter = "refused"]
             /\ \E v \in {"error", "stopped"} : obj' = [obj EXCEPT !.verdict = v]
    BY <1>2, <2>2, SpawnCases
  <2> QED
    BY <1>2, <2>1, <2>2, SpawnCases
<1>3. CASE X!RefuseAndComplete
  <2>1. /\ obj'.how = obj.how /\ obj'.requested = obj.requested /\ obj'.source = obj.source
        /\ obj'.from = obj.from /\ obj'.uses = obj.uses
        /\ obj'.context = obj.context /\ ~obj'.forwarding
    BY <1>3 DEF X!RefuseAndComplete
  <2>2. /\ th.starter = "refused" /\ th'.starter = "returned" /\ th'.task = th.task
        /\ th'.stopper = th.stopper /\ th.stopper = "idle"
    BY <1>3 DEF X!RefuseAndComplete, X!stop_forwarding
  <2>3. th.task = "none"
    BY <2>2 DEF CalledOnce
  <2> QED
    BY <2>1, <2>2, <2>3
<1>4. CASE X!RequestStop
  BY <1>4 DEF X!RequestStop
<1>5. CASE X!forward_stop
  BY <1>5 DEF X!forward_stop
<1>6. CASE X!SpawnRun
  BY <1>6 DEF X!SpawnRun
<1>7. CASE X!ScheduleRun
  BY <1>7 DEF X!ScheduleRun
<1>8. CASE X!FnEnds
  BY <1>8 DEF X!FnEnds
<1>9. CASE X!FnParks
  BY <1>9 DEF X!FnParks
<1>10. CASE X!ParkReturns
  BY <1>10 DEF X!ParkReturns
<1>11. CASE X!complete
  <2>1. /\ obj'.how = obj.how /\ obj'.requested = obj.requested /\ obj'.source = obj.source
        /\ obj'.from = obj.from /\ obj'.uses = obj.uses
        /\ ~obj'.context /\ ~obj'.forwarding
    BY <1>11 DEF X!complete
  <2>2. /\ th.task = "complete" /\ th'.starter = th.starter /\ th'.task = "deliver"
        /\ th'.stopper = th.stopper /\ th.stopper = "idle"
    BY <1>11 DEF X!complete, X!stop_forwarding
  <2>3. th.starter = "returned"
    BY <2>2 DEF CalledOnce
  <2> QED
    BY <2>1, <2>2, <2>3
<1>12. CASE X!Deliver
  BY <1>12 DEF X!Deliver
<1>13. CASE X!ReceiverReturns
  BY <1>13 DEF X!ReceiverReturns
<1>14. CASE X!StopBegins
  BY <1>14 DEF X!StopBegins
<1>15. CASE X!StopWakesOnce
  BY <1>15 DEF X!StopWakesOnce
<1>16. CASE X!CatchForcedUnwind
  BY <1>16 DEF X!CatchForcedUnwind, X!Reapable
<1>17. CASE X!dropped
  <2>1. /\ obj'.how = obj.how /\ obj'.requested = obj.requested /\ obj'.source = obj.source
        /\ obj'.from = obj.from /\ obj'.uses = obj.uses
        /\ ~obj'.context /\ ~obj'.forwarding
    BY <1>17 DEF X!dropped
  <2>2. /\ th.task = "parked" /\ th'.starter = th.starter /\ th'.task = "ended"
        /\ th'.stopper = th.stopper /\ th.stopper = "idle"
    BY <1>17 DEF X!dropped, X!stop_forwarding, X!Reapable
  <2>3. th.starter = "returned"
    BY <2>2 DEF CalledOnce
  <2> QED
    BY <2>1, <2>2, <2>3
<1>18. CASE X!Begin
  BY <1>18 DEF X!Begin, X!Waits
<1>19. CASE X!CompletesInStart
  BY <1>19 DEF X!CompletesInStart, X!Results
<1>20. CASE X!StartReturns
  BY <1>20 DEF X!StartReturns
<1>21. CASE X!Look
  <2>1. CASE obj.uses = "op" /\ obj' = [obj EXCEPT !.forwarded = TRUE, !.source = TRUE] /\ UNCHANGED th
    BY <1>21, <2>1, LookCases
  <2>2. CASE obj.uses = "own" /\ obj' = [obj EXCEPT !.forwarded = TRUE, !.own = TRUE] /\ UNCHANGED th
    BY <1>21, <2>2, LookCases
  <2>3. CASE UNCHANGED obj
    BY <1>21, <2>3, LookCases
  <2> HIDE DEF ExecType, ExecRecord, ExecThreads, X!At, X!Go, X!InWait, X!Waits, ExecInv, Forwards, InFunction
  <2> QED
    BY <1>21, <2>1, <2>2, <2>3, LookCases DEF ExecInv
<1>22. CASE X!Park
  BY <1>22 DEF X!Park
<1>23. CASE X!Result
  BY <1>23 DEF X!Result
<1>24. ASSUME NEW i \in X!Waits, X!Store(i)
      PROVE  Forwards'
  BY <1>24 DEF X!Store, X!Results
<1>25. ASSUME NEW i \in X!Waits, X!finish(i)
      PROVE  Forwards'
  BY <1>25 DEF X!finish
<1>26. ASSUME NEW i \in X!Waits, X!Wake(i)
      PROVE  Forwards'
  BY <1>26 DEF X!Wake
<1> QED
  BY <1>1, <1>2, <1>3, <1>4, <1>5, <1>6, <1>7, <1>8, <1>9, <1>10, <1>11, <1>12, <1>13, <1>14, <1>15, <1>16, <1>17, <1>18, <1>19, <1>20, <1>21, <1>22, <1>23, <1>24, <1>25, <1>26 DEF X!Next

LEMMA ExecSenders ==
    ASSUME ExecInv, ExecType', X!Next
    PROVE  Senders'
<1> USE DEF ExecType, ExecRecord, ExecThreads, X!At, X!Go, X!InWait, X!Waits, ExecInv, Senders, Active, Hears
<1>1. CASE X!start
  BY <1>1 DEF X!start
<1>2. CASE X!Spawn
  <2>1. CASE UNCHANGED obj /\ th' = [th EXCEPT !.starter = "returned", !.task = "run"]
    <3>1. th.task = "none" /\ th'.task = "run" /\ th'.sender = th.sender
      BY <1>2, <2>1, SpawnCases DEF CalledOnce
    <3> QED
      BY <2>1, <3>1
  <2>2. CASE th' = [th EXCEPT !.starter = "refused"]
             /\ \E v \in {"error", "stopped"} : obj' = [obj EXCEPT !.verdict = v]
    BY <1>2, <2>2, SpawnCases
  <2> QED
    BY <1>2, <2>1, <2>2, SpawnCases
<1>3. CASE X!RefuseAndComplete
  BY <1>3 DEF X!RefuseAndComplete, X!stop_forwarding
<1>4. CASE X!RequestStop
  BY <1>4 DEF X!RequestStop
<1>5. CASE X!forward_stop
  BY <1>5 DEF X!forward_stop
<1>6. CASE X!SpawnRun
  BY <1>6 DEF X!SpawnRun
<1>7. CASE X!ScheduleRun
  BY <1>7 DEF X!ScheduleRun
<1>8. CASE X!FnEnds
  BY <1>8 DEF X!FnEnds
<1>9. CASE X!FnParks
  BY <1>9 DEF X!FnParks
<1>10. CASE X!ParkReturns
  BY <1>10 DEF X!ParkReturns
<1>11. CASE X!complete
  BY <1>11 DEF X!complete, X!stop_forwarding
<1>12. CASE X!Deliver
  BY <1>12 DEF X!Deliver
<1>13. CASE X!ReceiverReturns
  BY <1>13 DEF X!ReceiverReturns
<1>14. CASE X!StopBegins
  BY <1>14 DEF X!StopBegins
<1>15. CASE X!StopWakesOnce
  BY <1>15 DEF X!StopWakesOnce
<1>16. CASE X!CatchForcedUnwind
  BY <1>16 DEF X!CatchForcedUnwind, X!Reapable
<1>17. CASE X!dropped
  BY <1>17 DEF X!dropped, X!stop_forwarding, X!Reapable
<1>18. CASE X!Begin
  <2>1. /\ th.task \in {"fn", "receiver"} /\ th'.task = "starting"
        /\ obj'.waits = obj.waits + 1 /\ ~obj'.done /\ obj.waits + 1 \in X!Waits
    BY <1>18, WaitsAreCounted DEF X!Begin
  <2>2. /\ th'.sender[obj.waits + 1] = "pending"
        /\ \A i \in X!Waits : i # obj.waits + 1 => th'.sender[i] = th.sender[i]
    <3>1. PICK n \in X!Waits : n = obj.waits + 1
      BY <2>1
    <3>2. th' = [th EXCEPT !.task = "starting", !.sender = [th.sender EXCEPT ![n] = "pending"]]
      BY <1>18, <3>1 DEF X!Begin
    <3>3. th'.sender = [th.sender EXCEPT ![n] = "pending"]
      BY <3>2
    <3> HIDE DEF X!Waits, ExecInv, Senders
    <3> QED
      BY <3>1, <3>3
  <2> QED
    BY <2>1, <2>2
<1>19. CASE X!CompletesInStart
  <2>1. /\ th.task = "starting" /\ th'.task = "starting" /\ obj.waits \in X!Waits
        /\ obj'.waits = obj.waits /\ obj'.done
    BY <1>19, WaitsAreCounted DEF X!CompletesInStart
  <2>2. /\ th'.sender[obj.waits] = "over"
        /\ \A i \in X!Waits : i # obj.waits => th'.sender[i] = th.sender[i]
    <3>1. th' = [th EXCEPT !.sender = [th.sender EXCEPT ![obj.waits] = "over"]]
      BY <1>19 DEF X!CompletesInStart
    <3>2. th'.sender = [th.sender EXCEPT ![obj.waits] = "over"]
      BY <3>1
    <3> HIDE DEF X!Waits, ExecInv, Senders
    <3> QED
      BY <2>1, <3>2
  <2> QED
    BY <2>1, <2>2
<1>20. CASE X!StartReturns
  BY <1>20 DEF X!StartReturns
<1>21. CASE X!Look
  <2>1. CASE obj.uses = "op" /\ obj' = [obj EXCEPT !.forwarded = TRUE, !.source = TRUE] /\ UNCHANGED th
    BY <1>21, <2>1, LookCases
  <2>2. CASE obj.uses = "own" /\ obj' = [obj EXCEPT !.forwarded = TRUE, !.own = TRUE] /\ UNCHANGED th
    BY <1>21, <2>2, LookCases
  <2>3. CASE UNCHANGED obj
    BY <1>21, <2>3, LookCases
  <2> HIDE DEF ExecType, ExecRecord, ExecThreads, X!At, X!Go, X!InWait, X!Waits, ExecInv, Senders, Active, Hears
  <2> QED
    BY <1>21, <2>1, <2>2, <2>3, LookCases DEF ExecInv
<1>22. CASE X!Park
  BY <1>22 DEF X!Park
<1>23. CASE X!Result
  BY <1>23 DEF X!Result
<1>24. ASSUME NEW i \in X!Waits, X!Store(i)
      PROVE  Senders'
  BY <1>24 DEF X!Store, X!Results
<1>25. ASSUME NEW i \in X!Waits, X!finish(i)
      PROVE  Senders'
  <2>1. /\ th'.task = th.task /\ obj'.waits = obj.waits
        /\ \A j \in X!Waits : j # i => th'.sender[j] = th.sender[j]
        /\ \/ th.sender[i] = "finish" /\ th'.sender[i] = "inFinish" /\ obj'.done = obj.done
           \/ th.sender[i] = "inFinish" /\ th'.sender[i] = "wake" /\ obj'.done
    <3>1. \/ /\ th.sender[i] = "finish" /\ UNCHANGED obj
             /\ th' = [th EXCEPT !.sender = [th.sender EXCEPT ![i] = "inFinish"]]
          \/ /\ th.sender[i] = "inFinish" /\ obj' = [obj EXCEPT !.done = TRUE]
             /\ th' = [th EXCEPT !.sender = [th.sender EXCEPT ![i] = "wake"]]
      BY <1>25 DEF X!finish
    <3> HIDE DEF X!Waits, ExecInv, Senders
    <3>2. CASE th.sender[i] = "finish"
      <4>1. th'.sender = [th.sender EXCEPT ![i] = "inFinish"] /\ th'.task = th.task
        BY <3>1, <3>2
      <4> QED
        BY <3>1, <3>2, <4>1
    <3>3. CASE th.sender[i] = "inFinish"
      <4>1. th'.sender = [th.sender EXCEPT ![i] = "wake"] /\ th'.task = th.task
        BY <3>1, <3>3
      <4> QED
        BY <3>1, <3>3, <4>1
    <3> QED
      BY <3>1, <3>2, <3>3
  <2>2. i = obj.waits /\ X!InWait
    BY SMTT(20), <2>1
  <2> QED
    BY <2>1, <2>2
<1>26. ASSUME NEW i \in X!Waits, X!Wake(i)
      PROVE  Senders'
  BY <1>26 DEF X!Wake
<1> QED
  BY <1>1, <1>2, <1>3, <1>4, <1>5, <1>6, <1>7, <1>8, <1>9, <1>10, <1>11, <1>12, <1>13, <1>14, <1>15, <1>16, <1>17, <1>18, <1>19, <1>20, <1>21, <1>22, <1>23, <1>24, <1>25, <1>26 DEF X!Next

LEMMA ExecHears ==
    ASSUME ExecInv, ExecType', X!Next
    PROVE  Hears'
<1> USE DEF ExecType, ExecRecord, ExecThreads, X!At, X!Go, X!InWait, X!Waits, ExecInv, Hears, Senders, CalledOnce, Forwards, InFunction
<1>1. CASE X!start
  BY <1>1 DEF X!start
<1>2. CASE X!Spawn
  <2>1. CASE UNCHANGED obj /\ th' = [th EXCEPT !.starter = "returned", !.task = "run"]
    BY <1>2, <2>1, SpawnCases
  <2>2. CASE th' = [th EXCEPT !.starter = "refused"]
             /\ \E v \in {"error", "stopped"} : obj' = [obj EXCEPT !.verdict = v]
    BY <1>2, <2>2, SpawnCases
  <2> QED
    BY <1>2, <2>1, <2>2, SpawnCases
<1>3. CASE X!RefuseAndComplete
  BY <1>3 DEF X!RefuseAndComplete, X!stop_forwarding
<1>4. CASE X!RequestStop
  BY <1>4 DEF X!RequestStop
<1>5. CASE X!forward_stop
  BY <1>5 DEF X!forward_stop
<1>6. CASE X!SpawnRun
  BY <1>6 DEF X!SpawnRun
<1>7. CASE X!ScheduleRun
  BY <1>7 DEF X!ScheduleRun
<1>8. CASE X!FnEnds
  BY <1>8 DEF X!FnEnds
<1>9. CASE X!FnParks
  BY <1>9 DEF X!FnParks
<1>10. CASE X!ParkReturns
  BY <1>10 DEF X!ParkReturns
<1>11. CASE X!complete
  BY <1>11 DEF X!complete, X!stop_forwarding
<1>12. CASE X!Deliver
  BY <1>12 DEF X!Deliver
<1>13. CASE X!ReceiverReturns
  BY <1>13 DEF X!ReceiverReturns
<1>14. CASE X!StopBegins
  BY <1>14 DEF X!StopBegins
<1>15. CASE X!StopWakesOnce
  BY <1>15 DEF X!StopWakesOnce
<1>16. CASE X!CatchForcedUnwind
  BY <1>16 DEF X!CatchForcedUnwind, X!Reapable
<1>17. CASE X!dropped
  BY <1>17 DEF X!dropped, X!stop_forwarding, X!Reapable
<1>18. CASE X!Begin
  BY <1>18 DEF X!Begin, X!Waits
<1>19. CASE X!CompletesInStart
  BY <1>19 DEF X!CompletesInStart, X!Results
<1>20. CASE X!StartReturns
  BY <1>20 DEF X!StartReturns
<1>21. CASE X!Look
  <2>1. CASE obj.uses = "op" /\ obj' = [obj EXCEPT !.forwarded = TRUE, !.source = TRUE] /\ UNCHANGED th
    BY <1>21, <2>1, LookCases
  <2>2. CASE obj.uses = "own" /\ obj' = [obj EXCEPT !.forwarded = TRUE, !.own = TRUE] /\ UNCHANGED th
    BY <1>21, <2>2, LookCases
  <2>3. CASE UNCHANGED obj
    BY <1>21, <2>3, LookCases
  <2> HIDE DEF ExecType, ExecRecord, ExecThreads, X!At, X!Go, X!InWait, X!Waits, ExecInv, Hears, Senders, CalledOnce, Forwards, InFunction
  <2> QED
    BY <1>21, <2>1, <2>2, <2>3, LookCases DEF ExecInv
<1>22. CASE X!Park
  BY <1>22 DEF X!Park
<1>23. CASE X!Result
  BY <1>23 DEF X!Result
<1>24. ASSUME NEW i \in X!Waits, X!Store(i)
      PROVE  Hears'
  BY <1>24 DEF X!Store, X!Results
<1>25. ASSUME NEW i \in X!Waits, X!finish(i)
      PROVE  Hears'
  BY <1>25 DEF X!finish
<1>26. ASSUME NEW i \in X!Waits, X!Wake(i)
      PROVE  Hears'
  BY <1>26 DEF X!Wake
<1> QED
  BY <1>1, <1>2, <1>3, <1>4, <1>5, <1>6, <1>7, <1>8, <1>9, <1>10, <1>11, <1>12, <1>13, <1>14, <1>15, <1>16, <1>17, <1>18, <1>19, <1>20, <1>21, <1>22, <1>23, <1>24, <1>25, <1>26 DEF X!Next

LEMMA ExecKeeps ==
    ASSUME ExecInv, X!Next
    PROVE  ExecInv'
<1>1. ExecType'
  BY ExecTypeKeeps DEF ExecInv
<1> QED
  BY <1>1, ExecCalled, ExecForwards, ExecSenders, ExecHears DEF ExecInv

\* What the properties say follows.
LEMMA ExecMeans == ExecInv => X!ReceiverHearsOnce /\ X!DeadUntouched /\ X!WaitHears
<1> SUFFICES ASSUME ExecInv
             PROVE  X!ReceiverHearsOnce /\ X!DeadUntouched /\ X!WaitHears
  OBVIOUS
<1>1. ExecType /\ CalledOnce /\ Forwards /\ Senders /\ Hears
  BY DEF ExecInv
<1>2. X!ReceiverHearsOnce
  <2>1. Len(obj.completed) \in {0, 1} /\ (Called => Len(obj.completed) = 1)
    <3>1. CASE Called
      BY <1>1, <3>1 DEF CalledOnce
    <3>2. CASE ~Called
      <4>1. obj.completed = <<>>
        BY <1>1, <3>2 DEF CalledOnce
      <4> QED
        BY <3>2, <4>1
    <3> QED
      BY <3>1, <3>2
  <2>2. X!At("ended") \/ (th.starter = "returned" /\ X!At("none")) => Called
    BY DEF Called, X!At
  <2>3. Len(obj.completed) <= 1
    <3>1. PICK n \in {0, 1} : Len(obj.completed) = n
      BY <2>1
    <3>2. n <= 1
      OBVIOUS
    <3> QED
      BY <3>1, <3>2, Zenon
  <2> QED
    BY <2>1, <2>2, <2>3, Zenon DEF X!ReceiverHearsOnce
<1>3. X!DeadUntouched
  <2>1. Called => th.stopper = "idle" /\ ~obj.forwarding /\ ~obj.context
                  /\ (X!InWait => obj.uses = "own")
    BY <1>1
    DEF ExecType, ExecRecord, ExecThreads, CalledOnce, Called, Forwards, InFunction, X!InWait
  <2>2. \A i \in X!Waits : th.sender[i] \in Active =>
            X!InWait /\ i = obj.waits /\ ~X!At("result")
    BY <1>1, WaitsAreCounted DEF ExecType, ExecRecord, Senders, Hears, Active, X!Waits
  <2> QED
    BY <1>1, <2>1, <2>2 DEF X!DeadUntouched, CalledOnce, Active
<1>4. X!WaitHears
  BY <1>1 DEF X!WaitHears, Hears, Forwards, ExecType, ExecRecord, ExecThreads, X!At, X!InWait
<1> QED
  BY <1>2, <1>3, <1>4

-----------------------------------------------------------------------------
(* Steps that leave everything as it is.                                   *)

LEMMA StutterKeeps ==
    ASSUME UNCHANGED <<obj, th>>
    PROVE  /\ JoinInv => JoinInv'
           /\ ParkerInv => ParkerInv'
           /\ PoolInv => PoolInv'
           /\ CoroutineInv => CoroutineInv'
           /\ ExecInv => ExecInv'
<1>1. JoinInv => JoinInv'
  BY DEF JoinInv, JoinType, J!JoinNotMissed, J!JoinSeesOutcome
<1>2. ParkerInv => ParkerInv'
  BY DEF ParkerInv, ParkerType, NothingBuffered, TokenThere, WakeThere
<1>3. PoolInv => PoolInv'
  BY DEF PoolInv, PoolType, NotStranded, N!In
<1>4. CoroutineInv => CoroutineInv'
  BY DEF CoroutineInv, CoType, RunsSomewhere, OneWaits, ResumersExist, BodiesEnd, WaitedFor,
     O!ThreadKnowsItsContext, O!ResumersWait, O!FreedIsSpent, O!Idle
<1>5. ExecInv => ExecInv'
  BY DEF ExecInv, ExecType, CalledOnce, Called, Forwards, InFunction, Senders, Hears,
     X!InWait, X!At
<1> QED
  BY <1>1, <1>2, <1>3, <1>4, <1>5
-----------------------------------------------------------------------------
(* Lists without repetition.                                               *)

Elems(q) == {q[i] : i \in 1 .. Len(q)}
Once(q) == \A i, j \in 1 .. Len(q) : q[i] = q[j] => i = j
List(T, q) == q \in Seq(T) /\ Once(q)
Differ(a, b) == Elems(a) \cap Elems(b) = {}
Joins(q, a, b) == Elems(q) = Elems(a) \cup Elems(b)

LEMMA SplitList ==
    \A T, q, k : List(T, q) /\ k \in 0 .. Len(q) =>
        LET a == SubSeq(q, 1, k)
            b == SubSeq(q, k + 1, Len(q))
        IN  /\ List(T, a) /\ List(T, b) /\ Len(a) = k
            /\ Elems(a) \cap Elems(b) = {} /\ Elems(a) \cup Elems(b) = Elems(q)
<1> TAKE T, q, k
<1> HAVE List(T, q) /\ k \in 0 .. Len(q)
<1> DEFINE a == SubSeq(q, 1, k)
           b == SubSeq(q, k + 1, Len(q))
<1>0. q \in Seq(T) /\ Once(q) /\ k \in 0 .. Len(q)
  BY DEF List
<1>1. /\ a \in Seq(T) /\ Len(a) = k /\ \A i \in 1 .. k : a[i] = q[i]
      /\ b \in Seq(T) /\ Len(b) = Len(q) - k /\ \A i \in 1 .. Len(q) - k : b[i] = q[k + i]
  BY <1>0
<1> HIDE DEF a, b
<1>2. Once(a) /\ Once(b)
  <2>1. ASSUME NEW i \in 1 .. Len(a), NEW j \in 1 .. Len(a), a[i] = a[j]
        PROVE  i = j
    BY <1>0, <1>1, <2>1 DEF Once
  <2>2. ASSUME NEW i \in 1 .. Len(b), NEW j \in 1 .. Len(b), b[i] = b[j]
        PROVE  i = j
    <3>1. k + i \in 1 .. Len(q) /\ k + j \in 1 .. Len(q) /\ q[k + i] = q[k + j]
      BY <1>0, <1>1, <2>2
    <3>2. k + i = k + j
      BY <1>0, <3>1 DEF Once
    <3> QED
      BY <3>2
  <2> QED
    BY <2>1, <2>2 DEF Once
<1>3. Elems(a) \cap Elems(b) = {}
  <2> SUFFICES ASSUME NEW i \in 1 .. Len(a), NEW j \in 1 .. Len(b), a[i] = b[j]
               PROVE  FALSE
    BY DEF Elems
  <2>1. /\ i \in 1 .. Len(q) /\ k + j \in 1 .. Len(q) /\ i # k + j
        /\ q[i] = q[k + j]
    BY <1>0, <1>1
  <2> QED
    BY <1>0, <2>1 DEF Once
<1>4. Elems(a) \cup Elems(b) \subseteq Elems(q)
  <2>1. ASSUME NEW i \in 1 .. Len(a)
        PROVE  a[i] \in Elems(q)
    BY <1>0, <1>1 DEF Elems
  <2>2. ASSUME NEW i \in 1 .. Len(b)
        PROVE  b[i] \in Elems(q)
    <3>1. k + i \in 1 .. Len(q) /\ q[k + i] = b[i]
      BY <1>0, <1>1
    <3> QED
      BY <3>1 DEF Elems
  <2> QED
    BY <2>1, <2>2 DEF Elems
<1>5. Elems(q) \subseteq Elems(a) \cup Elems(b)
  <2> SUFFICES ASSUME NEW i \in 1 .. Len(q)
               PROVE  q[i] \in Elems(a) \cup Elems(b)
    BY <1>0 DEF Elems
  <2>1. CASE i <= k
    BY <1>0, <1>1, <2>1 DEF Elems
  <2>2. CASE i > k
    <3>1. i - k \in 1 .. Len(b) /\ b[i - k] = q[i]
      BY <1>0, <1>1, <2>2
    <3> QED
      BY <3>1 DEF Elems
  <2> QED
    BY <2>1, <2>2
<1> QED
  BY <1>1, <1>2, <1>3, <1>4, <1>5 DEF List, a, b

LEMMA JoinLists ==
    \A T, a, b : List(T, a) /\ List(T, b) /\ Differ(a, b) =>
        List(T, a \o b) /\ Joins(a \o b, a, b)
<1> SUFFICES ASSUME NEW T, NEW a \in Seq(T), NEW b \in Seq(T), Once(a), Once(b),
                    Elems(a) \cap Elems(b) = {}
             PROVE  List(T, a \o b) /\ Joins(a \o b, a, b)
  BY DEF List, Differ
<1> DEFINE q == a \o b
<1>1. /\ q \in Seq(T) /\ Len(q) = Len(a) + Len(b)
      /\ \A i \in 1 .. Len(a) : q[i] = a[i]
      /\ \A i \in 1 .. Len(b) : q[Len(a) + i] = b[i]
      /\ \A i \in 1 .. Len(q) : i > Len(a) => q[i] = b[i - Len(a)] /\ i - Len(a) \in 1 .. Len(b)
  OBVIOUS
<1> HIDE DEF q
<1>2. \A i \in 1 .. Len(a), j \in 1 .. Len(b) : a[i] # b[j]
  BY DEF Elems
<1>3. Once(q)
  <2> SUFFICES ASSUME NEW i \in 1 .. Len(q), NEW j \in 1 .. Len(q), q[i] = q[j]
               PROVE  i = j
    BY DEF Once
  <2>1. CASE i <= Len(a) /\ j <= Len(a)
    BY <1>1, <2>1 DEF Once
  <2>2. CASE i > Len(a) /\ j > Len(a)
    <3>1. /\ i - Len(a) \in 1 .. Len(b) /\ j - Len(a) \in 1 .. Len(b)
          /\ b[i - Len(a)] = b[j - Len(a)]
      BY <1>1, <2>2
    <3>2. i - Len(a) = j - Len(a)
      BY <3>1 DEF Once
    <3> QED
      BY <3>2
  <2>3. CASE i <= Len(a) /\ j > Len(a)
    BY <1>1, <1>2, <2>3
  <2>4. CASE i > Len(a) /\ j <= Len(a)
    BY <1>1, <1>2, <2>4
  <2> QED
    BY <2>1, <2>2, <2>3, <2>4
<1>4. Elems(q) \subseteq Elems(a) \cup Elems(b)
  <2>1. ASSUME NEW i \in 1 .. Len(q)
        PROVE  q[i] \in Elems(a) \cup Elems(b)
    <3>1. CASE i <= Len(a)
      BY <1>1, <3>1 DEF Elems
    <3>2. CASE i > Len(a)
      BY <1>1, <3>2 DEF Elems
    <3> QED
      BY <1>1, <3>1, <3>2
  <2> QED
    BY <2>1 DEF Elems
<1>5. Elems(a) \subseteq Elems(q)
  BY <1>1 DEF Elems
<1>6. Elems(b) \subseteq Elems(q)
  <2> SUFFICES ASSUME NEW i \in 1 .. Len(b)
               PROVE  b[i] \in Elems(q)
    BY DEF Elems
  <2>1. Len(a) + i \in 1 .. Len(q) /\ q[Len(a) + i] = b[i]
    BY <1>1
  <2> QED
    BY <2>1 DEF Elems
<1> QED
  BY <1>1, <1>3, <1>4, <1>5, <1>6 DEF List, Joins, q

LEMMA AppendToList ==
    \A T, q, x : List(T, q) /\ x \in T /\ x \notin Elems(q) =>
        List(T, Append(q, x)) /\ Elems(Append(q, x)) = Elems(q) \cup {x}
<1> SUFFICES ASSUME NEW T, NEW q \in Seq(T), Once(q), NEW x \in T, x \notin Elems(q)
             PROVE  List(T, Append(q, x)) /\ Elems(Append(q, x)) = Elems(q) \cup {x}
  BY DEF List
<1> DEFINE r == Append(q, x)
<1>1. /\ r \in Seq(T) /\ Len(r) = Len(q) + 1 /\ \A i \in 1 .. Len(q) : r[i] = q[i]
      /\ r[Len(r)] = x
  OBVIOUS
<1> HIDE DEF r
<1>2. Once(r)
  BY <1>1 DEF Once, Elems
<1>3. Elems(r) = Elems(q) \cup {x}
  BY <1>1 DEF Elems
<1> QED
  BY <1>1, <1>2, <1>3 DEF List, r

LEMMA LastOfList ==
    \A T, q : List(T, q) /\ q # <<>> =>
        LET r == SubSeq(q, 1, Len(q) - 1)
            x == q[Len(q)]
        IN  List(T, r) /\ x \in T /\ Elems(r) \cup {x} = Elems(q) /\ x \notin Elems(r)
<1> TAKE T, q
<1> HAVE List(T, q) /\ q # <<>>
<1> DEFINE n == Len(q) - 1
           r == SubSeq(q, 1, n)
           x == q[Len(q)]
<1>0. q \in Seq(T) /\ Once(q) /\ Len(q) \in Nat \ {0} /\ n \in 0 .. Len(q) /\ n = Len(q) - 1
  BY DEF List
<1> HIDE DEF n
<1>1. Len(q) \in Nat \ {0} /\ x \in T /\ Once(q) /\ x = q[Len(q)]
  BY <1>0
<1>2. r \in Seq(T) /\ Len(r) = Len(q) - 1 /\ \A i \in 1 .. Len(r) : r[i] = q[i]
  <2>1. r \in Seq(T) /\ Len(r) = n /\ \A i \in 1 .. n : r[i] = q[i]
    BY <1>0
  <2> QED
    BY <1>0, <2>1
<1> HIDE DEF r, x
<1>3. Once(r) /\ x \notin Elems(r)
  BY <1>1, <1>2 DEF Once, Elems
<1>4. Elems(r) \cup {x} = Elems(q)
  BY <1>1, <1>2 DEF Elems
<1> QED
  BY <1>1, <1>2, <1>3, <1>4 DEF List, n, r, x

LEMMA HeadOfList ==
    \A T, q : List(T, q) /\ q # <<>> =>
        LET r == Tail(q)
            x == Head(q)
        IN  List(T, r) /\ x \in T /\ Elems(r) \cup {x} = Elems(q) /\ x \notin Elems(r)
<1> TAKE T, q
<1> HAVE List(T, q) /\ q # <<>>
<1> DEFINE r == Tail(q)
           x == Head(q)
<1>0. q \in Seq(T) /\ Once(q) /\ Len(q) \in Nat \ {0}
  BY DEF List
<1>1. Len(q) \in Nat \ {0} /\ x \in T /\ x = q[1] /\ Once(q)
  BY <1>0
<1>2. /\ r \in Seq(T) /\ Len(r) = Len(q) - 1 /\ \A i \in 1 .. Len(r) : r[i] = q[i + 1]
  BY <1>0
<1> HIDE DEF r, x
<1>3. Once(r)
  BY <1>1, <1>2 DEF Once
<1>4. x \notin Elems(r)
  BY <1>1, <1>2 DEF Once, Elems
<1>5. Elems(r) \cup {x} \subseteq Elems(q)
  BY <1>1, <1>2 DEF Elems
<1>6. ASSUME NEW i \in 1 .. Len(q)
      PROVE  q[i] \in Elems(r) \cup {x}
  <2>1. CASE i # 1
    <3>1. i - 1 \in 1 .. Len(r) /\ r[i - 1] = q[i]
      BY <1>1, <1>2, <2>1
    <3> QED
      BY <3>1 DEF Elems
  <2> QED
    BY <1>1, <2>1
<1>7. Elems(q) \subseteq Elems(r) \cup {x}
  BY <1>6 DEF Elems
<1> QED
  BY <1>1, <1>2, <1>3, <1>4, <1>5, <1>7 DEF List, r, x

-----------------------------------------------------------------------------
(* Sums of counters, as the number of what they count.                     *)

Tally(f, C) == UNION {{c} \X (1 .. f[c]) : c \in C}

LEMMA TallyCounts ==
    ASSUME NEW L, NEW f \in [L -> Nat], NEW C \in SUBSET L, NEW c \in L,
           NEW g, g = [f EXCEPT ![c] = f[c] + 1], IsFiniteSet(Tally(f, C))
    PROVE  /\ IsFiniteSet(Tally(g, C))
           /\ c \in C => Cardinality(Tally(g, C)) = Cardinality(Tally(f, C)) + 1
           /\ c \notin C => Tally(g, C) = Tally(f, C)
<1>1. g \in [L -> Nat] /\ g[c] = f[c] + 1 /\ \A d \in L : d # c => g[d] = f[d]
  OBVIOUS
<1>2. CASE c \in C
  <2> DEFINE e == <<c, f[c] + 1>>
  <2>1. Tally(g, C) = Tally(f, C) \cup {e} /\ e \notin Tally(f, C)
    <3>1. ASSUME NEW d \in C, NEW i \in Nat \ {0}
          PROVE  <<d, i>> \in Tally(g, C) <=> <<d, i>> \in Tally(f, C) \/ <<d, i>> = e
      BY <1>1, <1>2, <3>1 DEF Tally
    <3>2. e \in C \X (Nat \ {0}) /\ e \notin Tally(f, C)
      BY <1>2 DEF Tally
    <3> QED
      BY <3>1, <3>2 DEF Tally
  <2> DEFINE T == Tally(f, C)
  <2> HIDE DEF e, T
  <2>2. IsFiniteSet(T) /\ e \notin T
    BY <2>1 DEF T
  <2>3. IsFiniteSet(T \cup {e}) /\ Cardinality(T \cup {e}) = Cardinality(T) + 1
    BY <2>2, FS_AddElement
  <2> QED
    BY <1>2, <2>1, <2>3 DEF T
<1>3. CASE c \notin C
  <2>1. Tally(g, C) = Tally(f, C)
    BY <1>1, <1>3 DEF Tally
  <2> QED
    BY <1>3, <2>1
<1> QED
  BY <1>2, <1>3

LEMMA TallyGrows ==
    ASSUME NEW L, NEW f \in [L -> Nat], NEW C \in SUBSET L, NEW c \in L, c \notin C,
           IsFiniteSet(Tally(f, C))
    PROVE  /\ IsFiniteSet(Tally(f, C \cup {c}))
           /\ Cardinality(Tally(f, C \cup {c})) = Cardinality(Tally(f, C)) + f[c]
<1> DEFINE new == {c} \X (1 .. f[c])
<1>1. IsFiniteSet(new) /\ Cardinality(new) = f[c] /\ f[c] \in Nat
  <2>1. IsFiniteSet({c}) /\ Cardinality({c}) = 1
    BY FS_Singleton
  <2>2. IsFiniteSet(1 .. f[c]) /\ Cardinality(1 .. f[c]) = f[c]
    BY FS_Interval
  <2>3. f[c] \in Nat
    OBVIOUS
  <2>4. /\ IsFiniteSet({c} \X (1 .. f[c]))
        /\ Cardinality({c} \X (1 .. f[c])) = Cardinality({c}) * Cardinality(1 .. f[c])
    BY <2>1, <2>2, FS_Product
  <2> QED
    BY <2>1, <2>2, <2>3, <2>4
<1>2. Tally(f, C \cup {c}) = Tally(f, C) \cup new /\ Tally(f, C) \cap new = {}
  <2>1. ASSUME NEW d \in C \cup {c}, NEW i \in Nat \ {0}
        PROVE  <<d, i>> \in Tally(f, C \cup {c}) <=> <<d, i>> \in Tally(f, C) \/ <<d, i>> \in new
    BY <2>1 DEF Tally
  <2>2. new \subseteq (C \cup {c}) \X (Nat \ {0})
    OBVIOUS
  <2>3. Tally(f, C) \cap new = {}
    BY DEF Tally
  <2> QED
    BY <2>1, <2>2, <2>3 DEF Tally
<1>3. IsFiniteSet({}) /\ Cardinality({}) = 0
  BY FS_EmptySet
<1> HIDE DEF new
<1> DEFINE old == Tally(f, C)
<1>4. IsFiniteSet(old) /\ Cardinality(old) \in Nat /\ old \cap new = {}
  BY <1>2, FS_CardinalityType
<1> HIDE DEF old
<1>5. /\ IsFiniteSet(old \cup new)
      /\ Cardinality(old \cup new) =
           Cardinality(old) + Cardinality(new) - Cardinality(old \cap new)
  BY <1>1, <1>4, FS_Union
<1>6. Cardinality(old \cup new) = Cardinality(old) + f[c]
  <2>1. Cardinality(old \cap new) = 0
    BY <1>3, <1>4
  <2> QED
    BY <1>1, <1>4, <1>5, <2>1
<1> QED
  BY <1>2, <1>5, <1>6 DEF old

LEMMA TallyOfNone ==
    /\ \A f : Tally(f, {}) = {}
    /\ \A C : Tally([c \in C |-> 0], C) = {}
<1>1. ASSUME NEW C
      PROVE  Tally([c \in C |-> 0], C) = {}
  BY DEF Tally
<1> QED
  BY <1>1 DEF Tally

LEMMA TallyOfSome ==
    ASSUME NEW f, NEW L, NEW C \in SUBSET L, IsFiniteSet(Tally(f, L))
    PROVE  /\ IsFiniteSet(Tally(f, C)) /\ Cardinality(Tally(f, C)) \in Nat
           /\ Cardinality(Tally(f, L)) \in Nat
           /\ Cardinality(Tally(f, C)) <= Cardinality(Tally(f, L))
<1>1. Tally(f, C) \subseteq Tally(f, L)
  BY DEF Tally
<1> QED
  BY <1>1, FS_Subset, FS_CardinalityType

-----------------------------------------------------------------------------
(* Task slots and task counters.                                           *)

Crew == {S!Workers[i] : i \in 1 .. Len(S!Workers)}
Party == Crew \cup S!Foreign
Ledger == Crew \cup {"foreign"}
Before(n) == {S!Counter(i) : i \in 0 .. n - 1}
After(n) == {S!Counter(i) : i \in n .. Len(S!Workers)}

Answers == {"decide", "tell", "exit"}
SlotPc == {"idle", "try", "peers", "acquired", "release", "lastOne", "first", "second", "exited"}
             \cup Answers
SlotThread == [pc : SlotPc, slot : Slots \cup {0}, next : Nat, finished : Nat, created : Nat,
               after : Answers \cup {"idle"}, since : SUBSET Slots]
SlotObj == [is : {"Slots"}, team : Teams, freeSlots : Seq(Slots), tasks : SUBSET Slots,
            stopping : BOOLEAN, cache : [Crew -> Seq(Slots)], told : BOOLEAN, spawns : Nat,
            created : [Ledger -> Nat], finished : [Ledger -> Nat]]
SlotType == obj \in SlotObj /\ th \in [Party -> SlotThread]

\* What a thread keeps at each point.
Shape(t) ==
    /\ t.pc \in {"acquired", "release"} <=> t.slot # 0
    /\ t.pc \in {"first", "second"} => t.after \in Answers /\ t.next <= Len(S!Workers)
    /\ t.pc \in Answers => t.after = t.pc
    /\ t.pc \notin {"first", "second"} \cup Answers => t.after = "idle" /\ t.since = {}
    /\ t.pc = "peers" => t.next # 0
    /\ t.pc = "first" => t.created = 0
    /\ t.since \subseteq obj.tasks

\* Sets of slots, apart from one another and together all of them: the free
\* ones, those of each cache, the live tasks and those in hand.
Apart(free, cache, tasks, hand) ==
    /\ \A w \in Crew : free \cap cache[w] = {} /\ tasks \cap cache[w] = {}
    /\ \A w, v \in Crew : w # v => cache[w] \cap cache[v] = {}
    /\ free \cap tasks = {}
    /\ \A p \in Party : /\ hand[p] \in Slots \cup {0}
                        /\ hand[p] \notin free /\ hand[p] \notin tasks
                        /\ \A w \in Crew : hand[p] \notin cache[w]
    /\ \A p, q \in Party : hand[p] = hand[q] /\ hand[p] # 0 => p = q
    /\ \A s \in Slots : \/ s \in free \/ s \in tasks
                        \/ \E w \in Crew : s \in cache[w]
                        \/ \E p \in Party : s = hand[p]
SlotPlaces ==
    /\ List(Slots, obj.freeSlots) /\ \A w \in Crew : List(Slots, obj.cache[w])
    /\ Apart(Elems(obj.freeSlots), [w \in Crew |-> Elems(obj.cache[w])], obj.tasks,
             [p \in Party |-> th[p].slot])

Sum(counters) == Cardinality(Tally(counters, Ledger))
LiveIsSum ==
    /\ IsFiniteSet(Tally(obj.created, Ledger)) /\ IsFiniteSet(Tally(obj.finished, Ledger))
    /\ Sum(obj.created) = Sum(obj.finished) + Cardinality(obj.tasks)

\* What a count under way has seen, against what is to be counted.
Seen(t) ==
    /\ t.pc = "first" => t.finished <= Cardinality(Tally(obj.finished, Before(t.next)))
    /\ t.pc = "second" =>
          t.finished + Cardinality(t.since)
            <= t.created + Cardinality(Tally(obj.created, After(t.next)))
    /\ t.pc \in Answers => t.finished + Cardinality(t.since) <= t.created

\* A finisher that will find that no task is left.
WillTell(t) ==
    \/ t.pc \in {"release", "lastOne"}
    \/ /\ t.after = "tell" /\ t.pc = "first"
       /\ t.finished = Cardinality(Tally(obj.finished, Before(t.next)))
    \/ /\ t.after = "tell" /\ t.pc = "second"
       /\ t.finished = Sum(obj.finished)
       /\ t.created = Cardinality(Tally(obj.created, Before(t.next)))
    \/ t.pc = "tell" /\ t.finished = t.created
SomeoneWillTell ==
    ~obj.told => obj.stopping /\ (obj.tasks = {} => \E p \in Party : WillTell(th[p]))

\* A worker that stays at least until this task has finished.
Minds(t, s) == t.pc # "exited" /\ (t.after = "exit" => s \in t.since)
AllMinded ==
    S!Foreign = {} => \A s \in obj.tasks : \E w \in Crew : Minds(th[w], s)

CountInv ==
    /\ LiveIsSum
    /\ \A p \in Party : Shape(th[p]) /\ Seen(th[p])
    /\ SomeoneWillTell /\ AllMinded
SlotInv == SlotType /\ SlotPlaces /\ CountInv

LEMMA CrewFacts ==
    ASSUME obj.team \in Teams
    PROVE  /\ S!Range(S!Workers) = Crew /\ S!Parties = Party /\ Crew \subseteq Party
           /\ S!Workers \in Seq(Crew) /\ Len(S!Workers) \in Nat
           /\ \A i \in 1 .. Len(S!Workers) : S!Workers[i] \in Crew
           /\ \A p : S!IsWorker(p) <=> p \in Crew
           /\ \A p : S!Me(p) \in Ledger
           /\ \A i \in 0 .. Len(S!Workers) : S!Counter(i) \in Ledger
           /\ \A i, j \in 0 .. Len(S!Workers) : S!Counter(i) = S!Counter(j) => i = j
<1> DEFINE w == S!Workers
<1>1. /\ w \in Seq({w[i] : i \in 1 .. Len(w)}) /\ "foreign" \notin {w[i] : i \in 1 .. Len(w)}
      /\ \A i, j \in 1 .. Len(w) : w[i] = w[j] => i = j
  BY TeamsAreTeams DEF S!Workers
<1> HIDE DEF w
<1>2. DOMAIN w = 1 .. Len(w) /\ Len(w) \in Nat /\ Crew = {w[i] : i \in 1 .. Len(w)}
  BY <1>1 DEF Crew, w
<1>3. S!Range(S!Workers) = Crew
  BY <1>2 DEF S!Range, w
<1>4. S!Parties = Party
  BY <1>3 DEF S!Parties, Party
<1>5. \A p : S!IsWorker(p) <=> p \in Crew
  BY <1>3 DEF S!IsWorker
<1>6. \A p : S!Me(p) \in Ledger
  BY <1>5 DEF S!Me, Ledger
<1>7. \A i \in 1 .. Len(w) : w[i] \in Crew
  BY <1>2
<1>8. S!Counter(0) = "foreign" /\ \A i \in 1 .. Len(w) : S!Counter(i) = w[i]
  BY <1>2 DEF S!Counter, w
<1>9. \A i \in 0 .. Len(w) : S!Counter(i) \in Ledger
  BY <1>2, <1>7, <1>8 DEF Ledger
<1>10. \A i, j \in 0 .. Len(w) : S!Counter(i) = S!Counter(j) => i = j
  BY <1>1, <1>2, <1>8
<1> QED
  BY <1>1, <1>2, <1>3, <1>4, <1>5, <1>6, <1>7, <1>9, <1>10 DEF Party, w

\* The counters before and after a place in the round.
LEMMA RoundFacts ==
    ASSUME obj.team \in Teams
    PROVE  /\ Before(0) = {} /\ Before(Len(S!Workers) + 1) = Ledger
           /\ After(0) = Ledger /\ After(Len(S!Workers) + 1) = {}
           /\ \A n \in 0 .. Len(S!Workers) :
                 /\ Before(n) \in SUBSET Ledger /\ After(n) \in SUBSET Ledger
                 /\ After(n + 1) \in SUBSET Ledger
                 /\ Before(n + 1) = Before(n) \cup {S!Counter(n)} /\ S!Counter(n) \notin Before(n)
                 /\ After(n) = After(n + 1) \cup {S!Counter(n)} /\ S!Counter(n) \notin After(n + 1)
<1> DEFINE len == Len(S!Workers)
           c(i) == S!Counter(i)
<1>1. /\ len \in Nat /\ \A i \in 0 .. len : c(i) \in Ledger
      /\ \A i, j \in 0 .. len : c(i) = c(j) => i = j
      /\ Before(len + 1) = {c(i) : i \in 0 .. len} /\ After(0) = {c(i) : i \in 0 .. len}
  BY CrewFacts DEF Before, After
<1>2. {c(i) : i \in 0 .. len} = Ledger
  <2>1. c(0) = "foreign" /\ \A i \in 1 .. len : c(i) = S!Workers[i]
    BY <1>1 DEF S!Counter
  <2>2. \A i \in 1 .. len : S!Workers[i] \in {c(j) : j \in 0 .. len}
    BY <1>1, <2>1
  <2>3. Ledger \subseteq {c(i) : i \in 0 .. len}
    BY <1>1, <2>1, <2>2 DEF Ledger, Crew
  <2> QED
    BY <1>1, <2>3
<1>3. Before(0) = {} /\ After(len + 1) = {}
  BY <1>1 DEF Before, After
<1>4. ASSUME NEW n \in 0 .. len
      PROVE  /\ Before(n) = {c(i) : i \in 0 .. n - 1} /\ Before(n + 1) = {c(i) : i \in 0 .. n}
             /\ After(n) = {c(i) : i \in n .. len} /\ After(n + 1) = {c(i) : i \in n + 1 .. len}
  BY <1>1 DEF Before, After
<1> HIDE DEF len, c
<1>5. ASSUME NEW n \in 0 .. len
      PROVE  /\ Before(n) \in SUBSET Ledger /\ After(n) \in SUBSET Ledger
             /\ After(n + 1) \in SUBSET Ledger
             /\ Before(n + 1) = Before(n) \cup {c(n)} /\ c(n) \notin Before(n)
             /\ After(n) = After(n + 1) \cup {c(n)} /\ c(n) \notin After(n + 1)
  BY <1>1, <1>4
<1> QED
  BY <1>1, <1>2, <1>3, <1>5 DEF len, c

LEMMA SameCrew ==
    ASSUME obj'.team = obj.team
    PROVE  /\ Crew' = Crew /\ Party' = Party /\ Ledger' = Ledger
           /\ S!Workers' = S!Workers /\ S!Foreign' = S!Foreign
           /\ \A n : Before(n)' = Before(n) /\ After(n)' = After(n)
  BY DEF Crew, Party, Ledger, Before, After, S!Counter, S!Workers, S!Foreign

\* Steps that leave the tasks and their counters alone.
Quiet ==
    /\ obj'.team = obj.team /\ obj'.tasks = obj.tasks /\ obj'.created = obj.created
    /\ obj'.finished = obj.finished /\ obj'.stopping = obj.stopping /\ (obj'.told = obj.told \/ obj'.told)

LEMMA CountsAreFinite ==
    ASSUME SlotType, LiveIsSum
    PROVE  /\ \A C \in SUBSET Ledger : /\ Cardinality(Tally(obj.created, C)) \in Nat
                                       /\ Cardinality(Tally(obj.finished, C)) \in Nat
                                       /\ Cardinality(Tally(obj.finished, C)) <= Sum(obj.finished)
                                       /\ IsFiniteSet(Tally(obj.created, C))
                                       /\ IsFiniteSet(Tally(obj.finished, C))
           /\ \A s \in SUBSET Slots : IsFiniteSet(s) /\ Cardinality(s) \in Nat
           /\ \A s \in SUBSET Slots : \A r \in SUBSET s : Cardinality(r) <= Cardinality(s)
           /\ Sum(obj.created) \in Nat /\ Sum(obj.finished) \in Nat
<1>1. ASSUME NEW C \in SUBSET Ledger
      PROVE  /\ Cardinality(Tally(obj.created, C)) \in Nat /\ IsFiniteSet(Tally(obj.created, C))
             /\ Cardinality(Tally(obj.finished, C)) \in Nat /\ IsFiniteSet(Tally(obj.finished, C))
             /\ Cardinality(Tally(obj.finished, C)) <= Sum(obj.finished)
             /\ Sum(obj.created) \in Nat /\ Sum(obj.finished) \in Nat
  BY TallyOfSome DEF LiveIsSum, Sum
<1>2. ASSUME NEW s \in SUBSET Slots
      PROVE  IsFiniteSet(s) /\ Cardinality(s) \in Nat /\ \A r \in SUBSET s : Cardinality(r) <= Cardinality(s)
  <2>1. IsFiniteSet(s)
    BY SlotsAreNumbered, FS_Subset
  <2> QED
    BY <2>1, FS_Subset, FS_CardinalityType
<1> QED
  BY <1>1, <1>2

\* A thread goes on with nothing to count.
LEMMA Errand ==
    ASSUME SlotType, CountInv, Quiet, NEW p \in Party, NEW t \in SlotThread,
           th' = [th EXCEPT ![p] = t], t.after = "idle", t.since = {},
           t.pc \in {"acquired", "release"} <=> t.slot # 0,
           t.pc \notin {"first", "second"} \cup Answers, t.pc = "peers" => t.next # 0,
           obj'.told \/ ~WillTell(th[p]) \/ t.pc = "lastOne",
           t.pc = "exited" => th[p].pc = "exit" /\ th[p].created = th[p].finished
    PROVE  CountInv'
<1>1. /\ th \in [Party -> SlotThread] /\ th[p] \in SlotThread /\ th'[p] = t
      /\ \A q \in Party : q # p => th'[q] = th[q]
  BY DEF SlotType, SlotObj, SlotThread
<1>2. /\ Crew' = Crew /\ Party' = Party /\ Ledger' = Ledger
      /\ S!Workers' = S!Workers /\ S!Foreign' = S!Foreign
      /\ \A n : Before(n)' = Before(n) /\ After(n)' = After(n)
  BY SameCrew DEF Quiet
<1>3. LiveIsSum'
  BY <1>2 DEF LiveIsSum, CountInv, Quiet, Sum
<1>4. ASSUME NEW q \in Party
      PROVE  Shape(th[q])' /\ Seen(th[q])'
  <2>1. CASE q = p
    BY <1>1, <1>2, <2>1 DEF Shape, Seen, Answers
  <2>2. CASE q # p
    BY <1>1, <1>2, <2>2 DEF Shape, Seen, Quiet, CountInv
  <2> QED
    BY <2>1, <2>2
<1>5. SomeoneWillTell'
  <2> SUFFICES ASSUME ~obj'.told
               PROVE  /\ obj.stopping
                      /\ obj.tasks = {} => \E q \in Party : WillTell(th[q])'
    BY <1>2 DEF SomeoneWillTell, Quiet
  <2>1. ASSUME obj.tasks = {}
        PROVE  \E q \in Party : WillTell(th[q])'
    <3>1. PICK q \in Party : WillTell(th[q])
      BY <2>1 DEF SomeoneWillTell, CountInv, Quiet
    <3>2. CASE q = p
      BY <1>1, <2>1, <3>1, <3>2 DEF WillTell
    <3>3. CASE q # p
      BY <1>1, <1>2, <3>1, <3>3 DEF WillTell, Quiet, Sum
    <3> QED
      BY <3>2, <3>3
  <2> QED
    BY <2>1 DEF SomeoneWillTell, CountInv, Quiet
<1>6. AllMinded'
  <2> SUFFICES ASSUME S!Foreign = {}, NEW s \in obj.tasks
               PROVE  \E w \in Crew : Minds(th'[w], s)
    BY <1>2 DEF AllMinded, Quiet
  <2>1. PICK w \in Crew : Minds(th[w], s)
    BY DEF AllMinded, CountInv
  <2>2. CASE w # p
    BY <1>1, <2>1, <2>2 DEF Party
  <2>3. CASE w = p
    <3>1. t.pc # "exited"
      <4>1. CASE t.pc = "exited"
        <5>1. /\ th[p].pc = "exit" /\ th[p].finished + Cardinality(th[p].since) <= th[p].created
              /\ th[p].created = th[p].finished /\ th[p].after = "exit" /\ s \in th[p].since
          BY <2>1, <2>3, <4>1 DEF CountInv, Seen, Shape, Minds, Answers
        <5>2. IsFiniteSet(th[p].since) /\ th[p].finished \in Nat /\ Cardinality(th[p].since) \in Nat
          BY <1>1, CountsAreFinite DEF SlotThread, CountInv
        <5>3. Cardinality(th[p].since) = 0
          BY <5>1, <5>2
        <5>4. th[p].since = {}
          BY <5>2, <5>3, FS_EmptySet
        <5> QED
          BY <5>1, <5>4
      <4> QED
        BY <4>1
    <3> QED
      BY <1>1, <2>3, <3>1 DEF Minds
  <2> QED
    BY <2>2, <2>3
<1> QED
  BY <1>2, <1>3, <1>4, <1>5, <1>6 DEF CountInv

\* A thread starts to count.
LEMMA CountStarts ==
    ASSUME SlotType, CountInv, Quiet, NEW p \in Party, NEW answer \in Answers,
           S!Scan(p, answer), th[p].pc = "lastOne" => answer = "tell",
           th[p].pc \in {"idle", "peers", "lastOne"}
    PROVE  CountInv'
<1> DEFINE t == [S!Resting EXCEPT !.pc = "first", !.after = answer, !.since = obj.tasks]
<1>0. th' = [th EXCEPT ![p] = t]
  BY DEF S!Scan
<1>1. /\ th \in [Party -> SlotThread] /\ th[p] \in SlotThread /\ th'[p] = t
      /\ \A q \in Party : q # p => th'[q] = th[q]
      /\ t.pc = "first" /\ t.slot = 0 /\ t.next = 0 /\ t.finished = 0 /\ t.created = 0
      /\ t.after = answer /\ t.since = obj.tasks
  BY <1>0 DEF SlotType, SlotObj, SlotThread, S!Resting, S!NoSlot
<1> HIDE DEF t
<1>2. /\ Crew' = Crew /\ Party' = Party /\ Ledger' = Ledger
      /\ S!Workers' = S!Workers /\ S!Foreign' = S!Foreign
      /\ \A n : Before(n)' = Before(n) /\ After(n)' = After(n)
  BY SameCrew DEF Quiet
<1>3. LiveIsSum'
  BY <1>2 DEF LiveIsSum, CountInv, Quiet, Sum
<1>4. Cardinality(Tally(obj.finished, Before(0))) = 0 /\ Len(S!Workers) \in Nat
  <2>1. Before(0) = {} /\ Len(S!Workers) \in Nat
    BY CrewFacts, RoundFacts DEF SlotType, SlotObj
  <2>2. Cardinality({}) = 0
    BY FS_EmptySet
  <2> QED
    BY <2>1, <2>2, TallyOfNone
<1>5. ASSUME NEW q \in Party
      PROVE  Shape(th[q])' /\ Seen(th[q])'
  <2>1. CASE q = p
    BY <1>1, <1>2, <1>4, <2>1 DEF Shape, Seen, Answers, Quiet
  <2>2. CASE q # p
    BY <1>1, <1>2, <2>2 DEF Shape, Seen, Quiet, CountInv
  <2> QED
    BY <2>1, <2>2
<1>6. SomeoneWillTell'
  <2> SUFFICES ASSUME ~obj.told
               PROVE  /\ obj.stopping
                      /\ obj.tasks = {} => \E q \in Party : WillTell(th[q])'
    BY <1>2 DEF SomeoneWillTell, Quiet
  <2>1. ASSUME obj.tasks = {}
        PROVE  \E q \in Party : WillTell(th[q])'
    <3>1. PICK q \in Party : WillTell(th[q])
      BY <2>1 DEF SomeoneWillTell, CountInv
    <3>2. CASE q = p
      <4>1. th[p].after = "idle"
        BY DEF CountInv, Shape, Answers
      <4>2. answer = "tell"
        BY <3>1, <3>2, <4>1 DEF WillTell
      <4> QED
        BY <1>1, <1>2, <1>4, <4>2 DEF WillTell, Quiet
    <3>3. CASE q # p
      BY <1>1, <1>2, <3>1, <3>3 DEF WillTell, Quiet, Sum
    <3> QED
      BY <3>2, <3>3
  <2> QED
    BY <2>1 DEF SomeoneWillTell, CountInv
<1>7. AllMinded'
  <2> SUFFICES ASSUME S!Foreign = {}, NEW s \in obj.tasks
               PROVE  \E w \in Crew : Minds(th'[w], s)
    BY <1>2 DEF AllMinded, Quiet
  <2>1. PICK w \in Crew : Minds(th[w], s)
    BY DEF AllMinded, CountInv
  <2>2. CASE w # p
    BY <1>1, <2>1, <2>2 DEF Party
  <2>3. CASE w = p
    BY <1>1, <2>3 DEF Minds
  <2> QED
    BY <2>2, <2>3
<1> QED
  BY <1>2, <1>3, <1>5, <1>6, <1>7 DEF CountInv

\* One counter more: of the finished tasks first.
LEMMA CountsOneFinished ==
    ASSUME SlotType, CountInv, Quiet, NEW p \in Party, S!Load(p, "first", "finished", "second")
    PROVE  CountInv'
<1> DEFINE t == [th[p] EXCEPT !.next = IF @ = Len(S!Workers) THEN 0 ELSE @ + 1,
                              !.pc = IF th[p].next = Len(S!Workers) THEN "second" ELSE "first",
                              !.finished = @ + obj.finished[S!Counter(th[p].next)]]
<1>0. th' = [th EXCEPT ![p] = t] /\ th[p].pc = "first"
  BY DEF S!Load, S!At, SlotType, SlotObj
<1>1. /\ th \in [Party -> SlotThread] /\ th[p] \in SlotThread /\ th'[p] = t
      /\ \A q \in Party : q # p => th'[q] = th[q]
      /\ t.pc = (IF th[p].next = Len(S!Workers) THEN "second" ELSE "first")
      /\ t.next = (IF th[p].next = Len(S!Workers) THEN 0 ELSE th[p].next + 1)
      /\ t.finished = th[p].finished + obj.finished[S!Counter(th[p].next)]
      /\ t.slot = th[p].slot /\ t.created = th[p].created
      /\ t.after = th[p].after /\ t.since = th[p].since
  BY <1>0 DEF SlotType, SlotObj, SlotThread
<1> HIDE DEF t
<1>2. /\ Crew' = Crew /\ Party' = Party /\ Ledger' = Ledger
      /\ S!Workers' = S!Workers /\ S!Foreign' = S!Foreign
      /\ \A n : Before(n)' = Before(n) /\ After(n)' = After(n)
  BY SameCrew DEF Quiet
<1>3. LiveIsSum'
  BY <1>2 DEF LiveIsSum, CountInv, Quiet, Sum
<1> DEFINE n == th[p].next
           len == Len(S!Workers)
           seen(m) == Cardinality(Tally(obj.finished, Before(m)))
           got == obj.finished[S!Counter(n)]
<1>4. /\ len \in Nat /\ n \in 0 .. len /\ Shape(th[p]) /\ th[p].finished <= seen(n)
      /\ th[p].created = 0 /\ th[p].finished \in Nat
  BY <1>0, <1>1, CrewFacts DEF CountInv, Shape, Seen, SlotType, SlotObj, SlotThread
<1>5. seen(n + 1) = seen(n) + got /\ seen(n) \in Nat /\ got \in Nat /\ seen(len + 1) = Sum(obj.finished)
  <2>1. /\ Before(n) \in SUBSET Ledger /\ Before(n + 1) = Before(n) \cup {S!Counter(n)}
        /\ S!Counter(n) \notin Before(n) /\ Before(len + 1) = Ledger /\ S!Counter(n) \in Ledger
    BY <1>4, RoundFacts, CrewFacts DEF SlotType, SlotObj
  <2>2. /\ IsFiniteSet(Tally(obj.finished, Before(n))) /\ seen(n) \in Nat
        /\ obj.finished \in [Ledger -> Nat]
    BY <2>1, CountsAreFinite DEF CountInv, SlotType, SlotObj
  <2>3. seen(n + 1) = seen(n) + got
    BY <2>1, <2>2, TallyGrows
  <2> QED
    BY <2>1, <2>2, <2>3 DEF Sum
<1>6. Seen(t)
  <2>1. CASE n = len
    <3>1. t.pc = "second" /\ t.next = 0 /\ t.created = 0 /\ t.since = th[p].since
      BY <1>1, <1>4, <2>1
    <3>2. t.finished <= Sum(obj.finished) /\ t.finished \in Nat
      BY <1>1, <1>4, <1>5, <2>1
    <3>3. After(0) = Ledger /\ th[p].since \subseteq obj.tasks /\ obj.tasks \subseteq Slots
      BY <1>4, RoundFacts DEF Shape, SlotType, SlotObj
    <3>4. Cardinality(th[p].since) <= Cardinality(obj.tasks) /\ Cardinality(obj.tasks) \in Nat
          /\ Cardinality(th[p].since) \in Nat /\ Sum(obj.created) = Sum(obj.finished) + Cardinality(obj.tasks)
          /\ Sum(obj.finished) \in Nat /\ Sum(obj.created) \in Nat
      BY <3>3, CountsAreFinite DEF CountInv, LiveIsSum
    <3>5. t.finished + Cardinality(t.since) <= t.created + Sum(obj.created)
      BY <3>1, <3>2, <3>4
    <3> QED
      BY <3>1, <3>3, <3>5 DEF Seen, Answers, Sum
  <2>2. CASE n # len
    <3>1. t.pc = "first" /\ t.next = n + 1 /\ t.finished = th[p].finished + got
      BY <1>1, <2>2
    <3>2. t.finished <= seen(n + 1)
      BY <1>4, <1>5, <3>1
    <3> QED
      BY <3>1, <3>2 DEF Seen, Answers
  <2> QED
    BY <2>1, <2>2
<1>7. Shape(t)
  BY <1>0, <1>1, <1>4 DEF Shape, Answers
<1>8. ASSUME NEW q \in Party
      PROVE  Shape(th[q])' /\ Seen(th[q])'
  <2>1. Shape(th'[q]) /\ Seen(th'[q])
    BY <1>1, <1>6, <1>7 DEF CountInv
  <2> QED
    BY <1>2, <2>1 DEF Shape, Seen, Quiet
<1>9. WillTell(th[p]) => WillTell(t)
  <2> SUFFICES ASSUME WillTell(th[p])
               PROVE  WillTell(t)
    OBVIOUS
  <2>1. th[p].after = "tell" /\ th[p].finished = seen(n)
    BY <1>0, <1>4 DEF WillTell
  <2>2. CASE n = len
    <3>1. t.pc = "second" /\ t.next = 0 /\ t.created = 0 /\ t.after = "tell"
          /\ t.finished = Sum(obj.finished)
      BY <1>1, <1>4, <1>5, <2>1, <2>2
    <3>2. Cardinality(Tally(obj.created, Before(0))) = 0
      <4>1. Before(0) = {}
        BY RoundFacts DEF SlotType, SlotObj
      <4>2. Cardinality({}) = 0
        BY FS_EmptySet
      <4> QED
        BY <4>1, <4>2, TallyOfNone
    <3> QED
      BY <3>1, <3>2 DEF WillTell
  <2>3. CASE n # len
    <3>1. t.pc = "first" /\ t.next = n + 1 /\ t.finished = th[p].finished + got /\ t.after = "tell"
      BY <1>1, <2>1, <2>3
    <3> QED
      BY <1>5, <2>1, <3>1 DEF WillTell
  <2> QED
    BY <2>2, <2>3
<1>10. SomeoneWillTell'
  <2> SUFFICES ASSUME ~obj.told
               PROVE  /\ obj.stopping
                      /\ obj.tasks = {} => \E q \in Party : WillTell(th[q])'
    BY <1>2 DEF SomeoneWillTell, Quiet
  <2>1. ASSUME obj.tasks = {}
        PROVE  \E q \in Party : WillTell(th[q])'
    <3>1. PICK q \in Party : WillTell(th[q])
      BY <2>1 DEF SomeoneWillTell, CountInv
    <3>2. WillTell(th'[q])
      BY <1>1, <1>9, <3>1
    <3> QED
      BY <1>2, <3>2 DEF WillTell, Quiet, Sum
  <2> QED
    BY <2>1 DEF SomeoneWillTell, CountInv
<1>11. AllMinded'
  <2> SUFFICES ASSUME S!Foreign = {}, NEW s \in obj.tasks
               PROVE  \E w \in Crew : Minds(th'[w], s)
    BY <1>2 DEF AllMinded, Quiet
  <2>1. PICK w \in Crew : Minds(th[w], s)
    BY DEF AllMinded, CountInv
  <2>2. Minds(th'[w], s)
    BY <1>0, <1>1, <2>1 DEF Minds, Party
  <2> QED
    BY <2>2
<1> QED
  BY <1>2, <1>3, <1>8, <1>10, <1>11 DEF CountInv

\* And of the created tasks.
LEMMA CountsOneCreated ==
    ASSUME SlotType, CountInv, Quiet, NEW p \in Party, S!Load(p, "second", "created", th[p].after)
    PROVE  CountInv'
<1> DEFINE t == [th[p] EXCEPT !.next = IF @ = Len(S!Workers) THEN 0 ELSE @ + 1,
                              !.pc = IF th[p].next = Len(S!Workers) THEN th[p].after ELSE "second",
                              !.created = @ + obj.created[S!Counter(th[p].next)]]
<1>0. th' = [th EXCEPT ![p] = t] /\ th[p].pc = "second"
  BY DEF S!Load, S!At, SlotType, SlotObj
<1>1. /\ th \in [Party -> SlotThread] /\ th[p] \in SlotThread /\ th'[p] = t
      /\ \A q \in Party : q # p => th'[q] = th[q]
      /\ t.pc = (IF th[p].next = Len(S!Workers) THEN th[p].after ELSE "second")
      /\ t.next = (IF th[p].next = Len(S!Workers) THEN 0 ELSE th[p].next + 1)
      /\ t.created = th[p].created + obj.created[S!Counter(th[p].next)]
      /\ t.slot = th[p].slot /\ t.finished = th[p].finished
      /\ t.after = th[p].after /\ t.since = th[p].since
  BY <1>0 DEF SlotType, SlotObj, SlotThread
<1> HIDE DEF t
<1>2. /\ Crew' = Crew /\ Party' = Party /\ Ledger' = Ledger
      /\ S!Workers' = S!Workers /\ S!Foreign' = S!Foreign
      /\ \A n : Before(n)' = Before(n) /\ After(n)' = After(n)
  BY SameCrew DEF Quiet
<1>3. LiveIsSum'
  BY <1>2 DEF LiveIsSum, CountInv, Quiet, Sum
<1> DEFINE n == th[p].next
           len == Len(S!Workers)
           seen(m) == Cardinality(Tally(obj.created, Before(m)))
           left(m) == Cardinality(Tally(obj.created, After(m)))
           got == obj.created[S!Counter(n)]
<1>4. /\ len \in Nat /\ n \in 0 .. len /\ Shape(th[p])
      /\ th[p].finished + Cardinality(th[p].since) <= th[p].created + left(n)
      /\ th[p].created \in Nat /\ th[p].finished \in Nat /\ Cardinality(th[p].since) \in Nat
  <2>1. /\ Len(S!Workers) \in Nat /\ th[p].created \in Nat /\ th[p].finished \in Nat
        /\ th[p].next \in Nat /\ Cardinality(th[p].since) \in Nat
    BY <1>1, CrewFacts, CountsAreFinite DEF CountInv, SlotType, SlotObj, SlotThread
  <2> QED
    BY <1>0, <2>1 DEF CountInv, Shape, Seen
<1>5. /\ seen(n + 1) = seen(n) + got /\ seen(n) \in Nat /\ got \in Nat
      /\ left(n) = left(n + 1) + got /\ left(n + 1) \in Nat
      /\ seen(len + 1) = Sum(obj.created) /\ left(len + 1) = 0
  <2>1. /\ Before(n) \in SUBSET Ledger /\ Before(n + 1) = Before(n) \cup {S!Counter(n)}
        /\ S!Counter(n) \notin Before(n) /\ Before(len + 1) = Ledger /\ S!Counter(n) \in Ledger
        /\ After(n + 1) \in SUBSET Ledger /\ After(n) = After(n + 1) \cup {S!Counter(n)}
        /\ S!Counter(n) \notin After(n + 1) /\ After(len + 1) = {}
    BY <1>4, RoundFacts, CrewFacts DEF SlotType, SlotObj
  <2>2. /\ IsFiniteSet(Tally(obj.created, Before(n))) /\ seen(n) \in Nat
        /\ IsFiniteSet(Tally(obj.created, After(n + 1))) /\ left(n + 1) \in Nat
        /\ obj.created \in [Ledger -> Nat]
    BY <2>1, CountsAreFinite DEF CountInv, SlotType, SlotObj
  <2>3. seen(n + 1) = seen(n) + got
    BY <2>1, <2>2, TallyGrows
  <2>4. left(n) = left(n + 1) + got
    BY <2>1, <2>2, TallyGrows
  <2>5. left(len + 1) = 0
    BY <2>1, TallyOfNone, FS_EmptySet
  <2> QED
    BY <2>1, <2>2, <2>3, <2>4, <2>5 DEF Sum
<1>6. Seen(t)
  <2>1. CASE n = len
    <3>1. /\ t.pc \in Answers /\ t.created = th[p].created + got /\ t.since = th[p].since
          /\ t.finished = th[p].finished
      BY <1>0, <1>1, <1>4, <2>1 DEF Shape
    <3>2. t.finished + Cardinality(t.since) <= t.created
      BY <1>4, <1>5, <2>1, <3>1
    <3> QED
      BY <3>1, <3>2 DEF Seen, Answers
  <2>2. CASE n # len
    <3>1. /\ t.pc = "second" /\ t.next = n + 1 /\ t.created = th[p].created + got
          /\ t.since = th[p].since /\ t.finished = th[p].finished
      BY <1>1, <2>2
    <3>2. t.finished + Cardinality(t.since) <= t.created + left(n + 1)
      BY SMTT(30), <1>4, <1>5, <3>1
    <3> QED
      BY <3>1, <3>2 DEF Seen, Answers
  <2> QED
    BY <2>1, <2>2
<1>7. Shape(t)
  BY <1>0, <1>1, <1>4 DEF Shape, Answers
<1>8. ASSUME NEW q \in Party
      PROVE  Shape(th[q])' /\ Seen(th[q])'
  <2>1. Shape(th'[q]) /\ Seen(th'[q])
    BY <1>1, <1>6, <1>7 DEF CountInv
  <2> QED
    BY <1>2, <2>1 DEF Shape, Seen, Quiet
<1>9. ASSUME obj.tasks = {}, WillTell(th[p])
      PROVE  WillTell(t)
  <2>1. th[p].after = "tell" /\ th[p].finished = Sum(obj.finished) /\ th[p].created = seen(n)
    BY <1>0, <1>9 DEF WillTell
  <2>2. Sum(obj.created) = Sum(obj.finished)
    <3>1. Cardinality({}) = 0
      BY FS_EmptySet
    <3>2. Sum(obj.finished) \in Nat
      BY CountsAreFinite DEF CountInv
    <3> QED
      BY <1>9, <3>1, <3>2 DEF CountInv, LiveIsSum
  <2>3. CASE n = len
    <3>1. t.pc = "tell" /\ t.finished = Sum(obj.finished) /\ t.created = Sum(obj.created)
      BY <1>1, <1>5, <2>1, <2>3
    <3> QED
      BY <2>2, <3>1 DEF WillTell
  <2>4. CASE n # len
    <3>1. t.pc = "second" /\ t.next = n + 1 /\ t.created = th[p].created + got /\ t.after = "tell"
          /\ t.finished = Sum(obj.finished)
      BY <1>1, <2>1, <2>4
    <3> QED
      BY <1>5, <2>1, <3>1 DEF WillTell
  <2> QED
    BY <2>3, <2>4
<1>10. SomeoneWillTell'
  <2> SUFFICES ASSUME ~obj.told
               PROVE  /\ obj.stopping
                      /\ obj.tasks = {} => \E q \in Party : WillTell(th[q])'
    BY <1>2 DEF SomeoneWillTell, Quiet
  <2>1. ASSUME obj.tasks = {}
        PROVE  \E q \in Party : WillTell(th[q])'
    <3>1. PICK q \in Party : WillTell(th[q])
      BY <2>1 DEF SomeoneWillTell, CountInv
    <3>2. WillTell(th'[q])
      BY <1>1, <1>9, <2>1, <3>1
    <3> QED
      BY <1>2, <3>2 DEF WillTell, Quiet, Sum
  <2> QED
    BY <2>1 DEF SomeoneWillTell, CountInv
<1>11. AllMinded'
  <2> SUFFICES ASSUME S!Foreign = {}, NEW s \in obj.tasks
               PROVE  \E w \in Crew : Minds(th'[w], s)
    BY <1>2 DEF AllMinded, Quiet
  <2>1. PICK w \in Crew : Minds(th[w], s)
    BY DEF AllMinded, CountInv
  <2>2. t.pc # "exited"
    BY <1>0, <1>1, <1>4 DEF Shape, Answers
  <2>3. Minds(th'[w], s)
    BY <1>1, <2>1, <2>2 DEF Minds, Party
  <2> QED
    BY <2>3
<1> QED
  BY <1>2, <1>3, <1>8, <1>10, <1>11 DEF CountInv

\* A task that starts: whoever has created it is there until it has looked.
LEMMA TaskStarts ==
    ASSUME SlotType, CountInv, NEW p \in Party, S!Create(p), th[p].slot \in Slots \ obj.tasks
    PROVE  CountInv'
<1> DEFINE s == th[p].slot
           c == S!Me(p)
           t == th'[p]
<1>1. /\ th \in [Party -> SlotThread] /\ t.pc = "idle" /\ t.slot = 0 /\ t.after = "idle" /\ t.since = {}
      /\ \A q \in Party : q # p => th'[q] = th[q]
  BY DEF SlotType, SlotObj, SlotThread, S!Create, S!Go, S!Resting, S!NoSlot
<1>2. /\ obj'.team = obj.team /\ obj'.tasks = obj.tasks \cup {s} /\ s \notin obj.tasks
      /\ obj'.created = [obj.created EXCEPT ![c] = obj.created[c] + 1]
      /\ obj'.finished = obj.finished /\ obj'.stopping = obj.stopping /\ obj'.told = obj.told
  BY DEF SlotType, SlotObj, S!Create
<1> HIDE DEF t, s
<1>3. /\ Crew' = Crew /\ Party' = Party /\ Ledger' = Ledger
      /\ S!Workers' = S!Workers /\ S!Foreign' = S!Foreign
      /\ \A n : Before(n)' = Before(n) /\ After(n)' = After(n)
  BY <1>2, SameCrew
<1>4. c \in Ledger /\ obj.created \in [Ledger -> Nat]
  BY CrewFacts DEF SlotType, SlotObj
<1> HIDE DEF c
<1>5. LiveIsSum'
  <2>1. /\ IsFiniteSet(Tally(obj'.created, Ledger))
        /\ Cardinality(Tally(obj'.created, Ledger)) = Sum(obj.created) + 1
    BY <1>2, <1>4, TallyCounts DEF CountInv, LiveIsSum, Sum
  <2>2. Cardinality(obj.tasks \cup {s}) = Cardinality(obj.tasks) + 1
    <3>1. IsFiniteSet(obj.tasks)
      BY CountsAreFinite DEF SlotType, SlotObj, CountInv
    <3> QED
      BY <1>2, <3>1, FS_AddElement
  <2>3. Sum(obj.created) \in Nat /\ Sum(obj.finished) \in Nat /\ Cardinality(obj.tasks) \in Nat
    BY CountsAreFinite DEF SlotType, SlotObj, CountInv
  <2>4. Sum(obj.created) + 1 = Sum(obj.finished) + (Cardinality(obj.tasks) + 1)
    BY <2>3 DEF CountInv, LiveIsSum
  <2> QED
    BY <1>2, <1>3, <2>1, <2>2, <2>4 DEF LiveIsSum, CountInv, Sum
<1>6. ASSUME NEW q \in Party
      PROVE  Shape(th[q])' /\ Seen(th[q])'
  <2>1. CASE q = p
    BY <1>1, <1>2, <1>3, <2>1 DEF Shape, Seen, Answers, t
  <2>2. CASE q # p
    <3>1. Shape(th[q])'
      BY <1>1, <1>2, <1>3, <2>2 DEF Shape, CountInv
    <3>2. CASE th[q].pc = "second"
      <4> DEFINE n == th[q].next
                 old == Cardinality(Tally(obj.created, After(n)))
                 new == Cardinality(Tally(obj'.created, After(n)))
      <4>1. n \in 0 .. Len(S!Workers) /\ th[q].finished + Cardinality(th[q].since) <= th[q].created + old
        BY <1>1, <3>2, CrewFacts DEF CountInv, Shape, Seen, SlotType, SlotObj, SlotThread
      <4>2. After(n) \in SUBSET Ledger
        BY <4>1, RoundFacts DEF SlotType, SlotObj
      <4>3. old \in Nat /\ IsFiniteSet(Tally(obj.created, After(n)))
        BY <4>2, CountsAreFinite DEF CountInv
      <4>4. new = old \/ new = old + 1
        BY <1>2, <1>4, <4>2, <4>3, TallyCounts
      <4>5. th[q].created \in Nat /\ th[q].finished \in Nat /\ Cardinality(th[q].since) \in Nat
        BY <1>1, CountsAreFinite DEF CountInv, SlotThread
      <4>6. th[q].finished + Cardinality(th[q].since) <= th[q].created + new
        BY <4>1, <4>3, <4>4, <4>5
      <4> QED
        BY <1>1, <1>3, <2>2, <3>1, <3>2, <4>6 DEF Seen, Answers
    <3>3. CASE th[q].pc # "second"
      BY <1>1, <1>2, <1>3, <2>2, <3>1, <3>3 DEF Seen, CountInv
    <3> QED
      BY <3>2, <3>3
  <2> QED
    BY <2>1, <2>2
<1>7. SomeoneWillTell'
  BY <1>2 DEF SomeoneWillTell, CountInv
<1>8. AllMinded'
  <2> SUFFICES ASSUME S!Foreign = {}, NEW r \in obj.tasks \cup {s}
               PROVE  \E w \in Crew : Minds(th'[w], r)
    BY <1>2, <1>3 DEF AllMinded
  <2>1. Minds(th'[p], r) /\ p \in Crew
    BY <1>1 DEF Minds, Party, t
  <2> QED
    BY <2>1
<1> QED
  BY <1>3, <1>5, <1>6, <1>7, <1>8 DEF CountInv

\* A task that ends, perhaps as the last one after stop(): its worker will tell.
LEMMA TaskEnds ==
    ASSUME SlotType, CountInv, NEW p \in Party, NEW s \in Slots, S!Finish(p, s)
    PROVE  CountInv'
<1> DEFINE c == S!Me(p)
<1>1. /\ th \in [Party -> SlotThread] /\ p \in Crew /\ s \in obj.tasks /\ th[p].pc = "idle"
      /\ th' = [q \in Party |-> IF q = p THEN [th[q] EXCEPT !.pc = "release", !.slot = s]
                                ELSE [th[q] EXCEPT !.since = @ \ {s}]]
  BY CrewFacts DEF SlotType, SlotObj, SlotThread, S!Finish, S!At
<1>2. /\ th'[p].pc = "release" /\ th'[p].slot = s /\ th'[p].after = th[p].after
      /\ th'[p].since = th[p].since
      /\ \A q \in Party : q # p =>
            /\ th'[q].pc = th[q].pc /\ th'[q].slot = th[q].slot /\ th'[q].after = th[q].after
            /\ th'[q].next = th[q].next /\ th'[q].created = th[q].created
            /\ th'[q].finished = th[q].finished /\ th'[q].since = th[q].since \ {s}
  BY <1>1 DEF SlotThread
<1>3. /\ obj'.team = obj.team /\ obj'.tasks = obj.tasks \ {s}
      /\ obj'.finished = [obj.finished EXCEPT ![c] = obj.finished[c] + 1]
      /\ obj'.created = obj.created /\ obj'.stopping = obj.stopping
      /\ obj'.told = (obj.told /\ ~obj.stopping)
  BY DEF SlotType, SlotObj, S!Finish
<1>4. /\ Crew' = Crew /\ Party' = Party /\ Ledger' = Ledger
      /\ S!Workers' = S!Workers /\ S!Foreign' = S!Foreign
      /\ \A n : Before(n)' = Before(n) /\ After(n)' = After(n)
  BY <1>3, SameCrew
<1>5. c \in Ledger /\ obj.finished \in [Ledger -> Nat]
  BY CrewFacts DEF SlotType, SlotObj
<1> HIDE DEF c
<1>6. LiveIsSum'
  <2>1. /\ IsFiniteSet(Tally(obj'.finished, Ledger))
        /\ Cardinality(Tally(obj'.finished, Ledger)) = Sum(obj.finished) + 1
    BY <1>3, <1>5, TallyCounts DEF CountInv, LiveIsSum, Sum
  <2>2. Cardinality(obj.tasks \ {s}) = Cardinality(obj.tasks) - 1
    <3>1. IsFiniteSet(obj.tasks)
      BY CountsAreFinite DEF SlotType, SlotObj, CountInv
    <3> QED
      BY <1>1, <3>1, FS_RemoveElement
  <2>3. Sum(obj.created) \in Nat /\ Sum(obj.finished) \in Nat /\ Cardinality(obj.tasks) \in Nat
    BY CountsAreFinite DEF SlotType, SlotObj, CountInv
  <2>4. Sum(obj.created) = (Sum(obj.finished) + 1) + (Cardinality(obj.tasks) - 1)
    BY <2>3 DEF CountInv, LiveIsSum
  <2> QED
    BY <1>3, <1>4, <2>1, <2>2, <2>4 DEF LiveIsSum, CountInv, Sum
<1>10. \A q \in Party :
         Seen(th[q]) /\ (th[q].pc \in {"first", "second"} => th[q].next \in 0 .. Len(S!Workers))
  <2>1. th \in [Party -> SlotThread] /\ Len(S!Workers) \in Nat
    BY CrewFacts DEF SlotType, SlotObj, SlotThread
  <2> QED
    BY <2>1 DEF CountInv, Shape, SlotThread
<1>7. ASSUME NEW q \in Party
      PROVE  Shape(th[q])' /\ Seen(th[q])'
  <2>1. CASE q = p
    <3>1. th[p].after = "idle" /\ th[p].since = {} /\ s # 0
      BY <1>1, SlotsAreNumbered DEF CountInv, Shape, Answers
    <3> QED
      BY <1>2, <1>3, <1>4, <2>1, <3>1 DEF Shape, Seen, Answers
  <2>2. CASE q # p
    <3>1. Shape(th[q])'
      BY <1>2, <1>3, <1>4, <2>2 DEF Shape, CountInv
    <3>2. /\ th[q].created \in Nat /\ th[q].finished \in Nat
          /\ Cardinality(th[q].since) \in Nat /\ Cardinality(th[q].since \ {s}) \in Nat
          /\ Cardinality(th[q].since \ {s}) <= Cardinality(th[q].since)
      <4>1. /\ th[q].since \in SUBSET Slots /\ th[q].since \ {s} \in SUBSET th[q].since
            /\ th[q].since \ {s} \in SUBSET Slots /\ th[q].created \in Nat /\ th[q].finished \in Nat
        BY <1>1 DEF SlotThread
      <4> QED
        BY <4>1, CountsAreFinite DEF CountInv
    <3>3. CASE th[q].pc = "first"
      <4> DEFINE n == th[q].next
                 old == Cardinality(Tally(obj.finished, Before(n)))
                 new == Cardinality(Tally(obj'.finished, Before(n)))
      <4>1. n \in 0 .. Len(S!Workers) /\ th[q].finished <= old
        BY <1>10, <3>3 DEF Seen
      <4>2. Before(n) \in SUBSET Ledger
        BY <4>1, RoundFacts DEF SlotType, SlotObj
      <4>3. old \in Nat /\ IsFiniteSet(Tally(obj.finished, Before(n)))
        BY <4>2, CountsAreFinite DEF CountInv
      <4>4. new = old \/ new = old + 1
        BY <1>3, <1>5, <4>2, <4>3, TallyCounts
      <4>5. th[q].finished <= new
        BY <3>2, <4>1, <4>3, <4>4
      <4> QED
        BY <1>2, <1>4, <2>2, <3>1, <3>3, <4>5 DEF Seen, Answers
    <3>4. CASE th[q].pc = "second"
      <4> DEFINE n == th[q].next
                 all == Cardinality(Tally(obj.created, After(n)))
      <4>1. /\ n \in 0 .. Len(S!Workers)
            /\ th[q].finished + Cardinality(th[q].since) <= th[q].created + all
        BY <1>10, <3>4 DEF Seen
      <4>2. all \in Nat
        BY <4>1, RoundFacts, CountsAreFinite DEF CountInv, SlotType, SlotObj
      <4>3. th[q].finished + Cardinality(th[q].since \ {s}) <= th[q].created + all
        BY <3>2, <4>1, <4>2
      <4> QED
        BY <1>2, <1>3, <1>4, <2>2, <3>1, <3>4, <4>3 DEF Seen, Answers
    <3>5. CASE th[q].pc \in Answers
      <4>1. th[q].finished + Cardinality(th[q].since \ {s}) <= th[q].created
        BY <3>2, <3>5 DEF CountInv, Seen
      <4> QED
        BY <1>2, <1>4, <2>2, <3>1, <3>5, <4>1 DEF Seen, Answers
    <3> QED
      BY <1>2, <2>2, <3>1, <3>3, <3>4, <3>5 DEF Seen
  <2> QED
    BY <2>1, <2>2
<1>8. SomeoneWillTell'
  <2>1. ~obj'.told => obj'.stopping
    BY <1>3 DEF SomeoneWillTell, CountInv
  <2>2. WillTell(th[p])'
    BY <1>2 DEF WillTell
  <2> QED
    BY <1>4, <2>1, <2>2 DEF SomeoneWillTell
<1>9. AllMinded'
  <2> SUFFICES ASSUME S!Foreign = {}, NEW r \in obj.tasks \ {s}
               PROVE  \E w \in Crew : Minds(th'[w], r)
    BY <1>3, <1>4 DEF AllMinded
  <2>1. PICK w \in Crew : Minds(th[w], r)
    BY DEF AllMinded, CountInv
  <2>2. CASE w = p
    BY <1>2, <2>1, <2>2 DEF Minds
  <2>3. CASE w # p
    BY <1>2, <2>1, <2>3 DEF Minds, Party
  <2> QED
    BY <2>2, <2>3
<1> QED
  BY <1>4, <1>6, <1>7, <1>8, <1>9 DEF CountInv

LEMMA StopStarts ==
    ASSUME SlotType, CountInv, S!RequestStop
    PROVE  CountInv'
<1>1. /\ obj'.team = obj.team /\ obj'.tasks = obj.tasks /\ obj'.created = obj.created
      /\ obj'.finished = obj.finished /\ obj'.stopping /\ obj'.told = obj.told /\ th' = th
  BY DEF SlotType, SlotObj, S!RequestStop
<1>2. /\ Crew' = Crew /\ Party' = Party /\ Ledger' = Ledger
      /\ S!Workers' = S!Workers /\ S!Foreign' = S!Foreign
      /\ \A n : Before(n)' = Before(n) /\ After(n)' = After(n)
  BY <1>1, SameCrew
<1>3. LiveIsSum'
  BY <1>1, <1>2 DEF LiveIsSum, CountInv, Sum
<1>4. ASSUME NEW q \in Party
      PROVE  Shape(th[q])' /\ Seen(th[q])'
  BY <1>1, <1>2 DEF Shape, Seen, CountInv
<1>5. SomeoneWillTell'
  <2>1. ASSUME NEW q \in Party, WillTell(th[q])
        PROVE  WillTell(th[q])'
    BY <1>1, <1>2, <2>1 DEF WillTell, Sum
  <2> QED
    BY <1>1, <1>2, <2>1 DEF SomeoneWillTell, CountInv
<1>6. AllMinded'
  BY <1>1, <1>2 DEF AllMinded, CountInv
<1> QED
  BY <1>2, <1>3, <1>4, <1>5, <1>6 DEF CountInv

-----------------------------------------------------------------------------
\* Slots that move leave the places apart.
LEMMA SlotsMove ==
    ASSUME NEW F \in SUBSET Slots, NEW C \in [Crew -> SUBSET Slots], NEW T \in SUBSET Slots,
           NEW H \in [Party -> Slots \cup {0}], Apart(F, C, T, H),
           NEW w \in Crew, NEW p \in Party
    PROVE  /\ \A A \in SUBSET F : Apart(F \ A, [C EXCEPT ![w] = C[w] \cup A], T, H)
           /\ \A A \in SUBSET C[w] : Apart(F \cup A, [C EXCEPT ![w] = C[w] \ A], T, H)
           /\ H[p] = 0 => \A s \in C[w] : Apart(F, [C EXCEPT ![w] = C[w] \ {s}], T, [H EXCEPT ![p] = s])
           /\ H[p] # 0 => Apart(F, [C EXCEPT ![w] = C[w] \cup {H[p]}], T, [H EXCEPT ![p] = 0])
<1> USE SlotsAreNumbered
<1>1. ASSUME NEW A \in SUBSET F
      PROVE  Apart(F \ A, [C EXCEPT ![w] = C[w] \cup A], T, H)
  BY DEF Apart
<1>2. ASSUME NEW A \in SUBSET C[w]
      PROVE  Apart(F \cup A, [C EXCEPT ![w] = C[w] \ A], T, H)
  BY DEF Apart
<1>3. ASSUME H[p] = 0, NEW s \in C[w]
      PROVE  Apart(F, [C EXCEPT ![w] = C[w] \ {s}], T, [H EXCEPT ![p] = s])
  BY <1>3 DEF Apart
<1>4. ASSUME H[p] # 0
      PROVE  Apart(F, [C EXCEPT ![w] = C[w] \cup {H[p]}], T, [H EXCEPT ![p] = 0])
  BY <1>4 DEF Apart
<1> QED
  BY <1>1, <1>2, <1>3, <1>4

LEMMA HandsMove ==
    ASSUME NEW F \in SUBSET Slots, NEW C \in [Crew -> SUBSET Slots], NEW T \in SUBSET Slots,
           NEW H \in [Party -> Slots \cup {0}], Apart(F, C, T, H), NEW p \in Party
    PROVE  /\ H[p] = 0 => \A s \in F : Apart(F \ {s}, C, T, [H EXCEPT ![p] = s])
           /\ H[p] = 0 => \A s \in T : Apart(F, C, T \ {s}, [H EXCEPT ![p] = s])
           /\ H[p] # 0 => Apart(F \cup {H[p]}, C, T, [H EXCEPT ![p] = 0])
           /\ H[p] # 0 => Apart(F, C, T \cup {H[p]}, [H EXCEPT ![p] = 0])
<1> USE SlotsAreNumbered
<1>1. ASSUME H[p] = 0, NEW s \in F
      PROVE  Apart(F \ {s}, C, T, [H EXCEPT ![p] = s])
  BY <1>1 DEF Apart
<1>2. ASSUME H[p] = 0, NEW s \in T
      PROVE  Apart(F, C, T \ {s}, [H EXCEPT ![p] = s])
  BY <1>2 DEF Apart
<1>3. ASSUME H[p] # 0
      PROVE  Apart(F \cup {H[p]}, C, T, [H EXCEPT ![p] = 0])
  BY <1>3 DEF Apart
<1>4. ASSUME H[p] # 0
      PROVE  Apart(F, C, T \cup {H[p]}, [H EXCEPT ![p] = 0])
  BY <1>4 DEF Apart
<1> QED
  BY <1>1, <1>2, <1>3, <1>4

LEMMA NothingMoves ==
    ASSUME SlotPlaces, obj'.team = obj.team, obj'.freeSlots = obj.freeSlots,
           obj'.cache = obj.cache, obj'.tasks = obj.tasks,
           \A q \in Party : th'[q].slot = th[q].slot
    PROVE  SlotPlaces'
<1>1. Crew' = Crew /\ Party' = Party
  BY SameCrew
<1>2. [q \in Party |-> th'[q].slot] = [q \in Party |-> th[q].slot]
  OBVIOUS
<1> QED
  BY <1>1, <1>2 DEF SlotPlaces, Apart

LEMMA RestingAt ==
    /\ \A pc \in SlotPc :
          LET t == [S!Resting EXCEPT !.pc = pc]
          IN  /\ t \in SlotThread /\ t.pc = pc /\ t.slot = 0 /\ t.after = "idle" /\ t.since = {}
    /\ \A s \in Slots :
          LET t == [S!Resting EXCEPT !.pc = "acquired", !.slot = s]
          IN  /\ t \in SlotThread /\ t.pc = "acquired" /\ t.slot = s /\ t.after = "idle"
              /\ t.since = {}
<1>1. ASSUME NEW pc \in SlotPc
      PROVE  LET t == [S!Resting EXCEPT !.pc = pc]
             IN  t \in SlotThread /\ t.pc = pc /\ t.slot = 0 /\ t.after = "idle" /\ t.since = {}
  BY DEF S!Resting, S!NoSlot, SlotThread, SlotPc
<1>2. ASSUME NEW s \in Slots
      PROVE  LET t == [S!Resting EXCEPT !.pc = "acquired", !.slot = s]
             IN  /\ t \in SlotThread /\ t.pc = "acquired" /\ t.slot = s /\ t.after = "idle"
                 /\ t.since = {}
  BY DEF S!Resting, S!NoSlot, SlotThread, SlotPc
<1> QED
  BY <1>1, <1>2

\* A thread goes on, with no slot in its hand before and after.
LEMMA GoesOn ==
    ASSUME SlotInv, NEW p \in Party, NEW pc \in {"idle", "try", "exited"}, S!Go(p, pc),
           th[p].slot = 0, obj'.told \/ ~WillTell(th[p]),
           pc = "exited" => th[p].pc = "exit" /\ th[p].created = th[p].finished,
           \/ obj' = obj
           \/ obj' = [obj EXCEPT !.spawns = @ + 1]
           \/ obj' = [obj EXCEPT !.told = TRUE]
    PROVE  SlotInv'
<1> DEFINE t == [S!Resting EXCEPT !.pc = pc]
<1>1. /\ t \in SlotThread /\ t.pc = pc /\ t.slot = 0 /\ t.after = "idle" /\ t.since = {}
      /\ th' = [th EXCEPT ![p] = t]
  <2>1. pc \in SlotPc
    BY DEF SlotPc
  <2> QED
    BY <2>1, RestingAt DEF S!Go
<1> HIDE DEF t
<1>2. SlotType
  BY DEF SlotInv
<1>3. /\ obj'.team = obj.team /\ obj'.tasks = obj.tasks /\ obj'.created = obj.created
      /\ obj'.finished = obj.finished /\ obj'.stopping = obj.stopping
      /\ (obj'.told = obj.told \/ obj'.told) /\ obj'.freeSlots = obj.freeSlots
      /\ obj'.cache = obj.cache
  BY <1>2 DEF SlotType, SlotObj
<1>4. Crew' = Crew /\ Party' = Party /\ Ledger' = Ledger
  BY <1>3, SameCrew
<1>5. SlotType'
  <2>1. obj' \in SlotObj
    <3>1. CASE obj' = [obj EXCEPT !.spawns = @ + 1]
      <4>1. PICK n \in Nat : n = obj.spawns + 1
        BY <1>2 DEF SlotType, SlotObj
      <4>2. obj' = [obj EXCEPT !.spawns = n]
        BY <3>1, <4>1
      <4> QED
        BY <1>2, <4>2 DEF SlotType, SlotObj
    <3>2. CASE obj' = [obj EXCEPT !.told = TRUE]
      BY <1>2, <3>2 DEF SlotType, SlotObj
    <3> QED
      BY <1>2, <3>1, <3>2 DEF SlotType, SlotObj
  <2>2. th' \in [Party -> SlotThread]
    BY <1>1, <1>2 DEF SlotType, SlotObj
  <2> QED
    BY <1>4, <2>1, <2>2 DEF SlotType, SlotObj
<1>6. SlotPlaces'
  <2>1. \A q \in Party : th'[q].slot = th[q].slot
    BY <1>1, <1>2 DEF SlotType, SlotObj
  <2> QED
    BY <1>3, <2>1, NothingMoves DEF SlotInv
<1>7. CountInv'
  <2>1. Quiet
    BY <1>3 DEF Quiet
  <2>2. /\ t.pc \in {"acquired", "release"} <=> t.slot # 0
        /\ t.pc \notin {"first", "second"} \cup Answers /\ t.pc # "peers"
    BY <1>1 DEF Answers
  <2> QED
    BY <1>1, <1>2, <2>1, <2>2, Errand DEF SlotInv
<1> QED
  BY <1>5, <1>6, <1>7 DEF SlotInv

\* So does one that looks for a slot, or counts.
LEMMA LooksOn ==
    ASSUME SlotInv, NEW p \in Party, UNCHANGED obj, NEW t \in SlotThread,
           th' = [th EXCEPT ![p] = t], t.slot = th[p].slot, SlotType /\ SlotPlaces => CountInv'
    PROVE  SlotInv'
<1>1. Crew' = Crew /\ Party' = Party /\ Ledger' = Ledger
  BY SameCrew
<1>2. SlotType'
  BY <1>1 DEF SlotInv, SlotType, SlotObj
<1>3. \A q \in Party : th'[q].slot = th[q].slot
  BY DEF SlotInv, SlotType, SlotObj
<1>4. SlotPlaces'
  BY <1>3, NothingMoves DEF SlotInv
<1> QED
  BY <1>2, <1>4 DEF SlotInv

LEMMA SlotFacts ==
    ASSUME SlotInv, NEW p \in Party
    PROVE  /\ SlotType /\ SlotPlaces /\ CountInv /\ th[p] \in SlotThread /\ Shape(th[p])
           /\ th[p].pc \notin {"acquired", "release"} => th[p].slot = 0
           /\ th[p].pc \notin {"release", "lastOne", "first", "second", "tell"} => ~WillTell(th[p])
           /\ obj' = obj => Quiet
  BY DEF SlotInv, SlotType, SlotObj, CountInv, Shape, WillTell, Quiet

LEMMA GoersGo ==
    ASSUME SlotInv, NEW p \in Party,
           \/ S!Spawn(p) \/ S!Decide(p) \/ S!Tell(p) \/ S!Exit(p)
           \/ S!LookStopping(p) /\ ~obj.stopping
    PROVE  SlotInv'
<1>0. /\ SlotType /\ SlotPlaces /\ CountInv /\ th[p] \in SlotThread /\ Shape(th[p])
      /\ th[p].pc \notin {"acquired", "release"} => th[p].slot = 0
      /\ th[p].pc \notin {"release", "lastOne", "first", "second", "tell"} => ~WillTell(th[p])
  BY SlotFacts
<1>1. CASE S!Spawn(p)
  <2>1. th[p].pc = "idle" /\ S!Go(p, "try") /\ obj' = [obj EXCEPT !.spawns = @ + 1]
    BY <1>1 DEF S!Spawn, S!At
  <2> QED
    BY <1>0, <2>1, GoesOn
<1>2. CASE S!Decide(p)
  <2>1. th[p].pc = "decide" /\ (S!Go(p, "idle") \/ S!Go(p, "try")) /\ obj' = obj
    BY <1>2 DEF S!Decide, S!At
  <2> QED
    BY <1>0, <2>1, GoesOn
<1>3. CASE S!Exit(p)
  <2>1. /\ th[p].pc = "exit" /\ obj' = obj
        /\ S!Go(p, "idle") \/ (S!Go(p, "exited") /\ th[p].created = th[p].finished)
    <3>1. CASE th[p].created = th[p].finished
      BY <1>3, <3>1 DEF S!Exit, S!At
    <3>2. CASE th[p].created # th[p].finished
      BY <1>3, <3>2 DEF S!Exit, S!At
    <3> QED
      BY <3>1, <3>2
  <2> QED
    BY <1>0, <2>1, GoesOn
<1>4. CASE S!LookStopping(p) /\ ~obj.stopping
  <2>1. th[p].pc = "lastOne" /\ S!Go(p, "idle") /\ obj' = obj
    BY <1>4 DEF S!LookStopping, S!At
  <2>2. obj'.told
    BY <1>0, <1>4, <2>1 DEF CountInv, SomeoneWillTell
  <2> QED
    BY <1>0, <2>1, <2>2, GoesOn
<1>5. CASE S!Tell(p)
  <2>1. /\ th[p].pc = "tell" /\ S!Go(p, "idle")
        /\ obj' = [obj EXCEPT !.told = obj.told \/ th[p].created = th[p].finished]
    BY <1>5 DEF S!Tell, S!At
  <2>2. CASE th[p].created = th[p].finished
    <3>1. (obj.told \/ th[p].created = th[p].finished) = TRUE
      BY <2>2
    <3>2. obj' = [obj EXCEPT !.told = TRUE]
      BY <2>1, <3>1
    <3>3. obj'.told
      BY <1>0, <3>2 DEF SlotType, SlotObj
    <3> QED
      BY <1>0, <2>1, <3>2, <3>3, GoesOn
  <2>3. CASE th[p].created # th[p].finished
    <3>1. (obj.told \/ th[p].created = th[p].finished) = obj.told
      BY <1>0, <2>3 DEF SlotType, SlotObj
    <3>2. obj' = obj
      BY <1>0, <2>1, <3>1 DEF SlotType, SlotObj
    <3>3. ~WillTell(th[p])
      BY <1>0, <2>1, <2>3 DEF WillTell
    <3> QED
      BY <1>0, <2>1, <3>2, <3>3, GoesOn
  <2> QED
    BY <2>2, <2>3
<1> QED
  BY <1>1, <1>2, <1>3, <1>4, <1>5

LEMMA LookersLook ==
    ASSUME SlotInv, NEW p \in Party, UNCHANGED obj,
           \/ S!At(p, "try") /\ S!AskPeers(p)
           \/ S!At(p, "peers") /\ th' = [th EXCEPT ![p].next = @ + 1]
    PROVE  SlotInv'
<1>0. /\ SlotType /\ SlotPlaces /\ CountInv /\ th[p] \in SlotThread /\ Shape(th[p]) /\ Quiet
      /\ th[p].pc \notin {"acquired", "release"} => th[p].slot = 0
      /\ th[p].pc \notin {"release", "lastOne", "first", "second", "tell"} => ~WillTell(th[p])
  BY SlotFacts
<1>1. PICK n \in Nat \ {0} : th' = [th EXCEPT ![p] = [th[p] EXCEPT !.pc = "peers", !.next = n]]
  <2>1. CASE S!At(p, "try") /\ S!AskPeers(p)
    <3>1. th' = [th EXCEPT ![p] = [th[p] EXCEPT !.pc = "peers", !.next = 1]]
      BY <1>0, <2>1 DEF S!AskPeers, SlotType, SlotObj
    <3>2. 1 \in Nat \ {0}
      OBVIOUS
    <3> QED
      BY <3>1, <3>2, Zenon
  <2>2. CASE S!At(p, "peers") /\ th' = [th EXCEPT ![p].next = @ + 1]
    <3>1. th[p].next + 1 \in Nat \ {0} /\ th[p].pc = "peers"
      BY <1>0, <2>2 DEF S!At, SlotThread
    <3>2. [th[p] EXCEPT !.pc = "peers", !.next = th[p].next + 1] = [th[p] EXCEPT !.next = th[p].next + 1]
      BY <1>0, <3>1 DEF SlotThread
    <3> QED
      BY <2>2, <3>1, <3>2
  <2> QED
    BY <2>1, <2>2
<1> DEFINE t == [th[p] EXCEPT !.pc = "peers", !.next = n]
<1>2. /\ t \in SlotThread /\ t.pc = "peers" /\ t.next = n /\ t.slot = th[p].slot
      /\ t.after = th[p].after /\ t.since = th[p].since /\ th[p].pc \in {"try", "peers"}
  BY <1>0, <1>1 DEF SlotThread, SlotPc, S!At
<1>3. th' = [th EXCEPT ![p] = t]
  BY <1>1
<1> HIDE DEF t
<1>4. t.slot = 0 /\ t.after = "idle" /\ t.since = {} /\ ~WillTell(th[p])
  BY <1>0, <1>2 DEF Shape, Answers
<1>5. CountInv'
  BY <1>0, <1>2, <1>3, <1>4, Errand DEF Answers
<1> QED
  BY <1>2, <1>3, <1>5, LooksOn

LEMMA CountersCount ==
    ASSUME SlotInv, NEW p \in Party, UNCHANGED obj,
           \/ th[p].pc = "peers" /\ S!Scan(p, "decide")
           \/ th[p].pc = "lastOne" /\ S!Scan(p, "tell")
           \/ th[p].pc = "idle" /\ S!Scan(p, "exit")
           \/ S!Load(p, "first", "finished", "second")
           \/ S!Load(p, "second", "created", th[p].after)
    PROVE  SlotInv'
<1>0. /\ SlotType /\ SlotPlaces /\ CountInv /\ th[p] \in SlotThread /\ Shape(th[p]) /\ Quiet
      /\ th[p].pc \notin {"acquired", "release"} => th[p].slot = 0
  BY SlotFacts
<1>1. ASSUME NEW answer \in Answers, S!Scan(p, answer), th[p].pc \in {"idle", "peers", "lastOne"},
             th[p].pc = "lastOne" => answer = "tell"
      PROVE  SlotInv'
  <2> DEFINE t == [S!Resting EXCEPT !.pc = "first", !.after = answer, !.since = obj.tasks]
  <2>1. th' = [th EXCEPT ![p] = t] /\ t \in SlotThread /\ t.slot = 0
    BY <1>0, <1>1 DEF S!Scan, S!Resting, S!NoSlot, SlotThread, SlotPc, SlotType, SlotObj
  <2>2. CountInv'
    BY <1>0, <1>1, CountStarts
  <2> HIDE DEF t
  <2> QED
    BY <1>0, <1>1, <2>1, <2>2, LooksOn
<1>2. CASE S!Load(p, "first", "finished", "second")
  <2> DEFINE t == [th[p] EXCEPT !.next = IF @ = Len(S!Workers) THEN 0 ELSE @ + 1,
                                !.pc = IF th[p].next = Len(S!Workers) THEN "second" ELSE "first",
                                !.finished = @ + obj.finished[S!Counter(th[p].next)]]
  <2>1. th' = [th EXCEPT ![p] = t] /\ th[p].pc = "first"
    BY <1>2, <1>0 DEF S!Load, S!At, SlotType, SlotObj
  <2>2. t \in SlotThread /\ t.slot = th[p].slot
    <3>1. th[p].next \in 0 .. Len(S!Workers)
      BY <1>0, <2>1, CrewFacts DEF Shape, SlotThread, SlotType, SlotObj
    <3>2. S!Counter(th[p].next) \in Ledger
      BY <1>0, <3>1, CrewFacts DEF SlotType, SlotObj
    <3>3. PICK n \in Nat, f \in Nat, pc \in SlotPc : t = [th[p] EXCEPT !.next = n, !.pc = pc, !.finished = f]
      <4>1. (IF th[p].next = Len(S!Workers) THEN 0 ELSE th[p].next + 1) \in Nat
        BY <1>0 DEF SlotThread
      <4>2. th[p].finished + obj.finished[S!Counter(th[p].next)] \in Nat
        BY <1>0, <3>2 DEF SlotThread, SlotType, SlotObj
      <4>3. (IF th[p].next = Len(S!Workers) THEN "second" ELSE "first") \in SlotPc
        BY DEF SlotPc
      <4> QED
        BY <4>1, <4>2, <4>3
    <3> HIDE DEF t
    <3> QED
      BY <1>0, <3>3 DEF SlotThread
  <2>3. CountInv'
    BY <1>0, <1>2, CountsOneFinished
  <2> HIDE DEF t
  <2> QED
    BY <2>1, <2>2, <2>3, LooksOn
<1>3. CASE S!Load(p, "second", "created", th[p].after)
  <2> DEFINE t == [th[p] EXCEPT !.next = IF @ = Len(S!Workers) THEN 0 ELSE @ + 1,
                                !.pc = IF th[p].next = Len(S!Workers) THEN th[p].after ELSE "second",
                                !.created = @ + obj.created[S!Counter(th[p].next)]]
  <2>1. th' = [th EXCEPT ![p] = t] /\ th[p].pc = "second"
    BY <1>3, <1>0 DEF S!Load, S!At, SlotType, SlotObj
  <2>2. t \in SlotThread /\ t.slot = th[p].slot
    <3>1. th[p].next \in 0 .. Len(S!Workers) /\ th[p].after \in Answers
      BY <1>0, <2>1, CrewFacts DEF Shape, SlotThread, SlotType, SlotObj
    <3>2. S!Counter(th[p].next) \in Ledger
      BY <1>0, <3>1, CrewFacts DEF SlotType, SlotObj
    <3>3. PICK n \in Nat, f \in Nat, pc \in SlotPc : t = [th[p] EXCEPT !.next = n, !.pc = pc, !.created = f]
      <4>1. (IF th[p].next = Len(S!Workers) THEN 0 ELSE th[p].next + 1) \in Nat
        BY <1>0 DEF SlotThread
      <4>2. th[p].created + obj.created[S!Counter(th[p].next)] \in Nat
        BY <1>0, <3>2 DEF SlotThread, SlotType, SlotObj
      <4>3. (IF th[p].next = Len(S!Workers) THEN th[p].after ELSE "second") \in SlotPc
        BY <3>1 DEF SlotPc
      <4> QED
        BY <4>1, <4>2, <4>3
    <3> HIDE DEF t
    <3> QED
      BY <1>0, <3>3 DEF SlotThread
  <2>3. CountInv'
    BY <1>0, <1>3, CountsOneCreated
  <2> HIDE DEF t
  <2> QED
    BY <2>1, <2>2, <2>3, LooksOn
<1> QED
  BY <1>1, <1>2, <1>3 DEF Answers

LEMMA StopIsAsked ==
    ASSUME SlotInv, S!RequestStop
    PROVE  SlotInv'
<1>1. /\ obj' = [obj EXCEPT !.stopping = TRUE] /\ th' = th
  BY DEF S!RequestStop
<1>2. /\ obj'.team = obj.team /\ obj'.freeSlots = obj.freeSlots /\ obj'.cache = obj.cache
      /\ obj'.tasks = obj.tasks
  BY <1>1 DEF SlotInv, SlotType, SlotObj
<1>3. Crew' = Crew /\ Party' = Party /\ Ledger' = Ledger
  BY <1>2, SameCrew
<1>4. SlotType'
  BY <1>1, <1>3 DEF SlotInv, SlotType, SlotObj
<1>5. SlotPlaces'
  BY <1>1, <1>2, NothingMoves DEF SlotInv
<1>6. CountInv'
  BY StopStarts DEF SlotInv
<1> QED
  BY <1>4, <1>5, <1>6 DEF SlotInv

Hand == [q \in Party |-> th[q].slot]
Caches == [w \in Crew |-> Elems(obj.cache[w])]

\* A thread takes a slot or hands one back.
LEMMA HandsChange ==
    ASSUME SlotInv, Quiet, obj' \in SlotObj, NEW p \in Party, NEW t \in SlotThread,
           th' = [th EXCEPT ![p] = t], t.after = "idle", t.since = {},
           t.pc \in {"acquired", "release"} <=> t.slot # 0,
           t.pc \in {"idle", "acquired", "lastOne"}, ~WillTell(th[p]) \/ t.pc = "lastOne",
           List(Slots, obj'.freeSlots), \A w \in Crew : List(Slots, obj'.cache[w]),
           NEW C, \A w \in Crew : C[w] = Elems(obj'.cache[w]), C = [w \in Crew |-> C[w]],
           Apart(Elems(obj'.freeSlots), C, obj.tasks, [Hand EXCEPT ![p] = t.slot])
    PROVE  SlotInv'
<1>1. SlotType /\ CountInv /\ obj'.team = obj.team /\ obj'.tasks = obj.tasks
  BY DEF SlotInv, Quiet
<1>2. Crew' = Crew /\ Party' = Party /\ Ledger' = Ledger
  BY <1>1, SameCrew
<1>3. SlotType'
  BY <1>1, <1>2 DEF SlotType, SlotObj
<1>4. CountInv'
  BY <1>1, Errand DEF Answers
<1>5. SlotPlaces'
  <2>1. [q \in Party |-> th'[q].slot] = [Hand EXCEPT ![p] = t.slot]
    BY <1>1 DEF Hand, SlotType, SlotObj
  <2>2. [w \in Crew |-> Elems(obj'.cache[w])] = C
    OBVIOUS
  <2> DEFINE H == [q \in Party |-> th'[q].slot]
             D == [w \in Crew |-> Elems(obj'.cache[w])]
  <2>3. Apart(Elems(obj'.freeSlots), D, obj'.tasks, H)
    BY <1>1, <2>1, <2>2
  <2> QED
    BY <1>2, <2>3 DEF SlotPlaces, Apart
<1> QED
  BY <1>3, <1>4, <1>5 DEF SlotInv

LEMMA PlaceFacts ==
    ASSUME SlotInv
    PROVE  /\ List(Slots, obj.freeSlots) /\ \A w \in Crew : List(Slots, obj.cache[w])
           /\ Elems(obj.freeSlots) \in SUBSET Slots /\ Caches \in [Crew -> SUBSET Slots]
           /\ obj.tasks \in SUBSET Slots /\ Hand \in [Party -> Slots \cup {0}]
           /\ Apart(Elems(obj.freeSlots), Caches, obj.tasks, Hand)
           /\ \A p \in Party : th[p].slot = Hand[p]
           /\ \A w \in Crew : Elems(obj.cache[w]) = Caches[w]
<1>1. /\ List(Slots, obj.freeSlots) /\ \A w \in Crew : List(Slots, obj.cache[w])
      /\ Apart(Elems(obj.freeSlots), Caches, obj.tasks, Hand) /\ SlotType
  BY DEF SlotInv, SlotPlaces, Caches, Hand
<1>2. \A q : List(Slots, q) => Elems(q) \in SUBSET Slots
  BY DEF List, Elems
<1>3. Elems(obj.freeSlots) \in SUBSET Slots /\ \A w \in Crew : Elems(obj.cache[w]) \in SUBSET Slots
  BY <1>1, <1>2
<1> QED
  BY <1>1, <1>3 DEF Caches, Hand, SlotType, SlotObj, SlotThread

LEMMA TakesFree ==
    ASSUME SlotInv, NEW p \in Party, th[p].pc \in {"try", "peers"}, obj.freeSlots # <<>>,
           S!PopFree(p)
    PROVE  SlotInv'
<1> DEFINE s == Head(obj.freeSlots)
           t == [S!Resting EXCEPT !.pc = "acquired", !.slot = s]
           rest == Tail(obj.freeSlots)
<1>0. /\ SlotType /\ th[p].slot = 0 /\ ~WillTell(th[p])
  BY SlotFacts
<1>1. /\ List(Slots, rest) /\ s \in Slots /\ Elems(rest) \cup {s} = Elems(obj.freeSlots)
      /\ s \notin Elems(rest)
  BY PlaceFacts, HeadOfList
<1>2. /\ t \in SlotThread /\ t.pc = "acquired" /\ t.slot = s /\ t.after = "idle" /\ t.since = {}
  BY <1>1, RestingAt
<1>3. th' = [th EXCEPT ![p] = t] /\ obj' = [obj EXCEPT !.freeSlots = rest]
  BY DEF S!PopFree, S!Take
<1> HIDE DEF t, s, rest
<1>4. /\ obj' \in SlotObj /\ Quiet /\ obj'.freeSlots = rest /\ obj'.cache = obj.cache
  BY <1>0, <1>1, <1>3 DEF SlotType, SlotObj, Quiet, List
<1>5. Apart(Elems(rest), Caches, obj.tasks, [Hand EXCEPT ![p] = s])
  <2>1. Elems(rest) = Elems(obj.freeSlots) \ {s} /\ s \in Elems(obj.freeSlots) /\ Hand[p] = 0
    BY <1>0, <1>1, PlaceFacts
  <2>2. Apart(Elems(obj.freeSlots) \ {s}, Caches, obj.tasks, [Hand EXCEPT ![p] = s])
    BY <2>1, PlaceFacts, HandsMove
  <2> QED
    BY <2>1, <2>2
<1>6. /\ t.slot # 0 /\ \A w \in Crew : List(Slots, obj'.cache[w])
      /\ \A w \in Crew : Caches[w] = Elems(obj'.cache[w])
      /\ Caches = [w \in Crew |-> Caches[w]]
  BY <1>1, <1>2, <1>4, PlaceFacts, SlotsAreNumbered
<1> QED
  BY <1>0, <1>1, <1>2, <1>3, <1>4, <1>5, <1>6, HandsChange

LEMMA TakesFromPeer ==
    ASSUME SlotInv, NEW p \in Party, th[p].pc = "peers", NEW w \in Crew, obj.cache[w] # <<>>,
           S!Take(p, S!Last(obj.cache[w])), obj' = [obj EXCEPT !.cache[w] = S!Front(@)]
    PROVE  SlotInv'
<1> DEFINE q == obj.cache[w]
           s == q[Len(q)]
           t == [S!Resting EXCEPT !.pc = "acquired", !.slot = s]
           rest == SubSeq(q, 1, Len(q) - 1)
           cache == [obj.cache EXCEPT ![w] = rest]
           C == [Caches EXCEPT ![w] = Caches[w] \ {s}]
<1>0. /\ SlotType /\ th[p].slot = 0 /\ ~WillTell(th[p])
  BY SlotFacts
<1>1. /\ List(Slots, rest) /\ s \in Slots /\ Elems(rest) \cup {s} = Elems(q)
      /\ s \notin Elems(rest)
  BY PlaceFacts, LastOfList
<1>2. /\ t \in SlotThread /\ t.pc = "acquired" /\ t.slot = s /\ t.after = "idle" /\ t.since = {}
  BY <1>1, RestingAt
<1>3. th' = [th EXCEPT ![p] = t] /\ obj' = [obj EXCEPT !.cache = cache]
  <2>1. S!Front(q) = rest /\ S!Last(q) = s
    BY DEF S!Front, S!Last
  <2>2. obj' = [obj EXCEPT !.cache[w] = rest]
    BY <2>1
  <2> QED
    BY <1>0, <2>1, <2>2 DEF S!Take, SlotType, SlotObj
<1> HIDE DEF t, s, rest
<1>4. cache \in [Crew -> Seq(Slots)] /\ cache[w] = rest /\ \A v \in Crew : v # w => cache[v] = obj.cache[v]
  BY <1>0, <1>1 DEF List, SlotType, SlotObj
<1> HIDE DEF cache, q
<1>5. /\ obj' \in SlotObj /\ Quiet /\ obj'.freeSlots = obj.freeSlots /\ obj'.cache = cache
  BY <1>0, <1>3, <1>4 DEF SlotType, SlotObj, Quiet
<1>6. Apart(Elems(obj.freeSlots), C, obj.tasks, [Hand EXCEPT ![p] = s])
  <2>1. s \in Caches[w] /\ Hand[p] = 0
    BY <1>0, <1>1, PlaceFacts DEF q
  <2> QED
    BY <2>1, PlaceFacts, SlotsMove
<1>7. /\ t.slot # 0 /\ \A v \in Crew : List(Slots, obj'.cache[v])
      /\ \A v \in Crew : C[v] = Elems(obj'.cache[v])
      /\ C = [v \in Crew |-> C[v]]
  <2>1. Elems(rest) = Caches[w] \ {s} /\ s # 0
    BY <1>1, PlaceFacts, SlotsAreNumbered DEF q
  <2>2. C[w] = Caches[w] \ {s} /\ \A v \in Crew : v # w => C[v] = Caches[v]
    BY PlaceFacts
  <2>3. C = [v \in Crew |-> C[v]]
    BY PlaceFacts
  <2> QED
    BY <1>1, <1>2, <1>4, <1>5, <2>1, <2>2, <2>3, PlaceFacts
<1> HIDE DEF C
<1> QED
  BY ZenonT(40), <1>0, <1>2, <1>3, <1>5, <1>6, <1>7, PlaceFacts, HandsChange

LEMMA TakesOwn ==
    ASSUME SlotInv, NEW p \in Crew, th[p].pc = "try", NEW k \in 0 .. Len(obj.freeSlots),
           NEW full, full = obj.cache[p] \o SubSeq(obj.freeSlots, 1, k), full # <<>>,
           S!Take(p, S!Last(full)),
           obj' = [obj EXCEPT !.cache[p] = S!Front(full),
                              !.freeSlots = SubSeq(@, k + 1, Len(@))]
    PROVE  SlotInv'
<1> DEFINE q == obj.cache[p]
           a == SubSeq(obj.freeSlots, 1, k)
           b == SubSeq(obj.freeSlots, k + 1, Len(obj.freeSlots))
           s == full[Len(full)]
           t == [S!Resting EXCEPT !.pc = "acquired", !.slot = s]
           rest == SubSeq(full, 1, Len(full) - 1)
           cache == [obj.cache EXCEPT ![p] = rest]
           F == Elems(obj.freeSlots)
           C == [Caches EXCEPT ![p] = Caches[p] \cup Elems(a)]
           D == [C EXCEPT ![p] = C[p] \ {s}]
<1>0. SlotType /\ p \in Party /\ th[p].slot = 0 /\ ~WillTell(th[p])
  BY SlotFacts DEF Party
<1>1. /\ List(Slots, a) /\ List(Slots, b) /\ Elems(a) \cap Elems(b) = {}
      /\ Elems(a) \cup Elems(b) = F
  BY PlaceFacts, SplitList
<1>2. List(Slots, q) /\ Elems(q) = Caches[p] /\ F \cap Caches[p] = {}
  BY PlaceFacts DEF Apart
<1>3. full = q \o a
  OBVIOUS
<1> HIDE DEF a, b, q, F
<1>4. List(Slots, full) /\ Elems(full) = Elems(q) \cup Elems(a)
  <2>1. Differ(q, a)
    BY <1>1, <1>2 DEF Differ
  <2>2. List(Slots, q \o a)
    BY <1>1, <1>2, <2>1, JoinLists
  <2>3. Joins(q \o a, q, a)
    BY <1>1, <1>2, <2>1, JoinLists
  <2> QED
    BY <1>3, <2>2, <2>3 DEF Joins
<1>5. /\ List(Slots, rest) /\ s \in Slots /\ Elems(rest) \cup {s} = Elems(full)
      /\ s \notin Elems(rest)
  BY <1>4, LastOfList
<1>6. /\ t \in SlotThread /\ t.pc = "acquired" /\ t.slot = s /\ t.after = "idle" /\ t.since = {}
  BY <1>5, RestingAt
<1>7. th' = [th EXCEPT ![p] = t] /\ obj' = [obj EXCEPT !.cache = cache, !.freeSlots = b]
  <2>1. S!Front(full) = rest /\ S!Last(full) = s
    BY DEF S!Front, S!Last
  <2>2. obj' = [obj EXCEPT !.cache[p] = rest, !.freeSlots = b]
    BY <2>1 DEF b
  <2> QED
    BY <1>0, <2>1, <2>2 DEF S!Take, SlotType, SlotObj
<1> HIDE DEF t, s, rest
<1>8. cache \in [Crew -> Seq(Slots)] /\ cache[p] = rest /\ \A v \in Crew : v # p => cache[v] = obj.cache[v]
  BY <1>0, <1>5 DEF List, SlotType, SlotObj
<1> HIDE DEF cache
<1>9. /\ obj' \in SlotObj /\ Quiet /\ obj'.freeSlots = b /\ obj'.cache = cache
  BY <1>0, <1>1, <1>7, <1>8 DEF SlotType, SlotObj, Quiet, List
<1>10. Apart(Elems(b), C, obj.tasks, Hand) /\ C \in [Crew -> SUBSET Slots] /\ C[p] = Elems(full)
  <2>1. Elems(a) \in SUBSET F /\ F \ Elems(a) = Elems(b)
    BY <1>1
  <2>2. Apart(F \ Elems(a), C, obj.tasks, Hand)
    BY <1>0, <2>1, PlaceFacts, SlotsMove DEF F
  <2>3. F \in SUBSET Slots /\ Caches \in [Crew -> SUBSET Slots]
    BY PlaceFacts DEF F
  <2> QED
    BY <1>2, <1>4, <2>1, <2>2, <2>3
<1>11. C = [v \in Crew |-> C[v]] /\ \A v \in Crew : v # p => C[v] = Caches[v]
  BY PlaceFacts
<1> HIDE DEF C
<1>12. Apart(Elems(b), D, obj.tasks, [Hand EXCEPT ![p] = s])
  <2>1. s \in C[p] /\ Hand[p] = 0 /\ Elems(b) \in SUBSET Slots
    BY <1>0, <1>1, <1>5, <1>10, PlaceFacts DEF F
  <2> QED
    BY <1>0, <1>10, <2>1, PlaceFacts, SlotsMove
<1>13. /\ t.slot # 0 /\ \A v \in Crew : List(Slots, obj'.cache[v])
       /\ \A v \in Crew : D[v] = Elems(obj'.cache[v])
       /\ D = [v \in Crew |-> D[v]]
  <2>1. Elems(rest) = C[p] \ {s} /\ s # 0
    BY <1>5, <1>10, SlotsAreNumbered
  <2>2. D[p] = C[p] \ {s} /\ \A v \in Crew : v # p => D[v] = C[v]
    BY <1>10
  <2>3. D = [v \in Crew |-> D[v]]
    BY <1>10
  <2> QED
    BY <1>5, <1>6, <1>8, <1>9, <1>11, <2>1, <2>2, <2>3, PlaceFacts
<1> HIDE DEF D
<1> QED
  BY <1>0, <1>1, <1>6, <1>7, <1>9, <1>12, <1>13, HandsChange

\* releaseSlot(): to the free list, to the cache, or there after a batch that goes back.
LEMMA GivesBack ==
    ASSUME SlotInv, NEW p \in Party, NEW pc \in {"idle", "lastOne"}, S!Go(p, pc),
           obj' = S!releaseSlot(p, th[p].slot), th[p].pc \in {"acquired", "release"},
           th[p].pc = "release" => pc = "lastOne"
    PROVE  SlotInv'
<1> DEFINE s == th[p].slot
           t == [S!Resting EXCEPT !.pc = pc]
           F == Elems(obj.freeSlots)
<1>0. /\ SlotType /\ s # 0 /\ s = Hand[p] /\ s \in Slots
      /\ ~WillTell(th[p]) \/ pc = "lastOne"
  <2>1. s = Hand[p] /\ SlotType /\ Shape(th[p]) /\ th[p] \in SlotThread
    BY SlotFacts, PlaceFacts
  <2>2. ~WillTell(th[p]) \/ pc = "lastOne"
    BY SlotFacts
  <2> QED
    BY <2>1, <2>2 DEF Shape, SlotThread
<1>1. /\ t \in SlotThread /\ t.pc = pc /\ t.slot = 0 /\ t.after = "idle" /\ t.since = {}
      /\ th' = [th EXCEPT ![p] = t]
  <2>1. pc \in SlotPc
    BY DEF SlotPc
  <2> QED
    BY <2>1, RestingAt DEF S!Go
<1>2. s \notin F /\ \A w \in Crew : s \notin Elems(obj.cache[w])
  BY <1>0, PlaceFacts DEF Apart
<1> HIDE DEF t, s
<1>3. CASE p \notin Crew
  <2> DEFINE free == Append(obj.freeSlots, s)
  <2>1. obj' = [obj EXCEPT !.freeSlots = free]
    <3>1. ~S!IsWorker(p)
      BY <1>0, <1>3, CrewFacts DEF SlotType, SlotObj
    <3> QED
      BY <3>1 DEF S!releaseSlot, s
  <2>2. List(Slots, free) /\ Elems(free) = F \cup {s}
    BY <1>0, <1>2, PlaceFacts, AppendToList
  <2> HIDE DEF free
  <2>3. obj' = [obj EXCEPT !.freeSlots = free, !.cache = obj.cache]
    BY <1>0, <2>1 DEF SlotType, SlotObj
  <2>4. Apart(Elems(free), Caches, obj.tasks, [Hand EXCEPT ![p] = 0])
    <3>1. Apart(F \cup {s}, Caches, obj.tasks, [Hand EXCEPT ![p] = 0])
      BY <1>0, PlaceFacts, HandsMove
    <3> QED
      BY <2>2, <3>1
  <2>5. Caches = [w \in Crew |-> Caches[w]] /\ obj.cache \in [Crew -> Seq(Slots)]
    BY <1>0 DEF Caches, SlotType, SlotObj
  <2>6. obj' \in SlotObj /\ Quiet /\ obj'.freeSlots = free /\ obj'.cache = obj.cache
    BY <1>0, <2>2, <2>3 DEF SlotType, SlotObj, Quiet, List
  <2>7. /\ List(Slots, obj'.freeSlots) /\ \A w \in Crew : List(Slots, obj'.cache[w])
        /\ \A w \in Crew : Caches[w] = Elems(obj'.cache[w])
        /\ Apart(Elems(obj'.freeSlots), Caches, obj.tasks, [Hand EXCEPT ![p] = 0])
    BY <2>2, <2>4, <2>6, PlaceFacts
  <2> QED
    BY <1>0, <1>1, <2>5, <2>6, <2>7, HandsChange
<1>4. CASE p \in Crew /\ Len(obj.cache[p]) < kCapacity
  <2> DEFINE more == Append(obj.cache[p], s)
             cache == [obj.cache EXCEPT ![p] = more]
             C == [Caches EXCEPT ![p] = Caches[p] \cup {s}]
  <2>1. obj' = [obj EXCEPT !.cache[p] = more]
    <3>1. S!IsWorker(p)
      BY <1>0, <1>4, CrewFacts DEF SlotType, SlotObj
    <3> QED
      BY <1>4, <3>1 DEF S!releaseSlot, s
  <2>2. List(Slots, more) /\ Elems(more) = Caches[p] \cup {s}
    BY <1>0, <1>2, <1>4, PlaceFacts, AppendToList
  <2> HIDE DEF more
  <2>3. obj' = [obj EXCEPT !.freeSlots = obj.freeSlots, !.cache = cache]
    BY <1>0, <2>1 DEF SlotType, SlotObj
  <2>4. cache \in [Crew -> Seq(Slots)] /\ cache[p] = more /\ \A v \in Crew : v # p => cache[v] = obj.cache[v]
    BY <1>0, <1>4, <2>2 DEF List, SlotType, SlotObj
  <2>5. Apart(F, C, obj.tasks, [Hand EXCEPT ![p] = 0])
    BY <1>0, <1>4, PlaceFacts, SlotsMove
  <2>6. C = [v \in Crew |-> C[v]] /\ C[p] = Caches[p] \cup {s} /\ \A v \in Crew : v # p => C[v] = Caches[v]
    BY <1>4, PlaceFacts
  <2> HIDE DEF C, cache
  <2>7. \A v \in Crew : List(Slots, cache[v]) /\ C[v] = Elems(cache[v])
    BY <2>2, <2>4, <2>6, PlaceFacts
  <2>8. obj' \in SlotObj /\ Quiet /\ obj'.freeSlots = obj.freeSlots /\ obj'.cache = cache
    BY <1>0, <2>3, <2>4 DEF SlotType, SlotObj, Quiet
  <2>9. /\ List(Slots, obj'.freeSlots) /\ \A w \in Crew : List(Slots, obj'.cache[w])
        /\ \A w \in Crew : C[w] = Elems(obj'.cache[w])
        /\ Apart(Elems(obj'.freeSlots), C, obj.tasks, [Hand EXCEPT ![p] = 0])
    BY <2>5, <2>7, <2>8, PlaceFacts
  <2> QED
    BY <1>0, <1>1, <2>6, <2>8, <2>9, HandsChange
<1>5. CASE p \in Crew /\ ~(Len(obj.cache[p]) < kCapacity)
  <2> DEFINE q == obj.cache[p]
             a == SubSeq(q, 1, kBatch)
             b == SubSeq(q, kBatch + 1, Len(q))
             more == Append(b, s)
             free == obj.freeSlots \o a
             cache == [obj.cache EXCEPT ![p] = more]
             C == [Caches EXCEPT ![p] = Caches[p] \ Elems(a)]
             D == [C EXCEPT ![p] = C[p] \cup {s}]
  <2>1. obj' = [obj EXCEPT !.freeSlots = free, !.cache[p] = more]
    <3>1. S!IsWorker(p)
      BY <1>0, <1>5, CrewFacts DEF SlotType, SlotObj
    <3> QED
      BY <1>5, <3>1 DEF S!releaseSlot, s
  <2>2. List(Slots, q) /\ Elems(q) = Caches[p] /\ F \cap Caches[p] = {} /\ kBatch \in 0 .. Len(q)
    <3>1. List(Slots, q) /\ Elems(q) = Caches[p] /\ F \cap Caches[p] = {}
      BY <1>5, PlaceFacts DEF Apart
    <3>2. Len(q) \in Nat
      BY <3>1 DEF List
    <3> QED
      BY <1>5, <3>1, <3>2, BatchFits
  <2>3. /\ List(Slots, a) /\ List(Slots, b) /\ Elems(a) \cap Elems(b) = {}
        /\ Elems(a) \cup Elems(b) = Caches[p]
    BY <2>2, SplitList
  <2> HIDE DEF a, b
  <2>4. List(Slots, free) /\ Elems(free) = F \cup Elems(a)
    <3>1. Differ(obj.freeSlots, a) /\ List(Slots, obj.freeSlots)
      BY <2>2, <2>3, PlaceFacts DEF Differ
    <3>2. List(Slots, free)
      BY <2>3, <3>1, JoinLists
    <3>3. Joins(free, obj.freeSlots, a)
      BY <2>3, <3>1, JoinLists
    <3> QED
      BY <3>2, <3>3 DEF Joins
  <2>5. List(Slots, more) /\ Elems(more) = Elems(b) \cup {s}
    <3>1. s \notin Elems(b)
      BY <1>2, <1>5, <2>2, <2>3
    <3> QED
      BY <1>0, <2>3, <3>1, AppendToList
  <2> HIDE DEF free, more, q
  <2>6. obj' = [obj EXCEPT !.freeSlots = free, !.cache = cache]
    BY <1>0, <2>1 DEF SlotType, SlotObj
  <2>7. cache \in [Crew -> Seq(Slots)] /\ cache[p] = more /\ \A v \in Crew : v # p => cache[v] = obj.cache[v]
    BY <1>0, <1>5, <2>5 DEF List, SlotType, SlotObj
  <2>8. /\ Apart(F \cup Elems(a), C, obj.tasks, Hand) /\ C \in [Crew -> SUBSET Slots]
        /\ C[p] = Elems(b) /\ \A v \in Crew : v # p => C[v] = Caches[v]
    <3>1. Elems(a) \in SUBSET Caches[p] /\ Caches[p] \ Elems(a) = Elems(b)
      BY <2>3
    <3> QED
      BY <1>5, <3>1, PlaceFacts, SlotsMove
  <2> HIDE DEF C
  <2>9. Apart(F \cup Elems(a), D, obj.tasks, [Hand EXCEPT ![p] = 0])
    <3>1. F \cup Elems(a) \in SUBSET Slots
      BY <1>5, <2>3, PlaceFacts
    <3> QED
      BY <1>0, <1>5, <2>8, <3>1, PlaceFacts, SlotsMove
  <2>10. D = [v \in Crew |-> D[v]] /\ D[p] = C[p] \cup {s} /\ \A v \in Crew : v # p => D[v] = C[v]
    BY <1>5, <2>8
  <2> HIDE DEF D, cache
  <2>11. \A v \in Crew : List(Slots, cache[v]) /\ D[v] = Elems(cache[v])
    BY <2>5, <2>7, <2>8, <2>10, PlaceFacts
  <2>12. obj' \in SlotObj /\ Quiet /\ obj'.freeSlots = free /\ obj'.cache = cache
    BY <1>0, <2>4, <2>6, <2>7 DEF SlotType, SlotObj, Quiet, List
  <2>13. Apart(Elems(free), D, obj.tasks, [Hand EXCEPT ![p] = 0])
    BY <2>4, <2>9
  <2> QED
    BY ZenonT(40), <1>0, <1>1, <2>4, <2>10, <2>11, <2>12, <2>13, HandsChange
<1> QED
  BY <1>3, <1>4, <1>5

\* A task begins: its slot is the task's from here on.
LEMMA TaskBegins ==
    ASSUME SlotInv, NEW p \in Party, S!Create(p)
    PROVE  SlotInv'
<1> DEFINE s == th[p].slot
           t == [S!Resting EXCEPT !.pc = "idle"]
           c == S!Me(p)
           tasks == obj.tasks \cup {s}
           created == [obj.created EXCEPT ![c] = obj.created[c] + 1]
<1>0. /\ SlotType /\ CountInv /\ s = Hand[p] /\ s # 0 /\ s \in Slots \ obj.tasks
      /\ th[p].pc = "acquired"
  <2>1. th[p].pc = "acquired" /\ Shape(th[p]) /\ th[p] \in SlotThread /\ SlotType /\ CountInv
    BY SlotFacts DEF S!Create, S!At
  <2>2. s = Hand[p] /\ Hand[p] \notin obj.tasks
    BY PlaceFacts DEF Apart
  <2> QED
    BY <2>1, <2>2 DEF Shape, SlotThread
<1>1. th' = [th EXCEPT ![p] = t] /\ t \in SlotThread /\ t.slot = 0
  BY RestingAt DEF S!Create, S!Go, SlotPc
<1>2. /\ obj' = [obj EXCEPT !.tasks = tasks, !.created = created]
      /\ tasks \in SUBSET Slots /\ created \in [Ledger -> Nat]
  <2>1. c \in Ledger
    BY <1>0, CrewFacts DEF SlotType, SlotObj
  <2>2. obj.created[c] + 1 \in Nat
    BY <1>0, <2>1 DEF SlotType, SlotObj
  <2>3. obj' = [obj EXCEPT !.tasks = tasks, !.created = created]
    BY <1>0 DEF S!Create, SlotType, SlotObj
  <2> QED
    BY <1>0, <2>2, <2>3 DEF SlotType, SlotObj
<1>3. CountInv'
  BY <1>0, TaskStarts
<1>4. Apart(Elems(obj.freeSlots), Caches, tasks, [Hand EXCEPT ![p] = 0])
  BY <1>0, PlaceFacts, HandsMove
<1> HIDE DEF t, s, tasks, created
<1>5. /\ obj' \in SlotObj /\ obj'.team = obj.team /\ obj'.freeSlots = obj.freeSlots
      /\ obj'.cache = obj.cache /\ obj'.tasks = tasks
  BY <1>0, <1>2 DEF SlotType, SlotObj
<1>6. Crew' = Crew /\ Party' = Party /\ Ledger' = Ledger
  BY <1>5, SameCrew
<1>7. SlotType'
  BY <1>0, <1>1, <1>5, <1>6 DEF SlotType, SlotObj
<1>8. SlotPlaces'
  <2>1. [q \in Party |-> th'[q].slot] = [Hand EXCEPT ![p] = 0]
    BY <1>0, <1>1 DEF Hand, SlotType, SlotObj
  <2>2. [w \in Crew |-> Elems(obj'.cache[w])] = Caches
    BY <1>5 DEF Caches
  <2> DEFINE H == [q \in Party |-> th'[q].slot]
             D == [w \in Crew |-> Elems(obj'.cache[w])]
  <2>3. Apart(Elems(obj'.freeSlots), D, obj'.tasks, H)
    BY <1>4, <1>5, <2>1, <2>2
  <2>4. List(Slots, obj'.freeSlots) /\ \A w \in Crew : List(Slots, obj'.cache[w])
    BY <1>5, PlaceFacts
  <2> QED
    BY <1>6, <2>3, <2>4 DEF SlotPlaces, Apart
<1> QED
  BY <1>3, <1>7, <1>8 DEF SlotInv

\* A task finishes: its worker has the slot in hand.
LEMMA TaskFinishes ==
    ASSUME SlotInv, NEW p \in Party, NEW s \in Slots, S!Finish(p, s)
    PROVE  SlotInv'
<1> DEFINE c == S!Me(p)
           tasks == obj.tasks \ {s}
           finished == [obj.finished EXCEPT ![c] = obj.finished[c] + 1]
           told == obj.told /\ ~obj.stopping
<1>0. /\ SlotType /\ CountInv /\ Hand[p] = 0 /\ s \in obj.tasks
      /\ th[p].pc = "idle" /\ p \in Crew
  <2>1. th[p].pc = "idle" /\ S!IsWorker(p) /\ s \in obj.tasks
    BY DEF S!Finish, S!At
  <2> QED
    BY <2>1, SlotFacts, PlaceFacts, CrewFacts DEF SlotType, SlotObj
<1>1. th' = [q \in Party |-> IF q = p THEN [th[q] EXCEPT !.pc = "release", !.slot = s]
                             ELSE [th[q] EXCEPT !.since = @ \ {s}]]
  BY <1>0, CrewFacts DEF S!Finish, SlotType, SlotObj
<1>2. th' \in [Party -> SlotThread] /\ [q \in Party |-> th'[q].slot] = [Hand EXCEPT ![p] = s]
  <2>1. th \in [Party -> SlotThread]
    BY <1>0 DEF SlotType, SlotObj
  <2>2. ASSUME NEW q \in Party
        PROVE  th'[q] \in SlotThread /\ th'[q].slot = IF q = p THEN s ELSE th[q].slot
    <3>1. th[q] \in SlotThread
      BY <2>1
    <3>2. CASE q = p
      BY <1>1, <3>1, <3>2 DEF SlotThread, SlotPc
    <3>3. CASE q # p
      <4>1. PICK since \in SUBSET Slots : since = th[q].since \ {s}
        BY <3>1 DEF SlotThread
      <4>2. th'[q] = [th[q] EXCEPT !.since = since]
        BY <1>1, <3>3, <4>1
      <4> QED
        BY <3>1, <3>3, <4>2 DEF SlotThread
    <3> QED
      BY <3>2, <3>3
  <2>3. th' \in [Party -> SlotThread]
    BY <1>1, <2>2
  <2>4. [q \in Party |-> th'[q].slot] = [Hand EXCEPT ![p] = s]
    BY <2>2 DEF Hand
  <2> QED
    BY <2>3, <2>4
<1>3. /\ obj' = [obj EXCEPT !.tasks = tasks, !.finished = finished, !.told = told]
      /\ tasks \in SUBSET Slots /\ finished \in [Ledger -> Nat] /\ told \in BOOLEAN
  <2>1. c \in Ledger
    BY <1>0, CrewFacts DEF SlotType, SlotObj
  <2>2. obj.finished[c] + 1 \in Nat
    BY <1>0, <2>1 DEF SlotType, SlotObj
  <2>3. obj' = [obj EXCEPT !.tasks = tasks, !.finished = finished, !.told = told]
    BY <1>0 DEF S!Finish, SlotType, SlotObj
  <2> QED
    BY <1>0, <2>2, <2>3 DEF SlotType, SlotObj
<1>4. CountInv'
  BY <1>0, TaskEnds
<1>5. Apart(Elems(obj.freeSlots), Caches, tasks, [Hand EXCEPT ![p] = s])
  BY <1>0, PlaceFacts, HandsMove
<1> HIDE DEF c, tasks, finished, told
<1>6. /\ obj' \in SlotObj /\ obj'.team = obj.team /\ obj'.freeSlots = obj.freeSlots
      /\ obj'.cache = obj.cache /\ obj'.tasks = tasks
  BY <1>0, <1>3 DEF SlotType, SlotObj
<1>7. Crew' = Crew /\ Party' = Party /\ Ledger' = Ledger
  BY <1>6, SameCrew
<1>8. SlotType'
  BY <1>2, <1>6, <1>7 DEF SlotType, SlotObj
<1>9. SlotPlaces'
  <2>1. [w \in Crew |-> Elems(obj'.cache[w])] = Caches
    BY <1>6 DEF Caches
  <2> DEFINE H == [q \in Party |-> th'[q].slot]
             D == [w \in Crew |-> Elems(obj'.cache[w])]
  <2>2. Apart(Elems(obj'.freeSlots), D, obj'.tasks, H)
    BY <1>2, <1>5, <1>6, <2>1
  <2>3. List(Slots, obj'.freeSlots) /\ \A w \in Crew : List(Slots, obj'.cache[w])
    BY <1>6, PlaceFacts
  <2> QED
    BY <1>7, <2>2, <2>3 DEF SlotPlaces, Apart
<1> QED
  BY <1>4, <1>8, <1>9 DEF SlotInv

LEMMA SlotInit == S!Init => SlotInv
<1> SUFFICES ASSUME S!Init
             PROVE  SlotInv
  OBVIOUS
<1> DEFINE free == S!SetToSeq(Slots)
           zeros == [c \in Ledger |-> 0]
           none == [w \in Crew |-> <<>>]
<1>1. PICK team \in Teams :
         /\ obj = [is |-> "Slots", team |-> team, freeSlots |-> free, tasks |-> {},
                   stopping |-> FALSE, cache |-> [w \in S!Range(team.workers) |-> <<>>], told |-> TRUE,
                   spawns |-> 0, created |-> [c \in S!Range(team.workers) \cup {"foreign"} |-> 0],
                   finished |-> [c \in S!Range(team.workers) \cup {"foreign"} |-> 0]]
         /\ th = [p \in S!Range(team.workers) \cup team.foreign |-> S!Resting]
  BY DEF S!Init
<1>2. obj.team = team /\ S!Workers = team.workers /\ S!Foreign = team.foreign
  BY <1>1 DEF S!Workers, S!Foreign
<1>3. S!Range(team.workers) = Crew
  BY <1>2, CrewFacts
<1>4. /\ obj = [is |-> "Slots", team |-> team, freeSlots |-> free, tasks |-> {},
                stopping |-> FALSE, cache |-> none, told |-> TRUE,
                spawns |-> 0, created |-> zeros, finished |-> zeros]
      /\ th = [p \in Party |-> S!Resting]
  BY <1>1, <1>2, <1>3 DEF Party, Ledger
<1> HIDE DEF free, zeros, none
<1>5. List(Slots, free) /\ Elems(free) = Slots
  <2> DEFINE n == Cardinality(Slots)
             Listed(f) == f \in [1 .. n -> Slots] /\ \A i, j \in 1 .. n : f[i] = f[j] => i = j
  <2>1. n \in Nat /\ ExistsBijection(1 .. n, Slots)
    BY SlotsAreNumbered, FS_CardinalityType
  <2>2. \E f : Listed(f)
    BY <2>1 DEF ExistsBijection, Bijection, Injection, IsInjective
  <2>3. free = CHOOSE f \in [1 .. n -> Slots] : S!IsInjective(f)
    <3>1. S!Cardinality(Slots) = Cardinality(Slots)
      BY DEF S!Cardinality, Cardinality
    <3> QED
      BY <3>1 DEF free, S!SetToSeq
  <2>4. ASSUME NEW f \in [1 .. n -> Slots]
        PROVE  S!IsInjective(f) <=> \A i, j \in 1 .. n : f[i] = f[j] => i = j
    BY DEF S!IsInjective
  <2>5. Listed(free)
    BY <2>2, <2>3, <2>4
  <2>6. free \in Seq(Slots) /\ Len(free) = n
    BY <2>1, <2>5
  <2>7. Elems(free) = Slots
    <3>1. free \in Injection(1 .. n, Slots)
      BY <2>5 DEF Injection, IsInjective
    <3>2. IsFiniteSet(1 .. n) /\ Cardinality(1 .. n) = n
      BY <2>1, FS_Interval
    <3>3. free \in Surjection(1 .. n, Slots)
      BY <2>1, <3>1, <3>2, SlotsAreNumbered, FS_Injection
    <3> QED
      BY <2>5, <2>6, <3>3 DEF Surjection, Elems
  <2> QED
    BY <2>5, <2>6, <2>7 DEF List, Once
<1>6. /\ S!Resting \in SlotThread /\ S!Resting.pc = "idle" /\ S!Resting.slot = 0
      /\ S!Resting.after = "idle" /\ S!Resting.since = {}
  BY DEF S!Resting, S!NoSlot, SlotThread, SlotPc
<1>7. SlotType
  <2>1. zeros \in [Ledger -> Nat] /\ none \in [Crew -> Seq(Slots)] /\ free \in Seq(Slots)
    BY <1>5 DEF zeros, none, List
  <2> QED
    BY <1>4, <1>6, <2>1 DEF SlotType, SlotObj
<1>8. SlotPlaces
  <2>1. List(Slots, <<>>) /\ Elems(<<>>) = {}
    BY DEF List, Once, Elems
  <2>2. /\ obj.freeSlots = free /\ obj.tasks = {} /\ \A w \in Crew : obj.cache[w] = <<>>
        /\ \A p \in Party : th[p].slot = 0
    BY <1>4, <1>6 DEF none
  <2>3. [w \in Crew |-> Elems(obj.cache[w])] = [w \in Crew |-> {}] /\ [p \in Party |-> th[p].slot] = [p \in Party |-> 0]
    BY <2>1, <2>2
  <2>4. Apart(Slots, [w \in Crew |-> {}], {}, [p \in Party |-> 0])
    BY SlotsAreNumbered DEF Apart
  <2> QED
    BY <1>5, <2>1, <2>2, <2>3, <2>4 DEF SlotPlaces
<1>9. CountInv
  <2>1. /\ obj.created = zeros /\ obj.finished = zeros /\ obj.tasks = {} /\ obj.told
        /\ \A p \in Party : th[p] = S!Resting
    BY <1>4
  <2>2. Tally(zeros, Ledger) = {}
    BY TallyOfNone DEF zeros
  <2>3. LiveIsSum
    <3>1. IsFiniteSet({}) /\ Cardinality({}) = 0
      BY FS_EmptySet
    <3> QED
      BY <2>1, <2>2, <3>1 DEF LiveIsSum, Sum
  <2>4. \A p \in Party : Shape(th[p]) /\ Seen(th[p])
    BY <1>6, <2>1 DEF Shape, Seen, Answers
  <2>5. SomeoneWillTell /\ AllMinded
    BY <2>1 DEF SomeoneWillTell, AllMinded
  <2> QED
    BY <2>3, <2>4, <2>5 DEF CountInv
<1> QED
  BY <1>7, <1>8, <1>9 DEF SlotInv

LEMMA SlotStutter ==
    ASSUME SlotInv, UNCHANGED <<obj, th>>
    PROVE  SlotInv'
<1>1. Crew' = Crew /\ Party' = Party /\ Ledger' = Ledger
      /\ S!Workers' = S!Workers /\ S!Foreign' = S!Foreign
      /\ \A n : Before(n)' = Before(n) /\ After(n)' = After(n)
  BY SameCrew
<1>2. SlotType'
  BY <1>1 DEF SlotInv, SlotType, SlotObj
<1>3. SlotPlaces'
  BY NothingMoves DEF SlotInv
<1>4. LiveIsSum'
  BY <1>1 DEF LiveIsSum, SlotInv, CountInv, Sum
<1>5. \A q \in Party : Shape(th[q])' /\ Seen(th[q])'
  BY <1>1 DEF Shape, Seen, SlotInv, CountInv
<1>6. \A q \in Party : WillTell(th[q]) => WillTell(th[q])'
  BY <1>1 DEF WillTell, Sum
<1>7. SomeoneWillTell'
  BY <1>1, <1>6 DEF SomeoneWillTell, SlotInv, CountInv
<1>8. AllMinded'
  BY <1>1 DEF AllMinded, SlotInv, CountInv
<1> QED
  BY <1>1, <1>2, <1>3, <1>4, <1>5, <1>7, <1>8 DEF SlotInv, CountInv

LEMMA SlotKeeps == SlotInv /\ S!Next => SlotInv'
<1> SUFFICES ASSUME SlotInv, S!Next
             PROVE  SlotInv'
  OBVIOUS
<1>1. CASE S!RequestStop
  BY <1>1, StopIsAsked
<1>2. ASSUME NEW p \in Party,
             S!Spawn(p) \/ S!TryExit(p) \/ S!Step(p) \/ \E s \in Slots : S!Finish(p, s)
      PROVE  SlotInv'
  <2>0. SlotType /\ th[p] \in SlotThread /\ obj.team \in Teams
    BY SlotFacts DEF SlotType, SlotObj
  <2>1. CASE S!Spawn(p) \/ S!Decide(p) \/ S!Tell(p) \/ S!Exit(p)
    BY <2>1, GoersGo
  <2>2. CASE S!TryExit(p)
    BY <2>2, CountersCount DEF S!TryExit, S!At
  <2>3. CASE \E s \in Slots : S!Finish(p, s)
    BY <2>3, TaskFinishes
  <2>4. CASE S!Create(p)
    BY <2>4, TaskBegins
  <2>5. CASE S!CreateFails(p)
    BY <2>5, GivesBack DEF S!CreateFails, S!At
  <2>6. CASE S!Release(p)
    BY <2>6, GivesBack DEF S!Release, S!At
  <2>7. CASE S!LookStopping(p)
    <3>1. CASE obj.stopping
      BY <2>7, <3>1, CountersCount DEF S!LookStopping, S!At
    <3> QED
      BY <2>7, <3>1, GoersGo
  <2>8. CASE S!liveTasks(p)
    <3>1. UNCHANGED obj
      BY <2>8 DEF S!liveTasks, S!Load
    <3> QED
      BY <2>8, <3>1, CountersCount DEF S!liveTasks
  <2>9. CASE S!TryAgain(p)
    <3>1. th[p].pc = "peers"
      BY <2>9 DEF S!TryAgain, S!At
    <3>2. CASE obj.freeSlots = <<>>
      BY <2>9, <3>1, <3>2, CountersCount DEF S!TryAgain
    <3>3. CASE obj.freeSlots # <<>>
      BY <2>9, <3>1, <3>3, TakesFree DEF S!TryAgain
    <3> QED
      BY <3>2, <3>3
  <2>10. CASE S!TryGlobal(p)
    <3>1. th[p].pc = "try" /\ S!At(p, "try")
      BY <2>10 DEF S!TryGlobal, S!At
    <3>2. CASE obj.freeSlots = <<>>
      BY <2>10, <3>1, <3>2, LookersLook DEF S!TryGlobal
    <3>3. CASE obj.freeSlots # <<>>
      BY <2>10, <3>1, <3>3, TakesFree DEF S!TryGlobal
    <3> QED
      BY <3>2, <3>3
  <2>11. CASE S!TryPeer(p)
    <3> DEFINE w == S!Workers[th[p].next]
    <3>1. th[p].pc = "peers" /\ S!At(p, "peers") /\ th[p].next <= Len(S!Workers)
      BY <2>11 DEF S!TryPeer, S!At
    <3>2. w \in Crew
      <4>1. th[p].next \in Nat \ {0} /\ Len(S!Workers) \in Nat
        BY <2>0, <3>1, SlotFacts, CrewFacts DEF Shape, SlotThread
      <4> QED
        BY <2>0, <3>1, <4>1, CrewFacts
    <3>3. CASE w = p \/ obj.cache[w] = <<>>
      BY <2>11, <3>1, <3>3, LookersLook DEF S!TryPeer
    <3>4. CASE ~(w = p \/ obj.cache[w] = <<>>)
      <4>1. S!Take(p, S!Last(obj.cache[w])) /\ obj' = [obj EXCEPT !.cache[w] = S!Front(@)]
        BY <2>11, <3>4 DEF S!TryPeer
      <4> HIDE DEF w
      <4> QED
        BY <3>1, <3>2, <3>4, <4>1, TakesFromPeer
    <3> QED
      BY <3>3, <3>4
  <2>12. CASE S!TryOwn(p)
    <3> DEFINE k == IF obj.cache[p] # <<>> THEN 0
                    ELSE IF kBatch < Len(obj.freeSlots) THEN kBatch ELSE Len(obj.freeSlots)
               full == obj.cache[p] \o SubSeq(obj.freeSlots, 1, k)
    <3>1. /\ S!At(p, "try") /\ th[p].pc = "try" /\ S!IsWorker(p)
          /\ IF full = <<>> THEN S!AskPeers(p) /\ UNCHANGED obj
             ELSE /\ S!Take(p, S!Last(full))
                  /\ obj' = [obj EXCEPT !.cache[p] = S!Front(full),
                                        !.freeSlots = SubSeq(@, k + 1, Len(@))]
      BY <2>12 DEF S!TryOwn, S!At
    <3>2. p \in Crew /\ k \in 0 .. Len(obj.freeSlots)
      <4>1. Len(obj.freeSlots) \in Nat
        BY <2>0 DEF SlotType, SlotObj
      <4> QED
        BY <2>0, <3>1, <4>1, CrewFacts, BatchFits
    <3> HIDE DEF k
    <3>3. CASE full = <<>>
      BY <3>1, <3>3, LookersLook
    <3>4. CASE full # <<>>
      <4>1. PICK f : f = full
        OBVIOUS
      <4>2. /\ f # <<>> /\ S!Take(p, S!Last(f))
            /\ obj' = [obj EXCEPT !.cache[p] = S!Front(f), !.freeSlots = SubSeq(@, k + 1, Len(@))]
        BY <3>1, <3>4, <4>1
      <4> QED
        BY <3>1, <3>2, <4>1, <4>2, TakesOwn
    <3> QED
      BY <3>3, <3>4
  <2> QED
    BY <1>2, <2>1, <2>2, <2>3, <2>4, <2>5, <2>6, <2>7, <2>8, <2>9, <2>10, <2>11, <2>12 DEF S!Step
<1> QED
  <2>1. S!Parties = Party
    BY CrewFacts DEF SlotInv, SlotType, SlotObj
  <2> QED
    BY <1>1, <1>2, <2>1 DEF S!Next

\* What the slots promise, of what the invariant says.
LEMMA SlotMeans == SlotInv => S!ScanNeverUndercounts /\ S!LastFinisherTells /\ S!NoneLeftBehind
<1> SUFFICES ASSUME SlotInv
             PROVE  S!ScanNeverUndercounts /\ S!LastFinisherTells /\ S!NoneLeftBehind
  OBVIOUS
<1>0. /\ SlotType /\ CountInv /\ S!Parties = Party /\ S!Range(S!Workers) = Crew
      /\ Crew \subseteq Party
  BY CrewFacts DEF SlotInv, SlotType, SlotObj
<1>1. S!ScanNeverUndercounts
  <2> SUFFICES ASSUME NEW p \in Party, th[p].pc \in Answers
               PROVE  th[p].created >= th[p].finished + S!Cardinality(th[p].since)
    BY <1>0 DEF S!ScanNeverUndercounts, Answers
  <2>1. th[p].finished + Cardinality(th[p].since) <= th[p].created
    BY <1>0 DEF CountInv, Seen
  <2>2. S!Cardinality(th[p].since) = Cardinality(th[p].since)
    BY DEF S!Cardinality, Cardinality
  <2>3. /\ th[p].finished \in Nat /\ th[p].created \in Nat
        /\ Cardinality(th[p].since) \in Nat
    BY <1>0, SlotFacts, CountsAreFinite DEF SlotThread, CountInv
  <2> QED
    BY <2>1, <2>2, <2>3
<1>2. S!LastFinisherTells
  <2> SUFFICES ASSUME obj.tasks = {}, \A p \in Party : th[p].pc \in {"idle", "exited"}
               PROVE  obj.told
    BY <1>0 DEF S!LastFinisherTells
  <2>1. ASSUME NEW p \in Party
        PROVE  ~WillTell(th[p])
    BY SlotFacts
  <2> QED
    BY <1>0, <2>1 DEF CountInv, SomeoneWillTell
<1>3. S!NoneLeftBehind
  <2> SUFFICES ASSUME S!Foreign = {}, \A w \in Crew : th[w].pc = "exited", NEW s \in obj.tasks
               PROVE  FALSE
    BY <1>0 DEF S!NoneLeftBehind
  <2>1. PICK w \in Crew : Minds(th[w], s)
    BY <1>0 DEF CountInv, AllMinded
  <2> QED
    BY <2>1 DEF Minds
<1> QED
  BY <1>1, <1>2, <1>3

One(some) == \E e : some = {e}

LEMMA OneInList ==
    \A T, q, s : List(T, q) =>
        /\ s \in Elems(q) => One({i \in DOMAIN q : q[i] = s})
        /\ s \notin Elems(q) => {i \in DOMAIN q : q[i] = s} = {}
<1> SUFFICES ASSUME NEW T, NEW q \in Seq(T), Once(q), NEW s
             PROVE  /\ s \in Elems(q) => One({i \in DOMAIN q : q[i] = s})
                    /\ s \notin Elems(q) => {i \in DOMAIN q : q[i] = s} = {}
  BY DEF List
<1>1. DOMAIN q = 1 .. Len(q)
  OBVIOUS
<1>2. ASSUME s \in Elems(q)
      PROVE  One({i \in DOMAIN q : q[i] = s})
  <2>1. PICK j \in 1 .. Len(q) : q[j] = s
    BY <1>2 DEF Elems
  <2>2. {i \in DOMAIN q : q[i] = s} = {j}
    BY <1>1, <2>1 DEF Once
  <2> QED
    BY <2>2 DEF One
<1>3. ASSUME s \notin Elems(q)
      PROVE  {i \in DOMAIN q : q[i] = s} = {}
  BY <1>1, <1>3 DEF Elems
<1> QED
  BY <1>2, <1>3

\* No slot is lost, and none is in two places.
LEMMA SlotsAreInOnePlace == SlotInv => S!SlotInOnePlace
<1> SUFFICES ASSUME SlotInv, NEW s \in Slots
             PROVE  S!Cardinality(S!InFree(s)) + S!Cardinality(S!InCaches(s))
                      + S!Cardinality(obj.tasks \cap {s})
                      + S!Cardinality({p \in S!Parties : th[p].slot = s}) = 1
  BY DEF S!SlotInOnePlace
<1> DEFINE F == Elems(obj.freeSlots)
           hands == {p \in Party : Hand[p] = s}
<1>0. /\ SlotType /\ S!Parties = Party /\ S!Range(S!Workers) = Crew /\ s # 0
      /\ \A w \in Crew : List(Slots, obj.cache[w])
      /\ List(Slots, obj.freeSlots)
  BY SlotsAreNumbered, PlaceFacts, CrewFacts DEF SlotInv, SlotType, SlotObj
<1>1. /\ s \in F => One(S!InFree(s))
      /\ s \notin F => S!InFree(s) = {}
  BY <1>0, OneInList DEF S!InFree
<1>2. S!InCaches(s) = UNION {{<<w, i>> : i \in {j \in DOMAIN obj.cache[w] : obj.cache[w][j] = s}} : w \in Crew}
  BY <1>0 DEF S!InCaches
<1>3. /\ (\E w \in Crew : s \in Caches[w]) => One(S!InCaches(s))
      /\ (\A w \in Crew : s \notin Caches[w]) => S!InCaches(s) = {}
  <2>1. ASSUME NEW w \in Crew, s \notin Caches[w]
        PROVE  {j \in DOMAIN obj.cache[w] : obj.cache[w][j] = s} = {}
    <3>1. List(Slots, obj.cache[w]) /\ s \notin Elems(obj.cache[w])
      BY <1>0, <2>1, PlaceFacts
    <3> DEFINE q == obj.cache[w]
    <3> HIDE DEF q
    <3>2. {j \in DOMAIN q : q[j] = s} = {}
      BY <3>1, OneInList DEF q
    <3> QED
      BY <3>2 DEF q
  <2>2. ASSUME NEW w \in Crew, s \in Caches[w]
        PROVE  One(S!InCaches(s))
    <3> DEFINE q == obj.cache[w]
    <3>0. List(Slots, q) /\ s \in Elems(q)
      BY <1>0, <2>2, PlaceFacts
    <3> HIDE DEF q
    <3>1. PICK k : {j \in DOMAIN q : q[j] = s} = {k}
      BY <3>0, OneInList DEF One
    <3>2. \A v \in Crew : v # w => s \notin Caches[v]
      BY <2>2, PlaceFacts DEF Apart
    <3>3. S!InCaches(s) = {<<w, k>>}
      <4>1. ASSUME NEW v \in Crew, v # w
            PROVE  {j \in DOMAIN obj.cache[v] : obj.cache[v][j] = s} = {}
        BY <2>1, <3>2, <4>1
      <4> QED
        BY <1>2, <3>1, <4>1 DEF q
    <3> QED
      BY <3>3 DEF One
  <2> QED
    BY <1>2, <2>1, <2>2
<1>4. /\ s \in obj.tasks => One(obj.tasks \cap {s})
      /\ s \notin obj.tasks => obj.tasks \cap {s} = {}
  BY DEF One
<1>5. /\ {p \in S!Parties : th[p].slot = s} = hands
      /\ (\E p \in Party : Hand[p] = s) => One(hands)
      /\ (\A p \in Party : Hand[p] # s) => hands = {}
  <2>1. {p \in S!Parties : th[p].slot = s} = hands
    BY <1>0, PlaceFacts
  <2>2. ASSUME NEW p \in Party, Hand[p] = s
        PROVE  One(hands)
    <3>1. \A q \in Party : Hand[q] = s => q = p
      BY <1>0, <2>2, PlaceFacts DEF Apart
    <3>2. hands = {p}
      BY <2>2, <3>1
    <3> QED
      BY <3>2 DEF One
  <2> QED
    BY <2>1, <2>2
<1>6. \A some : S!Cardinality(some) = Cardinality(some)
  BY DEF S!Cardinality, Cardinality
<1>7. Cardinality({}) = 0 /\ \A some : One(some) => Cardinality(some) = 1
  BY FS_EmptySet, FS_Singleton DEF One
<1>8. /\ \/ s \in F \/ s \in obj.tasks
         \/ \E w \in Crew : s \in Caches[w]
         \/ \E p \in Party : s = Hand[p]
      /\ s \in F => s \notin obj.tasks
      /\ \A w \in Crew : s \in Caches[w] => s \notin F /\ s \notin obj.tasks
      /\ \A p \in Party : s = Hand[p] =>
            s \notin F /\ s \notin obj.tasks /\ \A w \in Crew : s \notin Caches[w]
  BY PlaceFacts DEF Apart
<1> HIDE DEF F, hands
<1> DEFINE a == Cardinality(S!InFree(s))
           b == Cardinality(S!InCaches(s))
           c == Cardinality(obj.tasks \cap {s})
           d == Cardinality(hands)
<1>9. a + b + c + d = 1
  <2>1. /\ a = IF s \in F THEN 1 ELSE 0
        /\ c = IF s \in obj.tasks THEN 1 ELSE 0
    BY <1>1, <1>4, <1>7
  <2>2. b = IF \E w \in Crew : s \in Caches[w] THEN 1 ELSE 0
    BY <1>3, <1>7
  <2>3. d = IF \E p \in Party : Hand[p] = s THEN 1 ELSE 0
    BY <1>5, <1>7
  <2> HIDE DEF a, b, c, d
  <2>4. CASE s \in F
    BY <1>8, <2>1, <2>2, <2>3, <2>4
  <2>5. CASE s \in obj.tasks
    BY <1>8, <2>1, <2>2, <2>3, <2>5
  <2>6. CASE \E w \in Crew : s \in Caches[w]
    BY <1>8, <2>1, <2>2, <2>3, <2>6
  <2>7. CASE \E p \in Party : s = Hand[p]
    BY <1>8, <2>1, <2>2, <2>3, <2>7
  <2> QED
    BY <1>8, <2>4, <2>5, <2>6, <2>7
<1> QED
  BY <1>5, <1>6, <1>9
=============================================================================
