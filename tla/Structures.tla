----------------------------- MODULE Structures -----------------------------
(***************************************************************************)
(* The instances of what threads share that have constants for parameters: *)
(* StructuresProofs is about them for every value, MCStructures checks     *)
(* them, and others, for those its configurations give.                    *)
(***************************************************************************)
EXTENDS Naturals, Sequences, FiniteSets

CONSTANTS w1, w2,                            \* threads, w1 a task where it is unwound
          NoOne,
          Unparkers,                         \* of the Parker of w1
          PoolThreads, kMaxThreads, MaxJobs, \* of the blocking pool
          Coroutines, Carriers,              \* coroutines, and the threads under them
          MaxWaits,                          \* in one task of exec
          Teams, Slots, kBatch, kCapacity, MaxSpawns  \* of a scheduler

ASSUME PartiesDiffer == w1 # w2 /\ w1 \notin Unparkers
ASSUME PoolIsFinite == IsFiniteSet(PoolThreads) /\ kMaxThreads \in Nat /\ MaxJobs \in Nat
ASSUME ContextsDiffer ==
    Coroutines \cap Carriers = {} /\ NoOne \notin Coroutines \cup Carriers
ASSUME WaitsAreCounted == MaxWaits \in Nat
ASSUME SlotsAreNumbered == IsFiniteSet(Slots) /\ 0 \notin Slots /\ MaxSpawns \in Nat
ASSUME BatchFits == kBatch \in Nat /\ kCapacity \in Nat /\ kBatch <= kCapacity
\* The workers of a team differ from one another and from its other threads.
ASSUME TeamsAreTeams ==
    \A t \in Teams :
        LET workers == {t.workers[i] : i \in 1 .. Len(t.workers)}
        IN  /\ t.workers \in Seq(workers) /\ "foreign" \notin workers
            /\ \A i, j \in 1 .. Len(t.workers) : t.workers[i] = t.workers[j] => i = j
            /\ workers \cap t.foreign = {}

VARIABLES obj, th

J == INSTANCE Join WITH Finisher <- w1, Joiner <- w2
P == INSTANCE Parker WITH Parked <- w1, Backends <- {"futex", "condvar"}, PlainLook <- FALSE
X == INSTANCE ExecTask
N == INSTANCE BlockingPool WITH Threads <- PoolThreads
O == INSTANCE Coroutine WITH Threads <- Carriers
S == INSTANCE TaskSlots
=============================================================================
