-------------------------- MODULE MCWaitingProofs --------------------------
(***************************************************************************)
(* Proofs about the instances of MCWaiting: a behaviour stays with the     *)
(* instance it began with; the mutex of a ConditionVariable is held by one *)
(* party or free, through waits, relocks and unwinds; and what wait() of a *)
(* WaitGroup and of a Completion returns with is true.  A part of its own, *)
(* about any wait list (WaitInv), says who is linked and who is in the     *)
(* chain of a notifier.                                                    *)
(***************************************************************************)
EXTENDS MCWaiting, FiniteSetTheorems, SequenceTheorems, TLAPS

-----------------------------------------------------------------------------
(* A behaviour is one of one instance.                                     *)

HasKind == "is" \in DOMAIN obj
SameKind == obj'.is = obj.is /\ "is" \in DOMAIN obj'

LEMMA GroupKind == ASSUME HasKind, G!Next PROVE SameKind
BY DEF HasKind, SameKind, G!Next, G!Add, G!Done, G!Wait, G!Look, G!Unwind, G!Environment,
   G!Start, G!RequestStop, G!Step, G!Detach, G!TryNow, G!Drive, G!Enqueue, G!Released, G!Notify,
   G!OnNotified, G!OperationStep, G!Listen, G!OnStop, G!Finish, G!GuardStep, G!WaitGuardExit,
   G!AwaitNotifier

LEMMA ChannelKind == ASSUME HasKind, C!Next PROVE SameKind
BY DEF HasKind, SameKind, C!Next, C!Call, C!Close, C!Unwind, C!Environment, C!Start,
   C!RequestStop, C!Step, C!Send, C!Recv, C!WouldWait, C!PushLocked, C!PopLocked, C!WaitReturns,
   C!Notify, C!OperationStep, C!Listen, C!OnStop, C!Finish, C!GuardStep, C!WaitGuardExit,
   C!AwaitNotifier

LEMMA ConditionKind == ASSUME HasKind, V!Next PROVE SameKind
BY DEF HasKind, SameKind, V!Next, V!Lock, V!MutexLock, V!MutexUnlock, V!Unwind, V!UnwindInLock,
   V!Step, V!Produce, V!Unlock, V!Check, V!Register, V!UnlockToWait, V!Relock, V!NotifyOne,
   V!NotifyAll, V!RelockOnUnwind, V!UnlockGone, V!WaitReturns, V!Notify, V!GuardStep,
   V!WaitGuardExit, V!AwaitNotifier

LEMMA StreamKind == ASSUME HasKind, S!Next PROVE SameKind
BY DEF HasKind, SameKind, S!Next, S!Push, S!Put, S!Room, S!CountDrop, S!Close, S!PopLocked,
   S!Register, S!Detached, S!Call, S!Scan, S!Block, S!Timeout, S!TryNext, S!UnwindHere, S!Detach,
   S!NextOrAttach, S!Operation, S!OperationStep, S!Listen, S!OnStop, S!Finish, S!Environment,
   S!Start, S!RequestStop, S!Step, S!Notify

LEMMA CompletionKind == ASSUME HasKind, F!Next PROVE SameKind
BY DEF HasKind, SameKind, F!Next, F!Claim, F!Write, F!Publish, F!Wake, F!Get, F!Attach, F!Block,
   F!Timeout, F!IsReady, F!UnwindHere, F!Detach, F!Read, F!TryNow, F!AttachOrReady,
   F!OperationStep, F!Listen, F!OnStop, F!Finish, F!Environment, F!Start, F!RequestStop, F!Step

LEMMA SelectKind == ASSUME HasKind, L!Next PROVE SameKind
BY DEF HasKind, SameKind, L!Next, L!Fire, L!Close, L!Begin, L!Select, L!FirstReady, L!AttachAll,
   L!Block, L!Timeout, L!UnwindHere, L!DetachAll, L!Consume, L!RunOne, L!Next1, L!BlockNext,
   L!TimeoutNext, L!UnwindNext, L!ConsumerStep, L!Step, L!Notify

LEMMA TimersKind == ASSUME HasKind, T!Next PROVE SameKind
<1>2. \A w, p, after : T!Fire(w, p, after) => SameKind
  BY DEF HasKind, SameKind, T!Fire, T!removeLocked
<1>3. CASE T!Tick
  BY <1>3 DEF HasKind, SameKind, T!Tick
<1>4. ASSUME NEW p, T!Step(p)
      PROVE  SameKind
  <2>1. T!fireExpired(p) \/ T!fireCallbacksAndClose(p) => SameKind
    BY <1>2 DEF HasKind, SameKind, T!fireExpired, T!fireCallbacksAndClose
  <2>2. T!CancelTimer(p) \/ T!addUnlessCancelled(p) \/ T!CancelOnStop(p) => SameKind
    BY DEF HasKind, SameKind, T!CancelTimer, T!addUnlessCancelled, T!CancelOnStop, T!removeLocked
  <2>3. T!ParkReturns(p) \/ T!LookFired(p) \/ T!Listen(p) \/ T!Run(p) \/ T!Finish(p) \/ T!Act(p)
            => SameKind
    BY DEF HasKind, SameKind, T!ParkReturns, T!LookFired, T!Listen, T!Run, T!Finish, T!Act
  <2> QED
    BY <1>4, <2>1, <2>2, <2>3 DEF T!Step
<1>5. ASSUME NEW p, T!OtherWake(p) \/ T!ForcedUnwind(p) \/ T!RequestStop(p) \/ T!RequestStopAll(p)
      PROVE  SameKind
  BY <1>5 DEF HasKind, SameKind, T!OtherWake, T!ForcedUnwind, T!RequestStop, T!RequestStopAll
<1>6. ASSUME NEW p, NEW d, NEW x, T!StartTimer(p, d) \/ T!AddTimer(p, d, x)
      PROVE  SameKind
  BY <1>6 DEF HasKind, SameKind, T!StartTimer, T!AddTimer
<1> QED
  BY <1>3, <1>4, <1>5, <1>6 DEF T!Next

LEMMA KindStays == ASSUME HasKind, [Next]_vars PROVE SameKind
<1>1. CASE UNCHANGED vars
  BY <1>1 DEF vars, HasKind, SameKind
<1>2. ASSUME Next
      PROVE  G!Next \/ C!Next \/ V!Next \/ S!Next \/ F!Next \/ L!Next \/ T!Next \/ UNCHANGED obj
  BY <1>2 DEF Next, NextOthers
<1>3. CASE UNCHANGED obj
  BY <1>3 DEF HasKind, SameKind
<1> QED
  BY <1>1, <1>2, <1>3, GroupKind, ChannelKind, ConditionKind, StreamKind, CompletionKind,
     SelectKind, TimersKind

LEMMA KindGiven == Init => HasKind
<1>1. G!Init => HasKind
  BY DEF G!Init, HasKind
<1>2. C!Init => HasKind
  BY DEF C!Init, HasKind
<1>3. V!Init => HasKind
  BY DEF V!Init, HasKind
<1>4. S!Init => HasKind
  BY DEF S!Init, HasKind
<1>5. F!Init => HasKind
  BY DEF F!Init, HasKind
<1>6. L!Init => HasKind
  BY DEF L!Init, HasKind
<1>7. T!Init => HasKind
  BY DEF T!Init, HasKind
<1>8. obj = [is |-> "Heap"] \/ obj = [is |-> "Semaphore"] => HasKind
  BY DEF HasKind
<1> QED
  BY <1>1, <1>2, <1>3, <1>4, <1>5, <1>6, <1>7, <1>8 DEF Init, InitOthers

-----------------------------------------------------------------------------
(* The mutex of a ConditionVariable.                                       *)

N(b) == IF b THEN 1 ELSE 0

LEMMA OneMoves ==
    ASSUME NEW A, IsFiniteSet(A), NEW x, NEW B, B \ {x} = A \ {x}
    PROVE  /\ IsFiniteSet(B) /\ Cardinality(A) \in Nat /\ Cardinality(B) \in Nat
           /\ Cardinality(B) + N(x \in A) = Cardinality(A) + N(x \in B)
<1> DEFINE D == A \ {x}
<1>1. IsFiniteSet(D) /\ Cardinality(D) \in Nat /\ x \notin D
  BY FS_Subset, FS_CardinalityType
<1>2. IsFiniteSet(D \cup {x}) /\ Cardinality(D \cup {x}) = Cardinality(D) + 1
  BY <1>1, FS_AddElement
<1>3. A = (IF x \in A THEN D \cup {x} ELSE D) /\ B = (IF x \in B THEN D \cup {x} ELSE D)
  OBVIOUS
<1>4. IsFiniteSet(A) /\ IsFiniteSet(B)
  BY <1>1, <1>2, <1>3
<1> HIDE DEF D
<1>5. /\ Cardinality(A) = Cardinality(D) + N(x \in A)
      /\ Cardinality(B) = Cardinality(D) + N(x \in B)
  <2>1. x \in A => Cardinality(A) = Cardinality(D) + 1 /\ N(x \in A) = 1
    BY <1>2, <1>3 DEF N
  <2>2. x \notin A => Cardinality(A) = Cardinality(D) + 0 /\ N(x \in A) = 0
    BY <1>1, <1>3 DEF N
  <2>3. x \in B => Cardinality(B) = Cardinality(D) + 1 /\ N(x \in B) = 1
    BY <1>2, <1>3 DEF N
  <2>4. x \notin B => Cardinality(B) = Cardinality(D) + 0 /\ N(x \in B) = 0
    BY <1>1, <1>3 DEF N
  <2> QED
    BY <2>1, <2>2, <2>3, <2>4
<1>6. N(x \in A) \in Nat /\ N(x \in B) \in Nat
  BY DEF N
<1> QED
  BY <1>1, <1>4, <1>5, <1>6

MutexPcs == {"produce", "unlockToNotify", "check", "leave", "register", "unlockToWait", "unlockGone"}
IsThread(t) == {"pc", "satisfied", "chain", "result"} \subseteq DOMAIN t
IsCondition(o) == DOMAIN o = {"is", "permits", "items", "q", "gaveUp"}

Holds(o, h, p) == h[p].pc \in MutexPcs /\ p \notin o.gaveUp
Lost(o, h, p) == h[p].pc = "out" /\ p \in o.gaveUp

\* Whoever unwinds without the mutex is on its way out.
MutexInv ==
    /\ IsCondition(obj) /\ obj.permits \in Nat /\ obj.gaveUp \subseteq V!Parties
    /\ DOMAIN th = V!Parties /\ \A p \in V!Parties : IsThread(th[p])
    /\ \A p \in obj.gaveUp : th[p].pc \in {"unlockGone", "out"}
    /\ V!MutexBalanced

\* What a step of p does to the mutex and to who has it.
Passes(p) ==
    /\ IsCondition(obj') /\ obj'.permits \in Nat /\ obj'.gaveUp \subseteq V!Parties
    /\ DOMAIN th' = V!Parties /\ \A r \in V!Parties : IsThread(th'[r])
    /\ \A r \in V!Parties \ {p} : th'[r].pc = th[r].pc /\ (r \in obj'.gaveUp <=> r \in obj.gaveUp)
    /\ p \in obj'.gaveUp => th'[p].pc \in {"unlockGone", "out"}
    /\ obj'.permits + N(Holds(obj', th', p)) + N(Lost(obj, th, p))
           = obj.permits + N(Holds(obj, th, p)) + N(Lost(obj', th', p))

LEMMA MutexPasses ==
    ASSUME MutexInv, NEW p \in V!Parties, Passes(p)
    PROVE  MutexInv'
<1> DEFINE X == {r \in V!Parties : Holds(obj, th, r)}
           Y == {r \in V!Parties : Holds(obj', th', r)}
           I == {r \in V!Parties : Lost(obj, th, r)}
           J == {r \in V!Parties : Lost(obj', th', r)}
<1>0. \A A : V!Cardinality(A) = Cardinality(A)
  BY DEF V!Cardinality, Cardinality
<1>1. IsFiniteSet(V!Parties)
  BY ConditionUsers DEF V!Parties
<1>2. IsFiniteSet(X) /\ IsFiniteSet(I)
  BY <1>1, FS_Subset
<1>3. /\ X = V!Holders /\ I = {r \in obj.gaveUp : th[r].pc = "out"}
      /\ Y = V!Holders' /\ J = {r \in obj'.gaveUp : th'[r].pc = "out"}
  BY DEF MutexInv, Passes, Holds, Lost, MutexPcs, V!Holders
<1>4. Y \ {p} = X \ {p} /\ J \ {p} = I \ {p}
  BY DEF Passes, Holds, Lost
<1>5. /\ N(p \in X) = N(Holds(obj, th, p)) /\ N(p \in Y) = N(Holds(obj', th', p))
      /\ N(p \in I) = N(Lost(obj, th, p)) /\ N(p \in J) = N(Lost(obj', th', p))
  BY DEF N
<1> HIDE DEF X, Y, I, J
<1>6. \A b : N(b) \in Nat
  BY DEF N
<1>7. obj.permits + Cardinality(X) = 1 + Cardinality(I) /\ obj.permits \in Nat /\ obj'.permits \in Nat
  BY <1>0, <1>3 DEF MutexInv, Passes, V!MutexBalanced
<1>8. obj'.permits + N(p \in Y) + N(p \in I) = obj.permits + N(p \in X) + N(p \in J)
  BY <1>5 DEF Passes
<1>9. /\ Cardinality(X) \in Nat /\ Cardinality(Y) \in Nat
      /\ Cardinality(Y) + N(p \in X) = Cardinality(X) + N(p \in Y)
  BY <1>2, <1>4, OneMoves
<1>10. /\ Cardinality(I) \in Nat /\ Cardinality(J) \in Nat
       /\ Cardinality(J) + N(p \in I) = Cardinality(I) + N(p \in J)
  BY <1>2, <1>4, OneMoves
<1>11. obj'.permits + Cardinality(Y) = 1 + Cardinality(J)
  BY <1>6, <1>7, <1>8, <1>9, <1>10
<1>12. obj'.permits + Cardinality(V!Holders') =
           1 + Cardinality({r \in obj'.gaveUp : th'[r].pc = "out"})
  BY <1>3, <1>11
<1>13. V!MutexBalanced'
  BY <1>0, <1>12 DEF V!MutexBalanced
<1> QED
  BY <1>13 DEF MutexInv, Passes

LEMMA MutexInit == ASSUME V!Init PROVE MutexInv
<1>1. V!Parties = CondTasks \cup Threads /\ DOMAIN th = V!Parties
  BY DEF V!Init, V!Parties
<1>2. V!Holders = {} /\ {p \in obj.gaveUp : th[p].pc = "out"} = {} /\ obj.permits = 1
  BY DEF V!Init, V!Holders, V!Resting
<1>3. V!MutexBalanced
  <2>1. \A A : V!Cardinality(A) = Cardinality(A)
    BY DEF V!Cardinality, Cardinality
  <2> QED
    BY <1>2, <2>1, FS_EmptySet DEF V!MutexBalanced
<1>4. \A p \in V!Parties : IsThread(th[p])
  BY DEF V!Init, V!Resting, IsThread
<1>5. DOMAIN obj = {"is", "permits", "items", "q", "gaveUp"} /\ obj.permits = 1 /\ obj.gaveUp = {}
  BY DEF V!Init
<1> QED
  BY <1>1, <1>3, <1>4, <1>5 DEF MutexInv, IsCondition

\* The mutex is kept, locked, unlocked, given up, or unlocked by one that never had it.
Handles(p) ==
    LET had == th[p].pc \in MutexPcs
        has == th'[p].pc \in MutexPcs
    IN  /\ p \notin obj.gaveUp
        /\ \/ /\ obj'.permits = obj.permits /\ (had <=> has) /\ obj'.gaveUp = obj.gaveUp
           \/ /\ obj.permits > 0 /\ obj'.permits = obj.permits - 1 /\ ~had /\ has
              /\ obj'.gaveUp = obj.gaveUp
           \/ obj'.permits = obj.permits + 1 /\ had /\ ~has /\ obj'.gaveUp = obj.gaveUp
           \/ /\ obj'.permits = obj.permits /\ ~had /\ th'[p].pc = "unlockGone"
              /\ obj'.gaveUp = obj.gaveUp \cup {p}
LeavesWithout(p) ==
    /\ p \in obj.gaveUp /\ th[p].pc = "unlockGone" /\ th'[p].pc = "out"
    /\ obj'.permits = obj.permits + 1 /\ obj'.gaveUp = obj.gaveUp
\* Only p goes anywhere.
OnlyGoes(p) ==
    /\ IsCondition(obj') /\ DOMAIN th' = V!Parties /\ \A r \in V!Parties : IsThread(th'[r])
    /\ \A r \in V!Parties \ {p} : th'[r].pc = th[r].pc

LEMMA HandlesPasses ==
    ASSUME MutexInv, NEW p \in V!Parties, OnlyGoes(p), Handles(p) \/ LeavesWithout(p)
    PROVE  Passes(p)
<1>1. obj'.permits \in Nat /\ obj'.gaveUp \subseteq V!Parties
  BY DEF MutexInv, Handles, LeavesWithout
<1>2. \A r \in V!Parties \ {p} : r \in obj'.gaveUp <=> r \in obj.gaveUp
  BY DEF Handles, LeavesWithout
<1>3. p \in obj'.gaveUp => th'[p].pc \in {"unlockGone", "out"}
  BY DEF Handles, LeavesWithout
<1>4. obj'.permits + N(Holds(obj', th', p)) + N(Lost(obj, th, p))
          = obj.permits + N(Holds(obj, th, p)) + N(Lost(obj', th', p))
  <2>1. /\ Holds(obj, th, p) => N(Holds(obj, th, p)) = 1
        /\ ~Holds(obj, th, p) => N(Holds(obj, th, p)) = 0
        /\ Holds(obj', th', p) => N(Holds(obj', th', p)) = 1
        /\ ~Holds(obj', th', p) => N(Holds(obj', th', p)) = 0
        /\ Lost(obj, th, p) => N(Lost(obj, th, p)) = 1
        /\ ~Lost(obj, th, p) => N(Lost(obj, th, p)) = 0
        /\ Lost(obj', th', p) => N(Lost(obj', th', p)) = 1
        /\ ~Lost(obj', th', p) => N(Lost(obj', th', p)) = 0
    BY DEF N
  <2>2. obj.permits \in Nat /\ obj'.permits \in Nat
    BY <1>1 DEF MutexInv
  <2>3. CASE LeavesWithout(p)
    <3>1. ~Lost(obj, th, p) /\ Lost(obj', th', p) /\ ~Holds(obj, th, p) /\ ~Holds(obj', th', p)
      BY <2>3 DEF LeavesWithout, Lost, Holds
    <3>2. /\ N(Lost(obj, th, p)) = 0 /\ N(Lost(obj', th', p)) = 1
          /\ N(Holds(obj, th, p)) = 0 /\ N(Holds(obj', th', p)) = 0
      BY <2>1, <3>1
    <3>3. obj'.permits = obj.permits + 1
      BY <2>3 DEF LeavesWithout
    <3> QED
      BY <2>2, <3>2, <3>3
  <2>4. CASE Handles(p)
    <3>1. ~Lost(obj, th, p) /\ (Holds(obj, th, p) <=> th[p].pc \in MutexPcs)
      BY <2>4 DEF Handles, Lost, Holds
    <3>2. ~Lost(obj', th', p)
      BY <2>4 DEF Handles, Lost
    <3>3. Holds(obj', th', p) <=> p \notin obj'.gaveUp /\ th'[p].pc \in MutexPcs
      BY DEF Holds
    <3>4. N(Lost(obj, th, p)) = 0 /\ N(Lost(obj', th', p)) = 0
      BY <2>1, <3>1, <3>2
    <3>5. \/ obj'.permits = obj.permits /\ (Holds(obj, th, p) <=> Holds(obj', th', p))
          \/ obj'.permits = obj.permits - 1 /\ ~Holds(obj, th, p) /\ Holds(obj', th', p)
          \/ obj'.permits = obj.permits + 1 /\ Holds(obj, th, p) /\ ~Holds(obj', th', p)
      <4>1. obj'.gaveUp = obj.gaveUp => (Holds(obj', th', p) <=> th'[p].pc \in MutexPcs)
        BY <2>4, <3>3 DEF Handles
      <4>2. obj'.gaveUp = obj.gaveUp \cup {p} => ~Holds(obj', th', p)
        BY <3>3
      <4> QED
        BY <2>4, <3>1, <4>1, <4>2 DEF Handles
    <3> QED
      BY <2>1, <2>2, <3>4, <3>5
  <2> QED
    BY <2>3, <2>4
<1> QED
  BY <1>1, <1>2, <1>3, <1>4 DEF Passes, OnlyGoes

LEMMA GoesOnly ==
    ASSUME MutexInv, NEW p \in V!Parties, NEW x, V!Go(p, x), IsCondition(obj')
    PROVE  OnlyGoes(p) /\ th'[p].pc = x
BY DEF MutexInv, V!Go, OnlyGoes, IsThread

LEMMA LockHandles ==
    ASSUME MutexInv, NEW p \in V!Parties, NEW x, NEW y, V!MutexLock(p, x, y),
           x \notin MutexPcs \cup {"out"}, y \in MutexPcs
    PROVE  Passes(p)
<1>1. /\ IsCondition(obj') /\ obj'.permits = obj.permits - 1 /\ obj.permits > 0
      /\ obj'.gaveUp = obj.gaveUp /\ th[p].pc = x
  BY DEF MutexInv, IsCondition, V!MutexLock, V!At
<1>2. OnlyGoes(p) /\ th'[p].pc = y
  BY <1>1, GoesOnly DEF V!MutexLock
<1>3. p \notin obj.gaveUp
  BY <1>1 DEF MutexInv, MutexPcs
<1> QED
  BY <1>1, <1>2, <1>3, HandlesPasses DEF Handles

LEMMA UnlockHandles ==
    ASSUME MutexInv, NEW p \in V!Parties, NEW x, NEW y, V!MutexUnlock(p, x, y),
           x \in MutexPcs, y \notin MutexPcs, x = "unlockGone" => y = "out"
    PROVE  Passes(p)
<1>1. /\ IsCondition(obj') /\ obj'.permits = obj.permits + 1
      /\ obj'.gaveUp = obj.gaveUp /\ th[p].pc = x
  BY DEF MutexInv, IsCondition, V!MutexUnlock, V!At
<1>2. OnlyGoes(p) /\ th'[p].pc = y
  BY <1>1, GoesOnly DEF V!MutexUnlock
<1>3. CASE p \notin obj.gaveUp
  BY <1>1, <1>2, <1>3, HandlesPasses DEF Handles
<1>4. CASE p \in obj.gaveUp
  <2>1. x = "unlockGone"
    BY <1>1, <1>4 DEF MutexInv, MutexPcs
  <2> QED
    BY <1>1, <1>2, <1>4, <2>1, HandlesPasses DEF LeavesWithout
<1> QED
  BY <1>3, <1>4

\* A step that leaves the mutex alone.
LEMMA KeepsMutex ==
    ASSUME MutexInv, NEW p \in V!Parties, OnlyGoes(p),
           th[p].pc \notin {"unlockGone", "out"}, th[p].pc \in MutexPcs <=> th'[p].pc \in MutexPcs,
           obj'.permits = obj.permits, obj'.gaveUp = obj.gaveUp
    PROVE  Passes(p)
<1>1. p \notin obj.gaveUp
  BY DEF MutexInv
<1> QED
  BY <1>1, HandlesPasses DEF Handles

LEMMA GoKeeps ==
    ASSUME MutexInv, NEW p \in V!Parties, NEW x, NEW y, V!At(p, x), V!Go(p, y), IsCondition(obj'),
           x \notin {"unlockGone", "out"}, x \in MutexPcs <=> y \in MutexPcs,
           obj'.permits = obj.permits, obj'.gaveUp = obj.gaveUp
    PROVE  Passes(p)
BY GoesOnly, KeepsMutex DEF V!At

LEMMA GivesUp ==
    ASSUME MutexInv, NEW p \in V!Parties, V!At(p, "gone") \/ V!At(p, "relock"),
           obj' = [obj EXCEPT !.gaveUp = @ \cup {p}], V!Go(p, "unlockGone")
    PROVE  Passes(p)
<1>1. /\ IsCondition(obj') /\ obj'.permits = obj.permits /\ obj'.gaveUp = obj.gaveUp \cup {p}
      /\ th[p].pc \notin MutexPcs /\ p \notin obj.gaveUp
  BY DEF MutexInv, IsCondition, V!At, MutexPcs
<1> QED
  BY <1>1, GoesOnly, HandlesPasses DEF Handles

LEMMA ConditionStep ==
    ASSUME MutexInv, NEW p \in V!Parties,
           V!Lock(p) \/ V!Unwind(p) \/ V!UnwindInLock(p) \/ V!Step(p)
    PROVE  Passes(p)
<1>1. CASE V!Lock(p)
  BY <1>1, LockHandles DEF V!Lock, MutexPcs
<1>2. CASE V!Unwind(p)
  BY <1>2, GoKeeps DEF V!Unwind, MutexPcs, MutexInv
<1>3. CASE V!UnwindInLock(p)
  BY <1>3, GivesUp DEF V!UnwindInLock
<1>4. CASE V!Produce(p)
  <2>1. IsCondition(obj') /\ obj'.permits = obj.permits /\ obj'.gaveUp = obj.gaveUp
    BY <1>4 DEF V!Produce, MutexInv, IsCondition
  <2> QED
    BY <1>4, <2>1, GoKeeps DEF V!Produce, MutexPcs
<1>5. CASE V!Unlock(p)
  BY <1>5, UnlockHandles DEF V!Unlock, MutexPcs
<1>6. CASE V!Check(p)
  <2>1. IsCondition(obj') /\ obj'.permits = obj.permits /\ obj'.gaveUp = obj.gaveUp
    BY <1>6 DEF V!Check, MutexInv, IsCondition
  <2> QED
    BY <1>6, <2>1, GoKeeps DEF V!Check, MutexPcs
<1>7. CASE V!Register(p)
  <2>1. IsCondition(obj') /\ obj'.permits = obj.permits /\ obj'.gaveUp = obj.gaveUp
    BY <1>7 DEF V!Register, MutexInv, IsCondition
  <2>2. th' = [th EXCEPT ![p].pc = "unlockToWait", ![p].satisfied = FALSE] /\ th[p].pc = "register"
    BY <1>7 DEF V!Register, V!At
  <2>3. OnlyGoes(p) /\ th'[p].pc = "unlockToWait"
    BY <2>1, <2>2 DEF OnlyGoes, MutexInv, IsThread
  <2> QED
    BY <2>1, <2>2, <2>3, KeepsMutex DEF MutexPcs
<1>8. CASE V!UnlockToWait(p)
  BY <1>8, UnlockHandles DEF V!UnlockToWait, MutexPcs
<1>9. CASE V!Relock(p)
  BY <1>9, LockHandles DEF V!Relock, MutexPcs
<1>10. ASSUME NEW c, V!ReturnNotifying(p, c, "none"), V!At(p, "announce"), IsCondition(obj'),
              obj'.permits = obj.permits, obj'.gaveUp = obj.gaveUp
       PROVE  Passes(p)
  <2>1. \/ th' = [th EXCEPT ![p].pc = "idle", ![p].result = "none"]
        \/ th' = [th EXCEPT ![p].pc = "notify", ![p].chain = c, ![p].result = "none"]
    BY <1>10 DEF V!ReturnNotifying, V!Return
  <2>2. OnlyGoes(p) /\ th'[p].pc \in {"idle", "notify"}
    BY <1>10, <2>1 DEF OnlyGoes, MutexInv, IsThread
  <2> QED
    BY <1>10, <2>2, KeepsMutex DEF V!At, MutexPcs
<1>11. CASE V!NotifyOne(p) \/ V!NotifyAll(p)
  <2>1. IsCondition(obj') /\ obj'.permits = obj.permits /\ obj'.gaveUp = obj.gaveUp
    BY <1>11 DEF V!NotifyOne, V!NotifyAll, MutexInv, IsCondition
  <2> QED
    BY <1>10, <1>11, <2>1 DEF V!NotifyOne, V!NotifyAll
<1>12. CASE V!RelockOnUnwind(p)
  BY <1>12, LockHandles, GivesUp DEF V!RelockOnUnwind, MutexPcs
<1>13. CASE V!UnlockGone(p)
  BY <1>13, UnlockHandles DEF V!UnlockGone, MutexPcs
<1>14. CASE V!WaitReturns(p, "relock")
  <2>1. th' = [th EXCEPT ![p].pc = "relock", ![p].satisfied = FALSE] /\ th[p].pc = "wait" /\ obj' = obj
    BY <1>14 DEF V!WaitReturns, V!At
  <2>2. OnlyGoes(p) /\ th'[p].pc = "relock"
    BY <2>1 DEF OnlyGoes, MutexInv, IsThread
  <2> QED
    BY <2>1, <2>2, KeepsMutex DEF MutexPcs
<1>15. CASE V!Notify(p, "none")
  <2> DEFINE w == Head(th[p].chain)
  <2>1. /\ th' = [th EXCEPT ![p].chain = Tail(@), ![p].pc = IF Len(th[p].chain) # 1 THEN @ ELSE "idle",
                            ![w].satisfied = (w \in V!Blocking), ![w].pc = @]
        /\ th[p].pc = "notify" /\ obj' = obj
    BY <1>15 DEF V!Notify, V!At
  <2>2. PICK y \in {"idle", "notify"} : y = IF Len(th[p].chain) # 1 THEN th[p].pc ELSE "idle"
    BY <2>1
  <2>3. PICK c : c = Tail(th[p].chain)
    OBVIOUS
  <2>4. PICK s : s = (w \in V!Blocking)
    OBVIOUS
  <2> HIDE DEF w
  <2>5. th' = [th EXCEPT ![p].chain = c, ![p].pc = y, ![w].satisfied = s, ![w].pc = @]
    BY <2>1, <2>2, <2>3, <2>4
  <2>6. DOMAIN th = V!Parties /\ \A r \in V!Parties : IsThread(th[r])
    BY DEF MutexInv
  <2>7. DOMAIN th' = V!Parties /\ \A r \in V!Parties : IsThread(th'[r])
    BY <2>5, <2>6 DEF IsThread
  <2>8. \A r \in V!Parties \ {p} : th'[r].pc = th[r].pc
    BY <2>5, <2>6 DEF IsThread
  <2>9. th'[p].pc \in {"idle", "notify"}
    <3>1. CASE w = p
      BY <2>1, <2>2, <2>5, <2>6, <3>1 DEF IsThread
    <3>2. CASE w # p
      BY <2>2, <2>5, <2>6, <3>2 DEF IsThread
    <3> QED
      BY <3>1, <3>2
  <2>10. OnlyGoes(p)
    BY <2>1, <2>7, <2>8 DEF OnlyGoes, MutexInv
  <2> QED
    BY <2>1, <2>9, <2>10, KeepsMutex DEF MutexPcs
<1>16. CASE V!WaitGuardExit(p)
  <2>1. IsCondition(obj') /\ obj'.permits = obj.permits /\ obj'.gaveUp = obj.gaveUp
    BY <1>16 DEF V!WaitGuardExit, MutexInv, IsCondition
  <2> QED
    BY <1>16, <2>1, GoKeeps DEF V!WaitGuardExit, MutexPcs
<1>17. CASE V!AwaitNotifier(p)
  BY <1>17, GoKeeps DEF V!AwaitNotifier, MutexPcs, MutexInv
<1> QED
  BY <1>1, <1>2, <1>3, <1>4, <1>5, <1>6, <1>7, <1>8, <1>9, <1>11, <1>12, <1>13, <1>14, <1>15,
     <1>16, <1>17 DEF V!Step, V!GuardStep

MutexSafe == HasKind /\ (Is("ConditionVariable") => MutexInv)

\* The mutex stays a mutex through waits, relocks and unwinds: one party holds it
\* or it is free, but for the permit that each task unwound without it adds.
THEOREM MutexStaysBalanced == Spec => []MutexBalanced
<1>1. Init => MutexSafe
  <2> SUFFICES ASSUME Init, Is("ConditionVariable")
               PROVE  MutexInv
    BY KindGiven DEF MutexSafe
  <2>1. V!Init
    BY DEF Init, InitOthers, Is, G!Init, C!Init, S!Init, F!Init, L!Init, T!Init
  <2> QED
    BY <2>1, MutexInit
<1>2. MutexSafe /\ [Next]_vars => MutexSafe'
  <2> SUFFICES ASSUME MutexSafe, [Next]_vars, obj'.is = "ConditionVariable"
               PROVE  MutexInv'
    BY KindStays DEF MutexSafe, SameKind, HasKind, Is
  <2>1. obj.is = "ConditionVariable" /\ MutexInv
    BY KindStays DEF MutexSafe, SameKind, Is
  <2>2. CASE UNCHANGED vars
    BY <2>1, <2>2 DEF vars, MutexInv, V!MutexBalanced, V!Holders
  <2>3. CASE V!Next
    BY <2>1, <2>3, ConditionStep, MutexPasses DEF V!Next
  <2>4. V!Next \/ UNCHANGED vars
    BY <2>1 DEF Next, NextOthers, Is
  <2> QED
    BY <2>2, <2>3, <2>4
<1>3. MutexSafe => MutexBalanced
  BY DEF MutexSafe, MutexBalanced, MutexInv
<1> QED
  BY <1>1, <1>2, <1>3, PTL DEF Spec

-----------------------------------------------------------------------------
(* Lists without repetition.                                               *)

Elems(q) == {q[i] : i \in 1 .. Len(q)}
Once(q) == \A i, j \in 1 .. Len(q) : q[i] = q[j] => i = j
List(A, q) == q \in Seq(A) /\ Once(q)
Differ(a, b) == Elems(a) \cap Elems(b) = {}

LEMMA AppendToList ==
    \A A, q, x : List(A, q) /\ x \in A /\ x \notin Elems(q) =>
        List(A, Append(q, x)) /\ Elems(Append(q, x)) = Elems(q) \cup {x}
<1> SUFFICES ASSUME NEW A, NEW q \in Seq(A), Once(q), NEW x \in A, x \notin Elems(q)
             PROVE  List(A, Append(q, x)) /\ Elems(Append(q, x)) = Elems(q) \cup {x}
  BY DEF List
<1> DEFINE r == Append(q, x)
<1>1. /\ r \in Seq(A) /\ Len(r) = Len(q) + 1 /\ \A i \in 1 .. Len(q) : r[i] = q[i]
      /\ r[Len(r)] = x
  OBVIOUS
<1> HIDE DEF r
<1>2. Once(r)
  BY <1>1 DEF Once, Elems
<1>3. Elems(r) = Elems(q) \cup {x}
  BY <1>1 DEF Elems
<1> QED
  BY <1>1, <1>2, <1>3 DEF List, r

LEMMA HeadOfList ==
    \A A, q : List(A, q) /\ q # <<>> =>
        LET r == Tail(q)
            x == Head(q)
        IN  List(A, r) /\ x \in A /\ Elems(r) \cup {x} = Elems(q) /\ x \notin Elems(r)
<1> TAKE A, q
<1> HAVE List(A, q) /\ q # <<>>
<1> DEFINE r == Tail(q)
           x == Head(q)
<1>0. q \in Seq(A) /\ Once(q) /\ Len(q) \in Nat \ {0}
  BY DEF List
<1>1. Len(q) \in Nat \ {0} /\ x \in A /\ x = q[1] /\ Once(q)
  BY <1>0
<1>2. /\ r \in Seq(A) /\ Len(r) = Len(q) - 1 /\ \A i \in 1 .. Len(r) : r[i] = q[i + 1]
  BY <1>0
<1> HIDE DEF r, x
<1>3. Once(r)
  BY <1>1, <1>2 DEF Once
<1>4. x \notin Elems(r)
  BY <1>1, <1>2 DEF Once, Elems
<1>5. Elems(r) \cup {x} \subseteq Elems(q)
  BY <1>1, <1>2 DEF Elems
<1>6. ASSUME NEW i \in 1 .. Len(q)
      PROVE  q[i] \in Elems(r) \cup {x}
  <2>1. CASE i # 1
    <3>1. i - 1 \in 1 .. Len(r) /\ r[i - 1] = q[i]
      BY <1>1, <1>2, <2>1
    <3> QED
      BY <3>1 DEF Elems
  <2> QED
    BY <1>1, <2>1
<1>7. Elems(q) \subseteq Elems(r) \cup {x}
  BY <1>6 DEF Elems
<1> QED
  BY <1>1, <1>2, <1>3, <1>4, <1>5, <1>7 DEF List, r, x

LEMMA ReverseOfList ==
    \A A, q : List(A, q) =>
        LET r == [i \in 1 .. Len(q) |-> q[Len(q) + 1 - i]]
        IN  List(A, r) /\ Elems(r) = Elems(q)
<1> TAKE A, q
<1> HAVE List(A, q)
<1> DEFINE n == Len(q)
           r == [i \in 1 .. Len(q) |-> q[Len(q) + 1 - i]]
<1>0. q \in Seq(A) /\ Once(q) /\ Len(q) \in Nat
  BY DEF List
<1>1. \A i \in 1 .. n : n + 1 - i \in 1 .. n /\ q[n + 1 - i] \in A
  BY <1>0
<1>2. r \in Seq(A) /\ Len(r) = n /\ \A i \in 1 .. n : r[i] = q[n + 1 - i]
  BY <1>0, <1>1
<1> HIDE DEF r
<1>3. Once(r)
  <2> SUFFICES ASSUME NEW i \in 1 .. n, NEW j \in 1 .. n, r[i] = r[j]
               PROVE  i = j
    BY <1>2 DEF Once
  <2>1. n + 1 - i = n + 1 - j
    BY <1>0, <1>1, <1>2 DEF Once
  <2> QED
    BY <1>0, <2>1
<1>4. Elems(r) \subseteq Elems(q)
  BY <1>1, <1>2 DEF Elems
<1>5. Elems(q) \subseteq Elems(r)
  <2> SUFFICES ASSUME NEW i \in 1 .. n
               PROVE  q[i] \in Elems(r)
    BY DEF Elems
  <2>1. n + 1 - i \in 1 .. n /\ n + 1 - (n + 1 - i) = i
    BY <1>0
  <2> QED
    BY <1>2, <2>1 DEF Elems
<1> QED
  BY <1>2, <1>3, <1>4, <1>5 DEF List, r

LEMMA DropFromList ==
    \A A, q, k : List(A, q) /\ k \in 1 .. Len(q) =>
        LET r == SubSeq(q, 1, k - 1) \o SubSeq(q, k + 1, Len(q))
        IN  List(A, r) /\ Elems(r) = Elems(q) \ {q[k]}
<1> TAKE A, q, k
<1> HAVE List(A, q) /\ k \in 1 .. Len(q)
<1> DEFINE a == SubSeq(q, 1, k - 1)
           b == SubSeq(q, k + 1, Len(q))
           r == a \o b
<1>0. q \in Seq(A) /\ Once(q) /\ Len(q) \in Nat /\ k \in 1 .. Len(q)
  BY DEF List
<1>1. /\ a \in Seq(A) /\ Len(a) = k - 1 /\ \A i \in 1 .. k - 1 : a[i] = q[i]
      /\ b \in Seq(A) /\ Len(b) = Len(q) - k /\ \A i \in 1 .. Len(q) - k : b[i] = q[k + i]
  BY <1>0
<1> HIDE DEF a, b
<1>2. /\ r \in Seq(A) /\ Len(r) = Len(q) - 1
      /\ \A i \in 1 .. Len(r) : r[i] = IF i < k THEN q[i] ELSE q[i + 1]
  BY <1>0, <1>1
<1> HIDE DEF r
<1>3. Once(r)
  <2> SUFFICES ASSUME NEW i \in 1 .. Len(r), NEW j \in 1 .. Len(r), r[i] = r[j]
               PROVE  i = j
    BY DEF Once
  <2> DEFINE f(x) == IF x < k THEN x ELSE x + 1
  <2>1. f(i) \in 1 .. Len(q) /\ f(j) \in 1 .. Len(q) /\ q[f(i)] = q[f(j)]
    BY <1>0, <1>2
  <2>2. f(i) = f(j)
    BY <1>0, <2>1 DEF Once
  <2> QED
    BY <1>0, <1>2, <2>2
<1>4. Elems(r) \subseteq Elems(q) \ {q[k]}
  <2> SUFFICES ASSUME NEW i \in 1 .. Len(r)
               PROVE  r[i] \in Elems(q) \ {q[k]}
    BY DEF Elems
  <2> DEFINE f == IF i < k THEN i ELSE i + 1
  <2>1. f \in 1 .. Len(q) /\ f # k /\ r[i] = q[f]
    BY <1>0, <1>2
  <2> QED
    BY <1>0, <2>1 DEF Once, Elems
<1>5. Elems(q) \ {q[k]} \subseteq Elems(r)
  <2> SUFFICES ASSUME NEW i \in 1 .. Len(q), i # k
               PROVE  q[i] \in Elems(r)
    BY DEF Elems
  <2> DEFINE f == IF i < k THEN i ELSE i - 1
  <2>1. f \in 1 .. Len(r) /\ r[f] = q[i]
    BY <1>0, <1>2
  <2> QED
    BY <2>1 DEF Elems
<1> QED
  BY <1>2, <1>3, <1>4, <1>5 DEF List, r, a, b

-----------------------------------------------------------------------------
(* Waiter, WaitList, WaitGuard: what all primitives with wait lists share. *)

WaitPcs ==
    {"idle", "detach", "enqueue", "tryNow", "listen", "drive", "queued", "wait", "unwind",
     "awaitNotifier", "gone", "notify", "notified", "finish", "done", "attempt", "trying",
     "produce", "unlockToNotify", "announce", "leave", "check", "register", "unlockToWait",
     "relock", "unlockGone", "out"}
Stops == {"quiet", "listening", "requested", "running", "over"}
Results == {"none", "value", "stopped", "closed", "moved", "wouldBlock"}
WaitThread(all) ==
    [pc : WaitPcs, satisfied : BOOLEAN, cancelled : BOOLEAN, stop : Stops,
     chain : Seq(all), result : Results]

\* Someone waits whom no notifier has reached: an operation, or a task or thread.
Waits(ops, p, t) ==
    \/ p \in ops /\ t.pc = "queued"
    \/ /\ p \notin ops /\ ~t.satisfied
       /\ t.pc \in {"unlockToWait", "wait", "unwind", "awaitNotifier"}

In(q, p) == \E l \in DOMAIN q : p \in Elems(q[l])
On(h, p) == \E n \in DOMAIN h : p \in Elems(h[n].chain)

Apart(q, h) ==
    /\ \A l, m \in DOMAIN q : l # m => Differ(q[l], q[m])
    /\ \A n, m \in DOMAIN h : n # m => Differ(h[n].chain, h[m].chain)
    /\ \A l \in DOMAIN q, n \in DOMAIN h : Differ(q[l], h[n].chain)

\* Whoever waits is in one of the lists q or in the chain of one of the threads h,
\* and there once.
WaitInv(ops, all, q, h) ==
    /\ h \in [all -> WaitThread(all)]
    /\ \A l \in DOMAIN q : List(all, q[l])
    /\ \A n \in all : List(all, h[n].chain) /\ (h[n].pc = "notify" <=> h[n].chain # <<>>)
    /\ Apart(q, h)
    /\ \A p \in all : Waits(ops, p, h[p]) <=> In(q, p) \/ On(h, p)

\* An operation that ends has its result, and its stop callback is over.
Ends(t) ==
    /\ t.pc = "done" => t.stop # "running"
    /\ t.pc \in {"finish", "done", "notify"} => t.result # "none"

\* From h to k only p does anything.
Moves(all, h, k, p) ==
    k \in [all -> WaitThread(all)] /\ \A r \in all \ {p} : k[r] = h[r]

LEMMA EmptyList == \A A : List(A, <<>>) /\ Elems(<<>>) = {}
<1> TAKE A
<1>1. <<>> \in Seq(A) /\ Len(<<>>) = 0
  OBVIOUS
<1> QED
  BY <1>1 DEF List, Once, Elems

LEMMA NoElems == \A A, q : List(A, q) => (q = <<>> <=> Elems(q) = {}) /\ Elems(q) \subseteq A
<1> TAKE A, q
<1> HAVE List(A, q)
<1>1. q \in Seq(A) /\ Len(q) \in Nat /\ (q = <<>> <=> Len(q) = 0)
  BY DEF List
<1>2. \A i \in 1 .. Len(q) : q[i] \in A
  BY <1>1
<1>3. Elems(q) \subseteq A
  BY <1>2 DEF Elems
<1>4. ASSUME q # <<>>
      PROVE  Elems(q) # {}
  <2>1. 1 \in 1 .. Len(q)
    BY <1>1, <1>4
  <2> QED
    BY <2>1 DEF Elems
<1>5. Elems(<<>>) = {}
  BY EmptyList
<1> QED
  BY <1>3, <1>4, <1>5


LEMMA LastOfList == \A A, q : List(A, q) /\ q # <<>> => (Tail(q) # <<>> <=> Len(q) # 1)
<1> TAKE A, q
<1> HAVE List(A, q) /\ q # <<>>
<1>1. q \in Seq(A) /\ Len(Tail(q)) = Len(q) - 1 /\ Tail(q) \in Seq(A)
  BY DEF List
<1> QED
  BY <1>1

LEMMA HeadInList == \A A, q : List(A, q) /\ q # <<>> => Head(q) \in A /\ Head(q) \in Elems(q)
<1> TAKE A, q
<1> HAVE List(A, q) /\ q # <<>>
<1>1. q \in Seq(A) /\ Head(q) = q[1] /\ 1 \in 1 .. Len(q)
  BY DEF List
<1> QED
  BY <1>1 DEF Elems

\* Everyone waiting is where it was.
LEMMA Stays ==
    ASSUME NEW ops, NEW all, NEW q, NEW h, NEW k, NEW p \in all,
           WaitInv(ops, all, q, h), Moves(all, h, k, p),
           k[p].chain = h[p].chain, k[p].pc = "notify" <=> h[p].pc = "notify",
           Waits(ops, p, k[p]) <=> Waits(ops, p, h[p])
    PROVE  WaitInv(ops, all, q, k)
<1>1. /\ h \in [all -> WaitThread(all)] /\ k \in [all -> WaitThread(all)]
      /\ \A r \in all \ {p} : k[r] = h[r]
  BY DEF WaitInv, Moves
<1>2. DOMAIN h = all /\ DOMAIN k = all
  BY <1>1
<1>3. \A r \in all : /\ k[r].chain = h[r].chain
                     /\ k[r].pc = "notify" <=> h[r].pc = "notify"
                     /\ Waits(ops, r, k[r]) <=> Waits(ops, r, h[r])
  BY <1>1
<1>4. \A r : On(k, r) <=> On(h, r)
  BY <1>2, <1>3 DEF On
<1>5. Apart(q, k)
  BY <1>2, <1>3 DEF Apart, WaitInv
<1> QED
  BY <1>1, <1>3, <1>4, <1>5 DEF WaitInv

\* One party goes into a list.
LEMMA JoinsList ==
    ASSUME NEW ops, NEW all, NEW q, NEW z, NEW h, NEW k, NEW p \in all, NEW l \in DOMAIN q,
           WaitInv(ops, all, q, h), Moves(all, h, k, p),
           k[p].chain = h[p].chain, k[p].pc = "notify" <=> h[p].pc = "notify",
           ~Waits(ops, p, h[p]), Waits(ops, p, k[p]),
           DOMAIN z = DOMAIN q, z[l] = Append(q[l], p),
           \A m \in DOMAIN q : m # l => z[m] = q[m]
    PROVE  WaitInv(ops, all, z, k)
<1>7. DOMAIN z = DOMAIN q /\ \A m \in DOMAIN q : z[m] = IF m = l THEN Append(q[l], p) ELSE q[m]
  OBVIOUS
<1>1. /\ h \in [all -> WaitThread(all)] /\ k \in [all -> WaitThread(all)]
      /\ \A r \in all \ {p} : k[r] = h[r]
  BY DEF WaitInv, Moves
<1>2. DOMAIN h = all /\ DOMAIN k = all
  BY <1>1
<1>3. \A r \in all : /\ k[r].chain = h[r].chain
                     /\ k[r].pc = "notify" <=> h[r].pc = "notify"
                     /\ Waits(ops, r, k[r]) <=> Waits(ops, r, h[r]) \/ r = p
  BY <1>1
<1>4. ~In(q, p) /\ ~On(h, p)
  BY DEF WaitInv
<1>5. p \notin Elems(q[l]) /\ List(all, q[l])
  BY <1>4 DEF In, WaitInv
<1>6. List(all, Append(q[l], p)) /\ Elems(Append(q[l], p)) = Elems(q[l]) \cup {p}
  <2>1. \A A, x : List(A, q[l]) /\ x \in A /\ x \notin Elems(q[l]) =>
           List(A, Append(q[l], x)) /\ Elems(Append(q[l], x)) = Elems(q[l]) \cup {x}
    BY ONLY AppendToList, ZenonT(30)
  <2> QED
    BY <1>5, <2>1
<1>8. \A m \in DOMAIN q : Elems(z[m]) = IF m = l THEN Elems(q[m]) \cup {p} ELSE Elems(q[m])
  BY <1>6, <1>7
<1>9. \A r : (On(k, r) <=> On(h, r)) /\ (In(z, r) <=> In(q, r) \/ r = p)
  <2>1. \A r : On(k, r) <=> On(h, r)
    BY <1>2, <1>3 DEF On
  <2>2. \A r : In(z, r) <=> In(q, r) \/ r = p
    BY <1>7, <1>8 DEF In
  <2> QED
    BY <2>1, <2>2
<1>10. \A m \in DOMAIN q : m # l => p \notin Elems(q[m])
  BY <1>4 DEF In
<1>11. \A n \in all : p \notin Elems(h[n].chain)
  BY <1>2, <1>4 DEF On
<1>12. Apart(z, k)
  <2>1. ASSUME NEW m \in DOMAIN z, NEW i \in DOMAIN z, m # i
        PROVE  Differ(z[m], z[i])
    <3>1. Elems(q[m]) \cap Elems(q[i]) = {}
      BY <1>7, <2>1 DEF WaitInv, Apart, Differ
    <3> QED
      BY <1>7, <1>8, <1>10, <2>1, <3>1 DEF Differ
  <2>2. ASSUME NEW n \in DOMAIN k, NEW m \in DOMAIN k, n # m
        PROVE  Differ(k[n].chain, k[m].chain)
    BY <1>2, <1>3, <2>2 DEF WaitInv, Apart
  <2>3. ASSUME NEW m \in DOMAIN z, NEW n \in DOMAIN k
        PROVE  Differ(z[m], k[n].chain)
    <3>1. Elems(q[m]) \cap Elems(h[n].chain) = {}
      BY <1>2, <1>7 DEF WaitInv, Apart, Differ
    <3> QED
      BY <1>2, <1>3, <1>7, <1>8, <1>11, <3>1 DEF Differ
  <2> QED
    BY <2>1, <2>2, <2>3 DEF Apart
<1>13. \A m \in DOMAIN z : List(all, z[m])
  BY <1>6, <1>7 DEF WaitInv
<1>14. \A r \in all : Waits(ops, r, k[r]) <=> In(z, r) \/ On(k, r)
  BY <1>3, <1>9 DEF WaitInv
<1> QED
  BY <1>1, <1>3, <1>12, <1>13, <1>14 DEF WaitInv

\* p takes waiters out of lists into a chain of its own, or none.
LEMMA Takes ==
    ASSUME NEW ops, NEW all, NEW q, NEW z, NEW h, NEW k, NEW p \in all,
           WaitInv(ops, all, q, h), Moves(all, h, k, p),
           h[p].chain = <<>>, List(all, k[p].chain),
           k[p].pc = "notify" <=> k[p].chain # <<>>,
           Waits(ops, p, k[p]) <=> Waits(ops, p, h[p]),
           DOMAIN z = DOMAIN q,
           \A l \in DOMAIN q : /\ List(all, z[l]) /\ Elems(z[l]) \subseteq Elems(q[l])
                              /\ Differ(z[l], k[p].chain),
           \A r \in all : In(q, r) <=> In(z, r) \/ r \in Elems(k[p].chain)
    PROVE  WaitInv(ops, all, z, k)
<1>1. /\ h \in [all -> WaitThread(all)] /\ k \in [all -> WaitThread(all)]
      /\ \A r \in all \ {p} : k[r] = h[r]
  BY DEF WaitInv, Moves
<1>2. DOMAIN h = all /\ DOMAIN k = all
  BY <1>1
<1>3. \A r \in all : /\ r # p => k[r].chain = h[r].chain
                     /\ k[r].pc = "notify" <=> k[r].chain # <<>>
                     /\ Waits(ops, r, k[r]) <=> Waits(ops, r, h[r])
                     /\ List(all, k[r].chain)
  BY <1>1 DEF WaitInv
<1>4. Elems(h[p].chain) = {}
  BY EmptyList
<1>5. \A r \in all : r \in Elems(k[p].chain) => In(q, r)
  OBVIOUS
<1>6. Elems(k[p].chain) \subseteq all
  BY NoElems
<1>7. \A n \in all \ {p} : Differ(k[p].chain, k[n].chain)
  <2> SUFFICES ASSUME NEW n \in all \ {p}, NEW r \in Elems(k[p].chain), r \in Elems(k[n].chain)
               PROVE  FALSE
    BY DEF Differ
  <2>1. PICK l \in DOMAIN q : r \in Elems(q[l])
    BY <1>5, <1>6 DEF In
  <2>2. Differ(q[l], h[n].chain) /\ k[n].chain = h[n].chain
    BY <1>2, <1>3 DEF WaitInv, Apart
  <2> QED
    BY <2>1, <2>2 DEF Differ
<1>8. Apart(z, k)
  <2>1. ASSUME NEW l \in DOMAIN z, NEW m \in DOMAIN z, l # m
        PROVE  Differ(z[l], z[m])
    <3>1. Differ(q[l], q[m])
      BY <2>1 DEF WaitInv, Apart
    <3>2. Elems(z[l]) \subseteq Elems(q[l]) /\ Elems(z[m]) \subseteq Elems(q[m])
      OBVIOUS
    <3> QED
      BY <3>1, <3>2 DEF Differ
  <2>2. ASSUME NEW n \in DOMAIN k, NEW m \in DOMAIN k, n # m
        PROVE  Differ(k[n].chain, k[m].chain)
    <3>1. CASE n = p
      BY <1>2, <1>7, <2>2, <3>1
    <3>2. CASE m = p
      <4>1. Differ(k[m].chain, k[n].chain)
        BY <1>2, <1>7, <2>2, <3>2
      <4> QED
        BY <4>1 DEF Differ
    <3>3. CASE n # p /\ m # p
      BY <1>2, <1>3, <2>2, <3>3 DEF WaitInv, Apart
    <3> QED
      BY <3>1, <3>2, <3>3
  <2>3. ASSUME NEW l \in DOMAIN z, NEW n \in DOMAIN k
        PROVE  Differ(z[l], k[n].chain)
    <3>1. CASE n = p
      BY <3>1
    <3>2. CASE n # p
      <4>1. Differ(q[l], h[n].chain) /\ Elems(z[l]) \subseteq Elems(q[l]) /\ k[n].chain = h[n].chain
        BY <1>2, <1>3, <3>2 DEF WaitInv, Apart
      <4> QED
        BY <4>1 DEF Differ
    <3> QED
      BY <3>1, <3>2
  <2> QED
    BY <2>1, <2>2, <2>3 DEF Apart
<1>9. \A r \in all : In(z, r) \/ On(k, r) <=> In(q, r) \/ On(h, r)
  <2> TAKE r \in all
  <2>1. On(k, r) <=> r \in Elems(k[p].chain) \/ \E n \in all \ {p} : r \in Elems(h[n].chain)
    BY <1>2, <1>3 DEF On
  <2>2. On(h, r) <=> \E n \in all \ {p} : r \in Elems(h[n].chain)
    BY <1>2, <1>4 DEF On
  <2> QED
    BY <2>1, <2>2
<1>10. \A r \in all : Waits(ops, r, k[r]) <=> In(z, r) \/ On(k, r)
  BY <1>3, <1>9 DEF WaitInv
<1>11. \A l \in DOMAIN z : List(all, z[l])
  OBVIOUS
<1> QED
  BY <1>1, <1>3, <1>8, <1>10, <1>11 DEF WaitInv

\* One party takes itself out of its list, if it is in one.
LEMMA LeavesList ==
    ASSUME NEW ops, NEW all, NEW q, NEW z, NEW h, NEW k, NEW p \in all,
           WaitInv(ops, all, q, h), Moves(all, h, k, p),
           k[p].chain = h[p].chain, k[p].pc = "notify" <=> h[p].pc = "notify",
           DOMAIN z = DOMAIN q,
           \A l \in DOMAIN q : List(all, z[l]) /\ Elems(z[l]) = Elems(q[l]) \ {p},
           Waits(ops, p, k[p]) <=> Waits(ops, p, h[p]) /\ ~In(q, p)
    PROVE  WaitInv(ops, all, z, k)
<1>1. /\ h \in [all -> WaitThread(all)] /\ k \in [all -> WaitThread(all)]
      /\ \A r \in all \ {p} : k[r] = h[r]
  BY DEF WaitInv, Moves
<1>2. DOMAIN h = all /\ DOMAIN k = all
  BY <1>1
<1>3. \A r \in all : /\ k[r].chain = h[r].chain
                     /\ k[r].pc = "notify" <=> h[r].pc = "notify"
                     /\ r # p => (Waits(ops, r, k[r]) <=> Waits(ops, r, h[r]))
  BY <1>1
<1>4. \A r : (On(k, r) <=> On(h, r)) /\ (In(z, r) <=> In(q, r) /\ r # p)
  <2>1. \A r : On(k, r) <=> On(h, r)
    BY <1>2, <1>3 DEF On
  <2>2. \A r : In(z, r) <=> In(q, r) /\ r # p
    BY DEF In
  <2> QED
    BY <2>1, <2>2
<1>5. In(q, p) => ~On(h, p)
  BY DEF WaitInv, Apart, In, On, Differ
<1>6. Apart(z, k)
  <2>1. ASSUME NEW l \in DOMAIN z, NEW m \in DOMAIN z, l # m
        PROVE  Differ(z[l], z[m])
    <3>1. Differ(q[l], q[m])
      BY <2>1 DEF WaitInv, Apart
    <3>2. Elems(z[l]) \subseteq Elems(q[l]) /\ Elems(z[m]) \subseteq Elems(q[m])
      OBVIOUS
    <3> QED
      BY <3>1, <3>2 DEF Differ
  <2>2. ASSUME NEW n \in DOMAIN k, NEW m \in DOMAIN k, n # m
        PROVE  Differ(k[n].chain, k[m].chain)
    BY <1>2, <1>3, <2>2 DEF WaitInv, Apart
  <2>3. ASSUME NEW l \in DOMAIN z, NEW n \in DOMAIN k
        PROVE  Differ(z[l], k[n].chain)
    <3>1. Differ(q[l], h[n].chain) /\ k[n].chain = h[n].chain /\ Elems(z[l]) \subseteq Elems(q[l])
      BY <1>2, <1>3 DEF WaitInv, Apart
    <3> QED
      BY <3>1 DEF Differ
  <2> QED
    BY <2>1, <2>2, <2>3 DEF Apart
<1>7. \A r \in all : Waits(ops, r, k[r]) <=> In(z, r) \/ On(k, r)
  BY <1>3, <1>4, <1>5 DEF WaitInv
<1>8. \A l \in DOMAIN z : List(all, z[l])
  OBVIOUS
<1> QED
  BY <1>1, <1>3, <1>6, <1>7, <1>8 DEF WaitInv

\* The next of a notifier's chain waits, and is another party.
LEMMA HeadWaits ==
    ASSUME NEW ops, NEW all, NEW q, NEW h, NEW p \in all,
           WaitInv(ops, all, q, h), h[p].pc = "notify"
    PROVE  /\ Head(h[p].chain) \in all /\ Head(h[p].chain) # p
           /\ Waits(ops, Head(h[p].chain), h[Head(h[p].chain)])
           /\ h[Head(h[p].chain)].chain = <<>>
<1>1. /\ h \in [all -> WaitThread(all)] /\ DOMAIN h = all
      /\ h[p].chain # <<>> /\ List(all, h[p].chain)
  BY DEF WaitInv
<1>2. Head(h[p].chain) \in all /\ Head(h[p].chain) \in Elems(h[p].chain)
  BY <1>1, HeadInList, ZenonT(30)
<1> DEFINE w == Head(h[p].chain)
<1>3. w \in all /\ w \in Elems(h[p].chain)
  BY <1>2
<1> HIDE DEF w
<1>4. Waits(ops, w, h[w])
  BY <1>1, <1>3 DEF WaitInv, On
<1>5. h[w].pc # "notify" /\ h[w].chain = <<>>
  BY <1>3, <1>4 DEF WaitInv, Waits
<1> QED
  BY <1>3, <1>4, <1>5 DEF w

\* The notifier p reaches the next of its chain.
LEMMA Tells ==
    ASSUME NEW ops, NEW all, NEW q, NEW h, NEW k, NEW p \in all, NEW w, w = Head(h[p].chain),
           WaitInv(ops, all, q, h), h[p].pc = "notify",
           ~Waits(ops, p, k[p]), ~Waits(ops, w, k[w]),
           k \in [all -> WaitThread(all)],
           \A r \in all \ {p, w} : k[r] = h[r],
           k[p].chain = Tail(h[p].chain), k[p].pc = "notify" <=> Len(h[p].chain) # 1,
           k[w].chain = h[w].chain, k[w].pc # "notify"
    PROVE  WaitInv(ops, all, q, k)
<1>1. /\ h \in [all -> WaitThread(all)] /\ DOMAIN h = all /\ DOMAIN k = all
      /\ h[p].chain # <<>> /\ List(all, h[p].chain)
  BY DEF WaitInv
<1>2. /\ List(all, Tail(h[p].chain)) /\ Head(h[p].chain) \in all
      /\ Head(h[p].chain) \notin Elems(Tail(h[p].chain))
      /\ Elems(h[p].chain) = Elems(Tail(h[p].chain)) \cup {Head(h[p].chain)}
  BY <1>1, HeadOfList, SMTT(30)
<1>3. Tail(h[p].chain) # <<>> <=> Len(h[p].chain) # 1
  BY <1>1, LastOfList, ZenonT(30)
<1> DEFINE c == Tail(h[p].chain)
<1>4. /\ List(all, c) /\ w \in all /\ w \notin Elems(c)
      /\ Elems(h[p].chain) = Elems(c) \cup {w} /\ (c # <<>> <=> Len(h[p].chain) # 1)
      /\ k[p].chain = c /\ k[w].chain = h[w].chain /\ k[w].pc # "notify"
      /\ ~Waits(ops, w, k[w]) /\ \A r \in all \ {p, w} : k[r] = h[r]
      /\ k[p].pc = "notify" <=> Len(h[p].chain) # 1
  BY <1>2, <1>3
<1> HIDE DEF c
<1>5. On(h, w)
  BY <1>1, <1>4 DEF On
<1>6. ~In(q, w)
  BY <1>1, <1>5 DEF WaitInv, Apart, In, On, Differ
<1>7. \A n \in all : n # p => w \notin Elems(h[n].chain)
  BY <1>1, <1>4 DEF WaitInv, Apart, Differ
<1>8. Waits(ops, w, h[w]) /\ ~Waits(ops, p, h[p]) /\ w # p
  BY <1>4, <1>5 DEF WaitInv, Waits
<1>9. h[w].pc # "notify" /\ h[w].chain = <<>>
  BY <1>4, <1>8 DEF WaitInv, Waits
<1>10. \A r \in all \ {p} : k[r].chain = h[r].chain
  BY <1>4
<1>11. /\ Elems(k[p].chain) = Elems(h[p].chain) \ {w}
       /\ \A r \in all : Elems(k[r].chain) \subseteq Elems(h[r].chain)
  BY <1>4, <1>10
<1>12. \A r \in all : List(all, k[r].chain)
  BY <1>4, <1>10 DEF WaitInv
<1>13. \A r \in all : k[r].pc = "notify" <=> k[r].chain # <<>>
  <2>1. k[p].pc = "notify" <=> k[p].chain # <<>>
    BY <1>4
  <2>2. k[w].pc = "notify" <=> k[w].chain # <<>>
    BY <1>4, <1>9
  <2>3. \A r \in all \ {p, w} : k[r].pc = "notify" <=> k[r].chain # <<>>
    BY <1>4 DEF WaitInv
  <2> QED
    BY <2>1, <2>2, <2>3
<1>14. Apart(q, k)
  <2>1. \A n, m \in DOMAIN k : n # m => Differ(k[n].chain, k[m].chain)
    <3> SUFFICES ASSUME NEW n \in all, NEW m \in all, n # m
                 PROVE  Elems(k[n].chain) \cap Elems(k[m].chain) = {}
      BY <1>1 DEF Differ
    <3>1. Elems(h[n].chain) \cap Elems(h[m].chain) = {}
      BY <1>1 DEF WaitInv, Apart, Differ
    <3> QED
      BY <1>11, <3>1
  <2>2. \A l \in DOMAIN q, n \in DOMAIN k : Differ(q[l], k[n].chain)
    <3> SUFFICES ASSUME NEW l \in DOMAIN q, NEW n \in all
                 PROVE  Elems(q[l]) \cap Elems(k[n].chain) = {}
      BY <1>1 DEF Differ
    <3>1. Elems(q[l]) \cap Elems(h[n].chain) = {}
      BY <1>1 DEF WaitInv, Apart, Differ
    <3> QED
      BY <1>11, <3>1
  <2> QED
    BY <2>1, <2>2 DEF Apart, WaitInv
<1>15. \A r \in all : On(k, r) <=> On(h, r) /\ r # w
  <2> TAKE r \in all
  <2>1. ASSUME On(k, r)
        PROVE  On(h, r) /\ r # w
    <3>1. PICK n \in all : r \in Elems(k[n].chain)
      BY <1>1, <2>1 DEF On
    <3>2. r \in Elems(h[n].chain)
      BY <1>11, <3>1
    <3>3. r # w
      BY <1>7, <1>10, <1>11, <3>1
    <3> QED
      BY <1>1, <3>2, <3>3 DEF On
  <2>2. ASSUME On(h, r), r # w
        PROVE  On(k, r)
    <3>1. PICK n \in all : r \in Elems(h[n].chain)
      BY <1>1, <2>2 DEF On
    <3>2. r \in Elems(k[n].chain)
      BY <1>10, <1>11, <2>2, <3>1
    <3> QED
      BY <1>1, <3>2 DEF On
  <2> QED
    BY <2>1, <2>2
<1>16. \A r \in all : Waits(ops, r, k[r]) <=> In(q, r) \/ On(k, r)
  <2>1. ~(In(q, p) \/ On(h, p))
    BY <1>8 DEF WaitInv
  <2>2. ~Waits(ops, p, k[p]) /\ ~On(k, p)
    BY <1>15, <2>1
  <2>3. \A r \in all \ {p, w} : Waits(ops, r, k[r]) <=> In(q, r) \/ On(k, r)
    BY <1>4, <1>15 DEF WaitInv
  <2>4. ~Waits(ops, w, k[w]) /\ ~On(k, w) /\ ~In(q, w)
    BY <1>4, <1>6, <1>15
  <2> QED
    BY <2>1, <2>2, <2>3, <2>4
<1> QED
  BY <1>12, <1>13, <1>14, <1>16 DEF WaitInv

-----------------------------------------------------------------------------
(* What a party does to itself.                                            *)

LEMMA GoMoves ==
    ASSUME NEW all, NEW h \in [all -> WaitThread(all)], NEW p \in all, NEW x \in WaitPcs,
           NEW k, k = [h EXCEPT ![p].pc = x]
    PROVE  Moves(all, h, k, p) /\ k[p] = [h[p] EXCEPT !.pc = x]
  BY DEF Moves, WaitThread

LEMMA ReturnMoves ==
    ASSUME NEW all, NEW h \in [all -> WaitThread(all)], NEW p \in all, NEW x \in WaitPcs,
           NEW r \in Results, NEW k, k = [h EXCEPT ![p].pc = x, ![p].result = r]
    PROVE  Moves(all, h, k, p) /\ k[p] = [h[p] EXCEPT !.pc = x, !.result = r]
  BY DEF Moves, WaitThread

LEMMA SatisfiedMoves ==
    ASSUME NEW all, NEW h \in [all -> WaitThread(all)], NEW p \in all, NEW x \in WaitPcs,
           NEW k, k = [h EXCEPT ![p].pc = x, ![p].satisfied = FALSE]
    PROVE  Moves(all, h, k, p) /\ k[p] = [h[p] EXCEPT !.pc = x, !.satisfied = FALSE]
  BY DEF Moves, WaitThread

LEMMA StopMoves ==
    ASSUME NEW all, NEW h \in [all -> WaitThread(all)], NEW p \in all, NEW s \in Stops,
           NEW k, k = [h EXCEPT ![p].stop = s]
    PROVE  Moves(all, h, k, p) /\ k[p] = [h[p] EXCEPT !.stop = s]
  BY DEF Moves, WaitThread

LEMMA ListenMoves ==
    ASSUME NEW all, NEW h \in [all -> WaitThread(all)], NEW p \in all, NEW s \in Stops,
           NEW x \in WaitPcs, NEW k, k = [h EXCEPT ![p].stop = s, ![p].pc = x]
    PROVE  Moves(all, h, k, p) /\ k[p] = [h[p] EXCEPT !.stop = s, !.pc = x]
  BY DEF Moves, WaitThread

\* on_stop of an operation that is linked, or not.
LEMMA TakenBackMoves ==
    ASSUME NEW all, NEW h \in [all -> WaitThread(all)], NEW p \in all,
           NEW k, k = [h EXCEPT ![p] = [@ EXCEPT !.stop = "over", !.pc = "finish",
                                                 !.result = "stopped"]]
    PROVE  /\ Moves(all, h, k, p)
           /\ k[p] = [h[p] EXCEPT !.stop = "over", !.pc = "finish", !.result = "stopped"]
<1> DEFINE t == [h[p] EXCEPT !.stop = "over", !.pc = "finish", !.result = "stopped"]
<1>1. "over" \in Stops /\ "finish" \in WaitPcs /\ "stopped" \in Results
  BY DEF Stops, WaitPcs, Results
<1>2. t \in WaitThread(all)
  BY <1>1 DEF WaitThread
<1>3. k = [h EXCEPT ![p] = t]
  OBVIOUS
<1> HIDE DEF t
<1>4. Moves(all, h, k, p) /\ k[p] = t
  BY <1>2, <1>3 DEF Moves
<1> QED
  BY <1>4 DEF t

LEMMA MarkedMoves ==
    ASSUME NEW all, NEW h \in [all -> WaitThread(all)], NEW p \in all,
           NEW k, k = [h EXCEPT ![p] = [@ EXCEPT !.stop = "over", !.cancelled = TRUE]]
    PROVE  Moves(all, h, k, p) /\ k[p] = [h[p] EXCEPT !.stop = "over", !.cancelled = TRUE]
<1> DEFINE t == [h[p] EXCEPT !.stop = "over", !.cancelled = TRUE]
<1>1. "over" \in Stops
  BY DEF Stops
<1>2. t \in WaitThread(all)
  BY <1>1 DEF WaitThread
<1>3. k = [h EXCEPT ![p] = t]
  OBVIOUS
<1> HIDE DEF t
<1>4. Moves(all, h, k, p) /\ k[p] = t
  BY <1>2, <1>3 DEF Moves
<1> QED
  BY <1>4 DEF t

\* notify(): p has one less to tell, and w is told.
Told(h, p, c, x, w, B, y) ==
    [h EXCEPT ![p].chain = c, ![p].pc = x, ![w].satisfied = (w \in B), ![w].pc = y]
LEMMA NotifyMoves ==
    ASSUME NEW all, NEW h \in [all -> WaitThread(all)], NEW p \in all, NEW w \in all, w # p,
           NEW c \in Seq(all), NEW x \in WaitPcs, NEW B, NEW y \in WaitPcs,
           NEW k, k = Told(h, p, c, x, w, B, y)
    PROVE  /\ k \in [all -> WaitThread(all)]
           /\ \A r \in all \ {p, w} : k[r] = h[r]
           /\ k[p].chain = c /\ k[p].pc = x /\ k[p].result = h[p].result
           /\ k[p].satisfied = h[p].satisfied /\ k[p].stop = h[p].stop
           /\ k[w].chain = h[w].chain /\ k[w].pc = y /\ k[w].result = h[w].result
           /\ k[w].satisfied <=> w \in B
           /\ k[w].stop = h[w].stop
<1>1. PICK i : i = [h EXCEPT ![p].chain = c, ![p].pc = x]
  OBVIOUS
<1>2. /\ i \in [all -> WaitThread(all)] /\ i[p] = [h[p] EXCEPT !.chain = c, !.pc = x]
      /\ \A r \in all \ {p} : i[r] = h[r]
  BY <1>1 DEF WaitThread
<1>3. PICK s \in BOOLEAN : s = (w \in B)
  <2>1. CASE w \in B
    <3>1. (w \in B) = TRUE
      BY <2>1
    <3> QED
      BY <3>1
  <2>2. CASE w \notin B
    <3>1. (w \in B) = FALSE
      BY <2>2
    <3> QED
      BY <3>1
  <2> QED
    BY <2>1, <2>2
<1>4. PICK j : j = [i EXCEPT ![w].satisfied = s, ![w].pc = y]
  OBVIOUS
<1>5. /\ j \in [all -> WaitThread(all)] /\ \A r \in all \ {w} : j[r] = i[r]
      /\ j[w] = [i[w] EXCEPT !.satisfied = (w \in B), !.pc = y]
  <2>1. ASSUME NEW g \in [all -> WaitThread(all)]
        PROVE  Moves(all, g, [g EXCEPT ![w].satisfied = s, ![w].pc = y], w)
    BY DEF Moves, WaitThread
  <2>2. Moves(all, i, j, w)
    BY <1>2, <1>4, <2>1
  <2>3. j[w] = [i[w] EXCEPT !.satisfied = s, !.pc = y]
    BY <1>2, <1>4
  <2> QED
    BY <1>3, <2>2, <2>3 DEF Moves
<1>6. k = j
  BY <1>1, <1>3, <1>4 DEF Told
<1>7. /\ j \in [all -> WaitThread(all)] /\ \A r \in all \ {p, w} : j[r] = h[r]
      /\ j[p] = i[p] /\ j[w] = [h[w] EXCEPT !.satisfied = s, !.pc = y]
  BY <1>2, <1>3, <1>5
<1>8. /\ j[p].chain = c /\ j[p].pc = x /\ j[p].result = h[p].result
      /\ j[p].satisfied = h[p].satisfied /\ j[p].stop = h[p].stop
  BY <1>2, <1>7 DEF WaitThread
<1>9. /\ j[w].chain = h[w].chain /\ j[w].pc = y /\ j[w].result = h[w].result
      /\ j[w].satisfied = s /\ j[w].stop = h[w].stop
  BY <1>7 DEF WaitThread
<1> QED
  BY <1>3, <1>6, <1>7, <1>8, <1>9

\* p leaves the lock with c to notify, or with nobody.
Leaving(h, p, x, c, r) ==
    IF c = <<>> THEN [h EXCEPT ![p].pc = x, ![p].result = r]
    ELSE [h EXCEPT ![p].pc = "notify", ![p].chain = c, ![p].result = r]
LEMMA ChainMoves ==
    ASSUME NEW all, NEW h \in [all -> WaitThread(all)], NEW p \in all, NEW x \in WaitPcs,
           NEW c \in Seq(all), NEW r \in Results, h[p].chain = <<>>,
           NEW k, k = Leaving(h, p, x, c, r)
    PROVE  /\ Moves(all, h, k, p)
           /\ k[p].pc = (IF c = <<>> THEN x ELSE "notify") /\ k[p].chain = c /\ k[p].result = r
           /\ k[p].satisfied = h[p].satisfied /\ k[p].stop = h[p].stop
           /\ k[p].cancelled = h[p].cancelled
<1>0. h \in [all -> WaitThread(all)] /\ p \in all /\ c \in Seq(all) /\ r \in Results
  OBVIOUS
<1>1. CASE c = <<>>
  <2>1. k = [h EXCEPT ![p].pc = x, ![p].result = r]
    BY <1>1 DEF Leaving
  <2>2. Moves(all, h, k, p) /\ k[p] = [h[p] EXCEPT !.pc = x, !.result = r]
    BY <2>1 DEF Moves, WaitThread
  <2> QED
    BY <1>1, <2>2 DEF WaitThread
<1>2. CASE c # <<>>
  <2>1. "notify" \in WaitPcs
    BY DEF WaitPcs
  <2>2. k = [h EXCEPT ![p].pc = "notify", ![p].chain = c, ![p].result = r]
    BY <1>2 DEF Leaving
  <2>3. Moves(all, h, k, p) /\ k[p] = [h[p] EXCEPT !.pc = "notify", !.chain = c, !.result = r]
    BY ONLY <1>0, <2>1, <2>2 DEF Moves, WaitThread
  <2> QED
    BY <1>2, <2>3 DEF WaitThread
<1> QED
  BY <1>1, <1>2

-----------------------------------------------------------------------------
(* WaitGroup.                                                              *)

GroupParties == (Tasks \cup GroupThreads) \cup Ops
GroupObject ==
    [is : {"WaitGroup"}, pending : Nat, adds : Nat, q : [waiters : Seq(GroupParties)],
     zero : SUBSET GroupParties]
GroupPcs(p) ==
    IF p \in Workers THEN {"idle", "detach", "notify"}
    ELSE IF p \in Ops
         THEN {"idle", "tryNow", "listen", "drive", "enqueue", "queued", "notified", "finish", "done"}
         ELSE {"idle", "enqueue", "wait", "unwind", "awaitNotifier", "gone"}

\* Waiters are told only at zero, and at zero whoever looked has seen it.
GroupParty(p, t, pending, zero) ==
    /\ t.pc \in GroupPcs(p)
    /\ p \in Ops => Ends(t)
    /\ t.pc \in {"detach", "notify", "notified"} \/ t.satisfied => pending = 0
    /\ p \notin Workers /\ pending = 0 /\ t.pc \notin {"idle", "tryNow", "finish", "done"}
          => p \in zero
    /\ p \notin Workers /\ t.result = "value" => p \in zero
GroupLeft(o, h) ==
    o.pending = 0 /\ o.q.waiters # <<>> => \E p \in Workers : h[p].pc = "detach"
GroupState(o, h) ==
    /\ o \in GroupObject
    /\ WaitInv(Ops, GroupParties, o.q, h)
    /\ \A p \in GroupParties : GroupParty(p, h[p], o.pending, o.zero)
    /\ GroupLeft(o, h)

LEMMA GroupPlaces ==
    /\ G!Parties = GroupParties /\ G!Blocking = Tasks \cup GroupThreads
    /\ G!Callers = GroupParties \ Workers
    /\ Workers \subseteq GroupParties /\ Workers \cap Ops = {}
    /\ GroupParties \ Ops = Tasks \cup GroupThreads
  BY GroupUsers, OperationsDiffer DEF G!Parties, G!Blocking, G!Callers, GroupParties

LEMMA GroupFacts ==
    ASSUME NEW o, NEW h, GroupState(o, h)
    PROVE  /\ h \in [GroupParties -> WaitThread(GroupParties)]
           /\ o.is = "WaitGroup" /\ o.pending \in Nat /\ o.adds \in Nat
           /\ DOMAIN o.q = {"waiters"} /\ o.q = [waiters |-> o.q.waiters]
           /\ List(GroupParties, o.q.waiters) /\ o.zero \subseteq GroupParties
           /\ o = [is |-> "WaitGroup", pending |-> o.pending, adds |-> o.adds, q |-> o.q,
                   zero |-> o.zero]
<1>1. o \in GroupObject /\ WaitInv(Ops, GroupParties, o.q, h)
  BY DEF GroupState
<1>2. /\ o.is = "WaitGroup" /\ o.pending \in Nat /\ o.adds \in Nat
      /\ DOMAIN o.q = {"waiters"} /\ o.q = [waiters |-> o.q.waiters] /\ o.zero \subseteq GroupParties
      /\ o = [is |-> "WaitGroup", pending |-> o.pending, adds |-> o.adds, q |-> o.q,
              zero |-> o.zero]
  BY <1>1 DEF GroupObject
<1>3. h \in [GroupParties -> WaitThread(GroupParties)] /\ List(GroupParties, o.q.waiters)
  BY <1>1, <1>2 DEF WaitInv
<1> QED
  BY <1>2, <1>3

\* p alone does something, and the count stays.
LEMMA GroupMove ==
    ASSUME NEW o, NEW g, NEW h, NEW k, NEW p \in GroupParties, GroupState(o, h),
           g \in GroupObject, g.pending = o.pending,
           \A r \in GroupParties \ {p} : r \in o.zero => r \in g.zero,
           o.pending = 0 /\ g.q.waiters # <<>> => o.q.waiters # <<>>,
           h[p].pc = "detach" => g.q.waiters = <<>>,
           Moves(GroupParties, h, k, p), WaitInv(Ops, GroupParties, g.q, k),
           GroupParty(p, k[p], g.pending, g.zero)
    PROVE  GroupState(g, k)
<1>1. \A r \in GroupParties \ {p} : k[r] = h[r]
  BY DEF Moves
<1>2. \A r \in GroupParties \ {p} : GroupParty(r, k[r], g.pending, g.zero)
  BY <1>1 DEF GroupState, GroupParty
<1>3. GroupLeft(g, k)
  <2> SUFFICES ASSUME g.pending = 0, g.q.waiters # <<>>
               PROVE  \E r \in Workers : k[r].pc = "detach"
    BY DEF GroupLeft
  <2>1. PICK r \in Workers : h[r].pc = "detach"
    BY DEF GroupState, GroupLeft
  <2>2. r # p
    BY <2>1
  <2> QED
    BY <1>1, <2>1, <2>2, GroupPlaces
<1> QED
  BY <1>2, <1>3 DEF GroupState

\* The same with the object as it is.
LEMMA GroupStill ==
    ASSUME NEW o, NEW h, NEW k, NEW p \in GroupParties, GroupState(o, h),
           Moves(GroupParties, h, k, p), h[p].pc # "detach",
           k[p].chain = h[p].chain, k[p].pc = "notify" <=> h[p].pc = "notify",
           Waits(Ops, p, k[p]) <=> Waits(Ops, p, h[p]),
           GroupParty(p, k[p], o.pending, o.zero)
    PROVE  GroupState(o, k)
<1>1. WaitInv(Ops, GroupParties, o.q, k)
  BY Stays DEF GroupState
<1>2. o \in GroupObject
  BY DEF GroupState
<1> QED
  BY <1>1, <1>2, GroupMove

LEMMA GroupNames ==
    /\ {"idle", "finish", "enqueue", "listen", "drive", "queued", "wait", "unwind", "gone",
        "awaitNotifier", "tryNow", "done", "detach", "notify", "notified"} \subseteq WaitPcs
    /\ {"none", "value", "stopped"} \subseteq Results
    /\ {"quiet", "listening", "requested", "running", "over"} \subseteq Stops
  BY DEF WaitPcs, Results, Stops

LEMMA GroupLook ==
    ASSUME GroupState(obj, th), NEW p \in GroupParties,
           (G!Wait(p) \/ G!TryNow(p))
    PROVE  GroupState(obj', th')
<1>1. /\ th \in [GroupParties -> WaitThread(GroupParties)] /\ obj.pending \in Nat
      /\ obj \in GroupObject /\ GroupParty(p, th[p], obj.pending, obj.zero)
  BY GroupFacts DEF GroupState
<1>2. /\ p \notin Workers /\ p \in GroupParties
      /\ (p \in Ops /\ th[p].pc = "tryNow") \/ (p \notin Ops /\ th[p].pc = "idle")
      /\ obj' = [obj EXCEPT !.zero = IF obj.pending = 0 THEN obj.zero \cup {p} ELSE obj.zero \ {p}]
  BY <1>1, GroupPlaces DEF G!Wait, G!TryNow, G!Look, G!At, G!Zero, GroupParty, GroupPcs
<1>3. /\ obj' \in GroupObject /\ obj'.pending = obj.pending /\ obj'.q = obj.q
      /\ obj'.zero = IF obj.pending = 0 THEN obj.zero \cup {p} ELSE obj.zero \ {p}
  BY <1>1, <1>2 DEF GroupObject
<1>4. CASE obj.pending = 0
  <2>1. th' = [th EXCEPT ![p].pc = IF p \in Ops THEN "finish" ELSE "idle", ![p].result = "value"]
    BY <1>4 DEF G!Wait, G!TryNow, G!Look, G!Return
  <2>2. PICK x \in WaitPcs : /\ x = IF p \in Ops THEN "finish" ELSE "idle"
                             /\ th' = [th EXCEPT ![p].pc = x, ![p].result = "value"]
    BY <2>1, GroupNames
  <2>3. Moves(GroupParties, th, th', p) /\ th'[p] = [th[p] EXCEPT !.pc = x, !.result = "value"]
    BY <1>1, <2>2, ReturnMoves, GroupNames
  <2>4. /\ th'[p].pc = x /\ th'[p].chain = th[p].chain /\ th'[p].result = "value"
        /\ th'[p].satisfied = th[p].satisfied /\ th'[p].stop = th[p].stop
    BY <1>1, <2>3 DEF WaitThread
  <2>5. /\ ~Waits(Ops, p, th[p]) /\ ~Waits(Ops, p, th'[p])
        /\ th[p].pc # "notify" /\ th'[p].pc # "notify" /\ th[p].pc # "detach"
    BY <1>2, <2>2, <2>4 DEF Waits
  <2>6. WaitInv(Ops, GroupParties, obj'.q, th')
    BY <1>3, <2>3, <2>4, <2>5, Stays DEF GroupState
  <2>7. GroupParty(p, th'[p], obj'.pending, obj'.zero)
    BY <1>1, <1>2, <1>3, <1>4, <2>2, <2>4 DEF GroupParty, GroupPcs, Ends
  <2> QED
    BY <1>3, <1>4, <2>3, <2>5, <2>6, <2>7, GroupMove
<1>5. CASE obj.pending # 0
  <2>1. PICK x \in WaitPcs : /\ x = IF p \in Ops THEN "listen" ELSE "enqueue"
                             /\ th' = [th EXCEPT ![p].pc = x, ![p].result = "none"]
    BY <1>2, <1>5, GroupNames, GroupPlaces DEF G!Wait, G!TryNow, G!Look, G!At
  <2>3. Moves(GroupParties, th, th', p) /\ th'[p] = [th[p] EXCEPT !.pc = x, !.result = "none"]
    BY <1>1, <2>1, ReturnMoves, GroupNames
  <2>4. /\ th'[p].pc = x /\ th'[p].chain = th[p].chain /\ th'[p].result = "none"
        /\ th'[p].satisfied = th[p].satisfied /\ th'[p].stop = th[p].stop
    BY <1>1, <2>3 DEF WaitThread
  <2>5. /\ ~Waits(Ops, p, th[p]) /\ ~Waits(Ops, p, th'[p])
        /\ th[p].pc # "notify" /\ th'[p].pc # "notify" /\ th[p].pc # "detach"
    BY <1>2, <2>1, <2>4 DEF Waits
  <2>6. WaitInv(Ops, GroupParties, obj'.q, th')
    BY <1>3, <2>3, <2>4, <2>5, Stays DEF GroupState
  <2>7. GroupParty(p, th'[p], obj'.pending, obj'.zero)
    BY <1>1, <1>2, <1>3, <1>5, <2>1, <2>4 DEF GroupParty, GroupPcs, Ends
  <2> QED
    BY <1>3, <1>5, <2>3, <2>5, <2>6, <2>7, GroupMove
<1> QED
  BY <1>4, <1>5

\* Steps that leave the object alone: where p goes, with what result.
LEMMA GroupReturns ==
    ASSUME GroupState(obj, th), NEW p \in GroupParties, NEW r \in Results,
           obj' = obj, G!Return(p, r), r # "none",
           ~Waits(Ops, p, th[p]), th[p].pc \notin {"notify", "detach"}, p \notin Workers,
           r = "value" => p \in obj.zero
    PROVE  GroupState(obj', th')
<1>1. /\ th \in [GroupParties -> WaitThread(GroupParties)]
      /\ GroupParty(p, th[p], obj.pending, obj.zero)
  BY GroupFacts DEF GroupState
<1>2. PICK x \in WaitPcs : /\ x = IF p \in Ops THEN "finish" ELSE "idle"
                           /\ th' = [th EXCEPT ![p].pc = x, ![p].result = r]
  BY GroupNames DEF G!Return
<1>3. Moves(GroupParties, th, th', p) /\ th'[p] = [th[p] EXCEPT !.pc = x, !.result = r]
  BY <1>1, <1>2, ReturnMoves
<1>4. /\ th'[p].pc = x /\ th'[p].chain = th[p].chain /\ th'[p].result = r
      /\ th'[p].satisfied = th[p].satisfied /\ th'[p].stop = th[p].stop
  BY <1>1, <1>3 DEF WaitThread
<1>5. ~Waits(Ops, p, th'[p]) /\ th'[p].pc # "notify"
  BY <1>2, <1>4 DEF Waits
<1>6. GroupParty(p, th'[p], obj.pending, obj.zero)
  BY <1>1, <1>2, <1>4 DEF GroupParty, GroupPcs, Ends
<1> QED
  BY <1>3, <1>4, <1>5, <1>6, GroupStill

LEMMA OneList == \A q, n : q = [waiters |-> q.waiters] =>
                     [q EXCEPT !["waiters"] = n] = [waiters |-> n] /\ q["waiters"] = q.waiters
<1> TAKE q, n
<1> HAVE q = [waiters |-> q.waiters]
<1>1. PICK w : w = q.waiters
  OBVIOUS
<1>2. q = [waiters |-> w]
  BY <1>1
<1>3. [[waiters |-> w] EXCEPT !["waiters"] = n] = [waiters |-> n]
  BY ONLY TRUE
<1> QED
  BY <1>2, <1>3

LEMMA GroupGoes ==
    ASSUME GroupState(obj, th), NEW p \in GroupParties, NEW x \in WaitPcs,
           obj' = obj, G!Go(p, x), th[p].pc \notin {"notify", "detach"}, x # "notify",
           Waits(Ops, p, [th[p] EXCEPT !.pc = x]) <=> Waits(Ops, p, th[p]),
           GroupParty(p, [th[p] EXCEPT !.pc = x], obj.pending, obj.zero)
    PROVE  GroupState(obj', th')
<1>1. th \in [GroupParties -> WaitThread(GroupParties)]
  BY GroupFacts
<1>2. Moves(GroupParties, th, th', p) /\ th'[p] = [th[p] EXCEPT !.pc = x]
  BY <1>1, GoMoves DEF G!Go
<1>3. th'[p].pc = x /\ th'[p].chain = th[p].chain
  BY <1>1, <1>2 DEF WaitThread
<1> QED
  BY <1>2, <1>3, GroupStill

\* What is known of a party: its thread, and what the invariant says of it.
LEMMA GroupOf ==
    ASSUME GroupState(obj, th), NEW p \in GroupParties
    PROVE  /\ th \in [GroupParties -> WaitThread(GroupParties)]
           /\ th[p] \in WaitThread(GroupParties)
           /\ GroupParty(p, th[p], obj.pending, obj.zero)
           /\ p \in Workers => p \notin Ops
           /\ p \in Ops <=> p \notin G!Blocking
           /\ obj.pending \in Nat
<1>1. th \in [GroupParties -> WaitThread(GroupParties)] /\ obj.pending \in Nat
  BY GroupFacts
<1>2. GroupParty(p, th[p], obj.pending, obj.zero)
  BY DEF GroupState
<1>3. (p \in Workers => p \notin Ops) /\ (p \in Ops <=> p \notin G!Blocking)
  BY GroupPlaces
<1> QED
  BY <1>1, <1>2, <1>3

LEMMA GroupDrive ==
    ASSUME GroupState(obj, th), NEW p \in GroupParties, G!Drive(p)
    PROVE  GroupState(obj', th')
<1>1. /\ th[p].pc = "drive" /\ obj' = obj /\ p \in Ops /\ p \notin Workers
      /\ th[p] \in WaitThread(GroupParties) /\ GroupParty(p, th[p], obj.pending, obj.zero)
  BY GroupOf DEF G!Drive, G!At, GroupParty, GroupPcs
<1>2. CASE obj.pending = 0
  <2>1. p \in obj.zero /\ ~Waits(Ops, p, th[p])
    BY <1>1, <1>2 DEF GroupParty, Waits
  <2> QED
    BY <1>1, <1>2, <2>1, GroupReturns, GroupNames DEF G!Drive
<1>3. CASE obj.pending # 0
  <2>1. G!Go(p, "enqueue")
    BY <1>3 DEF G!Drive
  <2> DEFINE t == [th[p] EXCEPT !.pc = "enqueue"]
  <2>2. t.pc = "enqueue" /\ t.satisfied = th[p].satisfied /\ t.result = th[p].result
    BY <1>1 DEF WaitThread
  <2> HIDE DEF t
  <2>3. ~Waits(Ops, p, th[p]) /\ ~Waits(Ops, p, t)
    BY <1>1, <2>2 DEF Waits
  <2>4. GroupParty(p, t, obj.pending, obj.zero)
    BY <1>1, <1>3, <2>2 DEF GroupParty, GroupPcs, Ends
  <2> QED
    BY <1>1, <2>1, <2>3, <2>4, GroupGoes, GroupNames DEF t
<1> QED
  BY <1>2, <1>3

LEMMA GroupEnqueue ==
    ASSUME GroupState(obj, th), NEW p \in GroupParties, G!Enqueue(p)
    PROVE  GroupState(obj', th')
<1>1. /\ th[p].pc = "enqueue" /\ p \notin Workers /\ th \in [GroupParties -> WaitThread(GroupParties)]
      /\ th[p] \in WaitThread(GroupParties) /\ GroupParty(p, th[p], obj.pending, obj.zero)
      /\ ~Waits(Ops, p, th[p])
  BY GroupOf DEF G!Enqueue, G!At, GroupParty, GroupPcs, Waits
<1>2. CASE obj' = obj /\ th[p].cancelled /\ G!Return(p, "stopped")
  BY <1>1, <1>2, GroupReturns, GroupNames
<1>3. CASE obj' = obj /\ obj.pending = 0 /\ G!Return(p, "value")
  <2>1. p \in obj.zero
    BY <1>1, <1>3 DEF GroupParty
  <2> QED
    BY <1>1, <1>3, <2>1, GroupReturns, GroupNames
<1>4. CASE /\ obj.pending # 0
           /\ obj' = [obj EXCEPT !.q = G!PushBack("waiters", p)]
           /\ G!Enqueued(p)
  <2>1. obj \in GroupObject /\ DOMAIN obj.q = {"waiters"} /\ WaitInv(Ops, GroupParties, obj.q, th)
    BY GroupFacts DEF GroupState
  <2>2. PICK n \in Seq(GroupParties) : n = Append(obj.q.waiters, p)
    <3>1. obj.q.waiters \in Seq(GroupParties)
      BY GroupFacts DEF List
    <3>2. Append(obj.q.waiters, p) \in Seq(GroupParties)
      BY <3>1
    <3> QED
      BY <3>2
  <2>3. obj' = [obj EXCEPT !.q = [waiters |-> n]]
    <3>1. obj' = [obj EXCEPT !.q = [obj.q EXCEPT !["waiters"] = Append(obj.q["waiters"], p)]]
      BY <1>4 DEF G!PushBack
    <3>2. obj.q = [waiters |-> obj.q.waiters]
      BY GroupFacts
    <3>3. [obj.q EXCEPT !["waiters"] = n] = [waiters |-> n]
      BY <3>2, OneList
    <3> QED
      BY <2>2, <3>1, <3>3
  <2>4a. /\ obj' \in GroupObject /\ obj'.pending = obj.pending /\ obj'.zero = obj.zero
         /\ obj'.q = [waiters |-> n]
    BY <2>1, <2>3 DEF GroupObject
  <2>4b. /\ DOMAIN obj'.q = DOMAIN obj.q /\ obj'.q["waiters"] = Append(obj.q["waiters"], p)
         /\ \A m \in DOMAIN obj.q : m # "waiters" => obj'.q[m] = obj.q[m]
    BY <2>1, <2>2, <2>4a
  <2>4. PICK x \in WaitPcs : /\ x = IF p \in Ops THEN "queued" ELSE "wait"
                             /\ th' = [th EXCEPT ![p].pc = x, ![p].satisfied = FALSE]
    BY <1>4, GroupNames DEF G!Enqueued
  <2>5. Moves(GroupParties, th, th', p) /\ th'[p] = [th[p] EXCEPT !.pc = x, !.satisfied = FALSE]
    BY <1>1, <2>4, SatisfiedMoves
  <2>6. /\ th'[p].pc = x /\ th'[p].chain = th[p].chain /\ th'[p].result = th[p].result
        /\ th'[p].satisfied = FALSE /\ th'[p].stop = th[p].stop
    BY <1>1, <2>5 DEF WaitThread
  <2>7. Waits(Ops, p, th'[p]) /\ th'[p].pc # "notify" /\ th[p].pc \notin {"notify", "detach"}
    BY <1>1, <2>4, <2>6 DEF Waits
  <2>8. WaitInv(Ops, GroupParties, obj'.q, th')
    BY <1>1, <2>1, <2>4b, <2>5, <2>6, <2>7, JoinsList
  <2>9. GroupParty(p, th'[p], obj'.pending, obj'.zero)
    BY <1>1, <1>4, <2>4a, <2>4, <2>6 DEF GroupParty, GroupPcs, Ends
  <2> QED
    BY <1>1, <1>4, <2>4a, <2>5, <2>7, <2>8, <2>9, GroupMove
<1> QED
  BY <1>2, <1>3, <1>4 DEF G!Enqueue

LEMMA GroupReleased ==
    ASSUME GroupState(obj, th), NEW p \in GroupParties, G!Released(p) \/ G!OnNotified(p)
    PROVE  GroupState(obj', th')
<1>1. /\ th[p].pc = "notified" \/ (th[p].pc = "wait" /\ th[p].satisfied)
      /\ obj' = obj /\ G!Return(p, "value")
      /\ th[p] \in WaitThread(GroupParties) /\ GroupParty(p, th[p], obj.pending, obj.zero)
  BY GroupOf DEF G!Released, G!OnNotified, G!At
<1>2. /\ p \notin Workers /\ ~Waits(Ops, p, th[p]) /\ th[p].pc \notin {"notify", "detach"}
      /\ p \in obj.zero
  BY <1>1 DEF GroupParty, GroupPcs, Waits
<1> QED
  BY <1>1, <1>2, GroupReturns, GroupNames

LEMMA GroupStart ==
    ASSUME GroupState(obj, th), NEW p \in GroupParties, G!Start(p)
    PROVE  GroupState(obj', th')
<1>1. /\ th[p].pc = "idle" /\ p \in Ops /\ p \notin Workers /\ obj' = obj
      /\ th[p] \in WaitThread(GroupParties) /\ GroupParty(p, th[p], obj.pending, obj.zero)
      /\ ~Waits(Ops, p, th[p])
  BY GroupOf DEF G!Start, G!At, Waits
<1>2. CASE G!Return(p, "stopped")
  BY <1>1, <1>2, GroupReturns, GroupNames
<1>3. CASE G!Go(p, "tryNow")
  <2> DEFINE t == [th[p] EXCEPT !.pc = "tryNow"]
  <2>2. t.pc = "tryNow" /\ t.satisfied = th[p].satisfied /\ t.result = th[p].result
    BY <1>1 DEF WaitThread
  <2> HIDE DEF t
  <2>3. ~Waits(Ops, p, t)
    BY <1>1, <2>2 DEF Waits
  <2>4. GroupParty(p, t, obj.pending, obj.zero)
    BY <1>1, <2>2 DEF GroupParty, GroupPcs, Ends
  <2> QED
    BY <1>1, <1>3, <2>3, <2>4, GroupGoes, GroupNames DEF t
<1> QED
  BY <1>2, <1>3 DEF G!Start

\* Steps of the stop listener that change nothing else.
LEMMA GroupStopMoves ==
    ASSUME GroupState(obj, th), NEW p \in GroupParties, p \in Ops, NEW s \in Stops,
           obj' = obj, th' = [th EXCEPT ![p].stop = s], th[p].pc # "done"
    PROVE  GroupState(obj', th')
<1>1. /\ th \in [GroupParties -> WaitThread(GroupParties)]
      /\ GroupParty(p, th[p], obj.pending, obj.zero) /\ p \notin Workers
  BY GroupOf
<1>2. Moves(GroupParties, th, th', p) /\ th'[p] = [th[p] EXCEPT !.stop = s]
  BY <1>1, StopMoves
<1>3. /\ th'[p].pc = th[p].pc /\ th'[p].chain = th[p].chain /\ th'[p].result = th[p].result
      /\ th'[p].satisfied = th[p].satisfied
  BY <1>1, <1>2 DEF WaitThread
<1>4. (Waits(Ops, p, th'[p]) <=> Waits(Ops, p, th[p])) /\ th[p].pc # "detach"
  BY <1>1, <1>3 DEF Waits, GroupParty, GroupPcs
<1>5. GroupParty(p, th'[p], obj.pending, obj.zero)
  BY <1>1, <1>3 DEF GroupParty, Ends
<1> QED
  BY <1>2, <1>3, <1>4, <1>5, GroupStill

LEMMA GroupRequestStop ==
    ASSUME GroupState(obj, th), NEW p \in GroupParties, G!RequestStop(p)
    PROVE  GroupState(obj', th')
<1>1. p \in Ops /\ obj' = obj /\ th[p].pc # "done"
  BY DEF G!RequestStop
<1>2. PICK s \in Stops : th' = [th EXCEPT ![p].stop = s]
  BY GroupNames DEF G!RequestStop
<1> QED
  BY <1>1, <1>2, GroupStopMoves

LEMMA GroupListen ==
    ASSUME GroupState(obj, th), NEW p \in GroupParties, G!Listen(p)
    PROVE  GroupState(obj', th')
<1>1. /\ th[p].pc = "listen" /\ obj' = obj /\ p \in Ops /\ p \notin Workers
      /\ th[p] \in WaitThread(GroupParties) /\ GroupParty(p, th[p], obj.pending, obj.zero)
      /\ th \in [GroupParties -> WaitThread(GroupParties)]
  BY GroupOf DEF G!Listen, G!At, GroupParty, GroupPcs
<1>2. CASE th' = [th EXCEPT ![p].stop = "listening", ![p].pc = "drive"]
  <2>1. /\ Moves(GroupParties, th, th', p)
        /\ th'[p] = [th[p] EXCEPT !.stop = "listening", !.pc = "drive"]
    BY <1>1, <1>2, ListenMoves, GroupNames
  <2>2. /\ th'[p].pc = "drive" /\ th'[p].chain = th[p].chain /\ th'[p].result = th[p].result
        /\ th'[p].satisfied = th[p].satisfied
    BY <1>1, <2>1 DEF WaitThread
  <2>3. ~Waits(Ops, p, th'[p]) /\ ~Waits(Ops, p, th[p])
    BY <1>1, <2>2 DEF Waits
  <2>4. GroupParty(p, th'[p], obj.pending, obj.zero)
    BY <1>1, <2>2 DEF GroupParty, GroupPcs, Ends
  <2> QED
    BY <1>1, <2>1, <2>2, <2>3, <2>4, GroupStill
<1>3. CASE th' = [th EXCEPT ![p].stop = "running"]
  BY <1>1, <1>3, GroupStopMoves, GroupNames
<1>4. CASE G!Go(p, "drive")
  <2> DEFINE t == [th[p] EXCEPT !.pc = "drive"]
  <2>2. t.pc = "drive" /\ t.satisfied = th[p].satisfied /\ t.result = th[p].result
    BY <1>1 DEF WaitThread
  <2> HIDE DEF t
  <2>3. ~Waits(Ops, p, th[p]) /\ ~Waits(Ops, p, t)
    BY <1>1, <2>2 DEF Waits
  <2>4. GroupParty(p, t, obj.pending, obj.zero)
    BY <1>1, <2>2 DEF GroupParty, GroupPcs, Ends
  <2> QED
    BY <1>1, <1>4, <2>3, <2>4, GroupGoes, GroupNames DEF t
<1> QED
  BY <1>2, <1>3, <1>4 DEF G!Listen

LEMMA GroupFinish ==
    ASSUME GroupState(obj, th), NEW p \in GroupParties, G!Finish(p)
    PROVE  GroupState(obj', th')
<1>1. /\ th[p].pc = "finish" /\ th[p].stop # "running" /\ obj' = obj /\ p \in Ops /\ p \notin Workers
      /\ th[p] \in WaitThread(GroupParties) /\ GroupParty(p, th[p], obj.pending, obj.zero)
      /\ G!Go(p, "done")
  BY GroupOf DEF G!Finish, G!At, GroupParty, GroupPcs
<1> DEFINE t == [th[p] EXCEPT !.pc = "done"]
<1>2. /\ t.pc = "done" /\ t.satisfied = th[p].satisfied /\ t.result = th[p].result
      /\ t.stop = th[p].stop
  BY <1>1 DEF WaitThread
<1> HIDE DEF t
<1>3. ~Waits(Ops, p, th[p]) /\ ~Waits(Ops, p, t)
  BY <1>1, <1>2 DEF Waits
<1>4. GroupParty(p, t, obj.pending, obj.zero)
  BY <1>1, <1>2 DEF GroupParty, GroupPcs, Ends
<1> QED
  BY <1>1, <1>3, <1>4, GroupGoes, GroupNames DEF t

\* unlink().
LEMMA GroupWithout == \A q, p : List(GroupParties, q) =>
    List(GroupParties, G!Without(q, p)) /\ Elems(G!Without(q, p)) = Elems(q) \ {p}
<1> TAKE q, p
<1> HAVE List(GroupParties, q)
<1>1. CASE p \notin G!Range(q)
  <2>1. p \notin Elems(q)
    BY <1>1 DEF G!Range, Elems, List
  <2> QED
    BY <1>1, <2>1 DEF G!Without
<1>2. CASE p \in G!Range(q)
  <2>1. q \in Seq(GroupParties) /\ DOMAIN q = 1 .. Len(q)
    BY DEF List
  <2>2. PICK i : i = CHOOSE j \in DOMAIN q : q[j] = p
    OBVIOUS
  <2>3. i \in 1 .. Len(q) /\ q[i] = p
    BY <1>2, <2>1, <2>2 DEF G!Range
  <2>4. G!Without(q, p) = SubSeq(q, 1, i - 1) \o SubSeq(q, i + 1, Len(q))
    BY <1>2, <2>2 DEF G!Without
  <2>5. /\ List(GroupParties, SubSeq(q, 1, i - 1) \o SubSeq(q, i + 1, Len(q)))
        /\ Elems(SubSeq(q, 1, i - 1) \o SubSeq(q, i + 1, Len(q))) = Elems(q) \ {q[i]}
    BY <2>3, DropFromList, ZenonT(30)
  <2> QED
    BY <2>3, <2>4, <2>5
<1> QED
  BY <1>1, <1>2

LEMMA GroupLinked ==
    ASSUME GroupState(obj, th), NEW p \in GroupParties
    PROVE  /\ G!Linked(p) <=> In(obj.q, p)
           /\ G!InChain(p) <=> On(th, p)
           /\ DOMAIN G!Unlink(p) = DOMAIN obj.q
           /\ \A l \in DOMAIN obj.q : /\ List(GroupParties, G!Unlink(p)[l])
                                      /\ Elems(G!Unlink(p)[l]) = Elems(obj.q[l]) \ {p}
           /\ [obj EXCEPT !.q = G!Unlink(p)] \in GroupObject
           /\ [obj EXCEPT !.q = G!Unlink(p)].q = G!Unlink(p)
<1>1. G!Linked(p) <=> In(obj.q, p)
  <2>1. DOMAIN obj.q = {"waiters"} /\ List(GroupParties, obj.q.waiters)
    BY GroupFacts
  <2>2. DOMAIN obj.q.waiters = 1 .. Len(obj.q.waiters)
    BY <2>1 DEF List
  <2> QED
    BY <2>1, <2>2 DEF G!Linked, In, Elems, G!Range
<1>2. G!InChain(p) <=> On(th, p)
  <2>1. th \in [GroupParties -> WaitThread(GroupParties)] /\ G!Parties = GroupParties
    BY GroupFacts, GroupPlaces
  <2>2. \A n \in G!Parties : th[n].chain \in Seq(GroupParties)
    BY <2>1 DEF WaitThread
  <2>3. \A n \in G!Parties : DOMAIN th[n].chain = 1 .. Len(th[n].chain)
    BY <2>2
  <2> QED
    BY <2>1, <2>3 DEF G!InChain, On, Elems, G!Range
<1>3. obj \in GroupObject /\ DOMAIN obj.q = {"waiters"} /\ List(GroupParties, obj.q["waiters"])
  BY GroupFacts DEF GroupState
<1>4. /\ DOMAIN G!Unlink(p) = DOMAIN obj.q
      /\ \A l \in DOMAIN obj.q : G!Unlink(p)[l] = G!Without(obj.q[l], p)
  BY DEF G!Unlink
<1>5. \A l \in DOMAIN obj.q : /\ List(GroupParties, G!Unlink(p)[l])
                              /\ Elems(G!Unlink(p)[l]) = Elems(obj.q[l]) \ {p}
  <2>1. /\ List(GroupParties, G!Without(obj.q["waiters"], p))
        /\ Elems(G!Without(obj.q["waiters"], p)) = Elems(obj.q["waiters"]) \ {p}
    BY <1>3, GroupWithout
  <2> QED
    BY <1>3, <1>4, <2>1
<1>6. G!Unlink(p) \in [waiters : Seq(GroupParties)]
  <2>1. PICK n \in Seq(GroupParties) : n = G!Without(obj.q["waiters"], p)
    BY <1>3, <1>4, <1>5 DEF List
  <2>2. G!Unlink(p) = [waiters |-> n]
    BY <1>3, <2>1 DEF G!Unlink
  <2> QED
    BY <2>2
<1>7. PICK z \in [waiters : Seq(GroupParties)] : z = G!Unlink(p)
  BY <1>6
<1>8. [obj EXCEPT !.q = z] \in GroupObject /\ [obj EXCEPT !.q = z].q = z
  BY <1>3 DEF GroupObject
<1> QED
  BY <1>1, <1>2, <1>4, <1>5, <1>7, <1>8

\* p takes itself out.
LEMMA GroupLeaves ==
    ASSUME GroupState(obj, th), NEW p \in GroupParties, NEW k,
           obj' = [obj EXCEPT !.q = G!Unlink(p)],
           Moves(GroupParties, th, k, p), th[p].pc # "detach",
           k[p].chain = th[p].chain, k[p].pc = "notify" <=> th[p].pc = "notify",
           Waits(Ops, p, k[p]) <=> Waits(Ops, p, th[p]) /\ ~In(obj.q, p),
           GroupParty(p, k[p], obj.pending, obj.zero)
    PROVE  GroupState(obj', k)
<1>1. /\ obj' \in GroupObject /\ obj'.q = G!Unlink(p) /\ DOMAIN obj'.q = DOMAIN obj.q
      /\ \A l \in DOMAIN obj.q : /\ List(GroupParties, obj'.q[l])
                                 /\ Elems(obj'.q[l]) = Elems(obj.q[l]) \ {p}
  BY GroupLinked
<1>2. obj'.pending = obj.pending /\ obj'.zero = obj.zero
  OBVIOUS
<1>3. WaitInv(Ops, GroupParties, obj'.q, k)
  BY <1>1, LeavesList DEF GroupState
<1>4. obj'.q.waiters # <<>> => obj.q.waiters # <<>>
  <2>1. /\ DOMAIN obj.q = {"waiters"} /\ List(GroupParties, obj'.q["waiters"])
        /\ Elems(obj'.q["waiters"]) \subseteq Elems(obj.q["waiters"])
    BY <1>1, GroupFacts
  <2>2. obj'.q["waiters"] # <<>> => Elems(obj'.q["waiters"]) # {}
    BY <2>1, NoElems
  <2>3. Elems(<<>>) = {}
    BY EmptyList
  <2> QED
    BY <2>1, <2>2, <2>3
<1> QED
  BY <1>1, <1>2, <1>3, <1>4, GroupMove

LEMMA GroupGuardExit ==
    ASSUME GroupState(obj, th), NEW p \in GroupParties, G!WaitGuardExit(p)
    PROVE  GroupState(obj', th')
<1>1. /\ th[p].pc = "unwind" /\ p \notin Ops /\ p \notin Workers
      /\ obj' = [obj EXCEPT !.q = G!Unlink(p)]
      /\ th[p] \in WaitThread(GroupParties) /\ GroupParty(p, th[p], obj.pending, obj.zero)
      /\ th \in [GroupParties -> WaitThread(GroupParties)] /\ WaitInv(Ops, GroupParties, obj.q, th)
  BY GroupOf DEF G!WaitGuardExit, G!At, GroupParty, GroupPcs, GroupState
<1>2. PICK x \in WaitPcs : /\ x = IF In(obj.q, p) THEN "gone" ELSE "awaitNotifier"
                           /\ th' = [th EXCEPT ![p].pc = x]
  BY GroupLinked, GroupNames DEF G!WaitGuardExit, G!Go
<1>3. Moves(GroupParties, th, th', p) /\ th'[p] = [th[p] EXCEPT !.pc = x]
  BY <1>1, <1>2, GoMoves
<1>4. /\ th'[p].pc = x /\ th'[p].chain = th[p].chain /\ th'[p].result = th[p].result
      /\ th'[p].satisfied = th[p].satisfied
  BY <1>1, <1>3 DEF WaitThread
<1>5. Waits(Ops, p, th'[p]) <=> Waits(Ops, p, th[p]) /\ ~In(obj.q, p)
  BY <1>1, <1>2, <1>4 DEF Waits
<1>6. GroupParty(p, th'[p], obj.pending, obj.zero) /\ th'[p].pc # "notify"
  BY <1>1, <1>2, <1>4 DEF GroupParty, GroupPcs
<1> QED
  BY <1>1, <1>3, <1>4, <1>5, <1>6, GroupLeaves

LEMMA GroupOnStop ==
    ASSUME GroupState(obj, th), NEW p \in GroupParties, G!OnStop(p)
    PROVE  GroupState(obj', th')
<1>1. /\ p \in Ops /\ p \notin Workers /\ th[p].stop = "running"
      /\ obj' = [obj EXCEPT !.q = G!Unlink(p)]
      /\ th[p] \in WaitThread(GroupParties) /\ GroupParty(p, th[p], obj.pending, obj.zero)
      /\ th \in [GroupParties -> WaitThread(GroupParties)] /\ WaitInv(Ops, GroupParties, obj.q, th)
  BY GroupOf DEF G!OnStop, GroupState
<1>2. G!Linked(p) <=> In(obj.q, p)
  BY GroupLinked
<1>3. CASE In(obj.q, p)
  <2>1. th' = [th EXCEPT ![p] = [@ EXCEPT !.stop = "over", !.pc = "finish", !.result = "stopped"]]
    BY <1>2, <1>3 DEF G!OnStop
  <2>2. /\ Moves(GroupParties, th, th', p)
        /\ th'[p] = [th[p] EXCEPT !.stop = "over", !.pc = "finish", !.result = "stopped"]
    BY <1>1, <2>1, TakenBackMoves
  <2>3. /\ th'[p].pc = "finish" /\ th'[p].chain = th[p].chain /\ th'[p].result = "stopped"
        /\ th'[p].satisfied = th[p].satisfied /\ th'[p].stop = "over"
    BY <1>1, <2>2 DEF WaitThread
  <2>4. Waits(Ops, p, th[p]) /\ ~Waits(Ops, p, th'[p]) /\ th[p].pc \notin {"notify", "detach"}
    BY <1>1, <1>3, <2>3 DEF WaitInv, Waits
  <2>5. GroupParty(p, th'[p], obj.pending, obj.zero)
    BY <1>1, <2>3 DEF GroupParty, GroupPcs, Ends
  <2> QED
    BY <1>1, <1>3, <2>2, <2>3, <2>4, <2>5, GroupLeaves
<1>4. CASE ~In(obj.q, p)
  <2>1. th' = [th EXCEPT ![p] = [@ EXCEPT !.stop = "over", !.cancelled = TRUE]]
    BY <1>2, <1>4 DEF G!OnStop
  <2>2. /\ Moves(GroupParties, th, th', p)
        /\ th'[p] = [th[p] EXCEPT !.stop = "over", !.cancelled = TRUE]
    BY <1>1, <2>1, MarkedMoves
  <2>3. /\ th'[p].pc = th[p].pc /\ th'[p].chain = th[p].chain /\ th'[p].result = th[p].result
        /\ th'[p].satisfied = th[p].satisfied /\ th'[p].stop = "over"
    BY <1>1, <2>2 DEF WaitThread
  <2>4. (Waits(Ops, p, th'[p]) <=> Waits(Ops, p, th[p])) /\ th[p].pc # "detach"
    BY <1>1, <2>3 DEF Waits, GroupParty, GroupPcs
  <2>5. GroupParty(p, th'[p], obj.pending, obj.zero)
    BY <1>1, <2>3 DEF GroupParty, Ends
  <2> QED
    BY <1>1, <1>4, <2>2, <2>3, <2>4, <2>5, GroupLeaves
<1> QED
  BY <1>3, <1>4

LEMMA GroupUnwind ==
    ASSUME GroupState(obj, th), NEW p \in GroupParties, G!Unwind(p) \/ G!AwaitNotifier(p)
    PROVE  GroupState(obj', th')
<1>1. /\ p \notin Ops /\ p \notin Workers /\ obj' = obj
      /\ th[p] \in WaitThread(GroupParties) /\ GroupParty(p, th[p], obj.pending, obj.zero)
      /\ \/ th[p].pc = "wait" /\ G!Go(p, "unwind")
         \/ th[p].pc = "awaitNotifier" /\ th[p].satisfied /\ G!Go(p, "gone")
  BY GroupOf DEF G!Unwind, G!AwaitNotifier, G!At, GroupParty, GroupPcs
<1>2. PICK x \in WaitPcs : /\ G!Go(p, x)
                           /\ \/ th[p].pc = "wait" /\ x = "unwind"
                              \/ th[p].pc = "awaitNotifier" /\ th[p].satisfied /\ x = "gone"
  BY <1>1, GroupNames
<1> DEFINE t == [th[p] EXCEPT !.pc = x]
<1>3. t.pc = x /\ t.satisfied = th[p].satisfied /\ t.result = th[p].result
  BY <1>1 DEF WaitThread
<1> HIDE DEF t
<1>4. (Waits(Ops, p, th[p]) <=> Waits(Ops, p, t)) /\ x # "notify"
  BY <1>1, <1>2, <1>3 DEF Waits
<1>5. GroupParty(p, t, obj.pending, obj.zero)
  BY <1>1, <1>2, <1>3 DEF GroupParty, GroupPcs
<1>6. th[p].pc \notin {"notify", "detach"}
  BY <1>2
<1> QED
  BY <1>1, <1>2, <1>4, <1>5, <1>6, GroupGoes DEF t

LEMMA GroupNotify ==
    ASSUME GroupState(obj, th), NEW p \in GroupParties, G!Notify(p, "notified")
    PROVE  GroupState(obj', th')
<1>1. /\ th[p].pc = "notify" /\ p \in Workers /\ p \notin Ops /\ obj' = obj /\ obj.pending = 0
      /\ th[p] \in WaitThread(GroupParties) /\ GroupParty(p, th[p], obj.pending, obj.zero)
      /\ th \in [GroupParties -> WaitThread(GroupParties)] /\ WaitInv(Ops, GroupParties, obj.q, th)
      /\ obj \in GroupObject
  BY GroupOf DEF G!Notify, G!At, GroupParty, GroupPcs, GroupState
<1>2. PICK w \in GroupParties : w = Head(th[p].chain) /\ w # p
                                /\ Waits(Ops, w, th[w]) /\ th[w].chain = <<>>
  BY <1>1, HeadWaits
<1>3. /\ GroupParty(w, th[w], obj.pending, obj.zero) /\ w \notin Workers
      /\ w \in Ops <=> w \notin G!Blocking
  BY <1>2, GroupOf DEF GroupParty, GroupPcs, Waits
<1>4. PICK c \in Seq(GroupParties), x \in WaitPcs, y \in WaitPcs :
          /\ c = Tail(th[p].chain) /\ x = IF Len(th[p].chain) # 1 THEN "notify" ELSE "idle"
          /\ y = IF w \in Ops THEN "notified" ELSE th[w].pc
          /\ th' = [th EXCEPT ![p].chain = c, ![p].pc = x,
                              ![w].satisfied = (w \in G!Blocking), ![w].pc = y]
  <2>1. List(GroupParties, th[p].chain) /\ th[p].chain # <<>>
    BY <1>1 DEF WaitInv
  <2>2. Tail(th[p].chain) \in Seq(GroupParties)
    BY <2>1 DEF List
  <2>3. "notify" \in WaitPcs /\ "idle" \in WaitPcs /\ "notified" \in WaitPcs /\ th[w].pc \in WaitPcs
    BY <1>1, GroupNames DEF WaitThread
  <2>4. th' = [th EXCEPT ![p].chain = Tail(th[p].chain),
                         ![p].pc = IF Len(th[p].chain) # 1 THEN "notify" ELSE "idle",
                         ![w].satisfied = (w \in G!Blocking),
                         ![w].pc = IF w \in Ops THEN "notified" ELSE th[w].pc]
    BY <1>1, <1>2 DEF G!Notify
  <2> QED
    BY <2>2, <2>3, <2>4
<1>5. th' = Told(th, p, c, x, w, G!Blocking, y)
  BY <1>4 DEF Told
<1>6. /\ th' \in [GroupParties -> WaitThread(GroupParties)]
      /\ \A r \in GroupParties \ {p, w} : th'[r] = th[r]
      /\ th'[p].chain = c /\ th'[p].pc = x /\ th'[p].result = th[p].result
      /\ th'[p].satisfied = th[p].satisfied /\ th'[p].stop = th[p].stop
      /\ th'[w].chain = th[w].chain /\ th'[w].pc = y /\ th'[w].result = th[w].result
      /\ th'[w].satisfied <=> w \in G!Blocking
      /\ th'[w].stop = th[w].stop
  BY <1>1, <1>2, <1>5, NotifyMoves
<1>7. ~Waits(Ops, p, th'[p]) /\ ~Waits(Ops, w, th'[w]) /\ th'[w].pc # "notify"
  <2>1. ~Waits(Ops, p, th'[p])
    BY <1>1, <1>4, <1>6 DEF Waits
  <2>2. CASE w \in Ops
    <3>1. th'[w].pc = "notified"
      BY <1>4, <1>6, <2>2
    <3> QED
      BY <2>1, <2>2, <3>1 DEF Waits
  <2>3. CASE w \notin Ops
    <3>1. th'[w].satisfied /\ th'[w].pc = th[w].pc /\ th[w].pc # "notify"
      BY <1>2, <1>3, <1>4, <1>6, <2>3 DEF Waits
    <3> QED
      BY <2>1, <2>3, <3>1 DEF Waits
  <2> QED
    BY <2>2, <2>3
<1>8. WaitInv(Ops, GroupParties, obj.q, th')
  <2>1. /\ w = Head(th[p].chain) /\ WaitInv(Ops, GroupParties, obj.q, th) /\ th[p].pc = "notify"
        /\ ~Waits(Ops, p, th'[p]) /\ ~Waits(Ops, w, th'[w])
        /\ th' \in [GroupParties -> WaitThread(GroupParties)]
        /\ \A r \in GroupParties \ {p, w} : th'[r] = th[r]
        /\ th'[p].chain = Tail(th[p].chain) /\ th'[w].chain = th[w].chain /\ th'[w].pc # "notify"
        /\ p \in GroupParties
    BY <1>1, <1>2, <1>4, <1>6, <1>7
  <2>2. th'[p].pc = "notify" <=> Len(th[p].chain) # 1
    BY <1>4, <1>6
  <2> QED
    BY ONLY <2>1, <2>2, Tells
<1>9. GroupParty(p, th'[p], obj.pending, obj.zero)
  BY <1>1, <1>4, <1>6 DEF GroupParty, GroupPcs
<1>10. GroupParty(w, th'[w], obj.pending, obj.zero)
  <2>1. CASE w \in Ops
    <3>1. th[w].pc = "queued" /\ th'[w].pc = "notified" /\ th'[w].result = th[w].result
      BY <1>2, <1>4, <1>6, <2>1 DEF Waits
    <3> QED
      BY <1>1, <1>3, <2>1, <3>1 DEF GroupParty, GroupPcs, Ends
  <2>2. CASE w \notin Ops
    <3>1. /\ th'[w].pc = th[w].pc /\ th'[w].result = th[w].result
          /\ th[w].pc \in {"unlockToWait", "wait", "unwind", "awaitNotifier"}
      BY <1>2, <1>4, <1>6, <2>2 DEF Waits
    <3> QED
      BY <1>1, <1>3, <2>2, <3>1 DEF GroupParty, GroupPcs
  <2> QED
    BY <2>1, <2>2
<1>11. \A r \in GroupParties : GroupParty(r, th'[r], obj.pending, obj.zero)
  <2>1. \A r \in GroupParties \ {p, w} : GroupParty(r, th'[r], obj.pending, obj.zero)
    BY <1>6 DEF GroupState
  <2> QED
    BY <1>9, <1>10, <2>1
<1>12. GroupLeft(obj, th')
  <2> SUFFICES ASSUME obj.q.waiters # <<>>
               PROVE  \E r \in Workers : th'[r].pc = "detach"
    BY DEF GroupLeft
  <2>1. PICK r \in Workers : th[r].pc = "detach"
    BY <1>1 DEF GroupState, GroupLeft
  <2>2. r \in GroupParties \ {p, w}
    BY <1>1, <1>3, <2>1, GroupPlaces
  <2> QED
    BY <1>6, <2>1, <2>2
<1> QED
  BY <1>1, <1>8, <1>11, <1>12 DEF GroupState

LEMMA GroupDetach ==
    ASSUME GroupState(obj, th), NEW p \in GroupParties, G!Detach(p)
    PROVE  GroupState(obj', th')
<1>1. /\ th[p].pc = "detach" /\ p \in Workers /\ p \notin Ops /\ obj.pending = 0
      /\ th[p] \in WaitThread(GroupParties) /\ GroupParty(p, th[p], obj.pending, obj.zero)
      /\ th \in [GroupParties -> WaitThread(GroupParties)] /\ WaitInv(Ops, GroupParties, obj.q, th)
      /\ obj \in GroupObject /\ DOMAIN obj.q = {"waiters"} /\ List(GroupParties, obj.q.waiters)
  BY GroupOf, GroupFacts DEF G!Detach, G!At, GroupParty, GroupPcs, GroupState
<1>2. obj' = [obj EXCEPT !.q.waiters = <<>>] /\ G!ReturnNotifying(p, G!Reversed(obj.q.waiters), "none")
  BY DEF G!Detach
<1>3. /\ obj' \in GroupObject /\ obj'.pending = obj.pending /\ obj'.zero = obj.zero
      /\ DOMAIN obj'.q = DOMAIN obj.q /\ obj'.q.waiters = <<>>
  <2>1. <<>> \in Seq(GroupParties)
    OBVIOUS
  <2> QED
    BY <1>1, <1>2, <2>1 DEF GroupObject
<1>4. PICK c : c = G!Reversed(obj.q.waiters)
  OBVIOUS
<1>5. List(GroupParties, c) /\ Elems(c) = Elems(obj.q.waiters)
  <2>1. c = [i \in 1 .. Len(obj.q.waiters) |-> obj.q.waiters[Len(obj.q.waiters) + 1 - i]]
    BY <1>1, <1>4 DEF G!Reversed, List
  <2> QED
    BY <1>1, <2>1, ReverseOfList
<1>6. th[p].chain = <<>> /\ c \in Seq(GroupParties)
  BY <1>1, <1>5 DEF WaitInv, List
<1>7. /\ Moves(GroupParties, th, th', p)
      /\ th'[p].pc = (IF c = <<>> THEN "idle" ELSE "notify") /\ th'[p].chain = c
      /\ th'[p].result = "none" /\ th'[p].satisfied = th[p].satisfied
  <2>1. th' = Leaving(th, p, "idle", c, "none")
    BY <1>1, <1>2, <1>4 DEF G!ReturnNotifying, G!Return, Leaving
  <2> QED
    BY <1>1, <1>6, <2>1, ChainMoves, GroupNames
<1>8. ~Waits(Ops, p, th[p]) /\ ~Waits(Ops, p, th'[p]) /\ (th'[p].pc = "notify" <=> th'[p].chain # <<>>)
  BY <1>1, <1>7 DEF Waits
<1>9. /\ \A l \in DOMAIN obj.q : /\ List(GroupParties, obj'.q[l])
                                 /\ Elems(obj'.q[l]) \subseteq Elems(obj.q[l])
                                 /\ Differ(obj'.q[l], th'[p].chain)
      /\ \A r \in GroupParties : In(obj.q, r) <=> In(obj'.q, r) \/ r \in Elems(th'[p].chain)
  BY <1>1, <1>3, <1>5, <1>7, EmptyList DEF In, Differ
<1>10. WaitInv(Ops, GroupParties, obj'.q, th')
  <2>1. /\ p \in GroupParties /\ WaitInv(Ops, GroupParties, obj.q, th) /\ th[p].chain = <<>>
        /\ Moves(GroupParties, th, th', p) /\ List(GroupParties, th'[p].chain)
        /\ Waits(Ops, p, th'[p]) <=> Waits(Ops, p, th[p])
        /\ DOMAIN obj'.q = DOMAIN obj.q
    BY <1>1, <1>3, <1>5, <1>6, <1>7, <1>8
  <2> QED
    BY ONLY <1>8, <1>9, <2>1, Takes
<1>11. GroupParty(p, th'[p], obj'.pending, obj'.zero)
  BY <1>1, <1>3, <1>7 DEF GroupParty, GroupPcs
<1> QED
  BY <1>3, <1>7, <1>10, <1>11, GroupMove

LEMMA GroupAdd ==
    ASSUME GroupState(obj, th), NEW p \in GroupParties, G!Add(p)
    PROVE  GroupState(obj', th')
<1>1. /\ obj.pending > 0 /\ obj' = [obj EXCEPT !.pending = @ + 1, !.adds = @ + 1] /\ th' = th
      /\ obj \in GroupObject /\ WaitInv(Ops, GroupParties, obj.q, th)
  BY DEF G!Add, GroupState
<1>2. /\ obj' \in GroupObject /\ obj'.pending = obj.pending + 1 /\ obj'.q = obj.q
      /\ obj'.zero = obj.zero /\ obj'.pending # 0 /\ obj.pending # 0
  <2>1. obj.pending \in Nat /\ obj.adds \in Nat
    BY <1>1 DEF GroupObject
  <2>2. PICK n \in Nat, a \in Nat : n = obj.pending + 1 /\ a = obj.adds + 1
    BY <2>1
  <2>3. obj' = [obj EXCEPT !.pending = n, !.adds = a]
    BY <1>1, <2>2
  <2>4. /\ obj' \in GroupObject /\ obj'.pending = n /\ obj'.q = obj.q /\ obj'.zero = obj.zero
    BY <1>1, <2>3 DEF GroupObject
  <2> QED
    BY <1>1, <2>1, <2>2, <2>4
<1>3. \A r \in GroupParties : GroupParty(r, th'[r], obj'.pending, obj'.zero)
  BY <1>1, <1>2 DEF GroupState, GroupParty
<1> QED
  BY <1>1, <1>2, <1>3 DEF GroupState, GroupLeft

LEMMA GroupDone ==
    ASSUME GroupState(obj, th), NEW p \in GroupParties, G!Done(p)
    PROVE  GroupState(obj', th')
<1>1. /\ obj.pending > 0 /\ obj.pending \in Nat /\ p \in Workers /\ p \notin Ops /\ th[p].pc = "idle"
      /\ obj' = [obj EXCEPT !.pending = @ - 1, !.zero = IF obj.pending = 1 THEN G!Parties ELSE @]
      /\ IF obj.pending # 1 THEN th' = th ELSE G!Go(p, "detach")
      /\ th \in [GroupParties -> WaitThread(GroupParties)] /\ th[p] \in WaitThread(GroupParties)
      /\ obj \in GroupObject /\ WaitInv(Ops, GroupParties, obj.q, th)
      /\ GroupParty(p, th[p], obj.pending, obj.zero)
  BY GroupOf DEF G!Done, G!At, GroupState
<1>2. /\ obj' \in GroupObject /\ obj'.pending = obj.pending - 1 /\ obj'.q = obj.q
      /\ obj'.zero = IF obj.pending = 1 THEN GroupParties ELSE obj.zero
  <2>1. obj.zero \in SUBSET GroupParties /\ GroupParties \in SUBSET GroupParties
    BY <1>1 DEF GroupObject
  <2>2. PICK n \in Nat : n = obj.pending - 1
    BY <1>1
  <2>3. PICK z \in SUBSET GroupParties : z = IF obj.pending = 1 THEN GroupParties ELSE obj.zero
    BY <2>1
  <2>4. obj' = [obj EXCEPT !.pending = n, !.zero = z]
    BY <1>1, <2>2, <2>3, GroupPlaces
  <2>5. /\ obj' \in GroupObject /\ obj'.pending = n /\ obj'.q = obj.q /\ obj'.zero = z
    BY <1>1, <2>4 DEF GroupObject
  <2> QED
    BY <2>2, <2>3, <2>5
<1>3. CASE obj.pending # 1
  <2>1. obj'.pending # 0 /\ obj'.zero = obj.zero /\ th' = th /\ obj.pending # 0
    BY <1>1, <1>2, <1>3
  <2>2. \A r \in GroupParties : GroupParty(r, th'[r], obj'.pending, obj'.zero)
    BY <1>1, <2>1 DEF GroupState, GroupParty
  <2> QED
    BY <1>1, <1>2, <2>1, <2>2 DEF GroupState, GroupLeft
<1>4. CASE obj.pending = 1
  <2>1. obj'.pending = 0 /\ obj'.zero = GroupParties
    BY <1>2, <1>4
  <2>2. Moves(GroupParties, th, th', p) /\ th'[p] = [th[p] EXCEPT !.pc = "detach"]
    BY <1>1, <1>4, GoMoves, GroupNames DEF G!Go
  <2>3. /\ th'[p].pc = "detach" /\ th'[p].chain = th[p].chain
        /\ \A r \in GroupParties \ {p} : th'[r] = th[r]
    BY <1>1, <2>2 DEF WaitThread, Moves
  <2>4. ~Waits(Ops, p, th[p]) /\ ~Waits(Ops, p, th'[p])
    BY <1>1, <2>3 DEF Waits
  <2>5. WaitInv(Ops, GroupParties, obj'.q, th')
    BY <1>1, <1>2, <2>2, <2>3, <2>4, Stays
  <2>6. GroupParty(p, th'[p], obj'.pending, obj'.zero)
    BY <1>1, <2>1, <2>3 DEF GroupParty, GroupPcs
  <2>7. \A r \in GroupParties \ {p} : GroupParty(r, th'[r], obj'.pending, obj'.zero)
    BY <2>1, <2>3 DEF GroupState, GroupParty
  <2>8. GroupLeft(obj', th')
    BY <1>1, <2>3 DEF GroupLeft
  <2> QED
    BY <1>2, <2>5, <2>6, <2>7, <2>8 DEF GroupState
<1> QED
  BY <1>3, <1>4

LEMMA GroupInit == ASSUME G!Init PROVE GroupState(obj, th)
<1>1. /\ obj = [is |-> "WaitGroup", pending |-> Cardinality(Workers), adds |-> 0,
                q |-> [waiters |-> <<>>], zero |-> {}]
      /\ th = [p \in GroupParties |-> G!Resting]
  <2>1. G!Cardinality(Workers) = Cardinality(Workers)
    BY DEF G!Cardinality, Cardinality
  <2> QED
    BY <2>1, GroupPlaces DEF G!Init
<1>2. obj \in GroupObject /\ DOMAIN obj.q = {"waiters"} /\ obj.q.waiters = <<>>
  <2>1. Cardinality(Workers) \in Nat
    BY GroupUsers, FS_CardinalityType
  <2>2. <<>> \in Seq(GroupParties)
    OBVIOUS
  <2> QED
    BY <1>1, <2>1, <2>2 DEF GroupObject
<1>3. /\ G!Resting \in WaitThread(GroupParties) /\ G!Resting.chain = <<>> /\ G!Resting.pc = "idle"
      /\ ~G!Resting.satisfied /\ G!Resting.result = "none"
  BY DEF G!Resting, WaitThread, WaitPcs, Stops, Results
<1>4. \A p \in GroupParties : th[p] = G!Resting
  BY <1>1
<1>5. WaitInv(Ops, GroupParties, obj.q, th)
  <2>1. th \in [GroupParties -> WaitThread(GroupParties)] /\ DOMAIN th = GroupParties
    BY <1>1, <1>3
  <2>2. \A p \in GroupParties : ~Waits(Ops, p, th[p]) /\ ~In(obj.q, p) /\ ~On(th, p)
    BY <1>2, <1>3, <1>4, <2>1, EmptyList DEF Waits, In, On
  <2> QED
    BY <1>2, <1>3, <1>4, <2>1, <2>2, EmptyList DEF WaitInv, Apart, Differ
<1>6. \A p \in GroupParties : GroupParty(p, th[p], obj.pending, obj.zero)
  BY <1>3, <1>4 DEF GroupParty, GroupPcs, Ends
<1> QED
  BY <1>2, <1>5, <1>6 DEF GroupState, GroupLeft

LEMMA GroupNext == ASSUME GroupState(obj, th), G!Next PROVE GroupState(obj', th')
<1>1. PICK p \in GroupParties : \/ G!Add(p) \/ G!Done(p) \/ G!Wait(p) \/ G!Unwind(p)
                                \/ G!Environment(p) \/ G!Step(p)
  BY GroupPlaces DEF G!Next
<1> QED
  BY <1>1, GroupAdd, GroupDone, GroupLook, GroupUnwind, GroupStart, GroupRequestStop, GroupDetach,
     GroupDrive, GroupEnqueue, GroupReleased, GroupNotify, GroupListen, GroupOnStop, GroupFinish,
     GroupGuardExit
     DEF G!Environment, G!Step, G!OperationStep, G!GuardStep

\* What the invariant means.
LEMMA GroupMeans ==
    ASSUME GroupState(obj, th)
    PROVE  G!InOnePlace(G!Callers) /\ G!NoneLeftAtZero /\ G!WaitMeansZero /\ G!NothingAfterDone
<1>1. ASSUME NEW p \in G!Callers
      PROVE  /\ (G!Linked(p) \/ G!InChain(p)) <=> G!Unreached(p)
             /\ ~(G!Linked(p) /\ G!InChain(p))
  <2>1. p \in GroupParties /\ (p \in Ops <=> p \notin G!Blocking)
    BY GroupPlaces, GroupOf
  <2>2. (G!Linked(p) <=> In(obj.q, p)) /\ (G!InChain(p) <=> On(th, p))
    BY <2>1, GroupLinked
  <2>3. G!Unreached(p) <=> Waits(Ops, p, th[p])
    BY <2>1 DEF G!Unreached, Waits
  <2>4. ~(In(obj.q, p) /\ On(th, p))
    BY DEF GroupState, WaitInv, Apart, In, On, Differ
  <2> QED
    BY <2>1, <2>2, <2>3, <2>4 DEF GroupState, WaitInv
<1>2. G!NoneLeftAtZero
  BY DEF GroupState, GroupLeft, G!NoneLeftAtZero
<1>3. G!WaitMeansZero
  BY GroupPlaces DEF GroupState, GroupParty, G!WaitMeansZero
<1>4. G!NothingAfterDone
  BY GroupPlaces DEF GroupState, GroupParty, Ends, G!NothingAfterDone, GroupParties
<1> QED
  BY <1>1, <1>2, <1>3, <1>4 DEF G!InOnePlace

-----------------------------------------------------------------------------
(* The outcome of a Completion.                                            *)

Setting == {"write", "written", "publish"}
IsCompletion(o) ==
    /\ {"is", "by", "claimed", "ready", "outcome", "q", "got", "writing"} \subseteq DOMAIN o
    /\ "consumer" \in DOMAIN o.q

\* One producer at most is between its claim and publish(); until then nobody reads.
OutcomeInv ==
    /\ IsCompletion(obj) /\ obj.by \in Consumers
    /\ DOMAIN th = F!Parties /\ \A p \in F!Parties : IsThread(th[p])
    /\ \A p \in F!Parties : th[p].pc \in Setting =>
           p \in Producers /\ p = obj.claimed /\ ~obj.ready /\ (th[p].pc = "publish" => obj.outcome = p)
    /\ obj.writing => \E p \in F!Parties : th[p].pc = "written"
    /\ obj.ready => obj.outcome = obj.claimed /\ obj.claimed # NoOne
    /\ \A p \in F!Parties : th[p].pc \in {"read", "detach", "wake"} => obj.ready
    /\ F!OutcomeOfTheClaimer

SameOutcome ==
    /\ IsCompletion(obj') /\ obj'.by = obj.by /\ obj'.claimed = obj.claimed /\ obj'.ready = obj.ready
    /\ obj'.outcome = obj.outcome /\ obj'.writing = obj.writing

OthersStay(p) ==
    /\ DOMAIN th' = F!Parties /\ \A r \in F!Parties : IsThread(th'[r])
    /\ \A r \in F!Parties \ {p} : th'[r].pc = th[r].pc

\* Whoever is not setting the outcome goes about its business.
LEMMA Bystander ==
    ASSUME OutcomeInv, NEW p \in F!Parties, OthersStay(p), SameOutcome,
           th'[p].pc = th[p].pc \/ (th[p].pc \notin Setting /\ th'[p].pc \notin Setting),
           th'[p].pc \in {"read", "detach", "wake"} => obj.ready,
           obj'.got # NoOne => obj'.got = obj.claimed
    PROVE  OutcomeInv'
<1>1. \A r \in F!Parties : th'[r].pc \in Setting => th'[r].pc = th[r].pc
  BY DEF OthersStay
<1>2. \A r \in F!Parties : th[r].pc = "written" => th'[r].pc = "written"
  BY DEF OthersStay, Setting
<1>3. obj'.writing => \E r \in F!Parties : th'[r].pc = "written"
  BY <1>2 DEF OutcomeInv, SameOutcome
<1>4. \A r \in F!Parties : th'[r].pc \in {"read", "detach", "wake"} => obj'.ready
  BY DEF OutcomeInv, SameOutcome, OthersStay
<1>5. F!OutcomeOfTheClaimer'
  BY DEF SameOutcome, F!OutcomeOfTheClaimer
<1>6. \A r \in F!Parties : th'[r].pc \in Setting =>
          r \in Producers /\ r = obj'.claimed /\ ~obj'.ready /\ (th'[r].pc = "publish" => obj'.outcome = r)
  BY <1>1 DEF OutcomeInv, SameOutcome
<1> QED
  BY <1>3, <1>4, <1>5, <1>6 DEF OutcomeInv, SameOutcome, OthersStay

LEMMA StepsAside ==
    ASSUME OutcomeInv, NEW p \in F!Parties, NEW x, F!Go(p, x)
    PROVE  OthersStay(p) /\ th'[p].pc = x
BY DEF OutcomeInv, OthersStay, IsThread, F!Go

LEMMA ReturnsAside ==
    ASSUME OutcomeInv, NEW p \in F!Parties, NEW r, F!Return(p, r)
    PROVE  OthersStay(p) /\ th'[p].pc \in {"finish", "idle"}
<1>1. PICK x \in {"finish", "idle"} : th' = [th EXCEPT ![p].pc = x, ![p].result = r]
  BY DEF F!Return
<1> QED
  BY <1>1 DEF OutcomeInv, OthersStay, IsThread

LEMMA NothingNew ==
    ASSUME OutcomeInv, obj' = obj
    PROVE  SameOutcome /\ (obj'.got # NoOne => obj'.got = obj.claimed)
BY DEF OutcomeInv, SameOutcome, F!OutcomeOfTheClaimer

LEMMA WakersChange ==
    ASSUME OutcomeInv, NEW z, obj' = [obj EXCEPT !.q = z], "consumer" \in DOMAIN z
    PROVE  SameOutcome /\ (obj'.got # NoOne => obj'.got = obj.claimed)
BY DEF OutcomeInv, SameOutcome, IsCompletion, F!OutcomeOfTheClaimer

LEMMA WakerIsPut ==
    ASSUME OutcomeInv, NEW z, obj' = [obj EXCEPT !.q.consumer = z]
    PROVE  SameOutcome /\ (obj'.got # NoOne => obj'.got = obj.claimed)
BY DEF OutcomeInv, SameOutcome, IsCompletion, F!OutcomeOfTheClaimer

\* The producers.
LEMMA ClaimStep == ASSUME OutcomeInv, NEW p \in F!Parties, F!Claim(p) PROVE OutcomeInv'
<1>1. p \in Producers /\ th[p].pc = "idle"
  BY DEF F!Claim, F!At
<1>2. CASE obj.claimed # NoOne
  <2>1. obj' = obj /\ F!Go(p, "late")
    BY <1>2 DEF F!Claim
  <2> QED
    BY <1>1, <2>1, StepsAside, NothingNew, Bystander DEF Setting
<1>3. CASE obj.claimed = NoOne
  <2>1. obj' = [obj EXCEPT !.claimed = p] /\ F!Go(p, "write")
    BY <1>3 DEF F!Claim
  <2>2. OthersStay(p) /\ th'[p].pc = "write"
    BY <2>1, StepsAside
  <2>3. /\ IsCompletion(obj') /\ obj'.claimed = p /\ obj'.ready = obj.ready /\ obj'.by = obj.by
        /\ obj'.writing = obj.writing /\ obj'.got = obj.got /\ p # NoOne
    BY <1>1, <2>1, CompletionUsers DEF OutcomeInv, IsCompletion
  <2>4. ~obj.ready /\ obj.got = NoOne /\ \A r \in F!Parties : r \in Producers => th[r].pc \notin Setting
    BY <1>3, CompletionUsers DEF OutcomeInv, F!OutcomeOfTheClaimer
  <2>5. \A r \in F!Parties : th[r].pc \notin Setting
    BY <2>4 DEF OutcomeInv
  <2>6. ~obj.writing
    BY <2>5 DEF OutcomeInv, Setting
  <2>7. F!OutcomeOfTheClaimer'
    BY <2>3, <2>4 DEF F!OutcomeOfTheClaimer
  <2>8. \A r \in F!Parties : th'[r].pc \in Setting => r = p
    BY <2>2, <2>5 DEF OthersStay
  <2>9. \A r \in F!Parties : th'[r].pc \in {"read", "detach", "wake"} => obj'.ready
    BY <2>2, <2>3 DEF OthersStay, OutcomeInv
  <2> QED
    BY <1>1, <2>2, <2>3, <2>4, <2>6, <2>7, <2>8, <2>9 DEF OutcomeInv, OthersStay
<1> QED
  BY <1>2, <1>3

LEMMA WriteStep == ASSUME OutcomeInv, NEW p \in F!Parties, F!Write(p) PROVE OutcomeInv'
<1>1. CASE th[p].pc = "write" /\ obj' = [obj EXCEPT !.writing = TRUE] /\ F!Go(p, "written")
  <2>1. OthersStay(p) /\ th'[p].pc = "written"
    BY <1>1, StepsAside
  <2>2. /\ IsCompletion(obj') /\ obj'.claimed = obj.claimed /\ obj'.ready = obj.ready
        /\ obj'.by = obj.by /\ obj'.got = obj.got /\ obj'.outcome = obj.outcome
    BY <1>1 DEF OutcomeInv, IsCompletion
  <2>3. p \in Producers /\ p = obj.claimed /\ ~obj.ready
    BY <1>1 DEF OutcomeInv, Setting
  <2>4. F!OutcomeOfTheClaimer'
    BY <2>2 DEF OutcomeInv, F!OutcomeOfTheClaimer
  <2>5. \A r \in F!Parties \ {p} : th'[r].pc \notin Setting
    BY <2>1, <2>3 DEF OutcomeInv, OthersStay
  <2>6. \A r \in F!Parties : th'[r].pc \notin {"read", "detach", "wake"}
    BY <2>1, <2>3 DEF OutcomeInv, OthersStay
  <2> QED
    BY <2>1, <2>2, <2>3, <2>4, <2>5, <2>6 DEF OutcomeInv, OthersStay
<1>2. CASE th[p].pc = "written" /\ obj' = [obj EXCEPT !.outcome = p, !.writing = FALSE] /\ F!Go(p, "publish")
  <2>1. OthersStay(p) /\ th'[p].pc = "publish"
    BY <1>2, StepsAside
  <2>2. /\ IsCompletion(obj') /\ obj'.claimed = obj.claimed /\ obj'.ready = obj.ready
        /\ obj'.by = obj.by /\ obj'.got = obj.got /\ obj'.outcome = p /\ ~obj'.writing
    BY <1>2 DEF OutcomeInv, IsCompletion
  <2>3. p \in Producers /\ p = obj.claimed /\ ~obj.ready
    BY <1>2 DEF OutcomeInv, Setting
  <2>4. F!OutcomeOfTheClaimer'
    BY <2>2 DEF OutcomeInv, F!OutcomeOfTheClaimer
  <2>5. \A r \in F!Parties \ {p} : th'[r].pc \notin Setting
    BY <2>1, <2>3 DEF OutcomeInv, OthersStay
  <2>6. \A r \in F!Parties : th'[r].pc \notin {"read", "detach", "wake"}
    BY <2>1, <2>3 DEF OutcomeInv, OthersStay
  <2> QED
    BY <2>1, <2>2, <2>3, <2>4, <2>5, <2>6 DEF OutcomeInv, OthersStay
<1> QED
  BY <1>1, <1>2 DEF F!Write, F!At

LEMMA PublishStep == ASSUME OutcomeInv, NEW p \in F!Parties, F!Publish(p) PROVE OutcomeInv'
<1>1. th[p].pc = "publish" /\ obj' = [obj EXCEPT !.ready = TRUE, !.q.consumer = <<>>]
  BY DEF F!Publish, F!At
<1>2. OthersStay(p) /\ th'[p].pc \in {"late", "wake"}
  <2>1. CASE F!Go(p, "late")
    BY <2>1, StepsAside
  <2>2. CASE th' = [th EXCEPT ![p].pc = "wake", ![p].chain = obj.q.consumer]
    BY <2>2 DEF OutcomeInv, OthersStay, IsThread
  <2> QED
    BY <2>1, <2>2 DEF F!Publish
<1>3. /\ IsCompletion(obj') /\ obj'.claimed = obj.claimed /\ obj'.ready /\ obj'.writing = obj.writing
      /\ obj'.by = obj.by /\ obj'.got = obj.got /\ obj'.outcome = obj.outcome
  BY <1>1 DEF OutcomeInv, IsCompletion
<1>4. p \in Producers /\ p = obj.claimed /\ obj.outcome = p /\ p # NoOne
  BY <1>1, CompletionUsers DEF OutcomeInv, Setting
<1>5. F!OutcomeOfTheClaimer'
  BY <1>3 DEF OutcomeInv, F!OutcomeOfTheClaimer
<1>6. \A r \in F!Parties : th'[r].pc \notin Setting
  BY <1>2, <1>4 DEF OutcomeInv, OthersStay, Setting
<1>7. ~obj.writing
  BY <1>1, <1>4 DEF OutcomeInv, Setting
<1> QED
  BY <1>2, <1>3, <1>4, <1>5, <1>6, <1>7 DEF OutcomeInv, OthersStay

LEMMA WakeStep == ASSUME OutcomeInv, NEW p \in F!Parties, F!Wake(p) PROVE OutcomeInv'
<1> DEFINE w == Head(th[p].chain)
<1>1. /\ th[p].pc = "wake" /\ obj' = obj /\ obj.ready
      /\ th' = [th EXCEPT ![p].pc = "late", ![p].chain = <<>>, ![w].satisfied = (w \in F!Blocking),
                          ![w].pc = IF w \in Ops THEN "read" ELSE @]
  BY DEF F!Wake, F!At, OutcomeInv
<1>2. PICK s : s = (w \in F!Blocking)
  OBVIOUS
<1>3. PICK v : v = w
  OBVIOUS
<1> HIDE DEF w
<1>4. DOMAIN th = F!Parties /\ \A r \in F!Parties : IsThread(th[r])
  BY DEF OutcomeInv
<1>5. \/ th' = [th EXCEPT ![p].pc = "late", ![p].chain = <<>>, ![v].satisfied = s, ![v].pc = "read"]
      \/ th' = [th EXCEPT ![p].pc = "late", ![p].chain = <<>>, ![v].satisfied = s, ![v].pc = @]
  BY <1>1, <1>2, <1>3
<1>6. DOMAIN th' = F!Parties /\ \A r \in F!Parties : IsThread(th'[r])
  BY <1>4, <1>5 DEF IsThread
<1>7. \A r \in F!Parties : th'[r].pc \in {"late", "read", th[r].pc}
  BY <1>4, <1>5 DEF IsThread
<1>8. ~obj.writing /\ \A r \in F!Parties : th[r].pc \notin Setting
  BY <1>1 DEF OutcomeInv, Setting
<1>9. \A r \in F!Parties : th'[r].pc \notin Setting
  BY <1>7, <1>8 DEF Setting
<1>10. F!OutcomeOfTheClaimer'
  BY <1>1 DEF OutcomeInv, F!OutcomeOfTheClaimer
<1> QED
  BY <1>1, <1>6, <1>8, <1>9, <1>10 DEF OutcomeInv

\* The awaiter.
LEMMA GoesAside ==
    ASSUME OutcomeInv, NEW p \in F!Parties, NEW x, F!Go(p, x), th[p].pc \notin Setting,
           x \notin Setting, x \in {"read", "detach", "wake"} => obj.ready,
           SameOutcome /\ (obj'.got # NoOne => obj'.got = obj.claimed)
    PROVE  OutcomeInv'
BY StepsAside, Bystander

LEMMA Unlinking ==
    ASSUME OutcomeInv, NEW p, obj' = [obj EXCEPT !.q = F!Unlink(p)]
    PROVE  SameOutcome /\ (obj'.got # NoOne => obj'.got = obj.claimed)
<1>1. "consumer" \in DOMAIN F!Unlink(p)
  BY DEF OutcomeInv, IsCompletion, F!Unlink
<1> QED
  BY <1>1, WakersChange

LEMMA AwaiterStep ==
    ASSUME OutcomeInv, NEW p \in F!Parties,
           F!Get(p) \/ F!Attach(p) \/ F!Block(p) \/ F!Timeout(p) \/ F!IsReady(p) \/ F!UnwindHere(p)
             \/ F!Detach(p) \/ F!Read(p)
    PROVE  OutcomeInv'
<1>1. CASE F!Get(p)
  BY <1>1, GoesAside, NothingNew DEF F!Get, F!At1, Setting
<1>2. CASE F!Attach(p)
  <2>1. th[p].pc = "attach"
    BY <1>2 DEF F!Attach, F!At1
  <2>2. CASE obj.ready
    BY <1>2, <2>1, <2>2, GoesAside, NothingNew DEF F!Attach, Setting
  <2>3. CASE ~obj.ready
    BY <1>2, <2>1, <2>3, GoesAside, WakerIsPut DEF F!Attach, Setting
  <2> QED
    BY <2>2, <2>3
<1>3. CASE F!Block(p)
  <2>1. th[p].pc = "block" /\ th' = [th EXCEPT ![p].pc = "attach", ![p].satisfied = FALSE] /\ obj' = obj
    BY <1>3 DEF F!Block, F!At1
  <2>2. OthersStay(p) /\ th'[p].pc = "attach"
    BY <2>1 DEF OutcomeInv, OthersStay, IsThread
  <2> QED
    BY <2>1, <2>2, Bystander, NothingNew DEF Setting
<1>4. CASE F!Timeout(p)
  BY <1>4, GoesAside, NothingNew DEF F!Timeout, F!At1, Setting
<1>5. CASE F!IsReady(p)
  BY <1>5, GoesAside, NothingNew DEF F!IsReady, F!At1, Setting
<1>6. CASE F!UnwindHere(p)
  BY <1>6, GoesAside, NothingNew DEF F!UnwindHere, F!At1, Setting
<1>7. CASE F!Detach(p)
  <2>1. /\ obj' = [obj EXCEPT !.q = F!Unlink(p)]
        /\ \/ th[p].pc = "detach" /\ F!Go(p, "read")
           \/ th[p].pc = "detachLate" /\ F!Go(p, "idle")
           \/ th[p].pc = "detachGone" /\ F!Go(p, "gone")
    BY <1>7 DEF F!Detach, F!At1
  <2>2. th[p].pc = "detach" => obj.ready
    BY DEF OutcomeInv
  <2> QED
    BY <2>1, <2>2, GoesAside, Unlinking DEF Setting
<1>8. CASE F!Read(p)
  <2>1. th[p].pc = "read" /\ obj.ready /\ F!Return(p, "value")
    BY <1>8 DEF F!Read, F!At1, OutcomeInv
  <2>2. ~obj.writing /\ obj.outcome = obj.claimed
    BY <2>1 DEF OutcomeInv, Setting
  <2>3. obj' = [obj EXCEPT !.got = obj.outcome]
    BY <1>8, <2>2 DEF F!Read
  <2>4. SameOutcome /\ obj'.got = obj.claimed
    BY <2>2, <2>3 DEF OutcomeInv, SameOutcome, IsCompletion
  <2>5. OthersStay(p) /\ th'[p].pc \in {"finish", "idle"}
    BY <2>1, ReturnsAside
  <2> QED
    BY <2>1, <2>4, <2>5, Bystander DEF Setting
<1> QED
  BY <1>1, <1>2, <1>3, <1>4, <1>5, <1>6, <1>7, <1>8

\* async_get.  It is no producer, so that no stop callback runs into one.
LEMMA AwaitingStep ==
    ASSUME OutcomeInv, NEW p \in F!Parties,
           \/ F!TryNow(p) \/ F!AttachOrReady(p)
           \/ F!Consuming(p) /\ (F!OperationStep(p) \/ F!Environment(p))
    PROVE  OutcomeInv'
<1>1. p = obj.by /\ th[p].pc \notin Setting
  BY CompletionUsers DEF F!TryNow, F!AttachOrReady, F!At1, F!Consuming, OutcomeInv
<1>2. CASE F!TryNow(p)
  BY <1>1, <1>2, GoesAside, NothingNew DEF F!TryNow, Setting
<1>3. ASSUME NEW r, F!Return(p, r), obj' = obj
      PROVE  OutcomeInv'
  BY <1>1, <1>3, ReturnsAside, NothingNew, Bystander DEF Setting
<1>4. CASE F!AttachOrReady(p)
  <2>1. CASE obj.ready /\ F!Go(p, "read") /\ obj' = obj
    BY <1>1, <2>1, GoesAside, NothingNew DEF Setting
  <2>2. CASE obj' = obj /\ F!Return(p, "stopped")
    BY <1>3, <2>2
  <2>3. CASE obj' = [obj EXCEPT !.q.consumer = <<p>>] /\ F!Enqueued(p)
    <3>1. PICK x \in {"queued", "wait"} : th' = [th EXCEPT ![p].pc = x, ![p].satisfied = FALSE]
      BY <2>3 DEF F!Enqueued
    <3>2. OthersStay(p) /\ th'[p].pc = x
      BY <3>1 DEF OutcomeInv, OthersStay, IsThread
    <3> QED
      BY <1>1, <2>3, <3>2, WakerIsPut, Bystander DEF Setting
  <2> QED
    BY <1>4, <2>1, <2>2, <2>3 DEF F!AttachOrReady
<1>5. CASE F!Start(p)
  BY <1>1, <1>3, <1>5, GoesAside, NothingNew DEF F!Start, Setting
<1>6. CASE F!RequestStop(p)
  <2>1. PICK s : th' = [th EXCEPT ![p].stop = s] /\ obj' = obj
    BY <1>6 DEF F!RequestStop
  <2>2. OthersStay(p) /\ th'[p].pc = th[p].pc
    BY <2>1 DEF OutcomeInv, OthersStay, IsThread
  <2>3. th'[p].pc \in {"read", "detach", "wake"} => obj.ready
    BY <2>2 DEF OutcomeInv
  <2> QED
    BY <2>1, <2>2, <2>3, NothingNew, Bystander
<1>7. CASE F!Listen(p)
  <2>1. th[p].pc = "listen" /\ obj' = obj
    BY <1>7 DEF F!Listen, F!At
  <2>2. CASE th' = [th EXCEPT ![p].stop = "listening", ![p].pc = "drive"]
    <3>1. OthersStay(p) /\ th'[p].pc = "drive"
      BY <2>2 DEF OutcomeInv, OthersStay, IsThread
    <3> QED
      BY <1>1, <2>1, <3>1, NothingNew, Bystander DEF Setting
  <2>3. CASE th' = [th EXCEPT ![p].stop = "running"]
    <3>1. OthersStay(p) /\ th'[p].pc = "listen"
      BY <2>1, <2>3 DEF OutcomeInv, OthersStay, IsThread
    <3> QED
      BY <1>1, <2>1, <3>1, NothingNew, Bystander DEF Setting
  <2>4. CASE F!Go(p, "drive")
    BY <1>1, <2>1, <2>4, GoesAside, NothingNew DEF Setting
  <2> QED
    BY <1>7, <2>2, <2>3, <2>4 DEF F!Listen
<1>8. CASE F!OnStop(p)
  <2>1. obj' = [obj EXCEPT !.q = F!Unlink(p)]
    BY <1>8 DEF F!OnStop
  <2>2. CASE th' = [th EXCEPT ![p] = [@ EXCEPT !.stop = "over", !.pc = "finish", !.result = "stopped"]]
    <3>1. OthersStay(p) /\ th'[p].pc = "finish"
      BY <2>2 DEF OutcomeInv, OthersStay, IsThread
    <3> QED
      BY <1>1, <2>1, <3>1, Unlinking, Bystander DEF Setting
  <2>3. CASE th' = [th EXCEPT ![p] = [@ EXCEPT !.stop = "over", !.cancelled = TRUE]]
    <3>1. OthersStay(p) /\ th'[p].pc = th[p].pc
      BY <2>3 DEF OutcomeInv, OthersStay, IsThread
    <3>2. th'[p].pc \in {"read", "detach", "wake"} => obj.ready
      BY <3>1 DEF OutcomeInv
    <3> QED
      BY <2>1, <3>1, <3>2, Unlinking, Bystander
  <2> QED
    BY <1>8, <2>2, <2>3 DEF F!OnStop
<1>9. CASE F!Finish(p)
  BY <1>1, <1>9, GoesAside, NothingNew DEF F!Finish, Setting
<1> QED
  BY <1>2, <1>4, <1>5, <1>6, <1>7, <1>8, <1>9 DEF F!OperationStep, F!Environment

LEMMA OutcomeInit == ASSUME F!Init PROVE OutcomeInv
<1>1. /\ IsCompletion(obj) /\ obj.by \in Consumers /\ obj.got = NoOne /\ ~obj.ready /\ ~obj.writing
      /\ th = [p \in F!Parties |-> F!Resting]
  BY DEF F!Init, IsCompletion
<1>2. IsThread(F!Resting) /\ F!Resting.pc = "idle"
  BY DEF F!Resting, IsThread
<1> QED
  BY <1>1, <1>2 DEF OutcomeInv, F!OutcomeOfTheClaimer, Setting

LEMMA OutcomeNext == ASSUME OutcomeInv, F!Next PROVE OutcomeInv'
BY ClaimStep, WriteStep, PublishStep, WakeStep, AwaiterStep, AwaitingStep DEF F!Next, F!Step

-----------------------------------------------------------------------------
(* What a wait returns with.                                               *)

ResultSafe ==
    /\ HasKind
    /\ Is("WaitGroup") => GroupState(obj, th)
    /\ Is("Completion") => OutcomeInv

\* WaitGroup, Completion: a wait that returns with a value was true of the count at
\* some moment of the call, and the outcome got is whole, and the claimer's own.
THEOREM ResultsAreTrue == Spec => []ResultIsTrue
<1>1. Init => ResultSafe
  <2>1. Init /\ Is("WaitGroup") => G!Init
    BY DEF Init, InitOthers, Is, C!Init, V!Init, S!Init, F!Init, L!Init, T!Init
  <2>2. Init /\ Is("Completion") => F!Init
    BY DEF Init, InitOthers, Is, G!Init, C!Init, V!Init, S!Init, L!Init, T!Init
  <2> QED
    BY <2>1, <2>2, KindGiven, GroupInit, OutcomeInit DEF ResultSafe
<1>2. ResultSafe /\ [Next]_vars => ResultSafe'
  <2> SUFFICES ASSUME ResultSafe, [Next]_vars
               PROVE  ResultSafe'
    OBVIOUS
  <2>1. SameKind
    BY KindStays DEF ResultSafe
  <2>2. ASSUME obj.is = "WaitGroup"
        PROVE  GroupState(obj', th')
    <3>1. GroupState(obj, th)
      BY <2>2 DEF ResultSafe, Is
    <3>2. CASE UNCHANGED vars
      <4>1. obj' = obj /\ th' = th
        BY <3>2 DEF vars
      <4> QED
        BY ONLY <3>1, <4>1
    <3>3. CASE G!Next
      BY <3>1, <3>3, GroupNext
    <3>4. G!Next \/ UNCHANGED vars
      BY <2>2 DEF Next, NextOthers, Is
    <3> QED
      BY <3>2, <3>3, <3>4
  <2>3. ASSUME obj.is = "Completion"
        PROVE  OutcomeInv'
    <3>1. OutcomeInv
      BY <2>3 DEF ResultSafe, Is
    <3>2. CASE UNCHANGED vars
      BY <3>1, <3>2 DEF vars, OutcomeInv, IsCompletion, F!OutcomeOfTheClaimer
    <3>3. CASE F!Next
      BY <3>1, <3>3, OutcomeNext
    <3>4. F!Next \/ UNCHANGED vars
      BY <2>3 DEF Next, NextOthers, Is
    <3> QED
      BY <3>2, <3>3, <3>4
  <2>4. obj'.is = "WaitGroup" => GroupState(obj', th')
    BY <2>1, <2>2 DEF SameKind
  <2>5. obj'.is = "Completion" => OutcomeInv'
    BY <2>1, <2>3 DEF SameKind
  <2> QED
    BY <2>1, <2>4, <2>5 DEF ResultSafe, SameKind, HasKind, Is
<1>3. ResultSafe => ResultIsTrue
  BY GroupMeans DEF ResultSafe, ResultIsTrue, OutcomeInv
<1> QED
  BY <1>1, <1>2, <1>3, PTL DEF Spec
=============================================================================
