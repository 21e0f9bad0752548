------------------------- MODULE ConditionVariable -------------------------
(***************************************************************************)
(* sync::ConditionVariable as its callers use it: producers change the     *)
(* condition (a number of items) under a sync::Mutex and notify after they *)
(* have unlocked it, consumers wait(mutex) in a loop on the condition.     *)
(* stop() may unwind a consumer in wait(), where RelockOnUnwind tries to   *)
(* take the mutex that the caller's guard is about to unlock, or in the    *)
(* mutex.lock() that ends wait(), where nothing does.                      *)
(*                                                                         *)
(* The mutex is a semaphore of one permit (Semaphore.tla); here only its   *)
(* permits count.                                                          *)
(***************************************************************************)
EXTENDS Waiters

CONSTANTS Producers, Consumers,
          MaxItems   \* bound: producers stop at that many items

Init ==
    /\ obj = [is |-> Kind, permits |-> 1, items |-> 0,
              q |-> [waiters |-> <<>>],
              gaveUp |-> {}]  \* history: unwound without the mutex
    /\ th = [p \in Parties |-> Resting]

MutexLock(p, from, to) ==
    /\ At(p, from) /\ obj.permits > 0
    /\ obj' = [obj EXCEPT !.permits = @ - 1]
    /\ Go(p, to)
MutexUnlock(p, from, to) ==
    /\ At(p, from)
    /\ obj' = [obj EXCEPT !.permits = @ + 1]
    /\ Go(p, to)

-----------------------------------------------------------------------------
(* The callers.                                                            *)

Lock(p) == MutexLock(p, "idle", IF p \in Producers THEN "produce" ELSE "check")
Produce(p) ==
    /\ At(p, "produce") /\ obj.items < MaxItems
    /\ obj' = [obj EXCEPT !.items = @ + 1]
    /\ Go(p, "unlockToNotify")
Unlock(p) == MutexUnlock(p, "unlockToNotify", "announce") \/ MutexUnlock(p, "leave", "idle")
Check(p) ==
    /\ At(p, "check")
    /\ IF obj.items > 0
       THEN obj' = [obj EXCEPT !.items = @ - 1] /\ Go(p, "leave")
       ELSE Go(p, "register") /\ UNCHANGED obj

-----------------------------------------------------------------------------
(* wait(), notifyOne(), notifyAll().                                       *)

\* The waiter is in the list before the mutex is free.
Register(p) ==
    /\ At(p, "register")
    /\ obj' = [obj EXCEPT !.q = PushBack("waiters", p)]
    /\ th' = [th EXCEPT ![p].pc = "unlockToWait", ![p].satisfied = FALSE]
UnlockToWait(p) == MutexUnlock(p, "unlockToWait", "wait")
Relock(p) == MutexLock(p, "relock", "check")

NotifyOne(p) ==
    /\ At(p, "announce")
    /\ obj' = [obj EXCEPT !.q = PopFront("waiters")]
    /\ ReturnNotifying(p, Front1("waiters"), "none")
NotifyAll(p) ==
    /\ At(p, "announce")
    /\ obj' = [obj EXCEPT !.q.waiters = <<>>]
    /\ ReturnNotifying(p, Reversed(obj.q.waiters), "none")

-----------------------------------------------------------------------------
(* The unwinding of a consumer.                                            *)

\* Mutant: an unwound waiter leaves without the mutex.
UnwindUnlocked(p) == At(p, "gone") /\ Go(p, "unlockGone") /\ UNCHANGED obj
\* ~RelockOnUnwind, after ~WaitGuard: 1024 attempts of tryLock().
RelockOnUnwind(p) ==
    \/ MutexLock(p, "gone", "unlockGone")
    \/ /\ At(p, "gone") /\ obj.permits = 0
       /\ obj' = [obj EXCEPT !.gaveUp = @ \cup {p}]
       /\ Go(p, "unlockGone")
\* Thrown at the park inside mutex.lock(): RelockOnUnwind is disarmed by then.
UnwindInLock(p) ==
    /\ p \in Tasks /\ At(p, "relock") /\ obj.permits = 0
    /\ obj' = [obj EXCEPT !.gaveUp = @ \cup {p}]
    /\ Go(p, "unlockGone")
\* The caller's lock guard.
UnlockGone(p) == MutexUnlock(p, "unlockGone", "out")

Step(p) ==
    \/ Produce(p) \/ Unlock(p) \/ Check(p) \/ Register(p) \/ UnlockToWait(p)
    \/ Relock(p) \/ NotifyOne(p) \/ NotifyAll(p) \/ RelockOnUnwind(p)
    \/ UnlockGone(p) \/ WaitReturns(p, "relock") \/ Notify(p, "none") \/ GuardStep(p)
Next == \E p \in Parties : Lock(p) \/ Unwind(p) \/ UnwindInLock(p) \/ Step(p)

-----------------------------------------------------------------------------
Holders == {p \in Parties : th[p].pc \in
               {"produce", "unlockToNotify", "check", "leave", "register",
                "unlockToWait", "unlockGone"} /\ p \notin obj.gaveUp}

\* The mutex stays a mutex through waits and unwinds: one party holds it or it
\* is free, but for the permit each unwound task that gave up adds.
MutexBalanced ==
    obj.permits + Cardinality(Holders) =
        1 + Cardinality({p \in obj.gaveUp : th[p].pc = "out"})

\* An item is never left beside a consumer asleep in wait(): somebody awake
\* will look, or its producer has yet to notify, or the notification went down
\* with an unwound task.
NoMissedNotify ==
    obj.gaveUp = {} /\ obj.q.waiters # <<>> =>
        obj.items <= Cardinality({p \in Parties :
            \/ InChain(p)
            \/ p \in Producers /\ th[p].pc \in {"unlockToNotify", "announce"}
            \/ p \in Consumers /\ th[p].pc \in {"relock", "check"}
            \/ th[p].satisfied /\ th[p].pc \in
                  {"unlockToWait", "wait", "unwind", "awaitNotifier", "gone", "unlockGone", "out"}})
=============================================================================
