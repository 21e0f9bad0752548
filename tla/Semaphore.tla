----------------------------- MODULE Semaphore -----------------------------
(***************************************************************************)
(* sync::Semaphore, and with it sync::Mutex (a semaphore of one permit):   *)
(* the lock-free fast path, the announce / re-check Dekker pair of         *)
(* acquireSlow() with release(), hand-over to waiters in FIFO order, the   *)
(* callback waiters of exec (acquireOrEnqueue, cancel) and the WaitGuard   *)
(* of a waiter that stop() unwinds.                                        *)
(*                                                                         *)
(* `permits` and `waiterCount` are read and written with and without the   *)
(* lock, so each access is a step; the waiters list is touched only under  *)
(* the lock.  A notified task or thread is woken for certain: that the     *)
(* wake-up itself is not lost is ParkWake.tla's subject.                   *)
(***************************************************************************)
EXTENDS Naturals, Sequences, FiniteSets, SequencesExt

CONSTANTS Blocking,   \* tasks and threads that call acquire()
          Callbacks,  \* operations that call acquireOrEnqueue()
          Permits,    \* initialPermits
          NoOne       \* the SpinLock is free

ASSUME PartiesAreDistinct == Blocking \cap Callbacks = {} /\ NoOne \notin Blocking \cup Callbacks
ASSUME PermitsPositive == Permits \in Nat \ {0}

VARIABLES
    permits, waiterCount,
    lock,        \* who holds the SpinLock
    waiters,     \* WaitList
    satisfied,   \* Waiter::satisfied
    cancelled,   \* Waiter::cancelled
    chain,       \* waiters a releaser detached and has yet to notify
    pc,
    forfeited    \* history: permits that went down with an unwound waiter

vars == <<permits, waiterCount, lock, waiters, satisfied, cancelled, chain,
          pc, forfeited>>

Parties == Blocking \cup Callbacks
Pc == {"out", "drive", "slowLock", "announce", "recheck", "retract", "wait",
       "unwindLock", "awaitNotifier", "gone", "in", "relCount", "relLock",
       "handOut", "handCount", "notify"}

TypeOK ==
    /\ permits \in 0 .. Permits
    /\ waiterCount \in Nat
    /\ lock \in Parties \cup {NoOne}
    /\ waiters \in Seq(Parties)
    /\ satisfied \in [Parties -> BOOLEAN]
    /\ cancelled \in [Parties -> BOOLEAN]
    /\ chain \in [Parties -> Seq(Parties)]
    /\ pc \in [Parties -> Pc]
    /\ forfeited \in Nat

Init ==
    /\ permits = Permits /\ waiterCount = 0
    /\ lock = NoOne /\ waiters = <<>>
    /\ satisfied = [p \in Parties |-> FALSE]
    /\ cancelled = [p \in Parties |-> FALSE]
    /\ chain = [p \in Parties |-> <<>>]
    /\ pc = [p \in Parties |-> "out"]
    /\ forfeited = 0

Go(p, from, to) == pc[p] = from /\ pc' = [pc EXCEPT ![p] = to]
Lock(p) == lock = NoOne /\ lock' = p
Unlock(p) == lock' = NoOne
Linked(p) == Contains(waiters, p)
\* WaitList::unlink(): the element itself, wherever it is in the list.
Unlink(p) == \E i \in 1 .. Len(waiters) :
                 waiters[i] = p /\ waiters' = RemoveAt(waiters, i)

-----------------------------------------------------------------------------
(* tryAcquire(), acquireSlow(), acquireOrEnqueue().                        *)

\* The fast path: acquire(), or a sender's try_now().
TryAcquire(p) ==
    /\ \/ permits > 0 /\ permits' = permits - 1 /\ Go(p, "out", "in")
       \/ /\ permits = 0
          /\ Go(p, "out", IF p \in Callbacks THEN "drive" ELSE "slowLock")
          /\ UNCHANGED permits
    /\ satisfied' = [satisfied EXCEPT ![p] = FALSE]
    /\ UNCHANGED <<waiterCount, lock, waiters, cancelled, chain, forfeited>>

\* A sender listens for stop requests by now, and acquireOrEnqueue() tries
\* once more before it looks whether it was cancelled.
DriveAcquire(p) ==
    /\ \/ /\ permits > 0 /\ permits' = permits - 1
          /\ Go(p, "drive", "in")
          /\ cancelled' = [cancelled EXCEPT ![p] = FALSE]
       \/ permits = 0 /\ Go(p, "drive", "slowLock") /\ UNCHANGED <<permits, cancelled>>
    /\ UNCHANGED <<waiterCount, lock, waiters, satisfied, chain, forfeited>>

\* A callback waiter that was cancelled first is refused.
SlowLock(p) ==
    /\ Lock(p) /\ ~cancelled[p]
    /\ Go(p, "slowLock", "announce")
    /\ UNCHANGED <<permits, waiterCount, waiters, satisfied, cancelled, chain, forfeited>>

SlowCancelled(p) ==
    /\ lock = NoOne /\ cancelled[p]
    /\ Go(p, "slowLock", "out")
    /\ cancelled' = [cancelled EXCEPT ![p] = FALSE]
    /\ UNCHANGED <<permits, waiterCount, lock, waiters, satisfied, chain, forfeited>>

Announce(p) ==
    /\ Go(p, "announce", "recheck")
    /\ waiterCount' = waiterCount + 1
    /\ UNCHANGED <<permits, lock, waiters, satisfied, cancelled, chain, forfeited>>

\* Mutant: queues without looking at the permits again.
RecheckSkipped(p) ==
    /\ waiters' = Append(waiters, p)
    /\ Unlock(p)
    /\ Go(p, "recheck", "wait")
    /\ UNCHANGED <<permits, waiterCount, satisfied, cancelled, chain, forfeited>>

\* The second tryAcquire(): take a permit after all, or join the list.
Recheck(p) ==
    /\ \/ /\ permits > 0 /\ permits' = permits - 1
          /\ Go(p, "recheck", "retract")
          /\ UNCHANGED <<waiters, lock>>
       \/ /\ permits = 0
          /\ waiters' = Append(waiters, p)
          /\ Unlock(p)
          /\ Go(p, "recheck", "wait")
          /\ UNCHANGED permits
    /\ UNCHANGED <<waiterCount, satisfied, cancelled, chain, forfeited>>

Retract(p) ==
    /\ Go(p, "retract", "in")
    /\ waiterCount' = waiterCount - 1
    /\ Unlock(p)
    /\ UNCHANGED <<permits, waiters, satisfied, cancelled, chain, forfeited>>

\* Waiter::wait() returns.
WaitReturns(p) ==
    /\ p \in Blocking /\ satisfied[p]
    /\ Go(p, "wait", "in")
    /\ UNCHANGED <<permits, waiterCount, lock, waiters, satisfied, cancelled, chain, forfeited>>

\* Semaphore::cancel() on an operation that may not have queued itself yet.
Cancel(p) ==
    /\ p \in Callbacks /\ lock = NoOne
    /\ \/ /\ Unlink(p)
          /\ waiterCount' = waiterCount - 1
          /\ Go(p, "wait", "out")
          /\ UNCHANGED cancelled
       \/ /\ ~Linked(p) /\ pc[p] \in {"drive", "slowLock", "wait"}
          /\ cancelled' = [cancelled EXCEPT ![p] = TRUE]
          /\ UNCHANGED <<waiters, waiterCount, pc>>
    /\ UNCHANGED <<permits, lock, satisfied, chain, forfeited>>

-----------------------------------------------------------------------------
(* ~WaitGuard(): stop() unwinds a task out of its wait.                    *)

Unwind(p) ==
    /\ p \in Blocking
    /\ Go(p, "wait", "unwindLock")
    /\ UNCHANGED <<permits, waiterCount, lock, waiters, satisfied, cancelled, chain, forfeited>>

UnwindLinked(p) ==
    /\ lock = NoOne /\ Unlink(p)
    /\ Go(p, "unwindLock", "gone")
    /\ waiterCount' = waiterCount - 1
    /\ UNCHANGED <<permits, lock, satisfied, cancelled, chain, forfeited>>

UnwindTaken(p) ==
    /\ lock = NoOne /\ ~Linked(p)
    /\ Go(p, "unwindLock", "awaitNotifier")
    /\ UNCHANGED <<permits, waiterCount, lock, waiters, satisfied, cancelled, chain, forfeited>>

AwaitNotifier(p) ==
    /\ satisfied[p]
    /\ Go(p, "awaitNotifier", "gone")
    /\ forfeited' = forfeited + 1
    /\ UNCHANGED <<permits, waiterCount, lock, waiters, satisfied, cancelled, chain>>

-----------------------------------------------------------------------------
(* release().                                                              *)

Release(p) ==
    /\ Go(p, "in", "relCount")
    /\ permits' = permits + 1
    /\ UNCHANGED <<waiterCount, lock, waiters, satisfied, cancelled, chain, forfeited>>

ReleaseCount(p) ==
    /\ Go(p, "relCount", IF waiterCount = 0 THEN "out" ELSE "relLock")
    /\ UNCHANGED <<permits, waiterCount, lock, waiters, satisfied, cancelled, chain, forfeited>>

ReleaseLock(p) ==
    /\ Lock(p)
    /\ Go(p, "relLock", "handOut")
    /\ UNCHANGED <<permits, waiterCount, waiters, satisfied, cancelled, chain, forfeited>>

\* Mutant: wakes the first waiter and leaves it to others to take the permit.
HandOutKeepsPermit(p) ==
    /\ \/ /\ waiters # <<>> /\ permits > 0
          /\ waiters' = Tail(waiters)
          /\ chain' = [chain EXCEPT ![p] = Append(@, Head(waiters))]
          /\ Go(p, "handOut", "handCount")
          /\ UNCHANGED lock
       \/ /\ waiters = <<>> \/ permits = 0
          /\ Unlock(p)
          /\ Go(p, "handOut", "notify")
          /\ UNCHANGED <<waiters, chain>>
    /\ UNCHANGED <<permits, waiterCount, satisfied, cancelled, forfeited>>

\* Take a permit for the first waiter, or stop: none left of one or the other.
HandOut(p) ==
    /\ \/ /\ waiters # <<>> /\ permits > 0
          /\ permits' = permits - 1
          /\ waiters' = Tail(waiters)
          /\ chain' = [chain EXCEPT ![p] = Append(@, Head(waiters))]
          /\ Go(p, "handOut", "handCount")
          /\ UNCHANGED lock
       \/ /\ waiters = <<>> \/ permits = 0
          /\ Unlock(p)
          /\ Go(p, "handOut", "notify")
          /\ UNCHANGED <<permits, waiters, chain>>
    /\ UNCHANGED <<waiterCount, satisfied, cancelled, forfeited>>

HandCount(p) ==
    /\ Go(p, "handCount", "handOut")
    /\ waiterCount' = waiterCount - 1
    /\ UNCHANGED <<permits, lock, waiters, satisfied, cancelled, chain, forfeited>>

\* Mutant: skips a callback whose cancel() came too late.
NotifySkipsCancelled(p) ==
    /\ pc[p] = "notify"
    /\ \/ /\ chain[p] = <<>>
          /\ pc' = [pc EXCEPT ![p] = "out"]
          /\ UNCHANGED <<chain, satisfied, cancelled>>
       \/ /\ chain[p] # <<>>
          /\ chain' = [chain EXCEPT ![p] = Tail(@)]
          /\ LET q == Head(chain[p])
             IN  \/ /\ q \in Callbacks
                    /\ pc' = IF cancelled[q] THEN pc ELSE [pc EXCEPT ![q] = "in"]
                    /\ UNCHANGED <<satisfied, cancelled>>
                 \/ /\ q \in Blocking
                    /\ satisfied' = [satisfied EXCEPT ![q] = TRUE]
                    /\ UNCHANGED <<pc, cancelled>>
    /\ UNCHANGED <<permits, waiterCount, lock, waiters, forfeited>>

\* Waiter::notify(): a callback goes on inside it, a blocked party is woken.
Notify(p) ==
    /\ pc[p] = "notify"
    /\ \/ /\ chain[p] = <<>>
          /\ pc' = [pc EXCEPT ![p] = "out"]
          /\ UNCHANGED <<chain, satisfied, cancelled>>
       \/ /\ chain[p] # <<>>
          /\ chain' = [chain EXCEPT ![p] = Tail(@)]
          /\ LET q == Head(chain[p])
             IN  \/ /\ q \in Callbacks
                    /\ pc' = [pc EXCEPT ![q] = "in"]
                    /\ cancelled' = [cancelled EXCEPT ![q] = FALSE]
                    /\ UNCHANGED satisfied
                 \/ /\ q \in Blocking
                    /\ satisfied' = [satisfied EXCEPT ![q] = TRUE]
                    /\ UNCHANGED <<pc, cancelled>>
    /\ UNCHANGED <<permits, waiterCount, lock, waiters, forfeited>>

-----------------------------------------------------------------------------
AcquireStep(p) == \/ DriveAcquire(p) \/ SlowLock(p) \/ SlowCancelled(p) \/ Announce(p)
                  \/ Recheck(p) \/ Retract(p) \/ WaitReturns(p)

UnwindStep(p) == UnwindLinked(p) \/ UnwindTaken(p) \/ AwaitNotifier(p)

ReleaseStep(p) == \/ ReleaseCount(p) \/ ReleaseLock(p) \/ HandOut(p)
                  \/ HandCount(p) \/ Notify(p)

Next == \E p \in Parties :
            \/ TryAcquire(p) \/ AcquireStep(p)
            \/ Cancel(p) \/ Unwind(p) \/ UnwindStep(p)
            \/ Release(p) \/ ReleaseStep(p)

Spec == Init /\ [][Next]_vars
-----------------------------------------------------------------------------
(* Properties.                                                             *)

\* A releaser took p off the list, with a permit for it.
Taken(p) == pc[p] \in {"wait", "unwindLock", "awaitNotifier"} /\ ~Linked(p)

Holders == {p \in Parties : pc[p] \in {"retract", "in"} \/ Taken(p)}

\* Semaphore promises at most `Permits` holders, each permit given to one.
Promise == INSTANCE SemaphoreSpec WITH holders <- Holders,
                                       size <- Permits - forfeited
Implements == Promise!Spec

\* The Dekker argument at the top of Semaphore.cpp: whenever a permit lies
\* free with a waiter on the list, some releaser has not finished handing
\* out, or the permit will be seen by an acquirer's re-check.
NoPermitForgotten ==
    permits > 0 /\ waiters # <<>> =>
        \E p \in Parties : pc[p] \in {"relCount", "relLock", "handOut", "handCount"}

\* Lifetime rule of Waiter.h: a notifier touches a Waiter only while its
\* owner is still inside the wait (or waits for the notifier to be done).
NoDanglingWaiter ==
    \A p \in Parties : \A i \in 1 .. Len(chain[p]) :
        pc[chain[p][i]] \in {"wait", "unwindLock", "awaitNotifier"}

\* release() may skip the lock only if nobody waits: the count covers the
\* list at all times, and drops to zero when everybody has left.
CountCoversList ==
    /\ waiterCount >= Len(waiters)
    /\ lock = NoOne => waiterCount = Len(waiters)

\* Threads run on, and a thread that spins on the lock gets it eventually;
\* holders release.
Fairness ==
    \A p \in Parties :
        /\ SF_vars(SlowLock(p) \/ SlowCancelled(p))
        /\ SF_vars(ReleaseLock(p))
        /\ SF_vars(UnwindLinked(p) \/ UnwindTaken(p))
        /\ WF_vars(DriveAcquire(p) \/ Announce(p) \/ Recheck(p) \/ Retract(p) \/ WaitReturns(p))
        /\ WF_vars(AwaitNotifier(p))
        /\ WF_vars(ReleaseCount(p) \/ HandOut(p) \/ HandCount(p) \/ Notify(p))
        /\ WF_vars(Release(p))

FairSpec == Spec /\ Fairness

\* A waiter that a release() took off the list gets to run: it acquires the
\* permit, or stop() ends it.
TakenIsResumed == \A p \in Parties : Taken(p) ~> pc[p] \in {"in", "gone"}

\* A permit does not lie idle beside a queue: it is handed out, an acquirer
\* on the fast path gets it, or the queue empties (Semaphore.cpp).
PermitReachesQueue ==
    permits > 0 /\ waiters # <<>> ~> permits = 0 \/ waiters = <<>>
=============================================================================
