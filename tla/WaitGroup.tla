----------------------------- MODULE WaitGroup -----------------------------
(***************************************************************************)
(* sync::WaitGroup: done() decrements without the lock and only then takes *)
(* it to detach the waiters; wait() and waitOrEnqueue() (exec's            *)
(* async_wait) look at the count before and under the lock.                *)
(***************************************************************************)
EXTENDS Waiters

CONSTANTS Workers,   \* threads that call done()
          MaxAdds,   \* bound: calls of add() after the first
          Reuse      \* a second round: add() after wait() has returned

Callers == Parties \ Workers

Init ==
    /\ obj = [is |-> Kind, pending |-> Cardinality(Workers), adds |-> 0,
              q |-> [waiters |-> <<>>],
              zero |-> {}]  \* history: who has seen the count at zero since the call
    /\ th = [p \in Parties |-> Resting]

Zero(o, p) == IF o.pending = 0 THEN o.zero \cup {p} ELSE o.zero \ {p}

\* add() of the tasks yet to be spawned.  Back at zero it waits until every
\* wait() of the round before has returned.
Add(p) ==
    /\ p \in Workers /\ At(p, "idle") /\ obj.adds < MaxAdds
    /\ \/ obj.pending > 0
       \/ /\ Reuse
          /\ \A c \in Callers : th[c].pc \in {"idle", "done", "gone"}
          /\ \E c \in Callers : th[c].result = "value"
    /\ obj' = [obj EXCEPT !.pending = @ + 1, !.adds = @ + 1]
    /\ UNCHANGED th

\* Mutant: releases the waiters one done() too early.
DoneOneEarly(p) ==
    /\ p \in Workers /\ At(p, "idle") /\ obj.pending > 0
    /\ obj' = [obj EXCEPT !.pending = @ - 1,
                          !.zero = IF obj.pending = 1 THEN Parties ELSE @]
    /\ IF obj.pending > 2 THEN UNCHANGED th ELSE Go(p, "detach")
\* done(): the one that reaches zero goes on to the waiters.  That every
\* done() has its add() is the caller's contract.
Done(p) ==
    /\ p \in Workers /\ At(p, "idle") /\ obj.pending > 0
    /\ obj' = [obj EXCEPT !.pending = @ - 1,
                          !.zero = IF obj.pending = 1 THEN Parties ELSE @]
    /\ IF obj.pending # 1 THEN UNCHANGED th ELSE Go(p, "detach")

Detach(p) ==
    /\ At(p, "detach")
    /\ obj' = [obj EXCEPT !.q.waiters = <<>>]
    /\ ReturnNotifying(p, Reversed(obj.q.waiters), "none")

\* The look without the lock: wait(), waitOrEnqueue(), async_wait's ready().
Look(p, from, to) ==
    /\ p \in Callers /\ At(p, from)
    /\ obj' = [obj EXCEPT !.zero = Zero(obj, p)]
    /\ IF obj.pending = 0 THEN Return(p, "value")
       ELSE th' = [th EXCEPT ![p].pc = to, ![p].result = "none"]

Wait(p) == p \in Blocking /\ Look(p, "idle", "enqueue")
TryNow(p) == Look(p, "tryNow", "listen")
Drive(p) ==
    /\ At(p, "drive")
    /\ IF obj.pending = 0 THEN Return(p, "value") ELSE Go(p, "enqueue")
    /\ UNCHANGED obj

\* Under the lock: a cancelled operation first, then the count once more.
Enqueue(p) ==
    /\ At(p, "enqueue")
    /\ \/ th[p].cancelled /\ Return(p, "stopped") /\ UNCHANGED obj
       \/ ~th[p].cancelled /\ obj.pending = 0 /\ Return(p, "value") /\ UNCHANGED obj
       \/ /\ ~th[p].cancelled /\ obj.pending # 0
          /\ obj' = [obj EXCEPT !.q = PushBack("waiters", p)]
          /\ Enqueued(p)

\* wait() returns: notified.
Released(p) ==
    /\ At(p, "wait") /\ th[p].satisfied
    /\ Return(p, "value") /\ UNCHANGED obj

\* event_operation::on_notified() completes with a value.
OnNotified(p) == At(p, "notified") /\ Return(p, "value") /\ UNCHANGED obj

Step(p) ==
    \/ Detach(p) \/ TryNow(p) \/ Drive(p) \/ Enqueue(p) \/ Released(p)
    \/ Notify(p, "notified") \/ OnNotified(p) \/ OperationStep(p) \/ GuardStep(p)
Next ==
    \E p \in Parties : Add(p) \/ Done(p) \/ Wait(p) \/ Unwind(p)
                       \/ Environment(p) \/ Step(p)

-----------------------------------------------------------------------------
\* wait() returns, and async_wait completes with a value, only if the count
\* was at zero at some moment of the call.
WaitMeansZero ==
    \A p \in Callers : th[p].result = "value" => p \in obj.zero

\* With the count at zero nobody is left in the list unless a done() is on its
\* way to it.
NoneLeftAtZero ==
    obj.pending = 0 /\ obj.q.waiters # <<>> => \E p \in Workers : th[p].pc = "detach"
=============================================================================
