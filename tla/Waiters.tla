------------------------------ MODULE Waiters ------------------------------
(***************************************************************************)
(* How anyone waits on a sync primitive that keeps WaitLists: a task or a  *)
(* thread with a Waiter on its own stack (WaitGuard included, for the task *)
(* that stop() unwinds), or an operation of stackfull::exec with a         *)
(* callback waiter, its stop listener and its completion.  WaitGroup,      *)
(* ConditionVariable and Channel extend this module; Stream and Completion *)
(* share the life of an operation.                                         *)
(*                                                                         *)
(* `obj` is the primitive (its fields, and q: its wait lists), `th` what   *)
(* each party is doing.  A section under the SpinLock is one step: what it *)
(* reads is protected by that lock, but for at most one atomic word.       *)
(***************************************************************************)
EXTENDS Naturals, Sequences, FiniteSets, Functions

CONSTANTS Tasks,    \* may be unwound by Scheduler::stop()
          Threads,  \* plain threads, which block on a Parker
          Ops,      \* exec operations, each started once
          Kind      \* the primitive: a run may choose among several

VARIABLES obj, th

vars == <<obj, th>>

Parties == Tasks \cup Threads \cup Ops
Blocking == Tasks \cup Threads

Resting == [pc |-> "idle", satisfied |-> FALSE, cancelled |-> FALSE,
            stop |-> "quiet", chain |-> <<>>, result |-> "none"]

At(p, pc) == obj.is = Kind /\ th[p].pc = pc
Go(p, pc) == th' = [th EXCEPT ![p].pc = pc]
Return(p, result) ==
    th' = [th EXCEPT ![p].pc = IF p \in Ops THEN "finish" ELSE "idle",
                     ![p].result = result]

Linked(p) == \E l \in DOMAIN obj.q : p \in Range(obj.q[l])
PushBack(l, p) == [obj.q EXCEPT ![l] = Append(@, p)]
PopFront(l) == [obj.q EXCEPT ![l] = IF @ = <<>> THEN @ ELSE Tail(@)]
Front1(l) == IF obj.q[l] = <<>> THEN <<>> ELSE <<Head(obj.q[l])>>
Without(list, p) ==
    IF p \notin Range(list) THEN list
    ELSE LET i == CHOOSE j \in DOMAIN list : list[j] = p
         IN  SubSeq(list, 1, i - 1) \o SubSeq(list, i + 1, Len(list))
Unlink(p) == [l \in DOMAIN obj.q |-> Without(obj.q[l], p)]
\* Whoever takes a whole list makes a chain of it, the last at its head.
Reversed(list) == [i \in DOMAIN list |-> list[Len(list) + 1 - i]]

\* p leaves the lock with `chain` to notify and then returns `result`.
ReturnNotifying(p, chain, result) ==
    IF chain = <<>> THEN Return(p, result)
    ELSE th' = [th EXCEPT ![p].pc = "notify", ![p].chain = chain,
                          ![p].result = result]

\* A fresh Waiter on the stack of p, or the waiter inside an operation.
Enqueued(p) ==
    th' = [th EXCEPT ![p].pc = IF p \in Ops THEN "queued" ELSE "wait",
                     ![p].satisfied = FALSE]

-----------------------------------------------------------------------------
(* Waiter::notify(), wait(), ~WaitGuard().                                 *)

\* notify() the next of the chain.  A callback runs on the notifying thread;
\* its steps are the operation's own, from onCallback on.
Notify(p, onCallback) ==
    LET w == Head(th[p].chain)
        last == Len(th[p].chain) = 1
    IN  /\ At(p, "notify")
        /\ th' = [th EXCEPT
               ![p].chain = Tail(@),
               ![p].pc = IF ~last THEN @ ELSE IF p \in Ops THEN "finish" ELSE "idle",
               ![w].satisfied = w \in Blocking,
               ![w].pc = IF w \in Ops THEN onCallback ELSE @]
        /\ UNCHANGED obj

WaitReturns(p, to) ==
    /\ At(p, "wait") /\ th[p].satisfied
    /\ th' = [th EXCEPT ![p].pc = to, ![p].satisfied = FALSE]
    /\ UNCHANGED obj

Unwind(p) ==
    p \in Tasks /\ At(p, "wait") /\ Go(p, "unwind") /\ UNCHANGED obj

\* Mutant: the frame is left with the waiter enqueued.
UnwindAtOnce(p) ==
    At(p, "unwind") /\ obj' = [obj EXCEPT !.q = Unlink(p)] /\ Go(p, "gone")
WaitGuardExit(p) ==
    /\ At(p, "unwind")
    /\ obj' = [obj EXCEPT !.q = Unlink(p)]
    /\ Go(p, IF Linked(p) THEN "gone" ELSE "awaitNotifier")

AwaitNotifier(p) ==
    At(p, "awaitNotifier") /\ th[p].satisfied /\ Go(p, "gone") /\ UNCHANGED obj

-----------------------------------------------------------------------------
(* waiting_operation: start(), the stop listener, finish_*().              *)

Start(p) ==
    /\ p \in Ops /\ At(p, "idle")
    /\ IF th[p].stop = "requested" THEN Return(p, "stopped") ELSE Go(p, "tryNow")
    /\ UNCHANGED obj

\* A stop requested by now runs on_stop inside listen().
Listen(p) ==
    /\ At(p, "listen")
    /\ CASE th[p].stop = "quiet" ->
              th' = [th EXCEPT ![p].stop = "listening", ![p].pc = "drive"]
         [] th[p].stop = "requested" -> th' = [th EXCEPT ![p].stop = "running"]
         [] th[p].stop = "over" -> Go(p, "drive")
         [] OTHER -> FALSE
    /\ UNCHANGED obj

\* Someone requests stop; on_stop runs on that thread if it is registered.
RequestStop(p) ==
    /\ p \in Ops /\ obj.is = Kind /\ th[p].pc # "done"
    /\ th[p].stop \in {"quiet", "listening"}
    /\ th' = [th EXCEPT ![p].stop =
                 IF th[p].stop = "quiet" THEN "requested" ELSE "running"]
    /\ UNCHANGED obj

\* Mutant: marks the operation and leaves it enqueued.
OnStopMarksOnly(p) ==
    /\ p \in Ops /\ obj.is = Kind /\ th[p].stop = "running"
    /\ th' = [th EXCEPT ![p].stop = "over", ![p].cancelled = TRUE]
    /\ UNCHANGED obj
\* on_stop: cancel_wait() takes the waiter back, or marks it.
OnStop(p) ==
    /\ p \in Ops /\ obj.is = Kind /\ th[p].stop = "running"
    /\ obj' = [obj EXCEPT !.q = Unlink(p)]
    /\ th' = [th EXCEPT ![p] =
                 IF Linked(p)
                 THEN [@ EXCEPT !.stop = "over", !.pc = "finish", !.result = "stopped"]
                 ELSE [@ EXCEPT !.stop = "over", !.cancelled = TRUE]]

\* Mutant: completes while the stop callback is running.
FinishAtOnce(p) == At(p, "finish") /\ Go(p, "done") /\ UNCHANGED obj
\* finish_*(): listener.stop() waits for an on_stop that runs elsewhere; the
\* receiver may then destroy the operation.
Finish(p) ==
    At(p, "finish") /\ th[p].stop # "running" /\ Go(p, "done") /\ UNCHANGED obj

Environment(p) == Start(p) \/ RequestStop(p)
OperationStep(p) == Listen(p) \/ OnStop(p) \/ Finish(p)
GuardStep(p) == WaitGuardExit(p) \/ AwaitNotifier(p)

-----------------------------------------------------------------------------
InChain(p) == \E n \in Parties : p \in Range(th[n].chain)

\* Someone waits, and no notifier has reached it yet.
Unreached(p) ==
    \/ p \in Ops /\ th[p].pc = "queued"
    \/ p \in Blocking /\ ~th[p].satisfied
                      /\ th[p].pc \in {"unlockToWait", "wait", "unwind", "awaitNotifier"}

\* A Waiter lives on a stack that is about to be left, or in an operation that
\* its receiver may destroy: it is linked, or in the chain of a notifier, at
\* most one of them, exactly while its owner still waits for it.
InOnePlace(waiting) ==
    \A p \in waiting :
        /\ (Linked(p) \/ InChain(p)) <=> Unreached(p)
        /\ ~(Linked(p) /\ InChain(p))

\* A stop request is not forgotten: an operation that still waits after its
\* on_stop has run is about to be called back.
StopNotForgotten ==
    \A p \in Ops : th[p].stop = "over" /\ th[p].pc = "queued" => InChain(p)

\* Once an operation has completed nothing runs on it: its on_stop is over,
\* and it completed with what it was given.
NothingAfterDone ==
    \A p \in Ops : th[p].pc = "done" => th[p].stop # "running" /\ th[p].result # "none"
=============================================================================
