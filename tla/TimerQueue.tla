----------------------------- MODULE TimerQueue -----------------------------
(***************************************************************************)
(* Timers of one queue: tasks in sleepUntil() or in a timed wait, whose    *)
(* entries lie on their stacks, operations of stackfull::exec that are     *)
(* called back, workers that fire what has expired, and stop(), which      *)
(* calls every operation back and closes the queue.  A section under the   *)
(* queue's lock is one step; waking and calling back follow outside it.    *)
(*                                                                         *)
(* The heap is the set of its entries; that the earliest deadline is at    *)
(* its top is TimerHeap's subject.                                         *)
(***************************************************************************)
EXTENDS Waiters

CONSTANTS Deadlines, MaxTime    \* clock readings, and their bound

Queued(p) == p \in obj.queued
Earliest(p) == Queued(p) /\ \A q \in obj.queued : th[p].deadline <= th[q].deadline
removeLocked(p) == [obj EXCEPT !.queued = @ \ {p}]

Init ==
    /\ obj = [is |-> Kind, now |-> 0, closed |-> FALSE, stopping |-> FALSE, queued |-> {}]
    /\ th = [p \in Parties |->
                [pc |-> "idle", satisfied |-> FALSE, cancelled |-> FALSE, stop |-> "quiet",
                 chain |-> <<>>, result |-> "none", fired |-> FALSE, deadline |-> 0,
                 after |-> "idle"]]

Tick == obj.is = Kind /\ obj.now < MaxTime /\ obj' = [obj EXCEPT !.now = @ + 1] /\ UNCHANGED th

-----------------------------------------------------------------------------
(* Tasks: `satisfied` is a wake that has reached them.                     *)

\* add(), for sleepUntil() or for Waiter::blockUntil().
AddTimer(p, d, pc) ==
    /\ p \in Tasks /\ At(p, "idle")
    /\ th' = [th EXCEPT ![p].pc = pc, ![p].deadline = d, ![p].fired = FALSE]
    /\ obj' = [obj EXCEPT !.queued = @ \cup {p}]
ParkReturns(p) ==
    /\ At(p, "sleeping") \/ At(p, "blocked")
    /\ th[p].satisfied
    /\ th' = [th EXCEPT ![p].satisfied = FALSE,
                        ![p].pc = IF @ = "sleeping" THEN "look" ELSE "cancelTimer"]
    /\ UNCHANGED obj
LookFired(p) ==
    /\ At(p, "look") /\ Go(p, IF th[p].fired THEN "idle" ELSE "sleeping") /\ UNCHANGED obj
\* Mutant: the frame is left with its entry in the heap.
UnwindLeavesTimer(p) ==
    /\ At(p, "cancelTimer") \/ At(p, "unwind")
    /\ obj' = IF th[p].pc # "unwind" THEN removeLocked(p) ELSE obj
    /\ th' = [th EXCEPT ![p].pc = IF @ = "unwind" THEN "gone" ELSE "idle", ![p].result = "none"]
\* CancelTimer and CancelOnUnwind: the entry leaves the queue with its frame.
CancelTimer(p) ==
    /\ At(p, "cancelTimer") \/ At(p, "unwind")
    /\ obj' = removeLocked(p)
    /\ th' = [th EXCEPT ![p].pc = IF @ = "unwind" THEN "gone" ELSE "idle", ![p].result = "none"]
\* Whoever else wakes the task.
OtherWake(p) ==
    /\ At(p, "sleeping") \/ At(p, "blocked")
    /\ th' = [th EXCEPT ![p].satisfied = TRUE] /\ UNCHANGED obj
ForcedUnwind(p) ==
    /\ At(p, "sleeping") \/ At(p, "blocked")
    /\ obj.stopping
    /\ Go(p, "unwind") /\ UNCHANGED obj

-----------------------------------------------------------------------------
(* timer_operation.                                                        *)

StartTimer(p, d) ==
    /\ p \in Ops /\ At(p, "idle")
    /\ th' = [th EXCEPT ![p] =
           IF th[p].stop = "requested" \/ obj.stopping
           THEN [@ EXCEPT !.pc = "finish", !.result = "stopped"]
           ELSE [@ EXCEPT !.pc = "listen", !.deadline = d]]
    /\ UNCHANGED obj
addUnlessCancelled(p) ==
    /\ At(p, "drive")
    /\ IF th[p].cancelled \/ obj.closed THEN Return(p, "stopped") /\ UNCHANGED obj
       ELSE Go(p, "queued") /\ obj' = [obj EXCEPT !.queued = @ \cup {p}]
\* Mutant: stops an entry whose callback has been taken.
StopsTheFiredToo(p) ==
    /\ p \in Ops /\ obj.is = Kind /\ th[p].stop = "running"
    /\ obj' = removeLocked(p)
    /\ th' = [th EXCEPT ![p].stop = "over", ![p].pc = "finish", ![p].result = "stopped"]
CancelOnStop(p) ==
    /\ p \in Ops /\ obj.is = Kind /\ th[p].stop = "running"
    /\ IF Queued(p)
       THEN /\ obj' = removeLocked(p)
            /\ th' = [th EXCEPT ![p].stop = "over", ![p].pc = "finish", ![p].result = "stopped"]
       ELSE /\ th' = [th EXCEPT ![p].stop = "over", ![p].cancelled = TRUE]
            /\ UNCHANGED obj
\* In the spawned task: listener.stop(), then what stop_requested() says.
Run(p) ==
    /\ At(p, "run") /\ th[p].stop # "running"
    /\ Return(p, IF th[p].stop = "over" \/ obj.stopping THEN "stopped" ELSE "value")
    /\ UNCHANGED obj

-----------------------------------------------------------------------------
(* fireExpired() and fireCallbacksAndClose().                              *)

\* removeLocked(), then fireAndUnlock(): the entry is not touched any more.
Fire(w, p, after) ==
    /\ obj' = [removeLocked(p) EXCEPT !.closed = @ \/ after = "close"]
    /\ th' = [th EXCEPT ![p].fired = TRUE, ![w].pc = "act", ![w].chain = <<p>>, ![w].after = after]
fireExpired(w) ==
    /\ w \in Threads /\ At(w, "idle")
    /\ \E p \in obj.queued :
          Earliest(p) /\ th[p].deadline <= obj.now /\ Fire(w, p, "idle")
Act(w) ==
    LET p == Head(th[w].chain)
    IN  /\ At(w, "act")
        /\ \E callback \in {"run", "stopped", "error"} :
              /\ (callback = "stopped") <=> obj.stopping     \* what spawn() says
              /\ th' = [th EXCEPT
                     ![w].pc = th[w].after, ![w].chain = <<>>,
                     ![p] = IF p \in Tasks THEN [@ EXCEPT !.satisfied = TRUE]
                            ELSE IF callback = "run" THEN [@ EXCEPT !.pc = "run"]
                            ELSE [@ EXCEPT !.pc = "finish", !.result = callback]]
        /\ UNCHANGED obj
RequestStopAll(w) ==
    /\ w \in Threads /\ At(w, "idle") /\ ~obj.stopping
    /\ obj' = [obj EXCEPT !.stopping = TRUE] /\ Go(w, "close")
fireCallbacksAndClose(w) ==
    /\ At(w, "close")
    /\ IF obj.queued \cap Ops = {}
       THEN obj' = [obj EXCEPT !.closed = TRUE] /\ Go(w, "closed")
       ELSE \E p \in obj.queued \cap Ops : Fire(w, p, "close")

Step(p) ==
    \/ ParkReturns(p) \/ LookFired(p) \/ CancelTimer(p) \/ Listen(p) \/ addUnlessCancelled(p)
    \/ CancelOnStop(p) \/ Run(p) \/ Finish(p)
    \/ fireExpired(p) \/ Act(p) \/ fireCallbacksAndClose(p)
Next ==
    \/ Tick
    \/ \E p \in Parties :
         \/ Step(p) \/ OtherWake(p) \/ ForcedUnwind(p) \/ RequestStop(p) \/ RequestStopAll(p)
         \/ \E d \in Deadlines :
               StartTimer(p, d) \/ AddTimer(p, d, "look") \/ AddTimer(p, d, "blocked")

-----------------------------------------------------------------------------
\* The queue points into frames and operations only while they are there.
EntriesAlive ==
    \A p \in Tasks \cup Ops : Queued(p) =>
        th[p].pc \in (IF p \in Ops THEN {"queued"}
                      ELSE {"look", "sleeping", "blocked", "cancelTimer", "unwind"})

\* A timer that has fired wakes its sleeper, although the sleeper may be
\* between its look at `fired` and its park().
FiredWakes ==
    \A p \in Tasks : At(p, "sleeping") =>
        \/ Queued(p) \/ th[p].satisfied
        \/ \E w \in Threads : p \in Range(th[w].chain)

\* A callback finds its operation waiting for it, and nothing else completes
\* that operation: not its stop request, not a second fire.
CalledBackOnce ==
    /\ \A w \in Threads : \A p \in Ops : p \in Range(th[w].chain) =>
          /\ th[p].pc = "queued" /\ ~Queued(p)
          /\ \A v \in Threads \ {w} : p \notin Range(th[v].chain)
    /\ \A p \in Ops : At(p, "queued") => Queued(p) \/ InChain(p)

\* Once stop() has gone through the queue no operation waits in it any more.
ClosedLeavesNone ==
    (\E w \in Threads : At(w, "closed")) => \A p \in Ops : ~Queued(p)
=============================================================================
