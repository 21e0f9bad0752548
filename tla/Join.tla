------------------------------- MODULE Join -------------------------------
(***************************************************************************)
(* JoinState, shared by a joinable task and its JoinHandle: join()         *)
(* registers its waiter and reads `done` again while the finishing task    *)
(* stores `done` and reads the waiter's kind (a Dekker pair); the last of  *)
(* the two to release() deletes the state.                                 *)
(***************************************************************************)
EXTENDS Naturals

CONSTANTS Finisher,  \* the thread that runs the joinable task to its end
          Joiner     \* the owner of the JoinHandle

VARIABLES obj, th

At(p, pc) == obj.is = "Join" /\ th[p].pc = pc
Go(p, pc) == th' = [th EXCEPT ![p].pc = pc]

\* A joiner is a task (its token is woken, and stop() may unwind it) or a
\* thread, which parks on a Parker that the state owns.
Init ==
    /\ \E kind \in {"task", "thread"} :
          obj = [is |-> "Join", joiner |-> kind, refs |-> 2, done |-> FALSE,
                 waiterKind |-> "none", exception |-> "none", permit |-> FALSE,
                 escaped |-> "none"]
    /\ th = [p \in {Finisher, Joiner} |->
                [pc |-> IF p = Finisher THEN "body" ELSE "handle", got |-> "nothing"]]

-----------------------------------------------------------------------------
(* releaseTask(), finishJoin().                                            *)

Escape == \* the body ends, or an exception leaves it
    /\ At(Finisher, "body")
    /\ \E e \in {"none", "error"} : obj' = [obj EXCEPT !.exception = e, !.escaped = e]
    /\ Go(Finisher, "storeDone")
StoreDone ==
    /\ At(Finisher, "storeDone")
    /\ obj' = [obj EXCEPT !.done = TRUE] /\ Go(Finisher, "loadKind")
LoadKind ==
    /\ At(Finisher, "loadKind")
    /\ Go(Finisher, IF obj.waiterKind = "none" THEN "release" ELSE "wake")
    /\ UNCHANGED obj
Wake ==
    /\ At(Finisher, "wake")
    /\ obj' = [obj EXCEPT !.permit = TRUE] /\ Go(Finisher, "release")

Release(p, to) == obj' = [obj EXCEPT !.refs = @ - 1] /\ Go(p, to)
FinisherReleases == At(Finisher, "release") /\ Release(Finisher, "gone")

-----------------------------------------------------------------------------
(* JoinHandle.                                                             *)

Detach == At(Joiner, "handle") /\ Release(Joiner, "gone")
JoinCall ==
    /\ At(Joiner, "handle")
    /\ Go(Joiner, IF obj.done THEN "take" ELSE "register") /\ UNCHANGED obj
\* Mutant: parks without looking at `done` again.
RegisterThenPark ==
    /\ At(Joiner, "register")
    /\ obj' = [obj EXCEPT !.waiterKind = obj.joiner] /\ Go(Joiner, "park")
Register ==
    /\ At(Joiner, "register")
    /\ obj' = [obj EXCEPT !.waiterKind = obj.joiner] /\ Go(Joiner, "recheck")
Recheck ==
    /\ At(Joiner, "recheck")
    /\ Go(Joiner, IF obj.done THEN "take" ELSE "park") /\ UNCHANGED obj
Park ==
    /\ At(Joiner, "park") /\ obj.permit
    /\ obj' = [obj EXCEPT !.permit = FALSE] /\ Go(Joiner, "recheck")
\* A task's park() also returns for wakes that were meant for something else.
ParkSpurious ==
    /\ At(Joiner, "park") /\ obj.joiner = "task" /\ ~obj.permit
    /\ Go(Joiner, "recheck") /\ UNCHANGED obj
\* ForcedUnwind out of park(): ~JoinHandle detaches.
Unwind == At(Joiner, "park") /\ obj.joiner = "task" /\ Release(Joiner, "gone")
Take ==
    /\ At(Joiner, "take")
    /\ obj' = [obj EXCEPT !.exception = "none"]
    /\ th' = [th EXCEPT ![Joiner].pc = "detach", ![Joiner].got = obj.exception]
JoinReturns == At(Joiner, "detach") /\ Release(Joiner, "gone")

Step(p) ==
    \/ p = Finisher /\ (StoreDone \/ LoadKind \/ Wake \/ FinisherReleases)
    \/ p = Joiner /\ (Register \/ Recheck \/ Park \/ Take \/ JoinReturns)
Next ==
    \/ Escape \/ Detach \/ JoinCall \/ ParkSpurious \/ Unwind
    \/ \E p \in {Finisher, Joiner} : Step(p)

-----------------------------------------------------------------------------
\* A joiner does not sleep on once the task is done: its wake is there, or
\* the finisher has yet to look for a waiter and will find it.
JoinNotMissed ==
    obj.done /\ th[Joiner].pc = "park" /\ ~obj.permit =>
        th[Finisher].pc \in {"loadKind", "wake"}

\* join() returns with whatever escaped the task's body.
JoinSeesOutcome == th[Joiner].got # "nothing" => th[Joiner].got = obj.escaped
=============================================================================
