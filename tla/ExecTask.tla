------------------------------ MODULE ExecTask ------------------------------
(***************************************************************************)
(* A task that stackfull::exec starts and what it waits for: an operation  *)
(* of exec::spawn or of schedule(), the task that runs it, exec::wait() in *)
(* that task (twice: in the function, and in the receiver's code that runs *)
(* at the end of the same task), the receiver's stop requests, forwarded   *)
(* to the task's stop source, and Scheduler::stop(), which wakes the task  *)
(* once and then reaps it where it parks without a NoForcedStop.           *)
(*                                                                         *)
(* External: a sender completes once, inside start() or later on a thread  *)
(* of its own, and destroying a stop callback waits while it runs.  The    *)
(* receiver destroys the operation as soon as it is called.                *)
(***************************************************************************)
EXTENDS Naturals, Sequences

CONSTANT MaxWaits

VARIABLES obj, th

Waits == 1 .. MaxWaits
Results(exceptions) == {"value", "stopped"} \cup IF exceptions THEN {"error"} ELSE {}

Init ==
    /\ \E how \in {"spawn", "schedule"}, exceptions \in BOOLEAN :
          obj = [is |-> "ExecTask", how |-> how, exceptions |-> exceptions,
                 requested |-> FALSE, forwarding |-> FALSE, source |-> FALSE,
                 context |-> FALSE, verdict |-> "none", completed |-> <<>>,
                 stopping |-> "no", token |-> FALSE,
                 waits |-> 0, uses |-> "own", own |-> FALSE, forwarded |-> FALSE,
                 done |-> FALSE, sent |-> "none", from |-> "none"]
    /\ th = [starter |-> "start", task |-> "none", stopper |-> "idle",
             sender |-> [i \in Waits |-> "none"]]

At(pc) == th.task = pc
Go(pc) == th' = [th EXCEPT !.task = pc]

-----------------------------------------------------------------------------
(* start() of both operations, and the receiver's stop requests.           *)

start ==
    /\ th.starter = "start"
    /\ th' = [th EXCEPT !.starter = "spawn"]
    /\ obj' = IF obj.how = "schedule" THEN obj
              ELSE [obj EXCEPT !.forwarding = TRUE, !.source = obj.requested]
\* Scheduler::spawn() refuses while stopping, and at a limit.
Spawn ==
    /\ th.starter = "spawn"
    /\ \/ /\ obj.stopping = "no" /\ UNCHANGED obj
          /\ th' = [th EXCEPT !.starter = "returned", !.task = "run"]
       \/ /\ th' = [th EXCEPT !.starter = "refused"]
          /\ obj' = [obj EXCEPT !.verdict = IF obj.stopping = "no" THEN "error" ELSE "stopped"]

\* stop_forwarding(): ~forward_callback() waits for one that runs elsewhere.
stop_forwarding == th.stopper # "forwarding"
RefuseAndComplete ==
    /\ th.starter = "refused" /\ stop_forwarding
    /\ th' = [th EXCEPT !.starter = "returned"]
    /\ obj' = [obj EXCEPT !.forwarding = FALSE, !.completed = Append(@, obj.verdict)]

RequestStop ==
    /\ ~obj.requested
    /\ obj' = [obj EXCEPT !.requested = TRUE]
    /\ th' = [th EXCEPT !.stopper = IF obj.forwarding THEN "forwarding" ELSE "idle"]
forward_stop ==
    /\ th.stopper = "forwarding"
    /\ obj' = [obj EXCEPT !.source = TRUE]
    /\ th' = [th EXCEPT !.stopper = "idle"]

-----------------------------------------------------------------------------
(* The task: run(), the function, complete().                              *)

SpawnRun ==
    /\ At("run") /\ obj.how = "spawn"
    /\ obj' = [obj EXCEPT !.context = TRUE] /\ Go("fn")
ScheduleRun ==
    /\ At("run") /\ obj.how = "schedule" /\ Go("deliver")
    /\ obj' = [obj EXCEPT !.verdict =
                  IF obj.requested \/ obj.stopping # "no" THEN "stopped" ELSE "value"]
\* The function returns, throws, parks on its own account, or waits.
FnEnds ==
    /\ At("fn") /\ Go("complete")
    /\ \E v \in {"value"} \cup IF obj.exceptions THEN {"error"} ELSE {} :
          obj' = [obj EXCEPT !.verdict = v]
FnParks == At("fn") /\ Go("parked") /\ UNCHANGED obj
ParkReturns ==
    /\ At("parked") /\ obj.token
    /\ obj' = [obj EXCEPT !.token = FALSE] /\ Go("fn")

complete ==
    /\ At("complete") /\ stop_forwarding
    /\ obj' = [obj EXCEPT !.forwarding = FALSE, !.context = FALSE] /\ Go("deliver")
\* The receiver's code runs on in this task, shielded.
Deliver ==
    /\ At("deliver")
    /\ obj' = [obj EXCEPT !.completed = Append(@, obj.verdict)] /\ Go("receiver")
ReceiverReturns == At("receiver") /\ Go("ended") /\ UNCHANGED obj

-----------------------------------------------------------------------------
(* Scheduler::stop(): the flag, one wake-up, then reapParkedTasks().       *)

StopBegins ==
    /\ obj.stopping = "no" /\ UNCHANGED th
    /\ obj' = [obj EXCEPT !.stopping = "stopping"]
StopWakesOnce ==
    /\ obj.stopping = "stopping" /\ UNCHANGED th
    /\ obj' = [obj EXCEPT !.stopping = "woken", !.token = TRUE]
Reapable == At("parked") /\ ~obj.token /\ obj.stopping = "woken"
\* ForcedUnwind: the receiver hears of it first.
CatchForcedUnwind ==
    /\ Reapable /\ obj.exceptions
    /\ obj' = [obj EXCEPT !.verdict = "stopped"] /\ Go("complete")
dropped ==
    /\ Reapable /\ ~obj.exceptions /\ stop_forwarding
    /\ obj' = [obj EXCEPT !.forwarding = FALSE, !.context = FALSE,
                          !.completed = Append(@, "stopped")]
    /\ Go("ended")

-----------------------------------------------------------------------------
(* run_wait() in the task.  `uses` is whose stop source the sender sees.   *)

InWait == th.task \in {"starting", "look", "park", "result"}
Begin ==
    /\ At("fn") \/ At("receiver")
    /\ obj.waits < MaxWaits
    /\ obj' = [obj EXCEPT !.waits = @ + 1, !.uses = IF obj.context THEN "op" ELSE "own",
                          !.own = FALSE, !.forwarded = FALSE, !.done = FALSE,
                          !.sent = "none", !.from = th.task]
    /\ th' = [th EXCEPT !.task = "starting", !.sender[obj.waits + 1] = "pending"]
\* A completion inside start(): starting_wait = state.
CompletesInStart ==
    /\ At("starting") /\ th.sender[obj.waits] = "pending"
    /\ \E r \in Results(obj.exceptions) : obj' = [obj EXCEPT !.sent = r, !.done = TRUE]
    /\ th' = [th EXCEPT !.sender[obj.waits] = "over"]
StartReturns == At("starting") /\ Go("look") /\ UNCHANGED obj

StopDue == ~obj.done /\ ~obj.forwarded /\ obj.stopping # "no"
\* source.request_stop(), of the task's source or of the wait's own.
PassStopOn ==
    obj' = [obj EXCEPT !.forwarded = TRUE, !.source = @ \/ obj.uses = "op",
                       !.own = @ \/ obj.uses = "own"]
Look ==
    /\ At("look")
    /\ IF StopDue THEN PassStopOn /\ UNCHANGED th
       ELSE Go(IF obj.done THEN "result" ELSE "park") /\ UNCHANGED obj
Park ==
    /\ At("park") /\ obj.token
    /\ obj' = [obj EXCEPT !.token = FALSE] /\ Go("look")
\* wait() returns, or await() throws stopped_error and an error is rethrown,
\* which the function catches or lets escape.
Result ==
    /\ At("result")
    /\ \/ Go(obj.from) /\ UNCHANGED obj
       \/ /\ obj.from = "fn" /\ obj.exceptions /\ obj.sent # "value" /\ Go("complete")
          /\ obj' = [obj EXCEPT !.verdict = obj.sent]

\* The sender's thread: set_value(), set_error(), set_stopped(); finish().
Store(i) ==
    /\ th.sender[i] = "pending"
    /\ \E r \in Results(obj.exceptions) : obj' = [obj EXCEPT !.sent = r]
    /\ th' = [th EXCEPT !.sender[i] = "finish"]
\* Mutant: reads the state after it has told the waiter.
DoneThenRead(i) ==
    \/ /\ th.sender[i] = "finish" /\ th' = [th EXCEPT !.sender[i] = "inFinish"]
       /\ obj' = [obj EXCEPT !.done = TRUE]
    \/ th.sender[i] = "inFinish" /\ th' = [th EXCEPT !.sender[i] = "wake"] /\ UNCHANGED obj
\* The waiter is copied before `done` is set.
finish(i) ==
    \/ th.sender[i] = "finish" /\ th' = [th EXCEPT !.sender[i] = "inFinish"] /\ UNCHANGED obj
    \/ /\ th.sender[i] = "inFinish" /\ th' = [th EXCEPT !.sender[i] = "wake"]
       /\ obj' = [obj EXCEPT !.done = TRUE]
Wake(i) ==
    /\ th.sender[i] = "wake"
    /\ th' = [th EXCEPT !.sender[i] = "over"]
    /\ obj' = [obj EXCEPT !.token = th.task # "ended"]

Next ==
    \/ start \/ Spawn \/ RefuseAndComplete \/ RequestStop \/ forward_stop
    \/ SpawnRun \/ ScheduleRun \/ FnEnds \/ FnParks \/ ParkReturns
    \/ complete \/ Deliver \/ ReceiverReturns
    \/ StopBegins \/ StopWakesOnce \/ CatchForcedUnwind \/ dropped
    \/ Begin \/ CompletesInStart \/ StartReturns \/ Look \/ Park \/ Result
    \/ \E i \in Waits : Store(i) \/ finish(i) \/ Wake(i)

-----------------------------------------------------------------------------
\* However the operation ends - refused, returned, thrown, stopped, unwound or
\* dropped - its receiver is called, and called once.
ReceiverHearsOnce ==
    /\ Len(obj.completed) <= 1
    /\ (At("ended") \/ (th.starter = "returned" /\ At("none"))) => Len(obj.completed) = 1

\* Nothing reaches into what has been destroyed: the operation once its
\* receiver was called (no forwarded stop request, no context of the task, no
\* stop source handed to a wait of the receiver's code), and the frame of
\* run_wait() once it has seen `done`.
DeadUntouched ==
    /\ obj.completed # <<>> =>
          th.stopper = "idle" /\ ~obj.forwarding /\ ~obj.context /\ (InWait => obj.uses = "own")
    /\ \A i \in Waits : th.sender[i] \in {"pending", "finish", "inFinish"} =>
          InWait /\ i = obj.waits /\ ~At("result")

\* A task does not sleep in exec::wait() through the end of its sender, nor
\* beside a sender that has not heard of a stop request of the receiver or
\* of the scheduler.
WaitHears ==
    At("park") /\ ~obj.token =>
        /\ obj.done => th.sender[obj.waits] # "over"
        /\ \/ obj.stopping = "woken"
           \/ obj.uses = "op" /\ obj.requested /\ th.stopper = "idle"
           => IF obj.uses = "op" THEN obj.source ELSE obj.own
=============================================================================
