------------------------------- MODULE Select -------------------------------
(***************************************************************************)
(* sync::select() over several sources, and sync::Mailbox as one of them.  *)
(* One consumer scans the sources one after the other, attaches the same   *)
(* Waker to each, blocks, and detaches from each on every way out; it also *)
(* waits on the Mailbox alone (runOne, runOneFor).  Stream and Completion  *)
(* take the Waker when they fire and wake it after their lock; a Mailbox   *)
(* keeps it, and post() wakes it under the lock.                           *)
(*                                                                         *)
(* q[s] is the Waker of source s; `satisfied` the consumer's park permit.  *)
(***************************************************************************)
EXTENDS Waiters

CONSTANTS Consumer, Producers,
          Sources,   \* a sequence of "Mailbox", "Stream" and "Completion"
          MaxEvents  \* bound on what each source is given

Indices == 1 .. Len(Sources)

Init ==
    /\ obj = [is |-> Kind, queue |-> [s \in Indices |-> 0],
              closed |-> [s \in Indices |-> FALSE], q |-> [s \in Indices |-> <<>>],
              events |-> [s \in Indices |-> 0],
              next |-> 1, found |-> 0, attached |-> TRUE, after |-> "idle"]
    /\ th = [p \in Parties |-> Resting]

IsReady(s) == obj.queue[s] # 0 \/ obj.closed[s]
Here(pc) == At(Consumer, pc)

-----------------------------------------------------------------------------
(* Mailbox::post() and close(), Stream::push() and close(),                *)
(* Completion::set().                                                      *)

Fire(p, s) ==
    /\ p \in Producers /\ At(p, "idle") /\ obj.events[s] < MaxEvents
    /\ ~obj.closed[s]
    /\ Sources[s] = "Completion" => obj.events[s] = 0
    /\ obj' = [obj EXCEPT !.queue[s] = IF Sources[s] = "Mailbox" THEN @ + 1 ELSE 1,
                          !.events[s] = @ + 1,
                          !.q[s] = IF Sources[s] = "Mailbox" THEN @ ELSE <<>>]
    /\ IF Sources[s] = "Mailbox"
       THEN th' = [th EXCEPT ![Consumer].satisfied = @ \/ obj.q[s] # <<>>]
       ELSE ReturnNotifying(p, obj.q[s], "none")
\* Mailbox::close() copies the Waker and leaves it where it is.
Close(p, s) ==
    /\ p \in Producers /\ At(p, "idle") /\ ~obj.closed[s] /\ Sources[s] # "Completion"
    /\ obj' = [obj EXCEPT !.closed[s] = TRUE,
                          !.q[s] = IF Sources[s] = "Mailbox" THEN @ ELSE <<>>]
    /\ ReturnNotifying(p, obj.q[s], "none")

-----------------------------------------------------------------------------
(* selectImpl(): firstReady(), attachAll(), block, ~DetachAllOnExit.       *)

Begin(pc, after) ==
    /\ obj' = [obj EXCEPT !.next = 1, !.found = 0, !.attached = TRUE, !.after = after]
    /\ Go(Consumer, pc)
Over == obj.next > Len(Sources)

Select == Here("idle") /\ Begin("scan", "idle")
\* firstReady() asks every source, and reports the first that was ready.
FirstReady ==
    /\ Here("scan") \/ Here("lateScan")
    /\ \/ /\ ~Over
          /\ obj' = [obj EXCEPT !.next = @ + 1,
                        !.found = IF @ = 0 /\ IsReady(obj.next) THEN obj.next ELSE @]
          /\ UNCHANGED th
       \/ /\ Over /\ Here("scan") /\ obj.found # 0
          /\ Go(Consumer, "consume") /\ UNCHANGED obj
       \/ Over /\ Here("scan") /\ obj.found = 0 /\ Begin("attach", "scan")
       \/ /\ Over /\ Here("lateScan")
          /\ obj' = [obj EXCEPT !.next = 1,
                        !.after = IF obj.found = 0 THEN "idle" ELSE "consume"]
          /\ Go(Consumer, "detach")
\* Mutant: blocks without looking again at what is ready.
AttachAllThenBlock ==
    /\ Here("attach")
    /\ \/ /\ ~Over
          /\ obj' = [obj EXCEPT !.next = @ + 1,
                        !.q[obj.next] = IF IsReady(obj.next) THEN @ ELSE <<Consumer>>]
          /\ UNCHANGED th
       \/ Over /\ Go(Consumer, "block") /\ UNCHANGED obj
AttachAll ==
    /\ Here("attach")
    /\ \/ /\ ~Over
          /\ obj' = [obj EXCEPT !.next = @ + 1,
                        !.attached = @ /\ ~IsReady(obj.next),
                        !.q[obj.next] = IF IsReady(obj.next) THEN @ ELSE <<Consumer>>]
          /\ UNCHANGED th
       \/ Over /\ obj.attached /\ Go(Consumer, "block") /\ UNCHANGED obj
       \/ Over /\ ~obj.attached /\ Begin("detach", "scan")
Block ==
    /\ Here("block") /\ th[Consumer].satisfied
    /\ obj' = [obj EXCEPT !.next = 1, !.after = "scan"]
    /\ th' = [th EXCEPT ![Consumer].pc = "detach", ![Consumer].satisfied = FALSE]
Timeout == Here("block") /\ Begin("lateScan", "idle")
UnwindHere == Consumer \in Tasks /\ Here("block") /\ Begin("detach", "gone")
DetachAll ==
    /\ Here("detach")
    /\ IF Over
       THEN /\ obj' = [obj EXCEPT !.next = 1, !.found = IF obj.after = "scan" THEN 0 ELSE @]
            /\ Go(Consumer, obj.after)
       ELSE /\ obj' = [obj EXCEPT !.next = @ + 1, !.q[obj.next] = Without(@, Consumer)]
            /\ UNCHANGED th
\* What the caller does with the answer: tryNext(), runOne(), get().
Consume ==
    /\ Here("consume")
    /\ obj' = [obj EXCEPT !.found = 0,
                  !.queue[obj.found] = IF Sources[obj.found] = "Completion" \/ @ = 0
                                       THEN @ ELSE @ - 1]
    /\ Go(Consumer, "idle")

-----------------------------------------------------------------------------
(* Mailbox::next(), nextUntil(), on source s alone.                        *)

RunOne == Here("idle") /\ Begin("next", "idle")
Next1(s) ==
    /\ Here("next")
    /\ \/ /\ obj.queue[s] # 0
          /\ obj' = [obj EXCEPT !.queue[s] = @ - 1] /\ Go(Consumer, "detach")
       \/ obj.queue[s] = 0 /\ obj.closed[s] /\ Go(Consumer, "detach") /\ UNCHANGED obj
       \/ /\ ~IsReady(s)
          /\ obj' = [obj EXCEPT !.q[s] = <<Consumer>>] /\ Go(Consumer, "blockNext")
BlockNext ==
    /\ Here("blockNext") /\ th[Consumer].satisfied
    /\ th' = [th EXCEPT ![Consumer].pc = "next", ![Consumer].satisfied = FALSE]
    /\ UNCHANGED obj
\* nextUntil() looks once more after the timeout.
TimeoutNext(s) ==
    /\ Here("blockNext")
    /\ obj' = [obj EXCEPT !.queue[s] = IF @ = 0 THEN 0 ELSE @ - 1]
    /\ Go(Consumer, "detach")
UnwindNext == Consumer \in Tasks /\ Here("blockNext") /\ Begin("detach", "gone")

ConsumerStep ==
    \/ FirstReady \/ AttachAll \/ Block \/ DetachAll \/ Consume \/ BlockNext
    \/ \E s \in Indices : Sources[s] = "Mailbox" /\ Next1(s)
Step(p) == Notify(p, "none") \/ (p = Consumer /\ ConsumerStep)
Next ==
    \/ \E p \in Parties : Step(p) \/ \E s \in Indices : Fire(p, s) \/ Close(p, s)
    \/ Select \/ RunOne \/ Timeout \/ UnwindHere \/ UnwindNext
    \/ \E s \in Indices : Sources[s] = "Mailbox" /\ TimeoutNext(s)

-----------------------------------------------------------------------------
\* Whoever blocks in select(), or on the Mailbox, does not sleep through a
\* source that is ready: the permit is there, or on its way.
SelectorAwakened ==
    ~th[Consumer].satisfied /\ ~InChain(Consumer) =>
        /\ Here("block") => \A s \in Indices : ~IsReady(s)
        /\ Here("blockNext") => \A s \in Indices : Sources[s] = "Mailbox" => ~IsReady(s)

\* On every way out, a timeout and an unwind too, no source keeps the Waker of
\* the consumer that left.
NoneAttachedOutside ==
    th[Consumer].pc \in {"idle", "consume", "gone"} =>
        \A s \in Indices : obj.q[s] = <<>>
=============================================================================
