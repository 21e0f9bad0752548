------------------------------- MODULE Stream -------------------------------
(***************************************************************************)
(* sync::Stream: producers that never block, a ring that drops the oldest  *)
(* or the newest item when full, and one consumer that is a task or thread *)
(* in next() / nextUntil(), or an async_next operation.  The source keeps  *)
(* a Waker by value, one-shot: push() and close() take it under the lock   *)
(* and wake it after, when the consumer may long have moved on.            *)
(*                                                                         *)
(* q.consumer holds the Waker (a list of at most one); `satisfied` is the  *)
(* permit that wake() leaves for the consumer's next park.                 *)
(***************************************************************************)
EXTENDS Waiters

CONSTANTS Producers, Consumers,  \* a run has one of the Consumers
          Capacity,
          MaxPushes    \* bound on the calls of push()

Slots == 0 .. Capacity - 1

Init ==
    /\ \E by \in Consumers, policy \in {"DropOldest", "DropNewest"} :
          obj = [is |-> Kind, by |-> by, policy |-> policy,
                 slots |-> [i \in Slots |-> 0], head |-> 0, count |-> 0,
                 closed |-> FALSE, q |-> [consumer |-> <<>>], dropped |-> 0,
                 pushed |-> 0, received |-> <<>>]  \* history
    /\ th = [p \in Parties |-> Resting]

Consuming(p) == obj.is = Kind /\ p = obj.by
At1(p, pc) == Consuming(p) /\ th[p].pc = pc
Register(p) == [obj EXCEPT !.q.consumer = <<p>>]
Detached(p) == [obj EXCEPT !.q = Unlink(p)]
Ready == obj.count # 0 \/ obj.closed

-----------------------------------------------------------------------------
(* push(), close(): under the lock, then droppedCount or the wake.         *)

Refused == obj.closed \/ (obj.count = Capacity /\ obj.policy = "DropNewest")

\* Mutant: the oldest item makes room and is not counted.
RoomUncounted(o) ==
    IF o.count < Capacity THEN o ELSE [o EXCEPT !.head = (@ + 1) % Capacity, !.count = @ - 1]
\* DropOldest gives up the head's slot, which is then the next free one.
Room(o) ==
    IF o.count < Capacity THEN o
    ELSE [o EXCEPT !.head = (@ + 1) % Capacity, !.count = @ - 1, !.dropped = @ + 1]
Put(o) ==
    [o EXCEPT !.slots[(o.head + o.count) % Capacity] = o.pushed + 1,
              !.count = @ + 1, !.pushed = @ + 1, !.q.consumer = <<>>]

Push(p) ==
    /\ p \in Producers /\ At(p, "idle") /\ obj.pushed < MaxPushes
    /\ \/ /\ Refused
          /\ obj' = [obj EXCEPT !.pushed = @ + 1] /\ Go(p, "countDrop")
       \/ /\ ~Refused
          /\ obj' = Put(Room(obj))
          /\ ReturnNotifying(p, obj.q.consumer, "none")
CountDrop(p) ==
    /\ At(p, "countDrop")
    /\ obj' = [obj EXCEPT !.dropped = @ + 1] /\ Go(p, "idle")
Close(p) ==
    /\ p \in Producers /\ At(p, "idle") /\ ~obj.closed
    /\ obj' = [obj EXCEPT !.closed = TRUE, !.q.consumer = <<>>]
    /\ ReturnNotifying(p, obj.q.consumer, "none")

-----------------------------------------------------------------------------
(* The consumer.                                                           *)

PopLocked ==
    [obj EXCEPT !.received = Append(@, obj.slots[obj.head]),
                !.head = (@ + 1) % Capacity, !.count = @ - 1]

\* next() and nextUntil(): the waiter, and the guard that detaches it.
Call(p) == p \in Blocking /\ At1(p, "idle") /\ Go(p, "scan") /\ UNCHANGED obj
Scan(p) ==
    /\ At1(p, "scan")
    /\ \/ obj.count # 0 /\ obj' = PopLocked /\ Go(p, "detach")
       \/ obj.count = 0 /\ obj.closed /\ Go(p, "detach") /\ UNCHANGED obj
       \/ obj.count = 0 /\ ~obj.closed /\ obj' = Register(p) /\ Go(p, "block")
\* block() takes a permit, also one that an earlier wake left behind.
Block(p) ==
    /\ At1(p, "block") /\ th[p].satisfied
    /\ th' = [th EXCEPT ![p].pc = "scan", ![p].satisfied = FALSE]
    /\ UNCHANGED obj
\* blockUntil() reports the timeout, whether or not a wake came as well.
Timeout(p) == At1(p, "block") /\ Go(p, "late") /\ UNCHANGED obj
TryNext(p) ==
    /\ At1(p, "late")
    /\ IF obj.count # 0 THEN obj' = PopLocked ELSE UNCHANGED obj
    /\ Go(p, "detach")
\* A task is unwound at its park; the guard detaches it all the same.
UnwindHere(p) == p \in Tasks /\ At1(p, "block") /\ Go(p, "detachGone") /\ UNCHANGED obj
Detach(p) ==
    \/ At1(p, "detach") /\ obj' = Detached(p) /\ Go(p, "idle")
    \/ At1(p, "detachGone") /\ obj' = Detached(p) /\ Go(p, "gone")

\* nextOrAttach(), with and without a waiter.
NextOrAttach(p) ==
    /\ At1(p, "tryNow") \/ At1(p, "drive")
    /\ \/ obj.count # 0 /\ obj' = PopLocked /\ Return(p, "moved")
       \/ obj.count = 0 /\ obj.closed /\ Return(p, "closed") /\ UNCHANGED obj
       \/ /\ ~Ready /\ th[p].pc = "tryNow" /\ Go(p, "listen") /\ UNCHANGED obj
       \/ /\ ~Ready /\ th[p].pc = "drive" /\ th[p].cancelled
          /\ Return(p, "stopped") /\ UNCHANGED obj
       \/ /\ ~Ready /\ th[p].pc = "drive" /\ ~th[p].cancelled
          /\ obj' = Register(p) /\ Enqueued(p)

Operation(p) == Consuming(p) /\ (OperationStep(p) \/ NextOrAttach(p))

Step(p) ==
    \/ CountDrop(p) \/ Notify(p, "drive") \/ Scan(p) \/ Block(p) \/ TryNext(p)
    \/ Detach(p) \/ Operation(p)
Next ==
    \E p \in Parties :
        \/ Push(p) \/ Close(p) \/ Call(p) \/ Timeout(p) \/ UnwindHere(p)
        \/ (Consuming(p) /\ Environment(p)) \/ Step(p)

-----------------------------------------------------------------------------
\* The consumer never sleeps beside an item or a closed stream: its wake is
\* there, or a producer that took its Waker is about to deliver it.
ConsumerAwakened ==
    Ready /\ (At1(obj.by, "queued") \/ (At1(obj.by, "block") /\ ~th[obj.by].satisfied))
        => InChain(obj.by)

\* The Waker of an operation is kept by the stream or by one producer while
\* the operation is queued, and by nobody else: never called twice, nor after
\* it has completed.
CallbackOnce == InOnePlace(Ops)

\* Every item pushed is received, dropped or still in the ring; and the
\* consumer sees what it sees in the order of the pushes.
ItemsAccounted ==
    /\ obj.pushed = obj.dropped + Len(obj.received) + obj.count
                    + Cardinality({p \in Producers : th[p].pc = "countDrop"})
    /\ LET seen == obj.received \o
                   [i \in 1 .. obj.count |-> obj.slots[(obj.head + i - 1) % Capacity]]
       IN  \A i, j \in 1 .. Len(seen) : i < j => seen[i] < seen[j]
=============================================================================
