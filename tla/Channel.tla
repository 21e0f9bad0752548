------------------------------ MODULE Channel ------------------------------
(***************************************************************************)
(* sync::Channel, a bounded MPMC ring with a list of waiting senders and   *)
(* one of waiting receivers behind one SpinLock, and the operations of     *)
(* exec on it (async_send, async_recv).  A notification means "try again": *)
(* whoever comes first takes the place or the item it was sent for.        *)
(*                                                                         *)
(* An item is its number in the order of acceptance, modulo Wrap.          *)
(***************************************************************************)
EXTENDS Waiters

CONSTANTS Senders, Receivers,  \* the parties, by what they do
          Capacity

Wrap == 2 * Capacity
Slots == 0 .. Capacity - 1
Empty == Wrap

Init ==
    /\ obj = [is |-> Kind, slots |-> [i \in Slots |-> Empty], head |-> 0,
              count |-> 0, closed |-> FALSE,
              q |-> [senders |-> <<>>, receivers |-> <<>>],
              sent |-> 0, taken |-> 0]  \* history: items accepted, items received
    /\ th = [p \in Parties |-> Resting]

PushLocked(o) ==
    [o EXCEPT !.slots[(o.head + o.count) % Capacity] = o.sent,
              !.count = @ + 1, !.sent = (@ + 1) % Wrap]
PopLocked(o) ==
    [o EXCEPT !.slots[o.head] = Empty, !.head = (@ + 1) % Capacity,
              !.count = @ - 1, !.taken = (@ + 1) % Wrap]

\* What an operation completes with; what a blocking call returns is not kept.
Result(p, r) == IF p \in Ops THEN r ELSE "none"

\* Where an attempt that would wait goes: send() and recv() and a drive()
\* queue, trySend() and tryRecv() give up, try_now() goes on to listen.
WouldWait(p, l) ==
    \/ At(p, "trying") /\ Return(p, Result(p, "wouldBlock")) /\ UNCHANGED obj
    \/ At(p, "tryNow") /\ Go(p, "listen") /\ UNCHANGED obj
    \/ /\ th[p].pc \in {"attempt", "drive"} /\ ~th[p].cancelled
       /\ obj' = [obj EXCEPT !.q = PushBack(l, p)]
       /\ Enqueued(p)
    \/ At(p, "drive") /\ th[p].cancelled /\ Return(p, Result(p, "stopped")) /\ UNCHANGED obj

Attempting(p) == obj.is = Kind /\ th[p].pc \in {"attempt", "trying", "tryNow", "drive"}

\* Mutant: wakes a receiver only when the ring was empty.
SendWakesWhenEmpty(p) ==
    /\ p \in Senders /\ Attempting(p)
    /\ \/ obj.closed /\ Return(p, Result(p, "closed")) /\ UNCHANGED obj
       \/ /\ ~obj.closed /\ obj.count = 0
          /\ obj' = [PushLocked(obj) EXCEPT !.q = PopFront("receivers")]
          /\ ReturnNotifying(p, Front1("receivers"), Result(p, "moved"))
       \/ /\ ~obj.closed /\ obj.count \in 1 .. Capacity - 1
          /\ obj' = PushLocked(obj) /\ Return(p, Result(p, "moved"))
       \/ ~obj.closed /\ obj.count = Capacity /\ WouldWait(p, "senders")
\* send(), trySend(), sendOrEnqueue(): one pass under the lock.
Send(p) ==
    /\ p \in Senders /\ Attempting(p)
    /\ \/ obj.closed /\ Return(p, Result(p, "closed")) /\ UNCHANGED obj
       \/ /\ ~obj.closed /\ obj.count < Capacity
          /\ obj' = [PushLocked(obj) EXCEPT !.q = PopFront("receivers")]
          /\ ReturnNotifying(p, Front1("receivers"), Result(p, "moved"))
       \/ ~obj.closed /\ obj.count = Capacity /\ WouldWait(p, "senders")

\* recv(), tryRecv(), recvOrEnqueue().
Recv(p) ==
    /\ p \in Receivers /\ Attempting(p)
    /\ \/ /\ obj.count # 0
          /\ obj' = [PopLocked(obj) EXCEPT !.q = PopFront("senders")]
          /\ ReturnNotifying(p, Front1("senders"), Result(p, "moved"))
       \/ /\ obj.count = 0 /\ obj.closed
          /\ Return(p, Result(p, "closed")) /\ UNCHANGED obj
       \/ obj.count = 0 /\ ~obj.closed /\ WouldWait(p, "receivers")

Call(p) ==
    /\ p \in Blocking /\ At(p, "idle")
    /\ Go(p, "attempt") \/ Go(p, "trying")
    /\ UNCHANGED obj

Close(p) ==
    /\ p \in Blocking /\ At(p, "idle") /\ ~obj.closed
    /\ obj' = [obj EXCEPT !.closed = TRUE,
                          !.q = [l \in {"senders", "receivers"} |-> <<>>]]
    /\ ReturnNotifying(p, Reversed(obj.q.senders \o obj.q.receivers), "none")

Step(p) ==
    \/ Send(p) \/ Recv(p) \/ WaitReturns(p, "attempt") \/ Notify(p, "drive")
    \/ OperationStep(p) \/ GuardStep(p)
Next ==
    \E p \in Parties : Call(p) \/ Close(p) \/ Unwind(p) \/ Environment(p) \/ Step(p)

-----------------------------------------------------------------------------
\* The parties a notification has reached, or will, that have yet to try
\* again, and the tasks that took one with them when they were unwound.
Awake(role) ==
    {p \in role : \/ InChain(p)
                  \/ th[p].pc \in {"attempt", "drive"}
                  \/ th[p].satisfied /\ th[p].pc \in {"wait", "unwind", "awaitNotifier", "gone"}}

\* No item waits in the ring beside a waiting receiver, and no free place
\* beside a waiting sender, unless enough of them are awake to take it.
NoneStranded ==
    /\ obj.q.receivers # <<>> => obj.count <= Cardinality(Awake(Receivers))
    /\ obj.q.senders # <<>> => Capacity - obj.count <= Cardinality(Awake(Senders))

\* close() leaves no one waiting, also not one that was about to queue.
CloseReachesAll == obj.closed => obj.q.senders = <<>> /\ obj.q.receivers = <<>>

\* The ring holds exactly the items accepted and not yet received, oldest at
\* the head, across the wrap-around.
RingInOrder ==
    /\ obj.sent = (obj.taken + obj.count) % Wrap
    /\ \A i \in 0 .. obj.count - 1 :
          obj.slots[(obj.head + i) % Capacity] = (obj.taken + i) % Wrap
=============================================================================
