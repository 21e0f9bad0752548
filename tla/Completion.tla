---------------------------- MODULE Completion ----------------------------
(***************************************************************************)
(* sync::Completion: the one-shot result of whichever producer claims it   *)
(* first.  The outcome is written without the lock, between the claim and  *)
(* publish(), and read without it once `ready` was seen.  The awaiter is a *)
(* task or thread in get() / getUntil(), or an async_get operation, and is *)
(* kept as a Waker by value, as in Stream.tla.                             *)
(***************************************************************************)
EXTENDS Waiters

CONSTANTS Producers, Consumers,  \* a run has one of the Consumers
          NoOne

Init ==
    /\ \E by \in Consumers :
          obj = [is |-> Kind, by |-> by, claimed |-> NoOne, ready |-> FALSE,
                 outcome |-> NoOne, q |-> [consumer |-> <<>>],
                 got |-> NoOne, writing |-> FALSE]  \* history
    /\ th = [p \in Parties |-> Resting]

Consuming(p) == obj.is = Kind /\ p = obj.by
At1(p, pc) == Consuming(p) /\ th[p].pc = pc

-----------------------------------------------------------------------------
(* set(), fail(), setException(): claim(), the outcome, publish().         *)

\* Mutant: a second producer may claim until the outcome is there.
ClaimUntilReady(p) ==
    /\ p \in Producers /\ At(p, "idle")
    /\ IF ~obj.ready
       THEN obj' = [obj EXCEPT !.claimed = p] /\ Go(p, "write")
       ELSE UNCHANGED obj /\ Go(p, "late")
Claim(p) ==
    /\ p \in Producers /\ At(p, "idle")
    /\ IF obj.claimed = NoOne
       THEN obj' = [obj EXCEPT !.claimed = p] /\ Go(p, "write")
       ELSE UNCHANGED obj /\ Go(p, "late")
\* The outcome is several words: a read meanwhile would tear it.
Write(p) ==
    \/ At(p, "write") /\ obj' = [obj EXCEPT !.writing = TRUE] /\ Go(p, "written")
    \/ /\ At(p, "written")
       /\ obj' = [obj EXCEPT !.outcome = p, !.writing = FALSE] /\ Go(p, "publish")
Publish(p) ==
    /\ At(p, "publish")
    /\ obj' = [obj EXCEPT !.ready = TRUE, !.q.consumer = <<>>]
    /\ IF obj.q.consumer = <<>> THEN Go(p, "late")
       ELSE th' = [th EXCEPT ![p].pc = "wake", ![p].chain = obj.q.consumer]
Wake(p) ==
    LET w == Head(th[p].chain)
    IN  /\ At(p, "wake")
        /\ th' = [th EXCEPT ![p].pc = "late", ![p].chain = <<>>,
                            ![w].satisfied = w \in Blocking,
                            ![w].pc = IF w \in Ops THEN "read" ELSE @]
        /\ UNCHANGED obj

-----------------------------------------------------------------------------
(* get(), getUntil().                                                      *)

Get(p) ==
    /\ p \in Blocking /\ At1(p, "idle") /\ obj.got = NoOne
    /\ Go(p, IF obj.ready THEN "read" ELSE "attach") /\ UNCHANGED obj
Attach(p) ==
    /\ At1(p, "attach")
    /\ IF obj.ready THEN UNCHANGED obj /\ Go(p, "detach")
       ELSE obj' = [obj EXCEPT !.q.consumer = <<p>>] /\ Go(p, "block")
Block(p) ==
    /\ At1(p, "block") /\ th[p].satisfied
    /\ th' = [th EXCEPT ![p].pc = "attach", ![p].satisfied = FALSE]
    /\ UNCHANGED obj
Timeout(p) == At1(p, "block") /\ Go(p, "isReady") /\ UNCHANGED obj
IsReady(p) ==
    /\ At1(p, "isReady")
    /\ Go(p, IF obj.ready THEN "detach" ELSE "detachLate") /\ UNCHANGED obj
UnwindHere(p) == p \in Tasks /\ At1(p, "block") /\ Go(p, "detachGone") /\ UNCHANGED obj
Detach(p) ==
    \E to \in {<<"detach", "read">>, <<"detachLate", "idle">>, <<"detachGone", "gone">>} :
        /\ At1(p, to[1])
        /\ obj' = [obj EXCEPT !.q = Unlink(p)] /\ Go(p, to[2])
\* The outcome is moved out; read while it is being written it is torn.
Read(p) ==
    /\ At1(p, "read")
    /\ obj' = [obj EXCEPT !.got = IF obj.writing THEN "torn" ELSE obj.outcome]
    /\ Return(p, "value")

-----------------------------------------------------------------------------
(* async_get: ready(), attachOrReady().                                    *)

TryNow(p) ==
    /\ At1(p, "tryNow")
    /\ Go(p, IF obj.ready THEN "read" ELSE "listen") /\ UNCHANGED obj
AttachOrReady(p) ==
    /\ At1(p, "drive")
    /\ \/ obj.ready /\ Go(p, "read") /\ UNCHANGED obj
       \/ ~obj.ready /\ th[p].cancelled /\ Return(p, "stopped") /\ UNCHANGED obj
       \/ /\ ~obj.ready /\ ~th[p].cancelled
          /\ obj' = [obj EXCEPT !.q.consumer = <<p>>] /\ Enqueued(p)

Step(p) ==
    \/ Write(p) \/ Publish(p) \/ Wake(p) \/ Attach(p) \/ Block(p) \/ IsReady(p)
    \/ Detach(p) \/ Read(p) \/ TryNow(p) \/ AttachOrReady(p)
    \/ (Consuming(p) /\ OperationStep(p))
Next ==
    \E p \in Parties :
        \/ Claim(p) \/ Get(p) \/ Timeout(p) \/ UnwindHere(p)
        \/ (Consuming(p) /\ Environment(p)) \/ Step(p)

-----------------------------------------------------------------------------
\* What the awaiter gets is the whole outcome of the producer that claimed the
\* Completion, never a default, a torn or a later one.
OutcomeOfTheClaimer == obj.got # NoOne => obj.got = obj.claimed

\* A ready Completion never leaves its awaiter asleep: the wake is there, or
\* the publisher that took the Waker is about to deliver it.
AwaiterAwakened ==
    obj.ready /\ (At1(obj.by, "queued") \/ (At1(obj.by, "block") /\ ~th[obj.by].satisfied))
        => InChain(obj.by)

\* An async_get is called back at most once, and never after it completed.
CallbackOnce == InOnePlace(Ops)
=============================================================================
