----------------------------- MODULE RingQueue -----------------------------
(***************************************************************************)
(* The other local run queue a build may choose: a ring with the owner's   *)
(* tail and one head that the owner and the thieves compare-and-swap.      *)
(* Items are copied before the exchange that claims them.  The n-th item   *)
(* pushed is n, and belongs in position n - 1.                             *)
(***************************************************************************)
EXTENDS Naturals, Sequences

CONSTANTS Owner, Thieves, Capacity,
          MaxItems      \* bound on the items of a run

VARIABLES obj, th

At(p, pc) == obj.is = "Ring" /\ th[p].pc = pc
Leave(p) == th' = [th EXCEPT ![p] = [pc |-> "idle"]]
kEntriesPerBlock == Capacity \div 2

Init ==
    /\ obj = [is |-> "Ring", head |-> 0, tail |-> 0, buffer |-> [i \in 0 .. Capacity - 1 |-> 0]]
    /\ th = [p \in {Owner} \cup Thieves |-> [pc |-> "idle"]]

\* push(): a head read too early only makes it refuse too soon.
Push ==
    /\ At(Owner, "idle") /\ obj.tail < MaxItems
    /\ obj.tail - obj.head < Capacity
    /\ obj' = [obj EXCEPT !.buffer[obj.tail % Capacity] = obj.tail + 1, !.tail = @ + 1]
    /\ UNCHANGED th

\* pop() and steal() take one, grab() half of what is visible.
TakeBegins(p) ==
    /\ At(p, "idle")
    /\ \E one \in BOOLEAN : th' = [th EXCEPT ![p] = [pc |-> "head", one |-> one]]
    /\ UNCHANGED obj
LoadHead(p) ==
    /\ At(p, "head")
    /\ th' = [th EXCEPT ![p] = [pc |-> "tail", one |-> @.one, head |-> obj.head]]
    /\ UNCHANGED obj
Half(available) ==
    LET n == available - available \div 2
    IN  IF n > kEntriesPerBlock THEN kEntriesPerBlock ELSE n
LoadTail(p) ==
    LET available == obj.tail - th[p].head
    IN  /\ At(p, "tail")
        /\ IF available = 0 THEN Leave(p)
           ELSE th' = [th EXCEPT ![p] = [pc |-> "copy", one |-> @.one, head |-> @.head,
                                         n |-> IF @.one THEN 1 ELSE Half(available)]]
        /\ UNCHANGED obj
Copy(p) ==
    /\ At(p, "copy")
    /\ th' = [th EXCEPT ![p] =
           [pc |-> "claim", one |-> @.one, head |-> @.head,
            out |-> [i \in 1 .. @.n |-> obj.buffer[(@.head + i - 1) % Capacity]]]]
    /\ UNCHANGED obj
\* Mutant: claims without comparing the head.
ClaimUnchecked(p) ==
    /\ At(p, "claim")
    /\ obj' = [obj EXCEPT !.head = th[p].head + Len(th[p].out)]
    /\ th' = [th EXCEPT ![p] = [pc |-> "taken", head |-> @.head, out |-> @.out]]
Claim(p) ==
    /\ At(p, "claim")
    /\ \/ /\ obj.head = th[p].head
          /\ obj' = [obj EXCEPT !.head = @ + Len(th[p].out)]
          /\ th' = [th EXCEPT ![p] = [pc |-> "taken", head |-> @.head, out |-> @.out]]
       \/ th' = [th EXCEPT ![p] = [pc |-> "head", one |-> @.one]] /\ UNCHANGED obj
Taken(p) == At(p, "taken") /\ Leave(p) /\ UNCHANGED obj

TakeStep(p) == LoadHead(p) \/ LoadTail(p) \/ Copy(p) \/ Claim(p) \/ Taken(p)
Next == Push \/ \E p \in DOMAIN th : TakeBegins(p) \/ TakeStep(p)

-----------------------------------------------------------------------------
\* What an exchange of the head hands out is what was pushed there, although
\* it was copied while the owner and other thieves went on: each position is
\* claimed once, and a copy that was overtaken is thrown away.
TakesWhatItClaims ==
    \A p \in DOMAIN th : At(p, "taken") =>
        \A i \in DOMAIN th[p].out : th[p].out[i] = th[p].head + i

\* The head never overtakes the tail, and no unclaimed item is overwritten.
RingHoldsTheRest ==
    /\ obj.head <= obj.tail
    /\ \A i \in obj.head .. obj.tail - 1 : obj.buffer[i % Capacity] = i + 1
=============================================================================
