----------------------------- MODULE MpscQueue -----------------------------
(***************************************************************************)
(* The pinned inbox of a worker: an intrusive queue that many threads push *)
(* to and its worker pops from.  A push exchanges the head and only then   *)
(* links its predecessor; pop() moves the stub to the end to take the last *)
(* node, and reports "empty" while a push is between its two stores.       *)
(***************************************************************************)
EXTENDS Naturals, Sequences, FiniteSets

CONSTANTS Producers, Consumer, Nodes, Stub, NoNode,
          MaxPushes   \* bound on the pushes of a run

VARIABLES obj, th

At(p, pc) == obj.is = "Mpsc" /\ th[p].pc = pc

Idle == [pc |-> "idle", node |-> NoNode, other |-> NoNode]

Init ==
    /\ obj = [is |-> "Mpsc", head |-> Stub, tail |-> Stub,
              next |-> [n \in Nodes \cup {Stub} |-> NoNode],
              order |-> <<>>, popped |-> 0, got |-> NoNode]  \* history
    /\ th = [p \in Producers \cup {Consumer} |-> Idle]

\* A node is pushed by whoever owns it: it is in no queue, nor in transit.
Owned(n) ==
    /\ \A i \in obj.popped + 1 .. Len(obj.order) : obj.order[i] # n
    /\ \A p \in Producers : th[p].node # n

\* Mutant: a node goes in with the link of its last stay.
ExchangeKeepsNext(p, n, pc) ==
    /\ obj' = [obj EXCEPT !.head = n, !.order = IF n = Stub THEN @ ELSE Append(@, n)]
    /\ th' = [th EXCEPT ![p].pc = pc, ![p].other = obj.head,
                        ![p].node = IF n = Stub THEN @ ELSE n]
\* push(): next = null and the exchange of head, then the predecessor's link.
Exchange(p, n, pc) ==
    /\ obj' = [obj EXCEPT !.head = n, !.next[n] = NoNode,
                          !.order = IF n = Stub THEN @ ELSE Append(@, n)]
    /\ th' = [th EXCEPT ![p].pc = pc, ![p].other = obj.head,
                        ![p].node = IF n = Stub THEN @ ELSE n]
Push(p, n) ==
    /\ p \in Producers /\ At(p, "idle") /\ Owned(n) /\ Len(obj.order) < MaxPushes
    /\ Exchange(p, n, "link")
Link(p) ==
    /\ p \in Producers /\ At(p, "link")
    /\ obj' = [obj EXCEPT !.next[th[p].other] = th[p].node]
    /\ th' = [th EXCEPT ![p] = Idle]

-----------------------------------------------------------------------------
(* pop(): `node` is front, `other` next.                                   *)

Here(pc) == At(Consumer, pc)
Local(pc, front, next) ==
    th' = [th EXCEPT ![Consumer] = [pc |-> pc, node |-> front, other |-> next]]
Nothing == th' = [th EXCEPT ![Consumer] = Idle]

LoadFront == Here("idle") /\ Local("front", obj.tail, obj.next[obj.tail]) /\ UNCHANGED obj
SkipStub ==
    /\ Here("front")
    /\ LET front == th[Consumer].node  next == th[Consumer].other
       IN  \/ front = Stub /\ next = NoNode /\ Nothing /\ UNCHANGED obj
           \/ /\ front = Stub /\ next # NoNode
              /\ obj' = [obj EXCEPT !.tail = next]
              /\ Local("loadNext", next, NoNode)
           \/ front # Stub /\ Local("take", front, next) /\ UNCHANGED obj
LoadNext(from, to) ==
    /\ Here(from)
    /\ Local(to, th[Consumer].node, obj.next[th[Consumer].node]) /\ UNCHANGED obj
\* With a successor the front is ours; it is the last node otherwise, and may
\* be taken once the stub is behind it.
Take(pc) ==
    /\ Here(pc) /\ th[Consumer].other # NoNode
    /\ obj' = [obj EXCEPT !.tail = th[Consumer].other, !.popped = @ + 1,
                          !.got = th[Consumer].node]
    /\ Nothing
MidPush ==
    \/ /\ Here("take") /\ th[Consumer].other = NoNode
       /\ IF th[Consumer].node # obj.head THEN Nothing
          ELSE Local("pushStub", th[Consumer].node, NoNode)
       /\ UNCHANGED obj
    \/ Here("takeLast") /\ th[Consumer].other = NoNode /\ Nothing /\ UNCHANGED obj
PushStub == Here("pushStub") /\ Exchange(Consumer, Stub, "linkStub")
LinkStub ==
    /\ Here("linkStub")
    /\ obj' = [obj EXCEPT !.next[th[Consumer].other] = Stub]
    /\ Local("loadLast", th[Consumer].node, NoNode)

Pop ==
    \/ SkipStub \/ LoadNext("loadNext", "take") \/ Take("take") \/ MidPush \/ PushStub
    \/ LinkStub \/ LoadNext("loadLast", "takeLast") \/ Take("takeLast")
Step(p) == Link(p) \/ (p = Consumer /\ (LoadFront \/ Pop))
Next == \E p \in Producers \cup {Consumer} : Step(p) \/ \E n \in Nodes : Push(p, n)

-----------------------------------------------------------------------------
\* The worker pops every node once, in the order of the exchanges.
PopsInOrder ==
    /\ obj.popped <= Len(obj.order)
    /\ obj.popped > 0 => obj.got = obj.order[obj.popped]

\* With no push or pop under way, what was pushed and not popped is where the
\* next pop() looks for it: no node is cut off behind the stub.
NothingCutOff ==
    (\A p \in DOMAIN th : th[p].pc = "idle") /\ obj.popped < Len(obj.order) =>
        (IF obj.tail = Stub THEN obj.next[Stub] ELSE obj.tail) = obj.order[obj.popped + 1]
=============================================================================
