------------------------------ MODULE BbqQueue ------------------------------
(***************************************************************************)
(* The bounded queue behind the injection queue, the free list of slots    *)
(* and the shared stack pool: any thread pushes, any thread pops.  Each    *)
(* block counts slots given to producers (allocated) and written           *)
(* (committed), given to consumers (reserved) and read (consumed); two     *)
(* heads say which block is in use.  Every atomic access is a step.        *)
(***************************************************************************)
EXTENDS Naturals, Sequences, FiniteSets

CONSTANTS Producers, Consumers,
          NumBlocks, BlockSize,
          IndexBase,    \* 2^(bits of a slot offset, kOverflowBits included)
          Word,         \* values of a size_t
          MaxItems,     \* bound on the pushes of a run
          Kind          \* a run may choose among several instances

VARIABLES obj, th

Cursor == INSTANCE PackedCursor WITH Base <- IndexBase
Heads == INSTANCE PackedCursor WITH Base <- NumBlocks

At(p, pc) == obj.is = Kind /\ th[p].pc = pc
Leave(p) == th' = [th EXCEPT ![p] = [pc |-> "idle"]]
BlockAt(head) == Heads!index(head)
NextAt(head) == (Heads!index(head) + 1) % NumBlocks

Init ==
    /\ obj = [is |-> Kind,
              blocks |-> [b \in 0 .. NumBlocks - 1 |->
                  LET initial == Cursor!make(0, IF b = 0 THEN 0 ELSE BlockSize)
                  IN  [allocated |-> initial, committed |-> initial, reserved |-> initial,
                       consumed |-> initial, entries |-> [i \in 0 .. BlockSize - 1 |-> 0]]],
              producerHead |-> 0, consumerHead |-> 0,
              begun |-> 0, order |-> <<>>, taken |-> 0]       \* history
    /\ th = [p \in Producers \cup Consumers |-> [pc |-> "idle"]]

atomicMax(b, name, value) ==
    obj' = [obj EXCEPT !.blocks[b][name] = IF @ < value THEN value ELSE @]
FreshRound(head) == Cursor!make(Heads!version(head) + 1, 0)

-----------------------------------------------------------------------------
(* push()                                                                  *)

PushBegins(p) ==
    /\ p \in Producers /\ At(p, "idle") /\ obj.begun < MaxItems
    /\ obj' = [obj EXCEPT !.begun = @ + 1]
    /\ th' = [th EXCEPT ![p] = [pc |-> "head", item |-> obj.begun + 1]]
LoadProducerHead(p) ==
    /\ At(p, "head")
    /\ th' = [th EXCEPT ![p] = [pc |-> "peek", item |-> @.item, head |-> obj.producerHead]]
    /\ UNCHANGED obj
Peek(p) ==
    /\ At(p, "peek")
    /\ th' = [th EXCEPT ![p].pc =
           IF Cursor!index(obj.blocks[BlockAt(th[p].head)].allocated) < BlockSize
           THEN "allocate" ELSE "nextConsumed"]
    /\ UNCHANGED obj
Allocate(p) ==
    LET b == BlockAt(th[p].head)
        slot == Cursor!index(obj.blocks[b].allocated)
    IN  /\ At(p, "allocate")
        /\ obj' = [obj EXCEPT !.blocks[b].allocated = Cursor!addIndex(@, 1),
                              !.order = IF slot < BlockSize THEN Append(@, th[p].item) ELSE @]
        /\ th' = [th EXCEPT ![p] =
               IF slot < BlockSize
               THEN [pc |-> "write", item |-> @.item, b |-> b, slot |-> slot]
               ELSE [@ EXCEPT !.pc = "nextConsumed"]]
Write(p) ==
    /\ At(p, "write")
    /\ obj' = [obj EXCEPT !.blocks[th[p].b].entries[th[p].slot] = th[p].item]
    /\ th' = [th EXCEPT ![p] = [pc |-> "commit", b |-> @.b]]
Commit(p) ==
    /\ At(p, "commit")
    /\ obj' = [obj EXCEPT !.blocks[th[p].b].committed = Cursor!addIndex(@, 1)]
    /\ Leave(p)

\* advance_phead: the next block must be fully consumed, or be further on.
PreviousRoundLeft(head, consumed) ==
    \/ Cursor!version(consumed) = Heads!version(head) /\ Cursor!index(consumed) = BlockSize
    \/ Cursor!version(consumed) > Heads!version(head)
LoadNextConsumed(p) ==
    LET consumed == obj.blocks[NextAt(th[p].head)].consumed
    IN  /\ At(p, "nextConsumed")
        /\ th' = [th EXCEPT ![p] =
               IF PreviousRoundLeft(@.head, consumed) THEN [@ EXCEPT !.pc = "maxCommitted"]
               ELSE [pc |-> "nextReserved", head |-> @.head, consumed |-> consumed,
                     held |-> Len(obj.order) - obj.taken]]
        /\ UNCHANGED obj
FullOrBusy(p) ==
    LET reserved == obj.blocks[NextAt(th[p].head)].reserved
    IN  /\ At(p, "nextReserved")
        /\ IF Cursor!index(reserved) # Cursor!index(th[p].consumed) THEN Leave(p)
           ELSE th' = [th EXCEPT ![p] = [pc |-> "full", held |-> @.held]]
        /\ UNCHANGED obj
ReturnFull(p) == At(p, "full") /\ Leave(p) /\ UNCHANGED obj
Advance(p, pc, name, to) ==
    /\ At(p, pc)
    /\ atomicMax(NextAt(th[p].head), name, FreshRound(th[p].head))
    /\ th' = [th EXCEPT ![p].pc = to]
AdvanceProducerHead(p) ==
    /\ At(p, "maxProducerHead")
    /\ obj' = [obj EXCEPT !.producerHead = IF @ < th[p].head + 1 THEN th[p].head + 1 ELSE @]
    /\ th' = [th EXCEPT ![p].pc = "head"]

PushStep(p) ==
    \/ LoadProducerHead(p) \/ Peek(p) \/ Allocate(p) \/ Write(p) \/ Commit(p)
    \/ LoadNextConsumed(p) \/ FullOrBusy(p) \/ ReturnFull(p)
    \/ Advance(p, "maxCommitted", "committed", "maxAllocated")
    \/ Advance(p, "maxAllocated", "allocated", "maxProducerHead")
    \/ AdvanceProducerHead(p)

-----------------------------------------------------------------------------
(* pop()                                                                   *)

PopBegins(c) ==
    /\ c \in Consumers /\ At(c, "idle")
    /\ th' = [th EXCEPT ![c] = [pc |-> "popHead"]] /\ UNCHANGED obj
LoadConsumerHead(c) ==
    /\ At(c, "popHead")
    /\ th' = [th EXCEPT ![c] = [pc |-> "reserved", head |-> obj.consumerHead]]
    /\ UNCHANGED obj
LoadReserved(c) ==
    LET reserved == obj.blocks[BlockAt(th[c].head)].reserved
    IN  /\ At(c, "reserved")
        /\ th' = [th EXCEPT ![c] =
               [pc |-> IF Cursor!index(reserved) < BlockSize THEN "committed" ELSE "nextCommitted",
                head |-> @.head, reserved |-> reserved]]
        /\ UNCHANGED obj
LoadCommitted(c) ==
    LET committed == obj.blocks[BlockAt(th[c].head)].committed
        i == Cursor!index(committed)
    IN  /\ At(c, "committed")
        /\ IF i = Cursor!index(th[c].reserved) THEN Leave(c)
           ELSE th' = [th EXCEPT ![c] =
                    [pc |-> IF i = BlockSize THEN "reserve" ELSE "allocated", head |-> @.head,
                     reserved |-> @.reserved, committed |-> i]]
        /\ UNCHANGED obj
\* Mutant: reads up to `committed` while others still write.
AllocatedUnchecked(c) ==
    At(c, "allocated") /\ th' = [th EXCEPT ![c].pc = "reserve"] /\ UNCHANGED obj
\* A slot below `committed` may still be unwritten while others are.
LoadAllocated(c) ==
    LET allocated == obj.blocks[BlockAt(th[c].head)].allocated
    IN  /\ At(c, "allocated")
        /\ IF Cursor!index(allocated) # th[c].committed THEN Leave(c)
           ELSE th' = [th EXCEPT ![c].pc = "reserve"]
        /\ UNCHANGED obj
Reserve(c) ==
    LET b == BlockAt(th[c].head)
    IN  /\ At(c, "reserve")
        /\ IF obj.blocks[b].reserved = th[c].reserved
           THEN /\ obj' = [obj EXCEPT !.blocks[b].reserved = Cursor!addIndex(@, 1),
                                      !.taken = @ + 1]
                /\ th' = [th EXCEPT ![c] =
                       [pc |-> "read", b |-> b, slot |-> Cursor!index(@.reserved),
                        nth |-> obj.taken + 1]]
           ELSE /\ th' = [th EXCEPT ![c].pc = "reserved"] /\ UNCHANGED obj
Read(c) ==
    /\ At(c, "read")
    /\ th' = [th EXCEPT ![c] = [pc |-> "consume", b |-> @.b, nth |-> @.nth,
                                out |-> obj.blocks[@.b].entries[@.slot]]]
    /\ UNCHANGED obj
Consume(c) ==
    /\ At(c, "consume")
    /\ obj' = [obj EXCEPT !.blocks[th[c].b].consumed = Cursor!addIndex(@, 1)]
    /\ Leave(c)
\* advance_chead: only into a block the producers have entered.
LoadNextCommitted(c) ==
    LET committed == obj.blocks[NextAt(th[c].head)].committed
    IN  /\ At(c, "nextCommitted")
        /\ IF Cursor!version(committed) # Heads!version(th[c].head) + 1 THEN Leave(c)
           ELSE th' = [th EXCEPT ![c] = [pc |-> "maxConsumed", head |-> @.head]]
        /\ UNCHANGED obj
AdvanceConsumerHead(c) ==
    /\ At(c, "maxConsumerHead")
    /\ obj' = [obj EXCEPT !.consumerHead = IF @ < th[c].head + 1 THEN th[c].head + 1 ELSE @]
    /\ th' = [th EXCEPT ![c] = [pc |-> "popHead"]]

PopStep(c) ==
    \/ LoadConsumerHead(c) \/ LoadReserved(c) \/ LoadCommitted(c) \/ LoadAllocated(c)
    \/ Reserve(c) \/ Read(c) \/ Consume(c) \/ LoadNextCommitted(c)
    \/ Advance(c, "maxConsumed", "consumed", "maxReserved")
    \/ Advance(c, "maxReserved", "reserved", "maxConsumerHead")
    \/ AdvanceConsumerHead(c)

\* hasInjectedWork() asks this before a worker goes to sleep.
isEmptyApprox ==
    LET b == obj.blocks[BlockAt(obj.consumerHead)]
        n == obj.blocks[NextAt(obj.consumerHead)]
    IN  IF Cursor!index(b.reserved) < BlockSize
        THEN Cursor!index(b.reserved) = Cursor!index(b.committed)
        ELSE \/ Cursor!version(n.committed) # Heads!version(obj.consumerHead) + 1
             \/ n.reserved = n.committed

Next ==
    \E p \in DOMAIN th : PushBegins(p) \/ PopBegins(p) \/ PushStep(p) \/ PopStep(p)

-----------------------------------------------------------------------------
Quiet == obj.is = Kind /\ \A p \in DOMAIN th : th[p].pc = "idle"

\* The k-th slot given to a consumer is the k-th given to a producer, and what
\* is read there is what was written: nothing is read before it is committed
\* or after its block is recycled, and nothing is read twice.
FirstInFirstOut ==
    \A c \in Consumers : At(c, "consume") => th[c].out = obj.order[th[c].nth]

\* With no operation under way the probe tells the truth, however the cursors
\* were left behind by operations that gave up.
ProbeIsRight == Quiet => (isEmptyApprox <=> obj.taken = Len(obj.order))

\* Full is answered only when a ring but one block was held at a moment of
\* that push: a free list sized for all the slots never refuses one.
FullMeansFull ==
    \A p \in Producers : At(p, "full") => th[p].held >= (NumBlocks - 1) * BlockSize
=============================================================================
