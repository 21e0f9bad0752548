----------------------------- MODULE BwosQueue -----------------------------
(***************************************************************************)
(* The local run queue of a worker: its owner pushes and pops, thieves     *)
(* steal.  A ring of blocks, each with a cursor for the producer           *)
(* (committed), the consumer (consumed), the thieves' claims (reserved)    *)
(* and what they have copied out (stolen).  Every access to a cursor that  *)
(* another thread writes is a step of its own; the owner's cursors are     *)
(* read and written with the step that publishes them.                     *)
(*                                                                         *)
(* Items are numbered as they are pushed.                                  *)
(***************************************************************************)
EXTENDS Naturals, FiniteSets

CONSTANTS Owner, Thieves,
          NumBlocks, EntriesPerBlock,
          Word,         \* values of a size_t
          MaxItems,     \* bound on the items of a run
          Kind          \* a run may choose among several instances

VARIABLES obj, th

Base == IF EntriesPerBlock = 1 THEN 2 ELSE 4    \* bitsToHold, up to 3 entries
Cursor == INSTANCE PackedCursor

Ring == 0 .. NumBlocks - 1
NextOf(b) == (b + 1) % NumBlocks
IsHead(b) == b = 0
At(p, pc) == obj.is = Kind /\ th[p].pc = pc
Go(p, pc) == th' = [th EXCEPT ![p].pc = pc]
Leave(p) == th' = [th EXCEPT ![p] = [pc |-> "idle"]]

Fresh(b) ==
    LET owner == IF IsHead(b) THEN Cursor!make(1, 0) ELSE Cursor!make(0, EntriesPerBlock)
        thief == Cursor!make(IF IsHead(b) THEN 1 ELSE 0, EntriesPerBlock)
    IN  [committed |-> owner, consumed |-> owner, reserved |-> thief, stolen |-> thief,
         entries |-> [i \in 0 .. EntriesPerBlock - 1 |-> 0]]

Init ==
    /\ obj = [is |-> Kind, blocks |-> [b \in Ring |-> Fresh(b)], producer |-> 0,
              consumer |-> 0, stealPosition |-> 0, pushed |-> 0, got |-> {}]
    /\ th = [p \in {Owner} \cup Thieves |-> [pc |-> "idle"]]

-----------------------------------------------------------------------------
(* The producer: push() is pushBatch() of one item.                        *)

\* The previous round's consumer and thieves have left the block.
isNextBlockWritable(next, round) ==
    LET previous == (round + Word - 1) % Word
        consumed == obj.blocks[next].consumed
        stolen == obj.blocks[next].stolen
    IN  /\ Cursor!index(consumed) = EntriesPerBlock /\ Cursor!version(consumed) = previous
        /\ Cursor!index(stolen) = EntriesPerBlock /\ Cursor!version(stolen) = previous

Produce ==
    LET b == obj.producer
        at == Cursor!index(obj.blocks[b].committed)
        room == EntriesPerBlock - at
        n == IF th[Owner].left < room THEN th[Owner].left ELSE room
    IN  /\ At(Owner, "push")
        /\ obj' = [obj EXCEPT
               !.pushed = @ + n,
               !.blocks[b].entries = [i \in DOMAIN @ |->
                   IF i \in at .. at + n - 1 THEN obj.pushed + 1 + i - at ELSE @[i]],
               !.blocks[b].committed = Cursor!addIndex(@, n)]
        /\ IF n = th[Owner].left THEN Leave(Owner)
           ELSE th' = [th EXCEPT ![Owner].left = @ - n, ![Owner].pc = "advance"]

advanceProducer ==
    LET next == NextOf(obj.producer)
        round == Cursor!nextRound(obj.blocks[obj.producer].committed, IsHead(next))
    IN  /\ At(Owner, "advance")
        /\ IF isNextBlockWritable(next, Cursor!version(round))
           THEN /\ obj' = [obj EXCEPT !.blocks[next].committed = round,
                                      !.blocks[next].stolen = round]
                /\ Go(Owner, "publish")
           ELSE Leave(Owner) /\ UNCHANGED obj
PublishReserved ==
    LET next == NextOf(obj.producer)
    IN  /\ At(Owner, "publish")
        /\ obj' = [obj EXCEPT !.blocks[next].reserved = obj.blocks[next].committed,
                              !.producer = next]
        /\ Go(Owner, "push")

\* What the worker asks before it steals a whole block.
minRemainingSlots ==
    LET b == obj.producer
        next == NextOf(b)
    IN  EntriesPerBlock - Cursor!index(obj.blocks[b].committed)
        + (IF isNextBlockWritable(next, Cursor!version(obj.blocks[next].committed))
           THEN EntriesPerBlock ELSE 0)

-----------------------------------------------------------------------------
(* The consumer: pop(), popBlock(), hasEntries().                          *)

TakenEntries(b, from, to) == {obj.blocks[b].entries[i] : i \in from .. to - 1}
NextVersion(next, cursor) == Cursor!version(cursor) + (IF IsHead(next) THEN 1 ELSE 0)
consumerMayAdvance(next, consumed) ==
    Cursor!version(obj.blocks[next].reserved) = NextVersion(next, consumed)

\* Reserve the whole block, skip what thieves claimed, credit them the rest.
TakeOver(next, consumed, from, credit) ==
    obj' = [obj EXCEPT
        !.blocks[next].reserved = Cursor!make(NextVersion(next, consumed), EntriesPerBlock),
        !.blocks[next].stolen = Cursor!addIndex(@, credit),
        !.blocks[next].consumed = from,
        !.consumer = next]
\* Mutant: the owner forgets what thieves have claimed in the block.
TakeOverForgetsClaims(next, consumed) ==
    TakeOver(next, consumed, Cursor!make(NextVersion(next, consumed), 0), EntriesPerBlock)
takeOverConsumerBlock(next, consumed) ==
    LET previous == obj.blocks[next].reserved
    IN  TakeOver(next, consumed, previous, EntriesPerBlock - Cursor!index(previous))

locateConsumer ==
    LET b == obj.consumer
        next == NextOf(b)
        consumed == obj.blocks[b].consumed
        committed == obj.blocks[b].committed
        from == Cursor!index(consumed)
        upTo == IF th[Owner].one THEN from + 1 ELSE Cursor!index(committed)
    IN  /\ At(Owner, "locate")
        /\ \/ /\ from < EntriesPerBlock /\ from # Cursor!index(committed)
              /\ obj' = [obj EXCEPT !.blocks[b].consumed = Cursor!addIndex(@, upTo - from),
                                    !.got = @ \cup TakenEntries(b, from, upTo)]
              /\ Leave(Owner)
           \/ /\ from < EntriesPerBlock /\ from = Cursor!index(committed)
              /\ Leave(Owner) /\ UNCHANGED obj
           \/ /\ from = EntriesPerBlock
              /\ ~consumerMayAdvance(next, consumed) \/ th[Owner].tries = NumBlocks + 1
              /\ Leave(Owner) /\ UNCHANGED obj
           \/ /\ from = EntriesPerBlock /\ th[Owner].tries <= NumBlocks
              /\ consumerMayAdvance(next, consumed)
              /\ takeOverConsumerBlock(next, consumed)
              /\ th' = [th EXCEPT ![Owner].tries = @ + 1]

\* The walk of hasEntries(): `at` is the block, `consumed` the cursor carried.
Answer(yes) == th' = [th EXCEPT ![Owner] = [pc |-> "answer", yes |-> yes]]
\* Mutant: looks no further than the block it consumes.
LooksAtOwnBlock ==
    /\ At(Owner, "probe")
    /\ Answer(Cursor!index(th[Owner].consumed) # Cursor!index(obj.blocks[th[Owner].at].committed))
    /\ UNCHANGED obj
hasEntries ==
    LET o == th[Owner]
        next == NextOf(o.at)
        reserved == Cursor!index(obj.blocks[next].reserved)
        committed == Cursor!index(obj.blocks[next].committed)
    IN  /\ At(Owner, "probe")
        /\ IF Cursor!index(o.consumed) < EntriesPerBlock
           THEN Answer(Cursor!index(o.consumed) # Cursor!index(obj.blocks[o.at].committed))
           ELSE IF ~consumerMayAdvance(next, o.consumed) THEN Answer(FALSE)
           ELSE IF reserved < committed THEN Answer(TRUE)
           ELSE IF reserved < EntriesPerBlock \/ o.tries = NumBlocks THEN Answer(FALSE)
           ELSE th' = [th EXCEPT ![Owner] = [@ EXCEPT
                    !.at = next, !.tries = @ + 1,
                    !.consumed = Cursor!make(NextVersion(next, @), EntriesPerBlock)]]
        /\ UNCHANGED obj

OwnerCalls ==
    /\ At(Owner, "idle") \/ At(Owner, "answer")
    /\ \/ \E n \in 1 .. EntriesPerBlock + 1 :
             /\ obj.pushed + n <= MaxItems
             /\ th' = [th EXCEPT ![Owner] = [pc |-> "push", left |-> n]]
       \/ \E one \in BOOLEAN :
             th' = [th EXCEPT ![Owner] = [pc |-> "locate", one |-> one, tries |-> 0]]
       \/ th' = [th EXCEPT ![Owner] =
                    [pc |-> "probe", at |-> obj.consumer, tries |-> 0,
                     consumed |-> obj.blocks[obj.consumer].consumed]]
    /\ UNCHANGED obj
OwnerStep ==
    \/ Produce \/ advanceProducer \/ PublishReserved \/ locateConsumer \/ hasEntries

-----------------------------------------------------------------------------
(* Thieves: steal() takes one item, stealBlock() the rest of the block.    *)

StealBegins(t) ==
    /\ At(t, "idle")
    /\ \E one \in BOOLEAN : th' = [th EXCEPT ![t] = [pc |-> "position", one |-> one]]
    /\ UNCHANGED obj
LoadPosition(t) ==
    /\ At(t, "position")
    /\ th' = [th EXCEPT ![t] = [pc |-> "reserved", one |-> @.one, position |-> obj.stealPosition]]
    /\ UNCHANGED obj
BlockOf(t) == th[t].position % NumBlocks
LoadReserved(t) ==
    LET reserved == obj.blocks[BlockOf(t)].reserved
    IN  /\ At(t, "reserved")
        /\ th' = [th EXCEPT ![t] =
               [pc |-> IF Cursor!index(reserved) < EntriesPerBlock THEN "committed" ELSE "next",
                one |-> @.one, position |-> @.position, reserved |-> reserved]]
        /\ UNCHANGED obj
LoadCommitted(t) ==
    LET committed == obj.blocks[BlockOf(t)].committed
        o == th[t]
    IN  /\ At(t, "committed")
        /\ IF Cursor!index(o.reserved) = Cursor!index(committed) THEN Leave(t)
           ELSE th' = [th EXCEPT ![t] =
                    [pc |-> "claim", one |-> o.one, position |-> o.position,
                     reserved |-> o.reserved,
                     to |-> IF o.one THEN Cursor!addIndex(o.reserved, 1) ELSE committed]]
        /\ UNCHANGED obj
Retry(t) == th' = [th EXCEPT ![t] = [pc |-> "position", one |-> @.one]]
\* compare_exchange_weak may fail although nobody moved the cursor.
Claim(t) ==
    LET o == th[t]
        b == BlockOf(t)
    IN  /\ At(t, "claim")
        /\ \/ /\ obj.blocks[b].reserved = o.reserved
              /\ obj' = [obj EXCEPT !.blocks[b].reserved = o.to]
              /\ th' = [th EXCEPT ![t] =
                     [pc |-> "copy", b |-> b, from |-> Cursor!index(o.reserved),
                      to |-> Cursor!index(o.to),
                      claim |-> TakenEntries(b, Cursor!index(o.reserved), Cursor!index(o.to))]]
           \/ Retry(t) /\ UNCHANGED obj
Copy(t) ==
    LET o == th[t]
        out == TakenEntries(o.b, o.from, o.to)
    IN  /\ At(t, "copy")
        /\ obj' = [obj EXCEPT !.got = @ \cup out]
        /\ th' = [th EXCEPT ![t] = [pc |-> "count", b |-> o.b, n |-> o.to - o.from,
                                    claim |-> o.claim, out |-> out]]
CountStolen(t) ==
    /\ At(t, "count")
    /\ obj' = [obj EXCEPT !.blocks[th[t].b].stolen = Cursor!addIndex(@, th[t].n)]
    /\ Leave(t)
thiefMayAdvance(t) ==
    LET next == NextOf(BlockOf(t))
    IN  /\ At(t, "next")
        /\ IF Cursor!version(obj.blocks[next].reserved) = NextVersion(next, th[t].reserved)
           THEN Go(t, "bump") ELSE Leave(t)
        /\ UNCHANGED obj
BumpPosition(t) ==
    /\ At(t, "bump")
    /\ \/ obj.stealPosition = th[t].position /\ obj' = [obj EXCEPT !.stealPosition = @ + 1]
       \/ UNCHANGED obj
    /\ Retry(t)

ThiefStep(t) ==
    \/ LoadPosition(t) \/ LoadReserved(t) \/ LoadCommitted(t) \/ Claim(t)
    \/ Copy(t) \/ CountStolen(t) \/ thiefMayAdvance(t) \/ BumpPosition(t)

Next == OwnerCalls \/ OwnerStep \/ \E t \in Thieves : StealBegins(t) \/ ThiefStep(t)

-----------------------------------------------------------------------------
\* Blocks from the consumer's to the producer's; a whole lap when the producer
\* has entered the consumer's block for the next round.
Distance ==
    LET c == obj.blocks[obj.consumer]
        d == (obj.producer + NumBlocks - obj.consumer) % NumBlocks
    IN  IF d = 0 /\ Cursor!version(c.committed) # Cursor!version(c.consumed) THEN NumBlocks ELSE d
Unclaimed ==
    LET Block(k) == (obj.consumer + k) % NumBlocks
        committed(k) == Cursor!index(obj.blocks[Block(k)].committed)
        own == obj.blocks[obj.consumer]
    IN  (IF Distance = NumBlocks THEN {}
         ELSE TakenEntries(obj.consumer, Cursor!index(own.consumed), committed(0)))
        \cup UNION {TakenEntries(Block(k), Cursor!index(obj.blocks[Block(k)].reserved), committed(k)) :
                    k \in 1 .. Distance}
Claimed(t) == IF th[t].pc = "copy" THEN th[t].claim ELSE {}

\* Every item pushed is in exactly one place: still to be claimed, claimed by
\* one thief that has yet to copy it, or handed out.
EachItemOnce ==
    LET places == <<Unclaimed, obj.got, UNION {Claimed(t) : t \in Thieves}>>
    IN  /\ UNION {places[i] : i \in 1 .. 3} = 1 .. obj.pushed
        /\ \A i, j \in 1 .. 3 : i # j => places[i] \cap places[j] = {}
        /\ \A t, u \in Thieves : t # u => Claimed(t) \cap Claimed(u) = {}

\* The owner recycles a block only when every claim in it is copied out.
CopiesItsClaim == \A t \in Thieves : At(t, "count") => th[t].out = th[t].claim

\* hasEntries() has no false negative: a worker that parks on its answer
\* leaves nothing behind in its own queue.
NoFalseNegative == At(Owner, "answer") /\ ~th[Owner].yes => Unclaimed = {}

\* What the room really is: this block, and the next if it can be entered.
RoomForPush ==
    LET b == obj.producer
        next == NextOf(b)
        round == Cursor!nextRound(obj.blocks[b].committed, IsHead(next))
    IN  EntriesPerBlock - Cursor!index(obj.blocks[b].committed)
        + (IF isNextBlockWritable(next, Cursor!version(round)) THEN EntriesPerBlock ELSE 0)

\* A caller that checked minRemainingSlots() beforehand gets all of them.
RoomIsGuaranteed == At(Owner, "idle") => minRemainingSlots <= RoomForPush

\* Once everything is handed out, the consumer has caught up with the producer
\* and no thief is inside, the owner can push: no round ends with a block that
\* is never written again.
NeverWedged ==
    (\A t \in Thieves : th[t].pc \notin {"copy", "count"})
        /\ At(Owner, "idle") /\ Unclaimed = {} /\ Distance = 0
    => RoomForPush > 0
=============================================================================
