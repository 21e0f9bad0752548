---------------------------- MODULE Registration ----------------------------
(***************************************************************************)
(* Readiness of one registered descriptor, from the kernel to whoever      *)
(* waits: the transfer loops of Async.h (tasks and threads) and of         *)
(* exec/io.hpp (operations), Registration with its event counts and        *)
(* wakers, and both pollers.  EpollPoller is edge-triggered and watches    *)
(* both directions all the time; PollPoller is level-triggered, watches    *)
(* what was armed and drops it once reported.  A section under             *)
(* Registration::lock, or under a poller's table lock, is one step.        *)
(*                                                                         *)
(* The kernel is external: level[d] is what a transfer in direction d can  *)
(* move at once, `ended` the directions that the peer or an error ended,   *)
(* `hand` how far a connect has come.                                      *)
(***************************************************************************)
EXTENDS Waiters, SequencesExt

CONSTANTS Poller,       \* the thread in Poller::wait(), one of Threads
          DirectionOf,  \* of every other party: "R" or "W"
          NoOne, MaxArrivals, MaxTransfers,
          Reused,       \* the descriptor's number is used again
          Streams,      \* subset of BOOLEAN: byte streams, or datagrams, listeners
          Whole,        \* who calls readExactly() or writeAll(), on a stream
          Connecting    \* who connects a socket that is not registered yet

Directions == {"R", "W"}
Users == Parties \ {Poller}
Dir(p) == DirectionOf[p]
Asked == IF obj.stream THEN 2 ELSE 1      \* units of `level` per transfer
asked(p) == IF th[p].left = 0 THEN Asked ELSE th[p].left
everyArrivalReported == obj.backend = "epoll"

\* The poller is a thread, an operation is neither a task nor a thread, and a
\* socket that has to be connected first is used for that alone.
Roles ==
    /\ Poller \in Threads /\ NoOne \notin Parties /\ Ops \cap Blocking = {}
    /\ DirectionOf \in [Users -> Directions] /\ Streams \subseteq BOOLEAN
    /\ Connecting \in {{}, Users}
    /\ Connecting # {} => ~Reused /\ \A p \in Users : Dir(p) = "W"

Init ==
    /\ \E backend \in {"epoll", "poll"}, stream \in Streams :
          obj = [is |-> Kind, backend |-> backend, stream |-> stream,
                 table |-> Connecting = {}, hand |-> IF Connecting = {} THEN "over" ELSE "unconnected",
                 level |-> [d \in Directions |-> 0], arrivals |-> 0, begun |-> 0,
                 ended |-> {}, edge |-> FALSE,
                 armed |-> {}, poke |-> FALSE, events |-> [d \in Directions |-> 0],
                 waker |-> [d \in Directions |-> NoOne], closed |-> {},
                 exhausted |-> {}, exhaustedAt |-> [d \in Directions |-> 0]]
    /\ th = [p \in Parties |->
                [pc |-> "idle", satisfied |-> FALSE, cancelled |-> FALSE, stop |-> "quiet",
                 chain |-> <<>>, result |-> "none",
                 seen |-> 0, left |-> 0, mask |-> {}, shut |-> {}]]

-----------------------------------------------------------------------------
(* The kernel.                                                             *)

\* A socket that nobody has connected yet counts as hung up.
ReadyNow ==
    IF obj.hand = "unconnected" THEN Directions
    ELSE {d \in Directions : obj.level[d] > 0} \cup obj.ended
Happens(level, ended) ==
    /\ obj.is = Kind /\ obj.arrivals < MaxArrivals
    /\ obj' = [obj EXCEPT !.arrivals = @ + 1, !.level = level, !.ended = ended, !.hand = "over",
                          !.edge = @ \/ (everyArrivalReported /\ obj.table)]
    /\ UNCHANGED th
Arrive(d) ==
    /\ obj.hand = "over" \/ (obj.hand = "inProgress" /\ d = "W")
    /\ Happens([obj.level EXCEPT ![d] = @ + 1], obj.ended)
PeerEnds(directions) ==
    /\ obj.hand = "over" \/ (obj.hand = "inProgress" /\ directions = Directions)
    /\ ~(directions \subseteq obj.ended)
    /\ Happens(obj.level, obj.ended \cup directions)

-----------------------------------------------------------------------------
(* The pollers.  `mask` is what the system call returned, `shut` the part  *)
(* of it that says closed; for poll it is the snapshot while it sleeps.    *)

epoll_wait ==
    /\ At(Poller, "idle") /\ everyArrivalReported /\ obj.edge
    /\ obj' = [obj EXCEPT !.edge = FALSE]
    /\ th' = [th EXCEPT ![Poller].mask = ReadyNow, ![Poller].shut = obj.ended,
                        ![Poller].pc = IF ReadyNow = {} THEN "idle" ELSE "collect"]
snapshot ==
    /\ At(Poller, "idle") /\ ~everyArrivalReported
    /\ th' = [th EXCEPT ![Poller].pc = "polling",
                        ![Poller].mask = IF obj.table THEN obj.armed ELSE {}]
    /\ UNCHANGED obj
\* POLLHUP is reported whatever was asked for; the peer's shutdown of its
\* side alone is POLLIN.  The self-pipe is drained.
poll ==
    LET watched == th[Poller].mask
        hungUp == IF watched # {} /\ obj.ended = Directions THEN Directions ELSE {}
        ready == (watched \cap ReadyNow) \cup hungUp
    IN  /\ At(Poller, "polling")
        /\ obj.poke \/ ready # {}
        /\ obj' = [obj EXCEPT !.poke = FALSE]
        /\ th' = [th EXCEPT ![Poller].mask = ready, ![Poller].shut = hungUp,
                            ![Poller].pc = IF ready = {} THEN "idle" ELSE "collect"]
\* The timeout of the timekeeper that sleeps in it.
PollTimesOut ==
    /\ At(Poller, "polling") /\ UNCHANGED obj
    /\ th' = [th EXCEPT ![Poller].pc = "idle", ![Poller].mask = {}]

\* Registration::collect(), from the pass under the table lock.
CollectWith(armed) ==
    LET ready == th[Poller].mask
        taken == {d \in ready : obj.waker[d] # NoOne}
    IN  /\ obj' = [obj EXCEPT
               !.closed = @ \cup th[Poller].shut, !.armed = armed,
               !.events = [d \in Directions |-> obj.events[d] + (IF d \in ready THEN 1 ELSE 0)],
               !.waker = [d \in Directions |-> IF d \in ready THEN NoOne ELSE obj.waker[d]]]
        /\ th' = [th EXCEPT ![Poller].pc = IF taken = {} THEN "idle" ELSE "notify",
                            ![Poller].mask = {}, ![Poller].shut = {},
                            ![Poller].chain = SetToSeq({obj.waker[d] : d \in taken})]
\* Mutant: a report for one direction disarms the other.
CollectDisarmsAll == CollectWith({})
collect == CollectWith(obj.armed \ th[Poller].mask)
\* A registration that is gone by now is not in the table; for poll, nor is
\* one whose directions were all reported already.
Collect ==
    /\ At(Poller, "collect")
    /\ IF obj.table /\ (everyArrivalReported \/ obj.armed # {}) THEN collect
       ELSE th' = [th EXCEPT ![Poller].pc = "idle", ![Poller].mask = {}, ![Poller].shut = {}]
            /\ UNCHANGED obj

-----------------------------------------------------------------------------
(* A transfer: at most one party per direction.                            *)

Active(p) == th[p].pc \notin {"idle", "done", "gone"}
DirectionFree(p) == \A q \in Users \ {p} : Dir(q) = Dir(p) => ~Active(q)

Leave(p, pc, result) ==
    th' = [th EXCEPT ![p] = [@ EXCEPT !.pc = pc, !.seen = 0, !.left = 0, !.result = result]]
Called(p) ==
    /\ obj.is = Kind /\ p \notin Connecting /\ th[p].pc = "idle"
    /\ obj.table /\ DirectionFree(p) /\ obj.begun < MaxTransfers
    /\ obj' = [obj EXCEPT !.begun = @ + 1]
Attempting(p) ==
    th' = [th EXCEPT ![p].pc = "seen",
                     ![p].left = IF p \in Whole /\ obj.stream THEN Asked ELSE 0]
\* read(), write(), readExactly(), writeAll() and their kin.
Begin(p) == p \in Users \cap Blocking /\ Called(p) /\ Attempting(p)
\* start() of their senders.
try_now(p) ==
    /\ p \in Ops /\ Called(p)
    /\ IF th[p].stop = "requested" THEN Return(p, "stopped") ELSE Attempting(p)
Retry(p) == IF p \in Connecting THEN "finishConnect" ELSE "seen"
\* retryWhenReady(): the count, then the attempt.
ReadSeen(p) ==
    /\ At(p, "seen") /\ UNCHANGED obj
    /\ th' = [th EXCEPT ![p].pc = "call", ![p].seen = obj.events[Dir(p)]]
\* run() of an operation's step: the same.
run(p) == p \in Ops /\ ReadSeen(p)
exhausted(p) ==
    /\ Dir(p) \in obj.exhausted /\ obj.exhaustedAt[Dir(p)] = th[p].seen
    /\ Dir(p) \notin obj.closed
\* The transfer would block: waitFor(); listen() the first time, watch() then.
Block(p) ==
    IF p \in Ops THEN IF th[p].stop \in {"quiet", "requested"} THEN "listen" ELSE "drive"
    ELSE "enqueue"
\* noteTransfer(), after bytes of those asked have moved.
noteTransfer(p, bytes) ==
    LET short == obj.stream /\ everyArrivalReported /\ bytes # 0 /\ bytes < asked(p)
    IN  [obj EXCEPT !.level[Dir(p)] = @ - bytes,
                    !.exhausted = IF short THEN @ \cup {Dir(p)} ELSE @ \ {Dir(p)},
                    !.exhaustedAt[Dir(p)] = IF short THEN th[p].seen ELSE 0]
MoreToMove(p, bytes) == th[p].left > bytes /\ bytes # 0
\* The loops of readExactly(), writeAll() and their steps: on until all has
\* moved, or the stream has ended.
MoveOn(p, bytes) ==
    IF MoreToMove(p, bytes)
    THEN th' = [th EXCEPT ![p].pc = "seen", ![p].left = @ - bytes]
    ELSE Leave(p, IF p \in Ops THEN "finish" ELSE "idle", "value")
\* What the system call moves.
moved(p) == LET here == obj.level[Dir(p)] IN IF here < asked(p) THEN here ELSE asked(p)
tryCall(p) ==
    /\ At(p, "call")
    /\ IF exhausted(p) \/ (moved(p) = 0 /\ Dir(p) \notin obj.ended)
       THEN Go(p, Block(p)) /\ UNCHANGED obj
       ELSE obj' = noteTransfer(p, moved(p)) /\ MoveOn(p, moved(p))

\* arm() of the poll backend, and its wake(): after the waker is stored in
\* waitFor(), before it in watch().
Arm(p) ==
    /\ At(p, "arm") \/ (At(p, "drive") /\ ~everyArrivalReported)
    /\ obj' = [obj EXCEPT !.armed = @ \cup {Dir(p)}]
    /\ Go(p, "poke")
Poke(p) ==
    /\ At(p, "poke")
    /\ obj' = [obj EXCEPT !.poke = TRUE]
    /\ Go(p, IF p \in Ops THEN "watch" ELSE "look")

StoreWaker(p) == obj' = [obj EXCEPT !.waker[Dir(p)] = p]
\* waitFor(): a report that landed first is nothing to wait for.
Enqueue(p) ==
    /\ At(p, "enqueue")
    /\ IF obj.events[Dir(p)] # th[p].seen THEN Go(p, Retry(p)) /\ UNCHANGED obj
       ELSE Go(p, IF everyArrivalReported THEN "look" ELSE "arm") /\ StoreWaker(p)
watch(p) ==
    /\ At(p, "watch") \/ (At(p, "drive") /\ everyArrivalReported)
    /\ IF th[p].cancelled THEN Return(p, "stopped") /\ UNCHANGED obj
       ELSE IF obj.events[Dir(p)] # th[p].seen THEN Go(p, Retry(p)) /\ UNCHANGED obj
       ELSE Go(p, "queued") /\ StoreWaker(p)
unwatch(p) ==
    /\ p \in Ops /\ obj.is = Kind /\ th[p].stop = "running"
    /\ IF obj.waker[Dir(p)] = p
       THEN /\ obj' = [obj EXCEPT !.waker[Dir(p)] = NoOne]
            /\ th' = [th EXCEPT ![p].stop = "over", ![p].pc = "finish", ![p].result = "stopped"]
       ELSE /\ th' = [th EXCEPT ![p].stop = "over", ![p].cancelled = TRUE] /\ UNCHANGED obj

\* The loop of waitFor() around block() and blockUntil().
LookEvents(p) ==
    /\ At(p, "look")
    /\ Go(p, IF obj.events[Dir(p)] = th[p].seen THEN "block" ELSE Retry(p)) /\ UNCHANGED obj
BlockReturns(p) ==
    /\ At(p, "block") /\ th[p].satisfied /\ UNCHANGED obj
    /\ th' = [th EXCEPT ![p].satisfied = FALSE, ![p].pc = "look"]
DeadlinePasses(p) ==
    /\ At(p, "block") /\ UNCHANGED obj
    /\ Go(p, IF obj.events[Dir(p)] # th[p].seen THEN Retry(p) ELSE "detach")
ForcedUnwind(p) == p \in Tasks /\ At(p, "block") /\ Go(p, "unwind") /\ UNCHANGED obj
\* Mutant: leaves with the waker still stored.
LeavesTheWaker(p) ==
    /\ At(p, "detach") \/ At(p, "unwind")
    /\ Leave(p, IF th[p].pc = "unwind" THEN "gone" ELSE "idle", "none") /\ UNCHANGED obj
detach(p) ==
    /\ At(p, "detach") \/ At(p, "unwind")
    /\ obj' = [obj EXCEPT !.waker[Dir(p)] = IF @ = p THEN NoOne ELSE @]
    /\ Leave(p, IF th[p].pc = "unwind" THEN "gone" ELSE "idle", "none")

\* ~Registration(), close(), and the same number for another descriptor.
RemoveRegistration ==
    /\ obj.is = Kind /\ Reused /\ obj.table /\ \A p \in Users : ~Active(p)
    /\ obj' = [obj EXCEPT !.table = FALSE, !.edge = FALSE, !.armed = {}]
    /\ UNCHANGED th
AddRegistration ==
    /\ obj.is = Kind /\ Reused /\ ~obj.table
    /\ obj' = [obj EXCEPT !.table = TRUE, !.level = [d \in Directions |-> 0], !.ended = {},
                          !.events = [d \in Directions |-> 0], !.closed = {}, !.exhausted = {},
                          !.exhaustedAt = [d \in Directions |-> 0]]
    /\ UNCHANGED th

-----------------------------------------------------------------------------
(* startConnect(), the registration, finishConnect().                      *)

\* Mutant: registers the socket before connect() has begun.
RegistersFirst(p) ==
    /\ p \in Connecting /\ obj.hand = "unconnected"
    /\ \/ /\ At(p, "idle") /\ ~obj.table /\ UNCHANGED th
          /\ obj' = [obj EXCEPT !.table = TRUE, !.edge = everyArrivalReported]
       \/ /\ At(p, "idle") /\ obj.table
          /\ obj' = [obj EXCEPT !.hand = "inProgress"]
          /\ th' = [th EXCEPT ![p].pc = Block(p), ![p].seen = obj.events[Dir(p)]]
startConnect(p) ==
    /\ p \in Connecting /\ At(p, "idle") /\ obj.hand = "unconnected"
    /\ IF p \in Ops /\ th[p].stop = "requested" THEN Return(p, "stopped") /\ UNCHANGED obj
       ELSE \/ obj' = [obj EXCEPT !.hand = "inProgress"] /\ Go(p, "register")
            \/ Return(p, "error") /\ UNCHANGED obj
\* wrap(): EPOLL_CTL_ADD reports what is ready by then.
Register(p) ==
    /\ At(p, "register")
    /\ obj' = [obj EXCEPT !.table = TRUE, !.edge = everyArrivalReported /\ ReadyNow # {}]
    /\ Go(p, Block(p))
finishConnect(p) ==
    /\ At(p, "finishConnect") /\ UNCHANGED obj
    /\ Return(p, IF obj.ended = Directions THEN "error" ELSE "value")

Step(p) ==
    \/ Register(p) \/ finishConnect(p) \/ (p \in Blocking /\ ReadSeen(p)) \/ run(p)
    \/ tryCall(p) \/ Arm(p) \/ Poke(p)
    \/ Enqueue(p) \/ LookEvents(p)
    \/ BlockReturns(p) \/ detach(p) \/ Listen(p) \/ watch(p) \/ unwatch(p) \/ Finish(p)
PollerStep ==
    \/ epoll_wait \/ snapshot \/ poll \/ Collect
    \/ Notify(Poller, IF Connecting = {} THEN "seen" ELSE "finishConnect")
Next ==
    \/ PollerStep \/ PollTimesOut \/ RemoveRegistration \/ AddRegistration
    \/ \E d \in Directions : Arrive(d)
    \/ PeerEnds({"R"}) \/ PeerEnds(Directions)
    \/ \E p \in Users :
         Step(p) \/ DeadlinePasses(p) \/ ForcedUnwind(p) \/ RequestStop(p)
         \/ Begin(p) \/ try_now(p) \/ startConnect(p)

-----------------------------------------------------------------------------
Waiting(p) == th[p].pc \in {"block", "queued"}

\* Nobody waits for what is already there: if the transfer could go ahead, a
\* report is on its way through the kernel, the poller or the wake-up.
ReadinessNotMissed ==
    \A p \in Users : Waiting(p) /\ Dir(p) \in ReadyNow =>
        \/ th[p].satisfied \/ InChain(p)
        \/ /\ obj.waker[Dir(p)] = p
           /\ \/ obj.edge
              \/ th[Poller].pc = "collect" /\ Dir(p) \in th[Poller].mask
              \/ /\ Dir(p) \in obj.armed
                 /\ \/ th[Poller].pc # "polling" \/ obj.poke
                    \/ Dir(p) \in th[Poller].mask
              
\* A transfer is skipped as exhausted only while the kernel has nothing for
\* it, or the report that ends the wait is on its way.
ExhaustedIsTrue ==
    obj.table => \A d \in obj.exhausted : d \in ReadyNow /\ obj.exhaustedAt[d] = obj.events[d] =>
        d \in obj.closed \/ obj.edge \/ (th[Poller].pc = "collect" /\ d \in th[Poller].mask)

\* The registration keeps a waker only while its owner waits for it, and the
\* poller calls back no operation that has gone on.
WakerAlive ==
    /\ \A d \in Directions : obj.waker[d] # NoOne =>
          th[obj.waker[d]].pc \in {"queued", "arm", "poke", "look", "block", "detach", "unwind"}
    /\ \A p \in Ops : InChain(p) => th[p].pc = "queued"

\* connect() succeeds only once the handshake has ended, and not in failure.
ConnectedMeansConnected ==
    \A p \in Connecting : th[p].result = "value" => obj.level["W"] > 0
=============================================================================
