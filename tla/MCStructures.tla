---------------------------- MODULE MCStructures ----------------------------
(***************************************************************************)
(* Small instances of what workers, the poller and other threads share,    *)
(* for TLC: w1, w2 and w3 are threads (w1 a task, where it is unwound), o1 *)
(* is an operation of stackfull::exec.  A behaviour is one of one          *)
(* instance, the one obj.is names.  The instances that StructuresProofs is *)
(* about have constants for parameters, which the configuration fixes.     *)
(***************************************************************************)
EXTENDS Structures, TLC

CONSTANTS w3, o1, n1, n2,
          Io                     \* of each descriptor: who uses it, and how

\* The futex under Waiter::wait() and JoinHandle::join().
PlainParker == INSTANCE Parker WITH Parked <- w1, Backends <- {"futex"}, PlainLook <- TRUE
M == INSTANCE MpscQueue WITH Producers <- {w2, w3}, Consumer <- w1, Nodes <- {n1, n2},
         Stub <- "stub", NoNode <- NoOne, MaxPushes <- 5
\* Two thieves that meet; one thief, and the ring more than once around.
B == INSTANCE BwosQueue WITH Kind <- "Bwos", Owner <- w1, Thieves <- {w2, w3},
         NumBlocks <- 2, EntriesPerBlock <- 2, Word <- 1024, MaxItems <- 5
B2 == INSTANCE BwosQueue WITH Kind <- "Bwos2", Owner <- w1, Thieves <- {w2},
         NumBlocks <- 2, EntriesPerBlock <- 2, Word <- 1024, MaxItems <- 9
Q == INSTANCE BbqQueue WITH Kind <- "Bbq", Producers <- {w2, w3}, Consumers <- {w1},
         NumBlocks <- 2, BlockSize <- 2, IndexBase <- 8, Word <- 1024, MaxItems <- 5
Q2 == INSTANCE BbqQueue WITH Kind <- "Bbq2", Producers <- {w2}, Consumers <- {w1, w3},
         NumBlocks <- 2, BlockSize <- 2, IndexBase <- 8, Word <- 1024, MaxItems <- 5
R == INSTANCE RingQueue WITH Owner <- w1, Thieves <- {w2}, Capacity <- 4, MaxItems <- 6
K == INSTANCE StackPool WITH Threads <- {w1, w2}, Reservers <- {w1}, SizeOf <- <<1, 1, 2>>,
         kMaxSizeClasses <- 1, kReserveBatch <- 2, Attempts <- 1, SharedCapacity <- 1,
         maxCachedStacks <- 1, maxCachedBytes <- 2, MaxReserve <- 2

\* Registration, with what RegistrationProofs shows of it: of a socket, and of a
\* descriptor whose number is used again.
I == INSTANCE RegistrationProofs WITH Kind <- "Socket", Reused <- FALSE, Streams <- {TRUE},
         Connecting <- {}, Poller <- Io.Socket.poller, Tasks <- Io.Socket.tasks,
         Threads <- Io.Socket.threads, Ops <- Io.Socket.ops, Whole <- Io.Socket.whole,
         DirectionOf <- Io.Socket.direction, MaxArrivals <- Io.Socket.arrivals,
         MaxTransfers <- Io.Socket.transfers
D == INSTANCE RegistrationProofs WITH Kind <- "Descriptor", Reused <- TRUE, Streams <- BOOLEAN,
         Connecting <- {}, Poller <- Io.Descriptor.poller, Tasks <- Io.Descriptor.tasks,
         Threads <- Io.Descriptor.threads, Ops <- Io.Descriptor.ops, Whole <- Io.Descriptor.whole,
         DirectionOf <- Io.Descriptor.direction, MaxArrivals <- Io.Descriptor.arrivals,
         MaxTransfers <- Io.Descriptor.transfers
\* Two sockets that are not connected yet.
Y == INSTANCE RegistrationProofs WITH Kind <- "Connect", Reused <- FALSE, Streams <- {TRUE},
         Connecting <- DOMAIN Io.Connect.direction, Poller <- Io.Connect.poller,
         Tasks <- Io.Connect.tasks, Threads <- Io.Connect.threads, Ops <- Io.Connect.ops,
         Whole <- {}, DirectionOf <- Io.Connect.direction, MaxArrivals <- Io.Connect.arrivals,
         MaxTransfers <- Io.Connect.transfers
Y2 == INSTANCE RegistrationProofs WITH Kind <- "Connect2", Reused <- FALSE, Streams <- {TRUE},
         Connecting <- DOMAIN Io.Connect2.direction, Poller <- Io.Connect2.poller,
         Tasks <- Io.Connect2.tasks, Threads <- Io.Connect2.threads, Ops <- Io.Connect2.ops,
         Whole <- {}, DirectionOf <- Io.Connect2.direction, MaxArrivals <- Io.Connect2.arrivals,
         MaxTransfers <- Io.Connect2.transfers

ASSUME RolesAreTheirs == I!Roles /\ D!Roles /\ Y!Roles /\ Y2!Roles

\* Two workers that spawn from their tasks; one worker beside a foreign thread.
SmallTeams == {[workers |-> <<w1, w2>>, foreign |-> {}], [workers |-> <<w1>>, foreign |-> {w2}]}
\* w3 polls.  An operation reads a socket that a thread writes to; a task reads
\* a descriptor; a task connects a socket, an operation another.
SmallIo ==
    [Socket |-> [poller |-> w3, tasks |-> {}, threads |-> {w1, w3}, ops |-> {o1},
                 direction |-> w1 :> "W" @@ o1 :> "R", whole |-> {o1},
                 arrivals |-> 2, transfers |-> 2],
     Descriptor |-> [poller |-> w3, tasks |-> {w1}, threads |-> {w3}, ops |-> {},
                     direction |-> w1 :> "R", whole |-> {w1}, arrivals |-> 2, transfers |-> 3],
     Connect |-> [poller |-> w3, tasks |-> {w1}, threads |-> {w3}, ops |-> {},
                  direction |-> w1 :> "W", arrivals |-> 2, transfers |-> 3],
     Connect2 |-> [poller |-> w3, tasks |-> {}, threads |-> {w3}, ops |-> {o1},
                   direction |-> o1 :> "W", arrivals |-> 2, transfers |-> 3]]

Is(kind) == obj.is = kind

Init ==
    \/ J!Init /\ Is("Join")
    \/ P!Init /\ Is("Parker")
    \/ M!Init /\ Is("Mpsc")
    \/ B!Init /\ Is("Bwos")
    \/ B2!Init /\ Is("Bwos2")
    \/ Q!Init /\ Is("Bbq")
    \/ Q2!Init /\ Is("Bbq2")
    \/ R!Init /\ Is("Ring")
    \/ S!Init /\ Is("Slots")
    \/ K!Init /\ Is("Stacks")
    \/ I!Init /\ Is("Socket")
    \/ D!Init /\ Is("Descriptor")
    \/ Y!Init /\ Is("Connect")
    \/ Y2!Init /\ Is("Connect2")
    \/ X!Init /\ Is("ExecTask")
    \/ N!Init /\ Is("Blocking")
    \/ O!Init /\ Is("Coroutine")
Next ==
    /\ \/ Is("Join") /\ J!Next
       \/ Is("Parker") /\ P!Next
       \/ Is("Mpsc") /\ M!Next
       \/ Is("Bwos") /\ B!Next
       \/ Is("Bwos2") /\ B2!Next
       \/ Is("Bbq") /\ Q!Next
       \/ Is("Bbq2") /\ Q2!Next
       \/ Is("Ring") /\ R!Next
       \/ Is("Slots") /\ S!Next
       \/ Is("Stacks") /\ K!Next
       \/ Is("Socket") /\ I!Next
       \/ Is("Descriptor") /\ D!Next
       \/ Is("Connect") /\ Y!Next
       \/ Is("Connect2") /\ Y2!Next
       \/ Is("ExecTask") /\ X!Next
       \/ Is("Blocking") /\ N!Next
       \/ Is("Coroutine") /\ O!Next
    /\ obj'.is = obj.is
Spec == Init /\ [][Next]_<<obj, th>>

\* The Parker alone, with callers that look with plain loads.
PlainParkerSpec == PlainParker!Init /\ [][PlainParker!Next]_<<obj, th>>

-----------------------------------------------------------------------------
\* JoinHandle, exec::wait(), blocking(): a joiner does not sleep once the task
\* is done; a wait in a task sleeps through no completion and passes every
\* stop on; no job waits behind another that is running.
NoneSleepsThrough ==
    /\ Is("Join") => J!JoinNotMissed
    /\ Is("ExecTask") => X!WaitHears
    /\ Is("Blocking") => N!JobNotStranded

\* Parker: no unpark() is swallowed by the return of an earlier park().
NoUnparkLost == Is("Parker") => P!NoUnparkLost

\* MpscQueue, BbqQueue: items leave in the order of their places, each once;
\* with no push under way everything in the inbox can be reached.
FirstInFirstOut ==
    /\ Is("Mpsc") => M!PopsInOrder /\ M!NothingCutOff
    /\ Is("Bbq") => Q!FirstInFirstOut
    /\ Is("Bbq2") => Q2!FirstInFirstOut

\* BwosQueue, RingQueue: owner or thief, whoever claims an entry copies the
\* item put there for it, and every item leaves the queue once.  Pooled stacks:
\* each is in one place, none lost and none given out twice; the caches' counts
\* are those of their lists, within the limits, and in the end upstream has
\* every stack back.
EachItemOnce ==
    /\ Is("Bwos") => B!CopiesItsClaim /\ B!EachItemOnce
    /\ Is("Bwos2") => B2!CopiesItsClaim /\ B2!EachItemOnce
    /\ Is("Ring") => R!TakesWhatItClaims /\ R!RingHoldsTheRest
    /\ Is("Stacks") => K!StackInOnePlace /\ K!CacheAccounted /\ K!AllGivenBack

\* BwosQueue, BbqQueue: what a queue at rest says of itself is true - not empty
\* beside an item, room that push() will find, not full beside a free block.
AnswersAreTrue ==
    /\ Is("Bwos") => B!NoFalseNegative /\ B!RoomIsGuaranteed /\ B!NeverWedged
    /\ Is("Bwos2") => B2!NoFalseNegative /\ B2!RoomIsGuaranteed /\ B2!NeverWedged
    /\ Is("Bbq") => Q!ProbeIsRight /\ Q!FullMeansFull
    /\ Is("Bbq2") => Q2!ProbeIsRight /\ Q2!FullMeansFull

\* Task slots: each is in one place, none is lost and none given out twice.
SlotsInOnePlace == Is("Slots") => S!SlotInOnePlace

\* liveTasks() counts every task that lived through the count; after stop() the
\* last task to finish tells the workers, and workers that have left leave no
\* task behind that a task spawned.
LiveTasksCounted ==
    /\ Is("Slots") => S!ScanNeverUndercounts /\ S!LastFinisherTells /\ S!NoneLeftBehind

\* Registration, pollers: nobody waits for readiness that nobody will report,
\* and a transfer skipped as exhausted would have moved nothing.
ReadinessNotMissed ==
    /\ Is("Socket") => I!ReadinessNotMissed /\ I!ExhaustedIsTrue
    /\ Is("Descriptor") => D!ReadinessNotMissed /\ D!ExhaustedIsTrue
    /\ Is("Connect") => Y!ReadinessNotMissed
    /\ Is("Connect2") => Y2!ReadinessNotMissed

\* Registration: its wakers belong to parties that wait, and an operation that
\* still waits after its stop request was handled is about to be called back.
WakerAlive ==
    /\ Is("Socket") => I!WakerAlive /\ I!StopNotForgotten
    /\ Is("Descriptor") => D!WakerAlive
    /\ Is("Connect") => Y!WakerAlive
    /\ Is("Connect2") => Y2!WakerAlive /\ Y2!StopNotForgotten

\* What callers are told is true: join() returns after the end of the task and
\* with its exception; connect() succeeds only once the handshake has ended;
\* the receiver of exec::spawn or schedule() is called once, however it ends.
OutcomeIsTrue ==
    /\ Is("Join") => J!JoinSeesOutcome
    /\ Is("Connect") => Y!ConnectedMeansConnected
    /\ Is("Connect2") => Y2!ConnectedMeansConnected
    /\ Is("ExecTask") => X!ReceiverHearsOnce

\* exec::spawn, exec::wait(), exec/io, coroutines: nothing reaches into what has
\* been destroyed, and nothing is freed that somebody uses.
DeadUntouched ==
    /\ Is("ExecTask") => X!DeadUntouched
    /\ Is("Socket") => I!NothingAfterDone
    /\ Is("Connect2") => Y2!NothingAfterDone
    /\ Is("Coroutine") => O!FreedIsSpent

\* Coroutine: a thread knows what it runs, and that the thread it runs on;
\* whoever resumed a coroutine waits for it.
ResumersWait == Is("Coroutine") => O!ThreadKnowsItsContext /\ O!ResumersWait
=============================================================================
