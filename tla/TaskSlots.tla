----------------------------- MODULE TaskSlots -----------------------------
(***************************************************************************)
(* The slots of a scheduler's tasks: the global free list, the LIFO cache  *)
(* each worker keeps in front of it, the counters of created and finished  *)
(* tasks that liveTasks() sums, and what spawn(), the end of a task and    *)
(* stop() do with them.  The free list is an atomic queue here; a section  *)
(* under a SlotCacheGuard is one step.                                     *)
(***************************************************************************)
EXTENDS Naturals, Sequences, FiniteSets, SequencesExt

CONSTANTS Teams,      \* each: a sequence, the order of `workers`, and the threads that are
                      \* not workers, which share foreignCreated and foreignFinished
          Slots, kBatch, kCapacity, MaxSpawns

VARIABLES obj, th

NoSlot == 0
Workers == obj.team.workers
Foreign == obj.team.foreign
Parties == Range(Workers) \cup Foreign
Resting == [pc |-> "idle", slot |-> NoSlot, next |-> 0, finished |-> 0, created |-> 0,
            after |-> "idle", since |-> {}]
At(p, pc) == obj.is = "Slots" /\ th[p].pc = pc
Go(p, pc) == th' = [th EXCEPT ![p] = [Resting EXCEPT !.pc = pc]]
IsWorker(p) == p \in Range(Workers)
Me(p) == IF IsWorker(p) THEN p ELSE "foreign"
Counter(i) == IF i = 0 THEN "foreign" ELSE Workers[i]

Init ==
    \E team \in Teams : LET workers == Range(team.workers) IN
        /\ obj = [is |-> "Slots", team |-> team, freeSlots |-> SetToSeq(Slots), tasks |-> {},
                  stopping |-> FALSE, cache |-> [w \in workers |-> <<>>], told |-> TRUE,
                  spawns |-> 0, created |-> [c \in workers \cup {"foreign"} |-> 0],
                  finished |-> [c \in workers \cup {"foreign"} |-> 0]]
        /\ th = [p \in workers \cup team.foreign |-> Resting]

-----------------------------------------------------------------------------
(* acquireSlot(), tryAcquireSlot(), releaseSlot().                         *)

Take(p, slot) == th' = [th EXCEPT ![p] = [Resting EXCEPT !.pc = "acquired", !.slot = slot]]

Spawn(p) ==
    /\ At(p, "idle") /\ ~obj.stopping /\ obj.spawns < MaxSpawns
    /\ obj' = [obj EXCEPT !.spawns = @ + 1]
    /\ Go(p, "try")
AskPeers(p) == th' = [th EXCEPT ![p].pc = "peers", ![p].next = 1]
TryOwn(p) ==
    LET refill == IF obj.cache[p] # <<>> THEN 0
                  ELSE IF kBatch < Len(obj.freeSlots) THEN kBatch ELSE Len(obj.freeSlots)
        full == obj.cache[p] \o SubSeq(obj.freeSlots, 1, refill)
    IN  /\ At(p, "try") /\ IsWorker(p)
        /\ IF full = <<>> THEN AskPeers(p) /\ UNCHANGED obj
           ELSE /\ Take(p, Last(full))
                /\ obj' = [obj EXCEPT !.cache[p] = Front(full),
                                      !.freeSlots = SubSeq(@, refill + 1, Len(@))]
PopFree(p) == Take(p, Head(obj.freeSlots)) /\ obj' = [obj EXCEPT !.freeSlots = Tail(@)]
TryGlobal(p) ==
    /\ At(p, "try") /\ ~IsWorker(p)
    /\ IF obj.freeSlots = <<>> THEN AskPeers(p) /\ UNCHANGED obj ELSE PopFree(p)
TryPeer(p) ==
    /\ At(p, "peers") /\ th[p].next <= Len(Workers)
    /\ LET w == Workers[th[p].next]
       IN  IF w = p \/ obj.cache[w] = <<>>
           THEN th' = [th EXCEPT ![p].next = @ + 1] /\ UNCHANGED obj
           ELSE Take(p, Last(obj.cache[w])) /\ obj' = [obj EXCEPT !.cache[w] = Front(@)]
\* liveTasks() is read from here on; `since` are the tasks alive all along.
Scan(p, after) ==
    th' = [th EXCEPT ![p] = [Resting EXCEPT !.pc = "first", !.after = after, !.since = obj.tasks]]
TryAgain(p) ==
    /\ At(p, "peers") /\ th[p].next > Len(Workers)
    /\ IF obj.freeSlots = <<>> THEN Scan(p, "decide") /\ UNCHANGED obj ELSE PopFree(p)
Decide(p) ==
    /\ At(p, "decide")
    /\ Go(p, IF th[p].created - th[p].finished >= Cardinality(Slots) THEN "idle" ELSE "try")
    /\ UNCHANGED obj

\* Mutant: the batch stays in the cache when it goes to the free list.
KeepsTheBatch(p, slot) ==
    IF ~IsWorker(p) THEN [obj EXCEPT !.freeSlots = Append(@, slot)]
    ELSE IF Len(obj.cache[p]) < kCapacity THEN [obj EXCEPT !.cache[p] = Append(@, slot)]
    ELSE [obj EXCEPT !.freeSlots = @ \o SubSeq(obj.cache[p], 1, kBatch),
                     !.cache[p] = Append(SubSeq(@, kBatch, Len(@)), slot)]
releaseSlot(p, slot) ==
    IF ~IsWorker(p) THEN [obj EXCEPT !.freeSlots = Append(@, slot)]
    ELSE IF Len(obj.cache[p]) < kCapacity THEN [obj EXCEPT !.cache[p] = Append(@, slot)]
    ELSE [obj EXCEPT !.freeSlots = @ \o SubSeq(obj.cache[p], 1, kBatch),
                     !.cache[p] = Append(SubSeq(@, kBatch + 1, Len(@)), slot)]

-----------------------------------------------------------------------------
(* createTask() from its slot on; releaseTask(); liveTasks().              *)

Create(p) ==
    /\ At(p, "acquired")
    /\ obj' = [obj EXCEPT !.tasks = @ \cup {th[p].slot}, !.created[Me(p)] = @ + 1]
    /\ Go(p, "idle")
\* No stack for it: SlotReleaseGuard hands the slot back.
CreateFails(p) ==
    /\ At(p, "acquired")
    /\ obj' = releaseSlot(p, th[p].slot)
    /\ Go(p, "idle")

Finish(p, slot) ==
    /\ At(p, "idle") /\ IsWorker(p) /\ slot \in obj.tasks
    /\ obj' = [obj EXCEPT !.tasks = @ \ {slot}, !.finished[Me(p)] = @ + 1,
                          !.told = @ /\ ~obj.stopping]
    /\ th' = [q \in Parties |-> IF q = p THEN [th[q] EXCEPT !.pc = "release", !.slot = slot]
                                ELSE [th[q] EXCEPT !.since = @ \ {slot}]]
Release(p) ==
    /\ At(p, "release")
    /\ obj' = releaseSlot(p, th[p].slot)
    /\ Go(p, "lastOne")
LookStopping(p) ==
    /\ At(p, "lastOne")
    /\ IF obj.stopping THEN Scan(p, "tell") ELSE Go(p, "idle")
    /\ UNCHANGED obj
Tell(p) ==
    /\ At(p, "tell")
    /\ obj' = [obj EXCEPT !.told = @ \/ th[p].created = th[p].finished]
    /\ Go(p, "idle")

\* One pass over the counters, one counter at a time.
Load(p, pass, counters, then) ==
    /\ At(p, pass)
    /\ th' = [th EXCEPT ![p].next = IF @ = Len(Workers) THEN 0 ELSE @ + 1,
                        ![p].pc = IF th[p].next = Len(Workers) THEN then ELSE pass,
                        ![p][counters] = @ + obj[counters][Counter(th[p].next)]]
    /\ UNCHANGED obj
\* Mutant: sums the created ones first.
ScanCreatedFirst(p) ==
    Load(p, "first", "created", "second") \/ Load(p, "second", "finished", th[p].after)
\* The finished ones first.
liveTasks(p) ==
    Load(p, "first", "finished", "second") \/ Load(p, "second", "created", th[p].after)

RequestStop == obj.is = "Slots" /\ ~obj.stopping /\ obj' = [obj EXCEPT !.stopping = TRUE] /\ UNCHANGED th
\* The end of a worker's loop: nothing found, stopping, no task left.
TryExit(p) ==
    /\ At(p, "idle") /\ IsWorker(p) /\ obj.stopping
    /\ Scan(p, "exit") /\ UNCHANGED obj
Exit(p) ==
    /\ At(p, "exit")
    /\ Go(p, IF th[p].created = th[p].finished THEN "exited" ELSE "idle")
    /\ UNCHANGED obj

Step(p) ==
    \/ TryOwn(p) \/ TryGlobal(p) \/ TryPeer(p) \/ TryAgain(p) \/ Decide(p) \/ Create(p)
    \/ CreateFails(p) \/ Release(p) \/ LookStopping(p) \/ Tell(p) \/ liveTasks(p) \/ Exit(p)
Next ==
    \/ RequestStop
    \/ \E p \in Parties : Spawn(p) \/ TryExit(p) \/ Step(p) \/ \E s \in Slots : Finish(p, s)

-----------------------------------------------------------------------------
\* Every slot is in one place: the free list, one cache, one live task or one
\* thread that creates or releases a task.  None is lost by a refill, a
\* hand-back or a raid on another worker's cache, and none is given out twice.
InFree(s) == {i \in DOMAIN obj.freeSlots : obj.freeSlots[i] = s}
InCaches(s) == UNION {{<<w, i>> : i \in {j \in DOMAIN obj.cache[w] : obj.cache[w][j] = s}} :
                      w \in Range(Workers)}
SlotInOnePlace ==
    \A s \in Slots :
        Cardinality(InFree(s)) + Cardinality(InCaches(s)) + Cardinality(obj.tasks \cap {s})
          + Cardinality({p \in Parties : th[p].slot = s}) = 1

\* liveTasks() "can only overcount, never report zero while a task lives": it
\* counts every task that lived from its first load to its last.
ScanNeverUndercounts ==
    \A p \in Parties : th[p].pc \in {"decide", "tell", "exit"} =>
        th[p].created >= th[p].finished + Cardinality(th[p].since)

\* ~SchedulerCore(): "Everything else is gone once the workers have exited".
\* No worker leaves a task behind that another task spawned.  A thread that is
\* no worker may be between its look at `stopping` and its task.
NoneLeftBehind ==
    Foreign = {} /\ (\A w \in Range(Workers) : th[w].pc = "exited") => obj.tasks = {}

\* The last task to finish after stop() tells the workers, who may be asleep:
\* of finishers that count each other's task, one sees that none is left.
LastFinisherTells ==
    obj.stopping /\ obj.tasks = {} /\ (\A p \in Parties : th[p].pc \in {"idle", "exited"})
        => obj.told
=============================================================================
