-------------------------- MODULE RegistrationProofs --------------------------
(***************************************************************************)
(* Theorems about the registration of a descriptor, for every set of       *)
(* tasks, threads and operations that wait on it and every bound on        *)
(* arrivals and transfers: nobody waits for readiness that nobody will     *)
(* report, and wakers belong to whoever waits.                             *)
(***************************************************************************)
EXTENDS Registration, FiniteSetTheorems, TLAPS

ObjType ==
    obj \in [is : {Kind}, backend : {"epoll", "poll"}, stream : BOOLEAN, table : BOOLEAN,
             hand : {"over", "unconnected", "inProgress"}, level : [Directions -> Nat],
             arrivals : Nat, begun : Nat, ended : SUBSET Directions, edge : BOOLEAN,
             armed : SUBSET Directions, poke : BOOLEAN, events : [Directions -> Nat],
             waker : [Directions -> Users \cup {NoOne}], closed : SUBSET Directions,
             exhausted : SUBSET Directions, exhaustedAt : [Directions -> Nat]]
Pcs == {"idle", "seen", "call", "register", "finishConnect", "listen", "drive", "poke", "watch",
        "queued", "finish", "done", "enqueue", "arm", "look", "block", "detach", "unwind", "gone",
        "polling", "collect", "notify"}
Stops == {"quiet", "requested", "listening", "running", "over"}
Results == {"none", "value", "error", "stopped"}
Doing == [pc : Pcs, satisfied : BOOLEAN, cancelled : BOOLEAN, stop : Stops, chain : Seq(Users),
          result : Results, seen : Nat, left : Nat,
          mask : SUBSET Directions, shut : SUBSET Directions]
ThType == th \in [Parties -> Doing]
Chain == th[Poller].chain
\* Only the poller notifies, and each waker of its chain once.
PollerPc ==
    /\ th[Poller].pc \in {"idle", "polling", "collect", "notify"}
    /\ th[Poller].pc = "polling" => ~everyArrivalReported
    /\ th[Poller].pc = "notify" <=> Chain # <<>>
    /\ \A i, j \in 1 .. Len(Chain) : Chain[i] = Chain[j] => i = j
Type == ObjType /\ ThType /\ PollerPc

\* One transfer per direction.
Transferring(p) == th[p].pc \notin {"idle", "finish", "done", "gone"}
OnePerDirection ==
    \A p, q \in Users : Transferring(p) /\ Transferring(q) /\ Dir(p) = Dir(q) => p = q
\* Nothing is reported of a socket that nobody has connected yet.
HandInv ==
    /\ Connecting = {} => obj.hand = "over"
    /\ obj.hand = "unconnected" => ~obj.table /\ ~obj.edge /\ th[Poller].mask = {}
WakersTyped == \A d \in Directions : obj.waker[d] # NoOne => Dir(obj.waker[d]) = d

\* A report is on its way through the kernel or the poller.
Reported(d) == obj.edge \/ (th[Poller].pc = "collect" /\ d \in th[Poller].mask)
\* epoll: what is over is known to be, or reported.
EndsReported ==
    everyArrivalReported /\ obj.table => \A d \in obj.ended :
        d \in obj.closed \/ obj.edge
        \/ (th[Poller].pc = "collect" /\ d \in th[Poller].mask /\ d \in th[Poller].shut)
\* What was exhausted at the latest report is still, or the end of that is
\* known or reported.
Exhaustion ==
    /\ ~everyArrivalReported => obj.exhausted = {}
    /\ \A d \in Directions : obj.exhaustedAt[d] <= obj.events[d]
    /\ ExhaustedIsTrue
\* "Writable" is reported only of a handshake that has ended.
HandshakeOver == obj.level["W"] > 0 \/ obj.ended = Directions
HandshakeReported ==
    /\ "W" \in obj.ended => obj.ended = Directions
    /\ Connecting # {} =>
          /\ obj.events["W"] > 0 => HandshakeOver
          /\ th[Poller].pc = "collect" /\ "W" \in th[Poller].mask => HandshakeOver
Global ==
    OnePerDirection /\ HandInv /\ WakersTyped /\ EndsReported /\ Exhaustion /\ HandshakeReported

(* Of one party.                                                           *)

UpToDate(p) == th[p].seen = obj.events[Dir(p)]
Taken(p) == \E i \in 1 .. Len(Chain) : Chain[i] = p
PcMatches(p) ==
    /\ th[p].chain = <<>>
    /\ th[p].pc \notin IF p \in Ops
                       THEN {"enqueue", "arm", "look", "block", "detach", "unwind", "gone"}
                       ELSE {"listen", "drive", "watch", "queued", "finish", "done"}
    /\ th[p].pc \in {"arm", "poke", "watch"} => ~everyArrivalReported
Registered(p) ==
    Transferring(p) => /\ obj.hand # "unconnected"
                       /\ IF th[p].pc = "register" THEN Connecting # {} ELSE obj.table
\* Its waker is stored only while it waits, and it has seen every report.
HoldsWaker(p) ==
    obj.waker[Dir(p)] = p =>
        /\ UpToDate(p)
        /\ IF p \in Ops THEN th[p].pc = "queued"
           ELSE th[p].pc \in {"arm", "poke", "look", "block", "detach", "unwind"}
\* Without, it has been reported to, and is told.
IsTold(p) ==
    IF p \in Ops
    THEN /\ Taken(p) => th[p].pc = "queued" /\ obj.waker[Dir(p)] # p
         /\ th[p].pc = "queued" => Taken(p) \/ obj.waker[Dir(p)] = p
    ELSE th[p].pc \in {"arm", "poke", "look", "block"} /\ obj.waker[Dir(p)] # p =>
         ~UpToDate(p) /\ (th[p].pc = "block" => th[p].satisfied \/ Taken(p))
SeenIsPast(p) == Transferring(p) /\ th[p].pc # "seen" => th[p].seen <= obj.events[Dir(p)]
\* epoll: after an attempt that failed an edge is on its way.
Failed == {"enqueue", "listen", "drive", "watch", "arm", "poke", "look", "block", "queued"}
EdgeComes(p) ==
    everyArrivalReported /\ th[p].pc \in Failed /\ UpToDate(p) /\ Dir(p) \in ReadyNow =>
        Reported(Dir(p))
\* poll: once armed the direction stays in the set, and a poll() that sleeps
\* on an older set is woken.
ArmedStays(p) ==
    ~everyArrivalReported /\ UpToDate(p) =>
        /\ th[p].pc \in {"poke", "watch", "look", "block", "queued"} => Dir(p) \in obj.armed
        /\ th[p].pc \in {"watch", "look", "block", "queued"} /\ th[Poller].pc = "polling" =>
              obj.poke \/ Dir(p) \in th[Poller].mask
\* An operation whose stop request was handled bears the mark until its end.
StopMarked(p) ==
    p \in Ops =>
        /\ th[p].stop = "over" /\ th[p].pc \notin {"finish", "done"} => th[p].cancelled
        /\ th[p].pc = "queued" /\ th[p].cancelled => Taken(p)
        /\ th[p].pc \in {"finish", "done"} => th[p].result # "none"
        /\ th[p].pc = "done" => th[p].stop # "running"
Connects(p) ==
    Connecting # {} =>
        /\ th[p].seen = 0 /\ th[p].pc \notin {"seen", "call"}
        /\ Taken(p) \/ th[p].pc = "finishConnect" => HandshakeOver
        /\ th[p].result = "value" => obj.level["W"] > 0
UserInv(p) ==
    /\ PcMatches(p) /\ Registered(p) /\ HoldsWaker(p) /\ IsTold(p) /\ SeenIsPast(p)
    /\ EdgeComes(p) /\ ArmedStays(p) /\ StopMarked(p) /\ Connects(p)

RegInv == Type /\ Global /\ \A p \in Users : UserInv(p)

-----------------------------------------------------------------------------
LEMMA RolesMean ==
    ASSUME Roles
    PROVE  /\ Poller \in Parties /\ Poller \notin Users /\ NoOne \notin Users
           /\ Users \subseteq Parties
           /\ \A p \in Users : (p \in Ops) # (p \in Blocking) /\ Dir(p) \in Directions
           /\ \A p \in Parties : p \in Users \/ p = Poller
  BY DEF Roles, Parties, Users, Blocking, Dir

\* A chain has each waker once, and all of them.
LEMMA ChainOf ==
    ASSUME NEW S, IsFiniteSet(S)
    PROVE  /\ SetToSeq(S) \in Seq(S)
           /\ \A i, j \in 1 .. Len(SetToSeq(S)) : SetToSeq(S)[i] = SetToSeq(S)[j] => i = j
           /\ \A x \in S : \E i \in 1 .. Len(SetToSeq(S)) : SetToSeq(S)[i] = x
<1> DEFINE n == Cardinality(S)
           f == SetToSeq(S)
<1>1. n \in Nat /\ ExistsBijection(1 .. n, S)
  BY FS_CardinalityType
<1>2. PICK g \in [1 .. n -> S] : IsInjective(g)
  BY <1>1 DEF ExistsBijection, Bijection, Injection, IsInjective
<1>3. f \in [1 .. n -> S] /\ IsInjective(f)
  BY <1>2 DEF SetToSeq
<1>4. f \in Injection(1 .. n, S)
  BY <1>3 DEF Injection, IsInjective
<1>5. IsFiniteSet(1 .. n) /\ Cardinality(1 .. n) = n
  BY <1>1, FS_Interval
<1>6. f \in Surjection(1 .. n, S)
  BY <1>1, <1>4, <1>5, FS_Injection
<1>7. f \in Seq(S) /\ Len(f) = n
  BY <1>1, <1>3
<1> QED
  BY <1>3, <1>6, <1>7 DEF Surjection, IsInjective

LEMMA RegInit == ASSUME Roles, Init PROVE RegInv
<1> USE RolesMean
<1>1. ObjType
  BY DEF Init, ObjType, Roles, Directions
<1>2. ThType
  BY DEF Init, ThType, Doing, Stops, Results, Pcs
<1>3. /\ \A p \in Users : th[p].pc = "idle" /\ th[p].stop = "quiet" /\ th[p].chain = <<>>
                          /\ th[p].result = "none" /\ th[p].seen = 0
      /\ th[Poller].mask = {} /\ th[Poller].pc = "idle" /\ Chain = <<>>
  BY DEF Init, Chain
<1>4. /\ obj.table = (Connecting = {}) /\ ~obj.edge /\ obj.ended = {} /\ obj.exhausted = {}
      /\ obj.hand = IF Connecting = {} THEN "over" ELSE "unconnected"
      /\ \A d \in Directions : /\ obj.events[d] = 0 /\ obj.exhaustedAt[d] = 0
                               /\ obj.waker[d] = NoOne
  BY DEF Init
<1>5. PollerPc
  BY <1>3 DEF PollerPc
<1>6. Global
  <2>1. OnePerDirection /\ HandInv /\ WakersTyped
    BY <1>3, <1>4 DEF OnePerDirection, Transferring, HandInv, WakersTyped
  <2>2. EndsReported /\ Exhaustion
    BY <1>4 DEF EndsReported, Exhaustion, ExhaustedIsTrue
  <2>3. HandshakeReported
    BY <1>3, <1>4 DEF HandshakeReported, Directions
  <2> QED
    BY <2>1, <2>2, <2>3 DEF Global
<1>7. ASSUME NEW p \in Users  PROVE UserInv(p)
  <2>1. ~Taken(p)
    BY <1>3 DEF Taken
  <2>2. PcMatches(p) /\ Registered(p) /\ SeenIsPast(p)
    BY <1>3 DEF PcMatches, Registered, Transferring, SeenIsPast
  <2>3. HoldsWaker(p) /\ IsTold(p) /\ StopMarked(p)
    BY <1>3, <1>4, <2>1 DEF HoldsWaker, IsTold, StopMarked
  <2>4. EdgeComes(p)
    BY <1>3 DEF EdgeComes, Failed
  <2>5. ArmedStays(p)
    BY <1>3 DEF ArmedStays
  <2>6. Connects(p)
    BY <1>3, <2>1 DEF Connects
  <2> QED
    BY <2>2, <2>3, <2>4, <2>5, <2>6 DEF UserInv
<1> QED
  BY <1>1, <1>2, <1>5, <1>6, <1>7 DEF RegInv, Type

-----------------------------------------------------------------------------
(* Types.                                                                  *)

\* p alone goes on, as `doing`.
Becomes(p, doing) ==
    /\ th'[p] = doing
    /\ \A q \in Parties \ {p} : th'[q] = th[q]

LEMMA Updated ==
    ASSUME ThType, NEW p \in Parties, NEW doing \in Doing, th' = [th EXCEPT ![p] = doing]
    PROVE  ThType' /\ Becomes(p, doing)
  BY DEF ThType, Becomes

\* The same, field by field.
Others(p) == (\A q \in Parties \ {p} : th'[q] = th[q]) /\ th'[p].chain = th[p].chain
Holds(p) ==
    th'[p].satisfied = th[p].satisfied /\ th'[p].cancelled = th[p].cancelled
    /\ th'[p].stop = th[p].stop
Goes(p, pc) ==
    /\ Others(p) /\ Holds(p)
    /\ th'[p].pc = pc /\ th'[p].result = th[p].result /\ th'[p].seen = th[p].seen
Ends(p, pc, result, seen) ==
    /\ Others(p) /\ Holds(p)
    /\ th'[p].pc = pc /\ th'[p].result = result /\ th'[p].seen = seen

LEMMA GoMeans ==
    ASSUME Roles, ThType, NEW p \in Users, NEW pc \in Pcs, Go(p, pc)
    PROVE  ThType' /\ Goes(p, pc)
<1>1. th' = [th EXCEPT ![p] = [th[p] EXCEPT !.pc = pc]] /\ p \in Parties
  BY RolesMean DEF Go
<1>2. [th[p] EXCEPT !.pc = pc] \in Doing
  BY <1>1 DEF Doing, ThType
<1> QED
  BY <1>1, <1>2, Updated DEF Becomes, ThType, Doing, Goes, Others, Holds

LEMMA ReturnMeans ==
    ASSUME Roles, ThType, NEW p \in Users, NEW result \in Results, Return(p, result)
    PROVE  ThType' /\ Ends(p, IF p \in Ops THEN "finish" ELSE "idle", result, th[p].seen)
<1> DEFINE pc == IF p \in Ops THEN "finish" ELSE "idle"
<1>1. th' = [th EXCEPT ![p] = [th[p] EXCEPT !.pc = pc, !.result = result]] /\ p \in Parties
  BY RolesMean DEF Return
<1>2. pc \in Pcs
  BY DEF Pcs
<1> HIDE DEF pc
<1>3. [th[p] EXCEPT !.pc = pc, !.result = result] \in Doing
  BY <1>1, <1>2 DEF Doing, ThType
<1>4. ThType' /\ Ends(p, pc, result, th[p].seen)
  BY <1>1, <1>3, Updated DEF Becomes, ThType, Doing, Ends, Others, Holds
<1> QED
  BY <1>4 DEF pc

LEMMA LeaveMeans ==
    ASSUME Roles, ThType, NEW p \in Users, NEW pc \in Pcs, NEW result \in Results,
           Leave(p, pc, result)
    PROVE  ThType' /\ Ends(p, pc, result, 0)
<1>1. /\ th' = [th EXCEPT ![p] = [th[p] EXCEPT !.pc = pc, !.seen = 0, !.left = 0,
                                               !.result = result]]
      /\ p \in Parties
  BY RolesMean DEF Leave
<1>2. [th[p] EXCEPT !.pc = pc, !.seen = 0, !.left = 0, !.result = result] \in Doing
  BY <1>1 DEF Doing, ThType
<1> QED
  BY <1>1, <1>2, Updated DEF Becomes, ThType, Doing, Ends, Others, Holds

LEMMA AttemptingMeans ==
    ASSUME Roles, ThType, NEW p \in Users, Attempting(p)
    PROVE  ThType' /\ Goes(p, "seen")
<1> DEFINE left == IF p \in Whole /\ obj.stream THEN Asked ELSE 0
<1>1. th' = [th EXCEPT ![p] = [th[p] EXCEPT !.pc = "seen", !.left = left]] /\ p \in Parties
  BY RolesMean DEF Attempting
<1>2. left \in Nat /\ "seen" \in Pcs
  BY DEF Pcs, Asked
<1> HIDE DEF left
<1>3. [th[p] EXCEPT !.pc = "seen", !.left = left] \in Doing
  BY <1>1, <1>2 DEF Doing, ThType
<1> QED
  BY <1>1, <1>2, <1>3, Updated DEF Becomes, ThType, Doing, Goes, Others, Holds

LEMMA SomePcs ==
    {"idle", "seen", "call", "register", "finishConnect", "listen", "drive", "poke", "watch",
     "queued", "finish", "done", "enqueue", "arm", "look", "block", "detach", "unwind", "gone"}
        \subseteq Pcs
  BY DEF Pcs

LEMMA ReadyTyped == ASSUME ObjType PROVE ReadyNow \in SUBSET Directions
  BY DEF ObjType, ReadyNow

LEMMA EndedTyped == ASSUME ObjType PROVE obj.ended \in SUBSET Directions
  BY DEF ObjType

\* What moves is there, and no more than was asked for.
LEMMA MovedTyped ==
    ASSUME Roles, ObjType, ThType, NEW p \in Users
    PROVE  /\ asked(p) \in Nat /\ moved(p) \in Nat
           /\ moved(p) <= asked(p) /\ moved(p) <= obj.level[Dir(p)]
           /\ moved(p) = asked(p) \/ moved(p) = obj.level[Dir(p)]
<1>1. asked(p) \in Nat
  BY RolesMean DEF asked, Asked, ThType, Doing
<1>2. obj.level[Dir(p)] \in Nat
  BY RolesMean DEF ObjType
<1> QED
  BY <1>1, <1>2 DEF moved

LEMMA StopsTyped ==
    ASSUME Roles, ThType, NEW p \in Users, NEW stop \in Stops, th' = [th EXCEPT ![p].stop = stop]
    PROVE  /\ ThType' /\ Others(p) /\ th'[p].stop = stop /\ th'[p].pc = th[p].pc
           /\ th'[p].satisfied = th[p].satisfied /\ th'[p].cancelled = th[p].cancelled
           /\ th'[p].result = th[p].result /\ th'[p].seen = th[p].seen
<1>1. th' = [th EXCEPT ![p] = [th[p] EXCEPT !.stop = stop]] /\ p \in Parties
  BY RolesMean
<1>2. [th[p] EXCEPT !.stop = stop] \in Doing
  BY ZenonT(40), <1>1 DEF Doing, ThType
<1>3. ThType' /\ Becomes(p, [th[p] EXCEPT !.stop = stop])
  BY <1>1, <1>2, Updated
<1>4. /\ Others(p) /\ th'[p].stop = stop /\ th'[p].pc = th[p].pc
      /\ th'[p].satisfied = th[p].satisfied /\ th'[p].cancelled = th[p].cancelled
      /\ th'[p].result = th[p].result /\ th'[p].seen = th[p].seen
  BY <1>1, <1>3 DEF Becomes, ThType, Doing, Others
<1> QED
  BY <1>3, <1>4

\* collect() takes the wakers of the directions reported, each once.
LEMMA CollectMeans ==
    ASSUME Roles, Type, WakersTyped, Collect
    PROVE  /\ ThType'
           /\ \A q \in Users : th'[q] = th[q]
           /\ th'[Poller].mask = {} /\ th'[Poller].shut = {}
           /\ th'[Poller].pc = IF Chain' = <<>> THEN "idle" ELSE "notify"
           /\ \A i, j \in 1 .. Len(Chain') : Chain'[i] = Chain'[j] => i = j
           /\ \A q \in Users :
                 Taken(q)' <=> /\ obj.table /\ (everyArrivalReported \/ obj.armed # {})
                               /\ Dir(q) \in th[Poller].mask /\ obj.waker[Dir(q)] = q
<1> USE RolesMean DEF Type
<1>1. CASE obj.table /\ (everyArrivalReported \/ obj.armed # {})
  <2> DEFINE taken == {d \in th[Poller].mask : obj.waker[d] # NoOne}
             S == {obj.waker[d] : d \in taken}
             chain == SetToSeq(S)
             pc == IF taken = {} THEN "idle" ELSE "notify"
  <2>1. th' = [th EXCEPT ![Poller] = [th[Poller] EXCEPT !.pc = pc, !.mask = {}, !.shut = {},
                                                        !.chain = chain]]
    BY <1>1 DEF Collect, collect, CollectWith
  <2>2. th[Poller].mask \in SUBSET Directions
    BY DEF ThType, Doing
  <2>3. S \subseteq Users /\ S \subseteq {obj.waker["R"], obj.waker["W"]}
    BY <2>2 DEF ObjType, Directions
  <2>4. IsFiniteSet({obj.waker["R"], obj.waker["W"]})
    <3>1. IsFiniteSet({obj.waker["R"]} \cup {obj.waker["W"]})
      BY FS_Singleton, FS_AddElement
    <3>2. {obj.waker["R"]} \cup {obj.waker["W"]} = {obj.waker["R"], obj.waker["W"]}
      OBVIOUS
    <3> QED
      BY <3>1, <3>2
  <2>5. IsFiniteSet(S)
    BY <2>3, <2>4, FS_Subset
  <2>6. \A q \in Users : q \in S <=> Dir(q) \in th[Poller].mask /\ obj.waker[Dir(q)] = q
    BY <2>2 DEF WakersTyped
  <2>7. S = {} <=> taken = {}
    OBVIOUS
  <2> HIDE DEF S, taken
  <2>8. /\ chain \in Seq(S)
        /\ \A i, j \in 1 .. Len(chain) : chain[i] = chain[j] => i = j
        /\ \A x \in S : \E i \in 1 .. Len(chain) : chain[i] = x
    BY <2>5, ChainOf
  <2> HIDE DEF chain
  <2>9. chain \in Seq(Users) /\ \A i \in 1 .. Len(chain) : chain[i] \in S
    BY <2>3, <2>8
  <2>10. chain = <<>> <=> taken = {}
    BY <2>7, <2>8, <2>9
  <2>11. [th[Poller] EXCEPT !.pc = pc, !.mask = {}, !.shut = {}, !.chain = chain] \in Doing
    <3>1. pc \in Pcs
      BY DEF Pcs
    <3> HIDE DEF pc
    <3> QED
      BY <2>9, <3>1 DEF Doing, ThType
  <2>12. ThType' /\ Becomes(Poller, [th[Poller] EXCEPT !.pc = pc, !.mask = {}, !.shut = {},
                                                       !.chain = chain])
    BY <2>1, <2>11, Updated
  <2>13. /\ th'[Poller].mask = {} /\ th'[Poller].shut = {} /\ th'[Poller].pc = pc
         /\ Chain' = chain /\ \A q \in Users : th'[q] = th[q]
    BY <2>12 DEF Becomes, ThType, Doing, Chain
  <2>14. \A q \in Users : Taken(q)' <=> q \in S
    BY <2>8, <2>9, <2>13 DEF Taken
  <2> QED
    BY <1>1, <2>6, <2>8, <2>10, <2>12, <2>13, <2>14
<1>2. CASE ~(obj.table /\ (everyArrivalReported \/ obj.armed # {}))
  <2>1. th' = [th EXCEPT ![Poller] = [th[Poller] EXCEPT !.pc = "idle", !.mask = {}, !.shut = {}]]
    BY <1>2 DEF Collect
  <2>2. [th[Poller] EXCEPT !.pc = "idle", !.mask = {}, !.shut = {}] \in Doing
    BY SomePcs DEF Doing, ThType
  <2>3. ThType' /\ Becomes(Poller, [th[Poller] EXCEPT !.pc = "idle", !.mask = {}, !.shut = {}])
    BY <2>1, <2>2, Updated
  <2>4. Chain = <<>>
    BY DEF Collect, At, PollerPc
  <2>5. /\ th'[Poller].mask = {} /\ th'[Poller].shut = {} /\ th'[Poller].pc = "idle"
        /\ Chain' = <<>> /\ \A q \in Users : th'[q] = th[q]
    BY <2>3, <2>4 DEF Becomes, ThType, Doing, Chain
  <2> QED
    BY <1>2, <2>3, <2>5 DEF Taken
<1> QED
  BY <1>1, <1>2

\* notify() reaches the first of the chain, who is in it no more.
LEMMA NotifyMeans ==
    ASSUME Roles, Type, NEW to, to \in {"seen", "finishConnect"}, Notify(Poller, to)
    PROVE  /\ ThType' /\ obj' = obj
           /\ th'[Poller].pc = IF Chain' = <<>> THEN "idle" ELSE "notify"
           /\ th'[Poller].mask = th[Poller].mask /\ th'[Poller].shut = th[Poller].shut
           /\ \A i, j \in 1 .. Len(Chain') : Chain'[i] = Chain'[j] => i = j
           /\ \E w \in Users :
                 /\ Taken(w)
                 /\ \A q \in Users : Taken(q)' <=> Taken(q) /\ q # w
                 /\ \A q \in Users \ {w} : th'[q] = th[q]
                 /\ th'[w].satisfied = (w \in Blocking)
                 /\ th'[w].pc = IF w \in Ops THEN to ELSE th[w].pc
                 /\ th'[w].cancelled = th[w].cancelled /\ th'[w].stop = th[w].stop
                 /\ th'[w].chain = th[w].chain /\ th'[w].result = th[w].result
                 /\ th'[w].seen = th[w].seen
<1> USE RolesMean DEF Type
<1> DEFINE w == Head(Chain)
           pc == IF Len(Chain) = 1 THEN "idle" ELSE "notify"
           poller == [th[Poller] EXCEPT !.chain = Tail(Chain), !.pc = pc]
           told == [th[w] EXCEPT !.satisfied = w \in Blocking, !.pc = IF w \in Ops THEN to ELSE @]
<1>1. Chain \in Seq(Users) /\ Chain # <<>> /\ th[Poller].pc = "notify" /\ Poller \notin Ops
  BY DEF Notify, At, PollerPc, ThType, Doing, Chain, Roles, Blocking
<1>2. w \in Users /\ Taken(w) /\ w # Poller
  BY <1>1 DEF Taken
<1>3. Tail(Chain) \in Seq(Users) /\ Len(Tail(Chain)) = Len(Chain) - 1
      /\ \A i \in 1 .. Len(Tail(Chain)) : Tail(Chain)[i] = Chain[i + 1]
  BY <1>1
<1>4. Tail(Chain) = <<>> <=> Len(Chain) = 1
  BY <1>1, <1>3
<1>5. th' = [th EXCEPT ![Poller] = poller, ![w] = told]
  BY <1>1, <1>2 DEF Notify, Chain, At
<1>6. poller \in Doing
  <2>1. pc \in Pcs
    BY DEF Pcs
  <2>2. PICK tail \in Seq(Users) : tail = Tail(Chain)
    BY <1>3
  <2>3. th[Poller] \in Doing
    BY DEF ThType
  <2> HIDE DEF pc
  <2>4. [th[Poller] EXCEPT !.chain = tail, !.pc = pc] \in Doing
    BY <2>1, <2>3 DEF Doing
  <2> QED
    BY <2>2, <2>4
<1>7. told \in Doing
  <2>1. to \in Pcs /\ (w \in Blocking) \in BOOLEAN
    BY DEF Pcs
  <2>2. th[w] \in Doing
    BY <1>2 DEF ThType
  <2> HIDE DEF w
  <2>3. CASE w \in Ops
    <3>1. told = [th[w] EXCEPT !.satisfied = w \in Blocking, !.pc = to]
      BY <2>3
    <3> QED
      BY <2>1, <2>2, <3>1 DEF Doing
  <2>4. CASE w \notin Ops
    <3>1. told = [th[w] EXCEPT !.satisfied = w \in Blocking, !.pc = th[w].pc]
      BY <2>4
    <3>2. th[w].pc \in Pcs
      BY <2>2 DEF Doing
    <3> QED
      BY <2>1, <2>2, <3>1, <3>2 DEF Doing
  <2> QED
    BY <2>3, <2>4
<1>8. /\ th'[Poller] = poller /\ th'[w] = told
      /\ \A q \in Users \ {w} : th'[q] = th[q]
      /\ ThType'
  <2> HIDE DEF poller, told, w
  <2> QED
    BY <1>2, <1>5, <1>6, <1>7 DEF ThType
<1>9. /\ Chain' = Tail(Chain) /\ th'[Poller].pc = pc
      /\ th'[Poller].mask = th[Poller].mask /\ th'[Poller].shut = th[Poller].shut
  BY <1>8 DEF ThType, Doing, Chain
<1>10. ASSUME NEW q \in Users  PROVE Taken(q)' <=> Taken(q) /\ q # w
  <2>0. w = Chain[1] /\ Len(Chain) \in Nat \ {0} /\ Len(Chain') = Len(Chain) - 1
    BY <1>1, <1>3, <1>9
  <2>1. ASSUME NEW i \in 1 .. Len(Chain'), Chain'[i] = q  PROVE Taken(q) /\ q # w
    <3>1. i + 1 \in 1 .. Len(Chain) /\ 1 \in 1 .. Len(Chain) /\ Chain[i + 1] = q /\ i + 1 # 1
      BY <2>0, <2>1, <1>3, <1>9
    <3>2. Chain[i + 1] # Chain[1]
      BY <3>1 DEF PollerPc
    <3> QED
      BY <2>0, <3>1, <3>2 DEF Taken
  <2>2. ASSUME NEW i \in 1 .. Len(Chain), Chain[i] = q, q # w  PROVE Taken(q)'
    <3>1. i - 1 \in 1 .. Len(Chain') /\ (i - 1) + 1 = i
      BY <2>0, <2>2
    <3>2. Chain'[i - 1] = q
      BY <2>2, <3>1, <1>3, <1>9
    <3> QED
      BY <3>1, <3>2 DEF Taken
  <2> QED
    BY <2>1, <2>2 DEF Taken
<1>11. \A i, j \in 1 .. Len(Chain') : Chain'[i] = Chain'[j] => i = j
  BY <1>1, <1>3, <1>9 DEF PollerPc
<1>12. /\ th'[w].satisfied = (w \in Blocking)
       /\ th'[w].pc = IF w \in Ops THEN to ELSE th[w].pc
       /\ th'[w].cancelled = th[w].cancelled /\ th'[w].stop = th[w].stop
       /\ th'[w].chain = th[w].chain /\ th'[w].result = th[w].result
       /\ th'[w].seen = th[w].seen
  <2>1. th[w] \in Doing
    BY <1>2 DEF ThType
  <2> HIDE DEF w
  <2> QED
    BY <1>8, <2>1 DEF Doing
<1> HIDE DEF w
<1>13. obj' = obj
  BY DEF Notify
<1> QED
  BY <1>2, <1>4, <1>8, <1>9, <1>10, <1>11, <1>12, <1>13

\* on_stop of an operation: out of the registration, or marked.
LEMMA UnwatchMeans ==
    ASSUME Roles, ThType, NEW p \in Users, unwatch(p)
    PROVE  /\ ThType' /\ p \in Ops /\ th[p].stop = "running"
           /\ obj' = IF obj.waker[Dir(p)] = p THEN [obj EXCEPT !.waker[Dir(p)] = NoOne] ELSE obj
           /\ IF obj.waker[Dir(p)] = p
              THEN th'[p].cancelled = th[p].cancelled /\ th'[p].pc = "finish"
                   /\ th'[p].result = "stopped"
              ELSE th'[p].cancelled /\ th'[p].pc = th[p].pc /\ th'[p].result = th[p].result
           /\ Others(p) /\ th'[p].stop = "over"
           /\ th'[p].satisfied = th[p].satisfied /\ th'[p].seen = th[p].seen
<1> USE RolesMean
<1>1. CASE obj.waker[Dir(p)] = p
  <2>1. th' = [th EXCEPT ![p] = [th[p] EXCEPT !.stop = "over", !.pc = "finish",
                                              !.result = "stopped"]]
    BY <1>1 DEF unwatch
  <2>2. "over" \in Stops /\ "stopped" \in Results
    BY DEF Stops, Results
  <2>3. [th[p] EXCEPT !.stop = "over", !.pc = "finish", !.result = "stopped"] \in Doing
    BY ZenonT(40), <2>2, SomePcs DEF Doing, ThType
  <2> QED
    BY <1>1, <2>1, <2>3, Updated DEF Becomes, ThType, Doing, Others, unwatch
<1>2. CASE obj.waker[Dir(p)] # p
  <2>1. th' = [th EXCEPT ![p] = [th[p] EXCEPT !.stop = "over", !.cancelled = TRUE]]
    BY <1>2 DEF unwatch
  <2>2. "over" \in Stops
    BY DEF Stops
  <2>3. [th[p] EXCEPT !.stop = "over", !.cancelled = TRUE] \in Doing
    BY ZenonT(40), <2>2 DEF Doing, ThType
  <2> QED
    BY <1>2, <2>1, <2>3, Updated DEF Becomes, ThType, Doing, Others, unwatch
<1> QED
  BY <1>1, <1>2

\* The steps of the poller that only look.
LEMMA PollerMeans ==
    ASSUME Roles, Type, epoll_wait \/ snapshot \/ poll \/ PollTimesOut
    PROVE  /\ ThType' /\ Chain' = Chain /\ Chain = <<>>
           /\ \A q \in Users : th'[q] = th[q]
           /\ \/ /\ epoll_wait /\ th'[Poller].mask = ReadyNow /\ th'[Poller].shut = obj.ended
                 /\ th'[Poller].pc = IF ReadyNow = {} THEN "idle" ELSE "collect"
              \/ /\ snapshot /\ th'[Poller].pc = "polling"
                 /\ th'[Poller].mask = IF obj.table THEN obj.armed ELSE {}
              \/ /\ poll
                 /\ \A d \in th'[Poller].mask :
                       th[Poller].mask # {} /\ (d \in ReadyNow \/ obj.ended = Directions)
                 /\ th'[Poller].pc = IF th'[Poller].mask = {} THEN "idle" ELSE "collect"
              \/ PollTimesOut /\ th'[Poller].pc = "idle" /\ th'[Poller].mask = {}
<1> USE RolesMean DEF Type
<1>0. Chain = <<>>
  BY DEF epoll_wait, snapshot, poll, PollTimesOut, At, PollerPc
<1>1. ASSUME NEW mask \in SUBSET Directions, NEW shut \in SUBSET Directions, NEW pc \in Pcs,
             th' = [th EXCEPT ![Poller] = [th[Poller] EXCEPT !.mask = mask, !.shut = shut,
                                                             !.pc = pc]]
      PROVE  /\ ThType' /\ Chain' = Chain /\ \A q \in Users : th'[q] = th[q]
             /\ th'[Poller].mask = mask /\ th'[Poller].shut = shut /\ th'[Poller].pc = pc
  <2>1. [th[Poller] EXCEPT !.mask = mask, !.shut = shut, !.pc = pc] \in Doing
    BY ZenonT(40) DEF Doing, ThType
  <2>2. ThType' /\ Becomes(Poller, [th[Poller] EXCEPT !.mask = mask, !.shut = shut, !.pc = pc])
    BY <1>1, <2>1, Updated
  <2> QED
    BY <2>2 DEF Becomes, ThType, Doing, Chain
<1>2. CASE epoll_wait
  <2> DEFINE pc == IF ReadyNow = {} THEN "idle" ELSE "collect"
  <2>1. th' = [th EXCEPT ![Poller] = [th[Poller] EXCEPT !.mask = ReadyNow, !.shut = obj.ended,
                                                        !.pc = pc]]
    BY <1>2 DEF epoll_wait
  <2>2. pc \in Pcs
    BY DEF Pcs
  <2> HIDE DEF pc
  <2>4. /\ ThType' /\ Chain' = Chain /\ \A q \in Users : th'[q] = th[q]
        /\ th'[Poller].mask = ReadyNow /\ th'[Poller].shut = obj.ended /\ th'[Poller].pc = pc
    BY <1>1, <2>1, <2>2, ReadyTyped, EndedTyped
  <2> QED
    BY <1>0, <1>2, <2>4 DEF pc
<1>3. CASE snapshot
  <2> DEFINE mask == IF obj.table THEN obj.armed ELSE {}
  <2>1. th' = [th EXCEPT ![Poller] = [th[Poller] EXCEPT !.mask = mask, !.pc = "polling"]]
    BY <1>3 DEF snapshot
  <2>2. "polling" \in Pcs /\ mask \in SUBSET Directions
    BY DEF Pcs, ObjType
  <2> HIDE DEF mask
  <2>5. [th[Poller] EXCEPT !.mask = mask, !.pc = "polling"] \in Doing
    BY <2>2 DEF Doing, ThType
  <2>6. ThType' /\ Becomes(Poller, [th[Poller] EXCEPT !.mask = mask, !.pc = "polling"])
    BY <2>1, <2>5, Updated
  <2>7. /\ Chain' = Chain /\ \A q \in Users : th'[q] = th[q]
        /\ th'[Poller].mask = mask /\ th'[Poller].pc = "polling"
    BY <2>6 DEF Becomes, ThType, Doing, Chain
  <2> QED
    BY <1>0, <1>3, <2>6, <2>7 DEF mask
<1>4. CASE poll
  <2> DEFINE hungUp == IF th[Poller].mask # {} /\ obj.ended = Directions THEN Directions ELSE {}
             ready == (th[Poller].mask \cap ReadyNow) \cup hungUp
             pc == IF ready = {} THEN "idle" ELSE "collect"
  <2>1. th' = [th EXCEPT ![Poller] = [th[Poller] EXCEPT !.mask = ready, !.shut = hungUp, !.pc = pc]]
    BY <1>4 DEF poll
  <2>2. hungUp \in SUBSET Directions /\ ready \in SUBSET Directions /\ pc \in Pcs
    BY ReadyTyped DEF Pcs
  <2>4. \A d \in ready : th[Poller].mask # {} /\ (d \in ReadyNow \/ obj.ended = Directions)
    OBVIOUS
  <2>5. pc = IF ready = {} THEN "idle" ELSE "collect"
    OBVIOUS
  <2> HIDE DEF hungUp, ready, pc
  <2>6. /\ ThType' /\ Chain' = Chain /\ \A q \in Users : th'[q] = th[q]
        /\ th'[Poller].mask = ready /\ th'[Poller].shut = hungUp /\ th'[Poller].pc = pc
    BY <1>1, <2>1, <2>2
  <2> QED
    BY <1>0, <1>4, <2>4, <2>5, <2>6
<1>5. CASE PollTimesOut
  <2>1. th' = [th EXCEPT ![Poller] = [th[Poller] EXCEPT !.mask = {}, !.pc = "idle"]]
    BY <1>5 DEF PollTimesOut
  <2>2. [th[Poller] EXCEPT !.mask = {}, !.pc = "idle"] \in Doing
    BY SomePcs DEF Doing, ThType
  <2>3. ThType' /\ Becomes(Poller, [th[Poller] EXCEPT !.mask = {}, !.pc = "idle"])
    BY <2>1, <2>2, Updated
  <2>5. /\ Chain' = Chain /\ \A q \in Users : th'[q] = th[q]
        /\ th'[Poller].mask = {} /\ th'[Poller].pc = "idle"
    BY <2>3 DEF Becomes, ThType, Doing, Chain
  <2> QED
    BY <1>0, <1>5, <2>3, <2>5
<1> QED
  BY <1>2, <1>3, <1>4, <1>5

LEMMA ReadSeenMeans ==
    ASSUME Roles, Type, NEW p \in Users, ReadSeen(p)
    PROVE  th[p].pc = "seen" /\ obj' = obj /\ ThType' /\ Ends(p, "call", th[p].result, obj.events[Dir(p)])
<1> USE RolesMean DEF Type
<1> DEFINE seen == obj.events[Dir(p)]
<1>1. th' = [th EXCEPT ![p] = [th[p] EXCEPT !.pc = "call", !.seen = seen]]
  BY DEF ReadSeen
<1>2. seen \in Nat
  BY DEF ObjType
<1> HIDE DEF seen
<1>3. [th[p] EXCEPT !.pc = "call", !.seen = seen] \in Doing
  BY ZenonT(40), <1>2, SomePcs DEF Doing, ThType
<1>4. ThType' /\ Becomes(p, [th[p] EXCEPT !.pc = "call", !.seen = seen])
  BY <1>1, <1>3, Updated
<1>5. Ends(p, "call", th[p].result, seen)
  BY <1>4 DEF Becomes, ThType, Doing, Ends, Others, Holds
<1> QED
  BY <1>4, <1>5 DEF seen, ReadSeen, At

LEMMA BlockReturnsMeans ==
    ASSUME Roles, Type, NEW p \in Users, BlockReturns(p)
    PROVE  /\ th[p].pc = "block" /\ th[p].satisfied /\ obj' = obj
           /\ ThType' /\ Others(p) /\ th'[p].pc = "look"
           /\ th'[p].cancelled = th[p].cancelled /\ th'[p].stop = th[p].stop
           /\ th'[p].result = th[p].result /\ th'[p].seen = th[p].seen
<1> USE RolesMean DEF Type
<1>1. th' = [th EXCEPT ![p] = [th[p] EXCEPT !.satisfied = FALSE, !.pc = "look"]]
  BY DEF BlockReturns
<1>2. [th[p] EXCEPT !.satisfied = FALSE, !.pc = "look"] \in Doing
  BY ZenonT(40), SomePcs DEF Doing, ThType
<1>3. ThType' /\ Becomes(p, [th[p] EXCEPT !.satisfied = FALSE, !.pc = "look"])
  BY <1>1, <1>2, Updated
<1>4. /\ Others(p) /\ th'[p].pc = "look"
      /\ th'[p].cancelled = th[p].cancelled /\ th'[p].stop = th[p].stop
      /\ th'[p].result = th[p].result /\ th'[p].seen = th[p].seen
  BY <1>3 DEF Becomes, ThType, Doing, Others
<1> QED
  BY <1>3, <1>4 DEF BlockReturns, At

LEMMA ListenMeans ==
    ASSUME Roles, Type, NEW p \in Users, Listen(p)
    PROVE  /\ th[p].pc = "listen" /\ obj' = obj
           /\ ThType' /\ Others(p) /\ th'[p].pc \in {"drive", "listen"}
           /\ th'[p].stop = "over" => th[p].stop = "over"
           /\ th'[p].satisfied = th[p].satisfied /\ th'[p].cancelled = th[p].cancelled
           /\ th'[p].result = th[p].result /\ th'[p].seen = th[p].seen
<1> USE RolesMean DEF Type
<1>0. th[p].pc = "listen" /\ obj' = obj
  BY DEF Listen, At
<1>1. CASE th' = [th EXCEPT ![p].stop = "listening", ![p].pc = "drive"]
  <2>1. th' = [th EXCEPT ![p] = [th[p] EXCEPT !.stop = "listening", !.pc = "drive"]]
    BY <1>1
  <2>2. "listening" \in Stops
    BY DEF Stops
  <2>3. [th[p] EXCEPT !.stop = "listening", !.pc = "drive"] \in Doing
    BY ZenonT(40), <2>2, SomePcs DEF Doing, ThType
  <2>4. ThType' /\ Becomes(p, [th[p] EXCEPT !.stop = "listening", !.pc = "drive"])
    BY <2>1, <2>3, Updated
  <2>5. /\ Others(p) /\ th'[p].pc = "drive" /\ th'[p].stop = "listening"
        /\ th'[p].satisfied = th[p].satisfied /\ th'[p].cancelled = th[p].cancelled
        /\ th'[p].result = th[p].result /\ th'[p].seen = th[p].seen
    BY <2>4 DEF Becomes, ThType, Doing, Others
  <2> QED
    BY <1>0, <2>4, <2>5
<1>2. CASE th' = [th EXCEPT ![p].stop = "running"]
  <2>1. "running" \in Stops
    BY DEF Stops
  <2> QED
    BY <1>0, <1>2, <2>1, StopsTyped
<1>3. CASE Go(p, "drive")
  <2>1. ThType' /\ Goes(p, "drive")
    BY <1>3, GoMeans, SomePcs
  <2> QED
    BY <1>0, <2>1 DEF Goes, Holds
<1> QED
  BY <1>1, <1>2, <1>3 DEF Listen

\* A transfer goes on, or is over; or it would block.
LEMMA TryCallMeans ==
    ASSUME Roles, Type, NEW p \in Users, tryCall(p)
    PROVE  /\ th[p].pc = "call" /\ ThType'
           /\ \/ Goes(p, Block(p)) /\ obj' = obj
                 /\ (exhausted(p) \/ Dir(p) \notin ReadyNow \/ obj.hand = "unconnected")
              \/ /\ obj' = noteTransfer(p, moved(p))
                 /\ \/ Goes(p, "seen")
                    \/ Ends(p, IF p \in Ops THEN "finish" ELSE "idle", "value", 0)
<1> USE RolesMean DEF Type
<1>0. th[p].pc = "call"
  BY DEF tryCall, At
<1>1. CASE Go(p, Block(p)) /\ UNCHANGED obj /\ (exhausted(p) \/ (moved(p) = 0 /\ Dir(p) \notin obj.ended))
  <2>1. moved(p) = 0 /\ Dir(p) \notin obj.ended => Dir(p) \notin ReadyNow \/ obj.hand = "unconnected"
    <3>1. obj.level[Dir(p)] \in Nat /\ asked(p) \in Nat
      BY MovedTyped DEF ObjType
    <3>2. asked(p) # 0
      BY DEF asked, Asked
    <3> QED
      BY <3>1, <3>2 DEF moved, ReadyNow
  <2>2. Block(p) \in Pcs
    BY SomePcs DEF Block
  <2> QED
    BY <1>0, <1>1, <2>1, <2>2, GoMeans
<1>2. CASE MoveOn(p, moved(p)) /\ obj' = noteTransfer(p, moved(p))
  <2>1. CASE MoreToMove(p, moved(p))
    <3> DEFINE left == th[p].left - moved(p)
    <3>1. th' = [th EXCEPT ![p] = [th[p] EXCEPT !.pc = "seen", !.left = left]]
      BY <1>2, <2>1 DEF MoveOn
    <3>2. left \in Nat
      BY <2>1, MovedTyped DEF MoreToMove, ThType, Doing
    <3> HIDE DEF left
    <3>3. [th[p] EXCEPT !.pc = "seen", !.left = left] \in Doing
      BY ZenonT(40), <3>2, SomePcs DEF Doing, ThType
    <3>4. ThType' /\ Becomes(p, [th[p] EXCEPT !.pc = "seen", !.left = left])
      BY <3>1, <3>3, Updated
    <3>5. Goes(p, "seen")
      BY <3>4 DEF Becomes, ThType, Doing, Goes, Others, Holds
    <3> QED
      BY <1>0, <1>2, <3>4, <3>5
  <2>2. CASE ~MoreToMove(p, moved(p))
    <3> DEFINE pc == IF p \in Ops THEN "finish" ELSE "idle"
    <3>1. Leave(p, pc, "value") /\ pc \in Pcs /\ "value" \in Results
      BY <1>2, <2>2, SomePcs DEF MoveOn, Results
    <3> HIDE DEF pc
    <3>2. ThType' /\ Ends(p, pc, "value", 0)
      BY <3>1, LeaveMeans
    <3> QED
      BY <1>0, <1>2, <3>2 DEF pc
  <2> QED
    BY <2>1, <2>2
<1> QED
  BY <1>1, <1>2 DEF tryCall, At

-----------------------------------------------------------------------------
(* What each step of a party does.                                         *)

DonePc(p) == IF p \in Ops THEN "finish" ELSE "idle"

LEMMA RetryTyped == \A p \in Users : Retry(p) \in Pcs /\ Block(p) \in Pcs
  BY SomePcs DEF Retry, Block

LEMMA RegisterMeans ==
    ASSUME Roles, Type, NEW p \in Users, Register(p)
    PROVE  /\ th[p].pc = "register" /\ Goes(p, Block(p))
           /\ obj' = [obj EXCEPT !.table = TRUE,
                                 !.edge = everyArrivalReported /\ ReadyNow # {}]
  BY RetryTyped, GoMeans DEF Register, At, Type

LEMMA FinishConnectMeans ==
    ASSUME Roles, Type, NEW p \in Users, finishConnect(p)
    PROVE  /\ th[p].pc = "finishConnect" /\ obj' = obj
           /\ Ends(p, DonePc(p), IF obj.ended = Directions THEN "error" ELSE "value", th[p].seen)
<1>1. (IF obj.ended = Directions THEN "error" ELSE "value") \in Results
  BY DEF Results
<1> QED
  BY <1>1, ReturnMeans DEF finishConnect, At, Type, DonePc

LEMMA ArmMeans ==
    ASSUME Roles, Type, NEW p \in Users, Arm(p)
    PROVE  /\ th[p].pc = "arm" \/ (th[p].pc = "drive" /\ ~everyArrivalReported)
           /\ Goes(p, "poke") /\ obj' = [obj EXCEPT !.armed = @ \cup {Dir(p)}]
  BY GoMeans, SomePcs DEF Arm, At, Type

LEMMA PokeMeans ==
    ASSUME Roles, Type, NEW p \in Users, Poke(p)
    PROVE  /\ th[p].pc = "poke" /\ Goes(p, IF p \in Ops THEN "watch" ELSE "look")
           /\ obj' = [obj EXCEPT !.poke = TRUE]
  BY GoMeans, SomePcs DEF Poke, At, Type

LEMMA EnqueueMeans ==
    ASSUME Roles, Type, NEW p \in Users, Enqueue(p)
    PROVE  /\ th[p].pc = "enqueue"
           /\ \/ ~UpToDate(p) /\ Goes(p, Retry(p)) /\ obj' = obj
              \/ /\ UpToDate(p) /\ Goes(p, IF everyArrivalReported THEN "look" ELSE "arm")
                 /\ obj' = [obj EXCEPT !.waker[Dir(p)] = p]
  BY GoMeans, SomePcs, RetryTyped DEF Enqueue, At, Type, UpToDate, StoreWaker

LEMMA LookEventsMeans ==
    ASSUME Roles, Type, NEW p \in Users, LookEvents(p)
    PROVE  /\ th[p].pc = "look" /\ obj' = obj
           /\ Goes(p, IF UpToDate(p) THEN "block" ELSE Retry(p))
  BY GoMeans, SomePcs, RetryTyped DEF LookEvents, At, Type, UpToDate

LEMMA DeadlineMeans ==
    ASSUME Roles, Type, NEW p \in Users, DeadlinePasses(p)
    PROVE  /\ th[p].pc = "block" /\ obj' = obj
           /\ Goes(p, IF UpToDate(p) THEN "detach" ELSE Retry(p))
  BY GoMeans, SomePcs, RetryTyped DEF DeadlinePasses, At, Type, UpToDate

LEMMA ForcedUnwindMeans ==
    ASSUME Roles, Type, NEW p \in Users, ForcedUnwind(p)
    PROVE  th[p].pc = "block" /\ obj' = obj /\ Goes(p, "unwind")
  BY GoMeans, SomePcs DEF ForcedUnwind, At, Type

LEMMA DetachMeans ==
    ASSUME Roles, Type, NEW p \in Users, detach(p)
    PROVE  /\ th[p].pc \in {"detach", "unwind"}
           /\ Ends(p, IF th[p].pc = "unwind" THEN "gone" ELSE "idle", "none", 0)
           /\ obj' = [obj EXCEPT !.waker[Dir(p)] = IF @ = p THEN NoOne ELSE @]
<1>1. "none" \in Results
  BY DEF Results
<1> QED
  BY <1>1, LeaveMeans, SomePcs DEF detach, At, Type

LEMMA WatchMeans ==
    ASSUME Roles, Type, NEW p \in Users, watch(p)
    PROVE  /\ th[p].pc = "watch" \/ (th[p].pc = "drive" /\ everyArrivalReported)
           /\ \/ th[p].cancelled /\ Ends(p, DonePc(p), "stopped", th[p].seen) /\ obj' = obj
              \/ ~th[p].cancelled /\ ~UpToDate(p) /\ Goes(p, Retry(p)) /\ obj' = obj
              \/ /\ ~th[p].cancelled /\ UpToDate(p) /\ Goes(p, "queued")
                 /\ obj' = [obj EXCEPT !.waker[Dir(p)] = p]
<1>1. "stopped" \in Results
  BY DEF Results
<1> QED
  BY <1>1, GoMeans, ReturnMeans, SomePcs, RetryTyped
  DEF watch, At, Type, UpToDate, StoreWaker, DonePc

LEMMA FinishMeans ==
    ASSUME Roles, Type, NEW p \in Users, Finish(p)
    PROVE  th[p].pc = "finish" /\ th[p].stop # "running" /\ Goes(p, "done") /\ obj' = obj
  BY GoMeans, SomePcs DEF Finish, At, Type

LEMMA RequestStopMeans ==
    ASSUME Roles, Type, NEW p \in Users, RequestStop(p)
    PROVE  /\ p \in Ops /\ th[p].pc # "done" /\ obj' = obj /\ Others(p)
           /\ th'[p].stop \in {"requested", "running"} /\ th'[p].pc = th[p].pc
           /\ th'[p].satisfied = th[p].satisfied /\ th'[p].cancelled = th[p].cancelled
           /\ th'[p].result = th[p].result /\ th'[p].seen = th[p].seen
<1> DEFINE stop == IF th[p].stop = "quiet" THEN "requested" ELSE "running"
<1>1. stop \in Stops /\ stop \in {"requested", "running"}
  BY DEF Stops
<1>2. th' = [th EXCEPT ![p].stop = stop]
  BY DEF RequestStop
<1> HIDE DEF stop
<1> QED
  BY <1>1, <1>2, StopsTyped DEF RequestStop, Type

LEMMA StartMeans ==
    ASSUME Roles, Type, NEW p \in Users, Begin(p) \/ try_now(p)
    PROVE  /\ p \notin Connecting /\ th[p].pc = "idle" /\ obj.table /\ DirectionFree(p)
           /\ obj' = [obj EXCEPT !.begun = @ + 1]
           /\ \/ Goes(p, "seen")
              \/ p \in Ops /\ Ends(p, "finish", "stopped", th[p].seen)
<1>1. "stopped" \in Results
  BY DEF Results
<1>2. CASE Begin(p)
  BY <1>2, AttemptingMeans DEF Begin, Called, Type
<1>3. CASE try_now(p)
  <2>1. CASE Return(p, "stopped")
    BY <1>1, <1>3, <2>1, ReturnMeans DEF try_now, Called, Type
  <2>2. CASE Attempting(p)
    BY <1>3, <2>2, AttemptingMeans DEF try_now, Called, Type
  <2> QED
    BY <1>3, <2>1, <2>2 DEF try_now
<1> QED
  BY <1>2, <1>3

LEMMA StartConnectMeans ==
    ASSUME Roles, Type, NEW p \in Users, startConnect(p)
    PROVE  /\ p \in Connecting /\ th[p].pc = "idle" /\ obj.hand = "unconnected"
           /\ \/ Goes(p, "register") /\ obj' = [obj EXCEPT !.hand = "inProgress"]
              \/ \E result \in {"stopped", "error"} :
                    Ends(p, DonePc(p), result, th[p].seen) /\ obj' = obj
<1>1. {"stopped", "error"} \subseteq Results
  BY DEF Results
<1>2. CASE Go(p, "register") /\ obj' = [obj EXCEPT !.hand = "inProgress"]
  BY <1>2, GoMeans, SomePcs DEF startConnect, At, Type
<1>3. ASSUME NEW result \in {"stopped", "error"}, Return(p, result), UNCHANGED obj
      PROVE  Ends(p, DonePc(p), result, th[p].seen) /\ obj' = obj
  BY <1>1, <1>3, ReturnMeans DEF Type, DonePc
<1> QED
  BY <1>2, <1>3 DEF startConnect, At

LEMMA ThTypeKeeps ==
    ASSUME Roles, Type, WakersTyped, Next
    PROVE  ThType'
<1> USE RolesMean DEF Type
<1>1. CASE epoll_wait \/ snapshot \/ poll \/ PollTimesOut
  BY <1>1, PollerMeans
<1>2. CASE Collect
  BY <1>2, CollectMeans
<1>3. CASE RemoveRegistration \/ AddRegistration
  BY <1>3 DEF RemoveRegistration, AddRegistration, ThType
<1>4. ASSUME NEW to, to \in {"seen", "finishConnect"}, Notify(Poller, to)
      PROVE  ThType'
  BY <1>4, NotifyMeans
<1>5. ASSUME NEW d \in Directions, Arrive(d)
      PROVE  ThType'
  BY <1>5 DEF Arrive, Happens, ThType
<1>6. ASSUME NEW ended, PeerEnds(ended)
      PROVE  ThType'
  BY <1>6 DEF PeerEnds, Happens, ThType
<1>7. ASSUME NEW p \in Users, Register(p)
      PROVE  ThType'
  BY <1>7, GoMeans, SomePcs DEF Register, Block
<1>8. ASSUME NEW p \in Users, finishConnect(p)
      PROVE  ThType'
  BY <1>8, ReturnMeans DEF finishConnect, Results
<1>9. ASSUME NEW p \in Users, ReadSeen(p)
      PROVE  ThType'
  BY <1>9, ReadSeenMeans
<1>10. ASSUME NEW p \in Users, tryCall(p)
      PROVE  ThType'
  BY <1>10, TryCallMeans
<1>11. ASSUME NEW p \in Users, Arm(p)
      PROVE  ThType'
  BY <1>11, GoMeans, SomePcs DEF Arm
<1>12. ASSUME NEW p \in Users, Poke(p)
      PROVE  ThType'
  BY <1>12, GoMeans, SomePcs DEF Poke
<1>13. ASSUME NEW p \in Users, Enqueue(p)
      PROVE  ThType'
  BY <1>13, GoMeans, SomePcs DEF Enqueue, Retry
<1>14. ASSUME NEW p \in Users, LookEvents(p)
      PROVE  ThType'
  BY <1>14, GoMeans, SomePcs DEF LookEvents, Retry
<1>15. ASSUME NEW p \in Users, BlockReturns(p)
      PROVE  ThType'
  BY <1>15, BlockReturnsMeans
<1>16. ASSUME NEW p \in Users, detach(p)
      PROVE  ThType'
  BY <1>16, LeaveMeans, SomePcs DEF detach, Results
<1>17. ASSUME NEW p \in Users, Listen(p)
      PROVE  ThType'
  BY <1>17, ListenMeans
<1>18. ASSUME NEW p \in Users, watch(p)
      PROVE  ThType'
  BY <1>18, GoMeans, ReturnMeans, SomePcs DEF watch, Retry, Results
<1>19. ASSUME NEW p \in Users, unwatch(p)
      PROVE  ThType'
  BY <1>19, UnwatchMeans
<1>20. ASSUME NEW p \in Users, Finish(p)
      PROVE  ThType'
  BY <1>20, GoMeans, SomePcs DEF Finish
<1>21. ASSUME NEW p \in Users, DeadlinePasses(p)
      PROVE  ThType'
  BY <1>21, GoMeans, SomePcs DEF DeadlinePasses, Retry
<1>22. ASSUME NEW p \in Users, ForcedUnwind(p)
      PROVE  ThType'
  BY <1>22, GoMeans, SomePcs DEF ForcedUnwind
<1>23. ASSUME NEW p \in Users, RequestStop(p)
      PROVE  ThType'
  BY <1>23, StopsTyped DEF RequestStop, Stops
<1>24. ASSUME NEW p \in Users, Begin(p)
      PROVE  ThType'
  BY <1>24, AttemptingMeans DEF Begin
<1>25. ASSUME NEW p \in Users, try_now(p)
      PROVE  ThType'
  BY <1>25, AttemptingMeans, ReturnMeans DEF try_now, Results
<1>26. ASSUME NEW p \in Users, startConnect(p)
      PROVE  ThType'
  BY <1>26, GoMeans, ReturnMeans, SomePcs DEF startConnect, Results
<1> QED
  BY <1>1, <1>2, <1>3, <1>4, <1>5, <1>6, <1>7, <1>8, <1>9, <1>10, <1>11, <1>12, <1>13, <1>14, <1>15, <1>16, <1>17, <1>18, <1>19, <1>20, <1>21, <1>22, <1>23, <1>24, <1>25, <1>26
  DEF Next, PollerStep, Step, run

LEMMA WakerTyped ==
    ASSUME Roles, ObjType, NEW p \in Users, NEW who \in Users \cup {NoOne},
           obj' = [obj EXCEPT !.waker[Dir(p)] = who]
    PROVE  ObjType' /\ obj'.waker = [obj.waker EXCEPT ![Dir(p)] = who]
<1>1. PICK waker \in [Directions -> Users \cup {NoOne}] :
          obj' = [obj EXCEPT !.waker = waker] /\ waker = [obj.waker EXCEPT ![Dir(p)] = who]
  BY RolesMean DEF ObjType
<1> QED
  BY <1>1 DEF ObjType

LEMMA HappensTyped ==
    ASSUME ObjType, NEW level \in [Directions -> Nat], NEW ended \in SUBSET Directions,
           Happens(level, ended)
    PROVE  ObjType'
<1> DEFINE arrivals == obj.arrivals + 1
           edge == obj.edge \/ (everyArrivalReported /\ obj.table)
<1>1. obj' = [obj EXCEPT !.arrivals = arrivals, !.level = level, !.ended = ended,
                         !.hand = "over", !.edge = edge]
  BY DEF Happens
<1>2. arrivals \in Nat /\ edge \in BOOLEAN
  BY DEF ObjType
<1> HIDE DEF arrivals, edge
<1> QED
  BY <1>1, <1>2 DEF ObjType

LEMMA ObjTypeKeeps ==
    ASSUME Roles, Type, WakersTyped, Next
    PROVE  ObjType'
<1> USE RolesMean DEF Type, ObjType
<1>1. CASE epoll_wait
  BY <1>1 DEF epoll_wait
<1>2. CASE snapshot
  BY <1>2 DEF snapshot
<1>3. CASE poll
  BY <1>3 DEF poll
<1>4. CASE PollTimesOut
  BY <1>4 DEF PollTimesOut
<1>5. CASE Collect
  <2>1. CASE collect
    <3>1. [d \in Directions |-> obj.events[d] + (IF d \in th[Poller].mask THEN 1 ELSE 0)]
              \in [Directions -> Nat]
      OBVIOUS
    <3>2. [d \in Directions |-> IF d \in th[Poller].mask THEN NoOne ELSE obj.waker[d]]
              \in [Directions -> Users \cup {NoOne}]
      OBVIOUS
    <3>3. PICK events \in [Directions -> Nat], waker \in [Directions -> Users \cup {NoOne}],
              closed \in SUBSET Directions, armed \in SUBSET Directions :
              obj' = [obj EXCEPT !.closed = closed, !.armed = armed, !.events = events,
                                 !.waker = waker]
      <4>1. (obj.closed \cup th[Poller].shut) \in SUBSET Directions
            /\ (obj.armed \ th[Poller].mask) \in SUBSET Directions
        BY DEF ThType, Doing
      <4> QED
        BY <2>1, <3>1, <3>2, <4>1 DEF collect, CollectWith
    <3> QED
      BY <3>3
  <2> QED
    BY <1>5, <2>1 DEF Collect
<1>6. CASE RemoveRegistration
  BY <1>6 DEF RemoveRegistration
<1>7. CASE AddRegistration
  BY <1>7 DEF AddRegistration
<1>8. ASSUME NEW to, to \in {"seen", "finishConnect"}, Notify(Poller, to)
      PROVE  ObjType'
  BY <1>8 DEF Notify
<1>9. ASSUME NEW d \in Directions, Arrive(d)
      PROVE  ObjType'
  <2>1. [obj.level EXCEPT ![d] = @ + 1] \in [Directions -> Nat]
    OBVIOUS
  <2> QED
    BY <1>9, <2>1, HappensTyped DEF Arrive
<1>10. ASSUME NEW ended, ended \in {{"R"}, Directions}, PeerEnds(ended)
      PROVE  ObjType'
  BY <1>10, HappensTyped DEF PeerEnds, Directions
<1>11. ASSUME NEW p \in Users, Register(p)
      PROVE  ObjType'
  BY <1>11 DEF Register, Block, Go
<1>12. ASSUME NEW p \in Users, finishConnect(p)
      PROVE  ObjType'
  BY <1>12 DEF finishConnect, Return
<1>13. ASSUME NEW p \in Users, ReadSeen(p)
      PROVE  ObjType'
  BY <1>13 DEF ReadSeen
<1>14. ASSUME NEW p \in Users, tryCall(p)
      PROVE  ObjType'
  <2>1. CASE obj' = noteTransfer(p, moved(p))
    <3>1. moved(p) \in Nat /\ moved(p) <= obj.level[Dir(p)] /\ th[p].seen \in Nat
      BY MovedTyped DEF ThType, Doing
    <3> DEFINE short == obj.stream /\ everyArrivalReported /\ moved(p) # 0 /\ moved(p) < asked(p)
               level == [obj.level EXCEPT ![Dir(p)] = @ - moved(p)]
               dry == IF short THEN obj.exhausted \cup {Dir(p)} ELSE obj.exhausted \ {Dir(p)}
               at == IF short THEN th[p].seen ELSE 0
               exhaustedAt == [obj.exhaustedAt EXCEPT ![Dir(p)] = at]
    <3>2. obj' = [obj EXCEPT !.level = level, !.exhausted = dry, !.exhaustedAt = exhaustedAt]
      BY <2>1 DEF noteTransfer
    <3>3. level \in [Directions -> Nat] /\ dry \in SUBSET Directions
      BY <3>1
    <3>4. exhaustedAt \in [Directions -> Nat]
      <4>1. at \in Nat
        BY <3>1
      <4> HIDE DEF at
      <4> QED
        BY <4>1
    <3> HIDE DEF level, dry, exhaustedAt
    <3> QED
      BY <3>2, <3>3, <3>4
  <2> QED
    BY <1>14, <2>1 DEF tryCall
<1>15. ASSUME NEW p \in Users, Arm(p)
      PROVE  ObjType'
  BY <1>15 DEF Arm, Go
<1>16. ASSUME NEW p \in Users, Poke(p)
      PROVE  ObjType'
  BY <1>16 DEF Poke, Go
<1>17. ASSUME NEW p \in Users, Enqueue(p)
      PROVE  ObjType'
  <2>1. CASE StoreWaker(p)
    BY <2>1, WakerTyped DEF StoreWaker
  <2> QED
    BY <1>17, <2>1 DEF Enqueue
<1>18. ASSUME NEW p \in Users, LookEvents(p)
      PROVE  ObjType'
  BY <1>18 DEF LookEvents, Go, Retry
<1>19. ASSUME NEW p \in Users, BlockReturns(p)
      PROVE  ObjType'
  BY <1>19 DEF BlockReturns
<1>20. ASSUME NEW p \in Users, detach(p)
      PROVE  ObjType'
  BY <1>20 DEF detach, Leave
<1>21. ASSUME NEW p \in Users, Listen(p)
      PROVE  ObjType'
  BY <1>21 DEF Listen, Go
<1>22. ASSUME NEW p \in Users, watch(p)
      PROVE  ObjType'
  <2>1. CASE StoreWaker(p)
    BY <2>1, WakerTyped DEF StoreWaker
  <2> QED
    BY <1>22, <2>1 DEF watch
<1>23. ASSUME NEW p \in Users, unwatch(p)
      PROVE  ObjType'
  BY <1>23, WakerTyped DEF unwatch
<1>24. ASSUME NEW p \in Users, Finish(p)
      PROVE  ObjType'
  BY <1>24 DEF Finish, Go
<1>25. ASSUME NEW p \in Users, DeadlinePasses(p)
      PROVE  ObjType'
  BY <1>25 DEF DeadlinePasses, Go, Retry
<1>26. ASSUME NEW p \in Users, ForcedUnwind(p)
      PROVE  ObjType'
  BY <1>26 DEF ForcedUnwind, Go
<1>27. ASSUME NEW p \in Users, RequestStop(p)
      PROVE  ObjType'
  BY <1>27 DEF RequestStop
<1>28. ASSUME NEW p \in Users, Begin(p)
      PROVE  ObjType'
  BY <1>28 DEF Begin, Called
<1>29. ASSUME NEW p \in Users, try_now(p)
      PROVE  ObjType'
  BY <1>29 DEF try_now, Called
<1>30. ASSUME NEW p \in Users, startConnect(p)
      PROVE  ObjType'
  <2>1. CASE obj' = [obj EXCEPT !.hand = "inProgress"]
    BY <2>1
  <2> QED
    BY <1>30, <2>1 DEF startConnect
<1> QED
  BY <1>1, <1>2, <1>3, <1>4, <1>5, <1>6, <1>7, <1>8, <1>9, <1>10, <1>11, <1>12, <1>13, <1>14, <1>15, <1>16, <1>17, <1>18, <1>19, <1>20, <1>21, <1>22, <1>23, <1>24, <1>25, <1>26, <1>27, <1>28, <1>29, <1>30
  DEF Next, PollerStep, Step, run
-----------------------------------------------------------------------------
(* What a party relies on, and steps that leave it.                        *)

\* What q relies on still holds.
Kept(q) ==
    /\ obj'.backend = obj.backend
    /\ Taken(q)' <=> Taken(q)
    /\ obj'.waker[Dir(q)] = q <=> obj.waker[Dir(q)] = q
    /\ Connecting # {} => /\ HandshakeOver => HandshakeOver'
                          /\ obj.level["W"] > 0 => obj'.level["W"] > 0
    /\ Transferring(q) =>
          /\ obj'.hand = "unconnected" => obj.hand = "unconnected"
          /\ obj.table => obj'.table
          /\ obj'.events[Dir(q)] = obj.events[Dir(q)]
          /\ Dir(q) \in obj.armed => Dir(q) \in obj'.armed
          /\ th'[Poller].pc = "polling" =>
                \/ obj'.poke \/ Dir(q) \in th'[Poller].mask
                \/ th[Poller].pc = "polling" /\ ~obj.poke /\ Dir(q) \notin th[Poller].mask
    /\ everyArrivalReported /\ th[q].pc \in Failed =>
          /\ Reported(Dir(q)) => Reported(Dir(q))'
          /\ Dir(q) \in ReadyNow' => Dir(q) \in ReadyNow \/ Reported(Dir(q))'

LEMMA PartyStays ==
    ASSUME Roles, NEW q \in Users, UserInv(q), th'[q] = th[q], Kept(q)
    PROVE  UserInv(q)'
<1> USE DEF UserInv
<1>0. /\ Transferring(q)' <=> Transferring(q)
      /\ Transferring(q) => (UpToDate(q)' <=> UpToDate(q))
  BY DEF UpToDate, Kept, Transferring, Dir
<1>1. PcMatches(q)'
  BY DEF PcMatches, Kept, everyArrivalReported
<1>2. Registered(q)' /\ SeenIsPast(q)'
  BY <1>0 DEF Registered, SeenIsPast, Kept, Dir
<1>3. HoldsWaker(q)'
  BY <1>0 DEF HoldsWaker, Kept, Transferring, Dir
<1>4. IsTold(q)'
  BY <1>0 DEF IsTold, Kept, Transferring, Dir
<1>5. EdgeComes(q)'
  BY <1>0 DEF EdgeComes, Kept, Transferring, Failed, everyArrivalReported, Dir
<1>6. ArmedStays(q)'
  BY <1>0 DEF ArmedStays, Kept, Transferring, everyArrivalReported, Dir
<1>7. StopMarked(q)'
  BY DEF StopMarked, Kept
<1>8. Connects(q)'
  BY DEF Connects, Kept
<1> QED
  BY <1>1, <1>2, <1>3, <1>4, <1>5, <1>6, <1>7, <1>8

\* A step of p that changes nothing else.
LEMMA PartyOnly ==
    ASSUME Roles, RegInv, NEW p \in Users, Others(p)
    PROVE  /\ th'[Poller] = th[Poller] /\ Chain' = Chain
           /\ \A q \in Users : Taken(q)' <=> Taken(q)
           /\ obj' = obj => /\ \A q \in Users \ {p} : UserInv(q)'
                            /\ \A d \in Directions : Reported(d)' <=> Reported(d)
                            /\ ReadyNow' = ReadyNow
<1>1. th'[Poller] = th[Poller] /\ Chain' = Chain
  BY RolesMean DEF Others, Chain
<1>2. ASSUME NEW q \in Users  PROVE Taken(q)' <=> Taken(q)
  BY <1>1 DEF Taken
<1>3. ASSUME obj' = obj, NEW q \in Users \ {p}  PROVE UserInv(q)'
  <2>1. Kept(q)
    BY <1>1, <1>2, <1>3 DEF Kept, Reported, ReadyNow, HandshakeOver, Dir
  <2>2. th'[q] = th[q] /\ UserInv(q)
    BY RolesMean DEF Others, RegInv
  <2> QED
    BY <2>1, <2>2, PartyStays
<1>4. /\ obj' = obj => ReadyNow' = ReadyNow
      /\ obj' = obj => \A d \in Directions : Reported(d)' <=> Reported(d)
  BY <1>1 DEF ReadyNow, Reported
<1> QED
  BY <1>1, <1>2, <1>3, <1>4

\* A connect that a report has sent on is over.
LEMMA Prompted ==
    ASSUME Roles, RegInv, NEW p \in Users, Connecting # {}
    PROVE  /\ Retry(p) = "finishConnect" /\ Dir(p) = "W"
           /\ ~UpToDate(p) => HandshakeOver
<1>1. Retry(p) = "finishConnect" /\ Dir(p) = "W"
  BY DEF Roles, Retry, Dir
<1>2. th[p].seen = 0 /\ obj.events["W"] \in Nat
  BY DEF RegInv, UserInv, Connects, Type, ObjType, Directions
<1> QED
  BY <1>1, <1>2 DEF UpToDate, RegInv, Global, HandshakeReported

LEMMA Quiet ==
    ASSUME Roles, RegInv, NEW p \in Users, Others(p), obj' = obj, ThType',
           Transferring(p)' => Transferring(p), UserInv(p)'
    PROVE  RegInv'
<1>1. th'[Poller] = th[Poller] /\ Chain' = Chain /\ \A q \in Users : UserInv(q)'
  BY PartyOnly
<1>2. Type'
  BY <1>1 DEF RegInv, Type, ObjType, PollerPc, everyArrivalReported
<1>3. \A q \in Users : Transferring(q)' => Transferring(q)
  BY RolesMean DEF Others, Transferring
<1>4. OnePerDirection'
  BY <1>3 DEF OnePerDirection, RegInv, Global, Dir
<1>5. (HandInv /\ WakersTyped /\ EndsReported /\ Exhaustion /\ HandshakeReported)'
  BY <1>1 DEF RegInv, Global, HandInv, WakersTyped, EndsReported, Exhaustion, ExhaustedIsTrue,
              HandshakeReported, HandshakeOver, ReadyNow, everyArrivalReported, Dir
<1> QED
  BY <1>1, <1>2, <1>4, <1>5 DEF RegInv, Global

LEMMA ReadSeenKeeps ==
    ASSUME Roles, RegInv, NEW p \in Users, ReadSeen(p)
    PROVE  RegInv'
<1> USE RolesMean DEF UserInv, Ends, Holds, UpToDate, Transferring, Failed, Dir,
                      everyArrivalReported
<1>1. th[p].pc = "seen" /\ obj' = obj /\ ThType' /\ Ends(p, "call", th[p].result, obj.events[Dir(p)])
  BY ReadSeenMeans DEF RegInv
<1>2. /\ Others(p) /\ th'[Poller] = th[Poller] /\ (Taken(p)' <=> Taken(p))
      /\ UserInv(p)
  BY <1>1, PartyOnly DEF RegInv
<1>3. PcMatches(p)' /\ Registered(p)'
  BY <1>1, <1>2 DEF PcMatches, Registered, Others
<1>4. HoldsWaker(p)' /\ IsTold(p)'
  BY <1>1, <1>2 DEF HoldsWaker, IsTold
<1>5. SeenIsPast(p)'
  BY <1>1, <1>2 DEF SeenIsPast, RegInv, Type, ObjType
<1>6. EdgeComes(p)' /\ ArmedStays(p)'
  BY <1>1, <1>2 DEF EdgeComes, ArmedStays
<1>7. StopMarked(p)' /\ Connects(p)'
  BY <1>1, <1>2 DEF StopMarked, Connects, HandshakeOver
<1> QED
  BY <1>1, <1>2, <1>3, <1>4, <1>5, <1>6, <1>7, Quiet

LEMMA FinishConnectKeeps ==
    ASSUME Roles, RegInv, ThType', NEW p \in Users, finishConnect(p)
    PROVE  RegInv'
<1> USE RolesMean DEF UserInv, Goes, Ends, Holds, UpToDate, Transferring, Failed, Dir, DonePc,
                      everyArrivalReported
<1>1. /\ th[p].pc = "finishConnect" /\ obj' = obj
      /\ Ends(p, DonePc(p), IF obj.ended = Directions THEN "error" ELSE "value", th[p].seen)
  BY FinishConnectMeans DEF RegInv
<1>2. /\ obj' = obj /\ Others(p) /\ th'[Poller] = th[Poller] /\ (Taken(p)' <=> Taken(p))
      /\ UserInv(p) /\ (Reported(Dir(p))' <=> Reported(Dir(p))) /\ ReadyNow' = ReadyNow
  BY <1>1, PartyOnly DEF RegInv
<1>3. PcMatches(p)' /\ Registered(p)'
  BY <1>1, <1>2 DEF PcMatches, Registered, Others
<1>4. HoldsWaker(p)' /\ IsTold(p)'
  BY <1>1, <1>2 DEF HoldsWaker, IsTold, PcMatches
<1>5. SeenIsPast(p)'
  BY <1>1, <1>2 DEF SeenIsPast, RegInv, Type, ObjType
<1>6. EdgeComes(p)' /\ ArmedStays(p)'
  BY <1>1, <1>2 DEF EdgeComes, ArmedStays
<1>7. StopMarked(p)' /\ Connects(p)'
  BY <1>1, <1>2 DEF StopMarked, Connects, HandshakeOver
<1> QED
  BY <1>1, <1>2, <1>3, <1>4, <1>5, <1>6, <1>7, Quiet

LEMMA LookEventsKeeps ==
    ASSUME Roles, RegInv, ThType', NEW p \in Users, LookEvents(p)
    PROVE  RegInv'
<1> USE RolesMean DEF UserInv, Goes, Ends, Holds, UpToDate, Transferring, Failed, Dir, DonePc,
                      Retry, everyArrivalReported
<1>1. /\ th[p].pc = "look" /\ obj' = obj
      /\ Goes(p, IF UpToDate(p) THEN "block" ELSE Retry(p))
  BY LookEventsMeans DEF RegInv
<1>2. /\ obj' = obj /\ Others(p) /\ th'[Poller] = th[Poller] /\ (Taken(p)' <=> Taken(p))
      /\ UserInv(p) /\ (Reported(Dir(p))' <=> Reported(Dir(p))) /\ ReadyNow' = ReadyNow
  BY <1>1, PartyOnly DEF RegInv
<1>3. PcMatches(p)' /\ Registered(p)'
  BY <1>1, <1>2 DEF PcMatches, Registered, Others
<1>4. HoldsWaker(p)' /\ IsTold(p)'
  BY <1>1, <1>2 DEF HoldsWaker, IsTold, PcMatches
<1>5. SeenIsPast(p)'
  BY <1>1, <1>2 DEF SeenIsPast, RegInv, Type, ObjType
<1>6. EdgeComes(p)' /\ ArmedStays(p)'
  BY <1>1, <1>2 DEF EdgeComes, ArmedStays
<1>7. StopMarked(p)' /\ Connects(p)'
  BY <1>1, <1>2, Prompted DEF StopMarked, Connects, HandshakeOver
<1> QED
  BY <1>1, <1>2, <1>3, <1>4, <1>5, <1>6, <1>7, Quiet

LEMMA BlockReturnsKeeps ==
    ASSUME Roles, RegInv, ThType', NEW p \in Users, BlockReturns(p)
    PROVE  RegInv'
<1> USE RolesMean DEF UserInv, Goes, Ends, Holds, UpToDate, Transferring, Failed, Dir, DonePc,
                      everyArrivalReported
<1>1. /\ th[p].pc = "block" /\ th[p].satisfied /\ obj' = obj
      /\ Others(p) /\ th'[p].pc = "look"
      /\ th'[p].cancelled = th[p].cancelled /\ th'[p].stop = th[p].stop
      /\ th'[p].result = th[p].result /\ th'[p].seen = th[p].seen
  BY BlockReturnsMeans DEF RegInv
<1>2. /\ obj' = obj /\ Others(p) /\ th'[Poller] = th[Poller] /\ (Taken(p)' <=> Taken(p))
      /\ UserInv(p) /\ (Reported(Dir(p))' <=> Reported(Dir(p))) /\ ReadyNow' = ReadyNow
  BY <1>1, PartyOnly DEF RegInv
<1>3. PcMatches(p)' /\ Registered(p)'
  BY <1>1, <1>2 DEF PcMatches, Registered, Others
<1>4. HoldsWaker(p)' /\ IsTold(p)'
  BY <1>1, <1>2 DEF HoldsWaker, IsTold, PcMatches
<1>5. SeenIsPast(p)'
  BY <1>1, <1>2 DEF SeenIsPast, RegInv, Type, ObjType
<1>6. EdgeComes(p)' /\ ArmedStays(p)'
  BY <1>1, <1>2 DEF EdgeComes, ArmedStays
<1>7. StopMarked(p)' /\ Connects(p)'
  BY <1>1, <1>2 DEF StopMarked, Connects, HandshakeOver
<1> QED
  BY <1>1, <1>2, <1>3, <1>4, <1>5, <1>6, <1>7, Quiet

LEMMA ListenKeeps ==
    ASSUME Roles, RegInv, ThType', NEW p \in Users, Listen(p)
    PROVE  RegInv'
<1> USE RolesMean DEF UserInv, Goes, Ends, Holds, UpToDate, Transferring, Failed, Dir, DonePc,
                      everyArrivalReported
<1>1. /\ th[p].pc = "listen" /\ obj' = obj
      /\ Others(p) /\ th'[p].pc \in {"drive", "listen"}
      /\ th'[p].stop = "over" => th[p].stop = "over"
      /\ th'[p].satisfied = th[p].satisfied /\ th'[p].cancelled = th[p].cancelled
      /\ th'[p].result = th[p].result /\ th'[p].seen = th[p].seen
  BY ListenMeans DEF RegInv
<1>2. /\ obj' = obj /\ Others(p) /\ th'[Poller] = th[Poller] /\ (Taken(p)' <=> Taken(p))
      /\ UserInv(p) /\ (Reported(Dir(p))' <=> Reported(Dir(p))) /\ ReadyNow' = ReadyNow
  BY <1>1, PartyOnly DEF RegInv
<1>3. PcMatches(p)' /\ Registered(p)'
  BY <1>1, <1>2 DEF PcMatches, Registered, Others
<1>4. HoldsWaker(p)' /\ IsTold(p)'
  BY <1>1, <1>2 DEF HoldsWaker, IsTold, PcMatches
<1>5. SeenIsPast(p)'
  BY <1>1, <1>2 DEF SeenIsPast, RegInv, Type, ObjType
<1>6. EdgeComes(p)' /\ ArmedStays(p)'
  BY <1>1, <1>2 DEF EdgeComes, ArmedStays
<1>7. StopMarked(p)' /\ Connects(p)'
  BY <1>1, <1>2 DEF StopMarked, Connects, HandshakeOver
<1> QED
  BY <1>1, <1>2, <1>3, <1>4, <1>5, <1>6, <1>7, Quiet

LEMMA FinishKeeps ==
    ASSUME Roles, RegInv, ThType', NEW p \in Users, Finish(p)
    PROVE  RegInv'
<1> USE RolesMean DEF UserInv, Goes, Ends, Holds, UpToDate, Transferring, Failed, Dir, DonePc,
                      everyArrivalReported
<1>1. th[p].pc = "finish" /\ th[p].stop # "running" /\ Goes(p, "done") /\ obj' = obj
  BY FinishMeans DEF RegInv
<1>2. /\ obj' = obj /\ Others(p) /\ th'[Poller] = th[Poller] /\ (Taken(p)' <=> Taken(p))
      /\ UserInv(p) /\ (Reported(Dir(p))' <=> Reported(Dir(p))) /\ ReadyNow' = ReadyNow
  BY <1>1, PartyOnly DEF RegInv
<1>3. PcMatches(p)' /\ Registered(p)'
  BY <1>1, <1>2 DEF PcMatches, Registered, Others
<1>4. HoldsWaker(p)' /\ IsTold(p)'
  BY <1>1, <1>2 DEF HoldsWaker, IsTold, PcMatches
<1>5. SeenIsPast(p)'
  BY <1>1, <1>2 DEF SeenIsPast, RegInv, Type, ObjType
<1>6. EdgeComes(p)' /\ ArmedStays(p)'
  BY <1>1, <1>2 DEF EdgeComes, ArmedStays
<1>7. StopMarked(p)' /\ Connects(p)'
  BY <1>1, <1>2 DEF StopMarked, Connects, HandshakeOver
<1> QED
  BY <1>1, <1>2, <1>3, <1>4, <1>5, <1>6, <1>7, Quiet

LEMMA DeadlineKeeps ==
    ASSUME Roles, RegInv, ThType', NEW p \in Users, DeadlinePasses(p)
    PROVE  RegInv'
<1> USE RolesMean DEF UserInv, Goes, Ends, Holds, UpToDate, Transferring, Failed, Dir, DonePc,
                      Retry, everyArrivalReported
<1>1. /\ th[p].pc = "block" /\ obj' = obj
      /\ Goes(p, IF UpToDate(p) THEN "detach" ELSE Retry(p))
  BY DeadlineMeans DEF RegInv
<1>2. /\ obj' = obj /\ Others(p) /\ th'[Poller] = th[Poller] /\ (Taken(p)' <=> Taken(p))
      /\ UserInv(p) /\ (Reported(Dir(p))' <=> Reported(Dir(p))) /\ ReadyNow' = ReadyNow
  BY <1>1, PartyOnly DEF RegInv
<1>3. PcMatches(p)' /\ Registered(p)'
  BY <1>1, <1>2 DEF PcMatches, Registered, Others
<1>4. HoldsWaker(p)' /\ IsTold(p)'
  BY <1>1, <1>2 DEF HoldsWaker, IsTold, PcMatches
<1>5. SeenIsPast(p)'
  BY <1>1, <1>2 DEF SeenIsPast, RegInv, Type, ObjType
<1>6. EdgeComes(p)' /\ ArmedStays(p)'
  BY <1>1, <1>2 DEF EdgeComes, ArmedStays
<1>7. StopMarked(p)' /\ Connects(p)'
  BY <1>1, <1>2, Prompted DEF StopMarked, Connects, HandshakeOver
<1> QED
  BY <1>1, <1>2, <1>3, <1>4, <1>5, <1>6, <1>7, Quiet

LEMMA ForcedUnwindKeeps ==
    ASSUME Roles, RegInv, ThType', NEW p \in Users, ForcedUnwind(p)
    PROVE  RegInv'
<1> USE RolesMean DEF UserInv, Goes, Ends, Holds, UpToDate, Transferring, Failed, Dir, DonePc,
                      everyArrivalReported
<1>1. th[p].pc = "block" /\ obj' = obj /\ Goes(p, "unwind")
  BY ForcedUnwindMeans DEF RegInv
<1>2. /\ obj' = obj /\ Others(p) /\ th'[Poller] = th[Poller] /\ (Taken(p)' <=> Taken(p))
      /\ UserInv(p) /\ (Reported(Dir(p))' <=> Reported(Dir(p))) /\ ReadyNow' = ReadyNow
  BY <1>1, PartyOnly DEF RegInv
<1>3. PcMatches(p)' /\ Registered(p)'
  BY <1>1, <1>2 DEF PcMatches, Registered, Others
<1>4. HoldsWaker(p)' /\ IsTold(p)'
  BY <1>1, <1>2 DEF HoldsWaker, IsTold, PcMatches
<1>5. SeenIsPast(p)'
  BY <1>1, <1>2 DEF SeenIsPast, RegInv, Type, ObjType
<1>6. EdgeComes(p)' /\ ArmedStays(p)'
  BY <1>1, <1>2 DEF EdgeComes, ArmedStays
<1>7. StopMarked(p)' /\ Connects(p)'
  BY <1>1, <1>2 DEF StopMarked, Connects, HandshakeOver
<1> QED
  BY <1>1, <1>2, <1>3, <1>4, <1>5, <1>6, <1>7, Quiet

LEMMA RequestStopKeeps ==
    ASSUME Roles, RegInv, ThType', NEW p \in Users, RequestStop(p)
    PROVE  RegInv'
<1> USE RolesMean DEF UserInv, Goes, Ends, Holds, UpToDate, Transferring, Failed, Dir, DonePc,
                      everyArrivalReported
<1>1. /\ p \in Ops /\ th[p].pc # "done" /\ obj' = obj /\ Others(p)
      /\ th'[p].stop \in {"requested", "running"} /\ th'[p].pc = th[p].pc
      /\ th'[p].satisfied = th[p].satisfied /\ th'[p].cancelled = th[p].cancelled
      /\ th'[p].result = th[p].result /\ th'[p].seen = th[p].seen
  BY RequestStopMeans DEF RegInv
<1>2. /\ obj' = obj /\ Others(p) /\ th'[Poller] = th[Poller] /\ (Taken(p)' <=> Taken(p))
      /\ UserInv(p) /\ (Reported(Dir(p))' <=> Reported(Dir(p))) /\ ReadyNow' = ReadyNow
  BY <1>1, PartyOnly DEF RegInv
<1>3. PcMatches(p)' /\ Registered(p)'
  BY <1>1, <1>2 DEF PcMatches, Registered, Others
<1>4. HoldsWaker(p)' /\ IsTold(p)'
  BY <1>1, <1>2 DEF HoldsWaker, IsTold, PcMatches
<1>5. SeenIsPast(p)'
  BY <1>1, <1>2 DEF SeenIsPast, RegInv, Type, ObjType
<1>6. EdgeComes(p)' /\ ArmedStays(p)'
  BY <1>1, <1>2 DEF EdgeComes, ArmedStays
<1>7. StopMarked(p)' /\ Connects(p)'
  BY <1>1, <1>2 DEF StopMarked, Connects, HandshakeOver
<1> QED
  BY <1>1, <1>2, <1>3, <1>4, <1>5, <1>6, <1>7, Quiet

-----------------------------------------------------------------------------
(* Steps that change the descriptor.                                       *)

SameKernel ==
    /\ obj'.is = obj.is /\ obj'.backend = obj.backend /\ obj'.stream = obj.stream
    /\ obj'.hand = obj.hand /\ obj'.level = obj.level /\ obj'.ended = obj.ended
    /\ obj'.table = obj.table /\ obj'.edge = obj.edge
SamePoll == obj'.armed = obj.armed /\ obj'.poke = obj.poke
SameWakers == obj'.waker = obj.waker /\ obj'.events = obj.events
SameMemory ==
    obj'.closed = obj.closed /\ obj'.exhausted = obj.exhausted /\ obj'.exhaustedAt = obj.exhaustedAt

\* What is said of the descriptor as a whole, but for the wakers.
LEMMA GlobalStays ==
    ASSUME Roles, RegInv, NEW p \in Users, Others(p), SameKernel, SameMemory,
           obj'.events = obj.events, ObjType', ThType', WakersTyped',
           Transferring(p)' => \/ Transferring(p)
                               \/ \A q \in Users \ {p} : Transferring(q) => Dir(q) # Dir(p)
    PROVE  Type' /\ Global'
<1>1. th'[Poller] = th[Poller] /\ Chain' = Chain
  BY PartyOnly
<1>2. Type'
  BY <1>1 DEF RegInv, Type, PollerPc, everyArrivalReported, SameKernel
<1>3. \A q \in Users \ {p} : Transferring(q)' <=> Transferring(q)
  BY RolesMean DEF Others, Transferring
<1>4. OnePerDirection'
  BY <1>3 DEF OnePerDirection, RegInv, Global, Dir
<1>5. HandInv' /\ EndsReported'
  BY <1>1 DEF RegInv, Global, HandInv, EndsReported, everyArrivalReported, SameKernel, SameMemory
<1>6. Exhaustion' /\ HandshakeReported'
  BY <1>1 DEF RegInv, Global, Exhaustion, ExhaustedIsTrue, HandshakeReported, HandshakeOver,
              ReadyNow, everyArrivalReported, SameKernel, SameMemory
<1> QED
  BY <1>2, <1>4, <1>5, <1>6 DEF Global

LEMMA WakerMeans ==
    ASSUME Roles, RegInv, NEW p \in Users, Others(p), NEW who \in Users \cup {NoOne},
           obj' = [obj EXCEPT !.waker[Dir(p)] = who]
    PROVE  /\ SameKernel /\ SamePoll /\ SameMemory /\ obj'.events = obj.events
           /\ ObjType' /\ obj'.waker = [obj.waker EXCEPT ![Dir(p)] = who]
           /\ obj'.waker[Dir(p)] = who
           /\ \A d \in Directions \ {Dir(p)} : obj'.waker[d] = obj.waker[d]
           /\ ReadyNow' = ReadyNow /\ \A d \in Directions : Reported(d)' <=> Reported(d)
<1>1. ObjType' /\ obj'.waker = [obj.waker EXCEPT ![Dir(p)] = who]
  BY WakerTyped DEF RegInv, Type
<1>2. SameKernel /\ SamePoll /\ SameMemory /\ obj'.events = obj.events
  BY DEF RegInv, Type, ObjType, SameKernel, SamePoll, SameMemory
<1>3. /\ obj'.waker[Dir(p)] = who
      /\ \A d \in Directions \ {Dir(p)} : obj'.waker[d] = obj.waker[d]
  BY <1>1, RolesMean DEF RegInv, Type, ObjType
<1>4. ReadyNow' = ReadyNow /\ \A d \in Directions : Reported(d)' <=> Reported(d)
  BY <1>2, PartyOnly DEF ReadyNow, Reported, SameKernel
<1> QED
  BY <1>1, <1>2, <1>3, <1>4

\* The waker of a direction is stored or dropped by the one who transfers.
LEMMA WakerStep ==
    ASSUME Roles, RegInv, ThType', NEW p \in Users, Others(p), NEW who \in Users \cup {NoOne},
           obj' = [obj EXCEPT !.waker[Dir(p)] = who],
           who \in {p, NoOne, obj.waker[Dir(p)]}, who = NoOne => obj.waker[Dir(p)] \in {p, NoOne},
           Transferring(p), UserInv(p)'
    PROVE  RegInv'
<1> USE RolesMean
<1>1. /\ SameKernel /\ SamePoll /\ SameMemory /\ obj'.events = obj.events
      /\ ObjType' /\ obj'.waker = [obj.waker EXCEPT ![Dir(p)] = who]
      /\ obj'.waker[Dir(p)] = who
      /\ \A d \in Directions \ {Dir(p)} : obj'.waker[d] = obj.waker[d]
  BY WakerMeans
<1>3. WakersTyped'
  BY <1>1 DEF WakersTyped, RegInv, Global, Dir
<1>4. Type' /\ Global'
  BY <1>1, <1>3, GlobalStays
<1>5. th'[Poller] = th[Poller] /\ \A q \in Users : Taken(q)' <=> Taken(q)
  BY PartyOnly
<1>6. ASSUME NEW q \in Users \ {p}  PROVE UserInv(q)'
  <2>1. obj'.waker[Dir(q)] = q <=> obj.waker[Dir(q)] = q
    <3>1. CASE Dir(q) # Dir(p)
      BY <1>1, <3>1
    <3>2. CASE Dir(q) = Dir(p)
      <4>1. obj.waker[Dir(q)] # q
        BY <3>2 DEF RegInv, Global, OnePerDirection, UserInv, HoldsWaker, Transferring
      <4> QED
        BY <1>1, <3>2, <4>1
    <3> QED
      BY <3>1, <3>2
  <2>2. Kept(q)
    BY <1>1, <1>5, <2>1 DEF Kept, SameKernel, SamePoll, Reported, ReadyNow, HandshakeOver, Dir
  <2>3. th'[q] = th[q] /\ UserInv(q)
    BY DEF Others, RegInv
  <2> QED
    BY <2>2, <2>3, PartyStays
<1> QED
  BY <1>4, <1>6 DEF RegInv

LEMMA EnqueueKeeps ==
    ASSUME Roles, RegInv, ThType', NEW p \in Users, Enqueue(p)
    PROVE  RegInv'
<1> USE RolesMean DEF UserInv, Goes, Ends, Holds, UpToDate, Transferring, Failed, Dir, DonePc,
                      Retry, everyArrivalReported
<1>1. CASE ~UpToDate(p) /\ Goes(p, Retry(p)) /\ obj' = obj
  <2>1. th[p].pc = "enqueue" /\ ~UpToDate(p) /\ Goes(p, Retry(p)) /\ obj' = obj
    BY <1>1, EnqueueMeans DEF RegInv
  <2>2. /\ th'[Poller] = th[Poller] /\ (Taken(p)' <=> Taken(p)) /\ Others(p)
        /\ UserInv(p) /\ (Reported(Dir(p))' <=> Reported(Dir(p))) /\ ReadyNow' = ReadyNow
    BY <2>1, PartyOnly DEF RegInv
  <2>3. PcMatches(p)' /\ Registered(p)' /\ SeenIsPast(p)'
    BY <2>1, <2>2 DEF PcMatches, Registered, SeenIsPast, Others
  <2>4. HoldsWaker(p)' /\ IsTold(p)'
    BY <2>1, <2>2 DEF HoldsWaker, IsTold, PcMatches
  <2>5. EdgeComes(p)' /\ ArmedStays(p)'
    BY <2>1, <2>2 DEF EdgeComes, ArmedStays, PcMatches
  <2>6. StopMarked(p)' /\ Connects(p)'
    BY <2>1, <2>2, Prompted DEF StopMarked, Connects, HandshakeOver
  <2> QED
    BY <2>1, <2>2, <2>3, <2>4, <2>5, <2>6, Quiet
<1>2. CASE /\ UpToDate(p) /\ Goes(p, IF everyArrivalReported THEN "look" ELSE "arm")
           /\ obj' = [obj EXCEPT !.waker[Dir(p)] = p]
  <2>1. /\ th[p].pc = "enqueue" /\ UpToDate(p)
        /\ Goes(p, IF everyArrivalReported THEN "look" ELSE "arm")
        /\ obj' = [obj EXCEPT !.waker[Dir(p)] = p]
    BY <1>2, EnqueueMeans DEF RegInv
  <2>2. /\ th'[Poller] = th[Poller] /\ (Taken(p)' <=> Taken(p)) /\ Others(p)
        /\ UserInv(p) /\ (Reported(Dir(p))' <=> Reported(Dir(p))) /\ ReadyNow' = ReadyNow
        /\ obj'.waker[Dir(p)] = p /\ SameKernel /\ SamePoll /\ obj'.events = obj.events
    BY <2>1, PartyOnly, WakerMeans DEF RegInv
  <2>3. PcMatches(p)' /\ Registered(p)' /\ SeenIsPast(p)'
    BY <2>1, <2>2 DEF SameKernel, SamePoll, PcMatches, Registered, SeenIsPast, Others
  <2>4. HoldsWaker(p)' /\ IsTold(p)'
    BY <2>1, <2>2 DEF SameKernel, SamePoll, HoldsWaker, IsTold, PcMatches
  <2>5. EdgeComes(p)' /\ ArmedStays(p)'
    BY <2>1, <2>2 DEF SameKernel, SamePoll, EdgeComes, ArmedStays, PcMatches
  <2>6. StopMarked(p)' /\ Connects(p)'
    BY <2>1, <2>2, Prompted DEF SameKernel, SamePoll, StopMarked, Connects, HandshakeOver
  <2> QED
    BY <2>1, <2>2, <2>3, <2>4, <2>5, <2>6, WakerStep
<1> QED
  BY <1>1, <1>2, EnqueueMeans DEF RegInv

LEMMA WatchKeeps ==
    ASSUME Roles, RegInv, ThType', NEW p \in Users, watch(p)
    PROVE  RegInv'
<1> USE RolesMean DEF UserInv, Goes, Ends, Holds, UpToDate, Transferring, Failed, Dir, DonePc,
                      Retry, everyArrivalReported
<1>0. th[p].pc = "watch" \/ (th[p].pc = "drive" /\ everyArrivalReported)
  BY WatchMeans DEF RegInv
<1>1. CASE /\ obj' = obj
           /\ \/ Ends(p, DonePc(p), "stopped", th[p].seen)
              \/ ~UpToDate(p) /\ Goes(p, Retry(p))
  <2>1. /\ th[p].pc \in {"watch", "drive"} /\ obj' = obj
        /\ \/ Ends(p, DonePc(p), "stopped", th[p].seen)
           \/ ~UpToDate(p) /\ Goes(p, Retry(p))
    BY <1>0, <1>1
  <2>2. /\ th'[Poller] = th[Poller] /\ (Taken(p)' <=> Taken(p)) /\ Others(p)
        /\ UserInv(p) /\ (Reported(Dir(p))' <=> Reported(Dir(p))) /\ ReadyNow' = ReadyNow
    BY <2>1, PartyOnly DEF RegInv
  <2>3. PcMatches(p)' /\ Registered(p)' /\ SeenIsPast(p)'
    BY <2>1, <2>2 DEF PcMatches, Registered, SeenIsPast, Others
  <2>4. HoldsWaker(p)' /\ IsTold(p)'
    BY <2>1, <2>2 DEF HoldsWaker, IsTold, PcMatches
  <2>5. EdgeComes(p)' /\ ArmedStays(p)'
    BY <2>1, <2>2 DEF EdgeComes, ArmedStays, PcMatches
  <2>6. StopMarked(p)' /\ Connects(p)'
    BY <2>1, <2>2, Prompted DEF StopMarked, Connects, HandshakeOver
  <2> QED
    BY <2>1, <2>2, <2>3, <2>4, <2>5, <2>6, Quiet
<1>2. CASE /\ ~th[p].cancelled /\ UpToDate(p) /\ Goes(p, "queued")
           /\ obj' = [obj EXCEPT !.waker[Dir(p)] = p]
  <2>1. /\ th[p].pc = "watch" \/ (th[p].pc = "drive" /\ everyArrivalReported)
        /\ ~th[p].cancelled /\ UpToDate(p) /\ Goes(p, "queued")
        /\ obj' = [obj EXCEPT !.waker[Dir(p)] = p]
    BY <1>0, <1>2
  <2>2. /\ th'[Poller] = th[Poller] /\ (Taken(p)' <=> Taken(p)) /\ Others(p)
        /\ UserInv(p) /\ (Reported(Dir(p))' <=> Reported(Dir(p))) /\ ReadyNow' = ReadyNow
        /\ obj'.waker[Dir(p)] = p /\ SameKernel /\ SamePoll /\ obj'.events = obj.events
    BY <2>1, PartyOnly, WakerMeans DEF RegInv
  <2>3. PcMatches(p)' /\ Registered(p)' /\ SeenIsPast(p)'
    BY <2>1, <2>2 DEF SameKernel, SamePoll, PcMatches, Registered, SeenIsPast, Others
  <2>4. HoldsWaker(p)' /\ IsTold(p)'
    BY <2>1, <2>2 DEF SameKernel, SamePoll, HoldsWaker, IsTold, PcMatches
  <2>5. EdgeComes(p)' /\ ArmedStays(p)'
    BY <2>1, <2>2 DEF SameKernel, SamePoll, EdgeComes, ArmedStays, PcMatches
  <2>6. StopMarked(p)' /\ Connects(p)'
    BY <2>1, <2>2, Prompted DEF SameKernel, SamePoll, StopMarked, Connects, HandshakeOver
  <2> QED
    BY <2>1, <2>2, <2>3, <2>4, <2>5, <2>6, WakerStep
<1> QED
  BY <1>1, <1>2, WatchMeans DEF RegInv

LEMMA UnwatchKeeps ==
    ASSUME Roles, RegInv, ThType', NEW p \in Users, unwatch(p)
    PROVE  RegInv'
<1> USE RolesMean DEF UserInv, Goes, Ends, Holds, UpToDate, Transferring, Failed, Dir, DonePc,
                      Retry, everyArrivalReported
<1>0. /\ p \in Ops /\ th[p].stop = "running"
      /\ obj' = IF obj.waker[Dir(p)] = p THEN [obj EXCEPT !.waker[Dir(p)] = NoOne] ELSE obj
      /\ IF obj.waker[Dir(p)] = p
         THEN th'[p].cancelled = th[p].cancelled /\ th'[p].pc = "finish"
              /\ th'[p].result = "stopped"
         ELSE th'[p].cancelled /\ th'[p].pc = th[p].pc /\ th'[p].result = th[p].result
      /\ Others(p) /\ th'[p].stop = "over"
      /\ th'[p].satisfied = th[p].satisfied /\ th'[p].seen = th[p].seen
  BY UnwatchMeans DEF RegInv, Type
<1>1. CASE obj.waker[Dir(p)] # p
  <2>1. /\ p \in Ops /\ obj.waker[Dir(p)] # p /\ obj' = obj /\ Others(p)
        /\ th[p].stop = "running" /\ th'[p].cancelled /\ th'[p].stop = "over"
        /\ th'[p].pc = th[p].pc /\ th'[p].result = th[p].result
        /\ th'[p].satisfied = th[p].satisfied /\ th'[p].seen = th[p].seen
    BY <1>0, <1>1
  <2>2. /\ th'[Poller] = th[Poller] /\ (Taken(p)' <=> Taken(p)) /\ Others(p)
        /\ UserInv(p) /\ (Reported(Dir(p))' <=> Reported(Dir(p))) /\ ReadyNow' = ReadyNow
    BY <2>1, PartyOnly DEF RegInv
  <2>3. PcMatches(p)' /\ Registered(p)' /\ SeenIsPast(p)'
    BY <2>1, <2>2 DEF PcMatches, Registered, SeenIsPast, Others
  <2>4. HoldsWaker(p)' /\ IsTold(p)'
    BY <2>1, <2>2 DEF HoldsWaker, IsTold, PcMatches
  <2>5. EdgeComes(p)' /\ ArmedStays(p)'
    BY <2>1, <2>2 DEF EdgeComes, ArmedStays, PcMatches
  <2>6. StopMarked(p)' /\ Connects(p)'
    BY <2>1, <2>2, Prompted DEF StopMarked, IsTold, Connects, HandshakeOver
  <2> QED
    BY <2>1, <2>2, <2>3, <2>4, <2>5, <2>6, Quiet
<1>2. CASE obj.waker[Dir(p)] = p
  <2>1. /\ p \in Ops /\ obj.waker[Dir(p)] = p /\ Others(p)
        /\ obj' = [obj EXCEPT !.waker[Dir(p)] = NoOne]
        /\ th'[p].stop = "over" /\ th'[p].pc = "finish" /\ th'[p].result = "stopped"
        /\ th'[p].satisfied = th[p].satisfied /\ th'[p].seen = th[p].seen
    BY <1>0, <1>2
  <2>2. /\ th'[Poller] = th[Poller] /\ (Taken(p)' <=> Taken(p)) /\ Others(p)
        /\ UserInv(p) /\ (Reported(Dir(p))' <=> Reported(Dir(p))) /\ ReadyNow' = ReadyNow
        /\ obj'.waker[Dir(p)] = NoOne /\ SameKernel /\ SamePoll /\ obj'.events = obj.events
    BY <2>1, PartyOnly, WakerMeans DEF RegInv
  <2>3. PcMatches(p)' /\ Registered(p)' /\ SeenIsPast(p)'
    BY <2>1, <2>2 DEF SameKernel, SamePoll, PcMatches, Registered, SeenIsPast, Others
  <2>4. HoldsWaker(p)' /\ IsTold(p)'
    BY <2>1, <2>2 DEF SameKernel, SamePoll, HoldsWaker, IsTold, PcMatches
  <2>5. EdgeComes(p)' /\ ArmedStays(p)'
    BY <2>1, <2>2 DEF SameKernel, SamePoll, EdgeComes, ArmedStays, PcMatches
  <2>6. StopMarked(p)' /\ Connects(p)'
    BY <2>1, <2>2, Prompted DEF SameKernel, SamePoll, StopMarked, Connects, HandshakeOver
  <2>7. Transferring(p)
    BY <2>1, <2>2 DEF HoldsWaker
  <2> QED
    BY <2>1, <2>2, <2>3, <2>4, <2>5, <2>6, <2>7, WakerStep
<1> QED
  BY <1>1, <1>2

LEMMA DetachKeeps ==
    ASSUME Roles, RegInv, ThType', NEW p \in Users, detach(p)
    PROVE  RegInv'
<1> USE RolesMean DEF UserInv, Goes, Ends, Holds, UpToDate, Transferring, Failed, Dir, DonePc,
                      Retry, everyArrivalReported
<1> DEFINE who == IF obj.waker[Dir(p)] = p THEN NoOne ELSE obj.waker[Dir(p)]
<1>0. /\ th[p].pc \in {"detach", "unwind"}
      /\ Ends(p, IF th[p].pc = "unwind" THEN "gone" ELSE "idle", "none", 0)
      /\ obj' = [obj EXCEPT !.waker[Dir(p)] = who]
  BY DetachMeans DEF RegInv
<1>1. who \in Users \cup {NoOne} /\ who # p
  BY DEF RegInv, Type, ObjType
<1>2. who \in {NoOne, obj.waker[Dir(p)]} /\ (who = NoOne => obj.waker[Dir(p)] \in {p, NoOne})
  OBVIOUS
<1> HIDE DEF who
<1>3. RegInv'
  <2>1. /\ th[p].pc \in {"detach", "unwind"} /\ who # p
        /\ Ends(p, IF th[p].pc = "unwind" THEN "gone" ELSE "idle", "none", 0)
        /\ obj' = [obj EXCEPT !.waker[Dir(p)] = who]
    BY <1>0, <1>1
  <2>2. /\ th'[Poller] = th[Poller] /\ (Taken(p)' <=> Taken(p)) /\ Others(p)
        /\ UserInv(p) /\ (Reported(Dir(p))' <=> Reported(Dir(p))) /\ ReadyNow' = ReadyNow
        /\ obj'.waker[Dir(p)] = who /\ SameKernel /\ SamePoll /\ obj'.events = obj.events
    BY <1>1, <2>1, PartyOnly, WakerMeans DEF RegInv
  <2>3. PcMatches(p)' /\ Registered(p)' /\ SeenIsPast(p)'
    BY <2>1, <2>2 DEF SameKernel, SamePoll, PcMatches, Registered, SeenIsPast, Others
  <2>4. HoldsWaker(p)' /\ IsTold(p)'
    BY <2>1, <2>2 DEF SameKernel, SamePoll, HoldsWaker, IsTold, PcMatches
  <2>5. EdgeComes(p)' /\ ArmedStays(p)'
    BY <2>1, <2>2 DEF SameKernel, SamePoll, EdgeComes, ArmedStays, PcMatches
  <2>6. StopMarked(p)' /\ Connects(p)'
    BY <2>1, <2>2, Prompted DEF SameKernel, SamePoll, StopMarked, Connects, HandshakeOver
  <2> QED
    BY <1>1, <1>2, <2>1, <2>2, <2>3, <2>4, <2>5, <2>6, WakerStep
<1> QED
  BY <1>3

LEMMA ArmKeeps ==
    ASSUME Roles, RegInv, ThType', ObjType', NEW p \in Users, Arm(p)
    PROVE  RegInv'
<1> USE RolesMean DEF UserInv, Goes, Ends, Holds, UpToDate, Transferring, Failed, Dir, DonePc,
                      SameKernel, SameWakers, everyArrivalReported
<1>1. /\ th[p].pc = "arm" \/ (th[p].pc = "drive" /\ ~everyArrivalReported)
      /\ Goes(p, "poke") /\ obj' = [obj EXCEPT !.armed = @ \cup {Dir(p)}]
  BY ArmMeans DEF RegInv
<1>2. /\ Others(p) /\ th'[Poller] = th[Poller] /\ UserInv(p)
      /\ \A q \in Users : Taken(q)' <=> Taken(q)
  BY <1>1, PartyOnly DEF RegInv
<1>3. /\ SameKernel /\ SameWakers /\ SameMemory
      /\ obj'.armed = obj.armed \cup {Dir(p)} /\ obj'.poke = obj.poke
  BY <1>1 DEF RegInv, Type, ObjType, SameMemory
<1>4. PcMatches(p)' /\ Registered(p)' /\ SeenIsPast(p)'
  BY <1>1, <1>2, <1>3 DEF PcMatches, Registered, SeenIsPast, Others, Block
<1>5. HoldsWaker(p)' /\ IsTold(p)'
  BY <1>1, <1>2, <1>3 DEF HoldsWaker, IsTold, PcMatches, Block
<1>6. EdgeComes(p)' /\ ArmedStays(p)'
  BY <1>1, <1>2, <1>3 DEF EdgeComes, ArmedStays, PcMatches, Reported, Block
<1>7. StopMarked(p)' /\ Connects(p)'
  BY <1>1, <1>2, <1>3 DEF StopMarked, Connects, HandshakeOver, Block
<1>8. WakersTyped'
  BY <1>3 DEF WakersTyped, RegInv, Global
<1>9. Type' /\ Global'
  BY <1>1, <1>2, <1>3, <1>8, GlobalStays
<1>10. ASSUME NEW q \in Users \ {p}  PROVE UserInv(q)'
  <2>1. Kept(q)
    BY <1>2, <1>3 DEF Kept, Reported, ReadyNow, HandshakeOver
  <2>2. th'[q] = th[q] /\ UserInv(q)
    BY <1>2 DEF Others, RegInv
  <2> QED
    BY <2>1, <2>2, PartyStays
<1> QED
  BY <1>4, <1>5, <1>6, <1>7, <1>9, <1>10 DEF RegInv

LEMMA PokeKeeps ==
    ASSUME Roles, RegInv, ThType', ObjType', NEW p \in Users, Poke(p)
    PROVE  RegInv'
<1> USE RolesMean DEF UserInv, Goes, Ends, Holds, UpToDate, Transferring, Failed, Dir, DonePc,
                      SameKernel, SameWakers, everyArrivalReported
<1>1. /\ th[p].pc = "poke" /\ Goes(p, IF p \in Ops THEN "watch" ELSE "look")
      /\ obj' = [obj EXCEPT !.poke = TRUE]
  BY PokeMeans DEF RegInv
<1>2. /\ Others(p) /\ th'[Poller] = th[Poller] /\ UserInv(p)
      /\ \A q \in Users : Taken(q)' <=> Taken(q)
  BY <1>1, PartyOnly DEF RegInv
<1>3. /\ SameKernel /\ SameWakers /\ SameMemory
      /\ obj'.armed = obj.armed /\ obj'.poke
  BY <1>1 DEF RegInv, Type, ObjType, SameMemory
<1>4. PcMatches(p)' /\ Registered(p)' /\ SeenIsPast(p)'
  BY <1>1, <1>2, <1>3 DEF PcMatches, Registered, SeenIsPast, Others, Block
<1>5. HoldsWaker(p)' /\ IsTold(p)'
  BY <1>1, <1>2, <1>3 DEF HoldsWaker, IsTold, PcMatches, Block
<1>6. EdgeComes(p)' /\ ArmedStays(p)'
  BY <1>1, <1>2, <1>3 DEF EdgeComes, ArmedStays, PcMatches, Reported, Block
<1>7. StopMarked(p)' /\ Connects(p)'
  BY <1>1, <1>2, <1>3 DEF StopMarked, Connects, HandshakeOver, Block
<1>8. WakersTyped'
  BY <1>3 DEF WakersTyped, RegInv, Global
<1>9. Type' /\ Global'
  BY <1>1, <1>2, <1>3, <1>8, GlobalStays
<1>10. ASSUME NEW q \in Users \ {p}  PROVE UserInv(q)'
  <2>1. Kept(q)
    BY <1>2, <1>3 DEF Kept, Reported, ReadyNow, HandshakeOver
  <2>2. th'[q] = th[q] /\ UserInv(q)
    BY <1>2 DEF Others, RegInv
  <2> QED
    BY <2>1, <2>2, PartyStays
<1> QED
  BY <1>4, <1>5, <1>6, <1>7, <1>9, <1>10 DEF RegInv

LEMMA StartKeeps ==
    ASSUME Roles, RegInv, ThType', ObjType', NEW p \in Users, Begin(p) \/ try_now(p)
    PROVE  RegInv'
<1> USE RolesMean DEF UserInv, Goes, Ends, Holds, UpToDate, Transferring, Failed, Dir, DonePc,
                      SameKernel, SamePoll, SameWakers, everyArrivalReported
<1>1. /\ p \notin Connecting /\ th[p].pc = "idle" /\ obj.table /\ DirectionFree(p)
      /\ obj' = [obj EXCEPT !.begun = @ + 1]
      /\ \/ Goes(p, "seen")
         \/ p \in Ops /\ Ends(p, "finish", "stopped", th[p].seen)
  BY StartMeans DEF RegInv
<1>2. /\ Others(p) /\ th'[Poller] = th[Poller] /\ UserInv(p)
      /\ \A q \in Users : Taken(q)' <=> Taken(q)
  BY <1>1, PartyOnly DEF RegInv
<1>3. /\ SameKernel /\ SameWakers /\ SameMemory /\ SamePoll
      /\ obj.hand # "unconnected" /\ Connecting = {}
  BY ZenonT(40), <1>1 DEF RegInv, Type, ObjType, Global, HandInv, Roles, SameMemory
<1>4. PcMatches(p)' /\ Registered(p)' /\ SeenIsPast(p)'
  BY <1>1, <1>2, <1>3 DEF PcMatches, Registered, SeenIsPast, Others, Block
<1>5. HoldsWaker(p)' /\ IsTold(p)'
  BY <1>1, <1>2, <1>3 DEF HoldsWaker, IsTold, PcMatches, Block
<1>6. EdgeComes(p)' /\ ArmedStays(p)'
  BY <1>1, <1>2, <1>3 DEF EdgeComes, ArmedStays, PcMatches, Reported, Block
<1>7. StopMarked(p)' /\ Connects(p)'
  BY <1>1, <1>2, <1>3 DEF StopMarked, Connects, HandshakeOver, Block
<1>8. \A q \in Users \ {p} : Transferring(q) => Dir(q) # Dir(p)
  BY <1>1 DEF DirectionFree, Active
<1>9. WakersTyped'
  BY <1>3 DEF WakersTyped, RegInv, Global
<1>10. Type' /\ Global'
  BY <1>1, <1>2, <1>3, <1>8, <1>9, GlobalStays
<1>11. ASSUME NEW q \in Users \ {p}  PROVE UserInv(q)'
  <2>1. Kept(q)
    BY <1>2, <1>3 DEF Kept, Reported, ReadyNow, HandshakeOver
  <2>2. th'[q] = th[q] /\ UserInv(q)
    BY <1>2 DEF Others, RegInv
  <2> QED
    BY <2>1, <2>2, PartyStays
<1> QED
  BY <1>4, <1>5, <1>6, <1>7, <1>10, <1>11 DEF RegInv

\* A connect begins: nobody has used the descriptor yet.
LEMMA StartConnectKeeps ==
    ASSUME Roles, RegInv, ThType', ObjType', NEW p \in Users, startConnect(p)
    PROVE  RegInv'
<1> USE RolesMean DEF UserInv, Goes, Ends, Holds, UpToDate, Transferring, Failed, Dir, DonePc,
                      SameWakers, SamePoll, SameMemory, everyArrivalReported
<1>0. th[p].pc = "idle" /\ obj.hand = "unconnected" /\ Connecting # {}
  BY StartConnectMeans DEF RegInv
<1>1. CASE \E result \in {"stopped", "error"} :
              Ends(p, DonePc(p), result, th[p].seen) /\ obj' = obj
  <2>1. PICK result \in {"stopped", "error"} :
            Ends(p, DonePc(p), result, th[p].seen) /\ obj' = obj
    BY <1>1
  <2>2. /\ th'[Poller] = th[Poller] /\ (Taken(p)' <=> Taken(p)) /\ Others(p)
        /\ UserInv(p) /\ (Reported(Dir(p))' <=> Reported(Dir(p))) /\ ReadyNow' = ReadyNow
    BY <2>1, PartyOnly DEF RegInv
  <2>3. PcMatches(p)' /\ Registered(p)' /\ SeenIsPast(p)'
    BY <1>0, <2>1, <2>2 DEF PcMatches, Registered, SeenIsPast, Others
  <2>4. HoldsWaker(p)' /\ IsTold(p)'
    BY <1>0, <2>1, <2>2 DEF HoldsWaker, IsTold, PcMatches
  <2>5. EdgeComes(p)' /\ ArmedStays(p)'
    BY <1>0, <2>1, <2>2 DEF EdgeComes, ArmedStays, PcMatches
  <2>6. StopMarked(p)' /\ Connects(p)'
    BY <1>0, <2>1, <2>2 DEF StopMarked, Connects, HandshakeOver
  <2> QED
    BY <2>1, <2>2, <2>3, <2>4, <2>5, <2>6, Quiet
<1>2. CASE Goes(p, "register") /\ obj' = [obj EXCEPT !.hand = "inProgress"]
  <2>1. /\ Others(p) /\ th'[Poller] = th[Poller] /\ UserInv(p) /\ Chain' = Chain
        /\ \A q \in Users : Taken(q)' <=> Taken(q)
    BY <1>2, PartyOnly DEF RegInv
  <2>2. /\ SameWakers /\ SameMemory /\ SamePoll
        /\ obj'.is = obj.is /\ obj'.backend = obj.backend /\ obj'.stream = obj.stream
        /\ obj'.level = obj.level /\ obj'.ended = obj.ended
        /\ obj'.table = obj.table /\ obj'.edge = obj.edge /\ obj'.hand = "inProgress"
    BY <1>2 DEF RegInv, Type, ObjType
  <2>3. \A q \in Users : ~Transferring(q)
    BY <1>0 DEF RegInv, Registered
  <2>4. ~obj.table /\ ~obj.edge
    BY <1>0 DEF RegInv, Global, HandInv
  <2>5. PcMatches(p)' /\ Registered(p)' /\ SeenIsPast(p)'
    BY <1>0, <1>2, <2>1, <2>2 DEF PcMatches, Registered, SeenIsPast, Others, Connects, RegInv,
                                  Type, ObjType
  <2>6. HoldsWaker(p)' /\ IsTold(p)'
    BY <1>0, <1>2, <2>1, <2>2 DEF HoldsWaker, IsTold, PcMatches
  <2>7. EdgeComes(p)' /\ ArmedStays(p)'
    BY <1>2, <2>1, <2>2 DEF EdgeComes, ArmedStays
  <2>8. StopMarked(p)' /\ Connects(p)'
    BY <1>0, <1>2, <2>1, <2>2 DEF StopMarked, Connects, HandshakeOver
  <2>9. ASSUME NEW q \in Users \ {p}  PROVE UserInv(q)'
    <3>1. Kept(q)
      BY <2>1, <2>2, <2>3 DEF Kept, HandshakeOver
    <3>2. th'[q] = th[q] /\ UserInv(q)
      BY <2>1 DEF Others, RegInv
    <3> QED
      BY <3>1, <3>2, PartyStays
  <2>10. Type'
    BY <2>1, <2>2 DEF RegInv, Type, PollerPc
  <2>11. OnePerDirection'
    BY <2>1, <2>3 DEF OnePerDirection, Others
  <2>12. (HandInv /\ WakersTyped /\ EndsReported)'
    BY <1>0, <2>2, <2>4 DEF RegInv, Global, HandInv, WakersTyped, EndsReported
  <2>13. (Exhaustion /\ HandshakeReported)'
    BY <2>1, <2>2, <2>4 DEF RegInv, Global, Exhaustion, ExhaustedIsTrue, HandshakeReported,
                            HandshakeOver
  <2> QED
    BY <2>5, <2>6, <2>7, <2>8, <2>9, <2>10, <2>11, <2>12, <2>13, <2>1 DEF RegInv, Global
<1> QED
  BY <1>1, <1>2, StartConnectMeans DEF RegInv

\* The registration reports what is ready by then.
LEMMA RegisterKeeps ==
    ASSUME Roles, RegInv, ThType', ObjType', NEW p \in Users, Register(p)
    PROVE  RegInv'
<1> USE RolesMean DEF UserInv, Goes, Ends, Holds, UpToDate, Transferring, Failed, Dir,
                      SameWakers, SamePoll, SameMemory, everyArrivalReported
<1>1. /\ th[p].pc = "register" /\ Goes(p, Block(p))
      /\ obj' = [obj EXCEPT !.table = TRUE, !.edge = everyArrivalReported /\ ReadyNow # {}]
  BY RegisterMeans DEF RegInv
<1>2. /\ Others(p) /\ th'[Poller] = th[Poller] /\ UserInv(p) /\ Chain' = Chain
      /\ \A q \in Users : Taken(q)' <=> Taken(q)
  BY <1>1, PartyOnly DEF RegInv
<1>3. /\ SameWakers /\ SameMemory /\ SamePoll
      /\ obj'.is = obj.is /\ obj'.backend = obj.backend /\ obj'.stream = obj.stream
      /\ obj'.level = obj.level /\ obj'.ended = obj.ended /\ obj'.hand = obj.hand
      /\ obj'.table /\ obj'.edge = (everyArrivalReported /\ ReadyNow # {})
  BY ZenonT(40), <1>1 DEF RegInv, Type, ObjType
<1>4. ReadyNow' = ReadyNow
  BY <1>3 DEF ReadyNow
<1>5. Connecting # {} /\ obj.hand # "unconnected"
  BY <1>1, <1>2 DEF Registered
<1>6. \A q \in Users \ {p} : ~Transferring(q)
  BY <1>1, <1>5 DEF RegInv, Global, OnePerDirection, Roles
<1>7. PcMatches(p)' /\ Registered(p)' /\ SeenIsPast(p)'
  <2>1. PcMatches(p)' /\ Registered(p)'
    BY <1>1, <1>2, <1>3, <1>5 DEF PcMatches, Registered, Others, Block
  <2>2. SeenIsPast(p)'
    BY <1>1, <1>2, <1>3, <1>5 DEF SeenIsPast, Connects, RegInv, Type, ObjType
  <2> QED
    BY <2>1, <2>2
<1>8. HoldsWaker(p)' /\ IsTold(p)'
  BY <1>1, <1>2, <1>3 DEF HoldsWaker, IsTold, PcMatches, Block
<1>9. EdgeComes(p)' /\ ArmedStays(p)'
  BY ZenonT(40), <1>1, <1>2, <1>3, <1>4 DEF EdgeComes, ArmedStays, Reported, Block
<1>10. StopMarked(p)' /\ Connects(p)'
  BY <1>1, <1>2, <1>3 DEF StopMarked, Connects, HandshakeOver, Block
<1>11. ASSUME NEW q \in Users \ {p}  PROVE UserInv(q)'
  <2>1. Kept(q)
    BY <1>2, <1>3, <1>6 DEF Kept, HandshakeOver
  <2>2. th'[q] = th[q] /\ UserInv(q)
    BY <1>2 DEF Others, RegInv
  <2> QED
    BY <2>1, <2>2, PartyStays
<1>12. Type'
  BY <1>2, <1>3 DEF RegInv, Type, PollerPc
<1>13. OnePerDirection'
  BY <1>2, <1>6 DEF OnePerDirection, Others
<1>14. (HandInv /\ WakersTyped /\ EndsReported)'
  BY ZenonT(40), <1>3, <1>5 DEF RegInv, Global, HandInv, WakersTyped, EndsReported, ReadyNow
<1>15. (Exhaustion /\ HandshakeReported)'
  BY <1>2, <1>3, <1>4 DEF RegInv, Global, Exhaustion, ExhaustedIsTrue, HandshakeReported,
                          HandshakeOver
<1> QED
  BY <1>7, <1>8, <1>9, <1>10, <1>11, <1>12, <1>13, <1>14, <1>15 DEF RegInv, Global

\* A transfer moves what there is, or none of it.
LEMMA TryCallKeeps ==
    ASSUME Roles, RegInv, ThType', ObjType', NEW p \in Users, tryCall(p)
    PROVE  RegInv'
<1> USE RolesMean DEF UserInv, Goes, Ends, Holds, UpToDate, Transferring, Failed, Dir, DonePc,
                      SameWakers, SamePoll, everyArrivalReported
<1>0. /\ th[p].pc = "call" /\ Connecting = {} /\ obj.table /\ obj.hand # "unconnected"
      /\ th[p].seen <= obj.events[Dir(p)]
  BY TryCallMeans DEF RegInv, Connects, Registered, SeenIsPast
<1>1. CASE Goes(p, Block(p)) /\ obj' = obj
           /\ (exhausted(p) \/ Dir(p) \notin ReadyNow \/ obj.hand = "unconnected")
  <2>1. /\ th[p].pc = "call" /\ obj' = obj /\ Goes(p, Block(p))
        /\ exhausted(p) \/ Dir(p) \notin ReadyNow
    BY <1>0, <1>1
  <2>2. /\ th'[Poller] = th[Poller] /\ (Taken(p)' <=> Taken(p)) /\ Others(p)
        /\ UserInv(p) /\ (Reported(Dir(p))' <=> Reported(Dir(p))) /\ ReadyNow' = ReadyNow
    BY <2>1, PartyOnly DEF RegInv
  <2>3. PcMatches(p)' /\ Registered(p)' /\ SeenIsPast(p)'
    BY <2>1, <2>2 DEF PcMatches, Registered, SeenIsPast, Others, Block
  <2>4. HoldsWaker(p)' /\ IsTold(p)'
    BY <2>1, <2>2 DEF HoldsWaker, IsTold, PcMatches, Block
  <2>5. exhausted(p) /\ UpToDate(p) /\ Dir(p) \in ReadyNow => Reported(Dir(p))
    BY <1>0 DEF exhausted, RegInv, Global, Exhaustion, ExhaustedIsTrue, Reported
  <2>6. EdgeComes(p)' /\ ArmedStays(p)'
    BY <2>1, <2>2, <2>5 DEF EdgeComes, ArmedStays, PcMatches, Block
  <2>7. StopMarked(p)' /\ Connects(p)'
    BY <1>0, <2>1, <2>2 DEF StopMarked, Connects, Block
  <2> QED
    BY <2>1, <2>2, <2>3, <2>4, <2>6, <2>7, Quiet
<1>2. CASE /\ obj' = noteTransfer(p, moved(p))
           /\ \/ Goes(p, "seen")
              \/ Ends(p, IF p \in Ops THEN "finish" ELSE "idle", "value", 0)
  <2> DEFINE d == Dir(p)
             short == obj.stream /\ obj.backend = "epoll" /\ moved(p) # 0 /\ moved(p) < asked(p)
  <2>1. /\ Others(p) /\ th'[Poller] = th[Poller] /\ UserInv(p) /\ Chain' = Chain
        /\ \A q \in Users : Taken(q)' <=> Taken(q)
    BY <1>2, PartyOnly DEF RegInv
  <2>2. moved(p) \in Nat /\ asked(p) \in Nat
        /\ moved(p) <= obj.level[d] /\ (short => moved(p) = obj.level[d])
    BY MovedTyped DEF RegInv, Type
  <2>3. /\ SameWakers /\ SamePoll /\ obj'.closed = obj.closed
        /\ obj'.is = obj.is /\ obj'.backend = obj.backend /\ obj'.stream = obj.stream
        /\ obj'.ended = obj.ended /\ obj'.hand = obj.hand
        /\ obj'.table = obj.table /\ obj'.edge = obj.edge
        /\ obj'.level = [obj.level EXCEPT ![d] = @ - moved(p)]
        /\ obj'.exhausted = IF short THEN obj.exhausted \cup {d} ELSE obj.exhausted \ {d}
        /\ obj'.exhaustedAt = [obj.exhaustedAt EXCEPT ![d] = IF short THEN th[p].seen ELSE 0]
    <3>1. obj \in [DOMAIN obj -> {obj[f] : f \in DOMAIN obj}]
          /\ DOMAIN obj = {"is", "backend", "stream", "table", "hand", "level", "arrivals",
                           "begun", "ended", "edge", "armed", "poke", "events", "waker",
                           "closed", "exhausted", "exhaustedAt"}
      BY DEF RegInv, Type, ObjType
    <3> QED
      BY <1>2, <3>1 DEF noteTransfer, SameWakers, SamePoll
  <2>4. /\ \A e \in Directions \ {d} : /\ obj'.level[e] = obj.level[e]
                                       /\ obj'.exhaustedAt[e] = obj.exhaustedAt[e]
                                       /\ e \in obj'.exhausted <=> e \in obj.exhausted
        /\ obj'.level[d] = obj.level[d] - moved(p) /\ (d \in obj'.exhausted <=> short)
        /\ obj'.exhaustedAt[d] = IF short THEN th[p].seen ELSE 0
    BY <2>3 DEF RegInv, Type, ObjType
  <2> HIDE DEF d, short
  <2>5. /\ \A e \in Directions \ {d} : e \in ReadyNow' <=> e \in ReadyNow
        /\ d \in ReadyNow' => d \in obj.ended \/ ~short
    BY <1>0, <2>2, <2>3, <2>4 DEF ReadyNow, RegInv, Type, ObjType
  <2>6. (PcMatches(p) /\ Registered(p) /\ SeenIsPast(p))'
    BY ZenonT(40), <1>0, <1>2, <2>1, <2>3 DEF PcMatches, Registered, SeenIsPast, Others, RegInv, Type, ObjType
  <2>7. HoldsWaker(p)' /\ IsTold(p)'
    BY <1>0, <1>2, <2>1, <2>3 DEF HoldsWaker, IsTold, PcMatches
  <2>8. EdgeComes(p)' /\ ArmedStays(p)'
    BY <1>0, <1>2, <2>1, <2>3 DEF EdgeComes, ArmedStays
  <2>9. StopMarked(p)' /\ Connects(p)'
    BY <1>0, <1>2, <2>1, <2>3 DEF StopMarked, Connects
  <2>10. ASSUME NEW q \in Users \ {p}  PROVE UserInv(q)'
    <3>1. Transferring(q) => Dir(q) # d
      BY <1>0 DEF RegInv, Global, OnePerDirection, d
    <3>2. Kept(q)
      BY <1>0, <2>1, <2>3, <2>5, <3>1 DEF Kept, Reported
    <3>3. th'[q] = th[q] /\ UserInv(q)
      BY <2>1 DEF Others, RegInv
    <3> QED
      BY <3>2, <3>3, PartyStays
  <2>11. Type'
    BY <2>1, <2>3 DEF RegInv, Type, PollerPc
  <2>12. OnePerDirection'
    <3>1. \A q \in Users : Transferring(q)' => Transferring(q)
      BY <1>0, <2>1 DEF Others
    <3> QED
      BY <3>1 DEF OnePerDirection, RegInv, Global
  <2>13. (HandInv /\ WakersTyped /\ EndsReported)'
    BY <2>1, <2>3 DEF RegInv, Global, HandInv, WakersTyped, EndsReported
  <2>14. HandshakeReported'
    BY <1>0, <2>3 DEF RegInv, Global, HandshakeReported
  <2>15. Exhaustion'
    <3>1. obj.backend # "epoll" => obj'.exhausted = {}
      BY <2>3 DEF RegInv, Global, Exhaustion, short
    <3>2. \A e \in Directions : obj'.exhaustedAt[e] <= obj'.events[e]
      BY <1>0, <2>3, <2>4 DEF RegInv, Global, Exhaustion, Type, ObjType, d
    <3>3. ASSUME NEW e \in obj'.exhausted, e \in ReadyNow', obj'.exhaustedAt[e] = obj'.events[e]
          PROVE  e \in obj'.closed \/ obj'.edge
                 \/ (th'[Poller].pc = "collect" /\ e \in th'[Poller].mask)
      <4>0. e \in Directions
        BY DEF ObjType
      <4>1. CASE e = d
        <5>1. d \in obj.ended /\ obj.backend = "epoll"
          BY <2>4, <2>5, <3>3, <4>1 DEF short
        <5> QED
          BY <1>0, <2>1, <2>3, <4>1, <5>1 DEF RegInv, Global, EndsReported
      <4>2. CASE e # d
        <5>1. e \in obj.exhausted /\ e \in ReadyNow /\ obj.exhaustedAt[e] = obj.events[e]
          BY <2>3, <2>4, <2>5, <3>3, <4>0, <4>2
        <5> QED
          BY <1>0, <2>1, <2>3, <5>1 DEF RegInv, Global, Exhaustion, ExhaustedIsTrue
      <4> QED
        BY <4>1, <4>2
    <3> QED
      BY <2>3, <3>1, <3>2, <3>3 DEF Exhaustion, ExhaustedIsTrue
  <2> QED
    BY <2>6, <2>7, <2>8, <2>9, <2>10, <2>11, <2>12, <2>13, <2>14, <2>15 DEF RegInv, Global
<1> QED
  BY <1>1, <1>2, TryCallMeans DEF RegInv

-----------------------------------------------------------------------------
(* Steps of the kernel, of the poller and of the registration's owner.     *)

\* Nobody but the poller moves; who relies on what is kept loses nothing.
LEMMA WorldStep ==
    ASSUME Roles, RegInv, Type', Global', \A q \in Users : th'[q] = th[q] /\ Kept(q)
    PROVE  RegInv'
<1>1. ASSUME NEW q \in Users  PROVE UserInv(q)'
  BY PartyStays DEF RegInv
<1> QED
  BY <1>1 DEF RegInv

LEMMA HappensKeeps ==
    ASSUME Roles, RegInv, ThType', ObjType',
           (\E d \in Directions : Arrive(d)) \/ PeerEnds({"R"}) \/ PeerEnds(Directions)
    PROVE  RegInv'
<1> USE RolesMean
<1>1. PICK level, ended :
          /\ Happens(level, ended) /\ obj.hand # "unconnected"
          /\ \A d \in Directions : level[d] >= obj.level[d]
          /\ obj.ended \subseteq ended /\ ("W" \in ended => ended = Directions)
  <2>1. obj.level \in [Directions -> Nat] /\ obj.ended \subseteq Directions
        /\ ("W" \in obj.ended => obj.ended = Directions)
    BY DEF RegInv, Type, ObjType, Global, HandshakeReported
  <2>2. ASSUME NEW d \in Directions, Arrive(d)
        PROVE  /\ Happens([obj.level EXCEPT ![d] = @ + 1], obj.ended) /\ obj.hand # "unconnected"
               /\ \A e \in Directions : [obj.level EXCEPT ![d] = @ + 1][e] >= obj.level[e]
    BY <2>1, <2>2 DEF Arrive
  <2>3. ASSUME NEW ended, ended \in {{"R"}, Directions}, PeerEnds(ended)
        PROVE  Happens(obj.level, obj.ended \cup ended) /\ obj.hand # "unconnected"
    BY <2>3 DEF PeerEnds
  <2>4. CASE \E d \in Directions : Arrive(d)
    <3>1. PICK d \in Directions : Arrive(d)
      BY <2>4
    <3> DEFINE level == [obj.level EXCEPT ![d] = @ + 1]
    <3>2. /\ Happens(level, obj.ended) /\ obj.hand # "unconnected"
          /\ \A e \in Directions : level[e] >= obj.level[e]
      BY <2>2, <3>1
    <3> HIDE DEF level
    <3> QED
      BY <2>1, <3>2
  <2>5. ASSUME NEW ended, ended \in {{"R"}, Directions}
        PROVE  obj.ended \cup ended \subseteq Directions
               /\ ("W" \in obj.ended \cup ended => obj.ended \cup ended = Directions)
    BY <2>1, <2>5 DEF Directions
  <2>6. \A d \in Directions : obj.level[d] >= obj.level[d]
    BY <2>1
  <2>7. ASSUME NEW ended, ended \in {{"R"}, Directions}, PeerEnds(ended)
        PROVE  \E level, e : /\ Happens(level, e) /\ obj.hand # "unconnected"
                             /\ \A d \in Directions : level[d] >= obj.level[d]
                             /\ obj.ended \subseteq e /\ ("W" \in e => e = Directions)
    BY <2>3, <2>5, <2>6, <2>7
  <2> QED
    BY <2>4, <2>7
<1>2. /\ SamePoll /\ SameWakers /\ SameMemory /\ th' = th
      /\ obj'.is = obj.is /\ obj'.backend = obj.backend /\ obj'.stream = obj.stream
      /\ obj'.table = obj.table /\ obj'.hand = "over" /\ obj'.level = level /\ obj'.ended = ended
      /\ obj'.edge = (obj.edge \/ (everyArrivalReported /\ obj.table))
  BY <1>1 DEF Happens, RegInv, Type, ObjType, SamePoll, SameWakers, SameMemory
<1>3. obj'.level["W"] \in Nat /\ obj.level["W"] \in Nat /\ obj'.ended \subseteq Directions
      /\ obj'.level["W"] >= obj.level["W"]
  BY <1>1, <1>2 DEF RegInv, Type, ObjType, Directions
<1>4. HandshakeOver => HandshakeOver'
  BY SMTT(20), <1>1, <1>2, <1>3 DEF HandshakeOver
<1>5. ASSUME NEW q \in Users  PROVE Kept(q)
  <2>1. Taken(q)' <=> Taken(q)
    BY <1>2 DEF Taken, Chain
  <2>2. everyArrivalReported /\ th[q].pc \in Failed => obj'.edge
    BY <1>2 DEF RegInv, UserInv, Registered, Transferring, Failed
  <2> QED
    BY <1>2, <1>3, <1>4, <2>1, <2>2
    DEF Kept, SamePoll, SameWakers, SameMemory, Reported, Dir
<1>6. Type'
  BY <1>2 DEF RegInv, Type, PollerPc, everyArrivalReported, Chain
<1>7. (OnePerDirection /\ HandInv /\ WakersTyped)'
  BY <1>2 DEF RegInv, Global, OnePerDirection, Transferring, HandInv, WakersTyped, SameWakers, Dir
<1>8. EndsReported' /\ Exhaustion'
  BY <1>2 DEF RegInv, Global, EndsReported, Exhaustion, ExhaustedIsTrue, SameMemory, SameWakers,
              everyArrivalReported
<1>9. HandshakeReported'
  BY <1>1, <1>2, <1>4 DEF RegInv, Global, HandshakeReported, SameWakers
<1> QED
  BY <1>2, <1>5, <1>6, <1>7, <1>8, <1>9, WorldStep DEF Global

\* The registration is removed, or another begins: nobody transfers.
LEMMA ReusedKeeps ==
    ASSUME Roles, RegInv, ThType', ObjType', RemoveRegistration \/ AddRegistration
    PROVE  RegInv'
<1> USE RolesMean
<1>1. /\ Connecting = {} /\ obj.hand = "over" /\ \A q \in Users : ~Transferring(q)
  BY DEF RemoveRegistration, AddRegistration, Roles, RegInv, Global, HandInv, UserInv, Registered,
         Transferring, Active
<1>2. /\ th' = th /\ obj'.waker = obj.waker /\ obj'.backend = obj.backend /\ obj'.hand = obj.hand
      /\ obj'.edge => obj.edge
  <2>1. CASE RemoveRegistration
    BY <2>1 DEF RemoveRegistration, RegInv, Type, ObjType
  <2>2. CASE AddRegistration
    BY <2>2 DEF AddRegistration, RegInv, Type, ObjType
  <2> QED
    BY <2>1, <2>2
<1>3. ASSUME NEW q \in Users  PROVE Kept(q)
  <2>1. Taken(q)' <=> Taken(q)
    BY <1>2 DEF Taken, Chain
  <2> QED
    BY <1>1, <1>2, <2>1 DEF Kept, Transferring, Failed
<1>4. Type'
  BY <1>2 DEF RegInv, Type, PollerPc, everyArrivalReported, Chain
<1>5. (OnePerDirection /\ HandInv /\ WakersTyped)'
  BY <1>1, <1>2 DEF RegInv, Global, OnePerDirection, Transferring, HandInv, WakersTyped, Dir
<1>6. (EndsReported /\ Exhaustion /\ HandshakeReported)'
  <2>1. CASE RemoveRegistration
    <3>1. /\ ~obj'.table /\ obj'.exhausted = obj.exhausted /\ obj'.exhaustedAt = obj.exhaustedAt
          /\ obj'.events = obj.events /\ obj'.ended = obj.ended
      BY <2>1 DEF RemoveRegistration, RegInv, Type, ObjType
    <3> QED
      BY <1>1, <1>2, <3>1 DEF RegInv, Global, EndsReported, Exhaustion, ExhaustedIsTrue,
                              HandshakeReported, everyArrivalReported
  <2>2. CASE AddRegistration
    <3>1. /\ obj'.exhausted = {} /\ obj'.ended = {}
          /\ \A d \in Directions : obj'.exhaustedAt[d] = 0 /\ obj'.events[d] = 0
      BY <2>2 DEF AddRegistration, RegInv, Type, ObjType
    <3> QED
      BY <1>1, <3>1 DEF EndsReported, Exhaustion, ExhaustedIsTrue, HandshakeReported
  <2> QED
    BY <2>1, <2>2
<1> QED
  BY <1>2, <1>3, <1>4, <1>5, <1>6, WorldStep DEF Global

\* Notify() wakes a party whose waker was taken; it waits for nothing more.
LEMMA NotifyKeeps ==
    ASSUME Roles, RegInv, ThType', ObjType',
           NEW to, to = (IF Connecting = {} THEN "seen" ELSE "finishConnect"), Notify(Poller, to)
    PROVE  RegInv'
<1> USE RolesMean
<1>0. th[Poller].pc = "notify" /\ to \in {"seen", "finishConnect"}
  BY DEF Notify, At
<1>1. /\ obj' = obj
      /\ th'[Poller].pc = IF Chain' = <<>> THEN "idle" ELSE "notify"
      /\ th'[Poller].mask = th[Poller].mask /\ th'[Poller].shut = th[Poller].shut
      /\ \A i, j \in 1 .. Len(Chain') : Chain'[i] = Chain'[j] => i = j
  BY NotifyMeans DEF RegInv
<1>2. PICK w \in Users :
          /\ Taken(w)
          /\ \A q \in Users : Taken(q)' <=> Taken(q) /\ q # w
          /\ \A q \in Users \ {w} : th'[q] = th[q]
          /\ th'[w].satisfied = (w \in Blocking)
          /\ th'[w].pc = IF w \in Ops THEN to ELSE th[w].pc
          /\ th'[w].cancelled = th[w].cancelled /\ th'[w].stop = th[w].stop
          /\ th'[w].chain = th[w].chain /\ th'[w].result = th[w].result
          /\ th'[w].seen = th[w].seen
  BY NotifyMeans DEF RegInv
<1>3. /\ UserInv(w) /\ ~Taken(w)' /\ (w \in Ops => th[w].pc = "queued" /\ obj.waker[Dir(w)] # w)
      /\ \A d \in Directions : Reported(d)' <=> Reported(d)
      /\ ReadyNow' = ReadyNow
  BY <1>0, <1>1, <1>2 DEF RegInv, UserInv, IsTold, Reported, ReadyNow
<1> USE DEF UserInv, UpToDate, Transferring, Failed, Dir, everyArrivalReported
<1>4. PcMatches(w)' /\ Registered(w)' /\ SeenIsPast(w)'
  BY <1>1, <1>2, <1>3 DEF PcMatches, Registered, SeenIsPast
<1>5. HoldsWaker(w)' /\ IsTold(w)'
  <2>1. CASE w \in Ops
    BY <1>0, <1>1, <1>2, <1>3, <2>1 DEF HoldsWaker, IsTold
  <2>2. CASE w \notin Ops
    <3>1. w \in Blocking
      BY <2>2
    <3>2. th'[w].satisfied /\ th'[w].pc = th[w].pc
      BY <1>2, <2>2, <3>1
    <3> QED
      BY <1>1, <1>2, <1>3, <2>2, <3>2 DEF HoldsWaker, IsTold
  <2> QED
    BY <2>1, <2>2
<1>6. EdgeComes(w)'
  BY <1>1, <1>2, <1>3 DEF EdgeComes
<1>7. ArmedStays(w)'
  BY <1>1, <1>2, <1>3 DEF ArmedStays
<1>8. StopMarked(w)' /\ Connects(w)'
  BY <1>1, <1>2, <1>3 DEF StopMarked, Connects, HandshakeOver
<1>9. ASSUME NEW q \in Users \ {w}  PROVE UserInv(q)'
  <2>1. Kept(q)
    BY <1>1, <1>2, <1>3 DEF Kept, HandshakeOver
  <2>2. th'[q] = th[q] /\ UserInv(q)
    BY <1>2 DEF RegInv
  <2> QED
    BY <2>1, <2>2, PartyStays
<1>10. Type'
  BY <1>1 DEF Type, PollerPc
<1>11. OnePerDirection'
  <2>1. \A q \in Users : Transferring(q)' => Transferring(q)
    BY <1>2, <1>3
  <2> QED
    BY <2>1 DEF OnePerDirection, RegInv, Global
<1>12. (HandInv /\ WakersTyped /\ EndsReported)'
  BY <1>0, <1>1 DEF RegInv, Global, HandInv, WakersTyped, EndsReported
<1>13. (Exhaustion /\ HandshakeReported)'
  BY <1>0, <1>1, <1>3 DEF RegInv, Global, Exhaustion, ExhaustedIsTrue, HandshakeReported,
                          HandshakeOver
<1> QED
  BY <1>4, <1>5, <1>6, <1>7, <1>8, <1>9, <1>10, <1>11, <1>12, <1>13 DEF RegInv, Global

\* The poller looks: what it takes from the kernel it has in hand.
LEMMA LooksKeeps ==
    ASSUME Roles, RegInv, ThType', ObjType', epoll_wait \/ snapshot \/ poll \/ PollTimesOut
    PROVE  RegInv'
<1> USE RolesMean
<1>1. /\ Chain' = Chain /\ Chain = <<>> /\ \A q \in Users : th'[q] = th[q]
      /\ \/ /\ epoll_wait /\ th'[Poller].mask = ReadyNow /\ th'[Poller].shut = obj.ended
            /\ th'[Poller].pc = IF ReadyNow = {} THEN "idle" ELSE "collect"
         \/ /\ snapshot /\ th'[Poller].pc = "polling"
            /\ th'[Poller].mask = IF obj.table THEN obj.armed ELSE {}
         \/ /\ poll
            /\ \A d \in th'[Poller].mask :
                  th[Poller].mask # {} /\ (d \in ReadyNow \/ obj.ended = Directions)
            /\ th'[Poller].pc = IF th'[Poller].mask = {} THEN "idle" ELSE "collect"
         \/ PollTimesOut /\ th'[Poller].pc = "idle" /\ th'[Poller].mask = {}
  BY PollerMeans DEF RegInv
<1>2. /\ \A q \in Users : Taken(q)' <=> Taken(q)
      /\ \A q \in Users : Transferring(q)' <=> Transferring(q)
  BY <1>1 DEF Taken, Transferring
<1>3. /\ SameWakers /\ SameMemory /\ obj'.armed = obj.armed
      /\ obj'.is = obj.is /\ obj'.backend = obj.backend /\ obj'.stream = obj.stream
      /\ obj'.hand = obj.hand /\ obj'.level = obj.level /\ obj'.ended = obj.ended
      /\ obj'.table = obj.table /\ (~epoll_wait => obj'.edge = obj.edge)
  <2>1. CASE epoll_wait
    BY <2>1 DEF epoll_wait, RegInv, Type, ObjType, SameWakers, SameMemory
  <2>2. CASE snapshot \/ PollTimesOut
    BY <2>2 DEF snapshot, PollTimesOut, SameWakers, SameMemory
  <2>3. CASE poll
    <3>1. obj' = [obj EXCEPT !.poke = FALSE]
      BY <2>3 DEF poll
    <3> QED
      BY <3>1 DEF RegInv, Type, ObjType, SameWakers, SameMemory
  <2> QED
    BY <1>1, <2>1, <2>2, <2>3
<1>4. ReadyNow' = ReadyNow /\ (HandshakeOver' <=> HandshakeOver)
  BY <1>3 DEF ReadyNow, HandshakeOver
<1>5. /\ epoll_wait => everyArrivalReported /\ obj.edge
      /\ snapshot \/ poll \/ PollTimesOut => ~everyArrivalReported
      /\ snapshot => obj' = obj
  BY DEF epoll_wait, snapshot, poll, PollTimesOut, At, RegInv, Type, PollerPc
<1>6. epoll_wait => obj.hand # "unconnected" /\ obj.ended \subseteq ReadyNow
  BY <1>5 DEF RegInv, Global, HandInv, ReadyNow
<1>7. \A d \in Directions : Reported(d) /\ d \in ReadyNow /\ everyArrivalReported => Reported(d)'
  BY <1>1, <1>5 DEF Reported
<1>8. ASSUME NEW q \in Users  PROVE UserInv(q)'
  <2>1. UserInv(q) /\ th'[q] = th[q]
    BY <1>1 DEF RegInv
  <2> USE DEF UserInv, UpToDate, Transferring, Failed, Dir, everyArrivalReported, SameWakers
  <2>2. PcMatches(q)' /\ Registered(q)' /\ SeenIsPast(q)'
    BY <1>3, <2>1 DEF PcMatches, Registered, SeenIsPast
  <2>3. HoldsWaker(q)' /\ IsTold(q)'
    BY <1>2, <1>3, <2>1 DEF HoldsWaker, IsTold
  <2>4. EdgeComes(q)'
    BY <1>3, <1>4, <1>7, <2>1 DEF EdgeComes
  <2>5. ArmedStays(q)'
    BY <1>1, <1>3, <1>5, <2>1 DEF ArmedStays, Registered
  <2>6. StopMarked(q)' /\ Connects(q)'
    BY <1>2, <1>3, <1>4, <2>1 DEF StopMarked, Connects
  <2> QED
    BY <2>2, <2>3, <2>4, <2>5, <2>6
<1>9. Type'
  <2>1. /\ th'[Poller].pc \in {"idle", "polling", "collect"}
        /\ th'[Poller].pc = "polling" => ~everyArrivalReported
    BY <1>1, <1>5
  <2> QED
    BY <1>1, <1>3, <2>1 DEF Type, PollerPc, everyArrivalReported
<1>10. OnePerDirection' /\ WakersTyped'
  BY <1>2, <1>3 DEF OnePerDirection, WakersTyped, RegInv, Global, SameWakers, Dir
<1>11. HandInv'
  BY <1>1, <1>3, <1>6 DEF HandInv, RegInv, Global
<1>12. EndsReported'
  BY <1>1, <1>3, <1>5, <1>6 DEF EndsReported, RegInv, Global, everyArrivalReported, SameMemory
<1>13. Exhaustion'
  BY <1>1, <1>3, <1>4, <1>5 DEF Exhaustion, ExhaustedIsTrue, RegInv, Global, everyArrivalReported,
                                SameMemory, SameWakers
<1>14. HandshakeReported'
  <2>1. th'[Poller].pc = "collect" /\ "W" \in th'[Poller].mask => HandshakeOver
    <3>1. "W" \in ReadyNow /\ obj.hand # "unconnected" => HandshakeOver
      BY DEF ReadyNow, HandshakeOver, RegInv, Global, HandshakeReported
    <3>2. poll /\ th[Poller].mask # {} => obj.hand # "unconnected"
      BY DEF RegInv, Global, HandInv
    <3> QED
      BY <1>1, <1>6, <3>1, <3>2 DEF HandshakeOver
  <2> QED
    BY <1>3, <1>4, <2>1 DEF HandshakeReported, RegInv, Global, SameWakers
<1> QED
  BY <1>8, <1>9, <1>10, <1>11, <1>12, <1>13, <1>14 DEF RegInv, Global

\* collect(): who is taken from the registration is counted, and in the chain.
LEMMA CollectKeeps ==
    ASSUME Roles, RegInv, ThType', ObjType', Collect
    PROVE  RegInv'
<1> USE RolesMean
<1> DEFINE mask == th[Poller].mask
           real == obj.table /\ (everyArrivalReported \/ obj.armed # {})
<1>1. /\ \A q \in Users : th'[q] = th[q]
      /\ th'[Poller].mask = {} /\ th'[Poller].shut = {}
      /\ th'[Poller].pc = IF Chain' = <<>> THEN "idle" ELSE "notify"
      /\ \A i, j \in 1 .. Len(Chain') : Chain'[i] = Chain'[j] => i = j
      /\ \A q \in Users : Taken(q)' <=> real /\ Dir(q) \in mask /\ obj.waker[Dir(q)] = q
  BY CollectMeans DEF RegInv, Global
<1>2. th[Poller].pc = "collect" /\ \A q \in Users : ~Taken(q)
  BY DEF Collect, At, RegInv, Type, PollerPc, Taken
<1> HIDE DEF real
<1>3. /\ obj'.is = obj.is /\ obj'.backend = obj.backend /\ obj'.stream = obj.stream
      /\ obj'.hand = obj.hand /\ obj'.level = obj.level /\ obj'.ended = obj.ended
      /\ obj'.table = obj.table /\ obj'.edge = obj.edge
      /\ obj'.exhausted = obj.exhausted /\ obj'.exhaustedAt = obj.exhaustedAt
      /\ real => /\ obj'.closed = obj.closed \cup th[Poller].shut
                 /\ obj'.armed = obj.armed \ mask
                 /\ obj'.events = [d \in Directions |-> obj.events[d] + (IF d \in mask THEN 1 ELSE 0)]
                 /\ obj'.waker = [d \in Directions |-> IF d \in mask THEN NoOne ELSE obj.waker[d]]
  <2>1. CASE real
    <3>1. PICK closed, armed, events, waker :
              /\ obj' = [obj EXCEPT !.closed = closed, !.armed = armed, !.events = events,
                                    !.waker = waker]
              /\ closed = obj.closed \cup th[Poller].shut /\ armed = obj.armed \ mask
              /\ events = [d \in Directions |-> obj.events[d] + (IF d \in mask THEN 1 ELSE 0)]
              /\ waker = [d \in Directions |-> IF d \in mask THEN NoOne ELSE obj.waker[d]]
      BY <2>1 DEF Collect, collect, CollectWith, real
    <3>2. obj' = [obj EXCEPT !.closed = closed, !.armed = armed, !.events = events,
                             !.waker = waker]
      BY <3>1
    <3>3. /\ obj'.closed = closed /\ obj'.armed = armed
          /\ obj'.events = events /\ obj'.waker = waker
      BY <3>2 DEF RegInv, Type, ObjType
    <3>4. /\ obj'.is = obj.is /\ obj'.backend = obj.backend /\ obj'.stream = obj.stream
          /\ obj'.hand = obj.hand /\ obj'.level = obj.level /\ obj'.ended = obj.ended
          /\ obj'.table = obj.table /\ obj'.edge = obj.edge
          /\ obj'.exhausted = obj.exhausted /\ obj'.exhaustedAt = obj.exhaustedAt
      BY <3>2 DEF RegInv, Type, ObjType
    <3> QED
      BY <3>1, <3>3, <3>4
  <2>2. CASE ~real
    BY <2>2 DEF Collect, real
  <2> QED
    BY <2>1, <2>2
<1>4. ASSUME real
      PROVE  /\ obj'.closed = obj.closed \cup th[Poller].shut /\ obj'.armed = obj.armed \ mask
             /\ \A d \in Directions :
                   /\ obj'.events[d] = obj.events[d] + (IF d \in mask THEN 1 ELSE 0)
                   /\ obj'.waker[d] = IF d \in mask THEN NoOne ELSE obj.waker[d]
  BY <1>3, <1>4
<1>5. ~real => obj' = obj
  BY DEF Collect, real
<1> HIDE DEF mask
<1>6. \A d \in Directions : obj.events[d] \in Nat /\ obj'.events[d] \in Nat
                            /\ obj'.events[d] >= obj.events[d]
                            /\ (obj'.events[d] # obj.events[d] <=> real /\ d \in mask)
  <2>1. \A d \in Directions : obj.events[d] \in Nat /\ obj'.events[d] \in Nat
    BY DEF RegInv, Type, ObjType
  <2>2. CASE real
    BY <1>4, <2>1, <2>2
  <2>3. CASE ~real
    BY <1>5, <2>1, <2>3
  <2> QED
    BY <2>2, <2>3
<1>7. ReadyNow' = ReadyNow /\ (HandshakeOver' <=> HandshakeOver)
  BY <1>3 DEF ReadyNow, HandshakeOver
<1>8. ASSUME NEW q \in Users  PROVE UserInv(q)'
  <2>1. UserInv(q) /\ th'[q] = th[q] /\ th[q].seen \in Nat /\ NoOne # q
    BY <1>1 DEF RegInv, Type, ThType, Doing
  <2>2. /\ Transferring(q) /\ UpToDate(q)' /\ th[q].pc # "seen" =>
              UpToDate(q) /\ ~(real /\ Dir(q) \in mask)
        /\ Transferring(q) /\ th[q].pc \notin {"register", "seen"} => obj.table
    BY <1>6, <2>1 DEF UpToDate, UserInv, SeenIsPast, Registered, Dir, Transferring
  <2>3. /\ obj'.waker[Dir(q)] = q <=> obj.waker[Dir(q)] = q /\ ~(real /\ Dir(q) \in mask)
        /\ Taken(q)' <=> obj.waker[Dir(q)] = q /\ real /\ Dir(q) \in mask
        /\ obj'.events[Dir(q)] = obj.events[Dir(q)] \/ (real /\ Dir(q) \in mask)
    BY <1>1, <1>4, <1>5, <1>6, <2>1
  <2> USE DEF UserInv, Transferring, Failed
  <2>4. PcMatches(q)' /\ Registered(q)'
    BY <1>3, <2>1 DEF PcMatches, Registered, everyArrivalReported
  <2>5. SeenIsPast(q)'
    BY <1>6, <2>1 DEF SeenIsPast, Dir
  <2>6. HoldsWaker(q)'
    BY <2>1, <2>3 DEF HoldsWaker, UpToDate, Dir
  <2>7. IsTold(q)'
    <3>1. CASE q \in Ops
      BY <1>2, <2>1, <2>3, <3>1 DEF IsTold, HoldsWaker, Dir
    <3>2. CASE q \notin Ops
      <4>1. th[q].pc \in {"arm", "poke", "look", "block"} /\ ~UpToDate(q) => ~UpToDate(q)'
        BY <2>2
      <4> QED
        BY <1>2, <2>1, <2>2, <2>3, <3>2, <4>1 DEF IsTold, Dir
    <3> QED
      BY <3>1, <3>2
  <2>8. EdgeComes(q)'
    BY <1>2, <1>3, <1>7, <2>1, <2>2
    DEF EdgeComes, Reported, Dir, everyArrivalReported, real, mask
  <2>9. ArmedStays(q)'
    <3>1. Dir(q) \in obj.armed /\ ~(real /\ Dir(q) \in mask) => Dir(q) \in obj'.armed
      BY <1>4, <1>5
    <3>2. th'[Poller].pc # "polling"
      BY <1>1
    <3> QED
      BY <1>3, <2>1, <2>2, <3>1, <3>2 DEF ArmedStays, Dir, everyArrivalReported
  <2>10. StopMarked(q)'
    BY <1>2, <2>1 DEF StopMarked
  <2>11. Connects(q)'
    <3>1. Connecting # {} /\ Taken(q)' => HandshakeOver
      BY <1>2, <2>3 DEF RegInv, Global, HandshakeReported, Roles, mask
    <3> QED
      BY <1>3, <1>7, <2>1, <3>1 DEF Connects
  <2> QED
    BY <2>4, <2>5, <2>6, <2>7, <2>8, <2>9, <2>10, <2>11
<1>9. Type'
  BY <1>1 DEF Type, PollerPc
<1>10. OnePerDirection' /\ HandInv'
  BY <1>1, <1>3 DEF OnePerDirection, Transferring, HandInv, RegInv, Global, Dir
<1>11. WakersTyped'
  BY <1>4, <1>5 DEF WakersTyped, RegInv, Global, Dir
<1>12. EndsReported'
  BY <1>1, <1>2, <1>3, <1>4, <1>5 DEF EndsReported, RegInv, Global, everyArrivalReported, real
<1>13. Exhaustion'
  <2>1. \A d \in Directions : obj'.exhaustedAt[d] <= obj'.events[d]
    BY <1>3, <1>6 DEF RegInv, Global, Exhaustion, Type, ObjType
  <2>2. ASSUME NEW d \in obj'.exhausted, d \in ReadyNow', obj'.exhaustedAt[d] = obj'.events[d],
               obj'.table
        PROVE  d \in obj'.closed \/ obj'.edge
    <3>1. d \in Directions /\ obj.exhaustedAt[d] <= obj.events[d] /\ obj.exhaustedAt[d] \in Nat
      BY <1>3, <2>2 DEF RegInv, Global, Exhaustion, Type, ObjType
    <3>2. obj.exhaustedAt[d] = obj.events[d] /\ ~(real /\ d \in mask)
      BY <1>3, <1>6, <2>2, <3>1
    <3>3. everyArrivalReported /\ real
      BY <1>3, <2>2 DEF RegInv, Global, Exhaustion, real
    <3>4. d \in obj.closed \/ obj.edge
      BY <1>3, <1>7, <2>2, <3>2, <3>3 DEF RegInv, Global, Exhaustion, ExhaustedIsTrue, mask
    <3> QED
      BY <1>3, <1>4, <3>3, <3>4
  <2> QED
    BY <1>3, <2>1, <2>2 DEF Exhaustion, ExhaustedIsTrue, RegInv, Global, everyArrivalReported
<1>14. HandshakeReported'
  <2>1. Connecting # {} /\ obj'.events["W"] > 0 => HandshakeOver
    BY <1>2, <1>6 DEF RegInv, Global, HandshakeReported, Directions, mask
  <2> QED
    BY <1>1, <1>3, <1>7, <2>1 DEF HandshakeReported, RegInv, Global
<1> QED
  BY <1>8, <1>9, <1>10, <1>11, <1>12, <1>13, <1>14 DEF RegInv, Global

-----------------------------------------------------------------------------
(* The invariant.                                                          *)

LEMMA RegKeeps ==
    ASSUME Roles, RegInv, Next
    PROVE  RegInv'
<1> USE RolesMean
<1>0. ThType' /\ ObjType'
  BY ThTypeKeeps, ObjTypeKeeps DEF RegInv, Global
<1>1. CASE epoll_wait \/ snapshot \/ poll \/ PollTimesOut
  BY <1>0, <1>1, LooksKeeps
<1>2. CASE Collect
  BY <1>0, <1>2, CollectKeeps
<1>3. CASE Notify(Poller, IF Connecting = {} THEN "seen" ELSE "finishConnect")
  BY <1>0, <1>3, NotifyKeeps
<1>4. CASE RemoveRegistration \/ AddRegistration
  BY <1>0, <1>4, ReusedKeeps
<1>5. CASE (\E d \in Directions : Arrive(d)) \/ PeerEnds({"R"}) \/ PeerEnds(Directions)
  BY <1>0, <1>5, HappensKeeps
<1>6. ASSUME NEW p \in Users, Step(p)
      PROVE  RegInv'
  <2>1. CASE Register(p) \/ finishConnect(p) \/ ReadSeen(p) \/ tryCall(p)
    BY <1>0, <2>1, RegisterKeeps, FinishConnectKeeps, ReadSeenKeeps, TryCallKeeps
  <2>2. CASE Arm(p) \/ Poke(p) \/ Enqueue(p) \/ LookEvents(p) \/ BlockReturns(p)
    BY <1>0, <2>2, ArmKeeps, PokeKeeps, EnqueueKeeps, LookEventsKeeps, BlockReturnsKeeps
  <2>3. CASE detach(p) \/ Listen(p) \/ watch(p) \/ unwatch(p) \/ Finish(p)
    BY <1>0, <2>3, DetachKeeps, ListenKeeps, WatchKeeps, UnwatchKeeps, FinishKeeps
  <2> QED
    BY <1>6, <2>1, <2>2, <2>3 DEF Step, run
<1>7. ASSUME NEW p \in Users,
             \/ DeadlinePasses(p) \/ ForcedUnwind(p) \/ RequestStop(p)
             \/ Begin(p) \/ try_now(p) \/ startConnect(p)
      PROVE  RegInv'
  BY <1>0, <1>7, DeadlineKeeps, ForcedUnwindKeeps, RequestStopKeeps, StartKeeps,
     StartConnectKeeps
<1> QED
  BY <1>1, <1>2, <1>3, <1>4, <1>5, <1>6, <1>7 DEF Next, PollerStep

LEMMA RegStutters ==
    ASSUME RegInv, UNCHANGED vars
    PROVE  RegInv'
<1>1. obj' = obj /\ th' = th
  BY DEF vars
<1> USE <1>1
<1>2. Type'
  BY DEF RegInv, Type, ObjType, ThType, PollerPc, Chain, everyArrivalReported
<1>3. Global'
  BY DEF RegInv, Global, OnePerDirection, Transferring, HandInv, WakersTyped, EndsReported,
         Exhaustion, ExhaustedIsTrue, HandshakeReported, HandshakeOver, ReadyNow,
         everyArrivalReported, Dir
<1>4. ASSUME NEW p \in Users  PROVE UserInv(p)'
  <2> USE DEF RegInv, UserInv, UpToDate, Taken, Chain, Transferring, Dir, everyArrivalReported
  <2>1. PcMatches(p)' /\ Registered(p)' /\ HoldsWaker(p)'
    BY DEF PcMatches, Registered, HoldsWaker
  <2>2. IsTold(p)' /\ SeenIsPast(p)' /\ StopMarked(p)'
    BY DEF IsTold, SeenIsPast, StopMarked
  <2>3. EdgeComes(p)' /\ ArmedStays(p)' /\ Connects(p)'
    BY DEF EdgeComes, ArmedStays, Connects, ReadyNow, Reported, HandshakeOver
  <2> QED
    BY <2>1, <2>2, <2>3
<1> QED
  BY <1>2, <1>3, <1>4 DEF RegInv

\* Only the poller has a chain, so to be in one is to be taken by it.
LEMMA ChainIsPollers ==
    ASSUME Roles, RegInv, NEW p \in Users
    PROVE  InChain(p) <=> Taken(p)
<1>1. \A n \in Parties : th[n].chain \in Seq(Users) /\ (n # Poller => th[n].chain = <<>>)
  BY RolesMean DEF RegInv, Type, ThType, Doing, UserInv, PcMatches
<1>2. \A n \in Parties : p \in Range(th[n].chain) => n = Poller
  BY <1>1 DEF Range
<1>3. p \in Range(th[Poller].chain) <=> Taken(p)
  <2>1. DOMAIN Chain = 1 .. Len(Chain)
    BY <1>1, RolesMean DEF Chain
  <2> QED
    BY <2>1 DEF Range, Taken, Chain
<1> QED
  BY <1>2, <1>3, RolesMean DEF InChain

LEMMA RegMeans ==
    ASSUME Roles, RegInv
    PROVE  /\ ReadinessNotMissed /\ ExhaustedIsTrue /\ WakerAlive
           /\ StopNotForgotten /\ NothingAfterDone /\ ConnectedMeansConnected
<1> USE RolesMean
<1>1. \A p \in Users : InChain(p) <=> Taken(p)
  BY ChainIsPollers
<1>2. Ops \subseteq Users /\ Poller \notin Ops
  BY DEF Users, Parties, Roles, Blocking
<1>3. ASSUME NEW p \in Users, Waiting(p), Dir(p) \in ReadyNow
      PROVE  \/ th[p].satisfied \/ Taken(p)
             \/ /\ obj.waker[Dir(p)] = p
                /\ \/ obj.edge
                   \/ th[Poller].pc = "collect" /\ Dir(p) \in th[Poller].mask
                   \/ /\ Dir(p) \in obj.armed
                      /\ \/ th[Poller].pc # "polling" \/ obj.poke
                         \/ Dir(p) \in th[Poller].mask
  <2>1. UserInv(p) /\ th[p].pc \in {"block", "queued"}
    BY <1>3 DEF RegInv, Waiting
  <2>2. CASE obj.waker[Dir(p)] # p
    BY <2>1, <2>2 DEF UserInv, IsTold, PcMatches
  <2>3. CASE obj.waker[Dir(p)] = p
    <3>1. UpToDate(p)
      BY <2>1, <2>3 DEF UserInv, HoldsWaker
    <3>2. CASE everyArrivalReported
      BY <1>3, <2>1, <2>3, <3>1, <3>2 DEF UserInv, EdgeComes, Failed, Reported
    <3>3. CASE ~everyArrivalReported
      BY <2>1, <2>3, <3>1, <3>3 DEF UserInv, ArmedStays
    <3> QED
      BY <3>2, <3>3
  <2> QED
    BY <2>2, <2>3
<1>4. ReadinessNotMissed
  BY <1>1, <1>3 DEF ReadinessNotMissed
<1>5. ExhaustedIsTrue
  BY DEF RegInv, Global, Exhaustion
<1>6. WakerAlive
  <2>1. ASSUME NEW d \in Directions, obj.waker[d] # NoOne
        PROVE  th[obj.waker[d]].pc \in {"queued", "arm", "poke", "look", "block", "detach", "unwind"}
    <3>1. obj.waker[d] \in Users /\ Dir(obj.waker[d]) = d
      BY <2>1 DEF RegInv, Type, ObjType, Global, WakersTyped
    <3> QED
      BY <3>1 DEF RegInv, UserInv, HoldsWaker
  <2>2. \A p \in Ops : InChain(p) => th[p].pc = "queued"
    BY <1>1, <1>2 DEF RegInv, UserInv, IsTold
  <2> QED
    BY <2>1, <2>2 DEF WakerAlive
<1>7. StopNotForgotten
  BY <1>1, <1>2 DEF StopNotForgotten, RegInv, UserInv, StopMarked
<1>8. NothingAfterDone
  BY <1>2 DEF NothingAfterDone, RegInv, UserInv, StopMarked
<1>9. ConnectedMeansConnected
  BY DEF ConnectedMeansConnected, RegInv, UserInv, Connects, Roles
<1> QED
  BY <1>4, <1>5, <1>6, <1>7, <1>8, <1>9
=============================================================================
