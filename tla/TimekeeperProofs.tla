-------------------------- MODULE TimekeeperProofs --------------------------
(***************************************************************************)
(* Timekeeper for any number of workers and of sleepers: a timekeeper does *)
(* not sleep past a queued deadline unless somebody is about to wake it,   *)
(* and, without rampUpDelay and pinned tasks, timers do not pend beside an *)
(* idle worker while all others are in tasks.                              *)
(***************************************************************************)
EXTENDS Timekeeper, WellFoundedInduction, TLAPS

-----------------------------------------------------------------------------
(* The inductive invariant.                                                *)

KeeperPcs == {"scanMark", "scanMask", "scan", "keep", "release"}
FirePcs == {"fire", "fireNext", "expire", "expireMirror", "wake"}
AddPcs == {"mirror", "askKeeper", "askDeadline"}

\* What dispatch, ensureTimekeeper() and fireTimers() return to, and that
\* they have what they work on.
CallOk(l) ==
    /\ l.pc \in {"dispatch", "ensure"} => l.ret \in {"run", "check"}
    /\ l.pc \in FirePcs => l.ret \in {"place", "awake"}
    /\ l.pc \in {"askDeadline", "expire", "expireMirror", "wake"} => l.target \in Workers
    /\ l.pc \in {"expireMirror", "wake"} => l.entry \in Sleepers
CallsInOrder == \A w \in Workers : CallOk(th[w])

\* A worker with these locals runs the sleeper `entry`.
Owning(l) ==
    \/ l.pc \in {"add", "check", "park"} \cup AddPcs
    \/ l.pc \in {"dispatch", "ensure"} /\ l.ret = "check"

\* A sleeper runs on one worker.
OwnerInv ==
    /\ \A w \in Workers : Owning(th[w]) =>
         th[w].entry \in Sleepers /\ task[th[w].entry] = "onWorker"
    /\ \A w, u \in Workers :
         Owning(th[w]) /\ Owning(th[u]) /\ th[w].entry = th[u].entry => w = u

\* A sleeper that was woken is gathered by one worker.
GatherInv ==
    /\ \A w \in Workers : \A e \in th[w].gathered : task[e] = "gathered"
    /\ \A w, u \in Workers : \A e \in th[w].gathered : e \in th[u].gathered => w = u

\* e's entry is pending: nobody adds it, and its sleeper waits for it.
Pending(e) ==
    /\ ~fired[e] /\ task[e] # "awake"
    /\ \A w \in Workers : At(w, "add") => th[w].entry # e

\* An entry is in one heap, or one worker has taken it from there to fire it.
HeapInv ==
    /\ \A v \in Workers : \A e \in heap[v] :
         Pending(e) /\ \A w \in Workers : At(w, "expireMirror") => th[w].entry # e
    /\ \A v, u \in Workers : \A e \in heap[v] : e \in heap[u] => u = v
ExpireInv ==
    /\ \A w \in Workers : At(w, "expireMirror") => Pending(th[w].entry)
    /\ \A w, u \in Workers :
         At(w, "expireMirror") /\ At(u, "expireMirror") /\ th[w].entry = th[u].entry => w = u

\* The mirrors cover the heaps, but for an entry that is being added.
MirrorInv ==
    /\ \A v \in Workers : heap[v] # {} => v \in mask
    /\ \A v \in Workers : \A e \in heap[v] :
         earliest[v] <= deadline[e] \/ (At(v, "mirror") /\ th[v].entry = e)

\* The role, and what the timekeeper has published about its sleep.
RoleInv ==
    \A w \in Workers :
        /\ th[w].pc \in KeeperPcs <=> keeper = w
        /\ th[w].pc \in {"scanMask", "scan"} => keeperDeadline = Never
        /\ At(w, "keep") => keeperDeadline = th[w].wakeAt

\* u is adding e and has yet to ask the timekeeper w.
Coming(w, u, e) ==
    /\ th[u].entry = e
    /\ th[u].pc \in {"mirror", "askKeeper"} \/ (At(u, "askDeadline") /\ th[u].target = w)

\* The timekeeper w will not sleep past e's deadline.
Covered(w, e) ==
    token[w] \/ th[w].wakeAt <= deadline[e] \/ \E u \in Workers : Coming(w, u, e)
KeepInv ==
    \A w, v \in Workers : \A e \in heap[v] :
        /\ At(w, "scan") => v \in th[w].todo \/ Covered(w, e)
        /\ At(w, "keep") => Covered(w, e)

\* idleMask has workers on their way to or from sleep, and whoever is taken
\* off it by another has a token.
IdlePc(l) ==
    \/ l.pc \in KeeperPcs \cup {"recheck", "claim", "parked", "awake"}
    \/ l.pc \in FirePcs /\ l.ret = "awake"
IdleInv ==
    /\ \A w \in idle : IdlePc(th[w])
    /\ \A w \in Workers :
         th[w].pc \in {"recheck", "claim", "parked"} => w \in idle \/ token[w]

\* w is at, or on its way to, Ensure or Claim.
OnDuty(w) ==
    \/ th[w].pc \in KeeperPcs \cup FirePcs \cup
                    {"top", "again", "take", "dispatch", "ensure", "place", "mark",
                     "recheck", "claim", "awake"}
    \/ At(w, "parked") /\ token[w]
\* w is adding e and will ask for a timekeeper, or go to its dispatcher.
WillSee(w, e) ==
    /\ th[w].entry = e
    /\ \/ th[w].pc \in {"mirror", "askKeeper"}
       \/ th[w].pc \in {"check", "park"} /\ ~th[w].more
DutyInv ==
    keeper = None /\ (\E w \in Workers : AsleepForGood(w)) =>
        \A v \in Workers : \A e \in heap[v] :
            \E u \in Workers : OnDuty(u) \/ WillSee(u, e)

Plain == ~RampUpDelay /\ ~Pinned
CalmInv == Plain => ~recent /\ DutyInv

LifeInv == OwnerInv /\ GatherInv /\ HeapInv /\ ExpireInv
TimerInv ==
    /\ TypeOK /\ CallsInOrder /\ LifeInv /\ MirrorInv /\ RoleInv /\ KeepInv
    /\ IdleInv /\ CalmInv

USE DEF timerVars, taskVars, keepVars, idleVars, At, Never

-----------------------------------------------------------------------------
(* The operators.                                                          *)

\* Every set of naturals but the empty one has a least element.
LEMMA MinOfNats ==
    ASSUME NEW S \in SUBSET Nat, S # {}
    PROVE  Min(S) \in S /\ \A y \in S : Min(S) <= y
<1> DEFINE R == {ss \in Nat \X Nat : ss[1] < ss[2]}
<1>1. IsWellFoundedOn(R, Nat)
  BY NatLessThanWellFounded, Zenon DEF OpToRel
<1>2. PICK x \in S : \A y \in S : ~(<<y, x>> \in R)
  <2> HIDE DEF R
  <2> QED
    BY <1>1, WFMin
<1>3. ASSUME NEW y \in S PROVE x <= y
  <2>1. <<y, x>> \in Nat \X Nat /\ ~(<<y, x>> \in R)
    BY <1>2
  <2>2. ~(<<y, x>>[1] < <<y, x>>[2])
    BY <2>1
  <2> QED
    BY <2>2
<1> QED
  BY <1>3 DEF Min

\* EarliestOf is a deadline or kNoDeadline, and none is earlier.
LEMMA EarliestIsLeast ==
    ASSUME TypeOK, NEW S \in SUBSET Sleepers
    PROVE  EarliestOf(S) \in 0 .. Never /\ \A e \in S : EarliestOf(S) <= deadline[e]
<1> DEFINE D == {deadline[e] : e \in S} \cup {Never}
<1>1. D \in SUBSET (0 .. Never) /\ Never \in D /\ \A e \in S : deadline[e] \in D
  BY TimeIsNatural DEF TypeOK
<1>2. D \in SUBSET Nat /\ D # {}
  BY <1>1, TimeIsNatural
<1> HIDE DEF D
<1>3. Min(D) \in D /\ \A y \in D : Min(D) <= y
  BY <1>2, MinOfNats
<1>4. EarliestOf(S) = Min(D)
  BY DEF EarliestOf, D
<1> QED
  BY <1>1, <1>3, <1>4

\* The lesser of two.
LEMMA MinOfTwo ==
    ASSUME NEW x \in 0 .. Never, NEW y \in 0 .. Never
    PROVE  Min({x, y}) \in 0 .. Never /\ Min({x, y}) <= x /\ Min({x, y}) <= y
<1>1. Min({x, y}) \in {x, y} /\ \A z \in {x, y} : Min({x, y}) <= z
  BY MinOfNats, TimeIsNatural
<1> QED
  BY <1>1

\* Only w's locals change.
Moves(w) ==
    /\ th' \in [Workers -> Local]
    /\ \A u \in Workers \ {w} : th'[u] = th[u]

\* However many fields the step sets.
LEMMA OnSet ==
    ASSUME TypeOK, NEW w \in Workers, NEW r \in Local, th' = [th EXCEPT ![w] = r]
    PROVE  Moves(w) /\ th'[w] = r
  BY DEF TypeOK, Moves

\* notifyIdleWorker() takes nobody off idleMask without a token, and does
\* nothing only if somebody searches or nobody idles.
LEMMA OnNotify ==
    ASSUME TypeOK, NEW s \in SUBSET idle, NotifyIdleWorker(s)
    PROVE  /\ idle' \subseteq s /\ token' \in [Workers -> BOOLEAN]
           /\ \A v \in Workers : token[v] => token'[v]
           /\ \A v \in s : v \in idle' \/ token'[v]
           /\ \/ s = {}
              \/ \E v \in Workers : At(v, "take")
              \/ \E v \in s : token'[v]
<1>1. CASE (Searching \/ s = {}) /\ idle' = s /\ UNCHANGED token
  BY <1>1 DEF TypeOK, Searching
<1>2. ASSUME NEW v \in s, idle' = s \ {v}, token' = [token EXCEPT ![v] = TRUE]
      PROVE  /\ idle' \subseteq s /\ token' \in [Workers -> BOOLEAN]
             /\ \A u \in Workers : token[u] => token'[u]
             /\ \A u \in s : u \in idle' \/ token'[u]
             /\ \E u \in s : token'[u]
  BY <1>2 DEF TypeOK
<1> QED
  BY <1>1, <1>2 DEF NotifyIdleWorker

-----------------------------------------------------------------------------
(* What a step of w that leaves something alone cannot disturb.            *)

\* Who runs a sleeper.
LEMMA OwnerFrame ==
    ASSUME OwnerInv, NEW w \in Workers, Moves(w), UNCHANGED task,
           Owning(th'[w]) => Owning(th[w]) /\ th'[w].entry = th[w].entry
    PROVE  OwnerInv'
  BY DEF OwnerInv, Moves

\* Who has gathered it.
LEMMA GatherFrame ==
    ASSUME GatherInv, NEW w \in Workers, Moves(w), UNCHANGED task,
           th'[w].gathered = th[w].gathered
    PROVE  GatherInv'
  BY DEF GatherInv, Moves

\* The entries and who has them.
LEMMA LifeFrame ==
    ASSUME LifeInv, NEW w \in Workers, Moves(w), UNCHANGED <<heap, fired, task>>,
           th'[w].pc \notin {"add", "expireMirror"},
           th'[w].gathered = th[w].gathered,
           Owning(th'[w]) => Owning(th[w]) /\ th'[w].entry = th[w].entry
    PROVE  LifeInv'
<1>1. OwnerInv'
  BY OwnerFrame DEF LifeInv
<1>2. GatherInv'
  BY GatherFrame DEF LifeInv
<1>3. \A e : Pending(e) => Pending(e)'
  BY DEF Pending, Moves
<1>4. HeapInv'
  BY <1>3 DEF LifeInv, HeapInv, Moves
<1>5. ExpireInv'
  BY <1>3 DEF LifeInv, ExpireInv, Moves
<1> QED
  BY <1>1, <1>2, <1>4, <1>5 DEF LifeInv

\* The same when sleepers change hands that only w can have: it may run one of
\* them, or gather some, and none is awake that has a pending entry.
LEMMA LifeMoves ==
    ASSUME LifeInv, NEW w \in Workers, Moves(w), UNCHANGED heap,
           \A f \in Sleepers : fired'[f] => fired[f],
           th'[w].pc \notin {"add", "expireMirror"},
           TypeOK, TypeOK', CallsInOrder,
           \A f \in Sleepers : task'[f] # task[f] =>
              \A u \in Workers \ {w} :
                 (Owning(th[u]) => th[u].entry # f) /\ f \notin th[u].gathered,
           Owning(th'[w]) =>
              /\ th'[w].entry \in Sleepers /\ task'[th'[w].entry] = "onWorker"
              /\ \A u \in Workers \ {w} : Owning(th[u]) => th[u].entry # th'[w].entry,
           \A f \in th'[w].gathered :
              /\ task'[f] = "gathered"
              /\ \A u \in Workers \ {w} : f \notin th[u].gathered,
           \A f \in Sleepers : task'[f] = "awake" /\ task[f] # "awake" =>
              /\ \A v \in Workers : f \notin heap[v]
              /\ \A u \in Workers : At(u, "expireMirror") => th[u].entry # f
    PROVE  LifeInv'
<1>0. OwnerInv /\ GatherInv /\ HeapInv /\ ExpireInv
  BY DEF LifeInv
<1>1. \A u \in Workers \ {w} : th'[u] = th[u]
  BY DEF Moves
<1>2. OwnerInv'
  <2>1. ASSUME NEW u \in Workers, Owning(th'[u])
        PROVE  th'[u].entry \in Sleepers /\ task'[th'[u].entry] = "onWorker"
    <3>1. CASE u = w
      BY <2>1, <3>1
    <3>2. CASE u # w
      BY <1>0, <1>1, <2>1, <3>2 DEF OwnerInv
    <3> QED
      BY <3>1, <3>2
  <2>2. ASSUME NEW u \in Workers, NEW v \in Workers, Owning(th'[u]), Owning(th'[v]),
               th'[u].entry = th'[v].entry
        PROVE  u = v
    BY <1>0, <1>1, <2>2 DEF OwnerInv
  <2> QED
    BY <2>1, <2>2 DEF OwnerInv
<1>3. GatherInv'
  <2>1. ASSUME NEW u \in Workers, NEW f \in th'[u].gathered PROVE task'[f] = "gathered"
    <3>1. CASE u = w
      BY <2>1, <3>1
    <3>2. CASE u # w
      <4>1. f \in th[u].gathered /\ f \in Sleepers
        BY <1>1, <2>1, <3>2 DEF TypeOK, Local
      <4> QED
        BY <1>0, <3>2, <4>1 DEF GatherInv
    <3> QED
      BY <3>1, <3>2
  <2>2. ASSUME NEW u \in Workers, NEW v \in Workers, NEW f \in th'[u].gathered,
               f \in th'[v].gathered
        PROVE  u = v
    BY <1>0, <1>1, <2>2 DEF GatherInv
  <2> QED
    BY <2>1, <2>2 DEF GatherInv
<1>4. ASSUME NEW f \in Sleepers, Pending(f),
             (\E v \in Workers : f \in heap[v])
                \/ \E u \in Workers : At(u, "expireMirror") /\ th[u].entry = f
      PROVE  Pending(f)'
  BY <1>1, <1>4 DEF Pending
<1>5. HeapInv'
  <2>1. \A v \in Workers : heap[v] \subseteq Sleepers
    BY DEF TypeOK
  <2>2. \A v \in Workers : \A f \in heap[v] : Pending(f)'
    BY <1>0, <1>4, <2>1 DEF HeapInv
  <2> QED
    BY <1>0, <1>1, <2>2 DEF HeapInv
<1>6. ExpireInv'
  <2>1. ASSUME NEW u \in Workers, At(u, "expireMirror")' PROVE Pending(th[u].entry)'
    <3>1. u # w /\ At(u, "expireMirror")
      BY <1>1, <2>1
    <3>2. th[u].entry \in Sleepers
      BY <3>1 DEF CallsInOrder, CallOk
    <3>3. PICK f \in Sleepers : f = th[u].entry
      BY <3>2
    <3>4. Pending(f)'
      BY <1>0, <1>4, <3>1, <3>3 DEF ExpireInv
    <3>5. th'[u].entry = f
      BY <1>1, <3>1, <3>3
    <3> QED
      BY <3>4, <3>5
  <2> QED
    BY <1>0, <1>1, <2>1 DEF ExpireInv
<1> QED
  BY <1>2, <1>3, <1>5, <1>6 DEF LifeInv

\* The mirrors.
LEMMA MirrorFrame ==
    ASSUME MirrorInv, NEW w \in Workers, Moves(w),
           UNCHANGED <<heap, mask, earliest, deadline>>, ~At(w, "mirror")
    PROVE  MirrorInv'
  BY DEF MirrorInv, Moves

\* The role.
LEMMA RoleFrame ==
    ASSUME RoleInv, NEW w \in Workers, Moves(w), UNCHANGED keepVars,
           th[w].pc \notin KeeperPcs, th'[w].pc \notin KeeperPcs
    PROVE  RoleInv'
<1>1. th[w].pc \notin {"scanMask", "scan", "keep"} /\ th'[w].pc \notin {"scanMask", "scan", "keep"}
  BY DEF KeeperPcs
<1> QED
  BY <1>1 DEF RoleInv, Moves

\* The timekeeper's sleep, as long as w sees to the entry it adds.
LEMMA KeepMove ==
    ASSUME KeepInv, NEW w \in Workers, Moves(w), th'[w].pc \notin {"scan", "keep"},
           \A v \in Workers : heap'[v] \subseteq heap[v],
           \A v \in Workers : \A e \in heap[v] : deadline'[e] = deadline[e],
           \A v \in Workers \ {w} : token[v] => token'[v],
           \A k \in Workers \ {w}, v \in Workers : \A e \in heap[v] :
              th[k].pc \in {"scan", "keep"} /\ Coming(k, w, e) =>
                 Covered(k, e)' \/ (At(k, "scan") /\ v \in th[k].todo)
    PROVE  KeepInv'
<1> SUFFICES ASSUME NEW k \in Workers, NEW v \in Workers, NEW e \in heap'[v]
             PROVE  /\ At(k, "scan")' => v \in th'[k].todo \/ Covered(k, e)'
                    /\ At(k, "keep")' => Covered(k, e)'
  BY DEF KeepInv
<1>1. CASE k = w
  BY <1>1
<1>2. CASE k # w
  <2>1. th'[k] = th[k] /\ e \in heap[v] /\ deadline'[e] = deadline[e]
    BY <1>2 DEF Moves
  <2>2. ASSUME NEW u \in Workers, u # w, Coming(k, u, e) PROVE Coming(k, u, e)'
    BY <2>2 DEF Coming, Moves
  <2>3. ASSUME Covered(k, e), ~Coming(k, w, e) PROVE Covered(k, e)'
    BY <1>2, <2>1, <2>2, <2>3 DEF Covered
  <2>4. CASE Coming(k, w, e) /\ th[k].pc \in {"scan", "keep"}
    <3>1. Covered(k, e)' \/ (At(k, "scan") /\ v \in th[k].todo)
      BY <1>2, <2>1, <2>4
    <3> QED
      BY <2>1, <3>1
  <2>5. CASE ~Coming(k, w, e) \/ th[k].pc \notin {"scan", "keep"}
    BY <2>1, <2>3, <2>5 DEF KeepInv
  <2> QED
    BY <2>4, <2>5
<1> QED
  BY <1>1, <1>2

\* The same for a worker that is not adding a timer.
LEMMA KeepFrame ==
    ASSUME KeepInv, NEW w \in Workers, Moves(w),
           th'[w].pc \notin {"scan", "keep"}, th[w].pc \notin AddPcs,
           \A v \in Workers : heap'[v] \subseteq heap[v],
           \A v \in Workers : \A e \in heap[v] : deadline'[e] = deadline[e],
           \A v \in Workers \ {w} : token[v] => token'[v]
    PROVE  KeepInv'
<1>1. \A k, e : ~Coming(k, w, e)
  BY DEF Coming, AddPcs
<1> QED
  BY <1>1, KeepMove

\* idleMask and the tokens.
LEMMA IdleFrame ==
    ASSUME IdleInv, TypeOK, NEW w \in Workers, Moves(w), idle' \subseteq idle \cup {w},
           w \in idle' => IdlePc(th'[w]),
           th'[w].pc \in {"recheck", "claim", "parked"} => w \in idle' \/ token'[w],
           \A v \in idle \ {w} : v \in idle' \/ token'[v],
           \A v \in Workers \ {w} : token[v] => token'[v]
    PROVE  IdleInv'
<1>1. \A v \in idle' : IdlePc(th'[v])
  BY DEF IdleInv, Moves, TypeOK
<1>2. \A v \in Workers :
         th'[v].pc \in {"recheck", "claim", "parked"} => v \in idle' \/ token'[v]
  BY DEF IdleInv, Moves
<1> QED
  BY <1>1, <1>2 DEF IdleInv

\* A worker that fires timers stays as idle as it was.
LEMMA IdleFires ==
    ASSUME IdleInv, TypeOK, NEW w \in Workers, Moves(w), UNCHANGED idleVars,
           th[w].pc \in FirePcs, th'[w].pc \in FirePcs, th'[w].ret = th[w].ret
    PROVE  IdleInv'
<1>1. IdlePc(th[w]) <=> IdlePc(th'[w])
  BY DEF IdlePc, KeeperPcs, FirePcs
<1>2. th'[w].pc \notin {"recheck", "claim", "parked"}
  BY DEF FirePcs
<1>3. \A u \in Workers \ {w} : th'[u] = th[u]
  BY DEF Moves
<1>4. idle' = idle /\ token' = token
  BY DEF idleVars
<1>5. \A u \in idle' : IdlePc(th'[u])
  BY <1>1, <1>3, <1>4 DEF IdleInv, TypeOK
<1> QED
  BY <1>2, <1>3, <1>4, <1>5 DEF IdleInv

\* Whoever is on duty after its step covers all timers.
LEMMA DutyDone ==
    ASSUME NEW w \in Workers, CalmInv, Plain => ~recent',
           OnDuty(w)' \/ keeper' # None
    PROVE  CalmInv'
  BY DEF CalmInv, DutyInv, Plain

\* A worker off duty can leave the timers to those who covered them before.
LEMMA DutyFrame ==
    ASSUME CalmInv, NEW w \in Workers, Moves(w), UNCHANGED <<keeper, recent>>,
           ~OnDuty(w), ~At(w, "parked"), ~At(w, "parked")',
           \A v \in Workers : token[v] => token'[v],
           \A v \in Workers : heap'[v] \subseteq heap[v],
           \A v \in Workers : \A e \in heap[v] : Plain /\ WillSee(w, e) => WillSee(w, e)'
    PROVE  CalmInv'
<1> SUFFICES ASSUME Plain, keeper' = None, NEW z \in Workers, AsleepForGood(z)',
                    NEW v \in Workers, NEW e \in heap'[v]
             PROVE  \E u \in Workers : OnDuty(u)' \/ WillSee(u, e)'
  BY DEF CalmInv, DutyInv, Plain
<1>1. AsleepForGood(z) /\ e \in heap[v]
  BY DEF AsleepForGood, Moves
<1>2. PICK u \in Workers : OnDuty(u) \/ WillSee(u, e)
  BY <1>1 DEF CalmInv, DutyInv
<1>3. CASE u = w
  BY <1>1, <1>2, <1>3
<1>4. CASE u # w
  BY <1>2, <1>4 DEF OnDuty, WillSee, Moves
<1> QED
  BY <1>3, <1>4

\* A step within the dispatcher, the fire loop or a task: none of these parts.
LEMMA QuietStep ==
    ASSUME TimerInv, TypeOK', NEW w \in Workers, Moves(w),
           UNCHANGED <<heap, mask, earliest, deadline, fired, task, keepVars>>,
           th[w].pc \notin KeeperPcs \cup AddPcs,
           th'[w].pc \notin KeeperPcs \cup {"add", "expireMirror"},
           th'[w].gathered = th[w].gathered,
           Owning(th'[w]) => Owning(th[w]) /\ th'[w].entry = th[w].entry,
           CallOk(th'[w]), IdleInv', CalmInv',
           \A v \in Workers \ {w} : token[v] => token'[v]
    PROVE  TimerInv'
<1> USE DEF TimerInv
<1>1. CallsInOrder'
  BY DEF CallsInOrder, Moves
<1>2. LifeInv'
  BY LifeFrame
<1>3. MirrorInv'
  BY MirrorFrame DEF AddPcs
<1>4. RoleInv'
  BY RoleFrame
<1>5. KeepInv'
  BY KeepFrame DEF AddPcs, KeeperPcs
<1> QED
  BY <1>1, <1>2, <1>3, <1>4, <1>5

\* A step that moves nobody, or only adds to what a worker has lined up.
LEMMA StillStep ==
    ASSUME TimerInv, TypeOK', IdleInv', CalmInv',
           UNCHANGED <<heap, mask, earliest, deadline, fired, task, keepVars>>,
           \A u \in Workers :
              /\ th'[u].pc = th[u].pc /\ th'[u].ret = th[u].ret
              /\ th'[u].entry = th[u].entry /\ th'[u].gathered = th[u].gathered
              /\ th'[u].target = th[u].target /\ th'[u].todo = th[u].todo
              /\ th'[u].wakeAt = th[u].wakeAt,
           \A u \in Workers : token[u] => token'[u]
    PROVE  TimerInv'
<1>0. /\ CallsInOrder /\ LifeInv /\ MirrorInv /\ RoleInv /\ KeepInv
  BY DEF TimerInv
<1>1. CallsInOrder'
  BY <1>0 DEF CallsInOrder, CallOk
<1>2. \A u \in Workers : Owning(th'[u]) <=> Owning(th[u])
  BY DEF Owning
<1>3. \A e : Pending(e) => Pending(e)'
  BY DEF Pending
<1>4. LifeInv'
  BY <1>0, <1>2, <1>3 DEF LifeInv, OwnerInv, GatherInv, HeapInv, ExpireInv
<1>5. MirrorInv'
  BY <1>0 DEF MirrorInv
<1>6. RoleInv'
  BY <1>0 DEF RoleInv
<1>7. \A k, u \in Workers : \A e : Coming(k, u, e) => Coming(k, u, e)'
  BY DEF Coming
<1>8. \A k \in Workers : \A v \in Workers : \A e \in heap[v] : Covered(k, e) => Covered(k, e)'
  BY <1>7 DEF Covered
<1>9. KeepInv'
  BY <1>0, <1>8 DEF KeepInv
<1> QED
  BY <1>1, <1>4, <1>5, <1>6, <1>9 DEF TimerInv

\* Somebody on duty who keeps its token covers all timers as well.
LEMMA DutyElsewhere ==
    ASSUME NEW u \in Workers, OnDuty(u)', CalmInv, Plain => ~recent'
    PROVE  CalmInv'
  BY DEF CalmInv, DutyInv, Plain

-----------------------------------------------------------------------------
(* Every step preserves the invariant: the steps that are quiet.           *)

\* maintain().
LEMMA MaintainKeeps ==
    ASSUME TimerInv, NEW w \in Workers, Maintain(w)
    PROVE  TimerInv'
<1>0. /\ TypeOK /\ CallsInOrder /\ LifeInv /\ MirrorInv /\ RoleInv /\ KeepInv
      /\ IdleInv /\ CalmInv /\ CallOk(th[w])
  BY DEF TimerInv, CallsInOrder
<1> DEFINE r == [th[w] EXCEPT !.pc = "fire", !.ret = "place"]
<1>a. /\ th[w] \in Local /\ "fire" \in Pc /\ "place" \in Pc
  BY <1>0 DEF TypeOK, Pc
<1>1. r \in Local
  BY <1>a DEF Local
<1>2. th' = [th EXCEPT ![w] = r]
  BY <1>0 DEF Maintain, GoTo, Call, Return
<1>3. /\ r.pc = "fire" /\ r.ret = "place" /\ r.entry = th[w].entry
      /\ r.gathered = th[w].gathered /\ r.more = th[w].more
  BY <1>a DEF Local
<1>4. Moves(w) /\ th'[w] = r
  <2> HIDE DEF r
  <2> QED
    BY <1>0, <1>1, <1>2, OnSet
<1> HIDE DEF r
<1>5. TypeOK'
  BY <1>0, <1>4 DEF Maintain, TypeOK, Moves
<1>6. IdleInv'
  BY <1>0, <1>3, <1>4, IdleFrame
  DEF Maintain, TypeOK, IdleInv, IdlePc, KeeperPcs, FirePcs
<1>7. CalmInv'
  BY <1>0, <1>3, <1>4, DutyDone DEF Maintain, OnDuty, CalmInv, KeeperPcs, FirePcs
<1>8. CallOk(r) /\ (Owning(r) => Owning(th[w]) /\ r.entry = th[w].entry)
  BY <1>0, <1>3 DEF Maintain, CallOk, Owning, AddPcs, FirePcs
<1> QED
  BY <1>3, <1>4, <1>5, <1>6, <1>7, <1>8, QuietStep DEF Maintain, KeeperPcs, AddPcs

\* Straight to the queues.
LEMMA LookKeeps ==
    ASSUME TimerInv, NEW w \in Workers, Look(w)
    PROVE  TimerInv'
<1>0. /\ TypeOK /\ CallsInOrder /\ LifeInv /\ MirrorInv /\ RoleInv /\ KeepInv
      /\ IdleInv /\ CalmInv /\ CallOk(th[w])
  BY DEF TimerInv, CallsInOrder
<1> DEFINE r == [th[w] EXCEPT !.pc = "take"]
<1>a. /\ th[w] \in Local /\ "take" \in Pc
  BY <1>0 DEF TypeOK, Pc
<1>1. r \in Local
  BY <1>a DEF Local
<1>2. th' = [th EXCEPT ![w] = r]
  BY <1>0 DEF Look, GoTo, Call, Return
<1>3. /\ r.pc = "take" /\ r.ret = th[w].ret /\ r.entry = th[w].entry
      /\ r.gathered = th[w].gathered /\ r.more = th[w].more
  BY <1>a DEF Local
<1>4. Moves(w) /\ th'[w] = r
  <2> HIDE DEF r
  <2> QED
    BY <1>0, <1>1, <1>2, OnSet
<1> HIDE DEF r
<1>5. TypeOK'
  BY <1>0, <1>4 DEF Look, TypeOK, Moves
<1>6. IdleInv'
  BY <1>0, <1>3, <1>4, IdleFrame DEF Look, TypeOK, IdleInv, IdlePc, KeeperPcs, FirePcs
<1>7. CalmInv'
  BY <1>0, <1>3, <1>4, DutyDone DEF Look, OnDuty, CalmInv, KeeperPcs, FirePcs
<1>8. CallOk(r) /\ (Owning(r) => Owning(th[w]) /\ r.entry = th[w].entry)
  BY <1>0, <1>3 DEF Look, CallOk, Owning, AddPcs, FirePcs
<1> QED
  BY <1>3, <1>4, <1>5, <1>6, <1>7, <1>8, QuietStep DEF Look, KeeperPcs, AddPcs

\* fireTimers() begins.
LEMMA FireKeeps ==
    ASSUME TimerInv, NEW w \in Workers, Fire(w)
    PROVE  TimerInv'
<1>0. /\ TypeOK /\ CallsInOrder /\ LifeInv /\ MirrorInv /\ RoleInv /\ KeepInv
      /\ IdleInv /\ CalmInv /\ CallOk(th[w])
  BY DEF TimerInv, CallsInOrder
<1> DEFINE r == [th[w] EXCEPT !.pc = "fireNext", !.todo = mask, !.clock = now]
<1>a. /\ th[w] \in Local /\ "fireNext" \in Pc /\ mask \in SUBSET Workers
      /\ now \in 0 .. MaxTime
  BY <1>0 DEF TypeOK, Pc
<1>1. r \in Local
  BY <1>a DEF Local
<1>2. th' = [th EXCEPT ![w] = r]
  BY <1>0 DEF Fire, GoTo, Call, Return
<1>3. /\ r.pc = "fireNext" /\ r.ret = th[w].ret /\ r.entry = th[w].entry
      /\ r.gathered = th[w].gathered /\ r.more = th[w].more
  BY <1>a DEF Local
<1>4. Moves(w) /\ th'[w] = r
  <2> HIDE DEF r
  <2> QED
    BY <1>0, <1>1, <1>2, OnSet
<1> HIDE DEF r
<1>5. TypeOK'
  BY <1>0, <1>4 DEF Fire, TypeOK, Moves
<1>6. IdleInv'
  BY <1>0, <1>3, <1>4, IdleFrame DEF Fire, TypeOK, IdleInv, IdlePc, KeeperPcs, FirePcs
<1>7. CalmInv'
  BY <1>0, <1>3, <1>4, DutyDone DEF Fire, OnDuty, CalmInv, KeeperPcs, FirePcs
<1>8. CallOk(r) /\ (Owning(r) => Owning(th[w]) /\ r.entry = th[w].entry)
  BY <1>0, <1>3 DEF Fire, CallOk, Owning, AddPcs, FirePcs
<1> QED
  BY <1>3, <1>4, <1>5, <1>6, <1>7, <1>8, QuietStep DEF Fire, KeeperPcs, AddPcs

\* An idle worker wakes up.
LEMMA ParkedKeeps ==
    ASSUME TimerInv, NEW w \in Workers, Parked(w)
    PROVE  TimerInv'
<1>0. /\ TypeOK /\ CallsInOrder /\ LifeInv /\ MirrorInv /\ RoleInv /\ KeepInv
      /\ IdleInv /\ CalmInv /\ CallOk(th[w])
  BY DEF TimerInv, CallsInOrder
<1> DEFINE r == [th[w] EXCEPT !.pc = "awake"]
<1>a. /\ th[w] \in Local /\ "awake" \in Pc
  BY <1>0 DEF TypeOK, Pc
<1>1. r \in Local
  BY <1>a DEF Local
<1>2. th' = [th EXCEPT ![w] = r]
  BY <1>0 DEF Parked, GoTo, Call, Return
<1>3. /\ r.pc = "awake" /\ r.ret = th[w].ret /\ r.entry = th[w].entry
      /\ r.gathered = th[w].gathered /\ r.more = th[w].more
  BY <1>a DEF Local
<1>4. Moves(w) /\ th'[w] = r
  <2> HIDE DEF r
  <2> QED
    BY <1>0, <1>1, <1>2, OnSet
<1> HIDE DEF r
<1>5. TypeOK'
  BY <1>0, <1>4 DEF Parked, TypeOK, Moves
<1>6. IdleInv'
  BY <1>0, <1>3, <1>4, IdleFrame DEF Parked, TypeOK, IdleInv, IdlePc, KeeperPcs, FirePcs
<1>7. CalmInv'
  BY <1>0, <1>3, <1>4, DutyDone DEF Parked, OnDuty, CalmInv, KeeperPcs, FirePcs
<1>8. CallOk(r) /\ (Owning(r) => Owning(th[w]) /\ r.entry = th[w].entry)
  BY <1>0, <1>3 DEF Parked, CallOk, Owning, AddPcs, FirePcs
<1> QED
  BY <1>3, <1>4, <1>5, <1>6, <1>7, <1>8, QuietStep DEF Parked, KeeperPcs, AddPcs

\* An idle worker shows itself.
LEMMA MarkKeeps ==
    ASSUME TimerInv, NEW w \in Workers, Mark(w)
    PROVE  TimerInv'
<1>0. /\ TypeOK /\ CallsInOrder /\ LifeInv /\ MirrorInv /\ RoleInv /\ KeepInv
      /\ IdleInv /\ CalmInv /\ CallOk(th[w])
  BY DEF TimerInv, CallsInOrder
<1> DEFINE r == [th[w] EXCEPT !.pc = "recheck"]
<1>a. /\ th[w] \in Local /\ "recheck" \in Pc
  BY <1>0 DEF TypeOK, Pc
<1>1. r \in Local
  BY <1>a DEF Local
<1>2. th' = [th EXCEPT ![w] = r]
  BY <1>0 DEF Mark, GoTo, Call, Return
<1>3. /\ r.pc = "recheck" /\ r.ret = th[w].ret /\ r.entry = th[w].entry
      /\ r.gathered = th[w].gathered /\ r.more = th[w].more
  BY <1>a DEF Local
<1>4. Moves(w) /\ th'[w] = r
  <2> HIDE DEF r
  <2> QED
    BY <1>0, <1>1, <1>2, OnSet
<1> HIDE DEF r
<1>5. TypeOK'
  BY <1>0, <1>4 DEF Mark, TypeOK, Moves
<1>6. IdleInv'
  BY <1>0, <1>3, <1>4, IdleFrame DEF Mark, TypeOK, IdleInv, IdlePc, KeeperPcs, FirePcs
<1>7. CalmInv'
  BY <1>0, <1>3, <1>4, DutyDone DEF Mark, OnDuty, CalmInv, KeeperPcs, FirePcs
<1>8. CallOk(r) /\ (Owning(r) => Owning(th[w]) /\ r.entry = th[w].entry)
  BY <1>0, <1>3 DEF Mark, CallOk, Owning, AddPcs, FirePcs
<1> QED
  BY <1>3, <1>4, <1>5, <1>6, <1>7, <1>8, QuietStep DEF Mark, KeeperPcs, AddPcs

\* A task is about to run.
LEMMA DispatchKeeps ==
    ASSUME TimerInv, NEW w \in Workers, Dispatch(w)
    PROVE  TimerInv'
<1>0. /\ TypeOK /\ CallsInOrder /\ LifeInv /\ MirrorInv /\ RoleInv /\ KeepInv
      /\ IdleInv /\ CalmInv /\ CallOk(th[w])
  BY DEF TimerInv, CallsInOrder
<1>1. CASE keeper = None
  <2> DEFINE r == [th[w] EXCEPT !.pc = "ensure"]
  <2>a. /\ th[w] \in Local /\ "ensure" \in Pc
    BY <1>0, <1>1 DEF TypeOK, Pc
  <2>1. r \in Local
    BY <2>a DEF Local
  <2>2. th' = [th EXCEPT ![w] = r]
    BY <1>0, <1>1 DEF Dispatch, GoTo, Call, Return
  <2>3. /\ r.pc = "ensure" /\ r.ret = th[w].ret /\ r.entry = th[w].entry
        /\ r.gathered = th[w].gathered /\ r.more = th[w].more
    BY <2>a DEF Local
  <2>4. Moves(w) /\ th'[w] = r
    <3> HIDE DEF r
    <3> QED
      BY <1>0, <2>1, <2>2, OnSet
  <2> HIDE DEF r
  <2>5. TypeOK'
    BY <1>0, <1>1, <2>4 DEF Dispatch, TypeOK, Moves
  <2>6. IdleInv'
    BY <1>0, <1>1, <2>3, <2>4, IdleFrame
    DEF Dispatch, TypeOK, IdleInv, IdlePc, KeeperPcs, FirePcs
  <2>7. CalmInv'
    BY <1>0, <1>1, <2>3, <2>4, DutyDone
    DEF Dispatch, OnDuty, CalmInv, KeeperPcs, FirePcs
  <2>8. CallOk(r) /\ (Owning(r) => Owning(th[w]) /\ r.entry = th[w].entry)
    BY <1>0, <1>1, <2>3 DEF Dispatch, CallOk, Owning, AddPcs, FirePcs
  <2> QED
    BY <1>1, <2>3, <2>4, <2>5, <2>6, <2>7, <2>8, QuietStep
    DEF Dispatch, KeeperPcs, AddPcs
<1>2. CASE keeper # None
  <2> DEFINE r == [th[w] EXCEPT !.pc = th[w].ret, !.ret = "top"]
  <2>a. /\ th[w] \in Local /\ "top" \in Pc
    BY <1>0, <1>2 DEF TypeOK, Pc
  <2>1. r \in Local
    BY <2>a DEF Local
  <2>2. th' = [th EXCEPT ![w] = r]
    BY <1>0, <1>2 DEF Dispatch, GoTo, Call, Return
  <2>3. /\ r.pc = th[w].ret /\ r.ret = "top" /\ r.entry = th[w].entry
        /\ r.gathered = th[w].gathered /\ r.more = th[w].more
    BY <2>a DEF Local
  <2>4. Moves(w) /\ th'[w] = r
    <3> HIDE DEF r
    <3> QED
      BY <1>0, <2>1, <2>2, OnSet
  <2> HIDE DEF r
  <2>b. r.pc \in {"run", "check"}
    BY <1>0, <1>2, <2>3 DEF Dispatch, CallOk
  <2>5. TypeOK'
    BY <1>0, <1>2, <2>b, <2>4 DEF Dispatch, TypeOK, Moves
  <2>6. IdleInv'
    BY <1>0, <1>2, <2>b, <2>3, <2>4, IdleFrame
    DEF Dispatch, TypeOK, IdleInv, IdlePc, KeeperPcs, FirePcs
  <2>7. CalmInv'
    BY <1>0, <1>2, <2>b, <2>3, <2>4, DutyDone
    DEF Dispatch, OnDuty, CalmInv, KeeperPcs, FirePcs
  <2>8. CallOk(r) /\ (Owning(r) => Owning(th[w]) /\ r.entry = th[w].entry)
    BY <1>0, <1>2, <2>b, <2>3 DEF Dispatch, CallOk, Owning, AddPcs, FirePcs
  <2> QED
    BY <1>2, <2>b, <2>3, <2>4, <2>5, <2>6, <2>7, <2>8, QuietStep
    DEF Dispatch, KeeperPcs, AddPcs
<1> QED
  BY <1>1, <1>2

\* The next queue that may have something due.
LEMMA FireNextKeeps ==
    ASSUME TimerInv, NEW w \in Workers, FireNext(w)
    PROVE  TimerInv'
<1>0. /\ TypeOK /\ CallsInOrder /\ LifeInv /\ MirrorInv /\ RoleInv /\ KeepInv
      /\ IdleInv /\ CalmInv /\ CallOk(th[w])
  BY DEF TimerInv, CallsInOrder
<1>1. ASSUME NEW v \in th[w].todo, th' = [th EXCEPT ![w].todo = @ \ {v}]
      PROVE  TimerInv'
  <2> DEFINE r == [th[w] EXCEPT !.todo = @ \ {v}]
  <2>a. /\ th[w] \in Local
    BY <1>0, <1>1 DEF TypeOK, Pc
  <2>1. r \in Local
    BY <2>a, <1>1 DEF Local
  <2>2. th' = [th EXCEPT ![w] = r]
    BY <1>0, <1>1 DEF FireNext, GoTo, Call, Return
  <2>3. /\ r.pc = th[w].pc /\ r.ret = th[w].ret /\ r.entry = th[w].entry
        /\ r.gathered = th[w].gathered /\ r.more = th[w].more
    BY <2>a DEF Local
  <2>4. Moves(w) /\ th'[w] = r
    <3> HIDE DEF r
    <3> QED
      BY <1>0, <2>1, <2>2, OnSet
  <2> HIDE DEF r
  <2>5. TypeOK'
    BY <1>0, <1>1, <2>4 DEF FireNext, TypeOK, Moves
  <2>6. IdleInv'
    BY <1>0, <1>1, <2>3, <2>4, IdleFrame
    DEF FireNext, TypeOK, IdleInv, IdlePc, KeeperPcs, FirePcs
  <2>7. CalmInv'
    BY <1>0, <1>1, <2>3, <2>4, DutyDone
    DEF FireNext, OnDuty, CalmInv, KeeperPcs, FirePcs
  <2>8. CallOk(r) /\ (Owning(r) => Owning(th[w]) /\ r.entry = th[w].entry)
    BY <1>0, <1>1, <2>3 DEF FireNext, CallOk, Owning, AddPcs, FirePcs
  <2> QED
    BY <1>1, <2>3, <2>4, <2>5, <2>6, <2>7, <2>8, QuietStep
    DEF FireNext, KeeperPcs, AddPcs
<1>2. ASSUME NEW v \in th[w].todo,
             th' = [th EXCEPT ![w].pc = "expire", ![w].todo = @ \ {v}, ![w].target = v]
      PROVE  TimerInv'
  <2> DEFINE r == [th[w] EXCEPT !.pc = "expire", !.todo = @ \ {v}, !.target = v]
  <2>a. /\ th[w] \in Local /\ "expire" \in Pc /\ v \in Workers
    BY <1>0, <1>2, <1>2 DEF TypeOK, Pc, Local
  <2>1. r \in Local
    BY <2>a, <1>2 DEF Local
  <2>2. th' = [th EXCEPT ![w] = r]
    BY <1>0, <1>2 DEF FireNext, GoTo, Call, Return
  <2>3. /\ r.pc = "expire" /\ r.ret = th[w].ret /\ r.entry = th[w].entry
        /\ r.gathered = th[w].gathered /\ r.more = th[w].more /\ r.target = v
    BY <2>a DEF Local
  <2>4. Moves(w) /\ th'[w] = r
    <3> HIDE DEF r
    <3> QED
      BY <1>0, <2>1, <2>2, OnSet
  <2> HIDE DEF r
  <2>5. TypeOK'
    BY <1>0, <1>2, <2>4 DEF FireNext, TypeOK, Moves
  <2>6. IdleInv'
    BY <1>0, <1>2, <2>3, <2>4, IdleFires DEF FireNext, FirePcs
  <2>7. CalmInv'
    BY <1>0, <1>2, <2>3, <2>4, DutyDone
    DEF FireNext, OnDuty, CalmInv, KeeperPcs, FirePcs
  <2>8. CallOk(r) /\ (Owning(r) => Owning(th[w]) /\ r.entry = th[w].entry)
    BY <1>0, <1>2, <2>3, <2>a DEF FireNext, CallOk, Owning, AddPcs, FirePcs
  <2> QED
    BY <1>2, <2>3, <2>4, <2>5, <2>6, <2>7, <2>8, QuietStep
    DEF FireNext, KeeperPcs, AddPcs
<1>3. ASSUME th' = [th EXCEPT ![w].pc = th[w].ret, ![w].ret = "top", ![w].clock = 0]
      PROVE  TimerInv'
  <2> DEFINE r == [th[w] EXCEPT !.pc = th[w].ret, !.ret = "top", !.clock = 0]
  <2>a. /\ th[w] \in Local /\ "top" \in Pc /\ 0 \in 0 .. MaxTime
    BY <1>0, <1>3, TimeIsNatural DEF TypeOK, Pc
  <2>1. r \in Local
    BY <2>a DEF Local
  <2>2. th' = [th EXCEPT ![w] = r]
    BY <1>0, <1>3 DEF FireNext, GoTo, Call, Return
  <2>3. /\ r.pc = th[w].ret /\ r.ret = "top" /\ r.entry = th[w].entry
        /\ r.gathered = th[w].gathered /\ r.more = th[w].more
    BY <2>a DEF Local
  <2>4. Moves(w) /\ th'[w] = r
    <3> HIDE DEF r
    <3> QED
      BY <1>0, <2>1, <2>2, OnSet
  <2> HIDE DEF r
  <2>b. r.pc \in {"place", "awake"} /\ (r.pc = "place" => th[w].ret # "awake")
    BY <1>0, <1>3, <2>3 DEF FireNext, CallOk, FirePcs
  <2>5. TypeOK'
    BY <1>0, <1>3, <2>b, <2>4 DEF FireNext, TypeOK, Moves
  <2>6. IdleInv'
    BY <1>0, <1>3, <2>b, <2>3, <2>4, IdleFrame
    DEF FireNext, TypeOK, IdleInv, IdlePc, KeeperPcs, FirePcs
  <2>7. CalmInv'
    BY <1>0, <1>3, <2>b, <2>3, <2>4, DutyDone
    DEF FireNext, OnDuty, CalmInv, KeeperPcs, FirePcs
  <2>8. CallOk(r) /\ (Owning(r) => Owning(th[w]) /\ r.entry = th[w].entry)
    BY <1>0, <1>3, <2>b, <2>3 DEF FireNext, CallOk, Owning, AddPcs, FirePcs
  <2> QED
    BY <1>3, <2>b, <2>3, <2>4, <2>5, <2>6, <2>7, <2>8, QuietStep
    DEF FireNext, KeeperPcs, AddPcs
<1> QED
  BY <1>1, <1>2, <1>3 DEF FireNext

-----------------------------------------------------------------------------
(* The steps of sleepUntil() and addTimer().                               *)

\* The sleeper calls sleepUntil().
LEMMA SleepUntilKeeps ==
    ASSUME TimerInv, NEW w \in Workers, NEW e \in Sleepers, SleepUntil(w, e)
    PROVE  TimerInv'
<1>0. /\ TypeOK /\ CallsInOrder /\ LifeInv /\ MirrorInv /\ RoleInv /\ KeepInv
      /\ IdleInv /\ CalmInv /\ CallOk(th[w])
  BY DEF TimerInv, CallsInOrder
<1>p. PICK d \in now + 1 .. MaxTime, m \in {th[w].more, TRUE} :
          /\ deadline' = [deadline EXCEPT ![e] = d]
          /\ th' = [th EXCEPT ![w].pc = "add", ![w].entry = e, ![w].more = m]
  BY DEF SleepUntil
<1>q. d \in 0 .. MaxTime /\ m \in BOOLEAN /\ task[e] = "awake" /\ At(w, "run")
  <2>1. now \in Nat /\ MaxTime \in Nat /\ th[w].more \in BOOLEAN
    BY <1>0, TimeIsNatural DEF TypeOK, Local
  <2>2. d \in 0 .. MaxTime
    BY <2>1
  <2>3. m \in BOOLEAN
    BY <2>1, Zenon
  <2> QED
    BY <2>2, <2>3 DEF SleepUntil
<1>n. \A v \in Workers : e \notin heap[v]
  BY <1>0, <1>q DEF LifeInv, HeapInv, Pending
<1> DEFINE r == [th[w] EXCEPT !.pc = "add", !.entry = e, !.more = m]
<1>a. /\ th[w] \in Local /\ "add" \in Pc /\ e \in Sleepers \cup {None}
  BY <1>0, <1>p, <1>q DEF TypeOK, Pc
<1>1. r \in Local
  BY <1>a DEF Local
<1>2. th' = [th EXCEPT ![w] = r]
  BY <1>0, <1>p, <1>q DEF SleepUntil, GoTo, Call, Return
<1>3. /\ r.pc = "add" /\ r.ret = th[w].ret /\ r.entry = e /\ r.more = m
      /\ r.gathered = th[w].gathered /\ r.target = th[w].target
      /\ r.todo = th[w].todo /\ r.wakeAt = th[w].wakeAt
  BY <1>a DEF Local
<1>4. Moves(w) /\ th'[w] = r
  <2> HIDE DEF r
  <2> QED
    BY <1>0, <1>1, <1>2, OnSet
<1> HIDE DEF r
<1>u. /\ deadline' = [deadline EXCEPT ![e] = d] /\ task' = [task EXCEPT ![e] = "onWorker"]
      /\ UNCHANGED <<heap, lock, earliest, mask, fired, notified, work, keepVars>>
      /\ UNCHANGED <<idleVars, recent, now>>
  BY <1>0, <1>p, <1>q DEF SleepUntil
<1>5. TypeOK'
  BY <1>0, <1>p, <1>q, <1>u, <1>4 DEF TypeOK, Moves
<1>6. CallsInOrder'
  BY <1>0, <1>p, <1>q, <1>u, <1>3, <1>4 DEF CallsInOrder, CallOk, FirePcs, Moves
<1>7. LifeInv'
  <2>1. OwnerInv'
    <3>1. \A u \in Workers \ {w} :
             Owning(th[u]) => th[u].entry \in Sleepers \ {e} /\ task[th[u].entry] = "onWorker"
      BY <1>0, <1>q DEF LifeInv, OwnerInv
    <3>2. /\ th'[w].entry = e /\ task'[e] = "onWorker"
          /\ \A f \in Sleepers \ {e} : task'[f] = task[f]
      BY <1>0, <1>u, <1>3, <1>4 DEF TypeOK
    <3>3. \A u \in Workers \ {w} : th'[u] = th[u]
      BY <1>4 DEF Moves
    <3>4. \A u \in Workers : Owning(th'[u]) =>
             th'[u].entry \in Sleepers /\ task'[th'[u].entry] = "onWorker"
      BY <3>1, <3>2, <3>3
    <3>5. ASSUME NEW u \in Workers, NEW v \in Workers,
                 Owning(th'[u]), Owning(th'[v]), th'[u].entry = th'[v].entry
          PROVE  u = v
      <4>1. CASE u = w
        BY <3>1, <3>2, <3>3, <3>5, <4>1
      <4>2. CASE v = w
        BY <3>1, <3>2, <3>3, <3>5, <4>2
      <4>3. CASE u # w /\ v # w
        <5>1. th'[u] = th[u] /\ th'[v] = th[v]
          BY <3>3, <4>3
        <5> QED
          BY <1>0, <3>5, <5>1 DEF LifeInv, OwnerInv
      <4> QED
        BY <4>1, <4>2, <4>3
    <3> QED
      BY <3>4, <3>5 DEF OwnerInv
  <2>2. GatherInv'
    BY <1>0, <1>p, <1>q, <1>u, <1>3, <1>4, <1>n
    DEF LifeInv, OwnerInv, GatherInv, Owning, AddPcs, TypeOK, Moves
  <2>3. HeapInv'
    BY <1>0, <1>p, <1>q, <1>u, <1>3, <1>4, <1>n
    DEF LifeInv, OwnerInv, HeapInv, ExpireInv, Pending, Owning, AddPcs, TypeOK, Moves
  <2>4. ExpireInv'
    BY <1>0, <1>p, <1>q, <1>u, <1>3, <1>4, <1>n
    DEF LifeInv, OwnerInv, HeapInv, ExpireInv, Pending, Owning, AddPcs, TypeOK, Moves
  <2> QED
    BY <2>1, <2>2, <2>3, <2>4 DEF LifeInv
<1>8. MirrorInv'
  BY <1>0, <1>p, <1>q, <1>u, <1>3, <1>4, <1>n DEF MirrorInv, TypeOK, Moves
<1>9. RoleInv'
  BY <1>0, <1>p, <1>q, <1>u, <1>3, <1>4, RoleFrame DEF KeeperPcs
<1>10. KeepInv'
  BY <1>0, <1>p, <1>q, <1>u, <1>3, <1>4, KeepFrame, <1>n DEF AddPcs, TypeOK
<1>11. IdleInv'
  BY <1>0, <1>p, <1>q, <1>u, <1>3, <1>4, IdleFrame
  DEF TypeOK, IdleInv, IdlePc, KeeperPcs, FirePcs
<1>12. CalmInv'
  BY <1>0, <1>p, <1>q, <1>u, <1>3, <1>4, DutyFrame
  DEF OnDuty, WillSee, KeeperPcs, FirePcs
<1> QED
  BY <1>5, <1>6, <1>7, <1>8, <1>9, <1>10, <1>11, <1>12 DEF TimerInv

\* The entry joins the heap.
LEMMA AddKeeps ==
    ASSUME TimerInv, NEW w \in Workers, Add(w)
    PROVE  TimerInv'
<1>0. /\ TypeOK /\ CallsInOrder /\ LifeInv /\ MirrorInv /\ RoleInv /\ KeepInv
      /\ IdleInv /\ CalmInv /\ CallOk(th[w])
  BY DEF TimerInv, CallsInOrder
<1>p. PICK e \in Sleepers : e = th[w].entry /\ task[e] = "onWorker"
  BY <1>0 DEF Add, LifeInv, OwnerInv, Owning
<1>q. At(w, "add") /\ \A v \in Workers : e \notin heap[v]
  BY <1>0, <1>p DEF Add, LifeInv, HeapInv, Pending
<1> DEFINE r == [th[w] EXCEPT !.pc = "mirror"]
<1>a. /\ th[w] \in Local /\ "mirror" \in Pc
  BY <1>0, <1>p, <1>q DEF TypeOK, Pc
<1>1. r \in Local
  BY <1>a DEF Local
<1>2. th' = [th EXCEPT ![w] = r]
  BY <1>0, <1>p, <1>q DEF Add, GoTo, Call, Return
<1>3. /\ r.pc = "mirror" /\ r.ret = th[w].ret /\ r.entry = th[w].entry
      /\ r.more = th[w].more /\ r.gathered = th[w].gathered
      /\ r.target = th[w].target /\ r.todo = th[w].todo /\ r.wakeAt = th[w].wakeAt
  BY <1>a DEF Local
<1>4. Moves(w) /\ th'[w] = r
  <2> HIDE DEF r
  <2> QED
    BY <1>0, <1>1, <1>2, OnSet
<1> HIDE DEF r
<1>u. /\ heap' = [heap EXCEPT ![w] = @ \cup {e}] /\ fired' = [fired EXCEPT ![e] = FALSE]
      /\ lock' = [lock EXCEPT ![w] = w] /\ mask' = mask \cup {w}
      /\ UNCHANGED <<earliest, deadline, taskVars, keepVars, idleVars, recent, now>>
  BY <1>0, <1>p, <1>q DEF Add
<1>b. r.entry = e
  BY <1>p, <1>3
<1>n. \A v \in Workers : v # w => heap'[v] = heap[v]
  BY <1>0, <1>p, <1>q, <1>u DEF TypeOK
<1>m. heap'[w] = heap[w] \cup {e}
  BY <1>0, <1>p, <1>q, <1>u DEF TypeOK
<1>5. TypeOK'
  BY <1>0, <1>p, <1>q, <1>u, <1>4 DEF TypeOK, Moves
<1>6. CallsInOrder'
  BY <1>0, <1>p, <1>q, <1>u, <1>3, <1>4 DEF CallsInOrder, CallOk, FirePcs, Moves
<1>7. LifeInv'
  <2>1. OwnerInv'
    BY <1>0, <1>p, <1>q, <1>u, <1>3, <1>4, OwnerFrame DEF LifeInv, Owning, AddPcs
  <2>2. GatherInv'
    BY <1>0, <1>p, <1>q, <1>u, <1>3, <1>4, GatherFrame DEF LifeInv
  <2>3. \A u \in Workers : At(u, "add")' => u # w /\ At(u, "add") /\ th[u].entry # e
    BY <1>0, <1>p, <1>q, <1>u, <1>3, <1>4, <1>b DEF LifeInv, OwnerInv, Owning, Moves
  <2>4. \A u \in Workers : At(u, "expireMirror")' =>
          th'[u] = th[u] /\ At(u, "expireMirror") /\ th[u].entry # e
    BY <1>0, <1>p, <1>q, <1>u, <1>3, <1>4, <1>b DEF LifeInv, ExpireInv, Pending, Moves
  <2>5. Pending(e)'
    <3>1. fired'[e] = FALSE /\ task'[e] # "awake"
      BY <1>0, <1>p, <1>q, <1>u DEF TypeOK
    <3>2. \A u \in Workers : At(u, "add")' => th'[u].entry # e
      BY <1>4, <2>3 DEF Moves
    <3> QED
      BY <3>1, <3>2 DEF Pending
  <2>6. ASSUME NEW f, f # e, Pending(f) PROVE Pending(f)'
    BY <1>0, <1>p, <1>q, <1>u, <1>4, <2>3, <2>6 DEF Pending, TypeOK, Moves
  <2>7. HeapInv'
    <3> SUFFICES ASSUME NEW v \in Workers, NEW f \in heap'[v]
                 PROVE  /\ Pending(f)'
                        /\ \A u \in Workers : At(u, "expireMirror")' => th'[u].entry # f
                        /\ \A u \in Workers : f \in heap'[u] => u = v
      BY DEF HeapInv
    <3>1. CASE f = e
      <4>1. \A u \in Workers : e \in heap'[u] => u = w
        BY <1>0, <1>p, <1>q, <1>u, <1>n, <1>m
      <4> QED
        BY <2>4, <2>5, <3>1, <4>1
    <3>2. CASE f # e
      <4>1. f \in heap[v] /\ \A u \in Workers : f \in heap'[u] => f \in heap[u]
        BY <1>n, <1>m, <3>2
      <4> QED
        BY <1>0, <2>4, <2>6, <3>2, <4>1 DEF LifeInv, HeapInv
    <3> QED
      BY <3>1, <3>2
  <2>8. ExpireInv'
    BY <1>0, <2>4, <2>6 DEF LifeInv, ExpireInv
  <2> QED
    BY <2>1, <2>2, <2>7, <2>8 DEF LifeInv
<1>8. MirrorInv'
  BY <1>0, <1>p, <1>q, <1>u, <1>3, <1>4, <1>b, <1>n, <1>m DEF MirrorInv, Moves
<1>9. RoleInv'
  BY <1>0, <1>p, <1>q, <1>u, <1>3, <1>4, RoleFrame DEF KeeperPcs
<1>10. KeepInv'
  <2> SUFFICES ASSUME NEW k \in Workers, NEW v \in Workers, NEW f \in heap'[v]
               PROVE  /\ At(k, "scan")' => v \in th'[k].todo \/ Covered(k, f)'
                      /\ At(k, "keep")' => Covered(k, f)'
    BY DEF KeepInv
  <2>1. CASE f = e
    BY <1>3, <1>4, <1>b, <2>1 DEF Covered, Coming
  <2>2. CASE f # e
    <3>1. f \in heap[v]
      BY <1>n, <1>m, <2>2
    <3>2. ASSUME k # w PROVE th'[k] = th[k]
      BY <1>4, <3>2 DEF Moves
    <3>3. ASSUME NEW u \in Workers, Coming(k, u, f) PROVE Coming(k, u, f)'
      BY <1>4, <1>q, <3>3 DEF Coming, Moves
    <3> QED
      BY <1>0, <1>p, <1>q, <1>u, <1>3, <1>4, <3>1, <3>2, <3>3 DEF KeepInv, Covered
  <2> QED
    BY <2>1, <2>2
<1>11. IdleInv'
  BY <1>0, <1>p, <1>q, <1>u, <1>3, <1>4, IdleFrame
  DEF TypeOK, IdleInv, IdlePc, KeeperPcs, FirePcs
<1>12. CalmInv'
  <2> SUFFICES ASSUME Plain, keeper' = None, NEW z \in Workers, AsleepForGood(z)',
                      NEW v \in Workers, NEW f \in heap'[v]
               PROVE  \E u \in Workers : OnDuty(u)' \/ WillSee(u, f)'
    BY <1>0, <1>p, <1>q, <1>u DEF CalmInv, DutyInv, Plain
  <2>1. CASE f = e
    BY <1>3, <1>4, <1>b, <2>1 DEF WillSee
  <2>2. CASE f # e
    <3>1. f \in heap[v] /\ AsleepForGood(z)
      BY <1>0, <1>p, <1>q, <1>u, <1>3, <1>4, <1>n, <1>m, <2>2 DEF AsleepForGood, Moves
    <3>2. PICK u \in Workers : OnDuty(u) \/ WillSee(u, f)
      BY <1>0, <1>p, <1>q, <1>u, <3>1 DEF CalmInv, DutyInv
    <3>3. u # w
      BY <1>q, <3>2 DEF OnDuty, WillSee, KeeperPcs, FirePcs
    <3> QED
      BY <1>0, <1>p, <1>q, <1>u, <1>4, <3>2, <3>3 DEF OnDuty, WillSee, Moves
  <2> QED
    BY <2>1, <2>2
<1> QED
  BY <1>5, <1>6, <1>7, <1>8, <1>9, <1>10, <1>11, <1>12 DEF TimerInv

\* Its deadline becomes visible.
LEMMA AddMirrorKeeps ==
    ASSUME TimerInv, NEW w \in Workers, AddMirror(w)
    PROVE  TimerInv'
<1>0. /\ TypeOK /\ CallsInOrder /\ LifeInv /\ MirrorInv /\ RoleInv /\ KeepInv
      /\ IdleInv /\ CalmInv /\ CallOk(th[w])
  BY DEF TimerInv, CallsInOrder
<1>e. /\ EarliestOf(heap[w]) \in 0 .. Never
      /\ \A e \in heap[w] : EarliestOf(heap[w]) <= deadline[e]
  BY <1>0, EarliestIsLeast DEF TypeOK
<1> DEFINE r == [th[w] EXCEPT !.pc = "askKeeper"]
<1>a. /\ th[w] \in Local /\ "askKeeper" \in Pc
  BY <1>0 DEF TypeOK, Pc
<1>1. r \in Local
  BY <1>a DEF Local
<1>2. th' = [th EXCEPT ![w] = r]
  BY <1>0 DEF AddMirror, GoTo, Call, Return
<1>3. /\ r.pc = "askKeeper" /\ r.ret = th[w].ret /\ r.entry = th[w].entry
      /\ r.more = th[w].more /\ r.gathered = th[w].gathered
      /\ r.target = th[w].target /\ r.todo = th[w].todo /\ r.wakeAt = th[w].wakeAt
  BY <1>a DEF Local
<1>4. Moves(w) /\ th'[w] = r
  <2> HIDE DEF r
  <2> QED
    BY <1>0, <1>1, <1>2, OnSet
<1> HIDE DEF r
<1>u. /\ At(w, "mirror")
      /\ earliest' = [earliest EXCEPT ![w] = EarliestOf(heap[w])]
      /\ lock' = [lock EXCEPT ![w] = None]
      /\ UNCHANGED <<heap, mask, deadline, fired, taskVars, keepVars, idleVars, recent, now>>
  BY <1>0 DEF AddMirror
<1>5. TypeOK'
  BY <1>0, <1>u, <1>4, <1>e DEF TypeOK, Moves
<1>6. CallsInOrder'
  BY <1>0, <1>u, <1>3, <1>4 DEF CallsInOrder, CallOk, FirePcs, Moves
<1>7. LifeInv'
  BY <1>0, <1>u, <1>3, <1>4, LifeFrame DEF Owning, AddPcs
<1>8. MirrorInv'
  <2>1. earliest'[w] = EarliestOf(heap[w]) /\ \A v \in Workers \ {w} : earliest'[v] = earliest[v]
    BY <1>0, <1>u DEF TypeOK
  <2> QED
    BY <1>0, <1>u, <1>4, <1>e, <2>1 DEF MirrorInv, Moves
<1>9. RoleInv'
  BY <1>0, <1>u, <1>3, <1>4, RoleFrame DEF KeeperPcs
<1>10. KeepInv'
  <2>1. \A k, e : Coming(k, w, e) => Coming(k, w, e)'
    BY <1>3, <1>4 DEF Coming
  <2>2. \A k \in Workers \ {w}, e \in Sleepers : Coming(k, w, e) => Covered(k, e)'
    BY <2>1 DEF Covered
  <2> QED
    BY <1>0, <1>u, <1>3, <1>4, <2>2, KeepMove DEF TypeOK
<1>11. IdleInv'
  BY <1>0, <1>u, <1>3, <1>4, IdleFrame DEF TypeOK, IdleInv, IdlePc, KeeperPcs, FirePcs
<1>12. CalmInv'
  BY <1>0, <1>u, <1>3, <1>4, DutyFrame DEF OnDuty, WillSee, KeeperPcs, FirePcs
<1> QED
  BY <1>5, <1>6, <1>7, <1>8, <1>9, <1>10, <1>11, <1>12 DEF TimerInv

\* Who sleeps on the timers?
LEMMA AskKeeperKeeps ==
    ASSUME TimerInv, NEW w \in Workers, AskKeeper(w)
    PROVE  TimerInv'
<1>0. /\ TypeOK /\ CallsInOrder /\ LifeInv /\ MirrorInv /\ RoleInv /\ KeepInv
      /\ IdleInv /\ CalmInv /\ CallOk(th[w])
  BY DEF TimerInv, CallsInOrder
<1>1. ASSUME keeper # None,
             th' = [th EXCEPT ![w].pc = "askDeadline", ![w].target = keeper]
      PROVE  TimerInv'
  <2>v. keeper \in Workers
    BY <1>0, <1>1 DEF TypeOK
  <2> DEFINE r == [th[w] EXCEPT !.pc = "askDeadline", !.target = keeper]
  <2>a. /\ th[w] \in Local /\ "askDeadline" \in Pc /\ keeper \in Workers \cup {None}
    BY <1>0, <1>1 DEF TypeOK, Pc
  <2>1. r \in Local
    BY <2>a DEF Local
  <2>2. th' = [th EXCEPT ![w] = r]
    BY <1>0, <1>1 DEF AskKeeper, GoTo, Call, Return
  <2>3. /\ r.pc = "askDeadline" /\ r.ret = th[w].ret /\ r.entry = th[w].entry
        /\ r.more = th[w].more /\ r.gathered = th[w].gathered /\ r.target = keeper
        /\ r.todo = th[w].todo /\ r.wakeAt = th[w].wakeAt
    BY <2>a DEF Local
  <2>4. Moves(w) /\ th'[w] = r
    <3> HIDE DEF r
    <3> QED
      BY <1>0, <2>1, <2>2, OnSet
  <2> HIDE DEF r
  <2>u. /\ At(w, "askKeeper")
        /\ UNCHANGED <<timerVars, taskVars, keepVars, idleVars, recent, now>>
    BY <1>0, <1>1 DEF AskKeeper
  <2>5. TypeOK'
    BY <1>0, <1>1, <2>u, <2>4 DEF TypeOK, Moves
  <2>6. CallsInOrder'
    BY <1>0, <1>1, <2>u, <2>3, <2>4, <2>v DEF CallsInOrder, CallOk, FirePcs, Moves
  <2>7. LifeInv'
    BY <1>0, <1>1, <2>u, <2>3, <2>4, LifeFrame DEF Owning, AddPcs
  <2>8. MirrorInv'
    BY <1>0, <1>1, <2>u, <2>3, <2>4, MirrorFrame
  <2>9. RoleInv'
    BY <1>0, <1>1, <2>u, <2>3, <2>4, RoleFrame DEF KeeperPcs
  <2>10. KeepInv'
    <3>1. \A k \in Workers \ {w}, e \in Sleepers :
             th[k].pc \in {"scan", "keep"} /\ Coming(k, w, e) => Covered(k, e)'
      <4> SUFFICES ASSUME NEW k \in Workers \ {w}, NEW e \in Sleepers,
                          th[k].pc \in {"scan", "keep"}, Coming(k, w, e)
                   PROVE  Coming(k, w, e)'
        BY DEF Covered
      <4>1. keeper = k
        BY <1>0 DEF RoleInv, KeeperPcs
      <4> QED
        BY <2>3, <2>4, <4>1 DEF Coming
    <3> QED
      BY <1>0, <1>1, <2>u, <2>3, <2>4, <3>1, KeepMove DEF TypeOK
  <2>11. IdleInv'
    BY <1>0, <1>1, <2>u, <2>3, <2>4, IdleFrame
    DEF TypeOK, IdleInv, IdlePc, KeeperPcs, FirePcs
  <2>12. CalmInv'
    BY <1>0, <1>1, <2>u, <2>3, <2>4, DutyDone DEF OnDuty, CalmInv, KeeperPcs, FirePcs
  <2> QED
    BY <2>5, <2>6, <2>7, <2>8, <2>9, <2>10, <2>11, <2>12 DEF TimerInv
<1>2. ASSUME keeper = None, Call(w, "ensure", "check")
      PROVE  TimerInv'
  <2> DEFINE r == [th[w] EXCEPT !.pc = "ensure", !.ret = "check"]
  <2>a. /\ th[w] \in Local /\ "ensure" \in Pc /\ "check" \in Pc
    BY <1>0, <1>2 DEF TypeOK, Pc
  <2>1. r \in Local
    BY <2>a DEF Local
  <2>2. th' = [th EXCEPT ![w] = r]
    BY <1>0, <1>2 DEF AskKeeper, GoTo, Call, Return
  <2>3. /\ r.pc = "ensure" /\ r.ret = "check" /\ r.entry = th[w].entry
        /\ r.more = th[w].more /\ r.gathered = th[w].gathered
        /\ r.target = th[w].target /\ r.todo = th[w].todo /\ r.wakeAt = th[w].wakeAt
    BY <2>a DEF Local
  <2>4. Moves(w) /\ th'[w] = r
    <3> HIDE DEF r
    <3> QED
      BY <1>0, <2>1, <2>2, OnSet
  <2> HIDE DEF r
  <2>u. /\ At(w, "askKeeper")
        /\ UNCHANGED <<timerVars, taskVars, keepVars, idleVars, recent, now>>
    BY <1>0, <1>2 DEF AskKeeper
  <2>5. TypeOK'
    BY <1>0, <1>2, <2>u, <2>4 DEF TypeOK, Moves
  <2>6. CallsInOrder'
    BY <1>0, <1>2, <2>u, <2>3, <2>4 DEF CallsInOrder, CallOk, FirePcs, Moves
  <2>7. LifeInv'
    BY <1>0, <1>2, <2>u, <2>3, <2>4, LifeFrame DEF Owning, AddPcs
  <2>8. MirrorInv'
    BY <1>0, <1>2, <2>u, <2>3, <2>4, MirrorFrame
  <2>9. RoleInv'
    BY <1>0, <1>2, <2>u, <2>3, <2>4, RoleFrame DEF KeeperPcs
  <2>10. KeepInv'
    <3>1. \A k \in Workers : th[k].pc \notin {"scan", "keep"}
      BY <1>0, <1>2, <2>u, NoneIsNobody DEF RoleInv, KeeperPcs
    <3> QED
      BY <1>0, <1>2, <2>u, <2>3, <2>4, <3>1, KeepMove
  <2>11. IdleInv'
    BY <1>0, <1>2, <2>u, <2>3, <2>4, IdleFrame
    DEF TypeOK, IdleInv, IdlePc, KeeperPcs, FirePcs
  <2>12. CalmInv'
    BY <1>0, <1>2, <2>u, <2>3, <2>4, DutyDone DEF OnDuty, CalmInv, KeeperPcs, FirePcs
  <2> QED
    BY <2>5, <2>6, <2>7, <2>8, <2>9, <2>10, <2>11, <2>12 DEF TimerInv
<1>3. ASSUME keeper = None, ~th[w].more, GoTo(w, "check")
      PROVE  TimerInv'
  <2> DEFINE r == [th[w] EXCEPT !.pc = "check"]
  <2>a. /\ th[w] \in Local /\ "check" \in Pc
    BY <1>0, <1>3 DEF TypeOK, Pc
  <2>1. r \in Local
    BY <2>a DEF Local
  <2>2. th' = [th EXCEPT ![w] = r]
    BY <1>0, <1>3 DEF AskKeeper, GoTo, Call, Return
  <2>3. /\ r.pc = "check" /\ r.ret = th[w].ret /\ r.entry = th[w].entry
        /\ r.more = th[w].more /\ r.gathered = th[w].gathered
        /\ r.target = th[w].target /\ r.todo = th[w].todo /\ r.wakeAt = th[w].wakeAt
    BY <2>a DEF Local
  <2>4. Moves(w) /\ th'[w] = r
    <3> HIDE DEF r
    <3> QED
      BY <1>0, <2>1, <2>2, OnSet
  <2> HIDE DEF r
  <2>u. /\ At(w, "askKeeper")
        /\ UNCHANGED <<timerVars, taskVars, keepVars, idleVars, recent, now>>
    BY <1>0, <1>3 DEF AskKeeper
  <2>5. TypeOK'
    BY <1>0, <1>3, <2>u, <2>4 DEF TypeOK, Moves
  <2>6. CallsInOrder'
    BY <1>0, <1>3, <2>u, <2>3, <2>4 DEF CallsInOrder, CallOk, FirePcs, Moves
  <2>7. LifeInv'
    BY <1>0, <1>3, <2>u, <2>3, <2>4, LifeFrame DEF Owning, AddPcs
  <2>8. MirrorInv'
    BY <1>0, <1>3, <2>u, <2>3, <2>4, MirrorFrame
  <2>9. RoleInv'
    BY <1>0, <1>3, <2>u, <2>3, <2>4, RoleFrame DEF KeeperPcs
  <2>10. KeepInv'
    <3>1. \A k \in Workers : th[k].pc \notin {"scan", "keep"}
      BY <1>0, <1>3, <2>u, NoneIsNobody DEF RoleInv, KeeperPcs
    <3> QED
      BY <1>0, <1>3, <2>u, <2>3, <2>4, <3>1, KeepMove
  <2>11. IdleInv'
    BY <1>0, <1>3, <2>u, <2>3, <2>4, IdleFrame
    DEF TypeOK, IdleInv, IdlePc, KeeperPcs, FirePcs
  <2>12. CalmInv'
    BY <1>0, <1>3, <2>u, <2>3, <2>4, DutyFrame DEF OnDuty, WillSee, KeeperPcs, FirePcs
  <2> QED
    BY <2>5, <2>6, <2>7, <2>8, <2>9, <2>10, <2>11, <2>12 DEF TimerInv
<1> QED
  BY <1>1, <1>2, <1>3 DEF AskKeeper

\* The timekeeper is woken if it would sleep too long.
LEMMA AskDeadlineKeeps ==
    ASSUME TimerInv, NEW w \in Workers, AskDeadline(w)
    PROVE  TimerInv'
<1>0. /\ TypeOK /\ CallsInOrder /\ LifeInv /\ MirrorInv /\ RoleInv /\ KeepInv
      /\ IdleInv /\ CalmInv /\ CallOk(th[w])
  BY DEF TimerInv, CallsInOrder
<1>p. PICK e \in Sleepers : e = th[w].entry
  BY <1>0 DEF AskDeadline, LifeInv, OwnerInv, Owning, AddPcs
<1>v. PICK t \in Workers : t = th[w].target
  BY <1>0 DEF AskDeadline, CallOk
<1> DEFINE r == [th[w] EXCEPT !.pc = "check", !.target = None]
<1>a. /\ th[w] \in Local /\ "check" \in Pc
  BY <1>0, <1>p, <1>v DEF TypeOK, Pc
<1>1. r \in Local
  BY <1>a DEF Local
<1>2. th' = [th EXCEPT ![w] = r]
  BY <1>0, <1>p, <1>v DEF AskDeadline, GoTo, Call, Return
<1>3. /\ r.pc = "check" /\ r.ret = th[w].ret /\ r.entry = th[w].entry
      /\ r.more = th[w].more /\ r.gathered = th[w].gathered /\ r.target = None
      /\ r.todo = th[w].todo /\ r.wakeAt = th[w].wakeAt
  BY <1>a DEF Local
<1>4. Moves(w) /\ th'[w] = r
  <2> HIDE DEF r
  <2> QED
    BY <1>0, <1>1, <1>2, OnSet
<1> HIDE DEF r
<1>u. /\ At(w, "askDeadline")
      /\ token' = [token EXCEPT ![t] = @ \/ deadline[e] < keeperDeadline]
      /\ UNCHANGED <<timerVars, taskVars, keepVars, idle, recent, now>>
  BY <1>0, <1>p, <1>v DEF AskDeadline
<1>m. /\ \A v \in Workers : token[v] => token'[v]
      /\ deadline[e] < keeperDeadline => token'[t]
  BY <1>0, <1>p, <1>v, <1>u DEF TypeOK
<1>5. TypeOK'
  BY <1>0, <1>p, <1>v, <1>u, <1>4 DEF TypeOK, Moves
<1>6. CallsInOrder'
  BY <1>0, <1>p, <1>v, <1>u, <1>3, <1>4 DEF CallsInOrder, CallOk, FirePcs, Moves
<1>7. LifeInv'
  BY <1>0, <1>p, <1>v, <1>u, <1>3, <1>4, LifeFrame DEF Owning, AddPcs
<1>8. MirrorInv'
  BY <1>0, <1>p, <1>v, <1>u, <1>3, <1>4, MirrorFrame
<1>9. RoleInv'
  BY <1>0, <1>p, <1>v, <1>u, <1>3, <1>4, RoleFrame DEF KeeperPcs
<1>10. KeepInv'
  <2> SUFFICES ASSUME NEW k \in Workers, k # w, NEW f \in Sleepers,
                      th[k].pc \in {"scan", "keep"}, Coming(k, w, f)
               PROVE  Covered(k, f)'
    BY <1>0, <1>p, <1>v, <1>u, <1>3, <1>4, <1>m, KeepMove DEF TypeOK
  <2>1. k = t /\ f = e
    BY <1>0, <1>p, <1>v, <1>u DEF Coming
  <2>2. deadline[e] \in 0 .. MaxTime /\ keeperDeadline \in 0 .. Never
    BY <1>0 DEF TypeOK
  <2>3. CASE deadline[e] < keeperDeadline
    BY <1>m, <2>1, <2>3 DEF Covered
  <2>4. CASE ~(deadline[e] < keeperDeadline)
    <3>1. keeperDeadline <= deadline[e] /\ keeperDeadline # Never
      BY <2>2, <2>4, TimeIsNatural
    <3>2. th[k].wakeAt = keeperDeadline
      BY <1>0, <3>1 DEF RoleInv
    <3> QED
      BY <1>0, <1>p, <1>v, <1>u, <1>4, <2>1, <3>1, <3>2 DEF Covered, Moves
  <2> QED
    BY <2>3, <2>4
<1>11. IdleInv'
  BY <1>0, <1>p, <1>v, <1>u, <1>3, <1>4, IdleFrame, <1>m
  DEF TypeOK, IdleInv, IdlePc, KeeperPcs, FirePcs
<1>12. CalmInv'
  BY <1>0, <1>p, <1>v, <1>u, <1>3, <1>4, DutyFrame, <1>m
  DEF OnDuty, WillSee, KeeperPcs, FirePcs
<1> QED
  BY <1>5, <1>6, <1>7, <1>8, <1>9, <1>10, <1>11, <1>12 DEF TimerInv

\* The sleeper goes on, or is about to park.
LEMMA CheckKeeps ==
    ASSUME TimerInv, NEW w \in Workers, Check(w)
    PROVE  TimerInv'
<1>0. /\ TypeOK /\ CallsInOrder /\ LifeInv /\ MirrorInv /\ RoleInv /\ KeepInv
      /\ IdleInv /\ CalmInv /\ CallOk(th[w])
  BY DEF TimerInv, CallsInOrder
<1>p. PICK e \in Sleepers : e = th[w].entry /\ task[e] = "onWorker"
  BY <1>0 DEF Check, LifeInv, OwnerInv, Owning
<1>1. ASSUME fired[e], task' = [task EXCEPT ![e] = "awake"],
             deadline' = [deadline EXCEPT ![e] = 0], fired' = [fired EXCEPT ![e] = FALSE],
             th' = [th EXCEPT ![w].pc = "run", ![w].entry = None]
      PROVE  TimerInv'
  <2> DEFINE r == [th[w] EXCEPT !.pc = "run", !.entry = None]
  <2>a. /\ th[w] \in Local /\ "run" \in Pc
    BY <1>0, <1>p, <1>1 DEF TypeOK, Pc
  <2>1. r \in Local
    BY <2>a DEF Local
  <2>2. th' = [th EXCEPT ![w] = r]
    BY <1>0, <1>p, <1>1 DEF Check, GoTo, Call, Return
  <2>3. /\ r.pc = "run" /\ r.ret = th[w].ret /\ r.entry = None
        /\ r.more = th[w].more /\ r.gathered = th[w].gathered
        /\ r.target = th[w].target /\ r.todo = th[w].todo /\ r.wakeAt = th[w].wakeAt
    BY <2>a DEF Local
  <2>4. Moves(w) /\ th'[w] = r
    <3> HIDE DEF r
    <3> QED
      BY <1>0, <2>1, <2>2, OnSet
  <2> HIDE DEF r
  <2>u. /\ At(w, "check")
        /\ UNCHANGED <<heap, lock, earliest, mask, notified, work, keepVars, idleVars, recent, now>>
    BY <1>0, <1>p, <1>1 DEF Check
  <2>n. /\ \A v \in Workers : e \notin heap[v]
        /\ \A u \in Workers : At(u, "expireMirror") => th[u].entry # e
    BY <1>0, <1>p, <1>1, <2>u DEF LifeInv, HeapInv, ExpireInv, Pending
  <2>m. /\ \A f \in Sleepers \ {e} : task'[f] = task[f] /\ deadline'[f] = deadline[f]
        /\ \A f \in Sleepers : fired'[f] => fired[f]
        /\ \A v \in Workers : \A f \in heap[v] : deadline'[f] = deadline[f]
    BY <1>0, <1>p, <1>1, <2>u, <2>n DEF TypeOK
  <2>o. \A u \in Workers \ {w} : (Owning(th[u]) => th[u].entry # e) /\ e \notin th[u].gathered
    BY <1>0, <1>p, <1>1, <2>u DEF LifeInv, OwnerInv, GatherInv, Owning
  <2>g. \A f \in th[w].gathered : f # e /\ f \in Sleepers /\ task[f] = "gathered"
    BY <1>0, <1>p, <1>1, <2>u DEF LifeInv, GatherInv, TypeOK, Local
  <2>5. TypeOK'
    BY <1>0, <1>p, <1>1, <2>u, <2>4, TimeIsNatural DEF TypeOK, Moves
  <2>6. CallsInOrder'
    BY <1>0, <1>p, <1>1, <2>u, <2>3, <2>4 DEF CallsInOrder, CallOk, FirePcs, Moves
  <2>7. LifeInv'
    <3>1. ~Owning(th'[w])
      BY <2>3, <2>4 DEF Owning, AddPcs
    <3>2. \A f \in th'[w].gathered :
             task'[f] = "gathered" /\ \A u \in Workers \ {w} : f \notin th[u].gathered
      BY <1>0, <2>3, <2>4, <2>m, <2>g DEF LifeInv, GatherInv
    <3>3. \A f \in Sleepers : task'[f] # task[f] =>
             \A u \in Workers \ {w} :
                (Owning(th[u]) => th[u].entry # f) /\ f \notin th[u].gathered
      BY <2>m, <2>o
    <3>4. \A f \in Sleepers : task'[f] = "awake" /\ task[f] # "awake" =>
             /\ \A v \in Workers : f \notin heap[v]
             /\ \A u \in Workers : At(u, "expireMirror") => th[u].entry # f
      BY <2>n, <2>m
    <3>5. th'[w].pc \notin {"add", "expireMirror"} /\ UNCHANGED heap
      BY <1>0, <1>p, <1>1, <2>u, <2>3, <2>4
    <3> QED
      BY <1>0, <2>4, <2>5, <2>m, <3>1, <3>2, <3>3, <3>4, <3>5, LifeMoves
  <2>8. MirrorInv'
    BY <1>0, <1>p, <1>1, <2>u, <2>3, <2>4, <2>m DEF MirrorInv, Moves
  <2>9. RoleInv'
    BY <1>0, <1>p, <1>1, <2>u, <2>3, <2>4, RoleFrame DEF KeeperPcs
  <2>10. KeepInv'
    BY <1>0, <1>p, <1>1, <2>u, <2>3, <2>4, KeepFrame, <2>m DEF AddPcs
  <2>11. IdleInv'
    BY <1>0, <1>p, <1>1, <2>u, <2>3, <2>4, IdleFrame
    DEF TypeOK, IdleInv, IdlePc, KeeperPcs, FirePcs
  <2>12. CalmInv'
    BY <1>0, <1>p, <1>1, <2>u, <2>3, <2>4, DutyFrame, <2>n
    DEF OnDuty, WillSee, KeeperPcs, FirePcs
  <2> QED
    BY <2>5, <2>6, <2>7, <2>8, <2>9, <2>10, <2>11, <2>12 DEF TimerInv
<1>2. ASSUME ~fired[e], GoTo(w, "park"), UNCHANGED <<task, deadline, fired>>
      PROVE  TimerInv'
  <2> DEFINE r == [th[w] EXCEPT !.pc = "park"]
  <2>a. /\ th[w] \in Local /\ "park" \in Pc
    BY <1>0, <1>p, <1>2 DEF TypeOK, Pc
  <2>1. r \in Local
    BY <2>a DEF Local
  <2>2. th' = [th EXCEPT ![w] = r]
    BY <1>0, <1>p, <1>2 DEF Check, GoTo, Call, Return
  <2>3. /\ r.pc = "park" /\ r.ret = th[w].ret /\ r.entry = th[w].entry
        /\ r.more = th[w].more /\ r.gathered = th[w].gathered
        /\ r.target = th[w].target /\ r.todo = th[w].todo /\ r.wakeAt = th[w].wakeAt
    BY <2>a DEF Local
  <2>4. Moves(w) /\ th'[w] = r
    <3> HIDE DEF r
    <3> QED
      BY <1>0, <2>1, <2>2, OnSet
  <2> HIDE DEF r
  <2>u. /\ At(w, "check")
        /\ UNCHANGED <<heap, lock, earliest, mask, notified, work, keepVars, idleVars, recent, now>>
    BY <1>0, <1>p, <1>2 DEF Check
  <2>5. TypeOK'
    BY <1>0, <1>p, <1>2, <2>u, <2>4 DEF TypeOK, Moves
  <2>6. CallsInOrder'
    BY <1>0, <1>p, <1>2, <2>u, <2>3, <2>4 DEF CallsInOrder, CallOk, FirePcs, Moves
  <2>7. LifeInv'
    BY <1>0, <1>p, <1>2, <2>u, <2>3, <2>4, LifeFrame DEF Owning, AddPcs
  <2>8. MirrorInv'
    BY <1>0, <1>p, <1>2, <2>u, <2>3, <2>4, MirrorFrame
  <2>9. RoleInv'
    BY <1>0, <1>p, <1>2, <2>u, <2>3, <2>4, RoleFrame DEF KeeperPcs
  <2>10. KeepInv'
    BY <1>0, <1>p, <1>2, <2>u, <2>3, <2>4, KeepFrame DEF AddPcs
  <2>11. IdleInv'
    BY <1>0, <1>p, <1>2, <2>u, <2>3, <2>4, IdleFrame
    DEF TypeOK, IdleInv, IdlePc, KeeperPcs, FirePcs
  <2>12. CalmInv'
    BY <1>0, <1>p, <1>2, <2>u, <2>3, <2>4, DutyFrame
    DEF OnDuty, WillSee, KeeperPcs, FirePcs
  <2> QED
    BY <2>5, <2>6, <2>7, <2>8, <2>9, <2>10, <2>11, <2>12 DEF TimerInv
<1> QED
  BY <1>1, <1>2, <1>p DEF Check

\* The sleeper parks, unless its wake-up came first.
LEMMA ParkKeeps ==
    ASSUME TimerInv, NEW w \in Workers, Park(w)
    PROVE  TimerInv'
<1>0. /\ TypeOK /\ CallsInOrder /\ LifeInv /\ MirrorInv /\ RoleInv /\ KeepInv
      /\ IdleInv /\ CalmInv /\ CallOk(th[w])
  BY DEF TimerInv, CallsInOrder
<1>p. PICK e \in Sleepers : e = th[w].entry /\ task[e] = "onWorker"
  BY <1>0 DEF Park, LifeInv, OwnerInv, Owning
<1> DEFINE switched == [th EXCEPT ![w].entry = None, ![w].more = FALSE,
                                  ![w].pc = IF th[w].more THEN "run" ELSE "top"]
<1>1. ASSUME notified' = [notified EXCEPT ![e] = FALSE], GoTo(w, "check"),
             UNCHANGED <<task, idleVars>>
      PROVE  TimerInv'
  <2> DEFINE r == [th[w] EXCEPT !.pc = "check"]
  <2>a. /\ th[w] \in Local /\ "check" \in Pc
    BY <1>0, <1>p, <1>1 DEF TypeOK, Pc
  <2>1. r \in Local
    BY <2>a DEF Local
  <2>2. th' = [th EXCEPT ![w] = r]
    BY <1>0, <1>p, <1>1 DEF Park, GoTo, Call, Return
  <2>3. /\ r.pc = "check" /\ r.ret = th[w].ret /\ r.entry = th[w].entry
        /\ r.more = th[w].more /\ r.gathered = th[w].gathered
        /\ r.target = th[w].target /\ r.todo = th[w].todo /\ r.wakeAt = th[w].wakeAt
    BY <2>a DEF Local
  <2>4. Moves(w) /\ th'[w] = r
    <3> HIDE DEF r
    <3> QED
      BY <1>0, <2>1, <2>2, OnSet
  <2> HIDE DEF r
  <2>u. /\ At(w, "park")
        /\ UNCHANGED <<timerVars, work, keepVars, recent, now>>
    BY <1>0, <1>p, <1>1 DEF Park
  <2>5. TypeOK'
    BY <1>0, <1>p, <1>1, <2>u, <2>4 DEF TypeOK, Moves
  <2>6. CallsInOrder'
    BY <1>0, <1>p, <1>1, <2>u, <2>3, <2>4 DEF CallsInOrder, CallOk, FirePcs, Moves
  <2>7. LifeInv'
    BY <1>0, <1>p, <1>1, <2>u, <2>3, <2>4, LifeFrame DEF Owning, AddPcs
  <2>8. MirrorInv'
    BY <1>0, <1>p, <1>1, <2>u, <2>3, <2>4, MirrorFrame
  <2>9. RoleInv'
    BY <1>0, <1>p, <1>1, <2>u, <2>3, <2>4, RoleFrame DEF KeeperPcs
  <2>10. KeepInv'
    BY <1>0, <1>p, <1>1, <2>u, <2>3, <2>4, KeepFrame DEF AddPcs
  <2>11. IdleInv'
    BY <1>0, <1>p, <1>1, <2>u, <2>3, <2>4, IdleFrame
    DEF TypeOK, IdleInv, IdlePc, KeeperPcs, FirePcs
  <2>12. CalmInv'
    BY <1>0, <1>p, <1>1, <2>u, <2>3, <2>4, DutyFrame
    DEF OnDuty, WillSee, KeeperPcs, FirePcs
  <2> QED
    BY <2>5, <2>6, <2>7, <2>8, <2>9, <2>10, <2>11, <2>12 DEF TimerInv
<1>2. ASSUME notified' = [notified EXCEPT ![e] = FALSE],
             task' = [task EXCEPT ![e] = "ready"], th' = switched, NotifyIdleWorker(idle)
      PROVE  TimerInv'
  <2>n. /\ idle' \subseteq idle /\ token' \in [Workers -> BOOLEAN]
        /\ \A v \in Workers : token[v] => token'[v]
        /\ \A v \in idle : v \in idle' \/ token'[v]
    BY <1>0, <1>2, OnNotify
  <2> DEFINE r == [th[w] EXCEPT !.entry = None, !.more = FALSE,
                                !.pc = IF th[w].more THEN "run" ELSE "top"]
  <2>a. /\ th[w] \in Local /\ "run" \in Pc /\ "top" \in Pc
    BY <1>0, <1>p, <1>2 DEF TypeOK, Pc
  <2>1. r \in Local
    BY <2>a DEF Local
  <2>2. th' = [th EXCEPT ![w] = r]
    BY <1>0, <1>p, <1>2 DEF Park, GoTo, Call, Return
  <2>3. /\ r.pc = (IF th[w].more THEN "run" ELSE "top") /\ r.ret = th[w].ret
        /\ r.entry = None /\ r.more = FALSE /\ r.gathered = th[w].gathered
        /\ r.target = th[w].target /\ r.todo = th[w].todo /\ r.wakeAt = th[w].wakeAt
    BY <2>a DEF Local
  <2>4. Moves(w) /\ th'[w] = r
    <3> HIDE DEF r
    <3> QED
      BY <1>0, <2>1, <2>2, OnSet
  <2> HIDE DEF r
  <2>u. /\ At(w, "park")
        /\ UNCHANGED <<timerVars, work, keepVars, recent, now>>
    BY <1>0, <1>p, <1>2 DEF Park
  <2>b. r.pc \in {"run", "top"} /\ (~th[w].more => r.pc = "top")
    BY <2>3
  <2>m. /\ \A f \in Sleepers \ {e} : task'[f] = task[f]
        /\ task'[e] = "ready"
    BY <1>0, <1>p, <1>2, <2>n, <2>u DEF TypeOK
  <2>o. \A u \in Workers \ {w} : (Owning(th[u]) => th[u].entry # e) /\ e \notin th[u].gathered
    BY <1>0, <1>p, <1>2, <2>n, <2>u DEF LifeInv, OwnerInv, GatherInv, Owning
  <2>g. \A f \in th[w].gathered : f # e /\ f \in Sleepers /\ task[f] = "gathered"
    BY <1>0, <1>p, <1>2, <2>n, <2>u DEF LifeInv, GatherInv, TypeOK, Local
  <2>5. TypeOK'
    BY <1>0, <1>p, <1>2, <2>n, <2>u, <2>4 DEF TypeOK, Moves
  <2>6. CallsInOrder'
    BY <1>0, <1>p, <1>2, <2>n, <2>u, <2>3, <2>4, <2>b DEF CallsInOrder, CallOk, FirePcs, Moves
  <2>7. LifeInv'
    <3>1. ~Owning(th'[w]) /\ th'[w].pc \notin {"add", "expireMirror"}
      BY <2>4, <2>b DEF Owning, AddPcs
    <3>2. \A f \in th'[w].gathered :
             task'[f] = "gathered" /\ \A u \in Workers \ {w} : f \notin th[u].gathered
      BY <1>0, <2>3, <2>4, <2>m, <2>g DEF LifeInv, GatherInv
    <3>3. /\ UNCHANGED <<heap, fired>>
          /\ \A f \in Sleepers : task'[f] # task[f] => f = e /\ task'[f] # "awake"
      BY <2>u, <2>m
    <3> QED
      BY <1>0, <2>4, <2>5, <2>o, <3>1, <3>2, <3>3, LifeMoves
  <2>8. MirrorInv'
    BY <1>0, <1>p, <1>2, <2>n, <2>u, <2>3, <2>4, MirrorFrame
  <2>9. RoleInv'
    BY <1>0, <1>p, <1>2, <2>n, <2>u, <2>3, <2>4, RoleFrame, <2>b DEF KeeperPcs
  <2>10. KeepInv'
    BY <1>0, <1>p, <1>2, <2>n, <2>u, <2>3, <2>4, KeepFrame, <2>b DEF AddPcs
  <2>11. IdleInv'
    BY <1>0, <1>p, <1>2, <2>n, <2>u, <2>3, <2>4, IdleFrame, <2>b
    DEF TypeOK, IdleInv, IdlePc, KeeperPcs, FirePcs
  <2>12. CalmInv'
    <3>1. CASE th[w].more
      BY <1>0, <1>p, <1>2, <2>n, <2>u, <2>4, <2>b, <3>1, DutyFrame
      DEF OnDuty, WillSee, KeeperPcs, FirePcs
    <3>2. CASE ~th[w].more
      BY <1>0, <1>p, <1>2, <2>n, <2>u, <2>4, <2>b, <3>2, DutyDone DEF OnDuty, CalmInv
    <3> QED
      BY <3>1, <3>2
  <2> QED
    BY <2>5, <2>6, <2>7, <2>8, <2>9, <2>10, <2>11, <2>12 DEF TimerInv
<1>3. ASSUME task' = [task EXCEPT ![e] = "parked"], th' = switched,
             UNCHANGED <<notified, idleVars>>
      PROVE  TimerInv'
  <2> DEFINE r == [th[w] EXCEPT !.entry = None, !.more = FALSE,
                                !.pc = IF th[w].more THEN "run" ELSE "top"]
  <2>a. /\ th[w] \in Local /\ "run" \in Pc /\ "top" \in Pc
    BY <1>0, <1>p, <1>3 DEF TypeOK, Pc
  <2>1. r \in Local
    BY <2>a DEF Local
  <2>2. th' = [th EXCEPT ![w] = r]
    BY <1>0, <1>p, <1>3 DEF Park, GoTo, Call, Return
  <2>3. /\ r.pc = (IF th[w].more THEN "run" ELSE "top") /\ r.ret = th[w].ret
        /\ r.entry = None /\ r.more = FALSE /\ r.gathered = th[w].gathered
        /\ r.target = th[w].target /\ r.todo = th[w].todo /\ r.wakeAt = th[w].wakeAt
    BY <2>a DEF Local
  <2>4. Moves(w) /\ th'[w] = r
    <3> HIDE DEF r
    <3> QED
      BY <1>0, <2>1, <2>2, OnSet
  <2> HIDE DEF r
  <2>u. /\ At(w, "park")
        /\ UNCHANGED <<timerVars, work, keepVars, recent, now>>
    BY <1>0, <1>p, <1>3 DEF Park
  <2>b. r.pc \in {"run", "top"} /\ (~th[w].more => r.pc = "top")
    BY <2>3
  <2>m. /\ \A f \in Sleepers \ {e} : task'[f] = task[f]
        /\ task'[e] = "parked"
    BY <1>0, <1>p, <1>3, <2>u DEF TypeOK
  <2>o. \A u \in Workers \ {w} : (Owning(th[u]) => th[u].entry # e) /\ e \notin th[u].gathered
    BY <1>0, <1>p, <1>3, <2>u DEF LifeInv, OwnerInv, GatherInv, Owning
  <2>g. \A f \in th[w].gathered : f # e /\ f \in Sleepers /\ task[f] = "gathered"
    BY <1>0, <1>p, <1>3, <2>u DEF LifeInv, GatherInv, TypeOK, Local
  <2>5. TypeOK'
    BY <1>0, <1>p, <1>3, <2>u, <2>4 DEF TypeOK, Moves
  <2>6. CallsInOrder'
    BY <1>0, <1>p, <1>3, <2>u, <2>3, <2>4, <2>b DEF CallsInOrder, CallOk, FirePcs, Moves
  <2>7. LifeInv'
    <3>1. ~Owning(th'[w]) /\ th'[w].pc \notin {"add", "expireMirror"}
      BY <2>4, <2>b DEF Owning, AddPcs
    <3>2. \A f \in th'[w].gathered :
             task'[f] = "gathered" /\ \A u \in Workers \ {w} : f \notin th[u].gathered
      BY <1>0, <2>3, <2>4, <2>m, <2>g DEF LifeInv, GatherInv
    <3> QED
      BY <1>0, <1>p, <1>3, <2>u, <2>4, <2>5, <2>m, <2>o, <3>1, <3>2, LifeMoves
  <2>8. MirrorInv'
    BY <1>0, <1>p, <1>3, <2>u, <2>3, <2>4, MirrorFrame
  <2>9. RoleInv'
    BY <1>0, <1>p, <1>3, <2>u, <2>3, <2>4, RoleFrame, <2>b DEF KeeperPcs
  <2>10. KeepInv'
    BY <1>0, <1>p, <1>3, <2>u, <2>3, <2>4, KeepFrame, <2>b DEF AddPcs
  <2>11. IdleInv'
    BY <1>0, <1>p, <1>3, <2>u, <2>3, <2>4, IdleFrame, <2>b
    DEF TypeOK, IdleInv, IdlePc, KeeperPcs, FirePcs
  <2>12. CalmInv'
    <3>1. CASE th[w].more
      BY <1>0, <1>p, <1>3, <2>u, <2>4, <2>b, <3>1, DutyFrame
      DEF OnDuty, WillSee, KeeperPcs, FirePcs
    <3>2. CASE ~th[w].more
      BY <1>0, <1>p, <1>3, <2>u, <2>4, <2>b, <3>2, DutyDone DEF OnDuty, CalmInv
    <3> QED
      BY <3>1, <3>2
  <2> QED
    BY <2>5, <2>6, <2>7, <2>8, <2>9, <2>10, <2>11, <2>12 DEF TimerInv
<1> QED
  BY <1>1, <1>2, <1>3, <1>p DEF Park

-----------------------------------------------------------------------------
(* The dispatcher.                                                         *)

\* A task ends or parks.
LEMMA RunEndsKeeps ==
    ASSUME TimerInv, NEW w \in Workers, RunEnds(w)
    PROVE  TimerInv'
<1>0. /\ TypeOK /\ CallsInOrder /\ LifeInv /\ MirrorInv /\ RoleInv /\ KeepInv
      /\ IdleInv /\ CalmInv /\ CallOk(th[w])
  BY DEF TimerInv, CallsInOrder
<1> DEFINE r == [th[w] EXCEPT !.more = FALSE, !.pc = IF th[w].more THEN "run" ELSE "top"]
<1>a. /\ th[w] \in Local /\ "run" \in Pc /\ "top" \in Pc
  BY <1>0 DEF TypeOK, Pc
<1>1. r \in Local
  BY <1>a DEF Local
<1>2. th' = [th EXCEPT ![w] = r]
  BY <1>0 DEF RunEnds, GoTo, Call, Return
<1>3. /\ r.pc = (IF th[w].more THEN "run" ELSE "top") /\ r.ret = th[w].ret
      /\ r.entry = th[w].entry /\ r.more = FALSE /\ r.gathered = th[w].gathered
      /\ r.target = th[w].target /\ r.todo = th[w].todo /\ r.wakeAt = th[w].wakeAt
  BY <1>a DEF Local
<1>4. Moves(w) /\ th'[w] = r
  <2> HIDE DEF r
  <2> QED
    BY <1>0, <1>1, <1>2, OnSet
<1> HIDE DEF r
<1>u. /\ At(w, "run")
      /\ UNCHANGED <<timerVars, taskVars, keepVars, idleVars, recent, now>>
  BY <1>0 DEF RunEnds
<1>b. r.pc \in {"run", "top"}
  BY <1>3
<1>5. TypeOK'
  BY <1>0, <1>u, <1>4 DEF TypeOK, Moves
<1>6. CallsInOrder'
  BY <1>0, <1>u, <1>3, <1>4, <1>b DEF CallsInOrder, CallOk, FirePcs, Moves
<1>7. LifeInv'
  BY <1>0, <1>u, <1>3, <1>4, LifeFrame, <1>b DEF Owning, AddPcs
<1>8. MirrorInv'
  BY <1>0, <1>u, <1>3, <1>4, MirrorFrame
<1>9. RoleInv'
  BY <1>0, <1>u, <1>3, <1>4, RoleFrame, <1>b DEF KeeperPcs
<1>10. KeepInv'
  BY <1>0, <1>u, <1>3, <1>4, KeepFrame, <1>b DEF AddPcs
<1>11. IdleInv'
  BY <1>0, <1>u, <1>3, <1>4, IdleFrame, <1>b
  DEF TypeOK, IdleInv, IdlePc, KeeperPcs, FirePcs
<1>12. CalmInv'
  <2>1. CASE r.pc = "run"
    BY <1>0, <1>u, <1>4, <2>1, DutyFrame DEF OnDuty, WillSee, KeeperPcs, FirePcs
  <2>2. CASE r.pc = "top"
    BY <1>0, <1>u, <1>4, <2>2, DutyDone DEF OnDuty, CalmInv
  <2> QED
    BY <1>b, <2>1, <2>2
<1> QED
  BY <1>5, <1>6, <1>7, <1>8, <1>9, <1>10, <1>11, <1>12 DEF TimerInv

\* ensureTimekeeper().
LEMMA EnsureKeeps ==
    ASSUME TimerInv, NEW w \in Workers, Ensure(w)
    PROVE  TimerInv'
<1>0. /\ TypeOK /\ CallsInOrder /\ LifeInv /\ MirrorInv /\ RoleInv /\ KeepInv
      /\ IdleInv /\ CalmInv /\ CallOk(th[w])
  BY DEF TimerInv, CallsInOrder
<1>1. ASSUME keeper # None \/ idle = {} \/ mask = {} \/ recent, UNCHANGED <<idleVars, recent>>
      PROVE  TimerInv'
  <2> DEFINE r == [th[w] EXCEPT !.pc = th[w].ret, !.ret = "top"]
  <2>a. /\ th[w] \in Local /\ "top" \in Pc
    BY <1>0, <1>1 DEF TypeOK, Pc
  <2>1. r \in Local
    BY <2>a DEF Local
  <2>2. th' = [th EXCEPT ![w] = r]
    BY <1>0, <1>1 DEF Ensure, GoTo, Call, Return
  <2>3. /\ r.pc = th[w].ret /\ r.ret = "top" /\ r.entry = th[w].entry
        /\ r.more = th[w].more /\ r.gathered = th[w].gathered
        /\ r.target = th[w].target /\ r.todo = th[w].todo /\ r.wakeAt = th[w].wakeAt
    BY <2>a DEF Local
  <2>4. Moves(w) /\ th'[w] = r
    <3> HIDE DEF r
    <3> QED
      BY <1>0, <2>1, <2>2, OnSet
  <2> HIDE DEF r
  <2>u. /\ At(w, "ensure")
        /\ UNCHANGED <<timerVars, taskVars, keepVars, now>>
    BY <1>0, <1>1 DEF Ensure
  <2>b. r.pc \in {"run", "check"}
    BY <1>0, <1>1, <2>u, <2>3 DEF CallOk
  <2>d. /\ w \notin idle /\ \A v \in Workers : v # w => th'[v] = th[v]
        /\ \A v \in Workers : AsleepForGood(v) => v \in idle
    BY <1>0, <1>1, <2>u, <2>4
    DEF IdleInv, IdlePc, KeeperPcs, FirePcs, AsleepForGood, Moves
  <2>5. TypeOK'
    BY <1>0, <1>1, <2>u, <2>4 DEF TypeOK, Moves
  <2>6. CallsInOrder'
    BY <1>0, <1>1, <2>u, <2>3, <2>4, <2>b DEF CallsInOrder, CallOk, FirePcs, Moves
  <2>7. LifeInv'
    BY <1>0, <1>1, <2>u, <2>3, <2>4, LifeFrame, <2>b DEF Owning, AddPcs, CallOk
  <2>8. MirrorInv'
    BY <1>0, <1>1, <2>u, <2>3, <2>4, MirrorFrame
  <2>9. RoleInv'
    BY <1>0, <1>1, <2>u, <2>3, <2>4, RoleFrame, <2>b DEF KeeperPcs
  <2>10. KeepInv'
    BY <1>0, <1>1, <2>u, <2>3, <2>4, KeepFrame, <2>b DEF AddPcs
  <2>11. IdleInv'
    BY <1>0, <1>1, <2>u, <2>3, <2>4, IdleFrame, <2>b, <2>d
    DEF TypeOK, IdleInv, IdlePc, KeeperPcs, FirePcs
  <2>12. CalmInv'
    <3> SUFFICES ASSUME Plain, keeper' = None, NEW z \in Workers, AsleepForGood(z)',
                        NEW v \in Workers, NEW e \in heap'[v]
                 PROVE  FALSE
      BY <1>0, <1>1, <2>u DEF CalmInv, DutyInv, Plain
    <3>1. AsleepForGood(z)
      BY <1>0, <1>1, <2>u, <2>4, <2>b, <2>d DEF AsleepForGood
    <3>2. z \in idle /\ keeper = None /\ ~recent
      BY <1>0, <1>1, <2>u, <2>d, <3>1 DEF CalmInv
    <3>3. v \in mask
      BY <1>0, <1>1, <2>u DEF MirrorInv
    <3> QED
      BY <1>0, <1>1, <2>u, <3>2, <3>3
  <2> QED
    BY <2>5, <2>6, <2>7, <2>8, <2>9, <2>10, <2>11, <2>12 DEF TimerInv
<1>2. ASSUME recent' = RampUpDelay, idle # {}, NotifyIdleWorker(idle)
      PROVE  TimerInv'
  <2>n. /\ idle' \subseteq idle /\ token' \in [Workers -> BOOLEAN]
        /\ \A v \in Workers : token[v] => token'[v]
        /\ \A v \in idle : v \in idle' \/ token'[v]
        /\ (\E v \in Workers : At(v, "take")) \/ \E v \in idle : token'[v]
    BY <1>0, <1>2, OnNotify
  <2> DEFINE r == [th[w] EXCEPT !.pc = th[w].ret, !.ret = "top"]
  <2>a. /\ th[w] \in Local /\ "top" \in Pc
    BY <1>0, <1>2, <2>n DEF TypeOK, Pc
  <2>1. r \in Local
    BY <2>a DEF Local
  <2>2. th' = [th EXCEPT ![w] = r]
    BY <1>0, <1>2, <2>n DEF Ensure, GoTo, Call, Return
  <2>3. /\ r.pc = th[w].ret /\ r.ret = "top" /\ r.entry = th[w].entry
        /\ r.more = th[w].more /\ r.gathered = th[w].gathered
        /\ r.target = th[w].target /\ r.todo = th[w].todo /\ r.wakeAt = th[w].wakeAt
    BY <2>a DEF Local
  <2>4. Moves(w) /\ th'[w] = r
    <3> HIDE DEF r
    <3> QED
      BY <1>0, <2>1, <2>2, OnSet
  <2> HIDE DEF r
  <2>u. /\ At(w, "ensure")
        /\ UNCHANGED <<timerVars, taskVars, keepVars, now>>
    BY <1>0, <1>2, <2>n DEF Ensure
  <2>b. r.pc \in {"run", "check"}
    BY <1>0, <1>2, <2>n, <2>u, <2>3 DEF CallOk
  <2>d. /\ w \notin idle /\ \A v \in Workers : v # w => th'[v] = th[v]
        /\ \A v \in Workers : AsleepForGood(v) => v \in idle
    BY <1>0, <1>2, <2>n, <2>u, <2>4
    DEF IdleInv, IdlePc, KeeperPcs, FirePcs, AsleepForGood, Moves
  <2>5. TypeOK'
    BY <1>0, <1>2, <2>n, <2>u, <2>4, SwitchesAreBoolean DEF TypeOK, Moves
  <2>6. CallsInOrder'
    BY <1>0, <1>2, <2>n, <2>u, <2>3, <2>4, <2>b DEF CallsInOrder, CallOk, FirePcs, Moves
  <2>7. LifeInv'
    BY <1>0, <1>2, <2>n, <2>u, <2>3, <2>4, LifeFrame, <2>b DEF Owning, AddPcs, CallOk
  <2>8. MirrorInv'
    BY <1>0, <1>2, <2>n, <2>u, <2>3, <2>4, MirrorFrame
  <2>9. RoleInv'
    BY <1>0, <1>2, <2>n, <2>u, <2>3, <2>4, RoleFrame, <2>b DEF KeeperPcs
  <2>10. KeepInv'
    BY <1>0, <1>2, <2>n, <2>u, <2>3, <2>4, KeepFrame, <2>b DEF AddPcs
  <2>11. IdleInv'
    BY <1>0, <1>2, <2>n, <2>u, <2>3, <2>4, IdleFrame, <2>b, <2>d
    DEF TypeOK, IdleInv, IdlePc, KeeperPcs, FirePcs
  <2>12. CalmInv'
    <3>0. Plain => ~recent'
      BY <1>0, <1>2, <2>n, <2>u DEF Plain
    <3>1. ASSUME NEW v \in Workers, At(v, "take") PROVE CalmInv'
      <4>1. OnDuty(v)'
        BY <1>0, <1>2, <2>n, <2>u, <2>d, <3>1 DEF OnDuty
      <4> QED
        BY <1>0, <1>2, <2>n, <2>u, <3>0, <4>1, DutyElsewhere
    <3>2. ASSUME NEW v \in idle, token'[v] PROVE CalmInv'
      <4>1. v \in Workers /\ v # w /\ IdlePc(th[v])
        BY <1>0, <1>2, <2>n, <2>u, <2>d, <3>2 DEF IdleInv, TypeOK
      <4>2. OnDuty(v)'
        BY <2>d, <3>2, <4>1 DEF OnDuty, IdlePc, KeeperPcs, FirePcs
      <4> QED
        BY <1>0, <1>2, <2>n, <2>u, <3>0, <4>1, <4>2, DutyElsewhere
    <3> QED
      BY <1>0, <1>2, <2>n, <2>u, <3>1, <3>2
  <2> QED
    BY <2>5, <2>6, <2>7, <2>8, <2>9, <2>10, <2>11, <2>12 DEF TimerInv
<1> QED
  BY <1>1, <1>2 DEF Ensure

\* The sleepers that maintain() woke are queued.
LEMMA PlaceKeeps ==
    ASSUME TimerInv, NEW w \in Workers, Place(w)
    PROVE  TimerInv'
<1>0. /\ TypeOK /\ CallsInOrder /\ LifeInv /\ MirrorInv /\ RoleInv /\ KeepInv
      /\ IdleInv /\ CalmInv /\ CallOk(th[w])
  BY DEF TimerInv, CallsInOrder
<1>n. /\ idle' \subseteq idle /\ token' \in [Workers -> BOOLEAN]
      /\ \A v \in Workers : token[v] => token'[v]
      /\ \A v \in idle : v \in idle' \/ token'[v]
  <2>1. CASE NotifyIdleWorker(idle)
    BY <1>0, <2>1, OnNotify
  <2>2. CASE UNCHANGED idleVars
    BY <1>0, <2>2 DEF TypeOK
  <2> QED
    BY <2>1, <2>2 DEF Place
<1>p. PICK woken \in SUBSET Sleepers : woken = th[w].gathered
  BY <1>0 DEF TypeOK, Local
<1> DEFINE r == [th[w] EXCEPT !.pc = "take", !.gathered = {}]
<1>a. /\ th[w] \in Local /\ "take" \in Pc
  BY <1>0, <1>n, <1>p DEF TypeOK, Pc
<1>1. r \in Local
  BY <1>a DEF Local
<1>2. th' = [th EXCEPT ![w] = r]
  BY <1>0, <1>n, <1>p DEF Place, GoTo, Call, Return
<1>3. /\ r.pc = "take" /\ r.ret = th[w].ret /\ r.entry = th[w].entry
      /\ r.more = th[w].more /\ r.gathered = {} /\ r.target = th[w].target
      /\ r.todo = th[w].todo /\ r.wakeAt = th[w].wakeAt
  BY <1>a DEF Local
<1>4. Moves(w) /\ th'[w] = r
  <2> HIDE DEF r
  <2> QED
    BY <1>0, <1>1, <1>2, OnSet
<1> HIDE DEF r
<1>u. /\ At(w, "place")
      /\ task' = [e \in Sleepers |-> IF e \in woken THEN "ready" ELSE task[e]]
      /\ UNCHANGED <<timerVars, notified, work, keepVars, recent, now>>
  BY <1>0, <1>n, <1>p DEF Place
<1>m. \A f \in Sleepers : task'[f] # task[f] =>
         f \in th[w].gathered /\ task'[f] = "ready" /\ task[f] = "gathered"
  BY <1>0, <1>n, <1>p, <1>u DEF LifeInv, GatherInv
<1>o. \A f \in th[w].gathered : \A u \in Workers \ {w} :
         (Owning(th[u]) => th[u].entry # f) /\ f \notin th[u].gathered
  BY <1>0, <1>n, <1>p, <1>u DEF LifeInv, OwnerInv, GatherInv
<1>5. TypeOK'
  BY <1>0, <1>n, <1>p, <1>u, <1>4 DEF TypeOK, Moves
<1>6. CallsInOrder'
  BY <1>0, <1>n, <1>p, <1>u, <1>3, <1>4 DEF CallsInOrder, CallOk, FirePcs, Moves
<1>7. LifeInv'
  <2>1. ~Owning(th'[w]) /\ th'[w].gathered = {} /\ th'[w].pc \notin {"add", "expireMirror"}
    BY <1>3, <1>4 DEF Owning, AddPcs
  <2>2. UNCHANGED <<heap, fired>>
    BY <1>0, <1>n, <1>p, <1>u
  <2> QED
    BY <1>0, <1>4, <1>5, <1>m, <1>o, <2>1, <2>2, LifeMoves
<1>8. MirrorInv'
  BY <1>0, <1>n, <1>p, <1>u, <1>3, <1>4, MirrorFrame
<1>9. RoleInv'
  BY <1>0, <1>n, <1>p, <1>u, <1>3, <1>4, RoleFrame DEF KeeperPcs
<1>10. KeepInv'
  BY <1>0, <1>n, <1>p, <1>u, <1>3, <1>4, KeepFrame DEF AddPcs
<1>11. IdleInv'
  BY <1>0, <1>n, <1>p, <1>u, <1>3, <1>4, IdleFrame
  DEF TypeOK, IdleInv, IdlePc, KeeperPcs, FirePcs
<1>12. CalmInv'
  BY <1>0, <1>n, <1>p, <1>u, <1>3, <1>4, DutyDone
  DEF OnDuty, CalmInv, KeeperPcs, FirePcs
<1> QED
  BY <1>5, <1>6, <1>7, <1>8, <1>9, <1>10, <1>11, <1>12 DEF TimerInv

\* A worker with a task to run, off the idle mask.
LEMMA FoundKeeps ==
    ASSUME TimerInv, NEW w \in Workers, th[w].pc \in {"take", "recheck"}, Found(w),
           UNCHANGED <<timerVars, notified, keepVars, recent, now>>,
           idle' = idle \ {w}, token' \in [Workers -> BOOLEAN],
           \A v \in Workers \ {w} : token'[v] = token[v]
    PROVE  TimerInv'
<1>0. /\ TypeOK /\ CallsInOrder /\ LifeInv /\ MirrorInv /\ RoleInv /\ KeepInv
      /\ IdleInv /\ CalmInv /\ CallOk(th[w])
  BY DEF TimerInv, CallsInOrder
<1>f. /\ th[w].pc \in {"take", "recheck"}
      /\ UNCHANGED <<timerVars, notified, keepVars, recent, now>>
      /\ idle' = idle \ {w} /\ token' \in [Workers -> BOOLEAN]
      /\ \A v \in Workers \ {w} : token'[v] = token[v]
  OBVIOUS
<1>1. ASSUME th' = [th EXCEPT ![w].pc = "dispatch", ![w].ret = "run", ![w].more = FALSE],
             UNCHANGED <<task, work>>
      PROVE  TimerInv'
  <2> DEFINE r == [th[w] EXCEPT !.pc = "dispatch", !.ret = "run", !.more = FALSE]
  <2>a. /\ th[w] \in Local /\ "dispatch" \in Pc /\ "run" \in Pc
    BY <1>0, <1>f, <1>1 DEF TypeOK, Pc
  <2>1. r \in Local
    BY <2>a DEF Local
  <2>2. th' = [th EXCEPT ![w] = r]
    BY <1>0, <1>f, <1>1 DEF GoTo, Call, Return
  <2>3. /\ r.pc = "dispatch" /\ r.ret = "run" /\ r.entry = th[w].entry
        /\ r.more = FALSE /\ r.gathered = th[w].gathered /\ r.target = th[w].target
        /\ r.todo = th[w].todo /\ r.wakeAt = th[w].wakeAt
    BY <2>a DEF Local
  <2>4. Moves(w) /\ th'[w] = r
    <3> HIDE DEF r
    <3> QED
      BY <1>0, <2>1, <2>2, OnSet
  <2> HIDE DEF r
  <2>5. TypeOK'
    BY <1>0, <1>f, <1>1, <2>4 DEF TypeOK, Moves
  <2>6. CallsInOrder'
    BY <1>0, <1>f, <1>1, <2>3, <2>4 DEF CallsInOrder, CallOk, FirePcs, Moves
  <2>7. LifeInv'
    BY <1>0, <1>f, <1>1, <2>3, <2>4, LifeFrame DEF Owning, AddPcs
  <2>8. MirrorInv'
    BY <1>0, <1>f, <1>1, <2>3, <2>4, MirrorFrame DEF Max
  <2>9. RoleInv'
    BY <1>0, <1>f, <1>1, <2>3, <2>4, RoleFrame DEF KeeperPcs
  <2>10. KeepInv'
    BY <1>0, <1>f, <1>1, <2>3, <2>4, KeepFrame DEF AddPcs
  <2>11. IdleInv'
    BY <1>0, <1>f, <1>1, <2>3, <2>4, IdleFrame
    DEF TypeOK, IdleInv, IdlePc, KeeperPcs, FirePcs
  <2>12. CalmInv'
    <3>1. OnDuty(w)'
      BY <2>3, <2>4 DEF OnDuty
    <3>2. Plain => ~recent'
      BY <1>0, <1>f, <1>1 DEF CalmInv
    <3> QED
      BY <1>0, <3>1, <3>2, DutyDone
  <2> QED
    BY <2>5, <2>6, <2>7, <2>8, <2>9, <2>10, <2>11, <2>12 DEF TimerInv
<1>2. ASSUME work > 0, work' = work - 1, Call(w, "dispatch", "run"), UNCHANGED task
      PROVE  TimerInv'
  <2> DEFINE r == [th[w] EXCEPT !.pc = "dispatch", !.ret = "run"]
  <2>a. /\ th[w] \in Local /\ "dispatch" \in Pc /\ "run" \in Pc
    BY <1>0, <1>f, <1>2 DEF TypeOK, Pc
  <2>1. r \in Local
    BY <2>a DEF Local
  <2>2. th' = [th EXCEPT ![w] = r]
    BY <1>0, <1>f, <1>2 DEF GoTo, Call, Return
  <2>3. /\ r.pc = "dispatch" /\ r.ret = "run" /\ r.entry = th[w].entry
        /\ r.more = th[w].more /\ r.gathered = th[w].gathered
        /\ r.target = th[w].target /\ r.todo = th[w].todo /\ r.wakeAt = th[w].wakeAt
    BY <2>a DEF Local
  <2>4. Moves(w) /\ th'[w] = r
    <3> HIDE DEF r
    <3> QED
      BY <1>0, <2>1, <2>2, OnSet
  <2> HIDE DEF r
  <2>5. TypeOK'
    BY <1>0, <1>f, <1>2, <2>4, TimeIsNatural DEF TypeOK, Moves
  <2>6. CallsInOrder'
    BY <1>0, <1>f, <1>2, <2>3, <2>4 DEF CallsInOrder, CallOk, FirePcs, Moves
  <2>7. LifeInv'
    BY <1>0, <1>f, <1>2, <2>3, <2>4, LifeFrame DEF Owning, AddPcs
  <2>8. MirrorInv'
    BY <1>0, <1>f, <1>2, <2>3, <2>4, MirrorFrame DEF Max
  <2>9. RoleInv'
    BY <1>0, <1>f, <1>2, <2>3, <2>4, RoleFrame DEF KeeperPcs
  <2>10. KeepInv'
    BY <1>0, <1>f, <1>2, <2>3, <2>4, KeepFrame DEF AddPcs
  <2>11. IdleInv'
    BY <1>0, <1>f, <1>2, <2>3, <2>4, IdleFrame
    DEF TypeOK, IdleInv, IdlePc, KeeperPcs, FirePcs
  <2>12. CalmInv'
    <3>1. OnDuty(w)'
      BY <2>3, <2>4 DEF OnDuty
    <3>2. Plain => ~recent'
      BY <1>0, <1>f, <1>2 DEF CalmInv
    <3> QED
      BY <1>0, <3>1, <3>2, DutyDone
  <2> QED
    BY <2>5, <2>6, <2>7, <2>8, <2>9, <2>10, <2>11, <2>12 DEF TimerInv
<1>3. ASSUME NEW e \in Sleepers, task[e] = "ready", task' = [task EXCEPT ![e] = "onWorker"],
             th' = [th EXCEPT ![w].pc = "dispatch", ![w].ret = "check", ![w].entry = e],
             UNCHANGED work
      PROVE  TimerInv'
  <2> DEFINE r == [th[w] EXCEPT !.pc = "dispatch", !.ret = "check", !.entry = e]
  <2>a. /\ th[w] \in Local /\ "dispatch" \in Pc /\ "check" \in Pc
        /\ e \in Sleepers \cup {None}
    BY <1>0, <1>f, <1>3 DEF TypeOK, Pc
  <2>1. r \in Local
    BY <2>a DEF Local
  <2>2. th' = [th EXCEPT ![w] = r]
    BY <1>0, <1>f, <1>3 DEF GoTo, Call, Return
  <2>3. /\ r.pc = "dispatch" /\ r.ret = "check" /\ r.entry = e
        /\ r.more = th[w].more /\ r.gathered = th[w].gathered
        /\ r.target = th[w].target /\ r.todo = th[w].todo /\ r.wakeAt = th[w].wakeAt
    BY <2>a DEF Local
  <2>4. Moves(w) /\ th'[w] = r
    <3> HIDE DEF r
    <3> QED
      BY <1>0, <2>1, <2>2, OnSet
  <2> HIDE DEF r
  <2>m. task'[e] = "onWorker" /\ \A f \in Sleepers \ {e} : task'[f] = task[f]
    BY <1>0, <1>f, <1>3 DEF TypeOK
  <2>o. \A u \in Workers :
           (Owning(th[u]) => th[u].entry # e) /\ e \notin th[u].gathered
    BY <1>0, <1>f, <1>3 DEF LifeInv, OwnerInv, GatherInv
  <2>g. \A f \in th[w].gathered : f # e /\ f \in Sleepers /\ task[f] = "gathered"
    BY <1>0, <1>f, <1>3, <2>o DEF LifeInv, GatherInv, TypeOK, Local
  <2>5. TypeOK'
    BY <1>0, <1>f, <1>3, <2>4 DEF TypeOK, Moves
  <2>6. CallsInOrder'
    BY <1>0, <1>f, <1>3, <2>3, <2>4 DEF CallsInOrder, CallOk, FirePcs, Moves
  <2>7. LifeInv'
    <3>1. \A f \in th'[w].gathered :
             task'[f] = "gathered" /\ \A u \in Workers \ {w} : f \notin th[u].gathered
      BY <1>0, <2>3, <2>4, <2>m, <2>g DEF LifeInv, GatherInv
    <3>2. th'[w].pc \notin {"add", "expireMirror"} /\ th'[w].entry = e /\ UNCHANGED <<heap, fired>>
      BY <1>0, <1>f, <1>3, <2>3, <2>4
    <3> QED
      BY <1>0, <2>4, <2>5, <2>m, <2>o, <3>1, <3>2, LifeMoves
  <2>8. MirrorInv'
    BY <1>0, <1>f, <1>3, <2>3, <2>4, MirrorFrame DEF Max
  <2>9. RoleInv'
    BY <1>0, <1>f, <1>3, <2>3, <2>4, RoleFrame DEF KeeperPcs
  <2>10. KeepInv'
    BY <1>0, <1>f, <1>3, <2>3, <2>4, KeepFrame DEF AddPcs
  <2>11. IdleInv'
    BY <1>0, <1>f, <1>3, <2>3, <2>4, IdleFrame
    DEF TypeOK, IdleInv, IdlePc, KeeperPcs, FirePcs
  <2>12. CalmInv'
    <3>1. OnDuty(w)'
      BY <2>3, <2>4 DEF OnDuty
    <3>2. Plain => ~recent'
      BY <1>0, <1>f, <1>3 DEF CalmInv
    <3> QED
      BY <1>0, <3>1, <3>2, DutyDone
  <2> QED
    BY <2>5, <2>6, <2>7, <2>8, <2>9, <2>10, <2>11, <2>12 DEF TimerInv
<1> QED
  BY <1>1, <1>2, <1>3 DEF Found

\* The queues.
LEMMA TakeKeeps ==
    ASSUME TimerInv, NEW w \in Workers, Take(w)
    PROVE  TimerInv'
<1>0. /\ TypeOK /\ CallsInOrder /\ LifeInv /\ MirrorInv /\ RoleInv /\ KeepInv
      /\ IdleInv /\ CalmInv /\ CallOk(th[w])
  BY DEF TimerInv, CallsInOrder
<1>1. CASE Found(w)
  <2>1. w \notin idle
    BY <1>0 DEF Take, IdleInv, IdlePc, KeeperPcs, FirePcs
  <2> QED
    BY <1>0, <1>1, <2>1, FoundKeeps DEF Take, TypeOK
<1>2. CASE GoTo(w, "mark") /\ UNCHANGED <<task, work>>
  <2> DEFINE r == [th[w] EXCEPT !.pc = "mark"]
  <2>a. /\ th[w] \in Local /\ "mark" \in Pc
    BY <1>0, <1>2 DEF TypeOK, Pc
  <2>1. r \in Local
    BY <2>a DEF Local
  <2>2. th' = [th EXCEPT ![w] = r]
    BY <1>0, <1>2 DEF Take, GoTo, Call, Return
  <2>3. /\ r.pc = "mark" /\ r.ret = th[w].ret /\ r.entry = th[w].entry
        /\ r.gathered = th[w].gathered /\ r.more = th[w].more
    BY <2>a DEF Local
  <2>4. Moves(w) /\ th'[w] = r
    <3> HIDE DEF r
    <3> QED
      BY <1>0, <2>1, <2>2, OnSet
  <2> HIDE DEF r
  <2>5. TypeOK'
    BY <1>0, <1>2, <2>4 DEF Take, TypeOK, Moves
  <2>6. IdleInv'
    BY <1>0, <1>2, <2>3, <2>4, IdleFrame
    DEF Take, TypeOK, IdleInv, IdlePc, KeeperPcs, FirePcs
  <2>7. CalmInv'
    BY <1>0, <1>2, <2>3, <2>4, DutyDone DEF Take, OnDuty, CalmInv, KeeperPcs, FirePcs
  <2>8. CallOk(r) /\ (Owning(r) => Owning(th[w]) /\ r.entry = th[w].entry)
    BY <1>0, <1>2, <2>3 DEF Take, CallOk, Owning, AddPcs, FirePcs
  <2> QED
    BY <1>2, <2>3, <2>4, <2>5, <2>6, <2>7, <2>8, QuietStep DEF Take, KeeperPcs, AddPcs
<1> QED
  BY <1>1, <1>2 DEF Take

-----------------------------------------------------------------------------
(* parkIdle() and sleepIdle().                                             *)

\* The queues once more, after the idle mask.
LEMMA RecheckKeeps ==
    ASSUME TimerInv, NEW w \in Workers, Recheck(w)
    PROVE  TimerInv'
<1>0. /\ TypeOK /\ CallsInOrder /\ LifeInv /\ MirrorInv /\ RoleInv /\ KeepInv
      /\ IdleInv /\ CalmInv /\ CallOk(th[w])
  BY DEF TimerInv, CallsInOrder
<1>1. CASE Found(w) /\ idle' = idle \ {w}
  <2>1. token' \in [Workers -> BOOLEAN] /\ \A v \in Workers \ {w} : token'[v] = token[v]
    BY <1>0, <1>1 DEF Recheck, TypeOK
  <2> QED
    BY <1>1, <2>1, FoundKeeps DEF Recheck
<1>2. CASE GoTo(w, "claim") /\ UNCHANGED <<task, work, idleVars>>
  <2> DEFINE r == [th[w] EXCEPT !.pc = "claim"]
  <2>a. /\ th[w] \in Local /\ "claim" \in Pc
    BY <1>0, <1>2 DEF TypeOK, Pc
  <2>1. r \in Local
    BY <2>a DEF Local
  <2>2. th' = [th EXCEPT ![w] = r]
    BY <1>0, <1>2 DEF Recheck, GoTo, Call, Return
  <2>3. /\ r.pc = "claim" /\ r.ret = th[w].ret /\ r.entry = th[w].entry
        /\ r.gathered = th[w].gathered /\ r.more = th[w].more
    BY <2>a DEF Local
  <2>4. Moves(w) /\ th'[w] = r
    <3> HIDE DEF r
    <3> QED
      BY <1>0, <2>1, <2>2, OnSet
  <2> HIDE DEF r
  <2>5. TypeOK'
    BY <1>0, <1>2, <2>4 DEF Recheck, TypeOK, Moves
  <2>6. IdleInv'
    BY <1>0, <1>2, <2>3, <2>4, IdleFrame
    DEF Recheck, TypeOK, IdleInv, IdlePc, KeeperPcs, FirePcs
  <2>7. CalmInv'
    BY <1>0, <1>2, <2>3, <2>4, DutyDone DEF Recheck, OnDuty, CalmInv, KeeperPcs, FirePcs
  <2>8. CallOk(r) /\ (Owning(r) => Owning(th[w]) /\ r.entry = th[w].entry)
    BY <1>0, <1>2, <2>3 DEF Recheck, CallOk, Owning, AddPcs, FirePcs
  <2> QED
    BY <1>2, <2>3, <2>4, <2>5, <2>6, <2>7, <2>8, QuietStep
    DEF Recheck, KeeperPcs, AddPcs
<1> QED
  BY <1>1, <1>2 DEF Recheck

\* The timekeeper role is free, or taken.
LEMMA ClaimKeeps ==
    ASSUME TimerInv, NEW w \in Workers, Claim(w)
    PROVE  TimerInv'
<1>0. /\ TypeOK /\ CallsInOrder /\ LifeInv /\ MirrorInv /\ RoleInv /\ KeepInv
      /\ IdleInv /\ CalmInv /\ CallOk(th[w])
  BY DEF TimerInv, CallsInOrder
<1>1. ASSUME keeper = None, keeper' = w, GoTo(w, "scanMark")
      PROVE  TimerInv'
  <2> DEFINE r == [th[w] EXCEPT !.pc = "scanMark"]
  <2>a. /\ th[w] \in Local /\ "scanMark" \in Pc
    BY <1>0, <1>1 DEF TypeOK, Pc
  <2>1. r \in Local
    BY <2>a DEF Local
  <2>2. th' = [th EXCEPT ![w] = r]
    BY <1>0, <1>1 DEF Claim, GoTo, Call, Return
  <2>3. /\ r.pc = "scanMark" /\ r.ret = th[w].ret /\ r.entry = th[w].entry
        /\ r.more = th[w].more /\ r.gathered = th[w].gathered
        /\ r.target = th[w].target /\ r.todo = th[w].todo /\ r.wakeAt = th[w].wakeAt
    BY <2>a DEF Local
  <2>4. Moves(w) /\ th'[w] = r
    <3> HIDE DEF r
    <3> QED
      BY <1>0, <2>1, <2>2, OnSet
  <2> HIDE DEF r
  <2>u. /\ At(w, "claim")
        /\ UNCHANGED <<timerVars, taskVars, keeperDeadline, idleVars, recent, now>>
    BY <1>0, <1>1 DEF Claim
  <2>5. TypeOK'
    BY <1>0, <1>1, <2>u, <2>4 DEF TypeOK, Moves
  <2>6. CallsInOrder'
    BY <1>0, <1>1, <2>u, <2>3, <2>4 DEF CallsInOrder, CallOk, FirePcs, Moves
  <2>7. LifeInv'
    BY <1>0, <1>1, <2>u, <2>3, <2>4, LifeFrame DEF Owning, AddPcs
  <2>8. MirrorInv'
    BY <1>0, <1>1, <2>u, <2>3, <2>4, MirrorFrame
  <2>9. RoleInv'
    BY <1>0, <1>1, <2>u, <2>3, <2>4, NoneIsNobody DEF RoleInv, KeeperPcs, Moves
  <2>10. KeepInv'
    BY <1>0, <1>1, <2>u, <2>3, <2>4, KeepFrame DEF AddPcs
  <2>11. IdleInv'
    BY <1>0, <1>1, <2>u, <2>3, <2>4, IdleFrame
    DEF TypeOK, IdleInv, IdlePc, KeeperPcs, FirePcs
  <2>12. CalmInv'
    BY <1>0, <1>1, <2>u, <2>3, <2>4, DutyDone DEF OnDuty, CalmInv, KeeperPcs, FirePcs
  <2> QED
    BY <2>5, <2>6, <2>7, <2>8, <2>9, <2>10, <2>11, <2>12 DEF TimerInv
<1>2. ASSUME keeper # None, GoTo(w, "parked"), UNCHANGED keeper
      PROVE  TimerInv'
  <2> DEFINE r == [th[w] EXCEPT !.pc = "parked"]
  <2>a. /\ th[w] \in Local /\ "parked" \in Pc
    BY <1>0, <1>2 DEF TypeOK, Pc
  <2>1. r \in Local
    BY <2>a DEF Local
  <2>2. th' = [th EXCEPT ![w] = r]
    BY <1>0, <1>2 DEF Claim, GoTo, Call, Return
  <2>3. /\ r.pc = "parked" /\ r.ret = th[w].ret /\ r.entry = th[w].entry
        /\ r.gathered = th[w].gathered /\ r.more = th[w].more
    BY <2>a DEF Local
  <2>4. Moves(w) /\ th'[w] = r
    <3> HIDE DEF r
    <3> QED
      BY <1>0, <2>1, <2>2, OnSet
  <2> HIDE DEF r
  <2>5. TypeOK'
    BY <1>0, <1>2, <2>4 DEF Claim, TypeOK, Moves
  <2>6. IdleInv'
    BY <1>0, <1>2, <2>3, <2>4, IdleFrame
    DEF Claim, TypeOK, IdleInv, IdlePc, KeeperPcs, FirePcs
  <2>7. CalmInv'
    BY <1>0, <1>2, <2>3, <2>4, DutyDone DEF Claim, OnDuty, CalmInv, KeeperPcs, FirePcs
  <2>8. CallOk(r) /\ (Owning(r) => Owning(th[w]) /\ r.entry = th[w].entry)
    BY <1>0, <1>2, <2>3 DEF Claim, CallOk, Owning, AddPcs, FirePcs
  <2> QED
    BY <1>2, <2>3, <2>4, <2>5, <2>6, <2>7, <2>8, QuietStep DEF Claim, KeeperPcs, AddPcs
<1> QED
  BY <1>1, <1>2 DEF Claim

\* "About to look" is published.
LEMMA ScanMarkKeeps ==
    ASSUME TimerInv, NEW w \in Workers, ScanMark(w)
    PROVE  TimerInv'
<1>0. /\ TypeOK /\ CallsInOrder /\ LifeInv /\ MirrorInv /\ RoleInv /\ KeepInv
      /\ IdleInv /\ CalmInv /\ CallOk(th[w])
  BY DEF TimerInv, CallsInOrder
<1> DEFINE r == [th[w] EXCEPT !.pc = "scanMask"]
<1>a. /\ th[w] \in Local /\ "scanMask" \in Pc
  BY <1>0 DEF TypeOK, Pc
<1>1. r \in Local
  BY <1>a DEF Local
<1>2. th' = [th EXCEPT ![w] = r]
  BY <1>0 DEF ScanMark, GoTo, Call, Return
<1>3. /\ r.pc = "scanMask" /\ r.ret = th[w].ret /\ r.entry = th[w].entry
      /\ r.more = th[w].more /\ r.gathered = th[w].gathered
      /\ r.target = th[w].target /\ r.todo = th[w].todo /\ r.wakeAt = th[w].wakeAt
  BY <1>a DEF Local
<1>4. Moves(w) /\ th'[w] = r
  <2> HIDE DEF r
  <2> QED
    BY <1>0, <1>1, <1>2, OnSet
<1> HIDE DEF r
<1>u. /\ At(w, "scanMark")
      /\ keeperDeadline' = Never
      /\ UNCHANGED <<timerVars, taskVars, keeper, idleVars, recent, now>>
  BY <1>0 DEF ScanMark
<1>5. TypeOK'
  BY <1>0, <1>u, <1>4, TimeIsNatural DEF TypeOK, Moves
<1>6. CallsInOrder'
  BY <1>0, <1>u, <1>3, <1>4 DEF CallsInOrder, CallOk, FirePcs, Moves
<1>7. LifeInv'
  BY <1>0, <1>u, <1>3, <1>4, LifeFrame DEF Owning, AddPcs
<1>8. MirrorInv'
  BY <1>0, <1>u, <1>3, <1>4, MirrorFrame
<1>9. RoleInv'
  BY <1>0, <1>u, <1>3, <1>4 DEF RoleInv, KeeperPcs, Moves
<1>10. KeepInv'
  BY <1>0, <1>u, <1>3, <1>4, KeepFrame DEF AddPcs
<1>11. IdleInv'
  BY <1>0, <1>u, <1>3, <1>4, IdleFrame DEF TypeOK, IdleInv, IdlePc, KeeperPcs, FirePcs
<1>12. CalmInv'
  BY <1>0, <1>u, <1>3, <1>4, DutyDone DEF OnDuty, CalmInv, KeeperPcs, FirePcs
<1> QED
  BY <1>5, <1>6, <1>7, <1>8, <1>9, <1>10, <1>11, <1>12 DEF TimerInv

\* nextDeadline() begins with timerMask.
LEMMA ScanMaskKeeps ==
    ASSUME TimerInv, NEW w \in Workers, ScanMask(w)
    PROVE  TimerInv'
<1>0. /\ TypeOK /\ CallsInOrder /\ LifeInv /\ MirrorInv /\ RoleInv /\ KeepInv
      /\ IdleInv /\ CalmInv /\ CallOk(th[w])
  BY DEF TimerInv, CallsInOrder
<1> DEFINE r == [th[w] EXCEPT !.pc = "scan", !.todo = mask, !.wakeAt = Never]
<1>a. /\ th[w] \in Local /\ "scan" \in Pc /\ mask \in SUBSET Workers
      /\ Never \in 0 .. Never
  BY <1>0, TimeIsNatural DEF TypeOK, Pc
<1>1. r \in Local
  BY <1>a DEF Local
<1>2. th' = [th EXCEPT ![w] = r]
  BY <1>0 DEF ScanMask, GoTo, Call, Return
<1>3. /\ r.pc = "scan" /\ r.ret = th[w].ret /\ r.entry = th[w].entry
      /\ r.more = th[w].more /\ r.gathered = th[w].gathered
      /\ r.target = th[w].target /\ r.todo = mask /\ r.wakeAt = Never
  BY <1>a DEF Local
<1>4. Moves(w) /\ th'[w] = r
  <2> HIDE DEF r
  <2> QED
    BY <1>0, <1>1, <1>2, OnSet
<1> HIDE DEF r
<1>u. /\ At(w, "scanMask")
      /\ UNCHANGED <<timerVars, taskVars, keepVars, idleVars, recent, now>>
  BY <1>0 DEF ScanMask
<1>k. keeper = w /\ \A k \in Workers \ {w} : th'[k] = th[k] /\ th'[k].pc \notin {"scan", "keep"}
  BY <1>0, <1>u, <1>4 DEF RoleInv, KeeperPcs, Moves
<1>5. TypeOK'
  BY <1>0, <1>u, <1>4 DEF TypeOK, Moves
<1>6. CallsInOrder'
  BY <1>0, <1>u, <1>3, <1>4 DEF CallsInOrder, CallOk, FirePcs, Moves
<1>7. LifeInv'
  BY <1>0, <1>u, <1>3, <1>4, LifeFrame DEF Owning, AddPcs
<1>8. MirrorInv'
  BY <1>0, <1>u, <1>3, <1>4, MirrorFrame
<1>9. RoleInv'
  BY <1>0, <1>u, <1>3, <1>4 DEF RoleInv, KeeperPcs, Moves
<1>10. KeepInv'
  <2> SUFFICES ASSUME NEW k \in Workers, NEW v \in Workers, NEW e \in heap[v]
               PROVE  /\ At(k, "scan")' => v \in th'[k].todo \/ Covered(k, e)'
                      /\ At(k, "keep")' => Covered(k, e)'
    BY <1>0, <1>u DEF KeepInv
  <2>1. CASE k # w
    BY <1>k, <2>1
  <2>2. CASE k = w
    BY <1>0, <1>u, <1>3, <1>4, <2>2 DEF MirrorInv
  <2> QED
    BY <2>1, <2>2
<1>11. IdleInv'
  BY <1>0, <1>u, <1>3, <1>4, IdleFrame DEF TypeOK, IdleInv, IdlePc, KeeperPcs, FirePcs
<1>12. CalmInv'
  BY <1>0, <1>u, <1>3, <1>4, DutyDone DEF OnDuty, CalmInv, KeeperPcs, FirePcs
<1> QED
  BY <1>5, <1>6, <1>7, <1>8, <1>9, <1>10, <1>11, <1>12 DEF TimerInv

\* One queue after the other; then the deadline is published.
LEMMA ScanKeeps ==
    ASSUME TimerInv, NEW w \in Workers, Scan(w)
    PROVE  TimerInv'
<1>0. /\ TypeOK /\ CallsInOrder /\ LifeInv /\ MirrorInv /\ RoleInv /\ KeepInv
      /\ IdleInv /\ CalmInv /\ CallOk(th[w])
  BY DEF TimerInv, CallsInOrder
<1>1. ASSUME NEW q \in th[w].todo, UNCHANGED keeperDeadline,
             th' = [th EXCEPT ![w].todo = @ \ {q}, ![w].wakeAt = Min({@, earliest[q]})]
      PROVE  TimerInv'
  <2>w. q \in Workers /\ th[w].wakeAt \in 0 .. Never /\ earliest[q] \in 0 .. Never
    BY <1>0 DEF TypeOK, Local
  <2>p. PICK at \in 0 .. Never : /\ at = Min({th[w].wakeAt, earliest[q]})
                               /\ at <= th[w].wakeAt /\ at <= earliest[q]
    BY <2>w, MinOfTwo
  <2> DEFINE r == [th[w] EXCEPT !.todo = @ \ {q}, !.wakeAt = at]
  <2>a. /\ th[w] \in Local
    BY <1>0, <1>1, <2>p DEF TypeOK, Pc
  <2>1. r \in Local
    BY <2>a DEF Local
  <2>2. th' = [th EXCEPT ![w] = r]
    BY <1>0, <1>1, <2>p DEF Scan, GoTo, Call, Return
  <2>3. /\ r.pc = th[w].pc /\ r.ret = th[w].ret /\ r.entry = th[w].entry
        /\ r.more = th[w].more /\ r.gathered = th[w].gathered
        /\ r.target = th[w].target /\ r.todo = th[w].todo \ {q} /\ r.wakeAt = at
    BY <2>a DEF Local
  <2>4. Moves(w) /\ th'[w] = r
    <3> HIDE DEF r
    <3> QED
      BY <1>0, <2>1, <2>2, OnSet
  <2> HIDE DEF r
  <2>u. /\ At(w, "scan")
        /\ UNCHANGED <<timerVars, taskVars, keeper, keeperDeadline, idleVars, recent, now>>
    BY <1>0, <1>1, <2>p DEF Scan
  <2>k. keeper = w /\ \A k \in Workers \ {w} : th'[k] = th[k] /\ th'[k].pc \notin {"scan", "keep"}
    BY <1>0, <1>1, <2>p, <2>u, <2>4 DEF RoleInv, KeeperPcs, Moves
  <2>5. TypeOK'
    BY <1>0, <1>1, <2>p, <2>u, <2>4 DEF TypeOK, Moves
  <2>6. CallsInOrder'
    BY <1>0, <1>1, <2>p, <2>u, <2>3, <2>4 DEF CallsInOrder, CallOk, FirePcs, Moves
  <2>7. LifeInv'
    BY <1>0, <1>1, <2>p, <2>u, <2>3, <2>4, LifeFrame DEF Owning, AddPcs
  <2>8. MirrorInv'
    BY <1>0, <1>1, <2>p, <2>u, <2>3, <2>4, MirrorFrame
  <2>9. RoleInv'
    BY <1>0, <1>1, <2>p, <2>u, <2>3, <2>4 DEF RoleInv, KeeperPcs, Moves
  <2>10. KeepInv'
    <3> SUFFICES ASSUME NEW k \in Workers, NEW v \in Workers, NEW e \in heap[v]
                 PROVE  /\ At(k, "scan")' => v \in th'[k].todo \/ Covered(k, e)'
                        /\ At(k, "keep")' => Covered(k, e)'
      BY <1>0, <1>1, <2>p, <2>u DEF KeepInv
    <3>1. CASE k # w
      BY <2>k, <3>1
    <3>2. CASE k = w
      <4>1. \A u \in Workers : Coming(k, u, e) => Coming(k, u, e)'
        BY <1>0, <1>1, <2>p, <2>u, <2>4, <3>2 DEF Coming, Moves
      <4>2. deadline[e] \in 0 .. MaxTime
        BY <1>0 DEF TypeOK
      <4>3. CASE v = q
        <5>1. earliest[q] <= deadline[e] \/ Coming(k, v, e)
          BY <1>0, <1>1, <2>p, <2>u, <4>3 DEF MirrorInv, Coming
        <5>2. at <= deadline[e] \/ Coming(k, v, e)'
          BY <1>0, <1>1, <2>p, <2>u, <2>w, <4>1, <4>2, <5>1, TimeIsNatural
        <5> QED
          BY <1>0, <1>1, <2>p, <2>u, <2>3, <2>4, <3>2, <5>2 DEF Covered
      <4>4. CASE v # q
        <5>1. v \in th[w].todo \/ Covered(k, e)
          BY <1>0, <1>1, <2>p, <2>u, <3>2 DEF KeepInv
        <5>2. th[w].wakeAt <= deadline[e] => at <= deadline[e]
          BY <1>0, <1>1, <2>p, <2>u, <2>w, <4>2, TimeIsNatural
        <5> QED
          BY <1>0, <1>1, <2>p, <2>u, <2>3, <2>4, <3>2, <4>1, <4>4, <5>1, <5>2 DEF Covered
      <4> QED
        BY <4>3, <4>4
    <3> QED
      BY <3>1, <3>2
  <2>11. IdleInv'
    BY <1>0, <1>1, <2>p, <2>u, <2>3, <2>4, IdleFrame
    DEF TypeOK, IdleInv, IdlePc, KeeperPcs, FirePcs
  <2>12. CalmInv'
    BY <1>0, <1>1, <2>p, <2>u, <2>3, <2>4, DutyDone
    DEF OnDuty, CalmInv, KeeperPcs, FirePcs
  <2> QED
    BY <2>5, <2>6, <2>7, <2>8, <2>9, <2>10, <2>11, <2>12 DEF TimerInv
<1>2. ASSUME th[w].todo = {}, keeperDeadline' = th[w].wakeAt, GoTo(w, "keep")
      PROVE  TimerInv'
  <2> DEFINE r == [th[w] EXCEPT !.pc = "keep"]
  <2>a. /\ th[w] \in Local /\ "keep" \in Pc
    BY <1>0, <1>2 DEF TypeOK, Pc
  <2>1. r \in Local
    BY <2>a DEF Local
  <2>2. th' = [th EXCEPT ![w] = r]
    BY <1>0, <1>2 DEF Scan, GoTo, Call, Return
  <2>3. /\ r.pc = "keep" /\ r.ret = th[w].ret /\ r.entry = th[w].entry
        /\ r.more = th[w].more /\ r.gathered = th[w].gathered
        /\ r.target = th[w].target /\ r.todo = th[w].todo /\ r.wakeAt = th[w].wakeAt
    BY <2>a DEF Local
  <2>4. Moves(w) /\ th'[w] = r
    <3> HIDE DEF r
    <3> QED
      BY <1>0, <2>1, <2>2, OnSet
  <2> HIDE DEF r
  <2>u. /\ At(w, "scan")
        /\ UNCHANGED <<timerVars, taskVars, keeper, idleVars, recent, now>>
    BY <1>0, <1>2 DEF Scan
  <2>k. keeper = w /\ \A k \in Workers \ {w} : th'[k] = th[k] /\ th'[k].pc \notin {"scan", "keep"}
    BY <1>0, <1>2, <2>u, <2>4 DEF RoleInv, KeeperPcs, Moves
  <2>5. TypeOK'
    BY <1>0, <1>2, <2>u, <2>4 DEF TypeOK, Moves, Local
  <2>6. CallsInOrder'
    BY <1>0, <1>2, <2>u, <2>3, <2>4 DEF CallsInOrder, CallOk, FirePcs, Moves
  <2>7. LifeInv'
    BY <1>0, <1>2, <2>u, <2>3, <2>4, LifeFrame DEF Owning, AddPcs
  <2>8. MirrorInv'
    BY <1>0, <1>2, <2>u, <2>3, <2>4, MirrorFrame
  <2>9. RoleInv'
    BY <1>0, <1>2, <2>u, <2>3, <2>4 DEF RoleInv, KeeperPcs, Moves
  <2>10. KeepInv'
    <3> SUFFICES ASSUME NEW k \in Workers, NEW v \in Workers, NEW e \in heap[v]
                 PROVE  /\ At(k, "scan")' => v \in th'[k].todo \/ Covered(k, e)'
                        /\ At(k, "keep")' => Covered(k, e)'
      BY <1>0, <1>2, <2>u DEF KeepInv
    <3>1. CASE k # w
      BY <2>k, <3>1
    <3>2. CASE k = w
      <4>1. \A u \in Workers : Coming(k, u, e) => Coming(k, u, e)'
        BY <1>0, <1>2, <2>u, <2>4, <3>2 DEF Coming, Moves
      <4>2. Covered(k, e)
        BY <1>0, <1>2, <2>u, <3>2 DEF KeepInv
      <4> QED
        BY <1>0, <1>2, <2>u, <2>3, <2>4, <3>2, <4>1, <4>2 DEF Covered
    <3> QED
      BY <3>1, <3>2
  <2>11. IdleInv'
    BY <1>0, <1>2, <2>u, <2>3, <2>4, IdleFrame
    DEF TypeOK, IdleInv, IdlePc, KeeperPcs, FirePcs
  <2>12. CalmInv'
    BY <1>0, <1>2, <2>u, <2>3, <2>4, DutyDone DEF OnDuty, CalmInv, KeeperPcs, FirePcs
  <2> QED
    BY <2>5, <2>6, <2>7, <2>8, <2>9, <2>10, <2>11, <2>12 DEF TimerInv
<1> QED
  BY <1>1, <1>2 DEF Scan

\* The timekeeper wakes up.
LEMMA KeepKeeps ==
    ASSUME TimerInv, NEW w \in Workers, Keep(w)
    PROVE  TimerInv'
<1>0. /\ TypeOK /\ CallsInOrder /\ LifeInv /\ MirrorInv /\ RoleInv /\ KeepInv
      /\ IdleInv /\ CalmInv /\ CallOk(th[w])
  BY DEF TimerInv, CallsInOrder
<1> DEFINE r == [th[w] EXCEPT !.pc = "release", !.wakeAt = Never]
<1>a. /\ th[w] \in Local /\ "release" \in Pc /\ Never \in 0 .. Never
  BY <1>0, TimeIsNatural DEF TypeOK, Pc
<1>1. r \in Local
  BY <1>a DEF Local
<1>2. th' = [th EXCEPT ![w] = r]
  BY <1>0 DEF Keep, GoTo, Call, Return
<1>3. /\ r.pc = "release" /\ r.ret = th[w].ret /\ r.entry = th[w].entry
      /\ r.more = th[w].more /\ r.gathered = th[w].gathered
      /\ r.target = th[w].target /\ r.todo = th[w].todo /\ r.wakeAt = Never
  BY <1>a DEF Local
<1>4. Moves(w) /\ th'[w] = r
  <2> HIDE DEF r
  <2> QED
    BY <1>0, <1>1, <1>2, OnSet
<1> HIDE DEF r
<1>u. /\ At(w, "keep")
      /\ token' = [token EXCEPT ![w] = FALSE]
      /\ UNCHANGED <<timerVars, taskVars, keepVars, idle, recent, now>>
  BY <1>0 DEF Keep
<1>m. \A v \in Workers \ {w} : token'[v] = token[v]
  BY <1>0, <1>u DEF TypeOK
<1>5. TypeOK'
  BY <1>0, <1>u, <1>4 DEF TypeOK, Moves
<1>6. CallsInOrder'
  BY <1>0, <1>u, <1>3, <1>4 DEF CallsInOrder, CallOk, FirePcs, Moves
<1>7. LifeInv'
  BY <1>0, <1>u, <1>3, <1>4, LifeFrame DEF Owning, AddPcs
<1>8. MirrorInv'
  BY <1>0, <1>u, <1>3, <1>4, MirrorFrame
<1>9. RoleInv'
  BY <1>0, <1>u, <1>3, <1>4 DEF RoleInv, KeeperPcs, Moves
<1>10. KeepInv'
  BY <1>0, <1>u, <1>3, <1>4, KeepFrame, <1>m DEF AddPcs
<1>11. IdleInv'
  BY <1>0, <1>u, <1>3, <1>4, IdleFrame, <1>m
  DEF TypeOK, IdleInv, IdlePc, KeeperPcs, FirePcs
<1>12. CalmInv'
  BY <1>0, <1>u, <1>3, <1>4, DutyDone DEF OnDuty, CalmInv, KeeperPcs, FirePcs
<1> QED
  BY <1>5, <1>6, <1>7, <1>8, <1>9, <1>10, <1>11, <1>12 DEF TimerInv

\* It gives the role up before it fires what is due.
LEMMA ReleaseKeeps ==
    ASSUME TimerInv, NEW w \in Workers, Release(w)
    PROVE  TimerInv'
<1>0. /\ TypeOK /\ CallsInOrder /\ LifeInv /\ MirrorInv /\ RoleInv /\ KeepInv
      /\ IdleInv /\ CalmInv /\ CallOk(th[w])
  BY DEF TimerInv, CallsInOrder
<1> DEFINE r == [th[w] EXCEPT !.pc = "fire", !.ret = "awake"]
<1>a. /\ th[w] \in Local /\ "fire" \in Pc /\ "awake" \in Pc
  BY <1>0 DEF TypeOK, Pc
<1>1. r \in Local
  BY <1>a DEF Local
<1>2. th' = [th EXCEPT ![w] = r]
  BY <1>0 DEF Release, GoTo, Call, Return
<1>3. /\ r.pc = "fire" /\ r.ret = "awake" /\ r.entry = th[w].entry
      /\ r.more = th[w].more /\ r.gathered = th[w].gathered
      /\ r.target = th[w].target /\ r.todo = th[w].todo /\ r.wakeAt = th[w].wakeAt
  BY <1>a DEF Local
<1>4. Moves(w) /\ th'[w] = r
  <2> HIDE DEF r
  <2> QED
    BY <1>0, <1>1, <1>2, OnSet
<1> HIDE DEF r
<1>u. /\ At(w, "release")
      /\ keeper' = None
      /\ UNCHANGED <<timerVars, taskVars, keeperDeadline, idleVars, recent, now>>
  BY <1>0 DEF Release
<1>5. TypeOK'
  BY <1>0, <1>u, <1>4 DEF TypeOK, Moves
<1>6. CallsInOrder'
  BY <1>0, <1>u, <1>3, <1>4 DEF CallsInOrder, CallOk, FirePcs, Moves
<1>7. LifeInv'
  BY <1>0, <1>u, <1>3, <1>4, LifeFrame DEF Owning, AddPcs
<1>8. MirrorInv'
  BY <1>0, <1>u, <1>3, <1>4, MirrorFrame
<1>9. RoleInv'
  BY <1>0, <1>u, <1>3, <1>4, NoneIsNobody DEF RoleInv, KeeperPcs, Moves
<1>10. KeepInv'
  BY <1>0, <1>u, <1>3, <1>4, KeepFrame DEF AddPcs
<1>11. IdleInv'
  BY <1>0, <1>u, <1>3, <1>4, IdleFrame DEF TypeOK, IdleInv, IdlePc, KeeperPcs, FirePcs
<1>12. CalmInv'
  BY <1>0, <1>u, <1>3, <1>4, DutyDone DEF OnDuty, CalmInv, KeeperPcs, FirePcs
<1> QED
  BY <1>5, <1>6, <1>7, <1>8, <1>9, <1>10, <1>11, <1>12 DEF TimerInv

\* Off the idle mask, with the sleepers it woke.
LEMMA AwakeKeeps ==
    ASSUME TimerInv, NEW w \in Workers, Awake(w)
    PROVE  TimerInv'
<1>0. /\ TypeOK /\ CallsInOrder /\ LifeInv /\ MirrorInv /\ RoleInv /\ KeepInv
      /\ IdleInv /\ CalmInv /\ CallOk(th[w])
  BY DEF TimerInv, CallsInOrder
<1>1. ASSUME th[w].gathered = {}, idle' = idle \ {w}, GoTo(w, "again"), UNCHANGED <<task, token>>
      PROVE  TimerInv'
  <2> DEFINE r == [th[w] EXCEPT !.pc = "again"]
  <2>a. /\ th[w] \in Local /\ "again" \in Pc
    BY <1>0, <1>1 DEF TypeOK, Pc
  <2>1. r \in Local
    BY <2>a DEF Local
  <2>2. th' = [th EXCEPT ![w] = r]
    BY <1>0, <1>1 DEF Awake, GoTo, Call, Return
  <2>3. /\ r.pc = "again" /\ r.ret = th[w].ret /\ r.entry = th[w].entry
        /\ r.gathered = th[w].gathered /\ r.more = th[w].more
    BY <2>a DEF Local
  <2>4. Moves(w) /\ th'[w] = r
    <3> HIDE DEF r
    <3> QED
      BY <1>0, <2>1, <2>2, OnSet
  <2> HIDE DEF r
  <2>5. TypeOK'
    BY <1>0, <1>1, <2>4 DEF Awake, TypeOK, Moves
  <2>6. IdleInv'
    BY <1>0, <1>1, <2>3, <2>4, IdleFrame
    DEF Awake, TypeOK, IdleInv, IdlePc, KeeperPcs, FirePcs
  <2>7. CalmInv'
    BY <1>0, <1>1, <2>3, <2>4, DutyDone DEF Awake, OnDuty, CalmInv, KeeperPcs, FirePcs
  <2>8. CallOk(r) /\ (Owning(r) => Owning(th[w]) /\ r.entry = th[w].entry)
    BY <1>0, <1>1, <2>3 DEF Awake, CallOk, Owning, AddPcs, FirePcs
  <2> QED
    BY <1>1, <2>3, <2>4, <2>5, <2>6, <2>7, <2>8, QuietStep DEF Awake, KeeperPcs, AddPcs
<1>2. ASSUME NEW e \in th[w].gathered, NEW others \in SUBSET Sleepers,
             others = th[w].gathered \ {e},
             IF others = {} THEN idle' = idle \ {w} /\ UNCHANGED token
                            ELSE NotifyIdleWorker(idle \ {w}),
             task' = [f \in Sleepers |-> CASE f = e -> "onWorker"
                                           [] f \in others -> "ready"
                                           [] OTHER -> task[f]],
             th' = [th EXCEPT ![w].pc = "dispatch", ![w].ret = "check",
                              ![w].entry = e, ![w].gathered = {}]
      PROVE  TimerInv'
  <2>n. /\ idle' \subseteq idle \ {w} /\ token' \in [Workers -> BOOLEAN]
        /\ \A v \in Workers : token[v] => token'[v]
        /\ \A v \in idle \ {w} : v \in idle' \/ token'[v]
    <3>1. CASE NotifyIdleWorker(idle \ {w})
      BY <1>0, <3>1, OnNotify
    <3>2. CASE idle' = idle \ {w} /\ UNCHANGED token
      BY <1>0, <3>2 DEF TypeOK
    <3> QED
      BY <1>2, <3>1, <3>2
  <2>e. e \in Sleepers
    BY <1>0 DEF TypeOK, Local
  <2> DEFINE r == [th[w] EXCEPT !.pc = "dispatch", !.ret = "check",
                                !.entry = e, !.gathered = {}]
  <2>a. /\ th[w] \in Local /\ "dispatch" \in Pc /\ "check" \in Pc
        /\ e \in Sleepers \cup {None}
    BY <1>0, <1>2, <2>n, <2>e DEF TypeOK, Pc
  <2>1. r \in Local
    BY <2>a DEF Local
  <2>2. th' = [th EXCEPT ![w] = r]
    BY <1>2
  <2>3. /\ r.pc = "dispatch" /\ r.ret = "check" /\ r.entry = e
        /\ r.more = th[w].more /\ r.gathered = {} /\ r.target = th[w].target
        /\ r.todo = th[w].todo /\ r.wakeAt = th[w].wakeAt
    BY <2>a DEF Local
  <2>4. Moves(w) /\ th'[w] = r
    <3> HIDE DEF r
    <3> QED
      BY <1>0, <2>1, <2>2, OnSet
  <2> HIDE DEF r
  <2>u. /\ At(w, "awake")
        /\ UNCHANGED <<timerVars, notified, work, keepVars, recent, now>>
    BY <1>0, <1>2, <2>n, <2>e DEF Awake
  <2>m. /\ task'[e] = "onWorker"
        /\ \A f \in Sleepers : task'[f] # task[f] =>
              f \in th[w].gathered /\ task'[f] \in {"onWorker", "ready"}
    BY <1>0, <1>2, <2>n, <2>e, <2>u
  <2>o. \A f \in th[w].gathered : \A u \in Workers \ {w} :
           (Owning(th[u]) => th[u].entry # f) /\ f \notin th[u].gathered
    BY <1>0, <1>2, <2>n, <2>e, <2>u DEF LifeInv, OwnerInv, GatherInv
  <2>5. TypeOK'
    <3>1. task' \in [Sleepers -> {"awake", "onWorker", "parked", "gathered", "ready"}]
      BY <1>0, <1>2, <2>n, <2>e, <2>u DEF TypeOK
    <3>2. idle' \subseteq Workers
      BY <1>0, <1>2, <2>n, <2>e, <2>u DEF TypeOK
    <3> QED
      BY <1>0, <1>2, <2>n, <2>e, <2>u, <2>4, <3>1, <3>2 DEF TypeOK, Moves
  <2>6. CallsInOrder'
    BY <1>0, <1>2, <2>n, <2>e, <2>u, <2>3, <2>4 DEF CallsInOrder, CallOk, FirePcs, Moves
  <2>7. LifeInv'
    <3>1. /\ th'[w].entry = e /\ th'[w].gathered = {} /\ UNCHANGED <<heap, fired>>
          /\ th'[w].pc \notin {"add", "expireMirror"}
      BY <1>0, <1>2, <2>n, <2>e, <2>u, <2>3, <2>4
    <3> QED
      BY <1>0, <2>2, <2>4, <2>5, <2>e, <2>m, <2>o, <3>1, LifeMoves
  <2>8. MirrorInv'
    BY <1>0, <1>2, <2>n, <2>e, <2>u, <2>3, <2>4, MirrorFrame
  <2>9. RoleInv'
    BY <1>0, <1>2, <2>n, <2>e, <2>u, <2>3, <2>4, RoleFrame DEF KeeperPcs
  <2>10. KeepInv'
    BY <1>0, <1>2, <2>n, <2>e, <2>u, <2>3, <2>4, KeepFrame DEF AddPcs
  <2>11. IdleInv'
    <3>1. w \notin idle' /\ th'[w].pc \notin {"recheck", "claim", "parked"}
      BY <1>0, <1>2, <2>n, <2>e, <2>u, <2>3, <2>4
    <3> QED
      BY <1>0, <2>4, <2>n, <3>1, IdleFrame
  <2>12. CalmInv'
    <3>1. OnDuty(w)'
      BY <2>3, <2>4 DEF OnDuty
    <3>2. Plain => ~recent'
      BY <1>0, <1>2, <2>n, <2>e, <2>u DEF CalmInv
    <3> QED
      BY <1>0, <3>1, <3>2, DutyDone
  <2> QED
    BY <2>5, <2>6, <2>7, <2>8, <2>9, <2>10, <2>11, <2>12 DEF TimerInv
<1>3. ASSUME NEW e \in th[w].gathered PROVE th[w].gathered \ {e} \in SUBSET Sleepers
  BY <1>0 DEF TypeOK, Local
<1> QED
  BY <1>1, <1>2, <1>3 DEF Awake

-----------------------------------------------------------------------------
(* fireExpired().                                                          *)

\* The first entry of a queue, if it is due.
LEMMA ExpireKeeps ==
    ASSUME TimerInv, NEW w \in Workers, Expire(w)
    PROVE  TimerInv'
<1>0. /\ TypeOK /\ CallsInOrder /\ LifeInv /\ MirrorInv /\ RoleInv /\ KeepInv
      /\ IdleInv /\ CalmInv /\ CallOk(th[w])
  BY DEF TimerInv, CallsInOrder
<1>v. PICK v \in Workers : v = th[w].target
  BY <1>0 DEF Expire, CallOk
<1>1. ASSUME th' = [th EXCEPT ![w].pc = "fireNext", ![w].target = None],
             UNCHANGED <<heap, lock, mask>>
      PROVE  TimerInv'
  <2> DEFINE r == [th[w] EXCEPT !.pc = "fireNext", !.target = None]
  <2>a. /\ th[w] \in Local /\ "fireNext" \in Pc
    BY <1>0, <1>1 DEF TypeOK, Pc
  <2>1. r \in Local
    BY <2>a DEF Local
  <2>2. th' = [th EXCEPT ![w] = r]
    BY <1>0, <1>1 DEF Expire, GoTo, Call, Return
  <2>3. /\ r.pc = "fireNext" /\ r.ret = th[w].ret /\ r.entry = th[w].entry
        /\ r.gathered = th[w].gathered /\ r.more = th[w].more
    BY <2>a DEF Local
  <2>4. Moves(w) /\ th'[w] = r
    <3> HIDE DEF r
    <3> QED
      BY <1>0, <2>1, <2>2, OnSet
  <2> HIDE DEF r
  <2>5. TypeOK'
    BY <1>0, <1>1, <2>4 DEF Expire, TypeOK, Moves
  <2>6. IdleInv'
    BY <1>0, <1>1, <2>3, <2>4, IdleFires DEF Expire, FirePcs
  <2>7. CalmInv'
    BY <1>0, <1>1, <2>3, <2>4, DutyDone DEF Expire, OnDuty, CalmInv, KeeperPcs, FirePcs
  <2>8. CallOk(r) /\ (Owning(r) => Owning(th[w]) /\ r.entry = th[w].entry)
    BY <1>0, <1>1, <2>3 DEF Expire, CallOk, Owning, AddPcs, FirePcs
  <2> QED
    BY <1>1, <2>3, <2>4, <2>5, <2>6, <2>7, <2>8, QuietStep DEF Expire, KeeperPcs, AddPcs
<1>2. ASSUME NEW e \in heap[v], heap' = [heap EXCEPT ![v] = @ \ {e}],
             mask' = IF heap[v] = {e} THEN mask \ {v} ELSE mask,
             th' = [th EXCEPT ![w].pc = "expireMirror", ![w].entry = e],
             lock' = [lock EXCEPT ![v] = w]
      PROVE  TimerInv'
  <2>e. e \in Sleepers /\ mask' \subseteq Workers
    BY <1>0, <1>2 DEF TypeOK
  <2> DEFINE r == [th[w] EXCEPT !.pc = "expireMirror", !.entry = e]
  <2>a. /\ th[w] \in Local /\ "expireMirror" \in Pc /\ e \in Sleepers \cup {None}
    BY <1>0, <1>v, <1>2, <2>e DEF TypeOK, Pc
  <2>1. r \in Local
    BY <2>a DEF Local
  <2>2. th' = [th EXCEPT ![w] = r]
    BY <1>0, <1>v, <1>2, <2>e DEF Expire, GoTo, Call, Return
  <2>3. /\ r.pc = "expireMirror" /\ r.ret = th[w].ret /\ r.entry = e
        /\ r.more = th[w].more /\ r.gathered = th[w].gathered
        /\ r.target = th[w].target /\ r.todo = th[w].todo /\ r.wakeAt = th[w].wakeAt
    BY <2>a DEF Local
  <2>4. Moves(w) /\ th'[w] = r
    <3> HIDE DEF r
    <3> QED
      BY <1>0, <2>1, <2>2, OnSet
  <2> HIDE DEF r
  <2>u. /\ At(w, "expire")
        /\ UNCHANGED <<earliest, deadline, fired, taskVars, keepVars, idleVars, recent, now>>
    BY <1>0, <1>v, <1>2, <2>e DEF Expire
  <2>n. /\ heap'[v] = heap[v] \ {e} /\ \A q \in Workers \ {v} : heap'[q] = heap[q]
        /\ \A q \in Workers : e \notin heap'[q] /\ heap'[q] \subseteq heap[q]
    BY <1>0, <1>v, <1>2, <2>e, <2>u DEF TypeOK, LifeInv, HeapInv
  <2>5. TypeOK'
    BY <1>0, <1>v, <1>2, <2>e, <2>u, <2>4 DEF TypeOK, Moves
  <2>6. CallsInOrder'
    BY <1>0, <1>v, <1>2, <2>e, <2>u, <2>3, <2>4 DEF CallsInOrder, CallOk, FirePcs, Moves
  <2>7. LifeInv'
    <3>0. Pending(e) /\ \A u \in Workers : At(u, "expireMirror") => th[u].entry # e
      BY <1>0, <1>v, <1>2, <2>e, <2>u DEF LifeInv, HeapInv
    <3>1. OwnerInv'
      BY <1>0, <1>v, <1>2, <2>e, <2>u, <2>3, <2>4, OwnerFrame DEF LifeInv, Owning, AddPcs
    <3>2. GatherInv'
      BY <1>0, <1>v, <1>2, <2>e, <2>u, <2>3, <2>4, GatherFrame DEF LifeInv
    <3>3. ASSUME NEW f, Pending(f) PROVE Pending(f)'
      BY <1>0, <1>v, <1>2, <2>e, <2>u, <2>3, <2>4, <3>3 DEF Pending, Moves
    <3>4. HeapInv'
      BY <1>0, <1>v, <1>2, <2>e, <2>u, <2>3, <2>4, <2>n, <3>3 DEF LifeInv, HeapInv, Moves
    <3>5. ExpireInv'
      <4>1. ASSUME NEW u \in Workers, At(u, "expireMirror")'
            PROVE  \E f \in Sleepers : th'[u].entry = f /\ Pending(f)'
        <5>1. CASE u = w
          BY <1>0, <1>v, <1>2, <2>e, <2>u, <2>3, <2>4, <3>0, <3>3, <5>1
        <5>2. CASE u # w
          BY <1>0, <1>v, <1>2, <2>e, <2>u, <2>4, <3>3, <4>1, <5>2
          DEF LifeInv, ExpireInv, CallsInOrder, CallOk, Moves
        <5> QED
          BY <5>1, <5>2
      <4>2. \A u \in Workers : At(u, "expireMirror")' => Pending(th[u].entry)'
        BY <4>1
      <4>3. \A q \in Workers \ {w} :
               At(q, "expireMirror")' => At(q, "expireMirror") /\ th'[q] = th[q] /\ th[q].entry # e
        BY <2>4, <3>0 DEF Moves
      <4>4. ASSUME NEW u \in Workers, NEW q \in Workers, At(u, "expireMirror")',
                   At(q, "expireMirror")', th'[u].entry = th'[q].entry
            PROVE  u = q
        <5>1. th'[w].entry = e
          BY <2>3, <2>4
        <5>2. CASE u = w \/ q = w
          BY <4>3, <4>4, <5>1, <5>2
        <5>3. CASE u # w /\ q # w
          BY <1>0, <4>3, <4>4, <5>3 DEF LifeInv, ExpireInv
        <5> QED
          BY <5>2, <5>3
      <4> QED
        BY <4>2, <4>4 DEF ExpireInv
    <3> QED
      BY <3>1, <3>2, <3>4, <3>5 DEF LifeInv
  <2>8. MirrorInv'
    <3>1. \A q \in Workers : heap'[q] # {} => q \in mask'
      BY <1>0, <1>v, <1>2, <2>e, <2>u, <2>n DEF MirrorInv
    <3>2. \A q \in Workers : At(q, "mirror") => q # w /\ th'[q] = th[q]
      BY <1>0, <1>v, <1>2, <2>e, <2>u, <2>4 DEF Moves
    <3>3. UNCHANGED <<earliest, deadline>>
      BY <2>u
    <3>4. \A q \in Workers : \A f \in heap'[q] : f \in heap[q]
      BY <2>n
    <3>5. ASSUME NEW q \in Workers, NEW f \in heap'[q]
          PROVE  earliest'[q] <= deadline'[f] \/ (At(q, "mirror")' /\ th'[q].entry = f)
      BY <1>0, <3>2, <3>3, <3>4 DEF MirrorInv
    <3> QED
      BY <3>1, <3>5 DEF MirrorInv
  <2>9. RoleInv'
    BY <1>0, <1>v, <1>2, <2>e, <2>u, <2>3, <2>4, RoleFrame DEF KeeperPcs
  <2>10. KeepInv'
    BY <1>0, <1>v, <1>2, <2>e, <2>u, <2>3, <2>4, KeepFrame, <2>n DEF AddPcs
  <2>11. IdleInv'
    BY <1>0, <2>u, <2>3, <2>4, IdleFires DEF FirePcs
  <2>12. CalmInv'
    BY <1>0, <1>v, <1>2, <2>e, <2>u, <2>3, <2>4, DutyDone
    DEF OnDuty, CalmInv, KeeperPcs, FirePcs
  <2> QED
    BY <2>5, <2>6, <2>7, <2>8, <2>9, <2>10, <2>11, <2>12 DEF TimerInv
<1> QED
  BY <1>v, <1>1, <1>2 DEF Expire

\* What is left is visible, and the entry is marked as fired.
LEMMA ExpireMirrorKeeps ==
    ASSUME TimerInv, NEW w \in Workers, ExpireMirror(w)
    PROVE  TimerInv'
<1>0. /\ TypeOK /\ CallsInOrder /\ LifeInv /\ MirrorInv /\ RoleInv /\ KeepInv
      /\ IdleInv /\ CalmInv /\ CallOk(th[w])
  BY DEF TimerInv, CallsInOrder
<1>p. PICK e \in Sleepers, t \in Workers : e = th[w].entry /\ t = th[w].target
  BY <1>0 DEF ExpireMirror, CallOk
<1>e. /\ EarliestOf(heap[t]) \in 0 .. Never
      /\ \A f \in heap[t] : EarliestOf(heap[t]) <= deadline[f]
  BY <1>0, EarliestIsLeast DEF TypeOK
<1> DEFINE r == [th[w] EXCEPT !.pc = "wake"]
<1>a. /\ th[w] \in Local /\ "wake" \in Pc
  BY <1>0, <1>p, <1>e DEF TypeOK, Pc
<1>1. r \in Local
  BY <1>a DEF Local
<1>2. th' = [th EXCEPT ![w] = r]
  BY <1>0, <1>p, <1>e DEF ExpireMirror, GoTo, Call, Return
<1>3. /\ r.pc = "wake" /\ r.ret = th[w].ret /\ r.entry = th[w].entry
      /\ r.more = th[w].more /\ r.gathered = th[w].gathered
      /\ r.target = th[w].target /\ r.todo = th[w].todo /\ r.wakeAt = th[w].wakeAt
  BY <1>a DEF Local
<1>4. Moves(w) /\ th'[w] = r
  <2> HIDE DEF r
  <2> QED
    BY <1>0, <1>1, <1>2, OnSet
<1> HIDE DEF r
<1>u. /\ At(w, "expireMirror")
      /\ earliest' = [earliest EXCEPT ![t] = EarliestOf(heap[t])]
      /\ fired' = [fired EXCEPT ![e] = TRUE] /\ lock' = [lock EXCEPT ![t] = None]
      /\ UNCHANGED <<heap, mask, deadline, taskVars, keepVars, idleVars, recent, now>>
  BY <1>0, <1>p, <1>e DEF ExpireMirror
<1>n. /\ \A v \in Workers : e \notin heap[v]
      /\ \A u \in Workers \ {w} : At(u, "expireMirror") => th[u].entry # e
  BY <1>0, <1>p, <1>e, <1>u DEF LifeInv, HeapInv, ExpireInv
<1>m. \A f \in Sleepers \ {e} : fired'[f] = fired[f]
  BY <1>0, <1>p, <1>e, <1>u DEF TypeOK
<1>5. TypeOK'
  BY <1>0, <1>p, <1>e, <1>u, <1>4 DEF TypeOK, Moves
<1>6. CallsInOrder'
  BY <1>0, <1>p, <1>e, <1>u, <1>3, <1>4 DEF CallsInOrder, CallOk, FirePcs, Moves
<1>7. LifeInv'
  <2>1. OwnerInv'
    BY <1>0, <1>p, <1>e, <1>u, <1>3, <1>4, OwnerFrame DEF LifeInv, Owning, AddPcs
  <2>2. GatherInv'
    BY <1>0, <1>p, <1>e, <1>u, <1>3, <1>4, GatherFrame DEF LifeInv
  <2>3. ASSUME NEW f \in Sleepers, f # e, Pending(f) PROVE Pending(f)'
    BY <1>0, <1>p, <1>e, <1>u, <1>3, <1>4, <1>m, <2>3 DEF Pending, Moves
  <2>4. HeapInv'
    <3>1. \A v \in Workers : \A f \in heap[v] : f \in Sleepers /\ f # e
      BY <1>0, <1>n DEF TypeOK
    <3>2. \A v \in Workers : \A f \in heap[v] : Pending(f)'
      BY <1>0, <2>3, <3>1 DEF LifeInv, HeapInv
    <3> QED
      BY <1>0, <1>p, <1>e, <1>u, <1>3, <1>4, <3>2 DEF LifeInv, HeapInv, Moves
  <2>5. ExpireInv'
    <3>1. ASSUME NEW u \in Workers, At(u, "expireMirror")'
          PROVE  u # w /\ \E f \in Sleepers : th'[u].entry = f /\ Pending(f)'
      <4>1. u # w /\ th'[u] = th[u]
        BY <1>3, <1>4, <3>1 DEF Moves
      <4>2. PICK f \in Sleepers : f = th[u].entry /\ f # e
        BY <1>0, <1>p, <1>e, <1>u, <1>n, <3>1, <4>1 DEF CallsInOrder, CallOk
      <4>3. Pending(f)
        BY <1>0, <1>p, <1>e, <1>u, <3>1, <4>1, <4>2 DEF LifeInv, ExpireInv
      <4> QED
        BY <2>3, <4>1, <4>2, <4>3
    <3>2. \A u \in Workers : At(u, "expireMirror")' => Pending(th[u].entry)'
      BY <3>1
    <3> QED
      BY <1>0, <1>p, <1>e, <1>u, <1>4, <3>1, <3>2 DEF LifeInv, ExpireInv, Moves
  <2> QED
    BY <2>1, <2>2, <2>4, <2>5 DEF LifeInv
<1>8. MirrorInv'
  <2>1. earliest'[t] = EarliestOf(heap[t]) /\ \A q \in Workers \ {t} : earliest'[q] = earliest[q]
    BY <1>0, <1>p, <1>e, <1>u DEF TypeOK
  <2>2. \A q \in Workers : At(q, "mirror") => q # w /\ th'[q] = th[q]
    BY <1>0, <1>p, <1>e, <1>u, <1>4 DEF Moves
  <2> QED
    BY <1>0, <1>p, <1>e, <1>u, <2>1, <2>2 DEF MirrorInv
<1>9. RoleInv'
  BY <1>0, <1>p, <1>e, <1>u, <1>3, <1>4, RoleFrame DEF KeeperPcs
<1>10. KeepInv'
  BY <1>0, <1>p, <1>e, <1>u, <1>3, <1>4, KeepFrame DEF AddPcs
<1>11. IdleInv'
  BY <1>0, <1>p, <1>e, <1>u, <1>3, <1>4, IdleFrame
  DEF TypeOK, IdleInv, IdlePc, KeeperPcs, FirePcs
<1>12. CalmInv'
  BY <1>0, <1>p, <1>e, <1>u, <1>3, <1>4, DutyDone
  DEF OnDuty, CalmInv, KeeperPcs, FirePcs
<1> QED
  BY <1>5, <1>6, <1>7, <1>8, <1>9, <1>10, <1>11, <1>12 DEF TimerInv

\* Its sleeper is gathered, or told before it parks.
LEMMA WakeKeeps ==
    ASSUME TimerInv, NEW w \in Workers, Wake(w)
    PROVE  TimerInv'
<1>0. /\ TypeOK /\ CallsInOrder /\ LifeInv /\ MirrorInv /\ RoleInv /\ KeepInv
      /\ IdleInv /\ CalmInv /\ CallOk(th[w])
  BY DEF TimerInv, CallsInOrder
<1>p. PICK e \in Sleepers : e = th[w].entry
  BY <1>0 DEF Wake, CallOk
<1>1. ASSUME task[e] = "parked", task' = [task EXCEPT ![e] = "gathered"], UNCHANGED notified,
             th' = [[th EXCEPT ![w].pc = "expire", ![w].entry = None]
                     EXCEPT ![w].gathered = @ \cup {e}]
      PROVE  TimerInv'
  <2>g. th[w].gathered \cup {e} \in SUBSET Sleepers
    BY <1>0 DEF TypeOK, Local
  <2>h. th' = [th EXCEPT ![w].pc = "expire", ![w].entry = None, ![w].gathered = @ \cup {e}]
    BY <1>0, <1>1 DEF TypeOK, Local
  <2> DEFINE r == [th[w] EXCEPT !.pc = "expire", !.entry = None,
                                !.gathered = th[w].gathered \cup {e}]
  <2>a. /\ th[w] \in Local /\ "expire" \in Pc
    BY <1>0, <1>p, <1>1, <2>g, <2>h DEF TypeOK, Pc
  <2>1. r \in Local
    BY <2>a DEF Local
  <2>2. th' = [th EXCEPT ![w] = r]
    BY <1>0, <1>p, <1>1, <2>g, <2>h DEF Wake, GoTo, Call, Return
  <2>3. /\ r.pc = "expire" /\ r.ret = th[w].ret /\ r.entry = None
        /\ r.more = th[w].more /\ r.gathered = th[w].gathered \cup {e}
        /\ r.target = th[w].target /\ r.todo = th[w].todo /\ r.wakeAt = th[w].wakeAt
    BY <2>a DEF Local
  <2>4. Moves(w) /\ th'[w] = r
    <3> HIDE DEF r
    <3> QED
      BY <1>0, <2>1, <2>2, OnSet
  <2> HIDE DEF r
  <2>u. /\ At(w, "wake")
        /\ UNCHANGED <<timerVars, work, keepVars, idleVars, recent, now>>
    BY <1>0, <1>p, <1>1, <2>g, <2>h DEF Wake
  <2>m. task'[e] = "gathered" /\ \A f \in Sleepers \ {e} : task'[f] = task[f]
    BY <1>0, <1>p, <1>1, <2>g, <2>h, <2>u DEF TypeOK
  <2>o. \A u \in Workers :
           (Owning(th[u]) => th[u].entry # e) /\ e \notin th[u].gathered
    BY <1>0, <1>p, <1>1, <2>g, <2>h, <2>u DEF LifeInv, OwnerInv, GatherInv
  <2>5. TypeOK'
    BY <1>0, <1>p, <1>1, <2>g, <2>h, <2>u, <2>4 DEF TypeOK, Moves
  <2>6. CallsInOrder'
    BY <1>0, <1>p, <1>1, <2>g, <2>h, <2>u, <2>3, <2>4
    DEF CallsInOrder, CallOk, FirePcs, Moves
  <2>7. LifeInv'
    <3>1. /\ th'[w].gathered = th[w].gathered \cup {e} /\ UNCHANGED <<heap, fired>>
          /\ th'[w].pc \notin {"add", "expireMirror"} /\ ~Owning(th'[w])
      BY <1>0, <1>p, <1>1, <2>g, <2>h, <2>u, <2>3, <2>4 DEF Owning, AddPcs
    <3>2. ASSUME NEW f \in th'[w].gathered
          PROVE  /\ task'[f] = "gathered"
                 /\ \A u \in Workers \ {w} : f \notin th[u].gathered
      <4>1. CASE f = e
        BY <2>m, <2>o, <4>1
      <4>2. CASE f # e
        <5>1. f \in th[w].gathered /\ f \in Sleepers
          BY <2>g, <3>1, <4>2
        <5> QED
          BY <1>0, <2>m, <4>2, <5>1 DEF LifeInv, GatherInv
      <4> QED
        BY <4>1, <4>2
    <3>3. \A f \in Sleepers : task'[f] # task[f] =>
             f = e /\ task'[f] # "awake"
      BY <2>m
    <3> QED
      BY <1>0, <2>4, <2>5, <2>o, <3>1, <3>2, <3>3, LifeMoves
  <2>8. MirrorInv'
    BY <1>0, <1>p, <1>1, <2>g, <2>h, <2>u, <2>3, <2>4, MirrorFrame
  <2>9. RoleInv'
    BY <1>0, <1>p, <1>1, <2>g, <2>h, <2>u, <2>3, <2>4, RoleFrame DEF KeeperPcs
  <2>10. KeepInv'
    BY <1>0, <1>p, <1>1, <2>g, <2>h, <2>u, <2>3, <2>4, KeepFrame DEF AddPcs
  <2>11. IdleInv'
    BY <1>0, <2>u, <2>3, <2>4, IdleFires DEF FirePcs
  <2>12. CalmInv'
    BY <1>0, <1>p, <1>1, <2>g, <2>h, <2>u, <2>3, <2>4, DutyDone
    DEF OnDuty, CalmInv, KeeperPcs, FirePcs
  <2> QED
    BY <2>5, <2>6, <2>7, <2>8, <2>9, <2>10, <2>11, <2>12 DEF TimerInv
<1>2. ASSUME task[e] # "parked", notified' = [notified EXCEPT ![e] = TRUE], UNCHANGED task,
             th' = [th EXCEPT ![w].pc = "expire", ![w].entry = None]
      PROVE  TimerInv'
  <2> DEFINE r == [th[w] EXCEPT !.pc = "expire", !.entry = None]
  <2>a. /\ th[w] \in Local /\ "expire" \in Pc
    BY <1>0, <1>p, <1>2 DEF TypeOK, Pc
  <2>1. r \in Local
    BY <2>a DEF Local
  <2>2. th' = [th EXCEPT ![w] = r]
    BY <1>0, <1>p, <1>2 DEF Wake, GoTo, Call, Return
  <2>3. /\ r.pc = "expire" /\ r.ret = th[w].ret /\ r.entry = None
        /\ r.more = th[w].more /\ r.gathered = th[w].gathered
        /\ r.target = th[w].target /\ r.todo = th[w].todo /\ r.wakeAt = th[w].wakeAt
    BY <2>a DEF Local
  <2>4. Moves(w) /\ th'[w] = r
    <3> HIDE DEF r
    <3> QED
      BY <1>0, <2>1, <2>2, OnSet
  <2> HIDE DEF r
  <2>u. /\ At(w, "wake")
        /\ UNCHANGED <<timerVars, task, work, keepVars, idleVars, recent, now>>
    BY <1>0, <1>p, <1>2 DEF Wake
  <2>5. TypeOK'
    BY <1>0, <1>p, <1>2, <2>u, <2>4 DEF TypeOK, Moves
  <2>6. CallsInOrder'
    BY <1>0, <1>p, <1>2, <2>u, <2>3, <2>4 DEF CallsInOrder, CallOk, FirePcs, Moves
  <2>7. LifeInv'
    BY <1>0, <1>p, <1>2, <2>u, <2>3, <2>4, LifeFrame DEF Owning, AddPcs
  <2>8. MirrorInv'
    BY <1>0, <1>p, <1>2, <2>u, <2>3, <2>4, MirrorFrame
  <2>9. RoleInv'
    BY <1>0, <1>p, <1>2, <2>u, <2>3, <2>4, RoleFrame DEF KeeperPcs
  <2>10. KeepInv'
    BY <1>0, <1>p, <1>2, <2>u, <2>3, <2>4, KeepFrame DEF AddPcs
  <2>11. IdleInv'
    BY <1>0, <2>u, <2>3, <2>4, IdleFires DEF FirePcs
  <2>12. CalmInv'
    BY <1>0, <1>p, <1>2, <2>u, <2>3, <2>4, DutyDone
    DEF OnDuty, CalmInv, KeeperPcs, FirePcs
  <2> QED
    BY <2>5, <2>6, <2>7, <2>8, <2>9, <2>10, <2>11, <2>12 DEF TimerInv
<1> QED
  BY <1>p, <1>1, <1>2 DEF Wake

-----------------------------------------------------------------------------
(* The surroundings.                                                       *)

\* A pinned task is lined up.
LEMMA PinnedWakeKeeps ==
    ASSUME TimerInv, NEW w \in Workers, PinnedWake(w)
    PROVE  TimerInv'
<1>0. TypeOK /\ IdleInv
  BY DEF TimerInv
<1> DEFINE r == [th[w] EXCEPT !.more = TRUE]
<1>a. th[w] \in Local
  BY <1>0 DEF TypeOK
<1>1. r \in Local
  BY <1>a DEF Local
<1>2. th' = [th EXCEPT ![w] = r]
  BY DEF PinnedWake
<1>3. /\ r.pc = th[w].pc /\ r.ret = th[w].ret /\ r.entry = th[w].entry
      /\ r.gathered = th[w].gathered /\ r.target = th[w].target /\ r.todo = th[w].todo
      /\ r.wakeAt = th[w].wakeAt
  BY <1>a DEF Local
<1>4. Moves(w) /\ th'[w] = r
  <2> HIDE DEF r
  <2> QED
    BY <1>0, <1>1, <1>2, OnSet
<1> HIDE DEF r
<1>5. /\ Pinned /\ idle' = idle \ {w} /\ UNCHANGED <<timerVars, taskVars, keepVars, recent, now>>
      /\ token' = IF w \in idle THEN [token EXCEPT ![w] = TRUE] ELSE token
  BY DEF PinnedWake
<1>6. /\ token' \in [Workers -> BOOLEAN] /\ \A v \in Workers : token[v] => token'[v]
      /\ \A v \in idle : v \in idle' \/ token'[v]
  BY <1>0, <1>5 DEF TypeOK
<1>7. TypeOK'
  BY <1>0, <1>4, <1>5, <1>6 DEF TypeOK, Moves
<1>8. IdleInv'
  <2>1. th'[w].pc \in {"recheck", "claim", "parked"} => w \in idle' \/ token'[w]
    BY <1>0, <1>3, <1>4, <1>6 DEF IdleInv
  <2> QED
    BY <1>0, <1>4, <1>5, <1>6, <2>1, IdleFrame
<1>9. CalmInv'
  BY <1>5 DEF CalmInv, Plain
<1>10. \A u \in Workers :
         /\ th'[u].pc = th[u].pc /\ th'[u].ret = th[u].ret
         /\ th'[u].entry = th[u].entry /\ th'[u].gathered = th[u].gathered
         /\ th'[u].target = th[u].target /\ th'[u].todo = th[u].todo
         /\ th'[u].wakeAt = th[u].wakeAt
  BY <1>3, <1>4 DEF Moves
<1> QED
  BY <1>5, <1>6, <1>7, <1>8, <1>9, <1>10, StillStep

\* A step that leaves the workers where they are, and takes nobody's token.
LEMMA WorldStep ==
    ASSUME TimerInv, TypeOK', UNCHANGED <<timerVars, task, keepVars, th>>,
           idle' \subseteq idle, \A v \in Workers : token[v] => token'[v],
           \A v \in idle : v \in idle' \/ token'[v],
           recent' => recent
    PROVE  TimerInv'
<1>0. IdleInv /\ CalmInv
  BY DEF TimerInv
<1>1. IdleInv'
  BY <1>0 DEF IdleInv
<1>2. CalmInv'
  <2> SUFFICES ASSUME Plain, keeper = None, NEW z \in Workers, AsleepForGood(z)',
                      NEW v \in Workers, NEW e \in heap[v]
               PROVE  \E u \in Workers : OnDuty(u)' \/ WillSee(u, e)'
    BY <1>0 DEF CalmInv, DutyInv, Plain
  <2>1. AsleepForGood(z)
    BY DEF AsleepForGood
  <2>2. PICK u \in Workers : OnDuty(u) \/ WillSee(u, e)
    BY <1>0, <2>1 DEF CalmInv, DutyInv
  <2> QED
    BY <2>2 DEF OnDuty, WillSee
<1> QED
  BY <1>1, <1>2, StillStep

\* New work, time, and the delay between two wake-ups.
LEMMA WorldKeeps ==
    ASSUME TimerInv, Inject \/ Tick \/ DelayPasses \/ UNCHANGED vars
    PROVE  TimerInv'
<1>0. TypeOK
  BY DEF TimerInv
<1>1. CASE Inject
  <2>1. NotifyIdleWorker(idle) /\ idle \in SUBSET idle
    BY <1>1 DEF Inject
  <2>2. /\ idle' \subseteq idle /\ token' \in [Workers -> BOOLEAN]
        /\ \A v \in Workers : token[v] => token'[v]
        /\ \A v \in idle : v \in idle' \/ token'[v]
    BY <1>0, <2>1, OnNotify
  <2>3. /\ UNCHANGED <<timerVars, task, notified, keepVars, recent, now, th>>
        /\ work' = work + 1 /\ work < MaxWork
    BY <1>1 DEF Inject
  <2>4. TypeOK'
    BY <1>0, <2>2, <2>3, TimeIsNatural DEF TypeOK
  <2> QED
    BY <2>2, <2>3, <2>4, WorldStep
<1>2. CASE Tick
  <2>1. TypeOK'
    BY <1>0, <1>2, TimeIsNatural DEF Tick, TypeOK
  <2> QED
    BY <1>0, <1>2, <2>1, WorldStep DEF Tick, TypeOK
<1>3. CASE DelayPasses
  <2>1. TypeOK'
    BY <1>0, <1>3 DEF DelayPasses, TypeOK
  <2> QED
    BY <1>0, <1>3, <2>1, WorldStep DEF DelayPasses, TypeOK
<1>4. CASE UNCHANGED vars
  <2>1. TypeOK'
    BY <1>0, <1>4 DEF vars, TypeOK
  <2> QED
    BY <1>0, <1>4, <2>1, WorldStep DEF vars, TypeOK
<1> QED
  BY <1>1, <1>2, <1>3, <1>4

-----------------------------------------------------------------------------
(* The invariant, and what follows from it.                                *)

\* In the initial states all workers are in their dispatchers.
LEMMA TimerInit == Init => TimerInv
<1> SUFFICES ASSUME Init PROVE TimerInv
  OBVIOUS
<1> DEFINE l == [pc |-> "top", ret |-> "top", entry |-> None,
                 more |-> FALSE, gathered |-> {}, target |-> None, todo |-> {},
                 wakeAt |-> Never, clock |-> 0]
<1>1. l \in Local /\ l.pc = "top" /\ l.gathered = {}
  BY TimeIsNatural DEF Local, Pc
<1>2. \A w \in Workers : th[w] = l /\ heap[w] = {}
  BY DEF Init
<1>3. TypeOK
  <2>1. th = [w \in Workers |-> l]
    BY DEF Init
  <2> HIDE DEF l
  <2>2. th \in [Workers -> Local]
    BY <1>1, <2>1
  <2>3. 0 \in 0 .. MaxTime /\ 0 \in 0 .. MaxWork /\ Never \in 0 .. Never
    BY TimeIsNatural
  <2>4. /\ heap \in [Workers -> SUBSET Sleepers] /\ lock \in [Workers -> Workers \cup {None}]
        /\ mask \subseteq Workers /\ idle \subseteq Workers
        /\ token \in [Workers -> BOOLEAN] /\ recent \in BOOLEAN
        /\ fired \in [Sleepers -> BOOLEAN] /\ notified \in [Sleepers -> BOOLEAN]
        /\ task \in [Sleepers -> {"awake", "onWorker", "parked", "gathered", "ready"}]
    BY DEF Init
  <2>5. /\ keeper \in Workers \cup {None} /\ keeperDeadline \in 0 .. Never
        /\ earliest \in [Workers -> 0 .. Never] /\ deadline \in [Sleepers -> 0 .. MaxTime]
        /\ now \in 0 .. MaxTime /\ work \in 0 .. MaxWork
    BY <2>3 DEF Init
  <2> QED
    BY <2>2, <2>4, <2>5 DEF TypeOK
<1> HIDE DEF l
<1>4. CallsInOrder /\ MirrorInv /\ KeepInv
  BY <1>1, <1>2 DEF CallsInOrder, CallOk, FirePcs, MirrorInv, KeepInv
<1>5. LifeInv
  BY <1>1, <1>2 DEF LifeInv, OwnerInv, Owning, AddPcs, GatherInv, HeapInv, ExpireInv
<1>6. RoleInv
  BY <1>1, <1>2, NoneIsNobody DEF Init, RoleInv, KeeperPcs
<1>7. IdleInv
  BY <1>1, <1>2 DEF Init, IdleInv
<1>8. CalmInv
  BY <1>1, <1>2 DEF Init, CalmInv, DutyInv, AsleepForGood
<1> QED
  BY <1>3, <1>4, <1>5, <1>6, <1>7, <1>8 DEF TimerInv

\* Every action keeps the invariant.
LEMMA TimerPreserved == TimerInv /\ [Next]_vars => TimerInv'
<1> SUFFICES ASSUME TimerInv, [Next]_vars PROVE TimerInv'
  OBVIOUS
<1>1. ASSUME NEW w \in Workers, AddStep(w) PROVE TimerInv'
  BY <1>1, AddKeeps, AddMirrorKeeps, AskKeeperKeeps, AskDeadlineKeeps, CheckKeeps,
     ParkKeeps DEF AddStep
<1>2. ASSUME NEW w \in Workers, DispatchStep(w) PROVE TimerInv'
  BY <1>2, MaintainKeeps, LookKeeps, PlaceKeeps, TakeKeeps, DispatchKeeps, EnsureKeeps
  DEF DispatchStep
<1>3. ASSUME NEW w \in Workers, IdleStep(w) PROVE TimerInv'
  BY <1>3, MarkKeeps, RecheckKeeps, ClaimKeeps, ScanMarkKeeps, ScanMaskKeeps, ScanKeeps,
     KeepKeeps, ReleaseKeeps, ParkedKeeps, AwakeKeeps DEF IdleStep
<1>4. ASSUME NEW w \in Workers, FireStep(w) PROVE TimerInv'
  BY <1>4, FireKeeps, FireNextKeeps, ExpireKeeps, ExpireMirrorKeeps, WakeKeeps
  DEF FireStep
<1>5. ASSUME NEW w \in Workers, RunEnds(w) \/ PinnedWake(w) PROVE TimerInv'
  BY <1>5, RunEndsKeeps, PinnedWakeKeeps
<1>6. ASSUME NEW w \in Workers, NEW e \in Sleepers, SleepUntil(w, e) PROVE TimerInv'
  BY <1>6, SleepUntilKeeps
<1> QED
  BY <1>1, <1>2, <1>3, <1>4, <1>5, <1>6, WorldKeeps DEF Next, WorkerStep

\* TimerInv is inductive.
LEMMA TimerInvariant == Spec => []TimerInv
<1> QED
  BY TimerInit, TimerPreserved, PTL DEF Spec

\* Every variable and every worker's locals keep their types.
THEOREM TypeCorrect == Spec => []TypeOK
<1>1. TimerInv => TypeOK
  BY DEF TimerInv
<1> QED
  BY <1>1, TimerInvariant, PTL

\* "either its scan sees our entry, or we see the mark (or the deadline it
\* computed without us) and wake it" (SchedulerCore.cpp, addTimer): no timekeeper
\* sleeps past a queued deadline without a token or somebody on the way to give
\* it one, with rampUpDelay and pinned tasks or without.
THEOREM KeeperIsTold == Spec => []KeeperHasDeadline
<1>1. ASSUME TimerInv, NEW w \in Workers, NEW v \in Workers, NEW e \in heap[v],
             At(w, "keep"), th[w].wakeAt > deadline[e]
      PROVE  token[w] \/ \E u \in Workers : Adding(u, e)
  <2>1. Covered(w, e)
    BY <1>1 DEF TimerInv, KeepInv
  <2>2. th[w].wakeAt \in 0 .. Never /\ deadline[e] \in 0 .. MaxTime
    BY <1>1 DEF TimerInv, TypeOK, Local
  <2>3. ~(th[w].wakeAt <= deadline[e])
    BY <1>1, <2>2, TimeIsNatural
  <2> QED
    BY <2>1, <2>3 DEF Covered, Coming, Adding
<1>2. TimerInv => KeeperHasDeadline
  BY <1>1 DEF KeeperHasDeadline
<1> QED
  BY <1>2, TimerInvariant, PTL

\* ensureTimekeeper(), "timers stay covered": where every request for a
\* timekeeper is served (no rampUpDelay) and no pinned task is lined up from
\* outside, timers are never pending with some worker idle, no timekeeper and
\* everybody else in tasks.
THEOREM TimersCovered ==
    ASSUME ~RampUpDelay, ~Pinned
    PROVE  Spec => []TimersStayCovered
<1>1. ASSUME TimerInv, keeper = None, NEW v \in Workers, NEW e \in heap[v],
             NEW z \in Workers, AsleepForGood(z)
      PROVE  \E w \in Workers : ~At(w, "run") /\ ~AsleepForGood(w)
  <2>1. DutyInv
    BY <1>1 DEF TimerInv, CalmInv, Plain
  <2>2. PICK u \in Workers : OnDuty(u) \/ WillSee(u, e)
    BY <1>1, <2>1 DEF DutyInv
  <2> QED
    BY <2>2 DEF OnDuty, WillSee, AsleepForGood, KeeperPcs, FirePcs
<1>2. TimerInv => TimersStayCovered
  BY <1>1 DEF TimersStayCovered
<1> QED
  BY <1>2, TimerInvariant, PTL
=============================================================================
