------------------------- MODULE IdleWorkersProofs -------------------------
(***************************************************************************)
(* IdleWorkers for every number of workers, foreign threads and tasks: who *)
(* is inside the Driver holds the timekeeper role; a worker taken out of   *)
(* idleMask is woken; injected work is seen; and nobody sleeps through     *)
(* stop().  Each comes from one inductive invariant, the conjunction of    *)
(* the parts below.                                                        *)
(***************************************************************************)
EXTENDS IdleWorkers, FiniteSetTheorems, TLAPS

-----------------------------------------------------------------------------
(* The inductive invariant.                                                *)

\* The parts of TypeOK that a single step preserves.  The upper bounds rest
\* on a sum over the queues and are left to TLC.
TypeInv ==
    /\ queue \in Nat /\ waiting \in Nat
    /\ local \in [Workers -> Nat]
    /\ gathered \in [Workers -> Nat]
    /\ idle \subseteq Workers
    /\ keeper \in Workers \cup {None}
    /\ token \in [Workers -> BOOLEAN]
    /\ stopping \in BOOLEAN
    /\ th \in [Threads -> Local]

\* Between Driver's claim and its release.
InDriver == {"poll", "pollRelease", "scan", "readRampUp", "publish", "keep",
             "keepRelease"}
\* sleepIdle() has read `stopping`.
GoingToSleep == {"claim", "scan", "readRampUp", "publish", "keep", "parked"}
\* parkIdle() has looked once more.
Settled == {"sleep"} \cup GoingToSleep
\* parkIdle() has set the bit in idleMask.
Marked == {"recheck", "unmark"} \cup Settled
\* Inside unparkWorker().
Waking == {"unparkDriver", "unparkParker"}

\* What the program counter says of a thread's locals: where a call returns
\* to, that unparkWorker() has a worker to wake, that stop() has set its flag.
CallOk(a) ==
    /\ th[a].ret \in {"free", "run", "topPop", "unparkAll", "wakeParked"}
    /\ th[a].pc \in {"commit", "notify", "pick"} => th[a].ret # "unparkAll"
    /\ th[a].pc \in Waking \cup {"rampUpDeadline"} => th[a].target \in Workers
    /\ a \in Stoppers /\ th[a].pc # "free" => stopping

CallsInOrder == \A a \in Threads : CallOk(a)

\* The timekeeper role is held from the claim to the release.
RoleHeld == \A w \in Workers : th[w].pc \in InDriver => keeper = w

\* Those counted in `searching`.
Seeks(w) == th[w].searcher \/ th[w].pc \in {"spinning", "spinLeave"}
Seekers == {w \in Workers : Seeks(w)}

\* A searcher is inside searchForWork().
SearcherOk(a) ==
    th[a].searcher =>
        th[a].pc \in {"searchPop", "searchSteal", "searchAgain", "searchLeave"}

\* `searching` counts exactly them, and none of them is about to sleep.
SearchingCounts ==
    /\ searching = Cardinality(Seekers)
    /\ \A a \in Threads : SearcherOk(a)

\* Whoever has set its bit in idleMask still has it there, has its token, or
\* is the target of an unparkWorker() under way.
WakeUnderWay ==
    \A w \in Workers : th[w].pc \in Marked =>
        \/ w \in idle
        \/ token[w]
        \/ \E a \in Threads : th[a].pc \in Waking /\ th[a].target = w

\* With work in the injection queue and nobody to look there any more, a
\* thread is still on its way to wake a worker or has given it its token.
WorkCalls ==
    queue > 0 /\ (\A w \in Workers : th[w].pc \in Settled) =>
        \/ \E a \in Threads : th[a].pc \in Notifying
        \/ \E w \in Workers : token[w]

\* stop() on thread a is through with w.
StopDone(a, w) ==
    \/ th[a].pc = "exited"
    \/ th[a].pc = "unparkAll" /\ w \notin th[a].todo
    \/ /\ th[a].pc \in Waking /\ th[a].ret = "unparkAll"
       /\ w \notin th[a].todo \cup {th[a].target}

\* A worker that stop() is through with and that went to sleep before it
\* could see `stopping` has its token.
StopReaches ==
    \A a \in Stoppers, w \in Workers : StopDone(a, w) =>
        /\ stopping
        /\ th[w].pc \in GoingToSleep /\ ~th[w].sawStop => token[w]

IdleInv ==
    /\ TypeInv /\ CallsInOrder /\ RoleHeld /\ SearchingCounts
    /\ WakeUnderWay /\ WorkCalls /\ StopReaches

USE DEF workVars, coordVars, wakeVars, lifeVars, At

-----------------------------------------------------------------------------
(* How a step of one thread changes th.                                    *)

\* Only a's locals change.
Moves(a) ==
    /\ th' \in [Threads -> Local]
    /\ \A b \in Threads \ {a} : th'[b] = th[b]

\* Of them these do not.
Keeps(a) ==
    /\ th'[a].target = th[a].target /\ th'[a].todo = th[a].todo
    /\ th'[a].searcher = th[a].searcher /\ th'[a].sawStop = th[a].sawStop

\* Whatever it sets of them.
LEMMA OnSet ==
    ASSUME TypeInv, NEW a \in Threads, NEW r \in Local, th' = [th EXCEPT ![a] = r]
    PROVE  Moves(a) /\ th'[a] = r
<1>1. th \in [Threads -> Local]
  BY DEF TypeInv
<1>2. th' \in [Threads -> Local] /\ th'[a] = r /\ \A b \in Threads \ {a} : th'[b] = th[b]
  BY <1>1
<1> QED
  BY <1>2 DEF Moves

\* GoTo changes the program counter only.
LEMMA OnGoTo ==
    ASSUME TypeInv, NEW a \in Threads, NEW p \in Pc, GoTo(a, p)
    PROVE  Moves(a) /\ Keeps(a) /\ th'[a].pc = p /\ th'[a].ret = th[a].ret
  BY DEF TypeInv, GoTo, Moves, Keeps, Local

\* Got also notes that a task was found.
LEMMA OnGot ==
    ASSUME TypeInv, NEW a \in Threads, NEW p \in Pc, Got(a, p)
    PROVE  Moves(a) /\ Keeps(a) /\ th'[a].pc = p /\ th'[a].ret = th[a].ret
<1> DEFINE r == [th[a] EXCEPT !.pc = p, !.found = TRUE]
<1>1. th[a] \in Local
  BY DEF TypeInv
<1>2. r \in Local /\ r.pc = p /\ r.ret = th[a].ret
  BY <1>1 DEF Local
<1>3. /\ r.target = th[a].target /\ r.todo = th[a].todo
      /\ r.searcher = th[a].searcher /\ r.sawStop = th[a].sawStop
  BY <1>1 DEF Local
<1>4. th' = [th EXCEPT ![a] = r]
  BY DEF Got
<1> HIDE DEF r
<1> QED
  BY <1>2, <1>3, <1>4, OnSet DEF Keeps

\* Call also notes where to go on afterwards.
LEMMA OnCall ==
    ASSUME TypeInv, NEW a \in Threads, NEW p \in Pc, NEW r \in Pc, Call(a, p, r)
    PROVE  Moves(a) /\ Keeps(a) /\ th'[a].pc = p /\ th'[a].ret = r
<1> DEFINE s == [th[a] EXCEPT !.pc = p, !.ret = r]
<1>1. th[a] \in Local
  BY DEF TypeInv
<1>2. s \in Local /\ s.pc = p /\ s.ret = r
  BY <1>1 DEF Local
<1>3. /\ s.target = th[a].target /\ s.todo = th[a].todo
      /\ s.searcher = th[a].searcher /\ s.sawStop = th[a].sawStop
  BY <1>1 DEF Local
<1>4. th' = [th EXCEPT ![a] = s]
  BY DEF Call
<1> HIDE DEF s
<1> QED
  BY <1>2, <1>3, <1>4, OnSet DEF Keeps

\* Return goes on there.
LEMMA OnReturn ==
    ASSUME TypeInv, NEW a \in Threads, Return(a)
    PROVE  Moves(a) /\ Keeps(a) /\ th'[a].pc = th[a].ret /\ th'[a].ret = "free"
<1>1. th[a].ret \in Pc /\ "free" \in Pc
  BY DEF TypeInv, Local, Pc
<1>2. Call(a, th[a].ret, "free")
  BY DEF Return, Call
<1> QED
  BY <1>1, <1>2, OnCall

\* No change at all.
LEMMA OnStay ==
    ASSUME TypeInv, NEW a \in Threads, UNCHANGED th
    PROVE  Moves(a) /\ Keeps(a) /\ th'[a].pc = th[a].pc /\ th'[a].ret = th[a].ret
  BY DEF TypeInv, Moves, Keeps

\* The combinations of fields that the actions set together.
LEMMA LocalFields ==
    ASSUME NEW r \in Local, NEW p \in Pc
    PROVE  /\ \A v \in Workers \cup {None} : [r EXCEPT !.pc = p, !.target = v] \in Local
           /\ [r EXCEPT !.pc = p, !.todo = Workers] \in Local
           /\ \A s \in BOOLEAN :
                 [r EXCEPT !.pc = p, !.searcher = s, !.found = FALSE] \in Local
           /\ \A l \in BOOLEAN : [r EXCEPT !.pc = p, !.last = l] \in Local
           /\ [r EXCEPT !.pc = p, !.found = FALSE, !.last = FALSE] \in Local
           /\ \A t \in BOOLEAN : [r EXCEPT !.pc = p, !.timed = t] \in Local
           /\ [r EXCEPT !.pc = p, !.timed = FALSE, !.sawStop = FALSE] \in Local
<1>1. ASSUME NEW v \in Workers \cup {None}
      PROVE  [r EXCEPT !.pc = p, !.target = v] \in Local
  BY DEF Local
<1>2. [r EXCEPT !.pc = p, !.todo = Workers] \in Local
  BY DEF Local
<1>3. ASSUME NEW s \in BOOLEAN
      PROVE  [r EXCEPT !.pc = p, !.searcher = s, !.found = FALSE] \in Local
  BY DEF Local
<1>4. ASSUME NEW l \in BOOLEAN PROVE [r EXCEPT !.pc = p, !.last = l] \in Local
  BY DEF Local
<1>5. [r EXCEPT !.pc = p, !.found = FALSE, !.last = FALSE] \in Local
  BY DEF Local
<1>6. ASSUME NEW t \in BOOLEAN PROVE [r EXCEPT !.pc = p, !.timed = t] \in Local
  BY DEF Local
<1>7. [r EXCEPT !.pc = p, !.timed = FALSE, !.sawStop = FALSE] \in Local
  BY DEF Local
<1> QED
  BY <1>1, <1>2, <1>3, <1>4, <1>5, <1>6, <1>7

\* A step after which the same workers seek keeps the count.
LEMMA SameSeekers ==
    ASSUME SearchingCounts, NEW a \in Threads, Moves(a), searching' = searching,
           a \in Workers => (Seeks(a)' <=> Seeks(a)), SearcherOk(a)'
    PROVE  SearchingCounts'
<1>1. \A w \in Workers : Seeks(w)' <=> Seeks(w)
  BY DEF Moves, Seeks, Threads
<1>2. Seekers' = Seekers
  BY <1>1 DEF Seekers
<1>3. \A b \in Threads : SearcherOk(b)'
  BY DEF Moves, SearcherOk, SearchingCounts
<1> QED
  BY <1>2, <1>3 DEF SearchingCounts

\* A worker that steps but does not enter or go on inside its sleep can
\* disturb nobody else, whatever it does to its own bit and token.
LEMMA WorkerStep ==
    ASSUME IdleInv, TypeInv', SearchingCounts', NEW w \in Workers, Moves(w),
           stopping' = stopping,
           idle \ {w} \subseteq idle',
           \A v \in Workers \ {w} : token'[v] = token[v],
           keeper' = keeper \/ keeper \in {None, w},
           th'[w].pc \in InDriver => keeper' = w,
           th[w].pc \notin Waking, th'[w].pc \notin Marked, CallOk(w)'
    PROVE  IdleInv'
<1> USE ThreadsAreDistinct
<1>1. CallsInOrder'
  BY DEF IdleInv, CallsInOrder, CallOk, Moves
<1>2. RoleHeld'
  BY DEF IdleInv, RoleHeld, Moves, Threads
<1>3. WakeUnderWay'
  <2> SUFFICES ASSUME NEW v \in Workers, th'[v].pc \in Marked
               PROVE  \/ v \in idle' \/ token'[v]
                      \/ \E a \in Threads : th'[a].pc \in Waking /\ th'[a].target = v
    BY DEF WakeUnderWay
  <2>1. v # w /\ th'[v] = th[v]
    BY DEF Moves, Threads
  <2>2. \/ v \in idle \/ token[v]
        \/ \E a \in Threads : th[a].pc \in Waking /\ th[a].target = v
    BY <2>1 DEF IdleInv, WakeUnderWay
  <2>3. ASSUME NEW a \in Threads, th[a].pc \in Waking, th[a].target = v
        PROVE  th'[a].pc \in Waking /\ th'[a].target = v
    BY <2>3 DEF Moves
  <2> QED
    BY <2>1, <2>2, <2>3
<1>4. WorkCalls'
  BY DEF WorkCalls, Marked
<1>5. StopReaches'
  <2> SUFFICES ASSUME NEW a \in Stoppers, NEW v \in Workers, StopDone(a, v)'
               PROVE  /\ stopping'
                      /\ th'[v].pc \in GoingToSleep /\ ~th'[v].sawStop => token'[v]
    BY DEF StopReaches
  <2>1. th'[a] = th[a]
    BY DEF Moves, Threads
  <2>2. StopDone(a, v)
    BY <2>1 DEF StopDone
  <2>3. CASE v = w
    BY <2>2, <2>3 DEF IdleInv, StopReaches, Marked, Settled
  <2>4. CASE v # w
    BY <2>2, <2>4 DEF IdleInv, StopReaches, Moves, Threads
  <2> QED
    BY <2>3, <2>4
<1> QED
  BY <1>1, <1>2, <1>3, <1>4, <1>5 DEF IdleInv

\* A worker on its way into its sleep, which only takes the timekeeper role
\* or finds out how long to sleep.
LEMMA SleeperStep ==
    ASSUME IdleInv, TypeInv', NEW w \in Workers, Moves(w), Keeps(w),
           UNCHANGED <<queue, idle, searching, token, stopping>>,
           th'[w].ret = th[w].ret,
           keeper' = keeper \/ keeper = None,
           th'[w].pc \in InDriver => keeper' = w,
           th[w].pc \in GoingToSleep, th'[w].pc \in GoingToSleep
    PROVE  IdleInv'
<1> USE ThreadsAreDistinct
<1>1. w \in Threads /\ TypeInv /\ CallOk(w) /\ SearcherOk(w) /\ SearchingCounts
  BY DEF IdleInv, CallsInOrder, SearchingCounts, Threads
<1>2. CallsInOrder'
  BY <1>1 DEF IdleInv, CallsInOrder, CallOk, Moves, GoingToSleep, Waking, Threads
<1>3. RoleHeld'
  BY DEF IdleInv, RoleHeld, Moves, Threads
<1>4. SearchingCounts'
  <2>1. ~th[w].searcher /\ ~th'[w].searcher
    BY <1>1 DEF SearcherOk, GoingToSleep, Keeps
  <2>2. ~Seeks(w) /\ ~Seeks(w)'
    BY <2>1 DEF Seeks, GoingToSleep
  <2>3. SearcherOk(w)'
    BY <2>1 DEF SearcherOk
  <2> QED
    BY <1>1, <2>2, <2>3, SameSeekers
<1>5. \A a \in Threads : th[a].pc \in Waking =>
         th'[a].pc \in Waking /\ th'[a].target = th[a].target
  BY DEF Moves, Waking, GoingToSleep
<1>6. \A a \in Threads : th[a].pc \in Notifying => th'[a].pc \in Notifying
  BY DEF Moves, Notifying, GoingToSleep
<1>7. \A v \in Workers : /\ th'[v].pc \in Marked => th[v].pc \in Marked
                         /\ th'[v].pc \in Settled => th[v].pc \in Settled
                         /\ th'[v].pc \in GoingToSleep => th[v].pc \in GoingToSleep
                         /\ th'[v].sawStop = th[v].sawStop
  BY DEF Moves, Keeps, Marked, Settled, Threads
<1>8. WakeUnderWay'
  BY <1>5, <1>7 DEF IdleInv, WakeUnderWay
<1>9. WorkCalls'
  BY <1>6, <1>7 DEF IdleInv, WorkCalls
<1>10. StopReaches'
  <2>1. \A a \in Stoppers, v \in Workers : StopDone(a, v)' => StopDone(a, v)
    BY DEF StopDone, Moves, Threads
  <2> QED
    BY <1>7, <2>1 DEF IdleInv, StopReaches
<1> QED
  BY <1>2, <1>3, <1>4, <1>8, <1>9, <1>10 DEF IdleInv

\* A worker joins the search.
LEMMA OneMoreSeeker ==
    ASSUME SearchingCounts, NEW w \in Workers, Moves(w), searching' = searching + 1,
           ~Seeks(w), Seeks(w)', SearcherOk(w)'
    PROVE  SearchingCounts'
<1>1. \A v \in Workers \ {w} : Seeks(v)' <=> Seeks(v)
  BY DEF Moves, Seeks, Threads
<1>2. Seekers' = Seekers \cup {w} /\ w \notin Seekers
  BY <1>1 DEF Seekers
<1>3. IsFiniteSet(Seekers)
  BY SomeWorkers, FS_Subset DEF Seekers
<1>4. Cardinality(Seekers') = Cardinality(Seekers) + 1
  BY <1>2, <1>3, FS_AddElement
<1>5. \A b \in Threads : SearcherOk(b)'
  BY DEF Moves, SearcherOk, SearchingCounts
<1> QED
  BY <1>4, <1>5 DEF SearchingCounts

\* A worker leaves it.
LEMMA OneSeekerLess ==
    ASSUME SearchingCounts, NEW w \in Workers, Moves(w), searching' = searching - 1,
           Seeks(w), ~Seeks(w)', SearcherOk(w)'
    PROVE  SearchingCounts'
<1>1. \A v \in Workers \ {w} : Seeks(v)' <=> Seeks(v)
  BY DEF Moves, Seeks, Threads
<1>2. Seekers' = Seekers \ {w} /\ w \in Seekers
  BY <1>1 DEF Seekers
<1>3. IsFiniteSet(Seekers)
  BY SomeWorkers, FS_Subset DEF Seekers
<1>4. Cardinality(Seekers') = Cardinality(Seekers) - 1
  BY <1>2, <1>3, FS_RemoveElement
<1>5. \A b \in Threads : SearcherOk(b)'
  BY DEF Moves, SearcherOk, SearchingCounts
<1> QED
  BY <1>4, <1>5 DEF SearchingCounts

\* A step of inject(), notifyIdleWorker(), unparkWorker() or stop(): the
\* parts about roles and counts.
LEMMA CallerStep ==
    ASSUME IdleInv, NEW a \in Threads, Moves(a), UNCHANGED <<keeper, searching>>,
           stopping => stopping', CallOk(a)', th'[a].searcher = th[a].searcher,
           th[a].pc \in Notifying \cup {"free", "unparkAll", "wakeParked"},
           th'[a].pc \in Notifying \cup {"free", "run", "top", "topPop",
                                         "unparkAll", "wakeParked", "exited"}
    PROVE  CallsInOrder' /\ RoleHeld' /\ SearchingCounts'
<1>1. CallsInOrder'
  BY DEF IdleInv, CallsInOrder, CallOk, Moves
<1>2. RoleHeld'
  BY DEF IdleInv, RoleHeld, Moves, Notifying, InDriver, Threads
<1>3. SearchingCounts'
  <2>1. SearchingCounts /\ SearcherOk(a)
    BY DEF IdleInv, SearchingCounts
  <2>2. ~th[a].searcher /\ ~th'[a].searcher
    BY <2>1 DEF SearcherOk, Notifying
  <2>3. ~Seeks(a) /\ ~Seeks(a)' /\ SearcherOk(a)'
    BY <2>2 DEF Seeks, Notifying, SearcherOk
  <2> QED
    BY <2>1, <2>3, SameSeekers
<1> QED
  BY <1>1, <1>2, <1>3

\* Such a step loses no bit of idleMask without a wake-up for it, and no
\* wake-up without leaving the token.
LEMMA CallerWakes ==
    ASSUME WakeUnderWay, NEW a \in Threads, Moves(a), th'[a].pc \notin Marked,
           \A v \in idle : v \in idle' \/ (th'[a].pc \in Waking /\ th'[a].target = v),
           \A v \in Workers : token[v] => token'[v],
           \A v \in Workers : th[a].pc \in Waking /\ th[a].target = v =>
              token'[v] \/ (th'[a].pc \in Waking /\ th'[a].target = v)
    PROVE  WakeUnderWay'
<1> SUFFICES ASSUME NEW v \in Workers, th'[v].pc \in Marked
             PROVE  \/ v \in idle' \/ token'[v]
                    \/ \E b \in Threads : th'[b].pc \in Waking /\ th'[b].target = v
  BY DEF WakeUnderWay
<1>1. v # a /\ th'[v] = th[v]
  BY DEF Moves, Threads
<1>2. \/ v \in idle \/ token[v]
      \/ \E b \in Threads : th[b].pc \in Waking /\ th[b].target = v
  BY <1>1 DEF WakeUnderWay
<1>3. ASSUME NEW b \in Threads, th[b].pc \in Waking, th[b].target = v
      PROVE  token'[v] \/ \E c \in Threads : th'[c].pc \in Waking /\ th'[c].target = v
  <2>1. CASE b = a
    BY <1>3, <2>1
  <2>2. CASE b # a
    BY <1>3, <2>2 DEF Moves
  <2> QED
    BY <2>1, <2>2
<1> QED
  BY <1>2, <1>3

\* Such a step leaves nobody whom stop() is through with asleep.
LEMMA CallerStops ==
    ASSUME StopReaches, NEW a \in Threads, Moves(a), th'[a].pc \notin GoingToSleep,
           stopping => stopping',
           \A v \in Workers : token[v] => token'[v],
           a \in Stoppers => \A v \in Workers : StopDone(a, v)' =>
              StopDone(a, v) \/ (stopping' /\ token'[v])
    PROVE  StopReaches'
<1> SUFFICES ASSUME NEW s \in Stoppers, NEW v \in Workers, StopDone(s, v)'
             PROVE  /\ stopping'
                    /\ th'[v].pc \in GoingToSleep /\ ~th'[v].sawStop => token'[v]
  BY DEF StopReaches
<1>1. StopDone(s, v) \/ (stopping' /\ token'[v])
  BY DEF StopDone, Moves, Threads
<1>2. ASSUME StopDone(s, v), th'[v].pc \in GoingToSleep, ~th'[v].sawStop PROVE token'[v]
  <2>1. v # a /\ th'[v] = th[v]
    BY <1>2 DEF Moves, Threads
  <2> QED
    BY <1>2, <2>1 DEF StopReaches
<1>3. StopDone(s, v) => stopping'
  BY DEF StopReaches
<1> QED
  BY <1>1, <1>2, <1>3

\* Such a step leaves work seen if it is on its way to a worker afterwards, or
\* was not before.
LEMMA CallerCalls ==
    ASSUME WorkCalls, NEW a \in Threads, Moves(a), th'[a].pc \notin Settled,
           \/ th'[a].pc \in Notifying
           \/ th[a].pc \notin Notifying /\ queue' = queue
           \/ \E v \in Workers : token'[v],
           \A v \in Workers : token[v] => token'[v]
    PROVE  WorkCalls'
<1>1. CASE \/ th'[a].pc \in Notifying \/ \E v \in Workers : token'[v]
  BY <1>1 DEF WorkCalls
<1>2. CASE th[a].pc \notin Notifying /\ queue' = queue
  <2> SUFFICES ASSUME queue' > 0, \A v \in Workers : th'[v].pc \in Settled
               PROVE  \/ \E b \in Threads : th'[b].pc \in Notifying
                      \/ \E v \in Workers : token'[v]
    BY DEF WorkCalls
  <2>1. a \notin Workers
    OBVIOUS
  <2>2. \A v \in Workers : th[v].pc \in Settled
    BY <2>1 DEF Moves, Threads
  <2>3. ASSUME NEW b \in Threads, th[b].pc \in Notifying PROVE th'[b].pc \in Notifying
    BY <1>2, <2>3 DEF Moves
  <2> QED
    BY <1>2, <2>2, <2>3 DEF WorkCalls
<1> QED
  BY <1>1, <1>2

-----------------------------------------------------------------------------
(* It holds initially, and every step preserves it.                        *)

\* Nobody is idle, searching or counted to begin with.
LEMMA IdleInit == Init => IdleInv
<1> SUFFICES ASSUME Init PROVE IdleInv
  OBVIOUS
<1>1. TypeInv
  BY DEF Init, TypeInv, Threads, Thread, Local, Pc, Idling, Notifying
<1>2. CallsInOrder /\ RoleHeld
  BY ThreadsAreDistinct
  DEF Init, CallsInOrder, CallOk, RoleHeld, InDriver, Waking, Threads, Thread
<1>3. SearchingCounts
  <2>1. \A a \in Threads : ~th[a].searcher /\ th[a].pc \in {"top", "free"}
    BY DEF Init, Thread
  <2>2. Seekers = {}
    BY <2>1 DEF Seekers, Seeks, Threads
  <2> QED
    BY <2>1, <2>2, FS_EmptySet DEF Init, SearchingCounts, SearcherOk
<1>4. WakeUnderWay /\ WorkCalls /\ StopReaches
  BY ThreadsAreDistinct
  DEF Init, WakeUnderWay, WorkCalls, StopReaches, StopDone, Marked, Settled,
      GoingToSleep, Waking, Threads, Thread
<1> QED
  BY <1>1, <1>2, <1>3, <1>4 DEF IdleInv

\* Every step preserves the invariant.
LEMMA IdlePreserved == IdleInv /\ [Next]_vars => IdleInv'
<1> SUFFICES ASSUME IdleInv, [Next]_vars PROVE IdleInv'
  OBVIOUS
<1> USE ThreadsAreDistinct, SomeWorkers
<1>a. /\ TypeInv /\ CallsInOrder /\ RoleHeld /\ SearchingCounts
      /\ WakeUnderWay /\ WorkCalls /\ StopReaches
  BY DEF IdleInv
<1>b. Workers \subseteq Threads /\ Producers \subseteq Threads /\ Stoppers \subseteq Threads
  BY DEF Threads
<1>c. \A a \in Threads : CallOk(a) /\ SearcherOk(a)
  BY <1>a DEF CallsInOrder, SearchingCounts
<1> USE <1>a, <1>b, <1>c
<1>1. ASSUME NEW a \in Threads, Commit(a) PROVE IdleInv'
  <2>1. /\ Moves(a) /\ Keeps(a) /\ th[a].pc = "commit" /\ th'[a].pc = "notify"
        /\ th'[a].ret = th[a].ret /\ th'[a].searcher = th[a].searcher
    BY <1>1, OnGoTo DEF Commit, Keeps, Pc, Idling, Notifying
  <2>2. TypeInv'
    BY <1>1, <2>1 DEF Commit, TypeInv, Moves
  <2>3. CallOk(a)'
    BY <1>1, <2>1 DEF Commit, CallOk, Waking
  <2>4. CallsInOrder' /\ RoleHeld' /\ SearchingCounts'
    BY <1>1, <2>1, <2>3, CallerStep DEF Commit, CallOk, Notifying
  <2>5. WakeUnderWay'
    BY <1>1, <2>1, CallerWakes DEF Commit, Marked, Settled, GoingToSleep, Waking
  <2>6. WorkCalls'
    BY <1>1, <2>1, CallerCalls DEF Commit, Settled, GoingToSleep, Notifying
  <2>7. StopReaches'
    BY <1>1, <2>1, CallerStops DEF Commit, StopDone, GoingToSleep, Waking
  <2> QED
    BY <2>2, <2>4, <2>5, <2>6, <2>7 DEF IdleInv
<1>2. ASSUME NEW a \in Threads, Notify(a) PROVE IdleInv'
  <2>1. /\ Moves(a) /\ th[a].pc = "notify" /\ th'[a].searcher = th[a].searcher
        /\ \/ searching > 0 /\ th'[a].pc = th[a].ret /\ th'[a].ret = "free"
           \/ th'[a].pc = "pick" /\ th'[a].ret = th[a].ret
    BY <1>2, OnGoTo, OnReturn DEF Notify, Keeps, Pc, Idling, Notifying
  <2>2. TypeInv'
    BY <1>2, <2>1 DEF Notify, TypeInv, Moves
  <2>3. CallOk(a)'
    BY <1>2, <2>1 DEF Notify, CallOk, Waking
  <2>4. CallsInOrder' /\ RoleHeld' /\ SearchingCounts'
    BY <1>2, <2>1, <2>3, CallerStep DEF Notify, CallOk, Notifying
  <2>5. WakeUnderWay'
    BY <1>2, <2>1, CallerWakes DEF Notify, CallOk, Marked, Settled, GoingToSleep, Waking
  <2>6. WorkCalls'
    <3>1. CASE th'[a].pc = "pick"
      BY <1>2, <2>1, <3>1, CallerCalls DEF Notify, Settled, GoingToSleep, Notifying
    <3>2. CASE searching > 0 /\ th'[a].pc = th[a].ret
      <4>1. Seekers # {}
        BY <3>2, FS_EmptySet DEF SearchingCounts
      <4>2. PICK v \in Workers : Seeks(v)
        BY <4>1 DEF Seekers
      <4>3. th'[v].pc \notin Settled
        <5>1. CASE v = a
          BY <3>2, <5>1 DEF CallOk, Settled, GoingToSleep
        <5>2. CASE v # a
          BY <2>1, <4>2, <5>2 DEF Moves, Seeks, SearcherOk, Settled, GoingToSleep
        <5> QED
          BY <5>1, <5>2
      <4> QED
        BY <4>3 DEF WorkCalls
    <3> QED
      BY <2>1, <3>1, <3>2
  <2>7. StopReaches'
    BY <1>2, <2>1, CallerStops DEF Notify, CallOk, StopDone, GoingToSleep, Waking
  <2> QED
    BY <2>2, <2>4, <2>5, <2>6, <2>7 DEF IdleInv
<1>3. ASSUME NEW a \in Threads, Pick(a) PROVE IdleInv'
  <2>1. CASE idle = {} /\ idle' = idle /\ Return(a)
    <3>1. /\ Moves(a) /\ th[a].pc = "pick" /\ th'[a].searcher = th[a].searcher
          /\ th'[a].pc = th[a].ret /\ th'[a].ret = "free"
      BY <1>3, <2>1, OnReturn DEF Pick, Keeps
    <3>2. TypeInv'
      BY <1>3, <2>1, <3>1 DEF Pick, TypeInv, Moves
    <3>3. CallOk(a)'
      BY <1>3, <3>1 DEF Pick, CallOk, Waking
    <3>4. CallsInOrder' /\ RoleHeld' /\ SearchingCounts'
      BY <1>3, <3>1, <3>3, CallerStep DEF Pick, CallOk, Notifying
    <3>5. WakeUnderWay'
      BY <1>3, <3>1, <2>1, CallerWakes DEF Pick, CallOk, Marked, Settled, GoingToSleep, Waking
    <3>6. WorkCalls'
      <4> SUFFICES ASSUME queue' > 0, \A v \in Workers : th'[v].pc \in Settled
                   PROVE  \/ \E b \in Threads : th'[b].pc \in Notifying
                          \/ \E v \in Workers : token'[v]
        BY DEF WorkCalls
      <4>1. a \notin Workers
        BY <3>1 DEF CallOk, Settled, GoingToSleep
      <4>2. PICK v \in Workers : th[v].pc \in Settled
        BY <3>1, <4>1 DEF Moves
      <4>3. token[v] \/ \E b \in Threads : th[b].pc \in Waking /\ th[b].target = v
        BY <4>2, <2>1 DEF WakeUnderWay, Marked
      <4>4. ASSUME NEW b \in Threads, th[b].pc \in Waking PROVE th'[b].pc \in Notifying
        BY <3>1, <4>4 DEF Moves, Waking, Notifying
      <4>5. token' = token
        BY <1>3 DEF Pick
      <4> QED
        BY <4>3, <4>4, <4>5
    <3>7. StopReaches'
      BY <1>3, <3>1, CallerStops DEF Pick, CallOk, StopDone, GoingToSleep, Waking
    <3> QED
      BY <3>2, <3>4, <3>5, <3>6, <3>7 DEF IdleInv
  <2>2. ASSUME NEW v \in idle, idle' = idle \ {v},
               th' = [th EXCEPT ![a].pc = "unparkDriver", ![a].target = v]
        PROVE  IdleInv'
    <3>0. v \in Workers /\ "unparkDriver" \in Pc
      BY DEF TypeInv, Pc, Notifying
    <3>1. /\ Moves(a) /\ th[a].pc = "pick" /\ th'[a].searcher = th[a].searcher
          /\ th'[a].pc = "unparkDriver" /\ th'[a].target = v /\ th'[a].ret = th[a].ret
      <4>1. th[a].pc = "pick"
        BY <1>3 DEF Pick
      <4> DEFINE r == [th[a] EXCEPT !.pc = "unparkDriver", !.target = v]
      <4>2. r \in Local
        BY <3>0, LocalFields DEF TypeInv
      <4>3. th' = [th EXCEPT ![a] = r]
        BY <2>2 DEF TypeInv
      <4> QED
        BY <4>1, <4>2, <4>3, OnSet DEF TypeInv, Local
    <3>2. TypeInv'
      BY <1>3, <2>2, <3>1 DEF Pick, TypeInv, Moves
    <3>3. CallOk(a)'
      BY <1>3, <3>0, <3>1 DEF CallOk, Waking, Pick
    <3>4. CallsInOrder' /\ RoleHeld' /\ SearchingCounts'
      BY <1>3, <3>1, <3>3, CallerStep DEF Pick, CallOk, Notifying
    <3>5. WakeUnderWay'
      BY <1>3, <3>1, <2>2, CallerWakes DEF Pick, Marked, Settled, GoingToSleep, Waking
    <3>6. WorkCalls'
      BY <1>3, <3>1, CallerCalls DEF Pick, Settled, GoingToSleep, Notifying
    <3>7. StopReaches'
      BY <1>3, <3>1, CallerStops DEF Pick, CallOk, StopDone, GoingToSleep, Waking
    <3> QED
      BY <3>2, <3>4, <3>5, <3>6, <3>7 DEF IdleInv
  <2> QED
    BY <1>3, <2>1, <2>2 DEF Pick, Candidates
<1>4. ASSUME NEW a \in Threads, UnparkDriver(a) PROVE IdleInv'
  <2>1. /\ Moves(a) /\ Keeps(a) /\ th[a].pc = "unparkDriver" /\ th'[a].pc = "unparkParker"
        /\ th'[a].ret = th[a].ret /\ th'[a].searcher = th[a].searcher
    BY <1>4, OnGoTo DEF UnparkDriver, Keeps, Pc, Idling, Notifying
  <2>2. TypeInv'
    BY <1>4, <2>1 DEF UnparkDriver, TypeInv, Moves
  <2>3. CallOk(a)'
    BY <1>4, <2>1 DEF CallOk, Waking, Keeps, UnparkDriver
  <2>4. CallsInOrder' /\ RoleHeld' /\ SearchingCounts'
    BY <1>4, <2>1, <2>3, CallerStep DEF UnparkDriver, CallOk, Notifying
  <2>5. WakeUnderWay'
    BY <1>4, <2>1, CallerWakes DEF UnparkDriver, Keeps, Marked, Settled, GoingToSleep, Waking
  <2>6. WorkCalls'
    BY <1>4, <2>1, CallerCalls DEF UnparkDriver, Settled, GoingToSleep, Notifying
  <2>7. StopReaches'
    BY <1>4, <2>1, CallerStops DEF UnparkDriver, Keeps, StopDone, GoingToSleep, Waking
  <2> QED
    BY <2>2, <2>4, <2>5, <2>6, <2>7 DEF IdleInv
<1>5. ASSUME NEW a \in Threads, UnparkParker(a) PROVE IdleInv'
  <2>0. th[a].target \in Workers /\ th[a].ret \in Pc /\ "free" \in Pc
    BY <1>5 DEF UnparkParker, CallOk, Waking, TypeInv, Local, Pc
  <2>1. /\ Moves(a) /\ th[a].pc = "unparkParker" /\ th'[a].pc = th[a].ret
        /\ th'[a].ret = "free" /\ th'[a].searcher = th[a].searcher
        /\ th'[a].todo = th[a].todo
    BY <1>5, <2>0 DEF UnparkParker, Moves, TypeInv, Local
  <2>t. token'[th[a].target] /\ \A v \in Workers : token[v] => token'[v]
    BY <1>5, <2>0 DEF UnparkParker, TypeInv
  <2>2. TypeInv'
    BY <1>5, <2>1 DEF UnparkParker, TypeInv, Moves
  <2>3. CallOk(a)'
    BY <1>5, <2>1 DEF UnparkParker, CallOk, Waking
  <2>4. CallsInOrder' /\ RoleHeld' /\ SearchingCounts'
    BY <1>5, <2>1, <2>3, CallerStep DEF UnparkParker, CallOk, Notifying
  <2>5. WakeUnderWay'
    BY <1>5, <2>1, <2>t, CallerWakes DEF UnparkParker, CallOk, Marked, Settled, GoingToSleep, Waking
  <2>6. WorkCalls'
    BY <1>5, <2>0, <2>1, <2>t, CallerCalls DEF CallOk, Settled, GoingToSleep
  <2>7. StopReaches'
    <3>1. a \in Stoppers => stopping
      BY <2>1 DEF CallOk
    <3>2. ASSUME NEW v \in Workers, StopDone(a, v)'
          PROVE  StopDone(a, v) \/ v = th[a].target
      BY <2>1, <3>2 DEF StopDone, CallOk, Waking
    <3> QED
      BY <1>5, <2>1, <2>t, <3>1, <3>2, CallerStops DEF UnparkParker, CallOk, GoingToSleep
  <2> QED
    BY <2>2, <2>4, <2>5, <2>6, <2>7 DEF IdleInv
<1>6. ASSUME NEW a \in Threads, UnparkNext(a) PROVE IdleInv'
  <2>1. ASSUME NEW v \in th[a].todo,
               th' = [th EXCEPT ![a].pc = "unparkDriver", ![a].target = v,
                                ![a].ret = "unparkAll", ![a].todo = @ \ {v}]
        PROVE  IdleInv'
    <3>0. v \in Workers /\ {"unparkDriver", "unparkAll"} \subseteq Pc
          /\ th[a].todo \ {v} \in SUBSET Workers
      BY DEF TypeInv, Local, Pc, Notifying
    <3>1. /\ Moves(a) /\ th[a].pc = "unparkAll" /\ th'[a].searcher = th[a].searcher
          /\ th'[a].pc = "unparkDriver" /\ th'[a].target = v /\ th'[a].ret = "unparkAll"
          /\ th'[a].todo = th[a].todo \ {v}
      <4>1. th[a].pc = "unparkAll"
        BY <1>6 DEF UnparkNext
      <4> QED
        BY <2>1, <3>0, <4>1 DEF Moves, TypeInv, Local
    <3>2. TypeInv'
      BY <1>6, <3>1 DEF UnparkNext, TypeInv, Moves
    <3>3. CallOk(a)'
      BY <1>6, <3>0, <3>1 DEF CallOk, Waking, UnparkNext
    <3>4. CallsInOrder' /\ RoleHeld' /\ SearchingCounts'
      BY <1>6, <3>1, <3>3, CallerStep DEF UnparkNext, CallOk, Notifying
    <3>5. WakeUnderWay'
      BY <1>6, <3>1, <2>1, CallerWakes DEF UnparkNext, Marked, Settled, GoingToSleep, Waking
    <3>6. WorkCalls'
      BY <1>6, <3>1, CallerCalls DEF UnparkNext, Settled, GoingToSleep, Notifying
    <3>7. StopReaches'
      BY <1>6, <3>1, CallerStops DEF UnparkNext, StopDone, GoingToSleep, Waking
    <3> QED
      BY <3>2, <3>4, <3>5, <3>6, <3>7 DEF IdleInv
  <2>2. CASE th[a].todo = {} /\ GoTo(a, IF a \in Workers THEN "top" ELSE "exited")
    <3>1. /\ Moves(a) /\ th[a].pc = "unparkAll" /\ th'[a].searcher = th[a].searcher
          /\ th'[a].pc \in {"top", "exited"} /\ th'[a].ret = th[a].ret
      BY <1>6, <2>2, OnGoTo DEF UnparkNext, Keeps, Pc, Idling, Notifying
    <3>2. TypeInv'
      BY <1>6, <3>1 DEF UnparkNext, TypeInv, Moves
    <3>3. CallOk(a)'
      BY <1>6, <3>1 DEF CallOk, Waking, UnparkNext
    <3>4. CallsInOrder' /\ RoleHeld' /\ SearchingCounts'
      BY <1>6, <3>1, <3>3, CallerStep DEF UnparkNext, CallOk, Notifying
    <3>5. WakeUnderWay'
      BY <1>6, <3>1, <2>2, CallerWakes DEF UnparkNext, Marked, Settled, GoingToSleep, Waking
    <3>6. WorkCalls'
      BY <1>6, <3>1, CallerCalls DEF UnparkNext, Settled, GoingToSleep, Notifying
    <3>7. StopReaches'
      BY <1>6, <2>2, <3>1, CallerStops DEF UnparkNext, StopDone, GoingToSleep, Waking
    <3> QED
      BY <3>2, <3>4, <3>5, <3>6, <3>7 DEF IdleInv
  <2> QED
    BY <1>6, <2>1, <2>2 DEF UnparkNext
<1>7. ASSUME NEW a \in Producers, Produce(a) PROVE IdleInv'
  <2>1. /\ Moves(a) /\ th[a].pc = "free" /\ th'[a].pc = "commit"
        /\ th'[a].ret = "free" /\ th'[a].searcher = th[a].searcher
    <3>1. "commit" \in Pc /\ "free" \in Pc
      BY DEF Pc, Notifying
    <3>2. th[a].pc = "free" /\ Call(a, "commit", "free")
      BY <1>7 DEF Produce
    <3> QED
      BY <3>1, <3>2, OnCall DEF Keeps
  <2>2. TypeInv'
    BY <1>7, <2>1 DEF Produce, NewTask, TypeInv, Moves
  <2>3. CallOk(a)'
    BY <1>7, <2>1 DEF CallOk, Waking, Produce
  <2>4. CallsInOrder' /\ RoleHeld' /\ SearchingCounts'
    BY <1>7, <2>1, <2>3, CallerStep DEF Produce, CallOk, Notifying
  <2>5. WakeUnderWay'
    BY <1>7, <2>1, CallerWakes DEF Produce, Marked, Settled, GoingToSleep, Waking
  <2>6. WorkCalls'
    BY <1>7, <2>1, CallerCalls DEF Produce, Settled, GoingToSleep, Notifying
  <2>7. StopReaches'
    BY <1>7, <2>1, CallerStops DEF Produce, StopDone, GoingToSleep, Waking
  <2> QED
    BY <2>2, <2>4, <2>5, <2>6, <2>7 DEF IdleInv
<1>8. ASSUME NEW w \in Workers, RunPark(w) PROVE IdleInv'
  <2>1. /\ Moves(w) /\ th[w].pc = "run"
        /\ th'[w].pc \in {"run", "top"}
        /\ th'[w].searcher = th[w].searcher /\ th'[w].ret \in {th[w].ret}
    BY <1>8, OnGoTo, OnStay
    DEF RunPark, HandOff, TakeLocal, Pc, Idling, Notifying, Keeps
  <2>2. TypeInv'
    BY <1>8, <2>1 DEF RunPark, HandOff, TakeLocal, TypeInv, Moves
  <2>3. SearchingCounts'
    BY <1>8, <2>1, SameSeekers DEF RunPark, Seeks, SearcherOk
  <2>4. CallOk(w)'
    BY <1>8, <2>1 DEF RunPark, CallOk, Waking
  <2> QED
    BY <1>8, <2>1, <2>2, <2>3, <2>4, WorkerStep
    DEF RunPark, Waking, Marked, Settled, GoingToSleep, InDriver
<1>9. ASSUME NEW w \in Workers, RunFinish(w) PROVE IdleInv'
  <2>1. /\ Moves(w) /\ th[w].pc = "run"
        /\ th'[w].pc \in {"run", "top", "unparkAll"}
        /\ th'[w].searcher = th[w].searcher /\ th'[w].ret \in {th[w].ret}
    <3>0. th[w].pc = "run"
      BY <1>9 DEF RunFinish
    <3>1. CASE th' = [th EXCEPT ![w].pc = "unparkAll", ![w].todo = Workers]
      <4> DEFINE r == [th[w] EXCEPT !.pc = "unparkAll", !.todo = Workers]
      <4>1. "unparkAll" \in Pc
        BY DEF Pc
      <4>2. r \in Local
        BY <4>1, LocalFields DEF TypeInv
      <4>3. th' = [th EXCEPT ![w] = r]
        BY <3>1 DEF TypeInv
      <4> QED
        BY <3>0, <4>2, <4>3, OnSet DEF TypeInv, Local
    <3>2. CASE UNCHANGED th
      BY <3>0, <3>2, OnStay DEF Keeps, Pc, Idling, Notifying
    <3>3. CASE GoTo(w, "top")
      BY <3>0, <3>3, OnGoTo DEF Keeps, Pc, Idling, Notifying
    <3> QED
      BY <1>9, <3>1, <3>2, <3>3 DEF RunFinish, HandOff, TakeLocal
  <2>2. TypeInv'
    BY <1>9, <2>1 DEF RunFinish, HandOff, TakeLocal, TypeInv, Moves
  <2>3. SearchingCounts'
    BY <1>9, <2>1, SameSeekers DEF RunFinish, Seeks, SearcherOk
  <2>4. CallOk(w)'
    BY <1>9, <2>1 DEF RunFinish, CallOk, Waking
  <2> QED
    BY <1>9, <2>1, <2>2, <2>3, <2>4, WorkerStep
    DEF RunFinish, Waking, Marked, Settled, GoingToSleep, InDriver
<1>10. ASSUME NEW w \in Workers, RunSchedule(w) PROVE IdleInv'
  <2>1. /\ Moves(w) /\ th[w].pc = "run"
        /\ th'[w].pc \in {"run", "commit"}
        /\ th'[w].searcher = th[w].searcher /\ th'[w].ret \in {th[w].ret, "run"}
        /\ th'[w].pc = "commit" => th'[w].ret = "run"
    <3>0. th[w].pc = "run"
      BY <1>10 DEF RunSchedule
    <3>1. CASE UNCHANGED th
      BY <3>0, <3>1, OnStay DEF Keeps, Pc, Idling, Notifying
    <3>2. CASE Call(w, "commit", "run")
      <4>1. "commit" \in Pc /\ "run" \in Pc
        BY DEF Pc, Notifying
      <4> QED
        BY <3>0, <3>2, <4>1, OnCall DEF Keeps
    <3> QED
      BY <1>10, <3>1, <3>2 DEF RunSchedule, NewTask
  <2>2. TypeInv'
    BY <1>10, <2>1 DEF RunSchedule, NewTask, TypeInv, Moves
  <2>3. SearchingCounts'
    BY <1>10, <2>1, SameSeekers DEF RunSchedule, Seeks, SearcherOk
  <2>4. CallOk(w)'
    BY <1>10, <2>1 DEF RunSchedule, CallOk, Waking
  <2> QED
    BY <1>10, <2>1, <2>2, <2>3, <2>4, WorkerStep
    DEF RunSchedule, Waking, Marked, Settled, GoingToSleep, InDriver
<1>11. ASSUME NEW w \in Workers, Top(w) PROVE IdleInv'
  <2>1. /\ Moves(w) /\ th[w].pc = "top"
        /\ th'[w].pc \in {"maintain", "run", "search"}
        /\ th'[w].searcher = th[w].searcher /\ th'[w].ret \in {th[w].ret}
    BY <1>11, OnGoTo DEF Top, TakeLocal, Pc, Idling, Notifying, Keeps
  <2>2. TypeInv'
    BY <1>11, <2>1 DEF Top, TakeLocal, TypeInv, Moves
  <2>3. SearchingCounts'
    BY <1>11, <2>1, SameSeekers DEF Top, Seeks, SearcherOk
  <2>4. CallOk(w)'
    BY <1>11, <2>1 DEF Top, CallOk, Waking
  <2> QED
    BY <1>11, <2>1, <2>2, <2>3, <2>4, WorkerStep
    DEF Top, Waking, Marked, Settled, GoingToSleep, InDriver
<1>12. ASSUME NEW w \in Workers, Maintain(w) PROVE IdleInv'
  <2>1. /\ Moves(w) /\ th[w].pc = "maintain"
        /\ th'[w].pc \in {"poll", "placePolled"}
        /\ th'[w].searcher = th[w].searcher /\ th'[w].ret \in {th[w].ret}
    BY <1>12, OnGoTo DEF Maintain, Pc, Idling, Notifying, Keeps
  <2>2. TypeInv'
    BY <1>12, <2>1 DEF Maintain, TypeInv, Moves
  <2>3. SearchingCounts'
    BY <1>12, <2>1, SameSeekers DEF Maintain, Seeks, SearcherOk
  <2>4. CallOk(w)'
    BY <1>12, <2>1 DEF Maintain, CallOk, Waking
  <2>5. /\ keeper' = keeper \/ keeper \in {None, w}
        /\ th'[w].pc \in InDriver => keeper' = w
    <3>1. CASE keeper = None /\ keeper' = w
      BY <3>1
    <3>2. CASE GoTo(w, "placePolled") /\ keeper' = keeper
      <4>1. th'[w].pc = "placePolled"
        BY <3>2, OnGoTo DEF Pc
      <4> QED
        BY <3>2, <4>1 DEF InDriver
    <3> QED
      BY <1>12, <3>1, <3>2 DEF Maintain
  <2>6. /\ idle \ {w} \subseteq idle'
        /\ \A v \in Workers \ {w} : token'[v] = token[v]
    BY <1>12 DEF Maintain, TypeInv
  <2>7. th[w].pc \notin Waking /\ th'[w].pc \notin Marked
    BY <2>1 DEF Waking, Marked, Settled, GoingToSleep
  <2>8. stopping' = stopping
    BY <1>12 DEF Maintain
  <2> QED
    BY <2>1, <2>2, <2>3, <2>4, <2>5, <2>6, <2>7, <2>8, WorkerStep
<1>13. ASSUME NEW w \in Workers, Poll(w) PROVE IdleInv'
  <2>1. /\ Moves(w) /\ th[w].pc = "poll"
        /\ th'[w].pc \in {"pollRelease"}
        /\ th'[w].searcher = th[w].searcher /\ th'[w].ret \in {th[w].ret}
    BY <1>13, OnGoTo DEF Poll, DriverReturns, Pc, Idling, Notifying, Keeps
  <2>2. TypeInv'
    BY <1>13, <2>1 DEF Poll, DriverReturns, TypeInv, Moves
  <2>3. SearchingCounts'
    BY <1>13, <2>1, SameSeekers DEF Poll, Seeks, SearcherOk
  <2>4. CallOk(w)'
    BY <1>13, <2>1 DEF Poll, CallOk, Waking
  <2>5. /\ keeper' = keeper \/ keeper \in {None, w}
        /\ th'[w].pc \in InDriver => keeper' = w
    BY <1>13, <2>1 DEF Poll, RoleHeld, InDriver
  <2>6. /\ idle \ {w} \subseteq idle'
        /\ \A v \in Workers \ {w} : token'[v] = token[v]
    BY <1>13 DEF Poll, TypeInv
  <2>7. th[w].pc \notin Waking /\ th'[w].pc \notin Marked
    BY <2>1 DEF Waking, Marked, Settled, GoingToSleep
  <2>8. stopping' = stopping
    BY <1>13 DEF Poll
  <2> QED
    BY <2>1, <2>2, <2>3, <2>4, <2>5, <2>6, <2>7, <2>8, WorkerStep
<1>14. ASSUME NEW w \in Workers, PollRelease(w) PROVE IdleInv'
  <2>1. /\ Moves(w) /\ th[w].pc = "pollRelease"
        /\ th'[w].pc \in {"placePolled"}
        /\ th'[w].searcher = th[w].searcher /\ th'[w].ret \in {th[w].ret}
    BY <1>14, OnGoTo DEF PollRelease, Pc, Idling, Notifying, Keeps
  <2>2. TypeInv'
    BY <1>14, <2>1 DEF PollRelease, TypeInv, Moves
  <2>3. SearchingCounts'
    BY <1>14, <2>1, SameSeekers DEF PollRelease, Seeks, SearcherOk
  <2>4. CallOk(w)'
    BY <1>14, <2>1 DEF PollRelease, CallOk, Waking
  <2>5. /\ keeper' = keeper \/ keeper \in {None, w}
        /\ th'[w].pc \in InDriver => keeper' = w
    BY <1>14, <2>1 DEF PollRelease, RoleHeld, InDriver
  <2>6. /\ idle \ {w} \subseteq idle'
        /\ \A v \in Workers \ {w} : token'[v] = token[v]
    BY <1>14 DEF PollRelease, TypeInv
  <2>7. th[w].pc \notin Waking /\ th'[w].pc \notin Marked
    BY <2>1 DEF Waking, Marked, Settled, GoingToSleep
  <2>8. stopping' = stopping
    BY <1>14 DEF PollRelease
  <2> QED
    BY <2>1, <2>2, <2>3, <2>4, <2>5, <2>6, <2>7, <2>8, WorkerStep
<1>15. ASSUME NEW w \in Workers, PlacePolled(w) PROVE IdleInv'
  <2>1. /\ Moves(w) /\ th[w].pc = "placePolled"
        /\ th'[w].pc \in {"topPop", "notify"}
        /\ th'[w].searcher = th[w].searcher /\ th'[w].ret \in {th[w].ret, "topPop"}
        /\ th'[w].pc = "notify" => th'[w].ret = "topPop"
    <3>0. th[w].pc = "placePolled"
      BY <1>15 DEF PlacePolled
    <3>1. CASE GoTo(w, "topPop")
      BY <3>0, <3>1, OnGoTo DEF Keeps, Pc, Idling, Notifying
    <3>2. CASE Call(w, "notify", "topPop")
      <4>1. "notify" \in Pc /\ "topPop" \in Pc
        BY DEF Pc, Notifying
      <4> QED
        BY <3>0, <3>2, <4>1, OnCall DEF Keeps
    <3> QED
      BY <1>15, <3>1, <3>2 DEF PlacePolled, PlaceRest
  <2>2. TypeInv'
    BY <1>15, <2>1 DEF PlacePolled, PlaceRest, TypeInv, Moves
  <2>3. SearchingCounts'
    BY <1>15, <2>1, SameSeekers DEF PlacePolled, Seeks, SearcherOk
  <2>4. CallOk(w)'
    BY <1>15, <2>1 DEF PlacePolled, CallOk, Waking
  <2> QED
    BY <1>15, <2>1, <2>2, <2>3, <2>4, WorkerStep
    DEF PlacePolled, Waking, Marked, Settled, GoingToSleep, InDriver
<1>16. ASSUME NEW w \in Workers, TopPop(w) PROVE IdleInv'
  <2>1. /\ Moves(w) /\ th[w].pc = "topPop"
        /\ th'[w].pc \in {"run", "search"}
        /\ th'[w].searcher = th[w].searcher /\ th'[w].ret \in {th[w].ret}
    BY <1>16, OnGoTo
    DEF TopPop, PopSucceeds, PopFails, Pushing, TakeLocal, Pc, Idling,
        Notifying, Keeps
  <2>2. TypeInv'
    BY <1>16, <2>1
    DEF TopPop, PopSucceeds, PopFails, Pushing, TakeLocal, TypeInv, Moves
  <2>3. SearchingCounts'
    BY <1>16, <2>1, SameSeekers DEF TopPop, Seeks, SearcherOk
  <2>4. CallOk(w)'
    BY <1>16, <2>1 DEF TopPop, CallOk, Waking
  <2> QED
    BY <1>16, <2>1, <2>2, <2>3, <2>4, WorkerStep
    DEF TopPop, Waking, Marked, Settled, GoingToSleep, InDriver
<1>17. ASSUME NEW w \in Workers, Search(w) PROVE IdleInv'
  <2>0. ~th[w].searcher /\ "searchPop" \in Pc
    BY <1>17 DEF Search, SearcherOk, Pc
  <2>1. /\ Moves(w) /\ th[w].pc = "search" /\ th'[w].pc = "searchPop"
        /\ th'[w].ret = th[w].ret
        /\ th'[w].searcher = (searching < SearchLimit)
    <3> DEFINE joins == searching < SearchLimit
    <3>1. th' = [th EXCEPT ![w].pc = "searchPop", ![w].searcher = joins,
                           ![w].found = FALSE]
          /\ joins \in BOOLEAN /\ th[w].pc = "search"
      BY <1>17 DEF Search
    <3> HIDE DEF joins
    <3> DEFINE r == [th[w] EXCEPT !.pc = "searchPop", !.searcher = joins, !.found = FALSE]
    <3>2. r \in Local
      BY <2>0, <3>1, LocalFields DEF TypeInv
    <3>3. th' = [th EXCEPT ![w] = r]
      BY <3>1 DEF TypeInv
    <3>4. Moves(w) /\ th'[w].pc = "searchPop" /\ th'[w].ret = th[w].ret
          /\ th'[w].searcher = joins
      BY <3>2, <3>3, OnSet DEF TypeInv, Local
    <3> QED
      BY <3>1, <3>4 DEF joins
  <2>2. TypeInv'
    BY <1>17, <2>1 DEF Search, TypeInv, Moves
  <2>3. SearchingCounts'
    <3>1. CASE searching < SearchLimit
      BY <1>17, <2>0, <2>1, <3>1, OneMoreSeeker DEF Search, Seeks, SearcherOk
    <3>2. CASE ~(searching < SearchLimit)
      BY <1>17, <2>0, <2>1, <3>2, SameSeekers DEF Search, Seeks, SearcherOk
    <3> QED
      BY <3>1, <3>2
  <2>4. CallOk(w)'
    BY <1>17, <2>1 DEF CallOk, Waking
  <2> QED
    BY <1>17, <2>1, <2>2, <2>3, <2>4, WorkerStep
    DEF Search, Waking, Marked, Settled, GoingToSleep, InDriver
<1>18. ASSUME NEW w \in Workers, SearchPop(w) PROVE IdleInv'
  <2>1. /\ Moves(w) /\ th[w].pc = "searchPop"
        /\ th'[w].pc \in {"searchSteal", "searchLeave"}
        /\ th'[w].searcher = th[w].searcher /\ th'[w].ret \in {th[w].ret}
    <3>1. "searchSteal" \in Pc /\ "searchLeave" \in Pc
      BY DEF Pc
    <3>2. /\ th[w].pc = "searchPop"
          /\ \/ Got(w, "searchLeave")
             \/ GoTo(w, "searchSteal")
             \/ GoTo(w, "searchLeave")
      BY <1>18 DEF SearchPop, PopAt
    <3> QED
      BY <3>1, <3>2, OnGoTo, OnGot DEF Keeps
  <2>2. TypeInv'
    BY <1>18, <2>1
    DEF SearchPop, PopAt, PopSucceeds, PopFails, Pushing, TypeInv, Moves
  <2>3. SearchingCounts'
    BY <1>18, <2>1, SameSeekers DEF SearchPop, PopAt, Seeks, SearcherOk
  <2>4. CallOk(w)'
    BY <1>18, <2>1 DEF SearchPop, CallOk, Waking
  <2> QED
    BY <1>18, <2>1, <2>2, <2>3, <2>4, WorkerStep
    DEF SearchPop, PopAt, Waking, Marked, Settled, GoingToSleep, InDriver
<1>19. ASSUME NEW w \in Workers, SearchSteal(w) PROVE IdleInv'
  <2>1. /\ Moves(w) /\ th[w].pc = "searchSteal"
        /\ th'[w].pc \in {"searchAgain", "searchLeave"}
        /\ th'[w].searcher = th[w].searcher /\ th'[w].ret \in {th[w].ret}
    BY <1>19, OnGoTo, OnGot
    DEF SearchSteal, Steal, Pc, Idling, Notifying, Keeps
  <2>2. TypeInv'
    BY <1>19, <2>1 DEF SearchSteal, Steal, TypeInv, Moves
  <2>3. SearchingCounts'
    BY <1>19, <2>1, SameSeekers DEF SearchSteal, Seeks, SearcherOk
  <2>4. CallOk(w)'
    BY <1>19, <2>1 DEF SearchSteal, CallOk, Waking
  <2> QED
    BY <1>19, <2>1, <2>2, <2>3, <2>4, WorkerStep
    DEF SearchSteal, Waking, Marked, Settled, GoingToSleep, InDriver
<1>20. ASSUME NEW w \in Workers, SearchAgain(w) PROVE IdleInv'
  <2>1. /\ Moves(w) /\ th[w].pc = "searchAgain"
        /\ th'[w].pc \in {"searchLeave"}
        /\ th'[w].searcher = th[w].searcher /\ th'[w].ret \in {th[w].ret}
    BY <1>20, OnGoTo, OnGot
    DEF SearchAgain, PopAt, PopSucceeds, PopFails, Pushing, Pc, Idling,
        Notifying, Keeps
  <2>2. TypeInv'
    BY <1>20, <2>1
    DEF SearchAgain, PopAt, PopSucceeds, PopFails, Pushing, TypeInv, Moves
  <2>3. SearchingCounts'
    BY <1>20, <2>1, SameSeekers DEF SearchAgain, PopAt, Seeks, SearcherOk
  <2>4. CallOk(w)'
    BY <1>20, <2>1 DEF SearchAgain, CallOk, Waking
  <2> QED
    BY <1>20, <2>1, <2>2, <2>3, <2>4, WorkerStep
    DEF SearchAgain, PopAt, Waking, Marked, Settled, GoingToSleep, InDriver
<1>21. ASSUME NEW w \in Workers, SearchLeave(w) PROVE IdleInv'
  <2>0. {"leftovers", "run", "noWork"} \subseteq Pc
    BY DEF Pc
  <2>1. /\ Moves(w) /\ th[w].pc = "searchLeave" /\ th'[w].pc \in {"leftovers", "run", "noWork"}
        /\ th'[w].ret = th[w].ret /\ ~th'[w].searcher
    <3> DEFINE p == IF th[w].found THEN AfterFind(w, th[w].searcher /\ searching = 1)
                    ELSE "noWork"
    <3>1. p \in {"leftovers", "run", "noWork"}
      BY DEF AfterFind
    <3>2. th' = [th EXCEPT ![w].searcher = FALSE, ![w].found = FALSE, ![w].pc = p]
      BY <1>21 DEF SearchLeave
    <3> HIDE DEF p
    <3> QED
      BY <1>21, <2>0, <3>1, <3>2 DEF SearchLeave, Moves, TypeInv, Local
  <2>2. TypeInv'
    BY <1>21, <2>1 DEF SearchLeave, TypeInv, Moves
  <2>3. SearchingCounts'
    <3>1. CASE th[w].searcher
      BY <1>21, <2>1, <3>1, OneSeekerLess DEF SearchLeave, Seeks, SearcherOk
    <3>2. CASE ~th[w].searcher
      BY <1>21, <2>1, <3>2, SameSeekers DEF SearchLeave, Seeks, SearcherOk
    <3> QED
      BY <3>1, <3>2
  <2>4. CallOk(w)'
    BY <1>21, <2>1 DEF CallOk, Waking
  <2> QED
    BY <1>21, <2>1, <2>2, <2>3, <2>4, WorkerStep
    DEF SearchLeave, Waking, Marked, Settled, GoingToSleep, InDriver
<1>22. ASSUME NEW w \in Workers, Leftovers(w) PROVE IdleInv'
  <2>1. /\ Moves(w) /\ th[w].pc = "leftovers"
        /\ th'[w].pc \in {"rampUp", "run"}
        /\ th'[w].searcher = th[w].searcher /\ th'[w].ret \in {th[w].ret}
    BY <1>22, OnGoTo DEF Leftovers, Pc, Idling, Notifying, Keeps
  <2>2. TypeInv'
    BY <1>22, <2>1 DEF Leftovers, TypeInv, Moves
  <2>3. SearchingCounts'
    BY <1>22, <2>1, SameSeekers DEF Leftovers, Seeks, SearcherOk
  <2>4. CallOk(w)'
    BY <1>22, <2>1 DEF Leftovers, CallOk, Waking
  <2> QED
    BY <1>22, <2>1, <2>2, <2>3, <2>4, WorkerStep
    DEF Leftovers, Waking, Marked, Settled, GoingToSleep, InDriver
<1>23. ASSUME NEW w \in Workers, RampUp(w) PROVE IdleInv'
  <2>1. /\ Moves(w) /\ th[w].pc = "rampUp"
        /\ th'[w].pc \in {"notify", "run", "rampUpKeeper"}
        /\ th'[w].searcher = th[w].searcher /\ th'[w].ret \in {th[w].ret, "run"}
        /\ th'[w].pc = "notify" => th'[w].ret = "run"
    <3>0. th[w].pc = "rampUp"
      BY <1>23 DEF RampUp
    <3>1. CASE Call(w, "notify", "run")
      <4>1. "notify" \in Pc /\ "run" \in Pc
        BY DEF Pc, Notifying
      <4> QED
        BY <3>0, <3>1, <4>1, OnCall DEF Keeps
    <3>2. CASE GoTo(w, "run")
      BY <3>0, <3>2, OnGoTo DEF Keeps, Pc, Idling, Notifying
    <3>3. CASE GoTo(w, "rampUpKeeper")
      BY <3>0, <3>3, OnGoTo DEF Keeps, Pc, Idling, Notifying
    <3> QED
      BY <1>23, <3>1, <3>2, <3>3 DEF RampUp
  <2>2. TypeInv'
    BY <1>23, <2>1 DEF RampUp, TypeInv, Moves
  <2>3. SearchingCounts'
    BY <1>23, <2>1, SameSeekers DEF RampUp, Seeks, SearcherOk
  <2>4. CallOk(w)'
    BY <1>23, <2>1 DEF RampUp, CallOk, Waking
  <2> QED
    BY <1>23, <2>1, <2>2, <2>3, <2>4, WorkerStep
    DEF RampUp, Waking, Marked, Settled, GoingToSleep, InDriver
<1>24. ASSUME NEW w \in Workers, RampUpKeeper(w) PROVE IdleInv'
  <2>1. /\ Moves(w) /\ th[w].pc = "rampUpKeeper"
        /\ th'[w].pc \in {"notify", "rampUpDeadline"}
        /\ th'[w].searcher = th[w].searcher /\ th'[w].ret \in {th[w].ret, "run"}
        /\ th'[w].pc = "notify" => th'[w].ret = "run"
        /\ th'[w].pc = "rampUpDeadline" => th'[w].target \in Workers
    <3>0. th[w].pc = "rampUpKeeper"
      BY <1>24 DEF RampUpKeeper
    <3>1. CASE Call(w, "notify", "run")
      <4>1. "notify" \in Pc /\ "run" \in Pc
        BY DEF Pc, Notifying
      <4> QED
        BY <3>0, <3>1, <4>1, OnCall DEF Keeps
    <3>2. CASE keeper # None /\ th' = [th EXCEPT ![w].pc = "rampUpDeadline", ![w].target = keeper]
      <4>1. "rampUpDeadline" \in Pc /\ keeper \in Workers
        BY <3>2 DEF Pc, TypeInv
      <4> DEFINE r == [th[w] EXCEPT !.pc = "rampUpDeadline", !.target = keeper]
      <4>2. th[w] \in Local
        BY DEF TypeInv
      <4>3. /\ r \in Local /\ r.pc = "rampUpDeadline" /\ r.target = keeper
            /\ r.searcher = th[w].searcher /\ r.ret = th[w].ret
        BY <4>1, <4>2 DEF Local
      <4>4. th' = [th EXCEPT ![w] = r]
        BY <3>2
      <4> HIDE DEF r
      <4> QED
        BY <3>0, <4>1, <4>3, <4>4, OnSet
    <3> QED
      BY <1>24, <3>1, <3>2 DEF RampUpKeeper
  <2>2. TypeInv'
    BY <1>24, <2>1 DEF RampUpKeeper, TypeInv, Moves
  <2>3. SearchingCounts'
    BY <1>24, <2>1, SameSeekers DEF RampUpKeeper, Seeks, SearcherOk
  <2>4. CallOk(w)'
    BY <1>24, <2>1 DEF RampUpKeeper, CallOk, Waking
  <2> QED
    BY <1>24, <2>1, <2>2, <2>3, <2>4, WorkerStep
    DEF RampUpKeeper, Waking, Marked, Settled, GoingToSleep, InDriver
<1>25. ASSUME NEW w \in Workers, RampUpDeadline(w) PROVE IdleInv'
  <2>1. /\ Moves(w) /\ th[w].pc = "rampUpDeadline"
        /\ th'[w].pc \in {"unparkDriver", "run"}
        /\ th'[w].searcher = th[w].searcher /\ th'[w].ret \in {th[w].ret, "run"}
        /\ th'[w].pc = "unparkDriver" => th'[w].target = th[w].target
    <3>0. th[w].pc = "rampUpDeadline"
      BY <1>25 DEF RampUpDeadline
    <3>1. CASE Call(w, "unparkDriver", "run")
      <4>1. "unparkDriver" \in Pc /\ "run" \in Pc
        BY DEF Pc, Notifying
      <4> QED
        BY <3>0, <3>1, <4>1, OnCall DEF Keeps
    <3>2. CASE th' = [th EXCEPT ![w].pc = "run", ![w].target = None]
      <4> DEFINE r == [th[w] EXCEPT !.pc = "run", !.target = None]
      <4>1. "run" \in Pc
        BY DEF Pc
      <4>2. r \in Local
        BY <4>1, LocalFields DEF TypeInv
      <4>3. th' = [th EXCEPT ![w] = r]
        BY <3>2 DEF TypeInv
      <4> QED
        BY <3>0, <4>2, <4>3, OnSet DEF TypeInv, Local
    <3> QED
      BY <1>25, <3>1, <3>2 DEF RampUpDeadline
  <2>2. TypeInv'
    BY <1>25, <2>1 DEF RampUpDeadline, TypeInv, Moves
  <2>3. SearchingCounts'
    BY <1>25, <2>1, SameSeekers DEF RampUpDeadline, Seeks, SearcherOk
  <2>4. CallOk(w)'
    BY <1>25, <2>1 DEF RampUpDeadline, CallOk, Waking
  <2> QED
    BY <1>25, <2>1, <2>2, <2>3, <2>4, WorkerStep
    DEF RampUpDeadline, Waking, Marked, Settled, GoingToSleep, InDriver
<1>26. ASSUME NEW w \in Workers, NoWorkStopping(w) PROVE IdleInv'
  <2>1. /\ Moves(w) /\ th[w].pc = "noWork"
        /\ th'[w].pc \in {"run", "exited", "mark"}
        /\ th'[w].searcher = th[w].searcher /\ th'[w].ret \in {th[w].ret}
    BY <1>26, OnGoTo DEF NoWorkStopping, Pc, Idling, Notifying, Keeps
  <2>2. TypeInv'
    BY <1>26, <2>1 DEF NoWorkStopping, TypeInv, Moves
  <2>3. SearchingCounts'
    BY <1>26, <2>1, SameSeekers DEF NoWorkStopping, Seeks, SearcherOk
  <2>4. CallOk(w)'
    BY <1>26, <2>1 DEF NoWorkStopping, CallOk, Waking
  <2> QED
    BY <1>26, <2>1, <2>2, <2>3, <2>4, WorkerStep
    DEF NoWorkStopping, Waking, Marked, Settled, GoingToSleep, InDriver
<1>27. ASSUME NEW w \in Workers, NoWork(w) PROVE IdleInv'
  <2>0. ~th[w].searcher
    BY <1>27 DEF NoWork, SearcherOk
  <2>1. /\ Moves(w) /\ th[w].pc = "noWork" /\ th'[w].ret = th[w].ret
        /\ th'[w].searcher = th[w].searcher
        /\ \/ th'[w].pc = "spinning" /\ searching' = searching + 1
           \/ th'[w].pc = "mark" /\ searching' = searching
    BY <1>27, OnGoTo DEF NoWork, Keeps, Pc, Idling
  <2>2. TypeInv'
    BY <1>27, <2>1 DEF NoWork, TypeInv, Moves
  <2>3. SearchingCounts'
    <3>1. CASE th'[w].pc = "spinning"
      BY <1>27, <2>0, <2>1, <3>1, OneMoreSeeker DEF Seeks, SearcherOk
    <3>2. CASE th'[w].pc = "mark"
      BY <1>27, <2>0, <2>1, <3>2, SameSeekers DEF Seeks, SearcherOk
    <3> QED
      BY <2>1, <3>1, <3>2
  <2>4. CallOk(w)'
    BY <1>27, <2>1 DEF CallOk, Waking
  <2> QED
    BY <1>27, <2>1, <2>2, <2>3, <2>4, WorkerStep
    DEF NoWork, Waking, Marked, Settled, GoingToSleep, InDriver
<1>28. ASSUME NEW w \in Workers, Spin(w) PROVE IdleInv'
  <2>1. /\ Moves(w) /\ th[w].pc = "spinning"
        /\ th'[w].pc \in {"spinLeave"}
        /\ th'[w].searcher = th[w].searcher /\ th'[w].ret \in {th[w].ret}
    BY <1>28, OnGoTo, OnGot
    DEF Spin, TakeLocal, PopSucceeds, Steal, Pc, Idling, Notifying, Keeps
  <2>2. TypeInv'
    BY <1>28, <2>1 DEF Spin, TakeLocal, PopSucceeds, Steal, TypeInv, Moves
  <2>3. SearchingCounts'
    BY <1>28, <2>1, SameSeekers DEF Spin, Seeks, SearcherOk
  <2>4. CallOk(w)'
    BY <1>28, <2>1 DEF Spin, CallOk, Waking
  <2> QED
    BY <1>28, <2>1, <2>2, <2>3, <2>4, WorkerStep
    DEF Spin, Waking, Marked, Settled, GoingToSleep, InDriver
<1>29. ASSUME NEW w \in Workers, SpinLeave(w) PROVE IdleInv'
  <2>0. ~th[w].searcher /\ "spinRecheck" \in Pc
    BY <1>29 DEF SpinLeave, SearcherOk, Pc
  <2>1. /\ Moves(w) /\ th[w].pc = "spinLeave" /\ th'[w].pc = "spinRecheck"
        /\ th'[w].ret = th[w].ret /\ th'[w].searcher = th[w].searcher
    <3> DEFINE l == (searching = 1)
    <3>1. th' = [th EXCEPT ![w].pc = "spinRecheck", ![w].last = l]
          /\ l \in BOOLEAN /\ th[w].pc = "spinLeave"
      BY <1>29 DEF SpinLeave
    <3> HIDE DEF l
    <3> DEFINE r == [th[w] EXCEPT !.pc = "spinRecheck", !.last = l]
    <3>2. r \in Local
      BY <2>0, <3>1, LocalFields DEF TypeInv
    <3>3. th' = [th EXCEPT ![w] = r]
      BY <3>1 DEF TypeInv
    <3>4. th[w] \in Local
      BY DEF TypeInv
    <3>5. r.pc = "spinRecheck" /\ r.ret = th[w].ret /\ r.searcher = th[w].searcher
      BY <3>4 DEF Local
    <3> HIDE DEF r
    <3>6. Moves(w) /\ th'[w] = r
      BY <3>2, <3>3, OnSet
    <3> QED
      BY <3>1, <3>5, <3>6
  <2>2. TypeInv'
    BY <1>29, <2>1 DEF SpinLeave, TypeInv, Moves
  <2>3. SearchingCounts'
    BY <1>29, <2>0, <2>1, OneSeekerLess DEF SpinLeave, Seeks, SearcherOk
  <2>4. CallOk(w)'
    BY <1>29, <2>1 DEF CallOk, Waking
  <2> QED
    BY <1>29, <2>1, <2>2, <2>3, <2>4, WorkerStep
    DEF SpinLeave, Waking, Marked, Settled, GoingToSleep, InDriver
<1>30. ASSUME NEW w \in Workers, SpinRecheck(w) PROVE IdleInv'
  <2>1. /\ Moves(w) /\ th[w].pc = "spinRecheck"
        /\ th'[w].pc \in {"run", "leftovers", "mark"}
        /\ th'[w].searcher = th[w].searcher /\ th'[w].ret \in {th[w].ret}
    <3>0. th[w].pc = "spinRecheck" /\ {"run", "leftovers", "mark"} \subseteq Pc
      BY <1>30 DEF SpinRecheck, Pc, Idling
    <3>1. PICK p \in {"run", "leftovers", "mark"} :
             th' = [th EXCEPT ![w].pc = p, ![w].found = FALSE, ![w].last = FALSE]
      BY <1>30 DEF SpinRecheck, AfterFind
    <3> DEFINE r == [th[w] EXCEPT !.pc = p, !.found = FALSE, !.last = FALSE]
    <3>2. r \in Local
      BY <3>0, LocalFields DEF TypeInv
    <3>3. th' = [th EXCEPT ![w] = r]
      BY <3>1 DEF TypeInv
    <3> QED
      BY <3>0, <3>2, <3>3, OnSet DEF TypeInv, Local
  <2>2. TypeInv'
    BY <1>30, <2>1
    DEF SpinRecheck, AfterFind, TakeLocal, PopSucceeds, PopFails, Pushing,
        TypeInv, Moves
  <2>3. SearchingCounts'
    BY <1>30, <2>1, SameSeekers DEF SpinRecheck, Seeks, SearcherOk
  <2>4. CallOk(w)'
    BY <1>30, <2>1 DEF SpinRecheck, CallOk, Waking
  <2> QED
    BY <1>30, <2>1, <2>2, <2>3, <2>4, WorkerStep
    DEF SpinRecheck, Waking, Marked, Settled, GoingToSleep, InDriver
<1>31. ASSUME NEW w \in Workers, Mark(w) PROVE IdleInv'
  <2>1. /\ Moves(w) /\ th[w].pc = "mark" /\ th'[w].pc = "recheck"
        /\ th'[w].searcher = th[w].searcher /\ th'[w].ret = th[w].ret
    BY <1>31, OnGoTo DEF Mark, Keeps, Pc, Idling
  <2>2. TypeInv'
    BY <1>31, <2>1 DEF Mark, TypeInv, Moves
  <2>3. SearchingCounts'
    BY <1>31, <2>1, SameSeekers DEF Mark, Seeks, SearcherOk
  <2>4. CallsInOrder'
    BY <1>31, <2>1 DEF Mark, CallOk, CallsInOrder, Moves, Waking
  <2>5. RoleHeld'
    BY <1>31, <2>1 DEF Mark, RoleHeld, Moves, InDriver
  <2>6. WakeUnderWay'
    <3>1. \A a \in Threads : th[a].pc \in Waking => th'[a] = th[a]
      BY <2>1 DEF Moves, Waking
    <3>2. \A v \in Workers : th'[v].pc \in Marked => v = w \/ th[v].pc \in Marked
      BY <2>1 DEF Moves
    <3> QED
      BY <1>31, <2>1, <3>1, <3>2 DEF Mark, WakeUnderWay, Marked, Settled
  <2>7. WorkCalls'
    BY <2>1 DEF WorkCalls, Settled, GoingToSleep
  <2>8. StopReaches'
    <3>1. \A a \in Stoppers, v \in Workers : StopDone(a, v)' => StopDone(a, v)
      BY <2>1 DEF Moves, StopDone
    <3>2. \A v \in Workers \ {w} : th'[v] = th[v]
      BY <2>1 DEF Moves
    <3> QED
      BY <1>31, <2>1, <3>1, <3>2 DEF Mark, StopReaches, GoingToSleep
  <2> QED
    BY <2>2, <2>3, <2>4, <2>5, <2>6, <2>7, <2>8 DEF IdleInv
<1>32. ASSUME NEW w \in Workers, Recheck(w) PROVE IdleInv'
  <2>1. /\ Moves(w) /\ th[w].pc = "recheck"
        /\ th'[w].searcher = th[w].searcher /\ th'[w].ret = th[w].ret
        /\ \/ th'[w].pc = "unmark"
           \/ th'[w].pc = "sleep" /\ PopFails /\ queue' = queue
    BY <1>32, OnGoTo DEF Recheck, Keeps, Pc, Idling
  <2>2. TypeInv'
    BY <1>32, <2>1 DEF Recheck, TakeLocal, PopSucceeds, TypeInv, Moves
  <2>3. SearchingCounts'
    BY <1>32, <2>1, SameSeekers DEF Recheck, Seeks, SearcherOk
  <2>4. CallsInOrder'
    BY <1>32, <2>1 DEF Recheck, CallOk, CallsInOrder, Moves, Waking
  <2>5. RoleHeld'
    BY <1>32, <2>1 DEF Recheck, RoleHeld, Moves, InDriver
  <2>6. WakeUnderWay'
    <3>1. \A a \in Threads : th[a].pc \in Waking => th'[a] = th[a]
      BY <2>1 DEF Moves, Waking
    <3>2. \A v \in Workers : th'[v].pc \in Marked => v = w \/ th[v].pc \in Marked
      BY <2>1 DEF Moves
    <3> QED
      BY <1>32, <2>1, <3>1, <3>2 DEF Recheck, WakeUnderWay, Marked, Settled
  <2>7. WorkCalls'
    <3>1. CASE th'[w].pc = "unmark"
      BY <3>1 DEF WorkCalls, Settled, GoingToSleep
    <3>2. CASE PopFails /\ queue' = queue
      <4>1. CASE queue = 0
        BY <3>2, <4>1 DEF WorkCalls
      <4>2. CASE Pushing
        <5>1. PICK a \in Threads : th[a].pc = "commit"
          BY <4>2 DEF Pushing
        <5>2. th'[a].pc = "commit"
          BY <2>1, <5>1 DEF Moves
        <5> QED
          BY <5>2 DEF WorkCalls, Notifying
      <4> QED
        BY <3>2, <4>1, <4>2 DEF PopFails
    <3> QED
      BY <2>1, <3>1, <3>2
  <2>8. StopReaches'
    <3>1. \A a \in Stoppers, v \in Workers : StopDone(a, v)' => StopDone(a, v)
      BY <2>1 DEF Moves, StopDone
    <3>2. \A v \in Workers \ {w} : th'[v] = th[v]
      BY <2>1 DEF Moves
    <3> QED
      BY <1>32, <2>1, <3>1, <3>2 DEF Recheck, StopReaches, GoingToSleep
  <2> QED
    BY <2>2, <2>3, <2>4, <2>5, <2>6, <2>7, <2>8 DEF IdleInv
<1>33. ASSUME NEW w \in Workers, Unmark(w) PROVE IdleInv'
  <2>1. /\ Moves(w) /\ th[w].pc = "unmark"
        /\ th'[w].pc \in {"run"}
        /\ th'[w].searcher = th[w].searcher /\ th'[w].ret \in {th[w].ret}
    BY <1>33, OnGoTo DEF Unmark, Pc, Idling, Notifying, Keeps
  <2>2. TypeInv'
    BY <1>33, <2>1 DEF Unmark, TypeInv, Moves
  <2>3. SearchingCounts'
    BY <1>33, <2>1, SameSeekers DEF Unmark, Seeks, SearcherOk
  <2>4. CallOk(w)'
    BY <1>33, <2>1 DEF Unmark, CallOk, Waking
  <2>5. /\ keeper' = keeper \/ keeper \in {None, w}
        /\ th'[w].pc \in InDriver => keeper' = w
    BY <1>33, <2>1 DEF Unmark, RoleHeld, InDriver
  <2>6. /\ idle \ {w} \subseteq idle'
        /\ \A v \in Workers \ {w} : token'[v] = token[v]
    BY <1>33 DEF Unmark, TypeInv
  <2>7. th[w].pc \notin Waking /\ th'[w].pc \notin Marked
    BY <2>1 DEF Waking, Marked, Settled, GoingToSleep
  <2>8. stopping' = stopping
    BY <1>33 DEF Unmark
  <2> QED
    BY <2>1, <2>2, <2>3, <2>4, <2>5, <2>6, <2>7, <2>8, WorkerStep
<1>34. ASSUME NEW w \in Workers, Sleep(w) PROVE IdleInv'
  <2>0. "claim" \in Pc
    BY DEF Pc, Idling
  <2>1. /\ Moves(w) /\ th[w].pc = "sleep" /\ th'[w].pc = "claim"
        /\ th'[w].searcher = th[w].searcher /\ th'[w].ret = th[w].ret
        /\ th'[w].sawStop = stopping
    <3> DEFINE r == [th[w] EXCEPT !.pc = "claim", !.sawStop = stopping]
    <3>1. th[w] \in Local /\ stopping \in BOOLEAN
      BY DEF TypeInv
    <3>2. /\ r \in Local /\ r.pc = "claim" /\ r.sawStop = stopping
          /\ r.searcher = th[w].searcher /\ r.ret = th[w].ret
      BY <2>0, <3>1 DEF Local
    <3>3. th[w].pc = "sleep" /\ th' = [th EXCEPT ![w] = r]
      BY <1>34 DEF Sleep
    <3> HIDE DEF r
    <3> QED
      BY <3>2, <3>3, OnSet
  <2>2. TypeInv'
    BY <1>34, <2>1 DEF Sleep, TypeInv, Moves
  <2>3. SearchingCounts'
    BY <1>34, <2>1, SameSeekers DEF Sleep, Seeks, SearcherOk
  <2>4. CallsInOrder'
    BY <1>34, <2>1 DEF Sleep, CallOk, CallsInOrder, Moves, Waking
  <2>5. RoleHeld'
    BY <1>34, <2>1 DEF Sleep, RoleHeld, Moves, InDriver
  <2>6. WakeUnderWay'
    <3>1. \A a \in Threads : th[a].pc \in Waking => th'[a] = th[a]
      BY <2>1 DEF Moves, Waking
    <3>2. \A v \in Workers : th'[v].pc \in Marked => th[v].pc \in Marked
      BY <2>1 DEF Moves, Marked, Settled
    <3>3. UNCHANGED <<idle, token>>
      BY <1>34 DEF Sleep
    <3> QED
      BY <3>1, <3>2, <3>3 DEF WakeUnderWay
  <2>7. WorkCalls'
    <3>1. \A a \in Threads : th[a].pc \in Notifying => th'[a] = th[a]
      BY <2>1 DEF Moves, Notifying
    <3>2. \A v \in Workers : th'[v].pc \in Settled => th[v].pc \in Settled
      BY <2>1 DEF Moves, Settled
    <3> QED
      BY <1>34, <3>1, <3>2 DEF Sleep, WorkCalls
  <2>8. StopReaches'
    <3>1. \A a \in Stoppers, v \in Workers : StopDone(a, v)' => StopDone(a, v)
      BY <2>1 DEF Moves, StopDone
    <3>2. \A v \in Workers \ {w} : th'[v] = th[v]
      BY <2>1 DEF Moves
    <3>3. stopping' = stopping /\ token' = token /\ stopping \in BOOLEAN
      BY <1>34 DEF Sleep, TypeInv
    <3> SUFFICES ASSUME NEW a \in Stoppers, NEW v \in Workers, StopDone(a, v)'
                 PROVE  /\ stopping'
                        /\ th'[v].pc \in GoingToSleep /\ ~th'[v].sawStop => token'[v]
      BY DEF StopReaches
    <3>4. StopDone(a, v) /\ stopping
      BY <3>1 DEF StopReaches
    <3>5. CASE v = w
      BY <2>1, <3>3, <3>4, <3>5
    <3>6. CASE v # w
      BY <3>2, <3>3, <3>4, <3>6 DEF StopReaches
    <3> QED
      BY <3>5, <3>6
  <2> QED
    BY <2>2, <2>3, <2>4, <2>5, <2>6, <2>7, <2>8 DEF IdleInv
<1>35. ASSUME NEW w \in Workers, Claim(w) PROVE IdleInv'
  <2>1. /\ Moves(w) /\ th[w].pc = "claim"
        /\ th'[w].pc \in {"scan", "parked"}
        /\ Keeps(w) /\ th'[w].ret = th[w].ret
    BY <1>35, OnGoTo DEF Claim, Pc, Idling, Notifying
  <2>2. TypeInv'
    BY <1>35, <2>1 DEF Claim, TypeInv, Moves
  <2>3. /\ keeper' = keeper \/ keeper = None
        /\ th'[w].pc \in InDriver => keeper' = w
    <3>1. CASE keeper = None /\ keeper' = w
      BY <3>1
    <3>2. CASE GoTo(w, "parked") /\ keeper' = keeper
      <4>1. th'[w].pc = "parked"
        BY <3>2, OnGoTo DEF Pc, Idling
      <4> QED
        BY <3>2, <4>1 DEF InDriver
    <3> QED
      BY <1>35, <3>1, <3>2 DEF Claim
  <2>4. th[w].pc \in GoingToSleep /\ th'[w].pc \in GoingToSleep
    BY <2>1 DEF GoingToSleep
  <2>5. UNCHANGED <<queue, idle, searching, token, stopping>>
    BY <1>35 DEF Claim
  <2> QED
    BY <2>1, <2>2, <2>3, <2>4, <2>5, SleeperStep
<1>36. ASSUME NEW w \in Workers, Scan(w) PROVE IdleInv'
  <2>1. /\ Moves(w) /\ th[w].pc = "scan"
        /\ th'[w].pc \in {"readRampUp"}
        /\ Keeps(w) /\ th'[w].ret = th[w].ret
    BY <1>36, OnGoTo DEF Scan, Pc, Idling, Notifying
  <2>2. TypeInv'
    BY <1>36, <2>1 DEF Scan, TypeInv, Moves
  <2>3. /\ keeper' = keeper \/ keeper = None
        /\ th'[w].pc \in InDriver => keeper' = w
    BY <1>36, <2>1 DEF Scan, RoleHeld, InDriver
  <2>4. th[w].pc \in GoingToSleep /\ th'[w].pc \in GoingToSleep
    BY <2>1 DEF GoingToSleep
  <2>5. UNCHANGED <<queue, idle, searching, token, stopping>>
    BY <1>36 DEF Scan
  <2> QED
    BY <2>1, <2>2, <2>3, <2>4, <2>5, SleeperStep
<1>37. ASSUME NEW w \in Workers, ReadRampUp(w) PROVE IdleInv'
  <2>1. /\ Moves(w) /\ th[w].pc = "readRampUp"
        /\ th'[w].pc \in {"publish"}
        /\ Keeps(w) /\ th'[w].ret = th[w].ret
    <3> DEFINE t == (rampUp # "none")
    <3>1. th' = [th EXCEPT ![w].pc = "publish", ![w].timed = t]
          /\ t \in BOOLEAN /\ th[w].pc = "readRampUp" /\ "publish" \in Pc
      BY <1>37 DEF ReadRampUp, Pc, Idling
    <3> HIDE DEF t
    <3> DEFINE r == [th[w] EXCEPT !.pc = "publish", !.timed = t]
    <3>2. r \in Local
      BY <3>1, LocalFields DEF TypeInv
    <3>3. th' = [th EXCEPT ![w] = r]
      BY <3>1 DEF TypeInv
    <3>4. th[w] \in Local
      BY DEF TypeInv
    <3>5. /\ r.pc = "publish" /\ r.ret = th[w].ret /\ r.searcher = th[w].searcher
          /\ r.target = th[w].target /\ r.todo = th[w].todo /\ r.sawStop = th[w].sawStop
      BY <3>4 DEF Local
    <3> HIDE DEF r
    <3>6. Moves(w) /\ th'[w] = r
      BY <3>2, <3>3, OnSet
    <3> QED
      BY <3>1, <3>5, <3>6 DEF Keeps
  <2>2. TypeInv'
    BY <1>37, <2>1 DEF ReadRampUp, TypeInv, Moves
  <2>3. /\ keeper' = keeper \/ keeper = None
        /\ th'[w].pc \in InDriver => keeper' = w
    BY <1>37, <2>1 DEF ReadRampUp, RoleHeld, InDriver
  <2>4. th[w].pc \in GoingToSleep /\ th'[w].pc \in GoingToSleep
    BY <2>1 DEF GoingToSleep
  <2>5. UNCHANGED <<queue, idle, searching, token, stopping>>
    BY <1>37 DEF ReadRampUp
  <2> QED
    BY <2>1, <2>2, <2>3, <2>4, <2>5, SleeperStep
<1>38. ASSUME NEW w \in Workers, Publish(w) PROVE IdleInv'
  <2>1. /\ Moves(w) /\ th[w].pc = "publish"
        /\ th'[w].pc \in {"keep"}
        /\ Keeps(w) /\ th'[w].ret = th[w].ret
    BY <1>38, OnGoTo DEF Publish, Pc, Idling, Notifying
  <2>2. TypeInv'
    BY <1>38, <2>1 DEF Publish, TypeInv, Moves
  <2>3. /\ keeper' = keeper \/ keeper = None
        /\ th'[w].pc \in InDriver => keeper' = w
    BY <1>38, <2>1 DEF Publish, RoleHeld, InDriver
  <2>4. th[w].pc \in GoingToSleep /\ th'[w].pc \in GoingToSleep
    BY <2>1 DEF GoingToSleep
  <2>5. UNCHANGED <<queue, idle, searching, token, stopping>>
    BY <1>38 DEF Publish
  <2> QED
    BY <2>1, <2>2, <2>3, <2>4, <2>5, SleeperStep
<1>39. ASSUME NEW w \in Workers, KeepDriver(w) PROVE IdleInv'
  <2>1. /\ Moves(w) /\ th[w].pc = "keep"
        /\ th'[w].pc \in {"keepRelease"}
        /\ th'[w].searcher = th[w].searcher /\ th'[w].ret \in {th[w].ret}
    BY <1>39, OnGoTo
    DEF KeepDriver, DriverReturns, Pc, Idling, Notifying, Keeps
  <2>2. TypeInv'
    BY <1>39, <2>1 DEF KeepDriver, DriverReturns, TypeInv, Moves
  <2>3. SearchingCounts'
    BY <1>39, <2>1, SameSeekers DEF KeepDriver, Seeks, SearcherOk
  <2>4. CallOk(w)'
    BY <1>39, <2>1 DEF KeepDriver, CallOk, Waking
  <2>5. /\ keeper' = keeper \/ keeper \in {None, w}
        /\ th'[w].pc \in InDriver => keeper' = w
    BY <1>39, <2>1 DEF KeepDriver, RoleHeld, InDriver
  <2>6. /\ idle \ {w} \subseteq idle'
        /\ \A v \in Workers \ {w} : token'[v] = token[v]
    BY <1>39 DEF KeepDriver, TypeInv
  <2>7. th[w].pc \notin Waking /\ th'[w].pc \notin Marked
    BY <2>1 DEF Waking, Marked, Settled, GoingToSleep
  <2>8. stopping' = stopping
    BY <1>39 DEF KeepDriver
  <2> QED
    BY <2>1, <2>2, <2>3, <2>4, <2>5, <2>6, <2>7, <2>8, WorkerStep
<1>40. ASSUME NEW w \in Workers, KeepParker(w) PROVE IdleInv'
  <2>1. /\ Moves(w) /\ th[w].pc = "keep"
        /\ th'[w].pc \in {"keepRelease"}
        /\ th'[w].searcher = th[w].searcher /\ th'[w].ret \in {th[w].ret}
    BY <1>40, OnGoTo DEF KeepParker, Pc, Idling, Notifying, Keeps
  <2>2. TypeInv'
    BY <1>40, <2>1 DEF KeepParker, TypeInv, Moves
  <2>3. SearchingCounts'
    BY <1>40, <2>1, SameSeekers DEF KeepParker, Seeks, SearcherOk
  <2>4. CallOk(w)'
    BY <1>40, <2>1 DEF KeepParker, CallOk, Waking
  <2>5. /\ keeper' = keeper \/ keeper \in {None, w}
        /\ th'[w].pc \in InDriver => keeper' = w
    BY <1>40, <2>1 DEF KeepParker, RoleHeld, InDriver
  <2>6. /\ idle \ {w} \subseteq idle'
        /\ \A v \in Workers \ {w} : token'[v] = token[v]
    BY <1>40 DEF KeepParker, TypeInv
  <2>7. th[w].pc \notin Waking /\ th'[w].pc \notin Marked
    BY <2>1 DEF Waking, Marked, Settled, GoingToSleep
  <2>8. stopping' = stopping
    BY <1>40 DEF KeepParker
  <2> QED
    BY <2>1, <2>2, <2>3, <2>4, <2>5, <2>6, <2>7, <2>8, WorkerStep
<1>41. ASSUME NEW w \in Workers, KeepRelease(w) PROVE IdleInv'
  <2>1. /\ Moves(w) /\ th[w].pc = "keepRelease"
        /\ th'[w].pc \in {"keepDue"}
        /\ th'[w].searcher = th[w].searcher /\ th'[w].ret \in {th[w].ret}
    BY <1>41, OnGoTo DEF KeepRelease, Pc, Idling, Notifying, Keeps
  <2>2. TypeInv'
    BY <1>41, <2>1 DEF KeepRelease, TypeInv, Moves
  <2>3. SearchingCounts'
    BY <1>41, <2>1, SameSeekers DEF KeepRelease, Seeks, SearcherOk
  <2>4. CallOk(w)'
    BY <1>41, <2>1 DEF KeepRelease, CallOk, Waking
  <2>5. /\ keeper' = keeper \/ keeper \in {None, w}
        /\ th'[w].pc \in InDriver => keeper' = w
    BY <1>41, <2>1 DEF KeepRelease, RoleHeld, InDriver
  <2>6. /\ idle \ {w} \subseteq idle'
        /\ \A v \in Workers \ {w} : token'[v] = token[v]
    BY <1>41 DEF KeepRelease, TypeInv
  <2>7. th[w].pc \notin Waking /\ th'[w].pc \notin Marked
    BY <2>1 DEF Waking, Marked, Settled, GoingToSleep
  <2>8. stopping' = stopping
    BY <1>41 DEF KeepRelease
  <2> QED
    BY <2>1, <2>2, <2>3, <2>4, <2>5, <2>6, <2>7, <2>8, WorkerStep
<1>42. ASSUME NEW w \in Workers, KeepDue(w) PROVE IdleInv'
  <2>1. /\ Moves(w) /\ th[w].pc = "keepDue"
        /\ th'[w].pc \in {"awake"}
        /\ th'[w].searcher = th[w].searcher /\ th'[w].ret \in {th[w].ret}
    BY <1>42, OnGoTo DEF KeepDue, Pc, Idling, Notifying, Keeps
  <2>2. TypeInv'
    BY <1>42, <2>1 DEF KeepDue, TypeInv, Moves
  <2>3. SearchingCounts'
    BY <1>42, <2>1, SameSeekers DEF KeepDue, Seeks, SearcherOk
  <2>4. CallOk(w)'
    BY <1>42, <2>1 DEF KeepDue, CallOk, Waking
  <2> QED
    BY <1>42, <2>1, <2>2, <2>3, <2>4, WorkerStep
    DEF KeepDue, Waking, Marked, Settled, GoingToSleep, InDriver
<1>43. ASSUME NEW w \in Workers, Parked(w) PROVE IdleInv'
  <2>1. /\ Moves(w) /\ th[w].pc = "parked"
        /\ th'[w].pc \in {"awake"}
        /\ th'[w].searcher = th[w].searcher /\ th'[w].ret \in {th[w].ret}
    BY <1>43, OnGoTo DEF Parked, Pc, Idling, Notifying, Keeps
  <2>2. TypeInv'
    BY <1>43, <2>1 DEF Parked, TypeInv, Moves
  <2>3. SearchingCounts'
    BY <1>43, <2>1, SameSeekers DEF Parked, Seeks, SearcherOk
  <2>4. CallOk(w)'
    BY <1>43, <2>1 DEF Parked, CallOk, Waking
  <2>5. /\ keeper' = keeper \/ keeper \in {None, w}
        /\ th'[w].pc \in InDriver => keeper' = w
    BY <1>43, <2>1 DEF Parked, RoleHeld, InDriver
  <2>6. /\ idle \ {w} \subseteq idle'
        /\ \A v \in Workers \ {w} : token'[v] = token[v]
    BY <1>43 DEF Parked, TypeInv
  <2>7. th[w].pc \notin Waking /\ th'[w].pc \notin Marked
    BY <2>1 DEF Waking, Marked, Settled, GoingToSleep
  <2>8. stopping' = stopping
    BY <1>43 DEF Parked
  <2> QED
    BY <2>1, <2>2, <2>3, <2>4, <2>5, <2>6, <2>7, <2>8, WorkerStep
<1>44. ASSUME NEW w \in Workers, Awake(w) PROVE IdleInv'
  <2>1. /\ Moves(w) /\ th[w].pc = "awake"
        /\ th'[w].pc \in {"place"}
        /\ th'[w].searcher = th[w].searcher /\ th'[w].ret \in {th[w].ret}
    <3>0. th[w].pc = "awake" /\ "place" \in Pc
      BY <1>44 DEF Awake, Pc, Idling
    <3>1. th' = [th EXCEPT ![w].pc = "place", ![w].timed = FALSE, ![w].sawStop = FALSE]
      BY <1>44 DEF Awake
    <3> DEFINE r == [th[w] EXCEPT !.pc = "place", !.timed = FALSE, !.sawStop = FALSE]
    <3>2. r \in Local
      BY <3>0, LocalFields DEF TypeInv
    <3>3. th' = [th EXCEPT ![w] = r]
      BY <3>1 DEF TypeInv
    <3> QED
      BY <3>0, <3>2, <3>3, OnSet DEF TypeInv, Local
  <2>2. TypeInv'
    BY <1>44, <2>1 DEF Awake, TypeInv, Moves
  <2>3. SearchingCounts'
    BY <1>44, <2>1, SameSeekers DEF Awake, Seeks, SearcherOk
  <2>4. CallOk(w)'
    BY <1>44, <2>1 DEF Awake, CallOk, Waking
  <2>5. /\ keeper' = keeper \/ keeper \in {None, w}
        /\ th'[w].pc \in InDriver => keeper' = w
    BY <1>44, <2>1 DEF Awake, RoleHeld, InDriver
  <2>6. /\ idle \ {w} \subseteq idle'
        /\ \A v \in Workers \ {w} : token'[v] = token[v]
    BY <1>44 DEF Awake, TypeInv
  <2>7. th[w].pc \notin Waking /\ th'[w].pc \notin Marked
    BY <2>1 DEF Waking, Marked, Settled, GoingToSleep
  <2>8. stopping' = stopping
    BY <1>44 DEF Awake
  <2> QED
    BY <2>1, <2>2, <2>3, <2>4, <2>5, <2>6, <2>7, <2>8, WorkerStep
<1>45. ASSUME NEW w \in Workers, Place(w) PROVE IdleInv'
  <2>1. /\ Moves(w) /\ th[w].pc = "place"
        /\ th'[w].pc \in {"top", "run", "notify"}
        /\ th'[w].searcher = th[w].searcher /\ th'[w].ret \in {th[w].ret, "run"}
        /\ th'[w].pc = "notify" => th'[w].ret = "run"
    <3>0. th[w].pc = "place"
      BY <1>45 DEF Place
    <3>1. CASE GoTo(w, "top")
      BY <3>0, <3>1, OnGoTo DEF Keeps, Pc, Idling, Notifying
    <3>2. CASE GoTo(w, "run")
      BY <3>0, <3>2, OnGoTo DEF Keeps, Pc, Idling, Notifying
    <3>3. CASE Call(w, "notify", "run")
      <4>1. "notify" \in Pc /\ "run" \in Pc
        BY DEF Pc, Notifying
      <4> QED
        BY <3>0, <3>3, <4>1, OnCall DEF Keeps
    <3> QED
      BY <1>45, <3>1, <3>2, <3>3 DEF Place, PlaceRest
  <2>2. TypeInv'
    BY <1>45, <2>1 DEF Place, PlaceRest, TypeInv, Moves
  <2>3. SearchingCounts'
    BY <1>45, <2>1, SameSeekers DEF Place, Seeks, SearcherOk
  <2>4. CallOk(w)'
    BY <1>45, <2>1 DEF Place, CallOk, Waking
  <2> QED
    BY <1>45, <2>1, <2>2, <2>3, <2>4, WorkerStep
    DEF Place, Waking, Marked, Settled, GoingToSleep, InDriver
<1>46. ASSUME NEW a \in Stoppers, Stop(a) PROVE IdleInv'
  <2>1. /\ Moves(a) /\ th[a].pc = "free" /\ th'[a].pc = "wakeParked"
        /\ th'[a].ret = th[a].ret /\ th'[a].searcher = th[a].searcher
    BY <1>46, OnGoTo DEF Stop, Keeps, Pc, Idling, Notifying
  <2>2. TypeInv'
    BY <1>46, <2>1 DEF Stop, TypeInv, Moves
  <2>3. CallOk(a)'
    BY <1>46, <2>1 DEF CallOk, Waking, Stop
  <2>4. CallsInOrder' /\ RoleHeld' /\ SearchingCounts'
    BY <1>46, <2>1, <2>3, CallerStep DEF Stop, CallOk, Notifying
  <2>5. WakeUnderWay'
    BY <1>46, <2>1, CallerWakes DEF Stop, Marked, Settled, GoingToSleep, Waking
  <2>6. WorkCalls'
    BY <1>46, <2>1, CallerCalls DEF Stop, Settled, GoingToSleep, Notifying
  <2>7. StopReaches'
    BY <1>46, <2>1, CallerStops DEF Stop, StopDone, GoingToSleep, Waking
  <2> QED
    BY <2>2, <2>4, <2>5, <2>6, <2>7 DEF IdleInv
<1>47. ASSUME NEW a \in Stoppers, StopWakes(a) PROVE IdleInv'
  <2>0. stopping
    BY <1>47 DEF StopWakes, CallOk
  <2>1. /\ Moves(a) /\ th[a].pc = "wakeParked" /\ th'[a].searcher = th[a].searcher
        /\ \/ th'[a].pc = "commit" /\ th'[a].ret = "wakeParked"
           \/ th'[a].pc = "unparkAll" /\ th'[a].ret = th[a].ret /\ th'[a].todo = Workers
    <3>0. th[a].pc = "wakeParked"
      BY <1>47 DEF StopWakes
    <3>1. CASE Call(a, "commit", "wakeParked")
      <4>1. "commit" \in Pc /\ "wakeParked" \in Pc
        BY DEF Pc, Notifying
      <4> QED
        BY <3>0, <3>1, <4>1, OnCall DEF Keeps
    <3>2. CASE th' = [th EXCEPT ![a].pc = "unparkAll", ![a].todo = Workers]
      <4>1. "unparkAll" \in Pc /\ Workers \in SUBSET Workers
        BY DEF Pc
      <4> DEFINE r == [th[a] EXCEPT !.pc = "unparkAll", !.todo = Workers]
      <4>2. th[a] \in Local
        BY DEF TypeInv
      <4>3. /\ r \in Local /\ r.pc = "unparkAll" /\ r.todo = Workers
            /\ r.searcher = th[a].searcher /\ r.ret = th[a].ret
        BY <4>1, <4>2 DEF Local
      <4>4. th' = [th EXCEPT ![a] = r]
        BY <3>2
      <4> HIDE DEF r
      <4> QED
        BY <3>0, <4>3, <4>4, OnSet
    <3> QED
      BY <1>47, <3>1, <3>2 DEF StopWakes
  <2>2. TypeInv'
    BY <1>47, <2>1 DEF StopWakes, TypeInv, Moves
  <2>3. CallOk(a)'
    BY <1>47, <2>0, <2>1 DEF CallOk, Waking, StopWakes
  <2>4. CallsInOrder' /\ RoleHeld' /\ SearchingCounts'
    BY <1>47, <2>1, <2>3, CallerStep DEF StopWakes, CallOk, Notifying
  <2>5. WakeUnderWay'
    BY <1>47, <2>1, CallerWakes DEF StopWakes, Marked, Settled, GoingToSleep, Waking
  <2>6. WorkCalls'
    BY <1>47, <2>1, CallerCalls DEF StopWakes, Settled, GoingToSleep, Notifying
  <2>7. StopReaches'
    BY <1>47, <2>1, CallerStops DEF StopWakes, StopDone, GoingToSleep, Waking
  <2> QED
    BY <2>2, <2>4, <2>5, <2>6, <2>7 DEF IdleInv
<1>48. ASSUME UNCHANGED <<queue, waiting, local, gathered, idle, searching, keeper,
                          token, stopping, th>>
       PROVE  IdleInv'
  <2>1. Seekers' = Seekers
    BY <1>48 DEF Seekers, Seeks
  <2> QED
    BY <1>48, <2>1
    DEF IdleInv, TypeInv, CallsInOrder, CallOk, RoleHeld, SearchingCounts,
        SearcherOk, WakeUnderWay, WorkCalls, StopReaches, StopDone
<1> QED
  BY <1>1, <1>2, <1>3, <1>4, <1>5, <1>6, <1>7, <1>8, <1>9, <1>10, <1>11,
     <1>12, <1>13, <1>14, <1>15, <1>16, <1>17, <1>18, <1>19, <1>20, <1>21,
     <1>22, <1>23, <1>24, <1>25, <1>26, <1>27, <1>28, <1>29, <1>30, <1>31,
     <1>32, <1>33, <1>34, <1>35, <1>36, <1>37, <1>38, <1>39, <1>40, <1>41,
     <1>42, <1>43, <1>44, <1>45, <1>46, <1>47, <1>48
  DEF Next, NotifyStep, RunStep, FindStep, IdleStep, RampUpDue, Stopped, vars
\* The invariant holds throughout.
LEMMA IdleInvariant == Spec => []IdleInv
  BY IdleInit, IdlePreserved, PTL DEF Spec

-----------------------------------------------------------------------------
(* What it shows.                                                          *)

\* OnlyKeeperInDriver: tryBecomeTimekeeper() is a lock around Driver::wait(),
\* whether the Driver is polled from maintain() or slept in, so that the
\* worker unparkWorker() finds in `timekeeper` is the one inside.
THEOREM DriverIsExclusive == Spec => []OnlyKeeperInDriver
<1>1. IdleInv => OnlyKeeperInDriver
  BY DEF IdleInv, RoleHeld, OnlyKeeperInDriver, InDriver
<1> QED
  BY <1>1, IdleInvariant, PTL

\* ClaimReachesSleeper: without a Driver, a worker that notifyIdleWorker()
\* takes out of idleMask cannot stay asleep: whoever took it out is still on
\* its way to its Parker, or has been there.
THEOREM ClaimIsKept == Spec => []ClaimReachesSleeper
<1>1. IdleInv => ClaimReachesSleeper
  <2> SUFFICES ASSUME IdleInv, ~HasDriver, NEW w \in Workers, Deaf(w)
               PROVE  w \in idle \/ \E a \in Threads : th[a].target = w
    BY DEF ClaimReachesSleeper, ClaimedIsWoken
  <2>1. th[w].pc \in {"parked", "keep"} /\ ~token[w]
    BY DEF Deaf
  <2>2. th[w].pc \in Marked
    BY <2>1 DEF Marked, Settled, GoingToSleep
  <2> QED
    BY <2>1, <2>2 DEF IdleInv, WakeUnderWay
<1> QED
  BY <1>1, IdleInvariant, PTL

\* InjectedWorkIsSeen: inject() and parkIdle() form a Dekker pair, and neither
\* the searchers that notifyIdleWorker() relies on nor an empty idleMask that
\* it finds let the work go unseen: without a Driver, once no thread is on its
\* way to wake a worker, some worker is awake or has its token.
THEOREM WorkIsSeen == Spec => []InjectedWorkIsSeen
<1>1. IdleInv => InjectedWorkIsSeen
  <2> SUFFICES ASSUME IdleInv, ~HasDriver, queue > 0, \A a \in Threads : Quiet(a),
                      \A w \in Workers : Deaf(w)
               PROVE  FALSE
    BY DEF InjectedWorkIsSeen, NoLostWork
  <2>1. \A w \in Workers : th[w].pc \in {"parked", "keep"} /\ ~token[w]
    BY DEF Deaf
  <2>2. \A w \in Workers : th[w].pc \in Settled
    BY <2>1 DEF Settled, GoingToSleep
  <2>3. \A a \in Threads : th[a].pc \notin Notifying
    BY DEF Quiet
  <2> QED
    BY <2>1, <2>2, <2>3 DEF IdleInv, WorkCalls
<1> QED
  BY <1>1, IdleInvariant, PTL

\* NoneSleepsThroughStop: without a Driver, when stop() has been round all
\* workers each has seen `stopping` on its way to sleep, or has its token.
\* With a Driver this fails (run driver_lost_wake shows the same gap for
\* injected work), so the theorem is about schedulers without one.
THEOREM StopIsSeen == Spec => [](~HasDriver => NoneSleepsThroughStop)
<1>1. IdleInv => (~HasDriver => NoneSleepsThroughStop)
  <2> SUFFICES ASSUME IdleInv, ~HasDriver, NEW a \in Stoppers, th[a].pc = "exited",
                      NEW w \in Workers, Deaf(w)
               PROVE  FALSE
    BY DEF NoneSleepsThroughStop
  <2>1. th[w].pc \in GoingToSleep /\ ~th[w].sawStop /\ ~token[w]
    BY DEF Deaf, GoingToSleep
  <2>2. StopDone(a, w)
    BY DEF StopDone
  <2> QED
    BY <2>1, <2>2 DEF IdleInv, StopReaches
<1> QED
  BY <1>1, IdleInvariant, PTL
=============================================================================
