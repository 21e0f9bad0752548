----------------------------- MODULE Coroutine -----------------------------
(***************************************************************************)
(* Asymmetric coroutines: contexts that resume one another, nested, yield  *)
(* to whoever resumed them last, move between threads, end with or without *)
(* an exception, and are destroyed at any point of their life, which       *)
(* unwinds a suspended one on its own stack.  A switch is one step.        *)
(*                                                                         *)
(* `thread`, `resumer`, `state`, `entry` and `exception` are fields of a   *)
(* ContextBlock, `current` that of a ThreadState; th[t] is what the        *)
(* processor really runs there.  Callers keep the precondition of resume() *)
(* in its strict reading: a coroutine is Suspended also while it waits for *)
(* one it resumed, but it has not yielded and is left alone (`busy`).      *)
(***************************************************************************)
EXTENDS Naturals, FiniteSets

CONSTANTS Coroutines, Threads,  \* a thread stands for its native context too
          NoOne

VARIABLES obj, th

Contexts == Coroutines \cup Threads

Init ==
    /\ \E exceptions \in BOOLEAN :
          obj = [is |-> "Coroutine", exceptions |-> exceptions,
                 current |-> [t \in Threads |-> t],
                 thread |-> [x \in Contexts |-> IF x \in Threads THEN x ELSE NoOne],
                 state |-> [x \in Contexts |-> IF x \in Threads THEN "Running" ELSE "None"],
                 resumer |-> [c \in Coroutines |-> NoOne],
                 entry |-> {}, exception |-> {}, unwinding |-> {},
                 busy |-> [x \in Contexts |-> NoOne]]
    /\ th = [t \in Threads |-> t]

\* prepareDeparture() on one side, onArrival() on the other.
onArrival(o, from, to) == [o EXCEPT !.thread[to] = o.thread[from]]
SwitchTo(t, o, from, to, fromState) ==
    /\ th' = [th EXCEPT ![t] = to]
    /\ obj' = onArrival([o EXCEPT !.current[o.thread[from]] = to,
                                  !.state[from] = fromState, !.state[to] = "Running"], from, to)

\* The context on thread t goes on, once its resume() has returned.
Idle(x) == obj.busy[x] = NoOne
Acts(t, x) == x = obj.current[t] /\ x = th[t] /\ Idle(x)
\* A handle is used by one caller at a time.
Free(c) == Idle(c) /\ \A x \in Contexts : obj.busy[x] # c

-----------------------------------------------------------------------------
makeCoroutine(t, c) ==
    /\ Acts(t, th[t]) /\ obj.state[c] = "None" /\ UNCHANGED th
    /\ obj' = [obj EXCEPT !.state[c] = "Created", !.entry = @ \cup {c}]

\* Mutant: the resumer is noted at the first resume() only.
ResumeForTheFirst(t, c) ==
    LET from == th[t]
    IN  /\ Acts(t, from) /\ obj.state[c] \in {"Created", "Suspended"} /\ Free(c)
        /\ SwitchTo(t, [obj EXCEPT !.resumer[c] = IF @ = NoOne THEN from ELSE @,
                                   !.busy[from] = c], from, c, "Suspended")
resume(t, c) ==
    LET from == th[t]
    IN  /\ Acts(t, from) /\ obj.state[c] \in {"Created", "Suspended"} /\ Free(c)
        /\ SwitchTo(t, [obj EXCEPT !.resumer[c] = from, !.busy[from] = c], from, c, "Suspended")
\* resume() returns, or rethrows what escaped from the body.
ResumeReturns(t) ==
    LET x == th[t]
        c == obj.busy[x]
    IN  /\ c # NoOne /\ c \notin obj.unwinding /\ UNCHANGED th
        /\ obj' = [obj EXCEPT !.busy[x] = NoOne, !.exception = @ \ {c}]

Yield(t) ==
    LET c == th[t]
    IN  /\ c \in Coroutines /\ Acts(t, c) /\ c \notin obj.unwinding
        /\ SwitchTo(t, obj, c, obj.resumer[c], "Suspended")
\* The body is destroyed on its own stack; what escaped from it is parked.
RunBody(c, escaped) ==
    [obj EXCEPT !.entry = @ \ {c}, !.exception = IF escaped THEN @ \cup {c} ELSE @]
\* contextEntry() to its end, finishAndSwitchTo().
Finish(t) ==
    LET c == th[t]
    IN  /\ c \in Coroutines /\ Acts(t, c)
        /\ \E escaped \in {FALSE, obj.exceptions} :
              SwitchTo(t, RunBody(c, escaped), c, obj.resumer[c], "Done")

\* destroyBlock() of a coroutine that was never resumed, or is done.
Released(o, c) == [o EXCEPT !.state[c] = "Freed", !.unwinding = @ \ {c}]
DestroyAtRest(t, c) ==
    /\ Acts(t, th[t]) /\ Free(c) /\ UNCHANGED th
    /\ obj.state[c] \in {"Created", "Done"} \/ (obj.state[c] = "Suspended" /\ ~obj.exceptions)
    /\ obj' = Released([obj EXCEPT !.entry = @ \ {c}], c)
\* unwindSuspended(): ForcedUnwind at the coroutine's yield().
unwindSuspended(t, c) ==
    LET from == th[t]
    IN  /\ Acts(t, from) /\ Free(c) /\ obj.state[c] = "Suspended" /\ obj.exceptions
        /\ SwitchTo(t, [obj EXCEPT !.resumer[c] = from, !.busy[from] = c,
                                   !.unwinding = @ \cup {c}], from, c, "Suspended")
Unwound(t) ==
    LET x == th[t]
        c == obj.busy[x]
    IN  /\ c \in obj.unwinding /\ UNCHANGED th
        /\ obj' = Released([obj EXCEPT !.busy[x] = NoOne, !.exception = @ \ {c}], c)

Next ==
    \E t \in Threads :
        \/ ResumeReturns(t) \/ Yield(t) \/ Finish(t) \/ Unwound(t)
        \/ \E c \in Coroutines :
              makeCoroutine(t, c) \/ resume(t, c) \/ DestroyAtRest(t, c) \/ unwindSuspended(t, c)

-----------------------------------------------------------------------------
\* However often contexts have moved between threads, a thread's `current` is
\* what runs there, and that context knows the thread it is on.
ThreadKnowsItsContext ==
    \A t \in Threads :
        /\ obj.current[t] = th[t] /\ obj.thread[th[t]] = t
        /\ obj.state[th[t]] = "Running"

\* Control finds its way back: a running coroutine's resumer waits for it and
\* for nobody else, in a context that is still there, and so on down to the
\* native context of the thread it runs on.
ResumersWait ==
    \A c \in Coroutines : obj.state[c] = "Running" \/ ~Idle(c) =>
        /\ obj.busy[obj.resumer[c]] = c
        /\ obj.state[obj.resumer[c]] = "Suspended"

\* A stack is given back once its body was destroyed, and when nothing on it
\* is in use: no context of it waits, runs, or is waited for, and no
\* exception is parked in it.
FreedIsSpent ==
    \A c \in Coroutines : obj.state[c] = "Freed" =>
        /\ c \notin obj.entry \cup obj.exception \cup obj.unwinding
        /\ Idle(c) /\ \A x \in Contexts : obj.busy[x] # c
        /\ \A t \in Threads : th[t] # c
=============================================================================
