---------------------------- MODULE BlockingPool ----------------------------
(***************************************************************************)
(* The blocking pool of the runtime: detached threads that take jobs from  *)
(* one queue, started on demand and gone after ten idle seconds.  Each     *)
(* section under the mutex is one step; std::condition_variable is         *)
(* external.  Jobs are told apart by nothing here: the queue is its length.*)
(***************************************************************************)
EXTENDS Naturals, FiniteSets

CONSTANTS Threads,      \* room for the pool's threads
          kMaxThreads, MaxJobs

VARIABLES obj, th

Init ==
    /\ obj = [is |-> "Blocking", jobs |-> 0, threads |-> 0, idle |-> 0, submitted |-> 0]
    /\ th = [t \in Threads |-> "none"]

In(pcs) == {t \in Threads : th[t] \in pcs}
Go(t, pc) == th' = [th EXCEPT ![t] = pc]

\* notify_one(): some thread that waits, if any does.
notify_one ==
    IF In({"waiting"}) = {} THEN UNCHANGED th ELSE \E t \in In({"waiting"}) : Go(t, "woken")

\* Mutant: an idle thread that others count on is counted on again.
StartsWhenNoneIdle == obj.idle = 0
\* More pending jobs than idle threads.
JobsExceedIdle == obj.jobs + 1 > obj.idle
\* blocking(), submit().
submit ==
    LET starts == JobsExceedIdle /\ obj.threads < kMaxThreads
    IN  /\ obj.submitted < MaxJobs
        /\ obj' = [obj EXCEPT !.submitted = @ + 1, !.jobs = @ + 1,
                              !.threads = IF starts THEN @ + 1 ELSE @]
        /\ IF starts THEN \E t \in In({"none"}) : Go(t, "lock") ELSE notify_one

\* The head of work()'s loop, with the lock: wait, or take a job.
Take(t, idle) ==
    /\ obj' = [obj EXCEPT !.jobs = @ - 1, !.idle = idle]
    /\ Go(t, "run")
Loop(t) ==
    /\ th[t] = "lock"
    /\ IF obj.jobs # 0 THEN Take(t, obj.idle)
       ELSE obj' = [obj EXCEPT !.idle = @ + 1] /\ Go(t, "waiting")
\* wait_for() has been notified, or woke for no reason, and looks again.
Woken(t) ==
    /\ th[t] = "woken"
    /\ IF obj.jobs # 0 THEN Take(t, obj.idle - 1) ELSE Go(t, "waiting") /\ UNCHANGED obj
WakesUnasked(t) == th[t] = "waiting" /\ Go(t, "woken") /\ UNCHANGED obj
TimesOut(t) == th[t] \in {"waiting", "woken"} /\ Go(t, "timedOut") /\ UNCHANGED obj
\* After the timeout the predicate is evaluated once more.
GotOrExit(t) ==
    /\ th[t] = "timedOut"
    /\ IF obj.jobs # 0 THEN Take(t, obj.idle - 1)
       ELSE obj' = [obj EXCEPT !.idle = @ - 1, !.threads = @ - 1] /\ Go(t, "none")

\* job->run(): runGuarded() sets the Completion once, with value or exception.
run(t) ==
    /\ th[t] = "run"
    /\ Go(t, "lock") /\ UNCHANGED obj

Next ==
    \/ submit
    \/ \E t \in Threads :
          Loop(t) \/ Woken(t) \/ WakesUnasked(t) \/ TimesOut(t) \/ GotOrExit(t) \/ run(t)

-----------------------------------------------------------------------------
\* No job waits behind another that is running: below the cap of threads there
\* is one on its way to the queue for every job in it; at the cap every thread
\* is busy or on its way.
JobNotStranded ==
    LET onTheirWay == Cardinality(In({"lock", "woken", "timedOut"}))
    IN  \/ obj.jobs <= onTheirWay
        \/ obj.threads = kMaxThreads /\ In({"waiting"}) = {}
=============================================================================
