# TLA+ models of stackfull

stackfull is a C++ library of stackful coroutines: a context switch, stacks,
coroutines, lock-free queues, a work-stealing scheduler of tasks with timers
and a pluggable event source, synchronisation primitives, sockets, and
senders/receivers on top.  This directory models the parts where threads meet:
what the scheduler and the primitives promise is decided by the order of a few
atomic accesses, and tests reach only some of these orders.

## The system

| Component | State | Operations | Interacts through | What makes it correct |
|---|---|---|---|---|
| task park/wake/stop (`sched`: Runtime.h, Task.*, TaskFactory.h, WakeToken.cpp, reapParkedTasks) | `parkState`, slab of `TaskSlot` (task, generation, pins), shields, `stopping`, `parkedWoken` | spawn, yield, park, wake, finish, release, forEachTask, stop, reap | run queues, tokens held by any thread | a task is resumed once per wake, no wake is lost, no pointer outlives its task, stop() ends everything |
| idle workers (`sched`: Worker.cpp, SchedulerCore.cpp) | `idleMask`, `searching`, `timekeeper`, `keeperDeadline`, `rampUpDeadline`, Parker tokens | run loop, search, spin, park, notify, ramp up, maintain | injection queue, Parker, Driver | work never waits for sleeping workers only |
| timers and sleep (TimerQueue.*, Sleep.h, addTimer) | heap per worker, `earliest`, `timerMask` | add, cancel, fire, close | timekeeper | a timer is fired, once, not late, and never touched after it fired |
| parker (Parker.*) | a token; a futex word or a mutex and condition | park, parkFor, unpark | idle workers, threads in primitives | an unpark is never lost |
| placement (Runtime.h, MpscQueue.h) | LIFO slot, local queue, pinned queue and inbox | push, take, steal, overflow | injection queue | pinned tasks stay, every queued task is found |
| slots and counters (SchedulerCore.cpp) | worker slot caches, free list, created/finished | acquire, release, count | spawn, worker exit | spawn fails only at maxTasks; never zero with a live task |
| join handles | `done`, `waiterKind`, two references | join, detach, finish | wake tokens, parker | the joiner is woken; the state is freed once |
| queues (`queue`: BBQ, BWoS, ring) | blocks with packed cursors | push, pop, steal | scheduler | a linearizable FIFO / an owner-thief deque |
| semaphore, mutex (`sync`) | `permits`, `waiterCount`, wait list | tryAcquire, acquire, release, acquireOrEnqueue, cancel | Waiter, WaitGuard | at most N holders, no permit beside a waiter |
| wait group, condition variable, channel, stream, mailbox, completion, select (`sync`) | counters, buffers, wait lists, one Waker | add/done/wait, notify, send/recv/close, push/next, fill/get, post/run, select | Waiter, Mutex | their usual contracts, also under forced unwinding and cancellation |
| io registration, pollers (`io`) | event counters, wakers, descriptor table | add, remove, wait, collect, wake | Driver, Waiter | readiness between the system call and the wait is not lost |
| coroutines (`coro`), switch (`fcontext`) | lifecycle, current context, post-switch hook | resume, yield, unwind | scheduler | legal lifecycle, hooks run once |
| stack allocators (`stack`) | thread caches by size, shared pool, reserves | allocate, deallocate, reserve, thread exit | spawn, release | a stack has one owner, the pool keeps its limit |
| runtime, blocking pool (`runtime`) | default scheduler, threads, jobs | async, blockOn, blocking | scheduler | no job waits behind a running one, threads end |
| exec senders (`exec`) | operation states, stop callbacks | start, cancel, complete | all primitives | an operation completes exactly once |

The hard behaviours are interleavings throughout (park against wake, release
against pins, idleness against injection, announce against hand-over), a forced
end at any wait (`stop()` unwinds what is parked), cancellation that races
completion, the reuse of slots behind stale tokens, and sleeping with the right
timeout in the right place.  PROJECT.json lists the hazards one by one, at their
lines.

## Modules

| Module | Models |
|---|---|
| `ParkWake` | the life of tasks: spawn, switch, park/wake, release, stop, reap |
| `ParkWakeProofs` | theorems about `ParkWake` |
| `IdleWorkers` | the worker's run loop, sleeping, waking, ramp-up, stop |
| `IdleWorkersProofs` | theorems about `IdleWorkers` |
| `Timekeeper` | timers: adding, the worker that sleeps on them, firing |
| `TimekeeperProofs` | theorems about `Timekeeper` |
| `TimerHeap` | the binary heap of one queue, by itself |
| `TimerQueue` | the entries of one queue against cancellation, unwinding and closing |
| `Parker` | the futex and the condition-variable parker |
| `Join` | `JoinState`: join() against the end of the task |
| `TaskSlots` | slot caches, free list, the two-pass count of live tasks, worker exit |
| `MpscQueue` | a worker's pinned inbox |
| `PackedCursor`, `BwosQueue`, `BbqQueue`, `RingQueue` | the lock-free queues |
| `Waiters` | `Waiter`, `WaitList`, `WaitGuard` and exec's `waiting_operation` with its stop callback |
| `Semaphore` | `sync::Semaphore` / `sync::Mutex` with blocking and callback waiters |
| `SemaphoreSpec` | what a semaphore promises; `Semaphore` implements it |
| `SemaphoreProofs` | theorems about `Semaphore`, the refinement among them |
| `WaitGroup`, `ConditionVariable`, `Channel` | primitives with wait lists, over `Waiters` |
| `Stream`, `Completion`, `Select` | primitives that keep a Waker by value; `Select` holds the Mailbox |
| `Registration` | readiness of a descriptor: `io::Registration`, both pollers, the transfer and connect loops of `io` and `exec` |
| `ExecTask` | exec::spawn, schedule(), wait() and await() in a task |
| `BlockingPool` | the threads behind blocking() |
| `StackPool` | the pooled stack allocator |
| `Coroutine` | resume, yield, end and destruction of coroutines |
| `RegistrationProofs` | theorems about `Registration` |
| `Structures`, `StructuresProofs` | instances of `Join`, `Parker`, `ExecTask`, `BlockingPool`, `Coroutine`, `TaskSlots` with constants for parameters, and lemmas about them |
| `MCStructuresProofs` | what both show of the properties that `MCStructures` checks |
| `MCParkWake`, `MCIdleWorkers`, `MCTimekeeper`, `MCSemaphore`, `MCWaiting`, `MCStructures` | instances for TLC |

The two block queues use `PackedCursor`, and
everything one waits on, `Registration` included, extends `Waiters`.  `MCWaiting`
and `MCStructures` put many small instances side by side: `obj.is` names the
instance, a behaviour stays in the one it began in, and each keeps its state in
`obj` (the shared object) and `th` (the parties' locals and program counters).
`MCWaiting` and the instances of `MCStructures` that have theorems (it extends
`Structures`) take their
parties and bounds from constants, which their .cfg files fix (the parties of
the descriptors by `SmallIo`, the crews of `TaskSlots` by `SmallTeams`), so that the
formula TLC checks is the one the theorems are about.

Definitions whose comment begins with "Mutant:" are bugs the properties must
notice; no specification uses them.

### ParkWake

State.  `parkState`, `shields`, `slotOf`, `genOf` are fields of `Task`;
`slotTask`, `slotGen`, `pins` are `TaskSlot`; `freeSlots` the free list and the
workers' slot caches together; `ready` how many copies of a task all run queues
hold; `cur` and `dep` what a worker runs and which task just left it, with the
hook the arriving side still has to run; `life` how far `createTask()` or
`releaseTask()` got.  `pc`, `at`, `ptr`, `tok` are the locals of a thread inside
`WakeToken::wake()`, `forEachTask()`, `wakeAllParked()` or `reapParkedTasks()`.
`resumed` and `owed` are history.

Actions.  `Spawn*` are `createTask()` and `spawn()`; `Dispatch`, `Yield`, `Park`,
`ParkConsume`, `Finish`, `ToggleShield` what a worker and a task body do; `Hook*`
and `Release*` the post-switch hooks, one step per store that others can see;
`Wake*`, `Visit*`, `LoadTask`, `Unpin` the users of the slab; `Stop`, `StopScan`,
`Reap*`, `WorkerExit`, `Destroy` the end.  A switch and the taking of the next
task are one step: the arriving task cannot run before its hook, and `OnCpu`
says so.

Abstractions.  Queues are counts.  The count of live tasks is exact (the code's
two-pass sum may overcount, which only delays an exit).  `finishJoin()` and the
timers of `stop()` belong to components of their own.  The build is the one with
exceptions; atomics are sequentially consistent, so the argument that the
acquire/release orders of the pins protocol suffice is not made here.  A token
is handed out by a task that was scheduled.  One `NoForcedStop` guard stands for
the nestable count.

### IdleWorkers

State.  One variable per shared word (`idle`, `searching`, `keeper`,
`keeperDeadline`, `rampUp`, `stopping`, `parkedWoken`), the Parker tokens, the
Driver's pending wake-up, and the numbers of tasks in the injection queue, in
each worker's own queues, gathered inside `Driver::wait()`, parked, and alive.
`options` are the SchedulerOptions, chosen once.  Tasks are not named.  `th` holds
each thread's program counter and locals.

Actions follow the functions: `Top` ... `TopPop` the head of `run()`;
`Search*`, `Leftovers`, `RampUp*` `searchForWork()` and what it calls;
`NoWork*`, `Spin*` and `Mark`, `Recheck`, `Unmark`, `Awake`, `Place` `parkIdle()`;
`Sleep` ... `Parked` `sleepIdle()`; `Commit`, `Notify`, `Pick`, `Unpark*` the
notifying side; `Stop`, `StopWakes`, `UnparkNext` the end.

Abstractions.  Spin back-off, `handoffWake` and the choice of a victim are
heuristics: every choice is allowed.  No task is pinned to a worker and no timer
is pending.  `placeGathered()` pushes its batch in one step.  A steal takes any
part of a victim's queue or fails.  Time is two facts: a ramp-up request is due
or not, and a thread that saw `stopping` sleeps at most a millisecond.

### Timekeeper

State.  `heap` and `lock` are a worker's `TimerQueue`, `earliest` and `mask` its
lock-free mirrors (`earliest`, `timerMask`); `deadline` and `fired` the entry on
a sleeper's stack; `task` and `notified` where the sleeper is and its sticky
wake token; `keeper`, `keeperDeadline`, `idle`, `token` as in `IdleWorkers`;
`recent` says that `lastKeeperWake` is less than `rampUpDelay` ago.  `th` holds a
worker's program counter and locals.

Actions.  `SleepUntil`, `Check`, `Park` are `sleepUntil()`; `Add`, `AddMirror`
`TimerQueue::add()`, `AskKeeper`, `AskDeadline` the rest of `addTimer()`;
`Maintain` ... `Dispatch`, `Ensure` the run loop and `ensureTimekeeper()`; `Mark`
... `Awake` `parkIdle()` and `sleepIdle()`, with `nextDeadline()` queue by queue
(`ScanMask`, `Scan`); `Fire` ... `Wake` `fireTimers()`.  `Inject`, `PinnedWake`,
`Tick` and `DelayPasses` are the surroundings.

Abstractions.  A heap is the set of its entries.  Notifying an idle worker is
one step, there is no Driver, no spinning and no stop().  Tasks other than
sleepers are a number in the injection queue and, per worker, whether it has
some of its own; these are not stolen.  A woken sleeper that is queued may be
taken by any worker.  A deadline lies ahead when sleepUntil() is called; it may
be past by the time the entry is queued.  Callback timers, cancellation and
unwinding are `TimerQueue`'s.

### Semaphore

State.  `permits`, `waiterCount`, the lock, the list, `satisfied` and
`cancelled` of each waiter, the chain a releaser has detached, and a program
counter per party.  A blocking party is a task or a thread in `acquire()`, a
callback party a sender: `try_now()`, then (`drive`) `acquireOrEnqueue()`, with
`cancel()` possible from the moment it listens for stop requests.  Each access
to `permits` or `waiterCount` is a step, since both are used without the lock.
Every party acquires once more after it released; a party that was unwound is
gone.  That a notified party's wake-up is not lost is `ParkWake`'s subject.

`SemaphoreSpec` says: at most as many holders as permits, and a permit
disappears only with a waiter that is unwound after a release() had picked it.
The latter is what the code does: `WaitGuard` waits for the notifier and does
not give the permit back.

### Waiters, and what extends it

`th[p]` is a party: a task (which stop() may unwind wherever it waits), a thread,
or an operation of exec, with its `satisfied` permit, its stop callback (`quiet`,
`requested`, `running`, ...) and what it has still to notify (`chain`).  A
section under a primitive's SpinLock is one step; what the code does without the
lock, before it or after it, is a step of its own: waking a detached chain, the
decrement in `WaitGroup::done()`, filling a `Completion` between claim and
publish(), calling a Waker that was copied out of a `Stream`.  `WaitGuardExit`,
`OnStop`, `Finish` are `~WaitGuard()`, `waiting_operation::on_stop` and the
completion that first waits for a running stop callback.

* `WaitGroup`: `pending` changes without the lock.  `Reuse` says whether add()
  may come while waiters of the last round are about.
* `Channel`: items are numbers modulo twice the capacity; sender and receiver
  lists, close(), async_send and async_recv.
* `ConditionVariable`: with the loop of its callers and the mutex as a permit.
  An unwound waiter tries to relock a bounded number of times, as the code does.
* `Stream`, `Completion`: the Waker is in `q.consumer`; whoever takes it wakes it
  later, when the consumer may have gone on.
* `Select`: scan, attach, block, detach over a Stream, a Mailbox and a
  Completion; the Mailbox's own runOne() too.
* `TimerQueue`: one queue, sleepers on their stacks, callback operations, firing,
  `fireCallbacksAndClose()`.  The heap is the set of its entries here; that the
  earliest deadline is on top is for `TimerHeap`, whose actions are the calls of
  add(), cancel() and removeLocked() in any order.
* `Registration`: the kernel is external (`level`, `ended`, `hand`).  A poller's
  wait() is `snapshot`, `poll`, `collect`, so that arming, removal and arrival fall
  in between.  `exhaustedAt` is reset to 0 when nothing is exhausted, where it is
  not read.  A failed add() ends every call at once and is left out; vectored
  and datagram calls are transfers of one unit.

### Join, Parker, TaskSlots, queues, StackPool, ExecTask, BlockingPool, Coroutine

Every access to a shared atomic is a step.  Exceptions to sequential consistency:
the Parker's consuming store may stay in the store buffer (`Drain`), since that is
where the code's order matters.  In `TaskSlots` the free list is an atomic queue
(it is a `BbqQueue`) and a section under a SlotCacheGuard is one step.  In the
queues, items are numbered by their place, so "the right item" is a number; the
owner's own cursors are read with the step that publishes them.  `RingQueue`'s
push() reads the head late, which refuses less than the code does.  In
`StackPool` sizes are pages and a pop of the shared pool may find it busy.
`ExecTask` has one operation and its task; senders and stop sources are external.
`BlockingPool` counts its jobs.  In `Coroutine` a switch is one step, `th[t]` is what
really runs on the thread and `current`, `thread`, `resumer` what the code
believes; a context that waits inside resume() is left alone by others.

## Runs

| Run | Instance | Shows |
|---|---|---|
| `park_wake` | 2 incarnations on 1 slot, 2 workers, 2 wakers, stop() | `TypeOK`, `ScheduledOnce`, `NoUseAfterFree`, `TokenReachesItsTask`, `NoLostWake`, `StopSeenBeforeUnwind` |
| `park_wake_live` | 1 task, 1 worker, 1 waker | `StopCompletes`: every run() returns |
| `idle_workers` | 2 workers, 1 producer, 2 tasks: with spinning and ramp-up and no Driver; or with a Driver | without: `InjectedWorkIsSeen`, `ClaimReachesSleeper`; with: `OnlyKeeperInDriver` |
| `idle_workers_stop` | 2 workers, 1 producer, 1 task, stop() | `NoneSleepsThroughStop` |
| `driver_lost_wake` | 2 workers, 1 producer, 2 tasks, Driver | violated: `NoLostWork` |
| `ramp_up` | 3 workers, 1 producer, 3 tasks | violated: `RampUpIsAnswered` |
| `timekeeper` | 2 workers, 2 sleepers, 2 ticks, injected work | `KeeperHasDeadline`, `TimersStayCovered` |
| `timekeeper_live` | 2 workers, 1 sleeper, 1 tick, pinned tasks, ramp-up delay | `SleepersWake` |
| `mutex` | 1 permit, 2 blocking, 1 callback party | `Implements` (`SemaphoreSpec`); `TakenIsResumed`, `PermitReachesQueue` |
| `waiting` | one instance each of semaphore (2 permits), wait group, channel, condition variable, stream, completion, select, timers, heap (6 entries) | below |
| `structures` | instances of join, parker, the four queues, slots, stack pool, descriptors, exec tasks, blocking pool, coroutines | below |
| `parker_lost_wake` | futex parker, 2 unparkers, callers that look by plain loads | violated: `NoUnparkLost` |

`waiting`: nobody stays in a wait list beside what it waits for (`NoneForgotten`)
or asleep on its permit (`NoneSleepsThrough`); waiters are in one list or chain
exactly while their owner waits (`WaiterInOnePlace`), a kept Waker or timer entry
calls back once (`CallbackOnce`) and nothing is kept of a party that left
(`NoneKeptAfterLeaving`); what a wait returns is true (`ResultIsTrue`), items are in
order and accounted for (`ItemsInOrder`), the mutex of a condition variable stays
one (`MutexBalanced`), the heap is one (`HeapInOrder`); a stop request ends its
operation (`StopEndsOperation`), and nothing touches it afterwards
(`NothingAfterDone`).

`structures`: joiners, exec waits and blocking jobs are not left sleeping
(`NoneSleepsThrough`), no unpark() is lost (`NoUnparkLost`); FIFO queues are
(`FirstInFirstOut`), stealing queues give each item, and the stack pool each stack,
once (`EachItemOnce`), and what queues say of themselves at rest is true
(`AnswersAreTrue`); task slots are in one place (`SlotsInOnePlace`), live tasks are not
undercounted and the last one is noticed (`LiveTasksCounted`);
readiness is not missed (`ReadinessNotMissed`), wakers belong to waiting parties
(`WakerAlive`); joins, connects and receivers are told the truth, once
(`OutcomeIsTrue`), nothing destroyed is touched (`DeadUntouched`), and a thread knows
what it runs while resumers wait (`ResumersWait`).

Bounds.  One slot and two incarnations is the smallest instance in which a slot
is reused behind a token; two wakers and two workers let a wake, a second wake
and a reaper meet.  With two incarnations the generation never goes round, so
`GenModulus = 2` shows a wrap-free system: a token kept over a full round of
2^32 reuses would match again.  For the idle workers, two workers and one
producer give each Dekker pair its two sides and leave a third thread to
interfere; the ramp-up finding needs a third worker, and its run keeps to a part
of the behaviours (`InjectedOnly`), which is enough for a violation.  Two ticks
give two sleepers different deadlines, the later one added first or last.  A
semaphore needs a holder, a barging acquirer and a waiter; the second permit of
`waiting` lets one release() serve two.  There a task, an operation and up to three
threads give each primitive a party of each kind, one that is unwound and one
that is stopped; a channel of two places and a stream that overflows go round
their rings.  Queues have two blocks of two entries and take more items than they
hold, so that blocks are reused: by two thieves or two producers
that meet, or further around by one.  Two slots with caches of one make a spawn at
the limit find its slot in another worker's cache.  Three stacks of two sizes
against one size class and a shared pool of one put every limit in reach.  A
descriptor has an operation on one side and a thread on the other, or a task
whose descriptor's number is used again.  Three coroutines on two threads nest,
migrate and destroy one another.

`waiting` and `structures` do not check for deadlock: a bounded instance ends, and
its callers need not call.  In `idle_workers` the instance with a Driver may
stutter, since there the workers can all sleep for good: that is what
`driver_lost_wake` is about.

Fairness.  In `ParkWake`: threads keep running (weak fairness of hooks, slab
steps, the stop scan and reaping); a worker takes a queued task and looks at the
live count each time round its loop, and a release polls the pins (strong
fairness, since these conditions may come and go between two looks); a body that
sees stopRequested() finishes and drops its shield, and what a shielded frame
waits for does complete.  `WakersRest` says that foreign threads call wake() and
forEachTask() finitely often: the polling of the pins has no bound otherwise.
In `Timekeeper`: threads keep running, tasks end or park, time passes, and of
infinitely many tasks the run loop dispatched infinitely many are followed by
`maintain()`, since `tick` counts them.  `PinnedRest` says that tasks do not hand
over to each other for ever: park() and the end of a task switch to the next
local task directly, `tick` stands still meanwhile, and a worker that never gets
back to its loop does not look at the timers.
In `Semaphore`: threads keep running, a thread that spins on the lock gets it
eventually, holders release.
In `MCWaiting`: a party that has a step of its own to take takes it, and a stop
callback that runs ends (weak fairness).  Nothing makes a caller call, a stop
request come or the scheduler unwind a task.

## What the violated runs show

* `driver_lost_wake`.  `unparkWorker()` wakes the Driver only if the worker *is*
  the timekeeper when it looks; a worker that claims the role just afterwards
  enters `driver->wait(-1)` and does not look at its Parker token.  Injected work
  then waits for an unrelated event; so does stop(), through the same window.
* `ramp_up`.  A timekeeper without a timeout is poked by `requestRampUp()`,
  returns before the request is due, leaves the role and runs a task.  The
  request stays and suppresses later ones, also when it is overdue.
* `parker_lost_wake`.  `FutexParker::park()` consumes its token with a release
  store.  While it sits in the store buffer, the caller looks at its condition by
  a plain load and does not see it; the condition changes, unpark() sets the
  token and finds no sleeper; the buffered store wipes the token out, and the
  next park() sleeps.  Workers are not exposed: they look after a read-modify-
  write of the idle mask, which drains the buffer, and `structures` checks the
  Parker under such callers.

## Observations

What the models say beyond the runs.

* Timer throttle (SchedulerCore.cpp:268).  A worker that gives the timekeeper
  role up and finds work asks for another keeper; within `rampUpDelay` of the last
  such request it is turned away, and nobody asks again until the next dispatch.
  With `RampUpDelay = TRUE` `TimersStayCovered` fails: pending timers wait for the
  task, not for the delay, beside an idle worker ("timers stay covered, just up
  to that much later", lines 257-258).  It fails with `Pinned = TRUE` too:
  addTimer() sees no work behind the sleeper, a pinned task arrives before the
  sleeper parks, and park() runs it directly.
* Wait group (WaitGroup.cpp:8-29).  With `Reuse = TRUE`, add() between the
  decrement to zero and the detaching of the waiters releases waiters of the new
  round, or leaves those of the old one: `WaitMeansZero` and `NoneLeftAtZero` fail.
* Condition variable (ConditionVariable.cpp:8-12, 40-42).  A task unwound in the
  lock() that ends wait() also unlocks a mutex it does not hold; the comment
  speaks of wait() only, and `RelockOnUnwind` is disarmed by then.  `MutexBalanced`
  counts such tasks.
* Foreign spawn (TaskFactory.h:53, SchedulerCore.cpp:127-129).  A foreign thread
  that passed the check for `stopping` may publish its task after the workers
  left; ~SchedulerCore() releases it.  `NoneLeftBehind` is about tasks' own spawns.
* Cursors (PackedCursor.h).  "Versions wrap silently" is harmless at 64 bits only:
  with `Word` 8 or 16 a wrapped version wedges a BwosQueue (`NeverWedged`).
* minRemainingSlots() (BwosQueue.h:147-159) asks isNextBlockWritable() with the
  next block's last version instead of the coming one and so never counts that
  block ("current block plus the next one if it is already writable").  The
  answer is safe (`RoomIsGuaranteed`), and smaller than it could be.
* BbqQueue.  While another thread is between two of its steps, a producer may be
  told Full, a consumer Empty, though neither is so; at rest the answers are right
  (`FullMeansFull`, `ProbeIsRight`).
* Stack pool.  A thread's exit and a stack of the wrong size go upstream though
  the reserve is below its target; concurrent reserve() calls may exceed it.
* connect() on a socket that is registered already may take the report of the
  unconnected socket for the end of the handshake, as Async.h:153-156 says.
* Coroutine.  A context inside resume() is `Suspended` (Switch.h:57-61), which
  CoroutineState.h:11 describes as "yielded; may be resumed by any thread";
  resume()'s check (Coroutine.h:118) would accept it.  The model's callers leave
  it alone.

## Proofs

Eleven modules have inductive invariants, proved for every value of the constants
(any number of tasks, workers, wakers, parties, sleepers, permits, and so on):
`ParkWake`, `IdleWorkers`, `Semaphore`, `Timekeeper`, `Registration`, `Join`,
`Parker`, `ExecTask`, `BlockingPool`, `Coroutine`, `TaskSlots`.  Each invariant was first checked
by TLC, part by part, on instances of the size of the runs.

| Theorem | Module | States |
|---|---|---|
| `TypeCorrect` | `ParkWakeProofs` | `Spec => []TypeOK` |
| `ResumedOnce` | `ParkWakeProofs` | `Spec => []ScheduledOnce` |
| `PointersOutlived` | `ParkWakeProofs` | `Spec => []NoUseAfterFree` |
| `WakeIsSticky` | `ParkWakeProofs` | `Spec => []NoLostWake` |
| `TokenIsExact` | `ParkWakeProofs` | `Spec => []TokenReachesItsTask`, if `Tasks` has at most `GenModulus` elements |
| `WokenBeforeReaped` | `ParkWakeProofs` | `Spec => []StopSeenBeforeUnwind` |
| `DriverIsExclusive` | `IdleWorkersProofs` | `Spec => []OnlyKeeperInDriver` |
| `ClaimIsKept` | `IdleWorkersProofs` | `Spec => []ClaimReachesSleeper` |
| `WorkIsSeen` | `IdleWorkersProofs` | `Spec => []InjectedWorkIsSeen` |
| `StopIsSeen` | `IdleWorkersProofs` | `Spec => [](~HasDriver => NoneSleepsThroughStop)` |
| `TypeCorrect` | `SemaphoreProofs` | `Spec => []TypeOK` |
| `KeepsItsPromise` | `SemaphoreProofs` | `Spec => Implements`, the refinement of `SemaphoreSpec` |
| `CountIsCovered`, `PermitIsSeen`, `WaiterOutlivesNotifier` | `SemaphoreProofs` | `CountCoversList`, `NoPermitForgotten`, `NoDanglingWaiter` |
| `TypeCorrect` | `TimekeeperProofs` | `Spec => []TypeOK` |
| `KeeperIsTold` | `TimekeeperProofs` | `Spec => []KeeperHasDeadline` |
| `TimersCovered` | `TimekeeperProofs` | `Spec => []TimersStayCovered`, if `~RampUpDelay` and `~Pinned` |
| `RegInit`, `RegKeeps`, `RegMeans` | `RegistrationProofs` | `RegInv` is inductive and implies `ReadinessNotMissed`, `ExhaustedIsTrue`, `WakerAlive`, `StopNotForgotten`, `NothingAfterDone`, `ConnectedMeansConnected` |
| `SleepersHear` | `MCStructuresProofs` | `Spec => []NoneSleepsThrough`: `Join`, `ExecTask`, `BlockingPool` |
| `UnparkArrives` | `MCStructuresProofs` | `Spec => []NoUnparkLost`: `Parker` |
| `ReadinessIsReported` | `MCStructuresProofs` | `Spec => []ReadinessNotMissed`: `Registration` |
| `WakersAreAlive` | `MCStructuresProofs` | `Spec => []WakerAlive`: `Registration` |
| `OutcomesAreTrue` | `MCStructuresProofs` | `Spec => []OutcomeIsTrue`: `Join`, `Registration`, `ExecTask` |
| `TheDeadStayUntouched` | `MCStructuresProofs` | `Spec => []DeadUntouched`: `ExecTask`, `Registration`, `Coroutine` |
| `ControlComesBack` | `MCStructuresProofs` | `Spec => []ResumersWait`: `Coroutine` |
| `NoSlotIsLost` | `MCStructuresProofs` | `Spec => []SlotsInOnePlace`: `TaskSlots` |
| `LiveTasksAreCounted` | `MCStructuresProofs` | `Spec => []LiveTasksCounted`: `TaskSlots` |

All invariants of the runs `park_wake`, `idle_workers`, `idle_workers_stop` and
`timekeeper` are theorems, and so is the refinement `mutex` checks.

**ParkWake.**  Assumptions: `ConstantsAreDistinct`, `MaxTasksPositive`,
`GenModulusPositive`.  The invariant comes in layers, each used by the next:

* `TypeInv`: `TypeOK`, a thread inside the slab is at a slot (`AtASlot`), a hook
  has a task (`DepIsTask`).
* `OnceInv`: the holders of a task exclude each other pairwise (`Exclusive`),
  which says what `ScheduledOnce` counts in a form that is preserved action by
  action; nobody holds a task before it is scheduled (`NotYetRun`); and only
  workers reap (`Roles`).
* `FreeInv`: the slab points to tasks that are published and not yet taken out
  (`SlabIsLive`); whoever loads from a slot or holds a pointer out of it has the
  slot pinned, but for a reaper after its claim, whom `Exclusive` protects
  (`Pinned`); a freed task is gone (`FreedIsGone`); a worker that left holds
  nothing (`ExitedIsIdle`).  `Pinned` is where the order of releaseTask()'s
  stores counts: the task leaves the slab before the pins are polled, so a pin
  taken later cannot load it.
* `SlotInv`: a slot is free or has one owner, who is found through it and carries
  its generation until releaseTask() takes it out and bumps that; `Done` is final.
  With it a token that is not stale finds its task, and `WakeInv` follows a wake
  from there: whoever is owed a run has one coming.
* `TokenInv`: each generation of a slot belongs to a task of its own.  Since the
  generation wraps, this needs a bound on the tasks; past 2^32 reuses of one slot
  a token may be taken for a later task's, and the code does not prevent it.
* `StopInv`: workers reap only after the scan of stop() is over (`ScanThenReap`),
  and whatever the scan has passed runs before it can be Parked (`ScanReaches`).

**IdleWorkers.**  Assumption beside the constants' own: `SomeWorkers`, there is a
worker and there are finitely many (resolveWorkerCount()).  `IdleInv` says where a
call returns to; that the role is held from claim to release (`RoleHeld`); that
`searching` counts exactly those in searchForWork() or spinning, so that a
notifier which relies on it relies on somebody who will look
(`SearchingCounts`); that whoever set its idle bit still has it, or has its token,
or is the target of an unpark under way (`WakeUnderWay`); that work with nobody to
look for it has a notifier or a token (`WorkCalls`); and that a worker which
stop() is through with has its token if it went to sleep unaware (`StopReaches`).
`StopIsSeen` is restricted to schedulers without a Driver: with one it is false,
through the window that `driver_lost_wake` shows.  The upper bounds in `TypeOK` rest
on a sum over the queues and stay with TLC.

**Semaphore.**  `SemInv`: whoever is listed is listed once, inside its wait and not
notified (`ListInv`); the same for the chains of releasers, which hold their
waiters alone (`ChainInv`); the lock is held at five places (`LockInv`);
`waiterCount` is the length of the list, plus one at three places under the lock
(`CountInv`); permits are free, held or forfeited (`PermitInv`); and
`NoPermitForgotten`, which is inductive beside them.  For the refinement, a
party holds a permit from the step that takes it for the party, be it a
releaser's hand-over; every step either changes `holders` and `size` as
`SemaphoreSpec` allows or leaves both alone.  `PermitInv` makes the number of
holders respect `size`.  Fairness is not part of what is refined.

**Timekeeper.**  Assumptions: `NoneIsNobody`, `TimeIsNatural`, `SwitchesAreBoolean`.
`TimerInv` says that a sleeper runs on one worker or is gathered by one
(`OwnerInv`, `GatherInv`); that a queued entry is in one heap and unfired, or with
the one worker that took it out (`HeapInv`, `ExpireInv`); that timerMask and
`earliest` cover the heaps but for an entry that is being added (`MirrorInv`);
what keeperDeadline is while the timekeeper scans and sleeps (`RoleInv`); and the
argument of the comment above addTimer() (`KeepInv`): for every queued entry the
timekeeper has yet to scan that queue, or sleeps no longer than the entry, or
has a token, or will be asked by who adds it.  `KeepInv` is needed beside
`KeeperHasDeadline` because the latter says nothing of a scan under way, and
an adder that asks must be one that asks this timekeeper.  For `TimersCovered`,
`CalmInv`: with a worker asleep and no timekeeper, somebody is on the way to the
dispatcher's check or to the claim, or still adds the very entry.  It holds
without `rampUpDelay` and pinned tasks; with either, TLC finds a counterexample
to `TimersStayCovered` itself (Observations).

**Registration.**  Assumption: `Roles`, which says who is what - the poller is one
of the threads, an operation is neither a task nor a thread, and a socket that has
to be connected first is used for that alone.  `MCStructures` assumes it of its
descriptors as `RolesAreTheirs`.
`RegInv` has a part for the descriptor and one for each party.  Of the
descriptor: two parties that transfer use different sides (`OnePerDirection`);
the state of the handshake and who is about to end it (`HandInv`); a waker is of
its own side (`WakersTyped`); a side that has ended has been reported or is about to
be (`EndsReported`); a side marked exhausted has been drained since the last event
(`Exhaustion`), and the end of the handshake is an event (`HandshakeReported`).  Of
a party: it is registered while it can be called (`HoldsWaker`), whoever takes its
waker has it in its chain (`IsTold`), what it read of the event counter is not
ahead of it (`SeenIsPast`), and if it waits although its side is ready, there is an
edge to come (`EdgeComes`) or an interest that is armed (`ArmedStays`); a stop
request leaves its mark until it is served (`StopMarked`).  `EdgeComes` is where the
order in the code counts: a transfer reads the event counter before the system
call and registers with what it read.  The invariant has to say of a party in the
middle of a call what it will need when it blocks, and that is most of it.

**Join, Parker, ExecTask, BlockingPool, Coroutine.**  Assumptions: `PartiesDiffer`,
`PoolIsFinite`, `ContextsDiffer`, `WaitsAreCounted`.  `Join` is a Dekker pair: a joiner
past its look at `done` has registered, and what escaped the body is in the state
until join() takes it (`JoinInv`).  In `Parker` nothing but a store that ends a
park() is ever buffered (`NothingBuffered`), so a condition that came after the
caller's look has left its token or an unpark() is under way (`TokenThere`), and
whoever took the announced sleep out of the word will wake the sleeper
(`WakeThere`).  In `ExecTask` of all senders of a task's waits only the last wait's
can still store a result or call back, and a wait that is over has been heard
(`Senders`, `Hears`); the receiver has been called once from the end of the function
or a refused start on (`CalledOnce`), and until then only are stop requests passed
on to the operation (`Forwards`).  In `BlockingPool` the two counters are
the numbers of threads they stand for, and either as many threads are on their way
to the queue as there are jobs, or all kMaxThreads are up and none of them waits
(`PoolInv`).  In `Coroutine` what is Running runs on a thread that knows it
(`RunsSomewhere`), a coroutine has one resumer at a time (`OneWaits`), which exists
(`ResumersExist`), and somebody waits for whatever is unwound or has an exception
parked (`BodiesEnd`).

**TaskSlots.**  Assumptions: `SlotsAreNumbered`, there are finitely many slots and 0
is none of them; `BatchFits`, a batch is no larger than a cache (32 and 64, Worker.h:
111-112), so that a full cache has a batch to give back; `TeamsAreTeams`, the workers
of a scheduler differ.  The invariant has two halves.  `SlotPlaces`: the
free list and the caches hold nothing twice, and they, the live tasks and what
is in hand are apart and together all slots; an action moves a set of slots
from one of these to another (`SlotsMove`, `HandsMove`).  `CountInv`: as many
tasks were created as have finished or are live, summed over the counters of
all workers (`LiveIsSum`; a sum is the cardinality of a set of pairs, `Tally`, so
that no induction over the workers is needed).  A count looks at these counters
one at a time while they move, so the invariant compares what it has seen with the
part it has passed (`Seen`): it may find fewer finished than there are, and more
created, never the other way round, for the tasks that were live when it began.
The two properties that a wrong order of the passes would break follow from
the same idea.  Whoever finishes last with stop() requested will find nothing
left and tell (`SomeoneWillTell`, `WillTell`); and for each live task some worker
is not on its way out, or began its count after the task was created and so
has to count it (`AllMinded`, `Minds`).

What stays with TLC, and why:

* Liveness (`StopCompletes`, `SleepersWake`, `TakenIsResumed`, `PermitReachesQueue`,
  `StopEndsOperation`): fairness is out of the prover's reach.
* `NoLostWork` with a Driver and `RampUpIsAnswered`, which are false in general
  (runs `driver_lost_wake`, `ramp_up`).
* The other properties of `MCWaiting` and `MCStructures`: each is a conjunction over
  several modules, some of which have no theorems (the lock-free queues, the stack
  pool, the primitives over `Waiters`).  `Semaphore`'s share of `NoneForgotten`
  and `WaiterInOnePlace` is proved (`PermitIsSeen`, `WaiterOutlivesNotifier`).
* `TimerHeap`: what its loops compute is an induction over data.

## Not modelled

* Weak memory, but for the Parker's store: each access is sequentially consistent.
* Sockets, resolver and addresses: straight-line wrappers around system calls.
* Context switches below one step: registers, exception globals, stack layout,
  sanitizer calls; mmap and guard pages.
* Statistics and the stall report (its visit of every task is in `ParkWake`).
* The default scheduler of the runtime, a static object; CPU affinity.
* Completion signatures, environments and concepts of exec, which are types.
* The park/wake protocol in the build without exceptions; benchmarks and tests.

## Plan

What is left is proof:

1. `ParkWake`: the action properties behind the invariants (a task that is `Done`
   or freed stays so; a generation moves only when its slot has no owner).
2. `Semaphore`: that `waiterCount` is read as zero by release() only if no waiter
   that announced itself before is left (an action property, from `CountInv`).
3. The primitives over `Waiters`, `ConditionVariable` and `WaitGroup` first: their
   instances in `MCWaiting` have constants for parameters already.
4. Lemmas on `PackedCursor`: an addition within a block leaves the version alone.
