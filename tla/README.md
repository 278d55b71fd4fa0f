# A TLA+ model of CxxFiber

CxxFiber is a C++ library of cooperative fibers ("eco") that run on one or
several scheduler threads, with synchronisers for fibers and with hooks that
turn blocking system calls into waits of the calling fiber. This directory is a
formal model of it: TLA+ modules that follow the code, configurations that TLC
checks, and proofs that TLAPS checks. The code is the reference for every
definition; `PROJECT.json` lists, for each definition, the lines it stands for.

## 1. The system

### Components, their state and operations

| Component | State | Operations | Correct if |
| --- | --- | --- | --- |
| **EFiberScheduler** | the default run queue; one `SchedulerStub` (run queue, poller, `hungIoWaiter`) for each thread; `totalFiberCounter`; `interrupted`, `hasError` | `schedule`, `join()`, `join(n)`, `interrupt`, `addtimer` | no fiber is lost, a thread leaves only when no fiber is left or on `interrupt`, `join` ends when the last fiber does |
| **EFiber** | `state` (NEW, RUNNABLE, BLOCKED, WAITING, TERMINATED), `boundQueue`, `boundThreadID`, `blocker`, `isIoWaitTimeout`, `packing` | `yield`, `sleep`, `swapIn` | it is in one place at a time: a queue, a loop, a wait queue, a timer |
| **EFiberConcurrentQueue** | a linked list with a dummy node, a head and a tail spin lock | `add`, `poll` | each operation is atomic and FIFO, nodes are in one place |
| **EFiberBlocker** | `wakeup_` (permits), `limit_`, `waitQueue` | `wait`, `tryWait`, `tryWait(time)`, `wakeUp`, `swapOut` | a counting semaphore: no wake-up is lost or used twice |
| **EFiberMutex** | one blocker (1, 1) | `lock`, `tryLock`, `tryLock(time)`, `unlock` | one owner |
| **EFiberCondition** | a queue with a blocker for each `await` | `await`, `signal`, `signalAll` | no `await` is forgotten |
| **EFiberChannel** | two blockers and a data queue | `read`, `tryRead`, `write`, `tryWrite` | capacity kept, each element read once, no standoff |
| **EIoWaiter** and **eco_ae** | the registered descriptors with a mask and a fiber, the time events, the count of waiters, the wake-up pipe | `setFileEvent`, `delFileEvent`, `setupTimer`, `cancelTimer`, `onceProcessEvents`, `signal`, `interrupt` | what is registered is what fibers wait for |
| **EHooker** | the original functions | `read`, `write` and their like, `poll`, `select`, `connect`, `accept`, `sendfile`, `epoll_wait`, `sleep`; `close`, `fcntl`, `ioctl`, `setsockopt`, `dup2` | a call waits without blocking its thread and returns what the system call would |
| **EFileContext(Manager)** | for each descriptor: the mode the program asked for, the timeouts | `get`, `remove`, `clear` | the library's own O_NONBLOCK never shows, contexts are those of the open file |
| **EContext** | the stack, registers and `errno` of a fiber | `swapIn`, `swapOut` | the CPU goes back to where it came from |
| **EFiberLocal** | values in the fiber | `get`, `set`, `remove` | a value belongs to one key and one fiber |
| **EFiberTimer** | the fiber that waits for it | `cancel` | runs after its delay (with a period, after the delay and then each period); after `cancel` not at all, or with a period once more at most |

`PROJECT.json` has the same list with what is and what is not modelled.

### How they interact

A *scheduler thread* runs a loop: take a fiber from its own queue, look at the
poller if anything waits there, switch to the fiber, and when the fiber gives
the CPU back do what its `state` says: queue it again, `swapOut` on its blocker,
leave it with the poller, or delete it. With nothing to run, the thread sleeps in
its poller for up to 3000 ms. Three kinds of actors put fibers on its queue: its
own poller (descriptors, timers), `wakeUp` called by a fiber or plain thread
anywhere, and `schedule`. Those on other threads must also wake the poller
through its pipe. The synchronisers are written on blockers only; the hooked
calls on the poller of the thread.

### What is hard about it

* A fiber that decides to wait is not waiting yet: it switches to the loop, and
  the loop puts it on the wait queue (`EFiberBlocker::swapOut`).
* `wakeUp` polls the wait queue under the lock and resumes the fiber outside it.
* A waiting fiber may be resumed by a timer and by a waker or descriptor.
* `schedule` and `swapIn` race with a thread that is going to sleep.
* The loops leave by a counter that other threads change.
* The run queue reuses the nodes that travel with the fibers, under two locks.
* Descriptor numbers are reused, while the contexts are kept by number.
* `setsockopt` changes the context before it asks the kernel, which may refuse.
* Times are kept as seconds and milliseconds, the clock may be set back, and the
  time events that were cancelled stay on the list for a while.
* What is left on lists and stacks keeps a fiber, and so its local values, alive.

The list of hazards in `PROJECT.json` names each at its line, with the properties
that cover it, or why none does yet.

## 2. The modules

    Semaphore <-- implemented by -- FiberBlocker -- FiberBlockerProofs
        ^                           (loop, timers, pipe, wait queue)
        |  built on
        +-- FiberMutex -- FiberMutexProofs
        +-- FiberChannel         +-- FiberSync -- FiberSyncProofs
        +-- FiberCondition           (all three, over one Semaphore)

    FiberFifo <-- implemented by -- FiberQueue -- FiberQueueProofs
    FiberScheduler -- FiberSchedulerProofs
    HookedFiles -- HookedFilesProofs
    HookedIo -- HookedIoProofs
    FiberTimers -- FiberTimersProofs

Every module `X` that TLC runs has a module `XMC` with the values of the
constants, and one `.cfg` for each run. The three synchronisers run in
`FiberSyncMC`.

* **Semaphore** (abstract). Permits, callers inside a wait, and whether a call
  has its permit. `Handoff` is a release that goes straight to a waiting caller.
  The promise has a condition: only the callers in `Steady` make timed calls and
  yield. On several scheduler threads a fiber is not among them, because there
  the code breaks the promise (sections 4 and 6).
* **FiberBlocker**. One action for each step another thread can see: the loop
  (`Poll`, `PollEmpty`, `OnceProcessEvents`, `TimeEventProc`, `Requeue`,
  `SwapOutTrue`, `SwapOutFalse`, `Reap`), the calls of a fiber (`WaitNow`,
  `FiberWait`, `WaitReturn`, `TimedReturn`), those of a plain thread
  (`ThreadWait`, ...) and the pieces of `wakeUp` and `swapIn` (`WakeUpKeep`,
  `WakeUpFiber`, `SwapInRead`, `SwapInClear`, `SwapInAdd`, `Signal`).
  A section under `sync_` is one action.
* **FiberScheduler**. From the first `schedule` to the return of the join or its
  exception. A behaviour begins with `join(n)` or with `join()`: the variable
  `group` says which (`JoinAlone`), because the two loops differ in how they are
  stopped and signalled. The loop as above, with the counter read (`Top`) apart
  from the queue (`Poll`, `PollEmpty`, `Leave`) and from `hungIoWaiter` (`Hang`);
  `schedule` of a running fiber in three steps (`Spawn`, `SpawnAdd`,
  `SpawnReadHung`); `interrupt`, called by a fiber or by a thread of the
  program, as the flag and then one signal for each poller it finds (`Pollers`).
* **FiberMutex**, **FiberChannel**, **FiberCondition**. Their methods, one
  action between two operations on blockers, with the operations of Semaphore,
  and so with its condition: `tryLock(time)` and `tryRead`, which yields, are for
  `Steady` callers. With all callers in it, as in the run, this is one scheduler
  thread, or plain threads; with none of them it is the other methods on any number
  of threads.
* **FiberSync**. The three together: a caller does one operation at a time, and
  may hold a mutex while it reads, writes or awaits, and so may hand it on or keep
  others out while it is away. The blocker of an `await` is used again when
  nothing refers to it any more (`Alive`), as the code's reference counts
  allow.
* **FiberQueue** and **FiberFifo** (abstract). Each read or write of the list in
  `add` and `poll` is a step; the locks are variables. A deleted fiber frees the
  node it has.
* **FiberTimers**. One thread with a clock. The time events are the poller's
  list in its order, with the deleted ones that have not been unlinked, and a
  time of seconds and milliseconds (`AddToNow`, `IsDue`, `TimeTo`). The loop of
  `join()` sleeps for the timeout it computes (`Idle`, `PollReturn`). Fibers
  sleep and wait with a time, and make other fibers, whose parent they become
  (`Spawn`); the fibers of `addtimer`, from before `join()`
  (`AddTimer` by nobody, until `Join`) or by a fiber, follow `TimberFiber::run`
  and can be cancelled. The program's code, with all it may do, is in a fiber's
  `run()` and in a timer's (`Program`). `refs` counts the references to a fiber: `Refer` makes
  and drops some and destroys what is left without any, parents too.
* **HookedIo**. One scheduler thread with its poller, which is epoll or kqueue:
  they differ in what they report of a descriptor (`EpollReports`,
  `KqueueReports`). A time event left from an earlier wait of a fiber would be
  beside that of the present one (`timer`), and fire in its turn. A hooked call is a record `call[f]` that moves through "fn"
  (try the system call), "try" (ask the kernel) and "wait" (registered and away).
  What becomes of a descriptor is the environment (`Become`, `Vanish`). `select`
  registers nothing, because the first look empties the sets it then reads.
* **HookedFiles**. Descriptors, open files and contexts. A hooked call is split
  where another thread can come between: the look-up of the context, the
  context's change, the system call. That of `setsockopt` may fail, after the
  context was changed; `Millis` is what a context makes of a time, whole
  milliseconds in an `int`.

Bounds. In most modules everything that is counted is bounded by the number of
fibers, callers, descriptors or by the `Limit` of a blocker. The named bounds are:
`Horizon`, where the clock of FiberTimers stops, with sleeps that go beyond it;
one setting back of the clock (`skewed`); one `interrupt` in a behaviour; and, in
`FiberSyncMC`, a limit for the channel's blockers that no behaviour comes near (the
code has no limit there; the theorems assume no more than that).

## 3. What TLC checks

| Run | Instance | Shows |
| --- | --- | --- |
| `blocker_mt` | two scheduler threads with a fiber each, a plain thread, a blocker (0, 2) | `NoIdlePermit`, `NoMissedSignal`, and that FiberBlocker implements the fair Semaphore: a wake-up is never lost, and the fiber runs without help from the poll timeout |
| `blocker_st` | one thread, three fibers, blockers (1, 1) and (0, 1), all operations | `InOnePlace` (no fiber is queued twice or lost), and that it implements Semaphore with `tryWait(time)` too |
| `blocker_assert` | two threads, `tryWait(time)` | *violation*: the assertion of the loop fails, see section 6 |
| `scheduler_join` | `join()` and `join(2)`, two fibers that spawn, sleep, block, wake | `CounterExact`, `LeavesOnlyWhenDone`, `NoFiberLost`, and `FibersFinish`, which needs the poll timeout |
| `scheduler_stop` | `join()` and `join(2)`, one fiber that sleeps or blocks, `interrupt` by it or from outside at any time | `InterruptEndsLoops`, `JoinReturns`, `CleanReturnMeansDone`; the poll timeout is needed only by `join()` |
| `sync` | three `Steady` callers, two mutexes, a channel of capacity 1, two blockers for awaits | `MutualExclusion`, `LockedIffOwned`; `Balanced` (so no write exceeds the capacity and no read gets a null), `NoStandoff`; `SignalsReachAwaits`, `NoForgottenAwait` |
| `queue` | three threads, two queues, two fibers | `NodesSound` (a node is in one place and never used after it was freed), and that FiberQueue implements FiberFifo |
| `timers` | a fiber and a timer, each of which may make the other, seconds of two milliseconds, times of 0 and 1 | `OnTime` (no sleep ends early, none more than a second late), `WaitsHaveEvents`, `CancelStops`, `RefsExact`, `LocalsFreed`, `TimedWaitEnds` |
| `timers_late` | two fibers that sleep and wait | *violation*: an overdue event does not end the poller's sleep, see section 6 |
| `io` | two fibers, both ends of a pipe, every waiting call, epoll and kqueue | `RegisteredIffAsked`, `SleepIsWhole`, `WaitersExact`, `ReadyEndsWait`, for hang-ups as far as the backend reports them |
| `io_late` | two fibers that read and sleep | *violation*: a false timeout, see section 6 |
| `files` | two threads, three descriptors, three files, a time and none | `NeverBlocks`, `ModeFaithful`, `TimeoutCurrent` |

Every module's types are an invariant of one passing run (`blocker_mt` for
FiberBlocker, `scheduler_join` for FiberScheduler, `sync` for the synchronisers).

Why the bounds are enough. The races are between a waiter, a waker and a loop:
two fibers on two threads with an outsider give each its own thread, and the
third fiber of `blocker_st` lets two wait while one wakes. Larger
instances were explored once: FiberBlocker with three fibers and an outsider
(321 000 states, safety), FiberScheduler with a third thread (172 000 states
up to symmetry) show nothing new. Seconds of two milliseconds have the cases the
arithmetic splits by: a carry, a borrow, none; sums of several sleeps of 1 cross
seconds, and the proofs are for every length of a sleep. In `timers`, a child that
outlives its parent, a timer whose `run()` makes a fiber and waits, a cancelled
periodic timer that runs once more, and an event left on the list at the end, of a
fiber or of its child, all happen. The queue needs three threads for a poll on
one list, an add on it that has not moved its tail, and the deletion of the fiber
between. Three descriptors let `accept` and `dup2` meet a number in use. Two
blockers for awaits let one be waited on while the other is swept by
`signalAll`. Each property has a mutant in `PROJECT.json`, a change of one
definition that makes it fail in the same instance.

Symmetry is used where only safety or an abstract safety specification is
checked (`sync`, `queue`, `files`). Deadlock is not checked where the system may
stop: fibers end, or all wait for a wake-up nobody has to send.

### Fairness

* *FiberBlocker, FiberScheduler*: the operating system runs every thread, so the
  steps of a loop and of a waker are weakly fair. Fibers are cooperative:
  one that gets the CPU again and again gives it back (strong fairness, since it
  may yield between). A timer that stays set fires. The return of the poller
  after 3000 ms is fair in `scheduler_join`, where `schedule` may miss a sleeping
  thread, and in `scheduler_stop` for `join()` only, which an `interrupt` from
  another thread does not signal; in the other runs a wake-up that only the timeout
  would save counts as lost.
* *FiberTimers*: the thread runs (weak fairness of `ThreadStep`, written with
  `CanGoOn`, when it is enabled, so that TLC need not find that out at every
  state): the loop goes on, or the fiber that has the CPU. And time passes (strong fairness of `Tick`: computing takes no time
  in the model, so the clock need not be able to move in every state).
* *HookedIo*: the loop runs, a running fiber goes on; the CPU is given back and
  a transfer succeeds if either stays possible again and again. Nothing is assumed
  of the kernel or of timers.
* *Semaphore*, as the abstract specification: a permit and a caller waiting for
  it do not stay side by side, and a call with a permit returns.

## 4. What is proved

Every invariant that a passing run checks and both refinements (without fairness)
are theorems, for every number of fibers, threads, blockers, callers, descriptors, and every value of the
other constants that satisfies the named assumption of the module. Two of them
have a hypothesis, `InOnePlace` and `ImplementsSemaphore`, which without it are
false (see below), and the theorems about the synchronisers inherit it as a guard
of Semaphore: what gives up or yields is one of `Steady`, the callers for which
the blocker was shown to keep Semaphore's promise. TLC checked each property on a small instance before it was
proved, and the inductive invariants too where it can evaluate them.

### The blocker: `FiberBlockerProofs`

* **TypeCorrect** and **NoIdlePermitHolds**. The types are inductive only with
  `Held`: where the loop or a waker is in the middle of something, it holds a
  fiber. `NoIdlePermit` is then inductive as it stands: permits grow in
  `WakeUpKeep` only, which found the wait queue empty, and the wait queue grows in
  `SwapOutTrue` and `ThreadWait` only, which found no permit; the lemma
  `WithdrawnType` says what a timed-out waiter leaves of the queue.
* **NoMissedSignalHolds**, from `Awake`: a thread that is going to sleep, or
  asleep, with a fiber on its queue has the byte in its pipe or a waker on the way
  to `signal`.
* **InOnePlaceHolds** and **AssertBlockerHolds** (the assertion of the dispatch
  loop), for either of two hypotheses on the instance: `Plain`, any number of
  threads and outsiders, where no fiber uses `tryWait(time)` or `yield`; or
  `Solo`, one scheduler thread without outsiders and with every operation. The
  invariants `PlainInv` and `SoloInv` say of each place what is in it and in
  what state: the loop, a run queue, the hands of a waker, the wait queue, a
  timer.
* **ImplementsSemaphoreHolds**, for the same two: each step of FiberBlocker is a
  step of the abstract Semaphore or changes nothing it sees. The lemmas
  `AcquireStep` to `GiveUpStep` have what an abstract step needs; `PlainStep` and
  `SoloStep` say which one each action is.

Neither hypothesis is there for the proof's sake. With a timed wait on several
threads the assertion fails, the first finding of section 6. With a `yield`
on several threads a fiber may be found in the state BLOCKED that it kept from a
wait: `swapOut` returned false because a permit had come, `wait` returned, and
`yield` leaves the state alone; the loop then swaps it out again on the old
blocker (`EFiberScheduler.cpp:576`, in the hazards list). On one thread nobody
can bring a permit in that gap, which `SoloStates` says.

### The synchronisers: `FiberMutexProofs`, `FiberSyncProofs`

* **MutualExclusionHolds** and **LockedIffOwnedHolds** for the mutex alone, from
  `MutexInv`: the two properties, the types, and `CallsClean` (a caller outside a
  call has no permit in hand and nobody waits for a mutex it owns). The lemma
  `TokenTaken` is the case in which a caller takes the permit, `SameTokens` all the
  cases in which nobody does. They are no more general than Semaphore is: on
  several scheduler threads `Steady` is empty, and the theorems then speak of
  programs that do not call `tryLock(time)`. With it, the first finding of
  section 6 makes a later `lock()` return without the mutex.
* `FiberSync`, where the same callers use all three: **SyncTypeOKHolds**,
  **SyncMutualExclusionHolds**, **SyncLockedIffOwnedHolds**, **BalancedHolds**,
  **NoStandoffHolds**, **SignalsReachAwaitsHolds** and **NoForgottenAwaitHolds**.
  `SyncInv` has the invariants of the parts and `Located`, which says of a caller
  from what it waits on in which operation it is, so that a step of one
  synchroniser leaves the others' parts alone (`MutexFrame`, `ChannelFrame`,
  `ConditionFrame`). `Balanced` counts callers, so its steps are about
  cardinalities (`Counted`, `MovesOnly`). That a `wakeUp` of the channel is never
  cut off by the limit follows from the balances (`WriterBelowLimit`,
  `ReaderBelowLimit`). For the condition, `OwnBlockers` and `OncePlaced` say that
  a blocker belongs to one `await` and is in one place, unless a `signalAll` went
  over it and left it there (`swept`).

### The queue: `FiberQueueProofs`

* **QueueTypeOKHolds**, **NodesSoundHolds** and **ImplementsFifoHolds**. No
  variable of the code is the list as a sequence, so the invariant says that
  there are `L` (the nodes of each list in order), `own` (who has a node) and
  `place` (who has a fiber) with `Sound(L, own, place)`; being functions, they
  leave nothing in two places. Every action says how the three move. That
  following `next` from the head, as `NodesSound` does, gives just `L` is an
  induction on the position (`ChainIsList`). For the refinement, FiberFifo's
  queue is the values of all but the dummy node of `L`: it grows in `AddLink` and
  shrinks in `PollTake`, each under one lock, and all other steps stutter or move
  the call.

### The scheduler: `FiberSchedulerProofs`

* **TypeCorrect**, **CounterExactHolds**, **LeavesOnlyWhenDoneHolds**,
  **NoFiberLostHolds** and **CleanReturnMeansDoneHolds**, for `join()` and
  `join(n)`, from one invariant `IInv`. `CounterExact` needs to know of every step
  whether it makes or ends a fiber that counts, so the invariant says where each
  fiber is: with one loop, call or queue only (`Apart`), in the queues of the
  threads it is bound to (`Bound`), in a step that its state allows (`Fitting`),
  and somewhere if it lives (`Placed`, which is `NoFiberLost`). `Done` is what the
  two theorems on leaving rest on: a loop that read zero leaves later, and the
  read stays true because only a live fiber can schedule another.

### The hooks: `HookedFilesProofs`, `HookedIoProofs`

* **FilesTypeCorrect**, **NeverBlocksHolds**, **ModeFaithfulHolds** and
  **TimeoutCurrentHolds**. The invariant keeps what a call learned until it uses
  it (`CallOK`: at the system call there is still a context), because no other
  call on the descriptor may close or replace it (`Polite`) and nobody else refers
  to the file (`Unshared`). `Modes` and `Noted` relate contexts to files and name
  the moments at which they differ: `accept`, `close` and `dup2` between context
  and kernel (`Passing`), and `setsockopt`. `TimeoutCurrent` compares the file's
  timeout in whole milliseconds (`Millis`, any function of the times that maps
  them all); where the kernel refused a `setsockopt` after the context had taken
  its time, it names that time, as the code has it.
* **HookedTypeOKHolds**, **RegisteredIffAskedHolds**, **SleepIsWholeHolds** and
  **WaitersExactHolds**, for both backends and whatever the kernel reports.
  `Registered` says in each direction what the mask and the client of a descriptor
  are, `Exclusive` that descriptors of different calls differ, and `LoopHas` that a
  handler the loop is about to run is still registered; `TimersOwn`, that the
  only time event of a fiber is that of the wait it is in. The count of waiters is
  the cardinality of the pairs of a descriptor and its waiting fiber plus that of
  the timed waits, so a call that registers several descriptors is one step of
  known size (`Row`).

### Time and references: `FiberTimersProofs`

* **TypeOKHolds**, **OnTimeHolds**, **WaitsHaveEventsHolds** and
  **CancelStopsHolds**, from `WaitInv`, which no step of reference counting
  touches: where the code of a fiber is and what state that goes with
  (`StatesFit`), the run queue (`Queued`), the clock and each event's time against
  the time the fiber asked for (`Clocked`), the one event of each wait and what
  the deleted ones still on the list may be (`EventsFit`), the wait queue
  (`WaitQueueFits`) and what a cancelled timer may still do (`Canceling`). The
  arithmetic of seconds and milliseconds is in lemmas for every length of a second
  (`AddToNowFacts`, `TimeToFacts`, `IsDueFacts`): an event's time is the sum, and
  the timeout to it is late by less than a second.
* **RefsExactHolds** and **LocalsFreedHolds**, from `RefsInv`. A fiber's count is
  the number of copies of its pointer in the scheduler, the events, the wait
  queue, the program and its children (`Exact`); the lists on which the copies are
  have been counted, so the lemmas are about the number of occurrences in a
  sequence when an element is added, taken or moved. `Refer` drops some copies and
  destroys every fiber left without, whose own copy of its parent goes as well:
  `Dead` is the fixpoint of `LastIn`, reached in as many rounds as there are
  fibers (`ReferFacts`). That a chain of parents ends, so that no cycle of
  children keeps itself alive, is `Rooted`: there is a rank by which children are
  younger than their parents. `LocalsFreed` says that at the end of `join()` the
  values of a fiber are gone to their callback unless an event that the fiber, or
  one that descends from it, cancelled is still on the poller's list.

### Assumptions

They are that sets are what they are used as and that `None` is not one of them;
that the sets of fibers, timers, descriptors and callers are finite where they
are counted; that threads, queues and fibers of FiberQueue are disjoint names;
that `Capacity[b] <= Limit[b]`, and for mutexes that both are 1; that the limit of
a channel's blockers, which the code leaves at the largest integer, is at least
the channel's capacity plus the number of callers; that `Steady` callers are
callers; that `Millis` is defined on `Times`; that a second has at least one tick.

### Only model-checked

Liveness, which the prover does not reason about: `FibersFinish`, `JoinReturns`,
`InterruptEndsLoops`, `ReadyEndsWait`, `TimedWaitEnds`, and the fairness part of
Semaphore in `ImplementsFairSemaphore` (the theorem has its safety part).

## 5. What is left out

* The C++98 variant of the hooks, the filters kqueue keeps (what it reports is
  modelled), the poller on `select`, whose functions are empty, `kevent`,
  `gethostbyname`, the rebinding of symbols, the debugger: platform variants or
  code with no state of its own.
* Stacks and jumps. `EContext` appears as the hand-over of the CPU only, without
  the `errno` it keeps for a fiber.
* Time outside FiberTimers: there a timer fires at some moment after it was set.
  Seconds of 32 bits are in the hazards list.
* `revents` of `poll`, and signal handlers, which switch the hooks off for a
  moment.
* Use the code does not support, and that the models exclude by a guard or an
  assumption stated in their headers: two fibers waiting for one descriptor,
  closing a descriptor in use, duplicating one after its first use,
  scheduling or cancelling a timer from outside during
  `join`, joining twice.
* Use that the code admits, or its own tests make, and that the models exclude
  because what the properties promise would not hold or the outcome is undefined;
  where the code itself goes wrong, the hazards list has its line:
  - two plain threads waiting on one blocker, which share one entry of its queue,
    and spurious wake-ups of a plain thread (`EFiberBlocker.cpp:59`, `:119`;
    `testeco.cpp:302-357` has two plain threads on one channel);
  - `tryLock(time)` and `tryRead` by fibers where there are several
    scheduler threads or plain threads (`Steady`), because
    the yield of `tryRead` and a late `swapIn` spoil a later wait;
  - a mutex unlocked by another than its owner, as `testeco.cpp:381-407` and
    `:430-493` do: it is then a semaphore of one permit and excludes nobody;
  - `setFileEvent` refused by the poller, which leaves a fiber registered in part
    (`EIoWaiter.cpp:69-74`, `:82`);
  - descriptor 0 and multiples of 32768, for which `get` and `remove` of the table
    of contexts compute an index -1 (`EFileContext.cpp:149`);
  - an EInterruptedException that a fiber lets out of its `run`, which ends the
    program (`EContext.cpp:207-217`).
* The parameter `firstTime` of `addtimer` (`EFiberScheduler.hh:99`): the code runs
  a periodic timer first after delay plus period (`EFiberScheduler.cpp:77-82`), and
  FiberTimers follows the code.
* Weak memory: `volatile` fields are read and written in program order.

## 6. Findings

* **`ES_ASSERT(fiber->blocker)` can fail** (`EFiberScheduler.cpp:575`, run
  `blocker_assert`). With `tryWait(time)` on several threads, `wakeUp` polls a
  fiber and resumes it after releasing the lock. In between the fiber's timer
  fires, it returns and begins another wait; the late `swapIn` then clears the
  blocker of that wait while the state is BLOCKED. When the next wait is
  already on a wait queue, that `swapIn` ends it without a permit: after a
  `tryLock(time)` that failed, `lock()` can return without the mutex.
* **A read without a timeout can time out** (`EHooker.cpp:514`, run `io_late`).
  Every timer sets `isIoWaitTimeout`, `sleep` never reads it, and the next wait
  without a timer of its own finds it set.
* **An overdue event does not end the poller's sleep** (`eco_ae.c:412`, run
  `timers_late`). The time to the nearest event is clipped at zero in its seconds
  only, after they lent one to the milliseconds: an event that is due, or deleted
  and still on the list, leaves up to 999 ms for which the idle thread sleeps.
  `OnTime` says that this is the worst.

## 7. Plan

The synchronisers and the scheduler came first, then the queue under them, the
hooks, then time with timers and locals. What comes next, in this order:

1. **More of the hooks.** `revents` of `poll`, and the promise of `select` that a
   ready descriptor ends the wait, as a run of its own; several scheduler threads
   with a poller each, so that a fiber waits on one thread while another wakes it;
   `interrupt` during a hooked call; signal handlers in HookedFiles.
2. **The rest of the scheduler.** `errno` kept per fiber by EContext, a second
   `join`, `schedule` from a thread of the program, and FiberScheduler over
   FiberFifo for its queues.
3. **Proofs.** Every safety property of the present models is proved, so proofs
   come with the extensions: what `poll` returns in `revents`; a scheduler over
   FiberFifo, where `ImplementsFifo` lets the proof keep the abstract queue; the
   fair Semaphore stays with TLC. The refinement of Semaphore needs `Plain` or
   `Solo` as long as the code clears `blocker` outside the lock; a FiberBlocker
   that did so inside it would be the place to prove it without.
