--------------------------- MODULE FiberScheduler ---------------------------
(***************************************************************************)
(* EFiberScheduler::join() and join(threadNums) from the first schedule()  *)
(* to their return: the dispatch of the default queue to the threads'      *)
(* queues, the loop of each thread with its counter of live fibers, its    *)
(* sleep in the poller and its wake-up pipe, schedule() called by running  *)
(* fibers, the fibers' sleep(), the exit protocol, and interrupt() by a    *)
(* fiber or another thread.  What fibers do to one another through         *)
(* blockers is in FiberBlocker.                                            *)
(*                                                                         *)
(* join() on one thread runs the fibers from the default queue itself,     *)
(* which is then queue[Main].                                              *)
(***************************************************************************)
EXTENDS Naturals, Sequences, FiniteSets

CONSTANTS
    Fibers,         \* the fibers
    Threads,        \* the scheduler threads
    Main,           \* the thread that calls join(), index 0
    Ops,            \* which of AllOps the fibers' code may do
    CanInterrupt,   \* whether interrupt() is called (bound: once)
    None            \* null

AllOps == {"spawn", "sleep", "block"}

ASSUME FiberSchedulerAssumption ==
    /\ IsFiniteSet(Fibers)
    /\ Main \in Threads
    /\ Ops \subseteq AllOps
    /\ CanInterrupt \in BOOLEAN
    /\ None \notin Fibers \union Threads

Workers == Threads \ {Main}

VARIABLES
    group,       \* the threads that join() uses, none before it is called
    fstate,      \* fstate[f]: EFiber::state; DELETED: the loop freed it
    bound,       \* bound[f]: the thread whose queue boundQueue is
    total,       \* totalFiberCounter
    defq,        \* defaultTaskQueue
    queue,       \* queue[t]: SchedulerStub::taskQueue
    pc,          \* pc[t]: where thread t is
    saw,         \* saw[t]: `total' as the loop of t read it
    cur,         \* cur[t]: the fiber the loop of t holds
    timers,      \* timers[t]: fibers with a live timer in t's EIoWaiter
    waiters,     \* waiters[t]: fibers of t inside sleep(); the code counts them
    hung,        \* hung[t]: hungIoWaiter is set
    pipe,        \* pipe[t]: the wake-up pipe is readable
    call,        \* call[t]: where the fiber on t is inside schedule()
    task,        \* task[t]: the fiber that schedule() is about ...
    dest,        \* dest[t]: ... and the thread it goes to
    toSignal,    \* toSignal[t]: pollers that t, leaving, has yet to signal
    interrupted, \* interrupted
    toFire,      \* pollers interrupt() has yet to signal
    hasError     \* hasError

fiberVars == <<fstate, bound, total, defq, queue>>
loopVars == <<pc, saw, cur, timers, waiters, hung>>
callVars == <<call, task, dest>>
endVars == <<toSignal, interrupted, toFire, hasError>>
vars == <<group, fiberVars, loopVars, pipe, callVars, endVars>>

TypeOK ==
    /\ group \in SUBSET Threads
    /\ fstate \in [Fibers -> {"NEW", "RUNNABLE", "BLOCKED", "WAITING", "TERMINATED", "DELETED"}]
    /\ bound \in [Fibers -> Threads \union {None}]
    /\ total \in Nat
    /\ defq \in Seq(Fibers)
    /\ queue \in [Threads -> Seq(Fibers)]
    /\ pc \in [Threads -> {"setup", "dispatch", "off", "top", "poll", "hang", "idle", "epoll",
                           "timers", "run", "switch", "clean", "joining", "exited",
                           "thrown", "returned"}]
    /\ saw \in [Threads -> Nat]
    /\ cur \in [Threads -> Fibers \union {None}]
    /\ timers \in [Threads -> SUBSET Fibers]
    /\ waiters \in [Threads -> SUBSET Fibers]
    /\ hung \in [Threads -> BOOLEAN]
    /\ pipe \in [Threads -> BOOLEAN]
    /\ call \in [Threads -> {"none", "add", "hung", "signal", "interrupt"}]
    /\ task \in [Threads -> Fibers \union {None}]
    /\ dest \in [Threads -> Threads \union {None}]
    /\ toSignal \in [Threads -> SUBSET Threads]
    /\ interrupted \in BOOLEAN
    /\ toFire \in SUBSET Threads
    /\ hasError \in BOOLEAN

Init ==
    /\ group = {}
    /\ fstate = [f \in Fibers |-> "NEW"]
    /\ bound = [f \in Fibers |-> None]
    /\ total = 0
    /\ defq = <<>>
    /\ queue = [t \in Threads |-> <<>>]
    /\ pc = [t \in Threads |-> IF t = Main THEN "setup" ELSE "off"]
    /\ saw = [t \in Threads |-> 0]
    /\ cur = [t \in Threads |-> None]
    /\ timers = [t \in Threads |-> {}]
    /\ waiters = [t \in Threads |-> {}]
    /\ hung = [t \in Threads |-> FALSE]
    /\ pipe = [t \in Threads |-> FALSE]
    /\ call = [t \in Threads |-> "none"]
    /\ task = [t \in Threads |-> None]
    /\ dest = [t \in Threads |-> None]
    /\ toSignal = [t \in Threads |-> {}]
    /\ interrupted = FALSE
    /\ toFire = {}
    /\ hasError = FALSE

Goto(t, from, to) == pc[t] = from /\ pc' = [pc EXCEPT ![t] = to]

-----------------------------------------------------------------------------
(* Before the loops run.                                                   *)

CountUpNot(n) == n
CountUp(n) == n + 1

\* schedule() before join(): the fiber goes to the default queue.
Schedule(f) ==
    /\ pc[Main] = "setup"
    /\ fstate[f] = "NEW"
    /\ total' = CountUp(total)
    /\ fstate' = [fstate EXCEPT ![f] = "RUNNABLE"]
    /\ defq' = Append(defq, f)
    /\ UNCHANGED <<group, bound, queue, loopVars, pipe, callVars, endVars>>

\* join(threadNums) makes a stub for every thread and resets hasError.
Join ==
    /\ Workers # {}
    /\ Goto(Main, "setup", "dispatch")
    /\ hasError' = FALSE
    /\ group' = Threads
    /\ UNCHANGED <<fiberVars, saw, cur, timers, waiters, hung, pipe, callVars, toSignal, interrupted, toFire>>

\* join(), or join(1), has no stubs, no workers and no hungIoWaiter.
JoinAlone ==
    /\ Goto(Main, "setup", "top")
    /\ group' = {Main}
    /\ queue' = [queue EXCEPT ![Main] = defq]
    /\ defq' = <<>>
    /\ UNCHANGED <<fstate, bound, total, saw, cur, timers, waiters, hung, pipe, callVars, endVars>>

Alone == group = {Main}

\* The default queue is handed out; the balance callback may pick any thread.
Dispatch(t) ==
    /\ pc[Main] = "dispatch"
    /\ defq # <<>>
    /\ queue' = [queue EXCEPT ![t] = Append(@, Head(defq))]
    /\ defq' = Tail(defq)
    /\ UNCHANGED <<group, fstate, bound, total, loopVars, pipe, callVars, endVars>>

StartWorker(w) ==
    /\ pc[Main] = "dispatch"
    /\ defq = <<>>
    /\ Goto(w, "off", "top")
    /\ UNCHANGED <<group, fiberVars, saw, cur, timers, waiters, hung, pipe, callVars, endVars>>

EnterLoop ==
    /\ \A w \in Workers : pc[w] # "off"
    /\ defq = <<>>
    /\ Goto(Main, "dispatch", "top")
    /\ UNCHANGED <<group, fiberVars, saw, cur, timers, waiters, hung, pipe, callVars, endVars>>

-----------------------------------------------------------------------------
(* The loop of joinWithThreadBind.                                         *)

OthersNone(t) == {}
Others(t) == group \ {t}

\* The loop reads `interrupted' and then the counter, before the queue.
Top(t) ==
    /\ ~interrupted
    /\ Goto(t, "top", "poll")
    /\ saw' = [saw EXCEPT ![t] = total]
    /\ UNCHANGED <<group, fiberVars, cur, timers, waiters, hung, pipe, callVars, endVars>>

TopInterrupted(t) ==
    /\ interrupted
    /\ Goto(t, "top", "clean")
    /\ toSignal' = [toSignal EXCEPT ![t] = Others(t)]
    /\ UNCHANGED <<group, fiberVars, saw, cur, timers, waiters, hung, pipe, callVars, interrupted, toFire, hasError>>

\* A fiber to run; events are polled first when something waits for them.
\* The fiber is bound to this thread's queue.
Poll(t) ==
    /\ queue[t] # <<>>
    /\ Goto(t, "poll", IF waiters[t] # {} THEN "epoll" ELSE "run")
    /\ cur' = [cur EXCEPT ![t] = Head(queue[t])]
    /\ bound' = [bound EXCEPT ![Head(queue[t])] = IF @ = None THEN t ELSE @]
    /\ queue' = [queue EXCEPT ![t] = Tail(@)]
    /\ UNCHANGED <<group, fstate, total, defq, saw, timers, waiters, hung, pipe, callVars, endVars>>

\* Nothing to run here but fibers are alive: the thread will sleep in its
\* poller, and says so in hungIoWaiter only after it found its queue empty.
StaysForMany(n) == n > 1
StaysFor(n) == n > 0

PollEmpty(t) ==
    /\ queue[t] = <<>>
    /\ StaysFor(saw[t])
    /\ Goto(t, "poll", IF Alone THEN "idle" ELSE "hang")
    /\ UNCHANGED <<group, fiberVars, saw, cur, timers, waiters, hung, pipe, callVars, endVars>>

Hang(t) ==
    /\ Goto(t, "hang", "idle")
    /\ hung' = [hung EXCEPT ![t] = TRUE]
    /\ UNCHANGED <<group, fiberVars, saw, cur, timers, waiters, pipe, callVars, endVars>>

\* Nothing to run and nobody alive: leave, and tell the others.
Leave(t) ==
    /\ queue[t] = <<>>
    /\ ~StaysFor(saw[t])
    /\ Goto(t, "poll", "clean")
    /\ toSignal' = [toSignal EXCEPT ![t] = Others(t)]
    /\ UNCHANGED <<group, fiberVars, saw, cur, timers, waiters, hung, pipe, callVars, interrupted, toFire, hasError>>

\* The poller returns, drains the pipe and looks at the timers.
OnceProcessEvents(t) ==
    /\ \/ Goto(t, "epoll", "timers")
       \/ (pipe[t] \/ timers[t] # {}) /\ Goto(t, "idle", "timers")
    /\ pipe' = [pipe EXCEPT ![t] = FALSE]
    /\ UNCHANGED <<group, fiberVars, saw, cur, timers, waiters, hung, callVars, endVars>>

\* The 3000 ms are over; they count only when there is no timer.
TimesOutNever(t) == FALSE
TimesOut(t) == timers[t] = {}

IdleTimeout(t) ==
    /\ TimesOut(t)
    /\ Goto(t, "idle", "timers")
    /\ UNCHANGED <<group, fiberVars, saw, cur, timers, waiters, hung, pipe, callVars, endVars>>

ResumedNot(q, f) == q
Resumed(q, f) == Append(q, f)

\* A due timer resumes its fiber, on the fiber's own thread.
Fire(t, f) ==
    /\ pc[t] = "timers"
    /\ f \in timers[t]
    /\ timers' = [timers EXCEPT ![t] = @ \ {f}]
    /\ fstate' = [fstate EXCEPT ![f] = "RUNNABLE"]
    /\ queue' = [queue EXCEPT ![bound[f]] = Resumed(@, f)]
    /\ UNCHANGED <<group, bound, total, defq, pc, saw, cur, waiters, hung, pipe, callVars, endVars>>

EventsDone(t) ==
    /\ Goto(t, "timers", IF cur[t] = None THEN "top" ELSE "run")
    /\ hung' = [hung EXCEPT ![t] = FALSE]
    /\ UNCHANGED <<group, fiberVars, saw, cur, timers, waiters, pipe, callVars, endVars>>

\* The switch on fiber->state.
Requeue(t) ==
    /\ Goto(t, "switch", "top")
    /\ fstate[cur[t]] = "RUNNABLE"
    /\ queue' = [queue EXCEPT ![t] = Append(@, cur[t])]
    /\ cur' = [cur EXCEPT ![t] = None]
    /\ UNCHANGED <<group, fstate, bound, total, defq, saw, timers, waiters, hung, pipe, callVars, endVars>>

\* A fiber asleep, or put on the wait queue of its blocker by swapOut.
Suspended(t) ==
    /\ Goto(t, "switch", "top")
    /\ fstate[cur[t]] \in {"WAITING", "BLOCKED"}
    /\ cur' = [cur EXCEPT ![t] = None]
    /\ UNCHANGED <<group, fiberVars, saw, timers, waiters, hung, pipe, callVars, endVars>>

CountDownNot(n) == n
CountDown(n) == n - 1

Reap(t) ==
    /\ Goto(t, "switch", "top")
    /\ fstate[cur[t]] = "TERMINATED"
    /\ fstate' = [fstate EXCEPT ![cur[t]] = "DELETED"]
    /\ total' = CountDown(total)
    /\ cur' = [cur EXCEPT ![t] = None]
    /\ UNCHANGED <<group, bound, defq, queue, saw, timers, waiters, hung, pipe, callVars, endVars>>

-----------------------------------------------------------------------------
(* What the fiber on thread t does.                                        *)

Runs(t) == pc[t] = "run" /\ call[t] = "none" /\ cur[t] \notin waiters[t]

Yield(t) ==
    /\ Runs(t)
    /\ Goto(t, "run", "switch")
    /\ UNCHANGED <<group, fiberVars, saw, cur, timers, waiters, hung, pipe, callVars, endVars>>

\* EFiber::sleep: a timer, state WAITING, and away.
Sleep(t) ==
    /\ "sleep" \in Ops
    /\ Runs(t)
    /\ Goto(t, "run", "switch")
    /\ timers' = [timers EXCEPT ![t] = @ \union {cur[t]}]
    /\ waiters' = [waiters EXCEPT ![t] = @ \union {cur[t]}]
    /\ fstate' = [fstate EXCEPT ![cur[t]] = "WAITING"]
    /\ UNCHANGED <<group, bound, total, defq, queue, saw, cur, hung, pipe, callVars, endVars>>

\* The fiber runs again inside sleep(): cancelTimer, and sleep() returns, or
\* throws EInterruptedException when the scheduler was interrupted.  A fiber
\* that catches it goes on at its handler with any step of its code, its end
\* included; when it leaves run() the program ends (EContext.cpp:207-217).
SleepReturn(t) ==
    /\ pc[t] = "run"
    /\ cur[t] \in waiters[t]
    /\ waiters' = [waiters EXCEPT ![t] = @ \ {cur[t]}]
    /\ UNCHANGED <<group, fiberVars, pc, saw, cur, timers, hung, pipe, callVars, endVars>>

\* EFiberBlocker::wait without a permit, and wakeUp() of such a fiber: it is
\* added to the queue of its thread, and another thread is signalled.
Block(t) ==
    /\ "block" \in Ops
    /\ Runs(t)
    /\ Goto(t, "run", "switch")
    /\ fstate' = [fstate EXCEPT ![cur[t]] = "BLOCKED"]
    /\ UNCHANGED <<group, bound, total, defq, queue, saw, cur, timers, waiters, hung, pipe, callVars, endVars>>

WakeUp(t, f) ==
    /\ Runs(t)
    /\ fstate[f] = "BLOCKED"
    /\ cur[bound[f]] # f
    /\ fstate' = [fstate EXCEPT ![f] = "RUNNABLE"]
    /\ queue' = [queue EXCEPT ![bound[f]] = Resumed(@, f)]
    /\ call' = [call EXCEPT ![t] = IF t = bound[f] THEN "none" ELSE "signal"]
    /\ dest' = [dest EXCEPT ![t] = IF t = bound[f] THEN None ELSE bound[f]]
    /\ UNCHANGED <<group, bound, total, defq, loopVars, pipe, task, endVars>>

Finish(t) ==
    /\ Runs(t)
    /\ Goto(t, "run", "switch")
    /\ fstate' = [fstate EXCEPT ![cur[t]] = "TERMINATED"]
    /\ UNCHANGED <<group, bound, total, defq, queue, saw, cur, timers, waiters, hung, pipe, callVars, endVars>>

\* schedule() of a new fiber g for thread d, in the pieces other threads
\* can see: it is counted, added to a queue, and a sleeping thread signalled.
Spawn(t, g, d) ==
    /\ "spawn" \in Ops
    /\ Runs(t)
    /\ d \in group
    /\ fstate[g] = "NEW"
    /\ total' = CountUp(total)
    /\ fstate' = [fstate EXCEPT ![g] = "RUNNABLE"]
    /\ call' = [call EXCEPT ![t] = "add"]
    /\ task' = [task EXCEPT ![t] = g]
    /\ dest' = [dest EXCEPT ![t] = d]
    /\ UNCHANGED <<group, bound, defq, queue, loopVars, pipe, endVars>>

SpawnAdd(t) ==
    /\ call[t] = "add"
    /\ queue' = [queue EXCEPT ![dest[t]] = Append(@, task[t])]
    /\ call' = [call EXCEPT ![t] = IF Alone THEN "none" ELSE "hung"]
    /\ task' = [task EXCEPT ![t] = None]
    /\ dest' = [dest EXCEPT ![t] = IF Alone THEN None ELSE @]
    /\ UNCHANGED <<group, fstate, bound, total, defq, loopVars, pipe, endVars>>

SpawnReadHung(t) ==
    /\ call[t] = "hung"
    /\ call' = [call EXCEPT ![t] = IF hung[dest[t]] THEN "signal" ELSE "none"]
    /\ dest' = [dest EXCEPT ![t] = IF hung[dest[t]] THEN @ ELSE None]
    /\ UNCHANGED <<group, fiberVars, loopVars, pipe, task, endVars>>

SignalDest(t) ==
    /\ call[t] = "signal"
    /\ pipe' = [pipe EXCEPT ![dest[t]] = TRUE]
    /\ call' = [call EXCEPT ![t] = "none"]
    /\ dest' = [dest EXCEPT ![t] = None]
    /\ UNCHANGED <<group, fiberVars, loopVars, task, endVars>>

-----------------------------------------------------------------------------
(* interrupt(), called by a fiber or by some other thread (None), and the  *)
(* way out.                                                                *)

\* The pollers it finds: those of the stubs, or else that of its own thread.
PollersNone(c) == {}
Pollers(c) == IF Alone THEN {c} \ {None} ELSE group

Interrupt(c) ==
    /\ CanInterrupt
    /\ ~interrupted
    /\ c # None => Runs(c)
    /\ interrupted' = TRUE
    /\ toFire' = Pollers(c)
    /\ call' = [t \in Threads |-> IF t = c THEN "interrupt" ELSE call[t]]
    /\ UNCHANGED <<group, fiberVars, loopVars, pipe, task, dest, toSignal, hasError>>

InterruptReturn(t) ==
    /\ call[t] = "interrupt" /\ toFire = {}
    /\ call' = [call EXCEPT ![t] = "none"]
    /\ UNCHANGED <<group, fiberVars, loopVars, pipe, task, dest, endVars>>

\* The timers are made due, which they may be at any time, and the poller
\* is signalled.
InterruptSignal(t) ==
    /\ t \in toFire
    /\ toFire' = toFire \ {t}
    /\ pipe' = [pipe EXCEPT ![t] = TRUE]
    /\ UNCHANGED <<group, fiberVars, loopVars, callVars, toSignal, interrupted, hasError>>

\* CLEAN: signal every other poller of the group ...
CleanSignal(t, u) ==
    /\ pc[t] = "clean"
    /\ u \in toSignal[t]
    /\ toSignal' = [toSignal EXCEPT ![t] = @ \ {u}]
    /\ pipe' = [pipe EXCEPT ![u] = TRUE]
    /\ UNCHANGED <<group, fiberVars, loopVars, callVars, interrupted, toFire, hasError>>

\* ... and leave, with an exception when interrupted: a worker records it in
\* hasError, the main thread lets it out of join().
ErrorAfter(e) == e \/ interrupted

ExitWorker(w) ==
    /\ toSignal[w] = {}
    /\ Goto(w, "clean", "exited")
    /\ hasError' = ErrorAfter(hasError)
    /\ UNCHANGED <<group, fiberVars, saw, cur, timers, waiters, hung, pipe, callVars, toSignal, interrupted, toFire>>

ExitMain ==
    /\ toSignal[Main] = {}
    /\ Goto(Main, "clean", IF interrupted THEN "thrown" ELSE "joining")
    /\ UNCHANGED <<group, fiberVars, saw, cur, timers, waiters, hung, pipe, callVars, endVars>>

WorkersDone == \A w \in group \ {Main} : pc[w] = "exited"

\* join() waits for the workers, then returns or throws "join fail".
Return ==
    /\ WorkersDone
    /\ Goto(Main, "joining", IF hasError THEN "thrown" ELSE "returned")
    /\ UNCHANGED <<group, fiberVars, saw, cur, timers, waiters, hung, pipe, callVars, endVars>>

-----------------------------------------------------------------------------

Loop(t) ==
    \/ Top(t) \/ TopInterrupted(t) \/ Poll(t) \/ PollEmpty(t) \/ Hang(t) \/ Leave(t)
    \/ OnceProcessEvents(t) \/ (\E f \in Fibers : Fire(t, f)) \/ EventsDone(t)
    \/ Requeue(t) \/ Suspended(t) \/ Reap(t)

Call(t) ==
    \/ SleepReturn(t) \/ SpawnAdd(t) \/ SpawnReadHung(t) \/ SignalDest(t)
    \/ InterruptReturn(t)

GiveBack(t) == Yield(t) \/ Sleep(t) \/ Block(t) \/ Finish(t)

Exit(t) ==
    \/ \E u \in Threads : CleanSignal(t, u)
    \/ t \in Workers /\ ExitWorker(t)
    \/ t = Main /\ (ExitMain \/ Return)

Begin == Join \/ JoinAlone \/ (\E t \in Threads : Dispatch(t)) \/ (\E w \in Workers : StartWorker(w)) \/ EnterLoop

Next ==
    \/ \E f \in Fibers : Schedule(f)
    \/ Begin
    \/ \E t \in Threads : Loop(t) \/ IdleTimeout(t) \/ GiveBack(t) \/ Call(t) \/ Exit(t)
    \/ \E t, d \in Threads, g \in Fibers : Spawn(t, g, d)
    \/ \E t \in Threads, f \in Fibers : WakeUp(t, f)
    \/ \E c \in Threads \union {None} : Interrupt(c)
    \/ \E t \in Threads : InterruptSignal(t)

Spec == Init /\ [][Next]_vars

(* The operating system runs every thread; a fiber that keeps getting the  *)
(* CPU ends (SF: it may sleep or yield many times first); a timer fires.   *)
Fairness ==
    /\ WF_vars(Begin)
    /\ \A t \in Threads :
           /\ WF_vars(Loop(t)) /\ WF_vars(Call(t)) /\ WF_vars(Exit(t))
           /\ WF_vars(InterruptSignal(t))
    /\ \A t \in Threads, f \in Fibers :
           SF_vars(Fire(t, f)) /\ SF_vars(Finish(t) /\ cur[t] = f)

(* With the poller's 3000 ms timeout, and without it where there are       *)
(* stubs: interrupt() by another thread does not signal a thread in join().*)
FairSpec == Spec /\ Fairness /\ \A t \in Threads : WF_vars(IdleTimeout(t))
FairSpecNoTimeout == Spec /\ Fairness /\ WF_vars(Alone /\ IdleTimeout(Main))

-----------------------------------------------------------------------------
(* Properties.                                                             *)

Live == {f \in Fibers : fstate[f] \notin {"NEW", "DELETED"}}
Left(t) == pc[t] \in {"clean", "joining", "exited", "thrown", "returned"}

(* The counter the loops leave by is the number of fibers scheduled and    *)
(* not yet deleted, through every schedule() in progress.                  *)
CounterExact == total = Cardinality(Live)

(* A thread leaves its loop only when no fiber is left anywhere, on its    *)
(* own queue, on another thread's, asleep or running, or when the          *)
(* scheduler is interrupted: the counter is read before the queue, and a   *)
(* fiber being scheduled is counted before its parent can end.             *)
LeavesOnlyWhenDone == (\E t \in Threads : Left(t)) => interrupted \/ Live = {}

InSeq(x, s) == \E i \in 1..Len(s) : s[i] = x

(* No live fiber is lost: it is in one of the queues, on a loop, asleep    *)
(* with a timer to wake it, in the hands of a schedule() in progress, or   *)
(* waiting for another fiber's wakeUp().                                   *)
NoFiberLost ==
    \A f \in Live :
        \/ InSeq(f, defq)
        \/ \E t \in Threads :
               \/ InSeq(f, queue[t])
               \/ cur[t] = f
               \/ fstate[f] = "WAITING" /\ f \in timers[t]
               \/ task[t] = f
        \/ fstate[f] = "BLOCKED"

(* "Do schedule and wait all fibers work done": a main thread that leaves  *)
(* its loop without the interrupt exception has seen every fiber run to    *)
(* its end, even if interrupt() comes in while the threads are leaving.    *)
CleanReturnMeansDone == pc[Main] \in {"joining", "returned"} => Live = {}

(* When the last fiber is deleted join() ends: the thread that deletes it  *)
(* leaves and wakes the threads that sleep because they saw it alive.      *)
JoinReturns ==
    pc[Main] \notin {"setup", "returned", "thrown"} /\ Live = {}
        ~> pc[Main] \in {"returned", "thrown"}

(* interrupt() ends every loop, asleep or busy: one that has stubs without *)
(* help from the poll timeout, and that of join() with it.                 *)
InterruptEndsLoops ==
    interrupted ~> \A t \in group : pc[t] \in {"exited", "thrown", "returned", "joining"}

(* Every fiber that can run is run, until it ends or waits for another     *)
(* fiber, although schedule() may miss a thread that is about to sleep.    *)
FibersFinish == \A f \in Fibers : fstate[f] = "RUNNABLE" ~> fstate[f] \in {"DELETED", "BLOCKED"}

=============================================================================
