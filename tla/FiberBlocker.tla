---------------------------- MODULE FiberBlocker ----------------------------
(***************************************************************************)
(* EFiberBlocker (wait, tryWait, wakeUp, swapOut) together with the part   *)
(* of the system it is entangled with: the dispatch loop of each scheduler *)
(* thread (EFiberScheduler::joinWithThreadBind), EFiber::swapIn, and the   *)
(* timers and the wake-up pipe of the thread's EIoWaiter.                  *)
(*                                                                         *)
(* A fiber that waits parks in two steps made by two stacks: on its own    *)
(* stack it sees no permit and marks itself BLOCKED, and only after the    *)
(* context switch does the dispatcher call swapOut, which looks at the     *)
(* permits again and either requeues the fiber or puts it on the wait      *)
(* queue.  A waker, possibly on another thread, polls the wait queue under *)
(* the lock, then resumes the fiber and signals its thread outside it.     *)
(*                                                                         *)
(* Restrictions: two plain threads do not wait on one blocker at a time.   *)
(* Their entry on the queue is the blocker's own sync_, the same object    *)
(* for both, and what the intrusive queue, which is not part of this code, *)
(* does with an entry added twice is not known.  And the condition of      *)
(* sync_ has no spurious wake-ups: the wait on it is in no loop.           *)
(***************************************************************************)
EXTENDS Integers, Sequences, SequencesExt

CONSTANTS
    Fibers,     \* the fibers
    Threads,    \* the threads of join(threadNums): one dispatch loop each
    Outsiders,  \* plain threads that use a blocker but run no fibers
    Home,       \* Home[f]: the thread whose queue f is dispatched to
    Blockers,   \* the EFiberBlocker objects
    Capacity,   \* constructor argument `capacity' of each blocker
    Limit,      \* constructor argument `limit' of each blocker
    Ops,        \* which of AllOps the fibers' code may do
    None        \* null

AllOps == {"wait", "timedWait", "yield", "wakeUp", "finish"}

ASSUME FiberBlockerAssumption ==
    /\ Home \in [Fibers -> Threads]
    /\ Capacity \in [Blockers -> Nat]
    /\ Limit \in [Blockers -> Nat]
    /\ \A b \in Blockers : Capacity[b] <= Limit[b]
    /\ Ops \subseteq AllOps
    /\ Fibers \intersect Outsiders = {}
    /\ Threads \intersect Outsiders = {}
    /\ None \notin Fibers \union Threads \union Outsiders \union Blockers

Callers == Fibers \union Outsiders    \* who may wait
Agents == Threads \union Outsiders    \* whose stack executes a wakeUp

VARIABLES
    wakeup,     \* wakeup[b]: wakeup_ of the blocker
    waitQueue,  \* waitQueue[b]: waitQueue of the blocker, head first
    state,      \* state[f]: EFiber::state
    blocker,    \* blocker[f]: EFiber::blocker
    timeout,    \* timeout[f]: EFiber::isIoWaitTimeout
    timer,      \* timer[f]: f has a live timer in its thread's EIoWaiter
    runq,       \* runq[t]: SchedulerStub::taskQueue
    cur,        \* cur[t]: the fiber the dispatch loop of t holds
    pc,         \* pc[t]: where the dispatch loop of t is
    pipe,       \* pipe[t]: the wake-up pipe of t's EIoWaiter is readable
    wake,       \* wake[a]: where a is in EFiber::swapIn, if it is
    target,     \* target[a]: the fiber a is resuming
    waitsOn,    \* waitsOn[c]: the blocker whose wait() or tryWait() c is in
    timed,      \* timed[c]: that call is the tryWait with a timeout
    passed      \* passed[o]: thread o's call took a permit or was notified

blockerVars == <<wakeup, waitQueue>>
fiberVars == <<state, blocker, timeout, timer>>
loopVars == <<runq, cur, pc, pipe>>
wakeVars == <<wake, target>>
callVars == <<waitsOn, timed, passed>>
vars == <<blockerVars, fiberVars, loopVars, wakeVars, callVars>>

PcValues == {"new", "poll", "idle", "epoll", "timers", "run", "switch", "requeue"}

TypeOK ==
    /\ wakeup \in [Blockers -> Nat]
    /\ waitQueue \in [Blockers -> Seq(Callers)]
    /\ state \in [Fibers -> {"NEW", "RUNNABLE", "BLOCKED", "TERMINATED"}]
    /\ blocker \in [Fibers -> Blockers \union {None}]
    /\ timeout \in [Fibers -> BOOLEAN]
    /\ timer \in [Fibers -> BOOLEAN]
    /\ runq \in [Threads -> Seq(Fibers)]
    /\ cur \in [Threads -> Fibers \union {None}]
    /\ pc \in [Threads -> PcValues]
    /\ pipe \in [Threads -> BOOLEAN]
    /\ wake \in [Agents -> {"none", "check", "clear", "add", "signal"}]
    /\ target \in [Agents -> Fibers \union {None}]
    /\ waitsOn \in [Callers -> Blockers \union {None}]
    /\ timed \in [Callers -> BOOLEAN]
    /\ passed \in [Outsiders -> BOOLEAN]

Init ==
    /\ wakeup = Capacity
    /\ waitQueue = [b \in Blockers |-> <<>>]
    /\ state = [f \in Fibers |-> "NEW"]
    /\ blocker = [f \in Fibers |-> None]
    /\ timeout = [f \in Fibers |-> FALSE]
    /\ timer = [f \in Fibers |-> FALSE]
    /\ runq = [t \in Threads |-> <<>>]
    /\ cur = [t \in Threads |-> None]
    /\ pc = [t \in Threads |-> "new"]
    /\ pipe = [t \in Threads |-> FALSE]
    /\ wake = [a \in Agents |-> "none"]
    /\ target = [a \in Agents |-> None]
    /\ waitsOn = [c \in Callers |-> None]
    /\ timed = [c \in Callers |-> FALSE]
    /\ passed = [o \in Outsiders |-> FALSE]

InSeq(x, s) == \E i \in 1..Len(s) : s[i] = x

\* One scheduler thread and no plain thread: no waker overtakes a fiber.
Solo == Outsiders = {} /\ \A t, u \in Threads : t = u

\* Who may use tryWait(time) and yield() without harm to its next wait.
Steady == IF Solo THEN Callers ELSE Outsiders

-----------------------------------------------------------------------------
(* join(threadNums) before the loops run: schedule() made every fiber      *)
(* RUNNABLE, the dispatch puts it on the queue of a thread, and only then  *)
(* are the threads started.                                                *)

Dispatch(f) ==
    /\ state[f] = "NEW"
    /\ state' = [state EXCEPT ![f] = "RUNNABLE"]
    /\ runq' = [runq EXCEPT ![Home[f]] = Append(@, f)]
    /\ UNCHANGED <<blockerVars, blocker, timeout, timer, cur, pc, pipe, wakeVars, callVars>>

Start(t) ==
    /\ pc[t] = "new"
    /\ \A f \in Fibers : state[f] # "NEW"
    /\ pc' = [pc EXCEPT ![t] = "poll"]
    /\ UNCHANGED <<blockerVars, fiberVars, runq, cur, pipe, wakeVars, callVars>>

-----------------------------------------------------------------------------
(* The dispatch loop of joinWithThreadBind, and the timers it runs.        *)

\* getWaitersCount() > 0: some fiber of t is inside a timed call.
HasWaiters(t) == \E f \in Fibers : Home[f] = t /\ timed[f]

\* The loop takes a fiber; if anything waits for I/O it polls events first.
Poll(t) ==
    /\ pc[t] = "poll"
    /\ runq[t] # <<>>
    /\ cur' = [cur EXCEPT ![t] = Head(runq[t])]
    /\ runq' = [runq EXCEPT ![t] = Tail(@)]
    /\ pc' = [pc EXCEPT ![t] = IF HasWaiters(t) THEN "epoll" ELSE "run"]
    /\ UNCHANGED <<blockerVars, fiberVars, pipe, wakeVars, callVars>>

\* Nothing to run: the thread goes to sleep in onceProcessEvents(3000).
PollEmpty(t) ==
    /\ pc[t] = "poll"
    /\ runq[t] = <<>>
    /\ pc' = [pc EXCEPT ![t] = "idle"]
    /\ UNCHANGED <<blockerVars, fiberVars, runq, cur, pipe, wakeVars, callVars>>

HasTimer(t) == \E f \in Fibers : Home[f] = t /\ timer[f]

\* The poll returns: a readable pipe is drained, then timers are looked at.
\* A sleeping thread gets here only through its pipe or a timer.
OnceProcessEvents(t) ==
    /\ \/ pc[t] = "epoll"
       \/ pc[t] = "idle" /\ (pipe[t] \/ HasTimer(t))
    /\ pc' = [pc EXCEPT ![t] = "timers"]
    /\ pipe' = [pipe EXCEPT ![t] = FALSE]
    /\ UNCHANGED <<blockerVars, fiberVars, runq, cur, wakeVars, callVars>>

\* The 3000 ms are over.  They only count when the timer list is empty.
IdleTimeout(t) ==
    /\ pc[t] = "idle"
    /\ ~HasTimer(t)
    /\ pc' = [pc EXCEPT ![t] = "poll"]
    /\ UNCHANGED <<blockerVars, fiberVars, runq, cur, pipe, wakeVars, callVars>>

\* A due timer of fiber f marks it timed out and starts EFiber::swapIn.
TimeEventProc(t, f) ==
    /\ pc[t] = "timers"
    /\ wake[t] = "none"
    /\ Home[f] = t
    /\ timer[f]
    /\ timer' = [timer EXCEPT ![f] = FALSE]
    /\ timeout' = [timeout EXCEPT ![f] = TRUE]
    /\ wake' = [wake EXCEPT ![t] = "check"]
    /\ target' = [target EXCEPT ![t] = f]
    /\ UNCHANGED <<blockerVars, state, blocker, loopVars, callVars>>

\* Back in the loop: to the fiber polled before, or to the top.
EventsDone(t) ==
    /\ pc[t] = "timers"
    /\ wake[t] = "none"
    /\ pc' = [pc EXCEPT ![t] = IF cur[t] = None THEN "poll" ELSE "run"]
    /\ UNCHANGED <<blockerVars, fiberVars, runq, cur, pipe, wakeVars, callVars>>

-----------------------------------------------------------------------------
(* The switch on fiber->state after the context switch back.               *)

\* The fiber goes (back) to the queue of its thread and the loop starts over.
Requeue(t) ==
    /\ \/ pc[t] = "switch" /\ state[cur[t]] = "RUNNABLE"
       \/ pc[t] = "requeue"
    /\ runq' = [runq EXCEPT ![t] = Append(@, cur[t])]
    /\ cur' = [cur EXCEPT ![t] = None]
    /\ pc' = [pc EXCEPT ![t] = "poll"]
    /\ UNCHANGED <<blockerVars, fiberVars, pipe, wakeVars, callVars>>

\* swapOut's second look at the permits.
PermitLeftUnread(b) == FALSE
PermitLeft(b) == wakeup[b] > 0

\* EFiberBlocker::swapOut returns false: the fiber took a permit released
\* since wait() looked.  Its state stays BLOCKED and its blocker stays set.
SwapOutFalse(t) ==
    /\ pc[t] = "switch"
    /\ state[cur[t]] = "BLOCKED"
    /\ blocker[cur[t]] # None
    /\ PermitLeft(blocker[cur[t]])
    /\ wakeup' = [wakeup EXCEPT ![blocker[cur[t]]] = @ - 1]
    /\ pc' = [pc EXCEPT ![t] = "requeue"]
    /\ UNCHANGED <<waitQueue, fiberVars, runq, cur, pipe, wakeVars, callVars>>

\* EFiberBlocker::swapOut returns true: the fiber is on the wait queue.
SwapOutTrue(t) ==
    /\ pc[t] = "switch"
    /\ state[cur[t]] = "BLOCKED"
    /\ blocker[cur[t]] # None
    /\ ~PermitLeft(blocker[cur[t]])
    /\ waitQueue' = [waitQueue EXCEPT ![blocker[cur[t]]] = Append(@, cur[t])]
    /\ cur' = [cur EXCEPT ![t] = None]
    /\ pc' = [pc EXCEPT ![t] = "poll"]
    /\ UNCHANGED <<wakeup, fiberVars, runq, pipe, wakeVars, callVars>>

\* The fiber is deleted.
Reap(t) ==
    /\ pc[t] = "switch"
    /\ state[cur[t]] = "TERMINATED"
    /\ cur' = [cur EXCEPT ![t] = None]
    /\ pc' = [pc EXCEPT ![t] = "poll"]
    /\ UNCHANGED <<blockerVars, fiberVars, runq, pipe, wakeVars, callVars>>

-----------------------------------------------------------------------------
(* What a caller does.  A fiber acts while its thread runs it, a plain     *)
(* thread whenever it is not inside a call.                                *)

Runs(f) == cur[Home[f]] = f /\ pc[Home[f]] = "run" /\ wake[Home[f]] = "none"
Free(c) ==
    /\ waitsOn[c] = None
    /\ IF c \in Fibers THEN Runs(c) ELSE wake[c] = "none"
AgentOf(c) == IF c \in Fibers THEN Home[c] ELSE c
May(c, op) == c \in Fibers => op \in Ops

\* The first look at the permits.
PermitFoundAlways(b) == TRUE
PermitFound(b) == wakeup[b] > 0

\* wait(), tryWait() or tryWait(time) finds a permit and takes it; the call
\* returns in a step of its own.
WaitNow(c, b) ==
    /\ Free(c)
    /\ May(c, "wait") \/ May(c, "timedWait")
    /\ PermitFound(b)
    /\ wakeup' = [wakeup EXCEPT ![b] = @ - 1]
    /\ waitsOn' = [waitsOn EXCEPT ![c] = b]
    /\ passed' = [o \in Outsiders |-> passed[o] \/ o = c]
    /\ UNCHANGED <<waitQueue, fiberVars, loopVars, wakeVars, timed>>

\* wait() (tm = FALSE) or tryWait(time) (tm = TRUE) of a fiber finds none:
\* it marks itself BLOCKED and switches to its thread's dispatch loop.
FiberWait(f, b, tm) ==
    /\ Free(f)
    /\ IF tm THEN "timedWait" \in Ops ELSE "wait" \in Ops
    /\ ~PermitFound(b)
    /\ waitsOn' = [waitsOn EXCEPT ![f] = b]
    /\ timed' = [timed EXCEPT ![f] = tm]
    /\ timer' = [timer EXCEPT ![f] = tm]
    /\ timeout' = [timeout EXCEPT ![f] = IF tm THEN FALSE ELSE @]
    /\ blocker' = [blocker EXCEPT ![f] = b]
    /\ state' = [state EXCEPT ![f] = "BLOCKED"]
    /\ pc' = [pc EXCEPT ![Home[f]] = "switch"]
    /\ UNCHANGED <<blockerVars, runq, cur, pipe, wakeVars, passed>>

\* The fiber runs again inside wait(): it returns.
WaitReturn(f) ==
    /\ Runs(f)
    /\ waitsOn[f] # None
    /\ ~timed[f]
    /\ waitsOn' = [waitsOn EXCEPT ![f] = None]
    /\ UNCHANGED <<blockerVars, fiberVars, loopVars, wakeVars, timed, passed>>

\* waitQueue.remove(fiber)
WithdrawnNot(q, f) == q
Withdrawn(q, f) ==
    IF InSeq(f, q) THEN RemoveAt(q, CHOOSE i \in 1..Len(q) : q[i] = f) ELSE q

\* The fiber runs again inside tryWait(time): it cancels the timer and, if
\* the timer had fired, withdraws from the wait queue.
TimedReturn(f) ==
    /\ Runs(f)
    /\ waitsOn[f] # None
    /\ timed[f]
    /\ timer' = [timer EXCEPT ![f] = FALSE]
    /\ timeout' = [timeout EXCEPT ![f] = FALSE]
    /\ waitQueue' = IF timeout[f]
                    THEN [waitQueue EXCEPT ![waitsOn[f]] = Withdrawn(@, f)]
                    ELSE waitQueue
    /\ waitsOn' = [waitsOn EXCEPT ![f] = None]
    /\ timed' = [timed EXCEPT ![f] = FALSE]
    /\ UNCHANGED <<wakeup, state, blocker, loopVars, wakeVars, passed>>

\* EFiber::yield() by the fiber's own code: the state is left as it is.
Yield(f) ==
    /\ Free(f)
    /\ "yield" \in Ops
    /\ pc' = [pc EXCEPT ![Home[f]] = "switch"]
    /\ UNCHANGED <<blockerVars, fiberVars, runq, cur, pipe, wakeVars, callVars>>

\* run() returns: fiber_worker marks the fiber TERMINATED and switches away.
Finish(f) ==
    /\ Free(f)
    /\ "finish" \in Ops
    /\ state' = [state EXCEPT ![f] = "TERMINATED"]
    /\ pc' = [pc EXCEPT ![Home[f]] = "switch"]
    /\ UNCHANGED <<blockerVars, blocker, timeout, timer, runq, cur, pipe, wakeVars, callVars>>

\* A plain thread finds no permit and waits on the condition of sync_.  The
\* queue entry is sync_ itself, so no other plain thread waits on b (see the
\* restrictions above).
ThreadWait(o, b, tm) ==
    /\ Free(o)
    /\ ~PermitFound(b)
    /\ \A p \in Outsiders : waitsOn[p] # b
    /\ waitQueue' = [waitQueue EXCEPT ![b] = Append(@, o)]
    /\ waitsOn' = [waitsOn EXCEPT ![o] = b]
    /\ timed' = [timed EXCEPT ![o] = tm]
    /\ UNCHANGED <<wakeup, fiberVars, loopVars, wakeVars, passed>>

ThreadReturn(o) ==
    /\ passed[o]
    /\ passed' = [passed EXCEPT ![o] = FALSE]
    /\ waitsOn' = [waitsOn EXCEPT ![o] = None]
    /\ timed' = [timed EXCEPT ![o] = FALSE]
    /\ UNCHANGED <<blockerVars, fiberVars, loopVars, wakeVars>>

ThreadTimeout(o) ==
    /\ waitsOn[o] # None
    /\ timed[o]
    /\ ~passed[o]
    /\ waitQueue' = [waitQueue EXCEPT ![waitsOn[o]] = Withdrawn(@, o)]
    /\ waitsOn' = [waitsOn EXCEPT ![o] = None]
    /\ timed' = [timed EXCEPT ![o] = FALSE]
    /\ UNCHANGED <<wakeup, fiberVars, loopVars, wakeVars, passed>>

-----------------------------------------------------------------------------
(* wakeUp(), in the pieces other threads can see.                          *)

BelowLimitOrAt(b) == wakeup[b] <= Limit[b]
BelowLimit(b) == wakeup[b] < Limit[b]

\* Nobody waits: the permit is kept unless the limit is reached.  (At the
\* limit the call returns false and changes nothing.)
WakeUpKeep(c, b) ==
    /\ Free(c)
    /\ May(c, "wakeUp")
    /\ waitQueue[b] = <<>>
    /\ BelowLimit(b)
    /\ wakeup' = [wakeup EXCEPT ![b] = @ + 1]
    /\ UNCHANGED <<waitQueue, fiberVars, loopVars, wakeVars, callVars>>

\* The first waiter is a thread: it is notified under the lock.
WakeUpThread(c, b) ==
    /\ Free(c)
    /\ May(c, "wakeUp")
    /\ waitQueue[b] # <<>>
    /\ Head(waitQueue[b]) \in Outsiders
    /\ passed' = [passed EXCEPT ![Head(waitQueue[b])] = TRUE]
    /\ waitQueue' = [waitQueue EXCEPT ![b] = Tail(@)]
    /\ UNCHANGED <<wakeup, fiberVars, loopVars, wakeVars, waitsOn, timed>>

\* The first waiter is a fiber: it is taken off the queue under the lock,
\* and resumed by the steps below after the lock is released.
WakeUpFiber(c, b) ==
    /\ Free(c)
    /\ May(c, "wakeUp")
    /\ waitQueue[b] # <<>>
    /\ Head(waitQueue[b]) \in Fibers
    /\ wake' = [wake EXCEPT ![AgentOf(c)] = "check"]
    /\ target' = [target EXCEPT ![AgentOf(c)] = Head(waitQueue[b])]
    /\ waitQueue' = [waitQueue EXCEPT ![b] = Tail(@)]
    /\ UNCHANGED <<wakeup, fiberVars, loopVars, callVars>>

\* EFiber::swapIn reads the state: only a BLOCKED fiber is resumed.
ResumableAlways(f) == TRUE
ResumableWaitingOnly(f) == state[f] = "WAITING"
Resumable(f) == state[f] = "BLOCKED"

SwapInRead(a) ==
    /\ wake[a] = "check"
    /\ wake' = [wake EXCEPT ![a] = IF Resumable(target[a]) THEN "clear" ELSE "none"]
    /\ target' = [target EXCEPT ![a] = IF Resumable(target[a]) THEN @ ELSE None]
    /\ UNCHANGED <<blockerVars, fiberVars, loopVars, callVars>>

\* EFiber::swapIn forgets the blocker ...
SwapInClear(a) ==
    /\ wake[a] = "clear"
    /\ blocker' = [blocker EXCEPT ![target[a]] = None]
    /\ wake' = [wake EXCEPT ![a] = "add"]
    /\ UNCHANGED <<blockerVars, state, timeout, timer, loopVars, target, callVars>>

\* Only a waker on another thread has to signal the fiber's EIoWaiter.
MustSignalNever(a, f) == FALSE
MustSignal(a, f) == a # Home[f]

\* ... makes the fiber RUNNABLE and adds it to its thread's queue.
SwapInAdd(a) ==
    /\ wake[a] = "add"
    /\ state' = [state EXCEPT ![target[a]] = "RUNNABLE"]
    /\ runq' = [runq EXCEPT ![Home[target[a]]] = Append(@, target[a])]
    /\ wake' = [wake EXCEPT ![a] = IF MustSignal(a, target[a]) THEN "signal" ELSE "none"]
    /\ target' = [target EXCEPT ![a] = IF MustSignal(a, target[a]) THEN @ ELSE None]
    /\ UNCHANGED <<blockerVars, blocker, timeout, timer, cur, pc, pipe, callVars>>

\* EIoWaiter::signal writes a byte to the pipe.
Signal(a) ==
    /\ wake[a] = "signal"
    /\ pipe' = [pipe EXCEPT ![Home[target[a]]] = TRUE]
    /\ wake' = [wake EXCEPT ![a] = "none"]
    /\ target' = [target EXCEPT ![a] = None]
    /\ UNCHANGED <<blockerVars, fiberVars, runq, cur, pc, callVars>>

-----------------------------------------------------------------------------

DispatchLoop(t) ==
    \/ Start(t) \/ Poll(t) \/ PollEmpty(t) \/ OnceProcessEvents(t) \/ EventsDone(t)
    \/ \E f \in Fibers : TimeEventProc(t, f)
    \/ Requeue(t) \/ SwapOutFalse(t) \/ SwapOutTrue(t) \/ Reap(t)

Waker(a) == SwapInRead(a) \/ SwapInClear(a) \/ SwapInAdd(a) \/ Signal(a)

FiberCall(f) ==
    \/ WaitReturn(f) \/ TimedReturn(f) \/ Yield(f) \/ Finish(f)
    \/ \E b \in Blockers, tm \in BOOLEAN : FiberWait(f, b, tm)

ThreadCall(o) ==
    \/ ThreadReturn(o) \/ ThreadTimeout(o)
    \/ \E b \in Blockers, tm \in BOOLEAN : ThreadWait(o, b, tm)

WakeUp(c, b) == WakeUpKeep(c, b) \/ WakeUpThread(c, b) \/ WakeUpFiber(c, b)

Next ==
    \/ \E f \in Fibers : Dispatch(f) \/ FiberCall(f)
    \/ \E t \in Threads : DispatchLoop(t) \/ IdleTimeout(t)
    \/ \E a \in Agents : Waker(a)
    \/ \E o \in Outsiders : ThreadCall(o)
    \/ \E c \in Callers, b \in Blockers : WaitNow(c, b) \/ WakeUp(c, b)

Spec == Init /\ [][Next]_vars

-----------------------------------------------------------------------------
(* Fairness: the operating system runs every thread, so the steps of a     *)
(* dispatch loop and of a waker are taken.  No fairness is assumed of      *)
(* IdleTimeout: a wake-up that only the 3000 ms would save counts as lost. *)
(* Fibers are cooperative: one that keeps getting the CPU gives it back,   *)
(* and a call that can return does.                                        *)

GiveBack(f) ==
    \/ Yield(f) \/ Finish(f)
    \/ \E b \in Blockers, tm \in BOOLEAN : FiberWait(f, b, tm)

Fairness ==
    /\ \A f \in Fibers :
           /\ WF_vars(Dispatch(f))
           /\ WF_vars(WaitReturn(f) \/ TimedReturn(f))
           /\ SF_vars(GiveBack(f))
    /\ \A t \in Threads : WF_vars(DispatchLoop(t))
    /\ \A a \in Agents : WF_vars(Waker(a))
    /\ \A o \in Outsiders : WF_vars(ThreadReturn(o))

FairSpec == Spec /\ Fairness

-----------------------------------------------------------------------------
(* Properties.                                                             *)

(* A permit and a waiter never meet in the same blocker: wakeUp() keeps a  *)
(* permit only when it finds the queue empty, and swapOut() queues a fiber *)
(* only after a second look at the permits.  If the second look were not   *)
(* made, a wakeUp() between wait() and swapOut() would be lost.            *)
NoIdlePermit == \A b \in Blockers : waitQueue[b] # <<>> => wakeup[b] = 0

Occurrences(x, s) == {i \in 1..Len(s) : s[i] = x}
OnLoop(f) == cur[Home[f]] = f
Resuming(f) == \E a \in Agents : wake[a] \in {"check", "clear", "add"} /\ target[a] = f

(* A fiber is never on its thread's queue twice, nor on it while the loop  *)
(* holds it: the queue links fibers through a node inside the fiber, so a  *)
(* second add would corrupt it.  The resumers are swapIn by wakers, swapIn *)
(* by timers, and the dispatch loop itself.                                *)
QueuedOnce ==
    \A f \in Fibers :
        /\ \A i, j \in Occurrences(f, runq[Home[f]]) : i = j
        /\ OnLoop(f) => Occurrences(f, runq[Home[f]]) = {}

(* No fiber is lost: once dispatched and until it is deleted, a fiber is   *)
(* on its thread's queue, held by the loop, on the wait queue of the       *)
(* blocker it waits for, or in the hands of a waker.                       *)
NoFiberLost ==
    \A f \in Fibers :
        \/ state[f] \in {"NEW", "TERMINATED"}
        \/ InSeq(f, runq[Home[f]])
        \/ OnLoop(f)
        \/ waitsOn[f] # None /\ InSeq(f, waitQueue[waitsOn[f]])
        \/ Resuming(f)

(* Both: a fiber is in one place, whoever resumes it, and in whichever     *)
(* order its timer, a waker and the loop come to it.                       *)
InOnePlace == QueuedOnce /\ NoFiberLost

(* A thread asleep in onceProcessEvents never has a runnable fiber on its  *)
(* queue, except while the waker that put it there has still to signal.    *)
NoMissedSignal ==
    \A t \in Threads :
        pc[t] = "idle" /\ runq[t] # <<>> =>
            \/ pipe[t]
            \/ \E a \in Agents : wake[a] = "signal" /\ Home[target[a]] = t

(* ES_ASSERT(fiber->blocker) in the dispatch loop: a fiber that comes back *)
(* BLOCKED names the blocker to swap out on.                               *)
AssertBlocker ==
    \A t \in Threads :
        pc[t] = "switch" /\ state[cur[t]] = "BLOCKED" => blocker[cur[t]] # None

\* c's call holds its permit: it has left the wait queue and is not on its
\* way to it.
Granted(c) ==
    /\ waitsOn[c] # None
    /\ ~InSeq(c, waitQueue[waitsOn[c]])
    /\ IF c \in Fibers THEN ~(OnLoop(c) /\ pc[Home[c]] = "switch") ELSE passed[c]

Sem == INSTANCE Semaphore WITH
    permits <- wakeup,
    granted <- [c \in Callers |-> Granted(c)]

(* Each blocker is a counting semaphore: every return of wait(), every     *)
(* true of tryWait() uses exactly one permit, handed over by one wakeUp(), *)
(* and a tryWait() that returns false uses none.                           *)
ImplementsSemaphore == Sem!Spec

(* The same with the promise of progress: a fiber that was handed a permit *)
(* runs and returns, and a permit is not left beside a caller about to     *)
(* wait for it, whichever threads the two are on.                          *)
ImplementsFairSemaphore == Sem!FairSpec

=============================================================================
