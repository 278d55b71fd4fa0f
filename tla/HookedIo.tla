------------------------------ MODULE HookedIo ------------------------------
(***************************************************************************)
(* The hooked system calls that wait, on one scheduler thread: read and    *)
(* write (EHooker::comm_io_on_fiber), sendfile, poll, select, connect,     *)
(* epoll_wait and sleep, with the EIoWaiter they register with, the eco_ae *)
(* poller under it with its epoll or kqueue backend, and the loop that     *)
(* dispatches fibers between two looks at the poller.  The kernel's side,  *)
(* which descriptor is ready for what, is the environment.                 *)
(*                                                                         *)
(* The poller keeps one clientData per descriptor, so callers are taken to *)
(* keep a descriptor to one waiting fiber at a time and to close it only   *)
(* when no fiber waits for it.  Fds holds descriptors that a poller takes: *)
(* below its set size, which is the process's limit when the scheduler was *)
(* made, and accepted by the backend.  When setFileEvent fails, the fiber  *)
(* waits with nothing registered, and delFileEvent frees what it finds.    *)
(***************************************************************************)
EXTENDS Integers, Sequences, FiniteSets

CONSTANTS
    Fibers,     \* the fibers of this thread
    Fds,        \* open stream descriptors
    Reports,    \* what the kernel may report of each: "in", "out", "hup"
    Backends,   \* the backends of eco_ae that are tried
    Ops,        \* which of AllOps the fibers call
    Polls,      \* <<descriptors, events>> of the poll() calls
    None        \* null

AllOps == {"read", "write", "sendfile", "poll", "select", "connect", "epoll", "sleep"}

ASSUME HookedIoAssumption ==
    /\ IsFiniteSet(Fibers) /\ IsFiniteSet(Fds)
    /\ Reports \in [Fds -> SUBSET {"in", "out", "hup"}]
    /\ Backends \subseteq {"epoll", "kqueue"}
    /\ Ops \subseteq AllOps
    /\ Polls \subseteq (SUBSET Fds \ {{}}) \X SUBSET {"in", "out"}
    /\ None \notin Fibers

VARIABLES
    backend,    \* what the library was built with: "epoll" or "kqueue"
    cond,       \* cond[fd]: what the kernel reports of fd now
    mask,       \* mask[fd]: events[fd].mask, "in" READABLE, "out" WRITABLE
    client,     \* client[fd]: the fiber events[fd].clientData points to
    waiters,    \* EIoWaiter::waiters
    timer,      \* timer[f]: the live time events of f: "this" is that of its
                \* latest wait, "old" are those of waits before it
    timedOut,   \* timedOut[f]: EFiber::isIoWaitTimeout
    state,      \* state[f]: EFiber::state
    runq,       \* the queue of the thread
    cur,        \* the fiber the loop holds
    pc,         \* where the loop is
    fired,      \* descriptors aeApiPoll returned whose handler is yet to run
    call        \* call[f]: the hooked call f is inside

kernelVars == <<cond, backend>>
pollVars == <<mask, client, waiters, timer>>
fiberVars == <<timedOut, state, runq>>
loopVars == <<cur, pc, fired>>
vars == <<kernelVars, pollVars, fiberVars, loopVars, call>>

Masks == {"in", "out"}
TimeEvents == {"this", "old"}
Calls == [op : AllOps \union {"none"}, at : {"fn", "try", "wait", "none"},
          fds : SUBSET Fds, want : SUBSET Masks, timed : BOOLEAN]
NoCall == [op |-> "none", at |-> "none", fds |-> {}, want |-> {}, timed |-> FALSE]

HookedTypeOK ==
    /\ backend \in Backends
    /\ \A fd \in Fds : cond[fd] \subseteq Reports[fd]
    /\ mask \in [Fds -> SUBSET Masks]
    /\ client \in [Fds -> Fibers \union {None}]
    /\ waiters \in Nat
    /\ timer \in [Fibers -> SUBSET TimeEvents]
    /\ timedOut \in [Fibers -> BOOLEAN]
    /\ state \in [Fibers -> {"RUNNABLE", "WAITING", "TERMINATED"}]
    /\ runq \in Seq(Fibers)
    /\ cur \in Fibers \union {None}
    /\ pc \in {"top", "epoll", "idle", "files", "timers", "run", "switch"}
    /\ fired \in SUBSET Fds
    /\ call \in [Fibers -> Calls]

Orders == {q \in [1..Cardinality(Fibers) -> Fibers] : \A i, j \in DOMAIN q : i # j => q[i] # q[j]}

\* The fibers are scheduled, in some order; nothing is registered.
Init ==
    /\ backend \in Backends
    /\ cond = [fd \in Fds |-> {}]
    /\ mask = [fd \in Fds |-> {}]
    /\ client = [fd \in Fds |-> None]
    /\ waiters = 0
    /\ timer = [f \in Fibers |-> {}]
    /\ timedOut = [f \in Fibers |-> FALSE]
    /\ state = [f \in Fibers |-> "RUNNABLE"]
    /\ runq \in Orders
    /\ cur = None
    /\ pc = "top"
    /\ fired = {}
    /\ call = [f \in Fibers |-> NoCall]

Goto(from, to) == pc = from /\ pc' = to

-----------------------------------------------------------------------------
(* The kernel: data and room come and go; a hang-up stays.                 *)

Become(fd, e) ==
    /\ e \in Reports[fd] \ cond[fd]
    /\ cond' = [cond EXCEPT ![fd] = @ \union {e}]
    /\ UNCHANGED <<backend, pollVars, fiberVars, loopVars, call>>

Vanish(fd, e) ==
    /\ e \in cond[fd] \ {"hup"}
    /\ cond' = [cond EXCEPT ![fd] = @ \ {e}]
    /\ UNCHANGED <<backend, pollVars, fiberVars, loopVars, call>>

-----------------------------------------------------------------------------
(* The loop.                                                               *)

\* Between two fibers the poller is looked at, if anything waits for it.
HasWaitersTwo(n) == n > 1
HasWaiters(n) == n > 0

Dispatch ==
    /\ runq # <<>>
    /\ Goto("top", IF HasWaiters(waiters) THEN "epoll" ELSE "run")
    /\ cur' = Head(runq)
    /\ runq' = Tail(runq)
    /\ UNCHANGED <<kernelVars, pollVars, timedOut, state, fired, call>>

PollEmpty ==
    /\ runq = <<>>
    /\ \E f \in Fibers : state[f] # "TERMINATED"
    /\ Goto("top", "idle")
    /\ UNCHANGED <<kernelVars, pollVars, fiberVars, cur, fired, call>>

\* What the backends make of a hang-up: EPOLLHUP and EPOLLERR are "writable",
\* while kqueue has every filter of a descriptor at its end report.
EpollReportsNone(fd) == {}
EpollReports(fd) == IF "hup" \in cond[fd] THEN {"out"} ELSE {}
KqueueReports(fd) == IF "hup" \in cond[fd] THEN Masks ELSE {}

Reported(fd) ==
    (cond[fd] \ {"hup"})
        \union (IF backend = "epoll" THEN EpollReports(fd) ELSE KqueueReports(fd))

\* The backend returns a registered descriptor that is ready or hung up.
Active == {fd \in Fds : mask[fd] # {} /\ (cond[fd] \intersect mask[fd] # {} \/ "hup" \in cond[fd])}

\* aeApiPoll, without waiting, or until a descriptor or a timer is ready ...
AeApiPoll ==
    /\ \/ Goto("epoll", "files")
       \/ Goto("idle", "files") /\ (Active # {} \/ \E f \in Fibers : timer[f] # {})
    /\ fired' = {fd \in Active : mask[fd] \intersect Reported(fd) # {}}
    /\ UNCHANGED <<kernelVars, pollVars, fiberVars, cur, call>>

\* ... or the 3000 ms are over with nothing to report; they count only when
\* there is no timer.
IdleTimeout ==
    /\ Active = {}
    /\ \A f \in Fibers : timer[f] = {}
    /\ Goto("idle", "timers")
    /\ UNCHANGED <<kernelVars, pollVars, fiberVars, cur, fired, call>>

\* EFiber::swapIn on the fiber's own thread.
SwapIn(f) ==
    IF state[f] = "WAITING"
    THEN /\ state' = [state EXCEPT ![f] = "RUNNABLE"]
         /\ runq' = Append(runq, f)
    ELSE UNCHANGED <<state, runq>>

\* rfileProc and wfileProc are the same, and called once, when what was
\* reported was registered; a handler runs no fiber, so it still is.
FileEvent(fd) ==
    /\ pc = "files"
    /\ fd \in fired
    /\ fired' = fired \ {fd}
    /\ SwapIn(client[fd])
    /\ UNCHANGED <<kernelVars, pollVars, timedOut, cur, pc, call>>

FilesDone ==
    /\ fired = {}
    /\ Goto("files", "timers")
    /\ UNCHANGED <<kernelVars, pollVars, fiberVars, cur, fired, call>>

\* After the file events, the time events that are due.
TimeEvent(f) ==
    /\ pc = "timers"
    /\ \E e \in timer[f] : timer' = [timer EXCEPT ![f] = @ \ {e}]
    /\ timedOut' = [timedOut EXCEPT ![f] = TRUE]
    /\ SwapIn(f)
    /\ UNCHANGED <<kernelVars, mask, client, waiters, loopVars, call>>

EventsDone ==
    /\ Goto("timers", IF cur = None THEN "top" ELSE "run")
    /\ UNCHANGED <<kernelVars, pollVars, fiberVars, cur, fired, call>>

\* The switch on fiber->state when the fiber gave the thread back.
Requeue ==
    /\ Goto("switch", "top")
    /\ runq' = IF state[cur] = "RUNNABLE" THEN Append(runq, cur) ELSE runq
    /\ cur' = None
    /\ UNCHANGED <<kernelVars, pollVars, timedOut, state, fired, call>>

-----------------------------------------------------------------------------
(* Registering with the poller, and taking it back.                        *)

\* The events of a descriptor, in the backend and beside it.
EventsAdded(S, want) == mask' = [fd \in Fds |-> IF fd \in S THEN mask[fd] \union want ELSE mask[fd]]
EventsDeleted(S) == mask' = [fd \in Fds |-> IF fd \in S THEN {} ELSE mask[fd]]

\* A time event of f is created beside those that are left, or the one of
\* the wait that is over, found by its id, is marked deleted.
TimerCreated(f, tm) ==
    timer' = [timer EXCEPT ![f] = (IF tm THEN {"this"} ELSE {}) \union (IF @ = {} THEN {} ELSE {"old"})]

RemainingAll(events) == events
Remaining(events) == events \ {"this"}
TimerDeleted(f) == timer' = [timer EXCEPT ![f] = Remaining(@)]

\* setFileEvent for every fd of S, and setupTimer if tm; swapOut.
Register(f, S, want, tm) ==
    /\ EventsAdded(S, want)
    /\ client' = [fd \in Fds |-> IF fd \in S THEN f ELSE client[fd]]
    /\ waiters' = waiters + Cardinality(S) + (IF tm THEN 1 ELSE 0)
    /\ TimerCreated(f, tm)
    /\ timedOut' = [timedOut EXCEPT ![f] = ~tm /\ @]
    /\ state' = [state EXCEPT ![f] = "WAITING"]
    /\ Goto("run", "switch")

CancelTimerUncounted(n, tm) == n
CancelTimerAlways(n, tm) == n - 1
CancelTimer(n, tm) == IF tm THEN n - 1 ELSE n

DeletedUnlessTimeout(S, timeout) == IF timeout THEN {} ELSE S
Deleted(S, timeout) == S

\* cancelTimer, and delFileEvent for every fd of S.
Unregister(f, S, tm, timeout) ==
    LET D == Deleted(S, timeout) IN
    /\ EventsDeleted(D)
    /\ client' = [fd \in Fds |-> IF fd \in D THEN None ELSE client[fd]]
    /\ waiters' = CancelTimer(waiters, tm) - Cardinality(D)
    /\ TimerDeleted(f)

\* f has the CPU: the loop switched to its context.
Runs(f) == pc = "run" /\ cur = f
Free(f) == Runs(f) /\ call[f] = NoCall

\* No other fiber waits for a descriptor of S.
Unshared(f, S) == \A g \in Fibers \ {f} : call[g].fds \intersect S = {}

Begin(f, op, at, S, want, tm) ==
    /\ op \in Ops
    /\ Free(f)
    /\ Unshared(f, S)
    /\ call' = [call EXCEPT ![f] = [op |-> op, at |-> at, fds |-> S, want |-> want, timed |-> tm]]
    /\ UNCHANGED <<kernelVars, pollVars, fiberVars, loopVars>>

\* read() and sendfile() wait before they begin; write() tries first; poll()
\* and select() ask the kernel first.  A timeout comes from SO_RCVTIMEO, SO_SNDTIMEO or the argument.
Read(f, fd, tm) == Begin(f, "read", "try", {fd}, {"in"}, tm)
Write(f, fd, tm) == Begin(f, "write", "fn", {fd}, {"out"}, tm)
Sendfile(f, fd, tm) == Begin(f, "sendfile", "try", {fd}, {"out"}, tm)
PollCall(f, S, want, tm) == Begin(f, "poll", "try", S, want, tm)
Select(f, S, want) == Begin(f, "select", "try", S, want, TRUE)

\* What poll() itself answers at once: something is ready, or hung up.
ReadyNow(f) == \E fd \in call[f].fds : cond[fd] \intersect (call[f].want \union {"hup"}) # {}

\* fn() gets somewhere, if only to an end of file or an error.
FnWorks(f) == ReadyNow(f)

At(f, at) == Runs(f) /\ call[f].at = at
Ends(f) == call' = [call EXCEPT ![f] = NoCall]
Goes(f, at) == call' = [call EXCEPT ![f].at = at]

FnDone(f) ==
    /\ At(f, "fn") /\ FnWorks(f)
    /\ Ends(f)
    /\ UNCHANGED <<kernelVars, pollVars, fiberVars, loopVars>>

\* sendfile() goes on until it has sent everything.
FnMore(f) ==
    /\ At(f, "fn") /\ FnWorks(f)
    /\ call[f].op = "sendfile"
    /\ Goes(f, "try")
    /\ UNCHANGED <<kernelVars, pollVars, fiberVars, loopVars>>

\* EAGAIN: back to poll(), with the whole timeout again.
FnAgain(f) ==
    /\ At(f, "fn") /\ ~FnWorks(f)
    /\ Goes(f, "try")
    /\ UNCHANGED <<kernelVars, pollVars, fiberVars, loopVars>>

\* poll() returns at once; the calls that transfer data go on to fn().
Transfers(f) == call[f].op \in {"read", "write", "sendfile"}

TryReady(f) ==
    /\ At(f, "try") /\ ReadyNow(f)
    /\ IF Transfers(f) THEN Goes(f, "fn") ELSE Ends(f)
    /\ UNCHANGED <<kernelVars, pollVars, fiberVars, loopVars>>

TryWait(f) ==
    /\ At(f, "try") /\ ~ReadyNow(f)
    /\ call[f].op # "select"
    /\ Register(f, call[f].fds, call[f].want, call[f].timed)
    /\ Goes(f, "wait")
    /\ UNCHANGED <<kernelVars, runq, cur, fired>>

\* The kernel's select() with nothing ready has emptied the sets, so no
\* descriptor is left to register: the fiber waits for its timer.  Without a
\* timeout there is one too, for ELLong::MAX_VALUE.
SelectWait(f) ==
    /\ At(f, "try") /\ ~ReadyNow(f)
    /\ call[f].op = "select"
    /\ Register(f, {}, {}, TRUE)
    /\ call' = [call EXCEPT ![f] =
                    [op |-> "select", at |-> "wait", fds |-> {}, want |-> {}, timed |-> TRUE]]
    /\ UNCHANGED <<kernelVars, runq, cur, fired>>

\* connect() in progress, epoll_wait() and sleep() wait straight away.
BeginWait(f, op, S, want, tm) ==
    /\ op \in Ops
    /\ Free(f)
    /\ Unshared(f, S)
    /\ Register(f, S, want, tm)
    /\ call' = [call EXCEPT ![f] = [op |-> op, at |-> "wait", fds |-> S, want |-> want, timed |-> tm]]
    /\ UNCHANGED <<kernelVars, runq, cur, fired>>

Connect(f, fd) == BeginWait(f, "connect", {fd}, {"out"}, FALSE)
EpollWait(f, fd) == BeginWait(f, "epoll", {fd}, {"in"}, TRUE)
Sleep(f) == BeginWait(f, "sleep", {}, {}, TRUE)

\* The fiber runs again after swapOut.  connect() and sleep() do not ask
\* whether it was the timer; the others do, which clears the flag, and
\* return 0 or fail with ETIMEDOUT.
Asks(f) == call[f].op \notin {"connect", "sleep"}
TimedOut(f) == Asks(f) /\ timedOut[f]

WaitOver(f) ==
    /\ At(f, "wait")
    /\ Unregister(f, call[f].fds, call[f].timed, TimedOut(f))
    /\ timedOut' = [timedOut EXCEPT ![f] = ~Asks(f) /\ @]
    /\ IF Transfers(f) /\ ~TimedOut(f) THEN Goes(f, "fn") ELSE Ends(f)
    /\ UNCHANGED <<kernelVars, state, runq, loopVars>>

Yield(f) ==
    /\ Free(f)
    /\ Goto("run", "switch")
    /\ UNCHANGED <<kernelVars, pollVars, fiberVars, cur, fired, call>>

Finish(f) ==
    /\ Free(f)
    /\ Goto("run", "switch")
    /\ state' = [state EXCEPT ![f] = "TERMINATED"]
    /\ UNCHANGED <<kernelVars, pollVars, timedOut, runq, cur, fired, call>>

-----------------------------------------------------------------------------

Loop ==
    \/ Dispatch \/ PollEmpty \/ AeApiPoll \/ (\E fd \in Fds : FileEvent(fd)) \/ FilesDone
    \/ EventsDone \/ Requeue

GoOn(f) == FnDone(f) \/ FnMore(f) \/ FnAgain(f) \/ TryReady(f) \/ TryWait(f) \/ SelectWait(f) \/ WaitOver(f)

Start(f) ==
    \/ \E fd \in Fds, tm \in BOOLEAN : Read(f, fd, tm) \/ Write(f, fd, tm) \/ Sendfile(f, fd, tm)
    \/ \E p \in Polls, tm \in BOOLEAN : PollCall(f, p[1], p[2], tm)
    \/ \E p \in Polls : Select(f, p[1], p[2])
    \/ \E fd \in Fds : Connect(f, fd) \/ EpollWait(f, fd)
    \/ Sleep(f)

Kernel == \E fd \in Fds : \E e \in Reports[fd] : Become(fd, e) \/ Vanish(fd, e)

Next ==
    \/ Kernel
    \/ Loop \/ IdleTimeout
    \/ \E f \in Fibers : TimeEvent(f) \/ GoOn(f) \/ Start(f) \/ Yield(f) \/ Finish(f)

Spec == Init /\ [][Next]_vars

(* The thread runs, a running fiber goes on, and it gives the thread back  *)
(* if it keeps getting to where it could: scheduling is cooperative, and   *)
(* nothing in the code stops a fiber whose calls are always ready at once. *)
(* What sendfile() has to send is finite.  Nothing is assumed of the       *)
(* kernel or the timers.                                                   *)
RunStep == pc = "run" /\ \E f \in {cur} : GoOn(f) \/ Yield(f) \/ Finish(f) \/ Start(f)

Fairness ==
    /\ WF_vars(Loop)
    /\ WF_vars(RunStep)
    /\ SF_vars(RunStep /\ pc' = "switch")
    /\ SF_vars(\E f \in Fibers : FnDone(f))

FairSpec == Spec /\ Fairness

-----------------------------------------------------------------------------
(* Properties.                                                             *)

Waits(f) == call[f].at = "wait"

(* What is registered with the poller is what fibers inside a waiting call *)
(* asked for: nothing is left behind by a call that is over, in which case *)
(* a late event would resume the fiber inside another call, and nothing is *)
(* missing, in which case no event would resume it at all.                 *)
RegisteredIffAsked ==
    \A fd \in Fds :
        /\ mask[fd] = UNION {call[f].want : f \in {g \in Fibers : Waits(g) /\ fd \in call[g].fds}}
        /\ mask[fd] # {} => Waits(client[fd]) /\ fd \in call[client[fd]].fds

(* A fiber is resumed by what it waits for: one that is still asleep in    *)
(* sleep() has the timer of this sleep, and one resumed from it had that   *)
(* timer fire, not one that an earlier wait left behind.                   *)
SleepIsWhole ==
    \A f \in Fibers :
        Waits(f) /\ call[f].op = "sleep" => ("this" \in timer[f] <=> state[f] = "WAITING")

(* EIoWaiter::waiters, by which a busy thread knows to look at the poller, *)
(* is the number of registrations and timers of the waiting calls.         *)
WaitersExact ==
    waiters = Cardinality({p \in Fds \X Fibers : Waits(p[2]) /\ p[1] \in call[p[2]].fds})
                  + Cardinality({f \in Fibers : Waits(f) /\ call[f].timed})

(* A fiber does not wait for ever for a descriptor it registered and that  *)
(* is ready for it, however busy other fibers keep the thread, nor for one *)
(* that was hung up; but the epoll backend keeps the latter from a fiber   *)
(* that waits to read only.                                                *)
EndsWait(fd, want) ==
    \/ cond[fd] \intersect want # {}
    \/ "hup" \in cond[fd] /\ want \intersect (IF backend = "epoll" THEN {"out"} ELSE Masks) # {}

ReadyEndsWait ==
    \A f \in Fibers :
        []<>~(Waits(f) /\ \E fd \in call[f].fds : EndsWait(fd, call[f].want))

(* A call that has no timeout does not fail with a timeout: what poll()    *)
(* returns as 0, and read() and write() turn into ETIMEDOUT, means that a  *)
(* timer of this call fired.                                               *)
TimeoutIsReal == \A f \in Fibers : At(f, "wait") /\ TimedOut(f) => call[f].timed

=============================================================================
