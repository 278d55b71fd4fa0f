----------------------------- MODULE FiberTimers -----------------------------
(***************************************************************************)
(* Time on one scheduler thread: the time events of its poller, the sleeps *)
(* and timed waits of fibers that use them, the fibers behind EFiberTimer, *)
(* and what keeps a fiber and its EFiberLocal values from being destroyed. *)
(*                                                                         *)
(* The clock is in milliseconds, of which Second make a second; an event   *)
(* has its time as seconds and milliseconds, like the code.  An event's id *)
(* is the fiber it is for: a fiber has one wait at a time.  The blocker is *)
(* that of EFiberBlocker(0), woken only while some fiber waits.  An        *)
(* EFiberLocal is known by its callback, which is all that its key in the  *)
(* fiber's table consists of.  Not in this model: interrupt() and other    *)
(* threads.                                                                *)
(***************************************************************************)
EXTENDS Integers, Sequences, SequencesExt, FiniteSets

CONSTANTS
    Fibers,         \* the program's fibers; those that are not scheduled before
                    \* join() are made by other fibers
    Timers,         \* the TimberFibers of addtimer()
    Delays,         \* arguments `delay' and `period' of addtimer() that are
    Periods,        \* tried; a period of 0 is a single run
    Durations,      \* the arguments of sleep() and tryWait(time) that are tried
    Locals,         \* the EFiberLocals
    Second,         \* milliseconds in a second, 1000 in the code
    IdleTimeout,    \* the poll timeout of an idle loop, 3000 in the code
    Horizon,        \* bound: the clock stops here
    None

All == Fibers \union Timers

ASSUME FiberTimersAssumption ==
    /\ Fibers \intersect Timers = {}
    /\ None \notin All /\ IsFiniteSet(All)
    /\ Delays \subseteq Nat /\ Periods \subseteq Nat
    /\ Durations \subseteq Nat
    /\ Second \in Nat \ {0} /\ Horizon \in Nat /\ Second <= Horizon
    /\ IdleTimeout \in Nat \ {0}

VARIABLES
    now,        \* gettimeofday(), never within its first second
    skewed,     \* the clock has been set back (bound: once)
    lastTime,   \* poll->lastTime, in seconds
    events,     \* the list at poll->timeEventHead
    waiters,    \* EIoWaiter::waiters
    queue,      \* defaultTaskQueue
    loop,       \* "before" join(), "top", "poll", "run" (a fiber has the CPU), "left"
    left,       \* what is left of the timeout of the poll under way
    current,    \* the fiber that has the CPU
    state,      \* EFiber::state
    pc,         \* where the fiber's code is
    due,        \* no state of the code: when the wait under way may end
    waitQueue,  \* the blocker's waitQueue
    delay, period,  \* of each TimberFiber
    canceled,   \* EFiber::canceled of a timer's fiber
    late,       \* no state of the code: runs of a timer since its cancel()
    refs,       \* refs[f]: how many sp<EFiber> refer to f; at 0 it is destroyed
    parent,     \* EFiber::parent
    values,     \* values[f]: the EFiberLocals with a value in f
    freed       \* freed[f]: the values ~EFiber gave to their callbacks

clockVars == <<now, skewed, lastTime>>
timerVars == <<delay, period, canceled, late>>
ownVars == <<refs, parent, values, freed>>
waitVars == <<due, waitQueue>>
vars == <<clockVars, events, waiters, queue, loop, left, current, state, pc,
          waitVars, timerVars, ownVars>>

-----------------------------------------------------------------------------
(* Time: seconds and milliseconds.                                         *)

Sec(t) == t \div Second
Ms(t) == t % Second
When(e) == e.sec * Second + e.ms

\* aeAddMillisecondsToNow: both parts are added, then a second is carried.
NoCarry(d) == [sec |-> Sec(now) + Sec(d), ms |-> (Ms(now) + Ms(d)) % Second]
Uncarried(d) == [sec |-> Sec(now) + Sec(d), ms |-> Ms(now) + Ms(d)]
AddToNow(d) ==
    LET ms == Ms(now) + Ms(d)
        sec == Sec(now) + Sec(d)
    IN  IF ms >= Second THEN [sec |-> sec + 1, ms |-> ms - Second]
                        ELSE [sec |-> sec, ms |-> ms]

Event(f, d) ==
    LET when == AddToNow(d)
    IN  [fiber |-> f, live |-> TRUE, sec |-> when.sec, ms |-> when.ms]

IsDue(e) == Sec(now) > e.sec \/ (Sec(now) = e.sec /\ Ms(now) >= e.ms)

-----------------------------------------------------------------------------
(* Lists: what is left of s when it is gone over and the elements at the   *)
(* positions in K stay.                                                    *)

Order(K) ==
    CHOOSE o \in [1..Cardinality(K) -> K] :
        \A i, j \in 1..Cardinality(K) : i < j => o[i] < o[j]
Picked(s, K) == LET o == Order(K) IN [i \in 1..Cardinality(K) |-> s[o[i]]]

-----------------------------------------------------------------------------
(* References.  m[f] are made to fiber f, n[f] are dropped; a fiber whose  *)
(* last one goes is destroyed, and with it the one it had to its parent.   *)

Zero == [f \in All |-> 0]
Ref(f) == [Zero EXCEPT ![f] = 1]
Children(f, S) == Cardinality({t \in S : parent[t] = f})

Kept(m, n) == [f \in All |-> refs[f] + m[f] - n[f]]
LastIn(D, kept) == {f \in All : refs[f] > 0 /\ kept[f] = Children(f, D)}
Dead(kept) ==
    LET gone[k \in 0..Cardinality(All)] ==
            IF k = 0 THEN {} ELSE LastIn(gone[k - 1], kept)
    IN  gone[Cardinality(All)]

Refer(m, n) ==
    \E kept \in {Kept(m, n)} : \E dead \in {Dead(kept)} :
    /\ refs' = [f \in All |-> kept[f] - Children(f, dead)]
    /\ freed' = [f \in All |-> IF f \in dead THEN values[f] ELSE freed[f]]
    /\ UNCHANGED values

-----------------------------------------------------------------------------
(* The poller.                                                             *)

\* aeSearchNearestTimer: deleted events are searched too.
Nearest ==
    CHOOSE e \in ToSet(events) : \A d \in ToSet(events) :
        e.sec < d.sec \/ (e.sec = d.sec /\ e.ms <= d.ms)

\* The timeout for epoll_wait: the difference to the nearest event's time, its
\* seconds clipped at zero after the milliseconds have borrowed from them.
NotBorrowed(e) == 0
Borrowed(e) == IF e.ms < Ms(now) THEN 1 ELSE 0
TimeTo(e) ==
    LET sec == e.sec - Sec(now) - Borrowed(e)
        ms == IF e.ms < Ms(now) THEN e.ms + Second - Ms(now) ELSE e.ms - Ms(now)
    IN  (IF sec < 0 THEN 0 ELSE sec) * Second + ms

PollTimeout == IF events = <<>> THEN IdleTimeout ELSE TimeTo(Nearest)

\* The list as processTimeEvents goes over it.  When the clock has been set
\* back every event is made to be due; deleted events leave the list.
Skewed == [i \in DOMAIN events |->
              IF Sec(now) < lastTime THEN [events[i] EXCEPT !.sec = 0] ELSE events[i]]
Live(s) == Picked(s, {i \in DOMAIN s : s[i].live})
Deleted(f) == Cardinality({i \in DOMAIN events : ~events[i].live /\ events[i].fiber = f})

Fired == {e \in ToSet(Live(Skewed)) : IsDue(e)}
FiredFor(f) == \E e \in Fired : e.fiber = f

\* The fibers that swapIn() puts on the run queue, in the order of the list.
AsleepUnblocked(f) == state[f] = "WAITING"
Asleep(f) == state[f] \in {"WAITING", "BLOCKED"}
Wakes ==
    LET live == Live(Skewed)
    IN  {i \in DOMAIN live : IsDue(live[i]) /\ Asleep(live[i].fiber)}
Woken ==
    LET woken == Picked(Live(Skewed), Wakes)
    IN  [i \in 1..Cardinality(Wakes) |-> woken[i].fiber]

\* A deleted event is unlinked and drops its reference to the fiber.
FinalizeNot == Refer(Zero, Zero)
Finalize == Refer(Zero, [f \in All |-> Deleted(f)])

\* A fired event stays on the list, deleted, until the next time.
processTimeEvents ==
    /\ LET live == Live(Skewed)
       IN  events' = [i \in DOMAIN live |->
                         IF IsDue(live[i]) THEN [live[i] EXCEPT !.live = FALSE] ELSE live[i]]
    /\ lastTime' = Sec(now)
    /\ state' = [f \in All |-> IF FiredFor(f) /\ Asleep(f) THEN "RUNNABLE" ELSE state[f]]
    /\ Finalize

LiveEvents(f) == {i \in DOMAIN events : events[i].live /\ events[i].fiber = f}

\* setupTimer: the event goes to the head of the list.
setupTimer(f, d) ==
    /\ events' = <<Event(f, d)>> \o events
    /\ waiters' = waiters + 1
    /\ due' = [due EXCEPT ![f] = now + d]

\* cancelTimer: the event, when it has not fired, is marked as deleted.
CancelledNot(f) == events
Cancelled(f) ==
    [i \in DOMAIN events |->
        IF events[i].fiber = f THEN [events[i] EXCEPT !.live = FALSE] ELSE events[i]]
cancelTimer(f) == events' = Cancelled(f) /\ waiters' = waiters - 1

-----------------------------------------------------------------------------
(* The loop of join().                                                     *)

Total == Cardinality({f \in All : pc[f] \notin {"unborn", "end"}})

Join ==
    /\ loop = "before" /\ loop' = "top"
    /\ UNCHANGED <<clockVars, events, waiters, queue, left, current, state, pc, waitVars,
                   timerVars, ownVars>>

\* A fiber is taken; if anything waits, the poller is looked at first.
Dispatch ==
    /\ loop = "top" /\ queue # <<>>
    /\ loop' = "run" /\ current' = Head(queue)
    /\ \/ waiters > 0 /\ processTimeEvents /\ queue' = Tail(queue) \o Woken
       \/ /\ waiters = 0 /\ queue' = Tail(queue)
          /\ UNCHANGED <<events, lastTime, state, refs, values, freed>>
    /\ UNCHANGED <<now, skewed, waiters, left, pc, waitVars, timerVars, parent>>

Idle ==
    /\ loop = "top" /\ queue = <<>> /\ Total > 0
    /\ loop' = "poll" /\ left' = PollTimeout
    /\ UNCHANGED <<clockVars, events, waiters, queue, current, state, pc, waitVars,
                   timerVars, ownVars>>

PollReturn ==
    /\ loop = "poll" /\ left = 0
    /\ loop' = "top"
    /\ processTimeEvents /\ queue' = queue \o Woken
    /\ UNCHANGED <<now, skewed, waiters, left, current, pc, waitVars,
                   timerVars, parent>>

\* join() returns; eco_poll_destroy does not go over the time events.
Leave ==
    /\ loop = "top" /\ queue = <<>> /\ Total = 0
    /\ loop' = "left"
    /\ UNCHANGED <<clockVars, events, waiters, queue, left, current, state, pc, waitVars,
                   timerVars, ownVars>>

-----------------------------------------------------------------------------
(* What a fiber does with the CPU.                                         *)

Has(f) == loop = "run" /\ current = f

\* The program's own code: in a fiber's run() or in a timer's.
Program(f) == IF f \in Timers THEN "fire" ELSE "run"
InProgram(f) == Has(f) /\ pc[f] = Program(f)

BackToLoop == loop' = "top" /\ current' = None
Become(f, s, at) == state' = [state EXCEPT ![f] = s] /\ pc' = [pc EXCEPT ![f] = at]

\* EFiber::sleep sets a timer, keeps a reference to the fiber and gives the
\* CPU back.
SleepTo(f, d, at) ==
    /\ setupTimer(f, d)
    /\ Refer([Ref(f) EXCEPT ![f] = 2], Zero)
    /\ Become(f, "WAITING", at)
    /\ BackToLoop
    /\ UNCHANGED <<clockVars, queue, left, waitQueue, timerVars, parent>>

Sleep(f, d) == InProgram(f) /\ SleepTo(f, d, "sleep")

AfterSleep(f) ==
    CASE pc[f] = "sleep" -> Program(f) [] pc[f] = "delay" -> "check" [] pc[f] = "period" -> "call"

SleepReturn(f) ==
    /\ Has(f) /\ pc[f] \in {"sleep", "delay", "period"}
    /\ cancelTimer(f)
    /\ Refer(Zero, Ref(f))
    /\ pc' = [pc EXCEPT ![f] = AfterSleep(f)]
    /\ due' = [due EXCEPT ![f] = 0]
    /\ UNCHANGED <<clockVars, queue, loop, left, current, state, waitQueue,
                   timerVars, parent>>

\* tryWait(time) that has to wait: with a time of 0 it waits without a timer.
\* The loop then puts the fiber on the wait queue, which refers to it.
TimedWait(f, d) ==
    /\ InProgram(f)
    /\ IF d > 0 THEN setupTimer(f, d) ELSE UNCHANGED <<events, waiters, due>>
    /\ Refer([Ref(f) EXCEPT ![f] = IF d > 0 THEN 2 ELSE 1], Zero)
    /\ Become(f, "BLOCKED", IF d > 0 THEN "wait" ELSE "waitLong")
    /\ waitQueue' = Append(waitQueue, f)
    /\ BackToLoop
    /\ UNCHANGED <<clockVars, queue, left, timerVars, parent>>

\* tryWait(time) goes on: the timer is cancelled, and a fiber that was timed
\* out takes itself off the wait queue.
TimedWaitReturn(f) ==
    /\ Has(f) /\ pc[f] \in {"wait", "waitLong"}
    /\ IF pc[f] = "wait" THEN cancelTimer(f) ELSE UNCHANGED <<events, waiters>>
    /\ due' = [due EXCEPT ![f] = 0]
    /\ IF LiveEvents(f) = {} /\ f \in ToSet(waitQueue)
       THEN /\ waitQueue' = Picked(waitQueue, {i \in DOMAIN waitQueue : waitQueue[i] # f})
            /\ Refer(Zero, Ref(f))
       ELSE UNCHANGED <<waitQueue, refs, values, freed>>
    /\ pc' = [pc EXCEPT ![f] = Program(f)]
    /\ UNCHANGED <<clockVars, queue, loop, left, current, state, timerVars, parent>>

\* wakeUp() resumes the first fiber on the wait queue or keeps one permit.
WakeUpFiber(f) ==
    /\ InProgram(f) /\ waitQueue # <<>>
    /\ waitQueue' = Tail(waitQueue)
    /\ IF Asleep(Head(waitQueue))
       THEN /\ state' = [state EXCEPT ![Head(waitQueue)] = "RUNNABLE"]
            /\ queue' = Append(queue, Head(waitQueue))
       ELSE UNCHANGED <<state, queue>>
    /\ Refer(Zero, Ref(Head(waitQueue)))
    /\ UNCHANGED <<clockVars, events, waiters, loop, left, current, pc, due,
                   timerVars, parent>>

Yield(f) ==
    /\ InProgram(f)
    /\ queue' = Append(queue, f)
    /\ BackToLoop
    /\ UNCHANGED <<clockVars, events, waiters, left, state, pc, waitVars, timerVars, ownVars>>

\* run() has returned: the loop deletes its reference.
KeptAtEnd(f) == Zero
DroppedAtEnd(f) == Ref(f)

EndRun(f) ==
    /\ Become(f, "TERMINATED", "end")
    /\ Refer(Zero, DroppedAtEnd(f))
    /\ BackToLoop
    /\ UNCHANGED <<clockVars, events, waiters, queue, left, waitVars, timerVars, parent>>

End(f) == f \in Fibers /\ InProgram(f) /\ EndRun(f)

\* A new fiber is scheduled; the one that makes it (or None) is its parent,
\* and it has a reference to that.
Made(f, g, at) ==
    /\ pc[g] = "unborn"
    /\ Become(g, "RUNNABLE", at)
    /\ queue' = Append(queue, g)
    /\ parent' = [parent EXCEPT ![g] = f]
    /\ Refer([h \in All |-> IF h \in {f, g} THEN 1 ELSE 0], Zero)
    /\ UNCHANGED <<clockVars, events, waiters, loop, left, current, waitVars>>

Spawn(f, g) == InProgram(f) /\ Made(f, g, "run") /\ UNCHANGED timerVars

\* EFiberLocal::set and remove.
SetLocal(f, l) ==
    /\ InProgram(f)
    /\ values' = [values EXCEPT ![f] = @ \union {l}]
    /\ UNCHANGED <<clockVars, events, waiters, queue, loop, left, current, state, pc, waitVars,
                   timerVars, refs, parent, freed>>

RemoveLocal(f, l) ==
    /\ InProgram(f)
    /\ values' = [values EXCEPT ![f] = @ \ {l}]
    /\ UNCHANGED <<clockVars, events, waiters, queue, loop, left, current, state, pc, waitVars,
                   timerVars, refs, parent, freed>>

-----------------------------------------------------------------------------
(* Timers.                                                                 *)

\* addtimer() by a fiber, which becomes the parent, or by nobody (None),
\* before join(); without a delay nothing is scheduled.
AddTimer(f, t) ==
    /\ InProgram(f) \/ (f = None /\ loop = "before")
    /\ Made(f, t, "new")
    /\ \E d \in Delays, p \in Periods :
           /\ d > 0
           /\ delay' = [delay EXCEPT ![t] = d]
           /\ period' = [period EXCEPT ![t] = p]
    /\ UNCHANGED <<canceled, late>>

\* EFiberTimer::cancel: the weak pointer finds the fiber while it is there.
CancelTimer(f, t) ==
    /\ InProgram(f) /\ refs[t] > 0
    /\ canceled' = [canceled EXCEPT ![t] = TRUE]
    /\ UNCHANGED <<clockVars, events, waiters, queue, loop, left, current, state, pc, waitVars,
                   delay, period, late, ownVars>>

\* TimberFiber::run sleeps for the delay ...
StartTimer(t) == Has(t) /\ pc[t] = "new" /\ SleepTo(t, delay[t], "delay")

\* ... and then for a period before each run, until it is cancelled ...
MayGoOn(t) == TRUE
GoesOn(t) == ~canceled[t]

NextPeriod(t) ==
    /\ Has(t) /\ pc[t] = "check" /\ period[t] > 0 /\ GoesOn(t)
    /\ SleepTo(t, period[t], "period")

\* ... or, without a period, runs the timer if it is not cancelled.
Ready(t) == pc[t] = "call" \/ (pc[t] = "check" /\ period[t] = 0 /\ GoesOn(t))

\* EFiberTimer::run, the program's code, begins and ends.
RunTimer(t) ==
    /\ Has(t) /\ Ready(t)
    /\ pc' = [pc EXCEPT ![t] = "fire"]
    /\ late' = [late EXCEPT ![t] = IF canceled[t] /\ @ < 2 THEN @ + 1 ELSE @]
    /\ UNCHANGED <<clockVars, events, waiters, queue, loop, left, current, state, waitVars,
                   delay, period, canceled, ownVars>>

ReturnTimer(t) ==
    /\ Has(t) /\ pc[t] = "fire"
    /\ pc' = [pc EXCEPT ![t] = IF period[t] > 0 THEN "check" ELSE "done"]
    /\ UNCHANGED <<clockVars, events, waiters, queue, loop, left, current, state, waitVars,
                   timerVars, ownVars>>

EndTimer(t) ==
    /\ Has(t)
    /\ pc[t] = "done" \/ (pc[t] = "check" /\ ~GoesOn(t))
    /\ EndRun(t)

-----------------------------------------------------------------------------
(* The clock.                                                              *)

Tick ==
    /\ loop \in {"run", "poll"}
    /\ now < Horizon \/ left > 0
    /\ now' = IF now < Horizon THEN now + 1 ELSE now
    /\ left' = IF left > 0 THEN left - 1 ELSE 0
    /\ UNCHANGED <<skewed, lastTime, events, waiters, queue, loop, current, state, pc, waitVars,
                   timerVars, ownVars>>

SetBack ==
    /\ loop \in {"run", "poll"} /\ ~skewed
    /\ \E t \in Second..(now - 1) : now' = t
    /\ skewed' = TRUE
    /\ UNCHANGED <<lastTime, events, waiters, queue, loop, left, current, state, pc, waitVars,
                   timerVars, ownVars>>

-----------------------------------------------------------------------------

Init ==
    /\ now = Second /\ skewed = FALSE /\ lastTime = 1
    /\ events = <<>> /\ waiters = 0
    /\ \E first \in SUBSET Fibers : queue \in SetToSeqs(first)
    /\ loop = "before" /\ left = 0 /\ current = None
    /\ state = [f \in All |-> IF f \in ToSet(queue) THEN "RUNNABLE" ELSE "NEW"]
    /\ pc = [f \in All |-> IF f \in ToSet(queue) THEN "run" ELSE "unborn"]
    /\ due = [f \in All |-> 0]
    /\ waitQueue = <<>>
    /\ delay = [t \in Timers |-> 0] /\ period = [t \in Timers |-> 0]
    /\ canceled = [t \in Timers |-> FALSE] /\ late = [t \in Timers |-> 0]
    /\ refs = [f \in All |-> IF f \in ToSet(queue) THEN 1 ELSE 0]
    /\ parent = [f \in All |-> None]
    /\ values = [f \in All |-> {}] /\ freed = [f \in All |-> {}]

Loop == Join \/ Dispatch \/ Idle \/ PollReturn \/ Leave

\* The steps by which a fiber goes on after a wait or gives the CPU back.
GoOn(f) ==
    \/ Yield(f) \/ End(f)
    \/ SleepReturn(f) \/ TimedWaitReturn(f)
    \/ \E d \in Durations : Sleep(f, d) \/ TimedWait(f, d)

TimerStep(t) ==
    StartTimer(t) \/ NextPeriod(t) \/ RunTimer(t) \/ ReturnTimer(t) \/ EndTimer(t)

\* The thread goes on: the loop has the CPU, or one fiber has.
ThreadStep ==
    \/ Loop
    \/ \E f \in All : GoOn(f)
    \/ \E t \in Timers : TimerStep(t)

Next ==
    \/ ThreadStep \/ Tick \/ SetBack
    \/ \E f \in All :
           \/ WakeUpFiber(f)
           \/ \E l \in Locals : SetLocal(f, l) \/ RemoveLocal(f, l)
           \/ \E g \in Fibers : Spawn(f, g)
           \/ \E t \in Timers : CancelTimer(f, t)
    \/ \E t \in Timers, f \in All \union {None} : AddTimer(f, t)

Spec == Init /\ [][Next]_vars

\* When ThreadStep is enabled: always, except in epoll_wait and at the end.
CanGoOn == loop # "left" /\ (loop = "poll" => left = 0)

(* The thread runs (this is WF_vars(ThreadStep)), so that a fiber with the *)
(* CPU does not keep it for ever, and time goes on.                        *)
Fairness ==
    /\ []<>(~CanGoOn) \/ []<><<ThreadStep>>_vars
    /\ SF_vars(Tick)

FairSpec == Spec /\ Fairness

-----------------------------------------------------------------------------

TypeOK ==
    /\ now \in Second..Horizon /\ skewed \in BOOLEAN /\ lastTime \in Nat
    /\ events \in Seq([fiber : All, live : BOOLEAN, sec : Nat, ms : 0..(Second - 1)])
    /\ waiters \in Nat
    /\ queue \in Seq(All)
    /\ loop \in {"before", "top", "poll", "run", "left"} /\ left \in Nat
    /\ current \in All \union {None} /\ (current = None <=> loop # "run")
    /\ state \in [All -> {"NEW", "RUNNABLE", "WAITING", "BLOCKED", "TERMINATED"}]
    /\ pc \in [All -> {"unborn", "new", "run", "sleep", "wait", "waitLong", "delay", "check",
                       "period", "call", "fire", "done", "end"}]
    /\ due \in [All -> Nat]
    /\ waitQueue \in Seq(All)
    /\ delay \in [Timers -> Nat] /\ period \in [Timers -> Nat]
    /\ canceled \in [Timers -> BOOLEAN] /\ late \in [Timers -> 0..2]
    /\ refs \in [All -> Nat] /\ parent \in [All -> All \union {None}]
    /\ values \in [All -> SUBSET Locals] /\ freed \in [All -> SUBSET Locals]

Timed(f) == pc[f] \in {"sleep", "delay", "period", "wait"}
Sleeping(f) == pc[f] \in {"sleep", "delay", "period"}

(* EFiber::sleep and TimberFiber: a sleep is not over before its time,     *)
(* whichever seconds and milliseconds it crosses, unless the clock has     *)
(* been set back.                                                          *)
NeverEarly ==
    \A f \in All : Sleeping(f) /\ state[f] = "RUNNABLE" => skewed \/ now >= due[f]

(* Every fiber that waits with a timer has one live event, so that         *)
(* something will end its wait; `waiters' counts those waits, so that the  *)
(* loop looks at the poller while there are any; and an event that could   *)
(* resume a fiber in a later wait is gone.                                 *)
WaitsHaveEvents ==
    /\ waiters = Cardinality({f \in All : Timed(f)})
    /\ \A f \in All :
           /\ Timed(f) /\ Asleep(f) => Cardinality(LiveEvents(f)) = 1
           /\ ~Timed(f) => LiveEvents(f) = {}

(* The poller never sleeps a second or more past the time of an event that *)
(* some fiber waits for, though it may sleep past it: see DelaysNoEvent.   *)
OversleepsLessThanSecond ==
    loop = "poll" =>
        \A e \in ToSet(events) :
            e.live => left <= IF When(e) - now >= Second THEN When(e) - now ELSE Second - 1

(* Sleeps are on time: not early, and late by less than a second.          *)
OnTime == NeverEarly /\ OversleepsLessThanSecond

(* eco_ae.c:279 and 401 say "how many time the select can be put in sleep  *)
(* without to delay any event" and "Calculate the time missing for the     *)
(* nearest timer to fire".                                                 *)
DelaysNoEvent ==
    loop = "poll" =>
        \A e \in ToSet(events) :
            e.live => left <= IF When(e) > now THEN When(e) - now ELSE 0

(* After EFiberTimer::cancel a timer without a period does not run, and    *)
(* one with a period runs at most once, having been in its sleep.          *)
CancelStops == \A t \in Timers : late[t] <= IF period[t] > 0 THEN 1 ELSE 0

References(f) ==
    Cardinality({i \in DOMAIN events : events[i].fiber = f})
    + Cardinality({i \in DOMAIN waitQueue : waitQueue[i] = f})
    + Cardinality({g \in All : parent[g] = f /\ refs[g] > 0})
    + (IF Sleeping(f) THEN 1 ELSE 0)
    + (IF pc[f] \in {"unborn", "end"} THEN 0 ELSE 1)

(* A fiber is there as long as the scheduler, an event, the wait queue,    *)
(* its own stack or a child refers to it, and is destroyed with the last   *)
(* of them: none is dropped twice or forgotten.                            *)
RefsExact == \A f \in All : refs[f] = References(f)

\* f, the fibers and timers it made, those that these made, and so on.
Family(f) ==
    {g \in All : \A S \in SUBSET All :
        f \in S /\ (\A h \in All : parent[h] \in S => h \in S) => g \in S}

(* When join() has returned, every value that an EFiberLocal still had in  *)
(* a fiber has gone to its callback, unless a cancelled event was left on  *)
(* the poller's list, of the fiber or of one that descends from it: these  *)
(* alone keep a fiber, not the wait queue, its stack, or a child that has  *)
(* nothing to keep it.                                                     *)
LocalsFreed ==
    loop = "left" =>
        \A f \in All :
            freed[f] = values[f] \/ \E e \in ToSet(events) : e.fiber \in Family(f)

(* A wait with a timer ends, also when the clock is set back under it.     *)
TimedWaitEnds ==
    \A f \in All : Timed(f) /\ due[f] <= Horizon ~> ~(Timed(f) /\ due[f] <= Horizon)

=============================================================================
