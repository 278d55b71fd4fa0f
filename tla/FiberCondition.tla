--------------------------- MODULE FiberCondition ---------------------------
(***************************************************************************)
(* EFiberCondition: every await() makes a fresh EFiberBlocker(0), puts it  *)
(* on the queue `waiters' and waits on it; signal() polls one and wakes    *)
(* it; signalAll() wakes every blocker on the queue and leaves the queue   *)
(* as it is.  Built on Semaphore: a blocker is made for one await() and    *)
(* exists while a call or the queue refers to it; the next await() to get  *)
(* its place in memory starts with a new one.                              *)
(***************************************************************************)
EXTENDS Semaphore, Sequences

CONSTANT Awaits    \* the blockers that await() makes

ASSUME FiberConditionAssumption ==
    Awaits \subseteq Blockers /\ \A b \in Awaits : Capacity[b] = 0 /\ Limit[b] > 0

VARIABLES
    waiters,    \* the blockers on the queue, head first
    mine,       \* mine[c]: the blocker of the await() that c is in
    todo,       \* todo[c]: what signal() or signalAll() of c has yet to wake
    swept       \* no state of the code: the blockers a signalAll() went over

conditionVars == <<vars, waiters, mine, todo, swept>>

ConditionTypeOK ==
    /\ TypeOK
    /\ waiters \in Seq(Awaits)
    /\ mine \in [Callers -> Awaits \union {None}]
    /\ todo \in [Callers -> Seq(Awaits)]
    /\ swept \in SUBSET Awaits

ConditionInit ==
    /\ Init
    /\ waiters = <<>>
    /\ mine = [c \in Callers |-> None]
    /\ todo = [c \in Callers |-> <<>>]
    /\ swept = {}

Calm(c) == mine[c] = None /\ todo[c] = <<>>

Queued(b) == \E i \in 1..Len(waiters) : waiters[i] = b
BeingWoken(b) == \E c \in Callers : \E i \in 1..Len(todo[c]) : todo[c][i] = b
Alive(b) == Queued(b) \/ BeingWoken(b) \/ \E c \in Callers : mine[c] = b

\* await() makes a blocker and adds it to the queue ...
Await(c, b) ==
    /\ Calm(c)
    /\ ~Alive(b)
    /\ permits' = [permits EXCEPT ![b] = 0]
    /\ mine' = [mine EXCEPT ![c] = b]
    /\ waiters' = Append(waiters, b)
    /\ swept' = swept \ {b}
    /\ UNCHANGED <<waitsOn, granted, timed, todo>>

\* ... waits on it, possibly finding it woken already ...
AwaitWait(c) ==
    /\ mine[c] # None
    /\ Acquire(c, mine[c]) \/ Enter(c, mine[c], FALSE)
    /\ UNCHANGED <<waiters, mine, todo, swept>>

AwaitTake(c) == mine[c] # None /\ Take(c) /\ UNCHANGED <<waiters, mine, todo, swept>>

\* ... and returns.
AwaitReturn(c) ==
    /\ mine[c] # None
    /\ Return(c)
    /\ mine' = [mine EXCEPT ![c] = None]
    /\ UNCHANGED <<waiters, todo, swept>>

PolledNot(q) == q
Polled(q) == Tail(q)

\* signal() polls a blocker; an empty queue leaves nothing to do.
Signal(c) ==
    /\ Calm(c)
    /\ waiters # <<>>
    /\ todo' = [todo EXCEPT ![c] = <<Head(waiters)>>]
    /\ waiters' = Polled(waiters)
    /\ UNCHANGED <<vars, mine, swept>>

\* signalAll() goes over the queue.
SignalAll(c) ==
    /\ Calm(c)
    /\ waiters # <<>>
    /\ todo' = [todo EXCEPT ![c] = waiters]
    /\ swept' = swept \union {waiters[i] : i \in 1..Len(waiters)}
    /\ UNCHANGED <<vars, waiters, mine>>

WakeNext(c) ==
    /\ todo[c] # <<>>
    /\ WakeUp(Head(todo[c]))
    /\ todo' = [todo EXCEPT ![c] = Tail(@)]
    /\ UNCHANGED <<waiters, mine, swept>>

ConditionStep(c) ==
    \/ (\E b \in Awaits : Await(c, b)) \/ AwaitWait(c) \/ AwaitTake(c) \/ AwaitReturn(c)
    \/ Signal(c) \/ SignalAll(c) \/ WakeNext(c)

ConditionNext == \E c \in Callers : ConditionStep(c)

ConditionSpec == ConditionInit /\ [][ConditionNext]_conditionVars

-----------------------------------------------------------------------------

(* A signal() is never spent on a blocker nobody waits on, unless          *)
(* signalAll() left it behind on the queue: what is queued or about to be  *)
(* woken is some await() that has not been woken.                          *)
SignalsReachAwaits ==
    \A b \in Awaits \ swept :
        Queued(b) \/ BeingWoken(b)
            => permits[b] = 0 /\ \E c \in Callers : mine[c] = b /\ ~granted[c]

(* No await() is forgotten: until it is woken it is on the queue or in the *)
(* hands of a signaller.                                                   *)
NoForgottenAwait ==
    \A c \in Callers :
        mine[c] # None /\ ~granted[c] =>
            Queued(mine[c]) \/ BeingWoken(mine[c]) \/ permits[mine[c]] > 0

=============================================================================
