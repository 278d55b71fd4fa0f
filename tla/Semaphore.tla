------------------------------ MODULE Semaphore ------------------------------
(***************************************************************************)
(* What an EFiberBlocker promises to its callers, with the dispatchers,    *)
(* the queues and the wake-up pipes left out: a counting semaphore with a  *)
(* limit, whose release hands the permit straight to a waiting caller when *)
(* there is one.  A caller is a fiber or a plain thread.                   *)
(*                                                                         *)
(* FiberBlocker implements this specification; FiberMutex, FiberChannel    *)
(* and FiberCondition are built on it.                                     *)
(*                                                                         *)
(* The promise has a condition.  A fiber that lets a tryWait(time) end, or *)
(* that calls yield() after a wait, can find its next wait() returned      *)
(* without a permit, or a permit taken for nothing, when the waker runs on *)
(* another thread: a late swapIn() resumes the wrong wait, and the loop    *)
(* swaps a fiber that kept its state BLOCKED out again.  So only `Steady'  *)
(* callers make timed calls and yield here: the fibers of a scheduler with *)
(* one thread and no plain thread beside it, and plain threads.  What is   *)
(* built on this module is claimed for programs that do the same.          *)
(***************************************************************************)
EXTENDS Naturals

CONSTANTS
    Callers,    \* the fibers and threads that call the blocker
    Steady,     \* those that may use tryWait(time) and yield()
    Blockers,   \* the EFiberBlocker objects
    Capacity,   \* constructor argument `capacity' of each blocker
    Limit,      \* constructor argument `limit' of each blocker
    None        \* "waits on no blocker"

ASSUME SemaphoreAssumption ==
    /\ Steady \subseteq Callers
    /\ Capacity \in [Blockers -> Nat]
    /\ Limit \in [Blockers -> Nat]
    /\ \A b \in Blockers : Capacity[b] <= Limit[b]
    /\ None \notin Blockers

VARIABLES
    permits,    \* permits[b]: releases nobody has used yet
    waitsOn,    \* waitsOn[c]: the blocker whose wait()/tryWait() c is inside
    granted,    \* granted[c]: c's call holds its permit but has not returned
    timed       \* timed[c]: c's call is the tryWait with a timeout

vars == <<permits, waitsOn, granted, timed>>

TypeOK ==
    /\ permits \in [Blockers -> Nat]
    /\ waitsOn \in [Callers -> Blockers \union {None}]
    /\ granted \in [Callers -> BOOLEAN]
    /\ timed \in [Callers -> BOOLEAN]

Idle(c) == waitsOn[c] = None
Waiting(c) == waitsOn[c] # None /\ ~granted[c]

Init ==
    /\ permits = Capacity
    /\ waitsOn = [c \in Callers |-> None]
    /\ granted = [c \in Callers |-> FALSE]
    /\ timed = [c \in Callers |-> FALSE]

\* wait() or tryWait() that finds a permit takes it at once.
Acquire(c, b) ==
    /\ Idle(c)
    /\ permits[b] > 0
    /\ permits' = [permits EXCEPT ![b] = @ - 1]
    /\ waitsOn' = [waitsOn EXCEPT ![c] = b]
    /\ granted' = [granted EXCEPT ![c] = TRUE]
    /\ UNCHANGED timed

\* A call that has to wait, with a timeout (t) or without.
Enter(c, b, t) ==
    /\ Idle(c)
    /\ t => c \in Steady
    /\ waitsOn' = [waitsOn EXCEPT ![c] = b]
    /\ timed' = [timed EXCEPT ![c] = t]
    /\ UNCHANGED <<permits, granted>>

\* A waiting caller takes a permit released since it began to wait.
Take(c) ==
    /\ Waiting(c)
    /\ permits[waitsOn[c]] > 0
    /\ permits' = [permits EXCEPT ![waitsOn[c]] = @ - 1]
    /\ granted' = [granted EXCEPT ![c] = TRUE]
    /\ UNCHANGED <<waitsOn, timed>>

\* A release nobody waits for is kept, up to the limit.
Release(b) ==
    /\ permits[b] < Limit[b]
    /\ permits' = [permits EXCEPT ![b] = @ + 1]
    /\ UNCHANGED <<waitsOn, granted, timed>>

\* A release that goes to a waiting caller.
Handoff(c) ==
    /\ Waiting(c)
    /\ granted' = [granted EXCEPT ![c] = TRUE]
    /\ UNCHANGED <<permits, waitsOn, timed>>

WakeUpLost(b) == UNCHANGED vars
WakeUpKept(b) ==
    \/ Release(b)
    \/ \E w \in Callers :
           /\ waitsOn[w] = b /\ ~granted[w]
           /\ granted' = [granted EXCEPT ![w] = TRUE]
           /\ permits' = [permits EXCEPT ![b] = @ + 1]
           /\ UNCHANGED <<waitsOn, timed>>
WakeUpSleepersOnly(b) ==
    \/ \E w \in Callers : waitsOn[w] = b /\ Handoff(w)
    \/ (\A w \in Callers : waitsOn[w] # b) /\ UNCHANGED vars

\* wakeUp() as its callers see it: kept, handed over, or refused at the limit.
WakeUp(b) ==
    \/ Release(b)
    \/ \E w \in Callers : waitsOn[w] = b /\ Handoff(w)
    \/ permits[b] >= Limit[b] /\ UNCHANGED vars

\* The call returns with its permit.
Return(c) ==
    /\ waitsOn[c] # None
    /\ granted[c]
    /\ waitsOn' = [waitsOn EXCEPT ![c] = None]
    /\ granted' = [granted EXCEPT ![c] = FALSE]
    /\ timed' = [timed EXCEPT ![c] = FALSE]
    /\ UNCHANGED permits

\* A timed call returns false: its time is over and it holds no permit.
GiveUp(c) ==
    /\ Waiting(c)
    /\ timed[c]
    /\ waitsOn' = [waitsOn EXCEPT ![c] = None]
    /\ timed' = [timed EXCEPT ![c] = FALSE]
    /\ UNCHANGED <<permits, granted>>

Next ==
    \/ \E c \in Callers : Take(c) \/ Handoff(c) \/ Return(c) \/ GiveUp(c)
    \/ \E b \in Blockers : Release(b)
    \/ \E c \in Callers, b \in Blockers :
           Acquire(c, b) \/ \E t \in BOOLEAN : Enter(c, b, t)

Spec == Init /\ [][Next]_vars

(* A permit and a caller waiting for it do not stay side by side, and a    *)
(* call that holds its permit returns.                                     *)
Fairness == \A c \in Callers : WF_vars(Take(c)) /\ WF_vars(Return(c))

FairSpec == Spec /\ Fairness

=============================================================================
