----------------------------- MODULE FiberMutex -----------------------------
(***************************************************************************)
(* EFiberMutex: an EFiberBlocker with capacity 1 and limit 1, used by      *)
(* callers that unlock only what they have locked (a mutex unlocked by     *)
(* another caller is a semaphore of one permit, and nobody owns it).       *)
(* Built on what Semaphore promises of a blocker, which FiberBlocker       *)
(* implements; so tryLock(time) is for `Steady' callers only: on several   *)
(* threads a fiber's tryLock(time) that fails can make its next lock()     *)
(* return without the mutex.                                               *)
(***************************************************************************)
EXTENDS Semaphore

CONSTANT Mutexes    \* the blockers that are mutexes

ASSUME FiberMutexAssumption ==
    /\ Mutexes \subseteq Blockers
    /\ \A m \in Mutexes : Capacity[m] = 1 /\ Limit[m] = 1

VARIABLE holds    \* holds[c]: the mutexes c has locked and not yet unlocked

mutexVars == <<vars, holds>>

MutexTypeOK ==
    /\ TypeOK
    /\ \A m \in Mutexes : permits[m] \in {0, 1}
    /\ holds \in [Callers -> SUBSET Mutexes]

MutexInit == Init /\ holds = [c \in Callers |-> {}]

\* lock(), tryLock() or tryLock(time): the permit is there.  A mutex is not
\* recursive: a caller that holds it would wait for itself.
Lock(c, m) == m \notin holds[c] /\ Acquire(c, m) /\ UNCHANGED holds

\* lock() (tm = FALSE) or tryLock(time) (tm = TRUE, if c is Steady) has to wait.
LockWait(c, m, tm) == m \notin holds[c] /\ Enter(c, m, tm) /\ UNCHANGED holds

InLock(c) == waitsOn[c] \in Mutexes

\* A waiting lock() takes the permit of an unlock() it overlapped.
LockTake(c) == InLock(c) /\ Take(c) /\ UNCHANGED holds

Locked(c) ==
    /\ InLock(c)
    /\ Return(c)
    /\ holds' = [holds EXCEPT ![c] = @ \union {waitsOn[c]}]

TryLockFails(c) == InLock(c) /\ GiveUp(c) /\ UNCHANGED holds

Owns(c, m) == m \in holds[c]

\* unlock() is wakeUp().
Unlock(c, m) ==
    /\ Owns(c, m)
    /\ Idle(c)
    /\ WakeUp(m)
    /\ holds' = [holds EXCEPT ![c] = @ \ {m}]

isLocked(m) == permits[m] = 0

MutexStep(c) ==
    \/ LockTake(c) \/ Locked(c) \/ TryLockFails(c)
    \/ \E m \in Mutexes :
           Lock(c, m) \/ Unlock(c, m) \/ \E tm \in BOOLEAN : LockWait(c, m, tm)

MutexNext == \E c \in Callers : MutexStep(c)

MutexSpec == MutexInit /\ [][MutexNext]_mutexVars

-----------------------------------------------------------------------------

\* c owns m, or its lock() has been given it and is about to return.
Has(c, m) == m \in holds[c] \/ (waitsOn[c] = m /\ granted[c])

(* No two callers have the same mutex, whichever of immediate lock or      *)
(* hand-over by unlock() they got it by, on any number of threads as long  *)
(* as only Steady callers, with one scheduler thread, use tryLock(time).   *)
MutualExclusion ==
    \A m \in Mutexes, c, d \in Callers : Has(c, m) /\ Has(d, m) => c = d

(* The permit is neither lost nor doubled: isLocked() says exactly whether *)
(* somebody has the mutex, also after the tryLock(time) of a Steady caller *)
(* gave up.                                                                *)
LockedIffOwned ==
    \A m \in Mutexes : isLocked(m) <=> \E c \in Callers : Has(c, m)

=============================================================================
