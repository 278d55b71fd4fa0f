-------------------------- MODULE FiberMutexProofs --------------------------
(***************************************************************************)
(* Proofs about FiberMutex, for every set of callers and of mutexes, and   *)
(* whichever callers are Steady.  Those are the only ones to use           *)
(* tryLock(time): where one scheduler thread runs all fibers, everybody;   *)
(* else plain threads only.                                                *)
(***************************************************************************)
EXTENDS FiberMutex, TLAPS

(* A caller between two calls has no permit in hand, and nobody waits for  *)
(* a mutex it holds: the code's lock() is not recursive.                   *)
CallsClean ==
    /\ \A c \in Callers : waitsOn[c] = None => ~granted[c]
    /\ \A c \in Callers : waitsOn[c] \notin holds[c]

(* The inductive invariant: the one token of a mutex is its permit or its  *)
(* owner.                                                                  *)
MutexInv == MutexTypeOK /\ CallsClean /\ MutualExclusion /\ LockedIffOwned

LEMMA InitMutexInv == MutexInit => MutexInv
BY SemaphoreAssumption, FiberMutexAssumption
   DEF MutexInit, Init, MutexInv, MutexTypeOK, TypeOK, CallsClean, MutualExclusion,
       LockedIffOwned, isLocked, Has

(* A step that moves no token: nobody comes to have a mutex or ceases to.  *)
LEMMA SameTokens ==
    ASSUME MutexInv, permits' = permits, \A c \in Callers, m \in Mutexes : Has(c, m)' <=> Has(c, m)
    PROVE  (MutualExclusion /\ LockedIffOwned)'
BY DEF MutexInv, MutualExclusion, LockedIffOwned, isLocked

(* A caller takes the permit of a mutex: nobody had it.                    *)
LEMMA TokenTaken ==
    ASSUME MutexInv, NEW c \in Callers, NEW m \in Mutexes, permits[m] > 0,
           permits' = [permits EXCEPT ![m] = @ - 1],
           \A d \in Callers, n \in Mutexes : Has(d, n)' <=> Has(d, n) \/ (d = c /\ n = m)
    PROVE  (MutualExclusion /\ LockedIffOwned)'
<1>1. permits[m] = 1 /\ \A d \in Callers : ~Has(d, m)
  BY DEF MutexInv, MutexTypeOK, LockedIffOwned, isLocked
<1>2. permits'[m] = 0 /\ \A n \in Mutexes : n # m => permits'[n] = permits[n]
  BY <1>1, FiberMutexAssumption DEF MutexInv, MutexTypeOK, TypeOK
<1>3. MutualExclusion'
  BY <1>1 DEF MutexInv, MutualExclusion
<1>4. ASSUME NEW n \in Mutexes PROVE isLocked(n)' <=> \E d \in Callers : Has(d, n)'
  <2>1. CASE n = m
    BY <1>2, <2>1 DEF isLocked
  <2>2. CASE n # m
    BY <1>2, <2>2 DEF isLocked, MutexInv, LockedIffOwned
  <2> QED BY <2>1, <2>2
<1> QED BY <1>3, <1>4 DEF LockedIffOwned

(* Every step keeps the invariant: one step per action.                    *)
LEMMA NextMutexInv == MutexInv /\ [MutexNext]_mutexVars => MutexInv'
<1> SUFFICES ASSUME MutexInv, [MutexNext]_mutexVars PROVE MutexInv'
  OBVIOUS
<1> USE SemaphoreAssumption, FiberMutexAssumption
<1>t. MutexTypeOK /\ TypeOK /\ CallsClean
  BY DEF MutexInv, MutexTypeOK
<1>1. ASSUME NEW c \in Callers, NEW m \in Mutexes, Lock(c, m) PROVE MutexInv'
  <2>1. (MutexTypeOK /\ CallsClean)'
    BY <1>1, <1>t DEF Lock, Acquire, Idle, MutexTypeOK, TypeOK, CallsClean
  <2>2. \A d \in Callers, n \in Mutexes : Has(d, n)' <=> Has(d, n) \/ (d = c /\ n = m)
    BY <1>1, <1>t DEF Lock, Acquire, Idle, Has, MutexTypeOK, TypeOK, CallsClean
  <2>3. (MutualExclusion /\ LockedIffOwned)'
    BY <1>1, <2>2, TokenTaken DEF Lock, Acquire
  <2> QED BY <2>1, <2>3 DEF MutexInv
<1>2. ASSUME NEW c \in Callers, LockTake(c) PROVE MutexInv'
  <2>0. waitsOn[c] \in Mutexes /\ ~granted[c]
    BY <1>2, <1>t DEF LockTake, InLock, Take, Waiting, TypeOK
  <2>1. (MutexTypeOK /\ CallsClean)'
    BY <1>2, <1>t, <2>0 DEF LockTake, InLock, Take, MutexTypeOK, TypeOK, CallsClean
  <2>2. \A d \in Callers, n \in Mutexes : Has(d, n)' <=> Has(d, n) \/ (d = c /\ n = waitsOn[c])
    BY <1>2, <1>t, <2>0 DEF LockTake, InLock, Take, Has, MutexTypeOK, TypeOK
  <2>3. (MutualExclusion /\ LockedIffOwned)'
    BY <1>2, <2>0, <2>2, TokenTaken DEF LockTake, InLock, Take
  <2> QED BY <2>1, <2>3 DEF MutexInv
<1>3. ASSUME NEW c \in Callers, Locked(c) PROVE MutexInv'
  <2>0. waitsOn[c] \in Mutexes /\ granted[c]
    BY <1>3, <1>t DEF Locked, InLock, Return, TypeOK
  <2>1. (MutexTypeOK /\ CallsClean)'
    BY <1>3, <1>t, <2>0 DEF Locked, InLock, Return, MutexTypeOK, TypeOK, CallsClean
  <2>2. \A d \in Callers, n \in Mutexes : Has(d, n)' <=> Has(d, n)
    BY <1>3, <1>t, <2>0 DEF Locked, InLock, Return, Has, MutexTypeOK, TypeOK
  <2> QED BY <1>3, <2>1, <2>2, SameTokens DEF MutexInv, Locked, Return
<1>4. ASSUME NEW c \in Callers, TryLockFails(c) PROVE MutexInv'
  <2>1. (MutexTypeOK /\ CallsClean)'
    BY <1>4, <1>t DEF TryLockFails, InLock, GiveUp, Waiting, MutexTypeOK, TypeOK, CallsClean
  <2>2. \A d \in Callers, n \in Mutexes : Has(d, n)' <=> Has(d, n)
    BY <1>4, <1>t DEF TryLockFails, InLock, GiveUp, Waiting, Has, MutexTypeOK, TypeOK
  <2> QED BY <1>4, <2>1, <2>2, SameTokens DEF MutexInv, TryLockFails, GiveUp
<1>5. ASSUME NEW c \in Callers, NEW m \in Mutexes, NEW tm \in BOOLEAN, LockWait(c, m, tm)
      PROVE  MutexInv'
  <2>1. (MutexTypeOK /\ CallsClean)'
    BY <1>5, <1>t DEF LockWait, Enter, Idle, MutexTypeOK, TypeOK, CallsClean
  <2>2. \A d \in Callers, n \in Mutexes : Has(d, n)' <=> Has(d, n)
    BY <1>5, <1>t DEF LockWait, Enter, Idle, Has, MutexTypeOK, TypeOK, CallsClean
  <2> QED BY <1>5, <2>1, <2>2, SameTokens DEF MutexInv, LockWait, Enter
<1>6. ASSUME NEW c \in Callers, NEW m \in Mutexes, Unlock(c, m) PROVE MutexInv'
  <2>0. /\ m \in holds[c] /\ waitsOn[c] = None
        /\ holds' = [holds EXCEPT ![c] = @ \ {m}]
        /\ permits[m] = 0
    BY <1>6, <1>t DEF Unlock, Owns, Idle, MutexInv, LockedIffOwned, isLocked, Has
  <2>1. \A d \in Callers : Has(d, m) => d = c
    BY <2>0 DEF MutexInv, MutualExclusion, Has
  <2>2. CASE Release(m)
    <3>1. (MutexTypeOK /\ CallsClean)'
      BY <2>0, <2>2, <1>t DEF Release, MutexTypeOK, TypeOK, CallsClean
    <3>2. \A d \in Callers, n \in Mutexes : Has(d, n)' <=> Has(d, n) /\ n # m
      BY <2>0, <2>1, <2>2, <1>t DEF Release, Has, MutexTypeOK, TypeOK
    <3>3. MutualExclusion'
      BY <3>2 DEF MutexInv, MutualExclusion
    <3>4. permits'[m] = 1 /\ \A n \in Mutexes : n # m => permits'[n] = permits[n]
      BY <2>0, <2>2, <1>t DEF Release, MutexTypeOK, TypeOK
    <3>5. ASSUME NEW n \in Mutexes PROVE isLocked(n)' <=> \E d \in Callers : Has(d, n)'
      <4>1. CASE n = m
        BY <3>2, <3>4, <4>1 DEF isLocked
      <4>2. CASE n # m
        BY <3>2, <3>4, <4>2 DEF isLocked, MutexInv, LockedIffOwned
      <4> QED BY <4>1, <4>2
    <3> QED BY <3>1, <3>3, <3>5 DEF MutexInv, LockedIffOwned
  <2>3. ASSUME NEW w \in Callers, waitsOn[w] = m, Handoff(w) PROVE MutexInv'
    <3>0. w # c /\ ~granted[w]
      BY <2>0, <2>3 DEF Handoff, Waiting
    <3>1. (MutexTypeOK /\ CallsClean)'
      BY <2>0, <2>3, <3>0, <1>t DEF Handoff, Waiting, MutexTypeOK, TypeOK, CallsClean
    <3>2. \A d \in Callers, n \in Mutexes :
              Has(d, n)' <=> IF n = m THEN d = w ELSE Has(d, n)
      BY <2>0, <2>1, <2>3, <3>0, <1>t DEF Handoff, Waiting, Has, MutexTypeOK, TypeOK
    <3>3. MutualExclusion'
      BY <3>2 DEF MutexInv, MutualExclusion
    <3>4. permits' = permits
      BY <2>3 DEF Handoff
    <3>5. ASSUME NEW n \in Mutexes PROVE isLocked(n)' <=> \E d \in Callers : Has(d, n)'
      <4>1. CASE n = m
        BY <2>0, <3>2, <3>4, <4>1 DEF isLocked
      <4>2. CASE n # m
        BY <3>2, <3>4, <4>2 DEF isLocked, MutexInv, LockedIffOwned
      <4> QED BY <4>1, <4>2
    <3> QED BY <3>1, <3>3, <3>5 DEF MutexInv, LockedIffOwned
  <2>4. ~(permits[m] >= Limit[m])
    BY <2>0, FiberMutexAssumption
  <2> QED BY <1>6, <2>2, <2>3, <2>4 DEF Unlock, WakeUp
<1>7. CASE UNCHANGED mutexVars
  BY <1>7 DEF mutexVars, vars, MutexInv, MutexTypeOK, TypeOK, CallsClean, MutualExclusion,
              LockedIffOwned, isLocked, Has
<1> QED BY <1>1, <1>2, <1>3, <1>4, <1>5, <1>6, <1>7 DEF MutexNext, MutexStep

(* EFiberMutex::lock, tryLock, unlock, on any number of threads, and       *)
(* tryLock(time) of Steady callers: no two callers ever have the same      *)
(* mutex.                                                                  *)
THEOREM MutualExclusionHolds == MutexSpec => []MutualExclusion
<1>1. MutexInv => MutualExclusion
  BY DEF MutexInv
<1> QED BY <1>1, InitMutexInv, NextMutexInv, PTL DEF MutexSpec

(* EFiberMutex::isLocked: the permit is never lost and never doubled, as   *)
(* long as no fiber that is not Steady lets a tryLock(time) end.           *)
THEOREM LockedIffOwnedHolds == MutexSpec => []LockedIffOwned
<1>1. MutexInv => LockedIffOwned
  BY DEF MutexInv
<1> QED BY <1>1, InitMutexInv, NextMutexInv, PTL DEF MutexSpec

=============================================================================
