------------------------------ MODULE FiberSync ------------------------------
(***************************************************************************)
(* The synchronisers together: mutexes, a condition and a channel used by  *)
(* the same callers, each on blockers of its own out of one Semaphore.  A  *)
(* caller is in one operation at a time, and may hold a mutex in another.  *)
(* On several scheduler threads the fibers use tryLock(time) and tryRead   *)
(* no more than Semaphore allows (`Steady').                               *)
(***************************************************************************)
EXTENDS FiberMutex, FiberChannel, FiberCondition

ASSUME FiberSyncAssumption ==
    /\ Mutexes \intersect Awaits = {}
    /\ {writer, reader} \intersect (Mutexes \union Awaits) = {}

syncVars == <<vars, holds, pc, stored, waiters, mine, todo, swept>>

(* Types, and the limits: a blocker never has more permits than its own.   *)
SyncTypeOK ==
    /\ MutexTypeOK /\ ChannelTypeOK /\ ConditionTypeOK
    /\ \A b \in Blockers : permits[b] <= Limit[b]

SyncInit == MutexInit /\ ChannelInit /\ ConditionInit

InChannel(c) == pc[c] # "idle"

MutexOp(c) ==
    /\ ~InChannel(c) /\ Calm(c)
    /\ MutexStep(c)
    /\ UNCHANGED <<pc, stored, waiters, mine, todo, swept>>

ChannelOp(c) ==
    /\ ~InLock(c) /\ Calm(c)
    /\ ChannelStep(c)
    /\ UNCHANGED <<holds, waiters, mine, todo, swept>>

ConditionOp(c) ==
    /\ ~InLock(c) /\ ~InChannel(c)
    /\ ConditionStep(c)
    /\ UNCHANGED <<holds, pc, stored>>

SyncNext == \E c \in Callers : MutexOp(c) \/ ChannelOp(c) \/ ConditionOp(c)

SyncSpec == SyncInit /\ [][SyncNext]_syncVars

=============================================================================
