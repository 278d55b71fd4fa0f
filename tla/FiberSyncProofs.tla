--------------------------- MODULE FiberSyncProofs ---------------------------
(***************************************************************************)
(* Proofs about FiberSync, for every set of callers, mutexes, blockers of  *)
(* awaits and capacity of the channel.  What a synchroniser promises holds *)
(* while the same callers use the others; FiberMutexProofs has the steps   *)
(* of the mutexes.  Only Steady callers use tryLock(time) and tryRead: on  *)
(* several scheduler threads the blocker promises the rest nothing.        *)
(***************************************************************************)
EXTENDS FiberSync, FiberMutexProofs, FiniteSetTheorems, SequenceTheorems

Limited == \A b \in Blockers : permits[b] <= Limit[b]

(* What a caller waits on says which operation it is in, and it is in one  *)
(* only.                                                                   *)
Located ==
    \A c \in Callers :
        /\ waitsOn[c] \in Mutexes \union Awaits \union {writer, reader, None}
        /\ InLock(c) \/ InChannel(c) => Calm(c)
        /\ InLock(c) => ~InChannel(c)
        /\ waitsOn[c] \in Awaits => waitsOn[c] = mine[c]
        /\ mine[c] # None => todo[c] = <<>>
        /\ waitsOn[c] = reader => pc[c] = "read"
        /\ waitsOn[c] = writer <=> pc[c] \in {"write", "false"}
        /\ pc[c] = "false" => granted[c]

InTodo(c, b) == \E i \in 1..Len(todo[c]) : todo[c][i] = b

(* A blocker is made for one await().                                      *)
OwnBlockers == \A c, d \in Callers : mine[c] = mine[d] /\ mine[c] # None => c = d

(* A blocker that no signalAll() went over is in one place: on the queue,  *)
(* or with one signaller.                                                  *)
OncePlaced ==
    /\ \A i, j \in 1..Len(waiters) : waiters[i] = waiters[j] /\ waiters[i] \notin swept => i = j
    /\ \A c \in Callers : \A i, j \in 1..Len(todo[c]) :
           todo[c][i] = todo[c][j] /\ todo[c][i] \notin swept => i = j
    /\ \A b \in Awaits \ swept, c, d \in Callers :
           InTodo(c, b) => ~Queued(b) /\ (InTodo(d, b) => c = d)

ConditionInv ==
    /\ ConditionTypeOK
    /\ OwnBlockers /\ OncePlaced
    /\ SignalsReachAwaits /\ NoForgottenAwait

SyncInv ==
    /\ MutexInv /\ ChannelTypeOK
    /\ Limited /\ Located
    /\ Balanced
    /\ ConditionInv

-----------------------------------------------------------------------------
(* The operations of a semaphore, caller by caller and blocker by blocker. *)

OthersSame(c) ==
    \A d \in Callers \ {c} : waitsOn'[d] = waitsOn[d] /\ granted'[d] = granted[d]
PermitsSame(S) == \A e \in Blockers \ S : permits'[e] = permits[e]

LEMMA AcquireFacts ==
    ASSUME TypeOK, NEW c \in Callers, NEW b \in Blockers, Acquire(c, b)
    PROVE  /\ TypeOK' /\ OthersSame(c) /\ PermitsSame({b})
           /\ waitsOn[c] = None /\ waitsOn'[c] = b /\ granted'[c] = TRUE
           /\ permits[b] > 0 /\ permits'[b] = permits[b] - 1
BY DEF TypeOK, Acquire, Idle, OthersSame, PermitsSame

LEMMA EnterFacts ==
    ASSUME TypeOK, NEW c \in Callers, NEW b \in Blockers, NEW tm \in BOOLEAN, Enter(c, b, tm)
    PROVE  /\ TypeOK' /\ OthersSame(c) /\ permits' = permits
           /\ waitsOn[c] = None /\ waitsOn'[c] = b /\ granted'[c] = granted[c]
BY DEF TypeOK, Enter, Idle, OthersSame

LEMMA TakeFacts ==
    ASSUME TypeOK, NEW c \in Callers, Take(c)
    PROVE  /\ TypeOK' /\ OthersSame(c) /\ PermitsSame({waitsOn[c]})
           /\ waitsOn[c] \in Blockers /\ waitsOn'[c] = waitsOn[c]
           /\ granted[c] = FALSE /\ granted'[c] = TRUE
           /\ permits[waitsOn[c]] > 0 /\ permits'[waitsOn[c]] = permits[waitsOn[c]] - 1
BY DEF TypeOK, Take, Waiting, OthersSame, PermitsSame

LEMMA ReturnFacts ==
    ASSUME TypeOK, NEW c \in Callers, Return(c)
    PROVE  /\ TypeOK' /\ OthersSame(c) /\ permits' = permits
           /\ waitsOn[c] \in Blockers /\ waitsOn'[c] = None
           /\ granted[c] = TRUE /\ granted'[c] = FALSE
BY DEF TypeOK, Return, OthersSame

LEMMA GiveUpFacts ==
    ASSUME TypeOK, NEW c \in Callers, GiveUp(c)
    PROVE  /\ TypeOK' /\ OthersSame(c) /\ permits' = permits
           /\ waitsOn[c] \in Blockers /\ waitsOn'[c] = None
           /\ granted[c] = FALSE /\ granted'[c] = FALSE
BY DEF TypeOK, GiveUp, Waiting, OthersSame

(* A release is kept, given to a waiting caller, or refused at the limit.  *)
Kept(b) == permits[b] < Limit[b] /\ permits'[b] = permits[b] + 1 /\ granted' = granted
Given(b, w) ==
    /\ waitsOn[w] = b /\ granted[w] = FALSE /\ granted'[w] = TRUE
    /\ OthersSame(w)
    /\ permits' = permits
Refused(b) == permits[b] >= Limit[b] /\ permits' = permits /\ granted' = granted

LEMMA WakeUpFacts ==
    ASSUME TypeOK, NEW b \in Blockers, WakeUp(b)
    PROVE  /\ TypeOK' /\ waitsOn' = waitsOn /\ PermitsSame({b})
           /\ Kept(b) \/ (\E w \in Callers : Given(b, w)) \/ Refused(b)
<1>1. CASE Release(b)
  BY <1>1, SemaphoreAssumption DEF Release, TypeOK, PermitsSame, Kept
<1>2. ASSUME NEW w \in Callers, waitsOn[w] = b, Handoff(w)
      PROVE  TypeOK' /\ waitsOn' = waitsOn /\ PermitsSame({b}) /\ Given(b, w)
  BY <1>2 DEF Handoff, Waiting, TypeOK, PermitsSame, Given, OthersSame
<1>3. CASE permits[b] >= Limit[b] /\ UNCHANGED vars
  BY <1>3 DEF TypeOK, vars, PermitsSame, Refused
<1> QED BY <1>1, <1>2, <1>3 DEF WakeUp

LEMMA PermitsTaken ==
    ASSUME TypeOK, Limited, NEW b \in Blockers, permits'[b] = permits[b] - 1, PermitsSame({b})
    PROVE  Limited'
<1>1. ASSUME NEW e \in Blockers PROVE permits'[e] <= Limit[e]
  <2>1. permits[e] \in Nat /\ Limit[e] \in Nat /\ permits[e] <= Limit[e]
    BY SemaphoreAssumption DEF TypeOK, Limited
  <2> QED BY <2>1 DEF PermitsSame
<1> QED BY <1>1 DEF Limited

LEMMA PermitsReleased ==
    ASSUME TypeOK, Limited, NEW b \in Blockers, PermitsSame({b}),
           Kept(b) \/ (\E w \in Callers : Given(b, w)) \/ Refused(b)
    PROVE  Limited'
<1>1. ASSUME NEW e \in Blockers PROVE permits'[e] <= Limit[e]
  <2>1. permits[e] \in Nat /\ Limit[e] \in Nat /\ permits[e] <= Limit[e]
    BY SemaphoreAssumption DEF TypeOK, Limited
  <2> QED BY <2>1 DEF PermitsSame, Kept, Given, Refused
<1> QED BY <1>1 DEF Limited

-----------------------------------------------------------------------------
(* What an operation leaves alone.                                         *)

(* The mutexes, when no permit of theirs moves and nobody begins, ends or  *)
(* completes a lock().                                                     *)
LEMMA MutexFrame ==
    ASSUME MutexInv, TypeOK',
           holds' = holds,
           \A m \in Mutexes : permits'[m] = permits[m],
           \A c \in Callers :
               /\ waitsOn'[c] = None => ~granted'[c]
               /\ \/ waitsOn'[c] = waitsOn[c] /\ granted'[c] = granted[c]
                  \/ waitsOn[c] \notin Mutexes /\ waitsOn'[c] \notin Mutexes
    PROVE  MutexInv'
<1> USE FiberMutexAssumption
<1>1. \A c \in Callers, m \in Mutexes : Has(c, m)' <=> Has(c, m)
  BY DEF Has
<1>2. (MutualExclusion /\ LockedIffOwned)'
  BY <1>1 DEF MutexInv, MutualExclusion, LockedIffOwned, isLocked
<1>3. CallsClean'
  BY DEF MutexInv, CallsClean, MutexTypeOK
<1> QED BY <1>2, <1>3 DEF MutexInv, MutexTypeOK

(* The channel.                                                            *)
LEMMA ChannelFrame ==
    ASSUME Balanced, Located,
           UNCHANGED <<pc, stored>>,
           permits'[writer] = permits[writer], permits'[reader] = permits[reader],
           \A c \in Callers : InChannel(c) => granted'[c] = granted[c]
    PROVE  Balanced'
<1>1. \A c \in Callers : pc[c] \in {"read", "write"} => granted'[c] = granted[c]
  BY DEF InChannel
<1>2. Offers' = Offers /\ Admitted' = Admitted /\ Promised' = Promised
      /\ At("announce")' = At("announce")
  BY <1>1 DEF Offers, Admitted, Promised, At
<1> QED BY <1>2 DEF Balanced, WritesBalanced, ReadsBalanced

(* The condition.                                                          *)
LEMMA ConditionFrame ==
    ASSUME ConditionInv, TypeOK',
           UNCHANGED <<waiters, mine, todo, swept>>,
           \A b \in Awaits : permits'[b] = permits[b],
           \A c \in Callers : mine[c] # None => granted'[c] = granted[c]
    PROVE  ConditionInv'
<1> USE SemaphoreAssumption, FiberConditionAssumption
<1>1. ConditionTypeOK' /\ OwnBlockers' /\ OncePlaced'
  BY DEF ConditionInv, ConditionTypeOK, OwnBlockers, OncePlaced, InTodo, Queued
<1>2. \A b \in Awaits : Queued(b)' = Queued(b) /\ BeingWoken(b)' = BeingWoken(b)
  BY DEF Queued, BeingWoken
<1>3. SignalsReachAwaits'
  BY <1>2 DEF ConditionInv, SignalsReachAwaits
<1>4. NoForgottenAwait'
  BY <1>2 DEF ConditionInv, ConditionTypeOK, NoForgottenAwait
<1> QED BY <1>1, <1>3, <1>4 DEF ConditionInv

-----------------------------------------------------------------------------
(* Mutexes.                                                                *)

LEMMA MutexOpKeeps ==
    ASSUME SyncInv, NEW c \in Callers, MutexOp(c)
    PROVE  SyncInv'
<1> USE SemaphoreAssumption, FiberMutexAssumption
<1>1. TypeOK /\ Limited /\ Located /\ CallsClean
  BY DEF SyncInv, MutexInv, MutexTypeOK
<1>2. MutexInv'
  BY NextMutexInv DEF SyncInv, MutexOp, MutexNext
<1> DEFINE Only ==
             /\ PermitsSame(Mutexes) /\ Limited'
             /\ \A d \in Callers :
                    /\ waitsOn'[d] = waitsOn[d] \/ waitsOn'[d] \in Mutexes \union {None}
                    /\ d # c => waitsOn'[d] = waitsOn[d]
                    /\ d # c /\ ~InLock(d) => granted'[d] = granted[d]
             /\ waitsOn'[c] \in Mutexes \union {None}
<1>3. ASSUME NEW m \in Mutexes, Lock(c, m) PROVE Only
  <2>1. /\ waitsOn[c] = None /\ waitsOn'[c] = m /\ OthersSame(c) /\ PermitsSame({m})
        /\ permits[m] > 0 /\ permits'[m] = permits[m] - 1
    BY <1>1, <1>3, AcquireFacts DEF Lock
  <2>2. Limited'
    BY <1>1, <2>1, PermitsTaken
  <2> QED BY <2>1, <2>2 DEF OthersSame, PermitsSame
<1>4. ASSUME NEW m \in Mutexes, NEW tm \in BOOLEAN, LockWait(c, m, tm) PROVE Only
  BY <1>1, <1>4, EnterFacts DEF LockWait, OthersSame, PermitsSame, Limited
<1>5. ASSUME LockTake(c) PROVE Only
  <2>1. /\ waitsOn[c] \in Mutexes /\ waitsOn'[c] = waitsOn[c]
        /\ OthersSame(c) /\ PermitsSame({waitsOn[c]})
        /\ permits[waitsOn[c]] > 0 /\ permits'[waitsOn[c]] = permits[waitsOn[c]] - 1
    BY <1>1, <1>5, TakeFacts DEF LockTake, InLock
  <2>2. Limited'
    BY <1>1, <2>1, PermitsTaken
  <2> QED BY <2>1, <2>2 DEF OthersSame, PermitsSame
<1>6. ASSUME Locked(c) PROVE Only
  BY <1>1, <1>6, ReturnFacts DEF Locked, OthersSame, PermitsSame, Limited
<1>7. ASSUME TryLockFails(c) PROVE Only
  BY <1>1, <1>7, GiveUpFacts DEF TryLockFails, OthersSame, PermitsSame, Limited
<1>8. ASSUME NEW m \in Mutexes, Unlock(c, m) PROVE Only
  <2>1. /\ waitsOn' = waitsOn /\ PermitsSame({m}) /\ waitsOn[c] = None
        /\ Kept(m) \/ (\E w \in Callers : Given(m, w)) \/ Refused(m)
    BY <1>1, <1>8, WakeUpFacts DEF Unlock, Idle
  <2>2. Limited'
    BY <1>1, <2>1, PermitsReleased
  <2> QED BY <2>1, <2>2 DEF PermitsSame, Kept, Given, Refused, OthersSame, InLock
<1>9. Only
  BY <1>3, <1>4, <1>5, <1>6, <1>7, <1>8 DEF MutexOp, MutexStep
<1>10. UNCHANGED <<pc, stored, waiters, mine, todo, swept>> /\ ~InChannel(c) /\ Calm(c)
  BY DEF MutexOp
<1>11. ~InLock(c) => waitsOn[c] = None
  BY <1>1, <1>10 DEF Located, InChannel, InLock, Calm
<1>12. Located'
  BY <1>1, <1>9, <1>10, <1>11, FiberSyncAssumption, FiberChannelAssumption, FiberConditionAssumption
  DEF Located, InLock, InChannel, Calm
<1>13. ChannelTypeOK'
  BY <1>2, <1>10 DEF MutexInv, MutexTypeOK, SyncInv, ChannelTypeOK
<1>14. Balanced'
  <2>1. permits'[writer] = permits[writer] /\ permits'[reader] = permits[reader]
    BY <1>9, FiberSyncAssumption, FiberChannelAssumption DEF PermitsSame
  <2>2. \A d \in Callers : InChannel(d) => granted'[d] = granted[d]
    BY <1>1, <1>9, <1>10 DEF Located
  <2> QED BY <1>1, <1>10, <2>1, <2>2, ChannelFrame DEF SyncInv
<1>15. ConditionInv'
  <2>1. \A b \in Awaits : permits'[b] = permits[b]
    BY <1>9, FiberSyncAssumption, FiberConditionAssumption DEF PermitsSame
  <2>2. \A d \in Callers : mine[d] # None => granted'[d] = granted[d]
    BY <1>1, <1>9, <1>10 DEF Located, Calm
  <2>3. TypeOK'
    BY <1>2 DEF MutexInv, MutexTypeOK
  <2> QED BY <1>10, <2>1, <2>2, <2>3, ConditionFrame DEF SyncInv
<1> QED BY <1>2, <1>9, <1>12, <1>13, <1>14, <1>15 DEF SyncInv

-----------------------------------------------------------------------------
(* The channel: counting callers.                                          *)

LEMMA Counted ==
    ASSUME NEW S \in SUBSET Callers
    PROVE  /\ Cardinality(S) \in Nat /\ Cardinality(S) <= Cardinality(Callers)
           /\ \A c \in Callers \ S : Cardinality(S \union {c}) = Cardinality(S) + 1
           /\ \A c \in S : Cardinality(S \ {c}) = Cardinality(S) - 1
<1>1. IsFiniteSet(S) /\ Cardinality(S) \in Nat /\ Cardinality(S) <= Cardinality(Callers)
  BY FiberChannelAssumption, FS_Subset, FS_CardinalityType
<1> QED BY <1>1, FS_AddElement, FS_RemoveElement

LEMMA CountedSets ==
    Offers \in SUBSET Callers /\ Admitted \in SUBSET Callers
    /\ Promised \in SUBSET Callers /\ At("announce") \in SUBSET Callers
BY DEF Offers, Admitted, Promised, At

(* The permits of a channel stay below the limit of its blockers while a   *)
(* caller is about to release one.                                         *)
LEMMA WriterBelowLimit ==
    ASSUME TypeOK, stored \in Nat, Balanced, NEW c \in Callers \ Offers
    PROVE  permits[writer] < Limit[writer]
<1>1. /\ Cardinality(Offers) + 1 <= Cardinality(Callers)
      /\ Cardinality(Offers) \in Nat /\ Cardinality(Admitted) \in Nat
      /\ Cardinality(Callers) \in Nat
  <2>1. Offers \union {c} \in SUBSET Callers
    BY CountedSets
  <2> QED BY <2>1, Counted, CountedSets
<1>2. permits[writer] \in Nat /\ Limit[writer] \in Nat /\ ChannelCapacity \in Nat
      /\ Limit[writer] >= ChannelCapacity + Cardinality(Callers)
  BY FiberChannelAssumption, SemaphoreAssumption DEF TypeOK
<1> QED BY <1>1, <1>2 DEF Balanced, WritesBalanced

LEMMA ReaderBelowLimit ==
    ASSUME TypeOK, stored \in Nat, Balanced, NEW c \in At("announce")
    PROVE  permits[reader] < Limit[reader]
<1>1. /\ Cardinality(Offers) <= Cardinality(Callers) /\ Cardinality(Callers) \in Nat
      /\ Cardinality(Offers) \in Nat /\ Cardinality(Admitted) \in Nat
      /\ Cardinality(Promised) \in Nat /\ Cardinality(At("announce")) \in Nat
  BY Counted, CountedSets
<1>2. Cardinality(At("announce")) >= 1
  <2>1. At("announce") \ {c} \in SUBSET Callers
    BY CountedSets
  <2>2. Cardinality(At("announce") \ {c}) \in Nat
    BY <2>1, Counted
  <2> QED BY <1>1, <2>2, Counted, CountedSets
<1>3. permits[writer] \in Nat /\ permits[reader] \in Nat /\ Limit[reader] \in Nat
      /\ ChannelCapacity \in Nat /\ Limit[reader] >= ChannelCapacity + Cardinality(Callers)
  BY FiberChannelAssumption, SemaphoreAssumption DEF TypeOK
<1> QED BY <1>1, <1>2, <1>3 DEF Balanced, WritesBalanced, ReadsBalanced

-----------------------------------------------------------------------------
(* The channel: its steps.                                                 *)

(* What a step of c does to the callers: only c moves, and others are at   *)
(* most given the permit of the channel that they wait for.                *)
ChannelMove(c) ==
    /\ TypeOK' /\ ChannelTypeOK' /\ Limited'
    /\ PermitsSame({writer, reader})
    /\ \A d \in Callers \ {c} :
           /\ waitsOn'[d] = waitsOn[d] /\ pc'[d] = pc[d]
           /\ granted'[d] = granted[d] \/ (waitsOn[d] \in {writer, reader} /\ granted'[d])
    /\ waitsOn'[c] \in {writer, reader, None}
    /\ waitsOn'[c] = None => ~granted'[c]
    /\ waitsOn'[c] = reader => pc'[c] = "read"
    /\ waitsOn'[c] = writer <=> pc'[c] \in {"write", "false"}
    /\ pc'[c] = "false" => granted'[c]

LEMMA ChannelMoveKeeps ==
    ASSUME SyncInv, NEW c \in Callers, ChannelOp(c), ChannelMove(c), Balanced'
    PROVE  SyncInv'
<1> USE SemaphoreAssumption, FiberSyncAssumption, FiberChannelAssumption,
        FiberMutexAssumption, FiberConditionAssumption
<1>1. /\ TypeOK /\ Located /\ MutexInv /\ ConditionInv
      /\ UNCHANGED <<holds, waiters, mine, todo, swept>>
      /\ ~InLock(c) /\ Calm(c)
  BY DEF SyncInv, MutexInv, MutexTypeOK, ChannelOp
<1>2. waitsOn[c] \in {writer, reader, None}
  BY <1>1 DEF Located, InLock, Calm
<1>3. Located'
  <2>1. ASSUME NEW d \in Callers, d # c
        PROVE  /\ waitsOn'[d] = waitsOn[d] /\ pc'[d] = pc[d] /\ mine'[d] = mine[d]
               /\ todo'[d] = todo[d] /\ (pc[d] = "false" /\ granted[d] => granted'[d])
    BY <1>1, <2>1 DEF ChannelMove
  <2>2. /\ waitsOn'[c] \notin Mutexes /\ waitsOn'[c] \notin Awaits
        /\ mine'[c] = None /\ todo'[c] = <<>>
    BY <1>1 DEF ChannelMove, Calm
  <2> QED BY <1>1, <2>1, <2>2 DEF Located, InLock, InChannel, Calm, ChannelMove
<1>4. MutexInv'
  <2>1. \A m \in Mutexes : permits'[m] = permits[m]
    BY DEF ChannelMove, PermitsSame
  <2>2. ASSUME NEW d \in Callers
        PROVE  /\ waitsOn'[d] = None => ~granted'[d]
               /\ \/ waitsOn'[d] = waitsOn[d] /\ granted'[d] = granted[d]
                  \/ waitsOn[d] \notin Mutexes /\ waitsOn'[d] \notin Mutexes
    BY <1>1, <1>2 DEF ChannelMove, MutexInv, CallsClean
  <2> QED BY <1>1, <2>1, <2>2, MutexFrame DEF ChannelMove
<1>5. ConditionInv'
  <2>1. \A b \in Awaits : permits'[b] = permits[b]
    BY DEF ChannelMove, PermitsSame
  <2>2. \A d \in Callers : mine[d] # None => granted'[d] = granted[d]
    BY <1>1 DEF ChannelMove, Located, Calm, InChannel
  <2> QED BY <1>1, <2>1, <2>2, ConditionFrame DEF ChannelMove
<1> QED BY <1>3, <1>4, <1>5 DEF SyncInv, ChannelMove

(* Where a caller is that takes a step of the channel.                     *)
LEMMA ChannelCaller ==
    ASSUME SyncInv, NEW c \in Callers, ChannelOp(c)
    PROVE  /\ waitsOn[c] \in {writer, reader, None}
           /\ waitsOn[c] = reader => pc[c] = "read"
           /\ waitsOn[c] = writer <=> pc[c] \in {"write", "false"}
           /\ pc[c] = "false" => granted[c]
           /\ waitsOn[c] = None => ~granted[c]
<1> QED BY SemaphoreAssumption, FiberConditionAssumption
        DEF SyncInv, MutexInv, CallsClean, Located, ChannelOp, InLock, Calm

LEMMA ChannelTypes ==
    ASSUME SyncInv
    PROVE  /\ TypeOK /\ ChannelTypeOK /\ Limited /\ Located /\ Balanced
           /\ writer \in Blockers /\ reader \in Blockers /\ writer # reader
           /\ permits[writer] \in Nat /\ permits[reader] \in Nat
           /\ stored \in Nat /\ ChannelCapacity \in Nat
           /\ writer # None /\ reader # None
BY SemaphoreAssumption, FiberChannelAssumption
   DEF SyncInv, MutexInv, MutexTypeOK, TypeOK, ChannelTypeOK

(* The balances, when the sets that they count stay the same.              *)
LEMMA SameBalance ==
    ASSUME Balanced, UNCHANGED stored, permits' = permits,
           Offers' = Offers, Admitted' = Admitted, Promised' = Promised,
           At("announce")' = At("announce")
    PROVE  Balanced'
BY DEF Balanced, WritesBalanced, ReadsBalanced

(* A caller goes from p to q and takes and releases nothing.               *)
LEMMA MovesOnly ==
    ASSUME SyncInv, NEW c \in Callers, ChannelOp(c), ChannelMove(c),
           OthersSame(c), permits' = permits, stored' = stored,
           (c \in Offers)' <=> c \in Offers,
           (c \in Admitted)' <=> c \in Admitted,
           (c \in Promised)' <=> c \in Promised,
           (c \in At("announce"))' <=> c \in At("announce")
    PROVE  Balanced'
<1>1. \A d \in Callers \ {c} : pc'[d] = pc[d] /\ granted'[d] = granted[d]
  BY DEF ChannelMove, OthersSame
<1>2. /\ Offers' = Offers /\ Admitted' = Admitted /\ Promised' = Promised
      /\ At("announce")' = At("announce")
  BY <1>1 DEF Offers, Admitted, Promised, At
<1> QED BY <1>2, SameBalance DEF SyncInv

(* read() and tryRead() begin: a reader more, and a permit of writer or a  *)
(* writer let in.                                                          *)
LEMMA LetInKeeps ==
    ASSUME SyncInv, NEW c \in Callers, ChannelOp(c), NEW q \in {"read", "tryRead"},
           Goto(c, "idle", q), WakeUp(writer), stored' = stored
    PROVE  ChannelMove(c) /\ Balanced'
<1>1. /\ TypeOK /\ ChannelTypeOK /\ Limited /\ Located /\ Balanced
      /\ writer \in Blockers /\ reader \in Blockers /\ writer # reader
      /\ permits[writer] \in Nat /\ permits[reader] \in Nat
      /\ stored \in Nat /\ ChannelCapacity \in Nat
      /\ writer # None /\ reader # None
  BY ChannelTypes
<1>2. pc[c] = "idle" /\ waitsOn[c] = None /\ ~granted[c]
  BY ChannelCaller DEF Goto
<1>3. /\ TypeOK' /\ waitsOn' = waitsOn /\ PermitsSame({writer})
      /\ Kept(writer) \/ (\E w \in Callers : Given(writer, w)) \/ Refused(writer)
  BY <1>1, WakeUpFacts
<1>4. Limited'
  BY <1>1, <1>3, PermitsReleased
<1>5. ~Refused(writer)
  <2>1. c \in Callers \ Offers
    BY <1>2 DEF Offers, At
  <2>2. permits[writer] < Limit[writer] /\ Limit[writer] \in Nat
    BY <1>1, <2>1, WriterBelowLimit, SemaphoreAssumption
  <2> QED BY <1>1, <2>2 DEF Refused
<1>6. pc' = [pc EXCEPT ![c] = q] /\ ChannelTypeOK'
  BY <1>1, <1>3 DEF Goto, ChannelTypeOK
<1>7. ChannelMove(c)
  <2>1. \A d \in Callers \ {c} : pc'[d] = pc[d]
    BY <1>1, <1>6 DEF ChannelTypeOK
  <2>2. pc'[c] = q
    BY <1>1, <1>6 DEF ChannelTypeOK
  <2>3. \A d \in Callers : granted'[d] = granted[d] \/ (waitsOn[d] = writer /\ granted'[d])
    BY <1>3, <1>5 DEF Kept, Given, OthersSame
  <2>4. waitsOn'[c] = None /\ ~granted'[c]
    BY <1>1, <1>2, <1>3, <2>3
  <2>5. PermitsSame({writer, reader})
    BY <1>3 DEF PermitsSame
  <2> QED BY <1>1, <1>3, <1>4, <1>6, <2>1, <2>2, <2>3, <2>4, <2>5 DEF ChannelMove
<1>8. /\ permits'[reader] = permits[reader]
      /\ c \notin Offers /\ Offers' = Offers \union {c} /\ At("announce")' = At("announce")
  BY <1>1, <1>2, <1>3, <1>6 DEF PermitsSame, ChannelTypeOK, Offers, At
<1>9. Cardinality(Offers') = Cardinality(Offers) + 1 /\ Cardinality(Offers) \in Nat
      /\ Cardinality(Admitted) \in Nat
  BY <1>8, CountedSets, Counted
<1>10. ASSUME Kept(writer) PROVE Balanced'
  <2>1. Admitted' = Admitted /\ Promised' = Promised
    <3>1. /\ \A d \in Callers \ {c} : pc'[d] = pc[d] /\ granted'[d] = granted[d]
          /\ pc[c] = "idle" /\ ~granted'[c] /\ pc'[c] \in {"read", "tryRead"}
      BY <1>1, <1>2, <1>6, <1>10 DEF Kept, ChannelTypeOK
    <3> QED BY <3>1 DEF Admitted, Promised, At
  <2>2. permits'[writer] = permits[writer] + 1 /\ permits'[reader] = permits[reader]
    BY <1>8, <1>10 DEF Kept
  <2>3. WritesBalanced'
    BY <1>1, <1>9, <2>1, <2>2 DEF Balanced, WritesBalanced
  <2>4. ReadsBalanced'
    BY <1>1, <1>8, <2>1, <2>2 DEF Balanced, ReadsBalanced
  <2> QED BY <2>3, <2>4 DEF Balanced
<1>11. ASSUME NEW w \in Callers, Given(writer, w) PROVE Balanced'
  <2>1. w # c /\ pc[w] = "write" /\ granted[w] = FALSE /\ granted'[w] = TRUE /\ OthersSame(w)
    BY <1>1, <1>2, <1>11 DEF Given, Located
  <2>2. w \notin Admitted /\ Admitted' = Admitted \union {w} /\ Promised' = Promised
    BY <1>1, <1>2, <1>6, <1>7, <2>1
    DEF OthersSame, Admitted, Promised, At, ChannelTypeOK, ChannelMove
  <2>3. Cardinality(Admitted') = Cardinality(Admitted) + 1
    BY <2>2, CountedSets, Counted
  <2> QED BY <1>1, <1>8, <1>9, <1>11, <2>2, <2>3 DEF Given, Balanced, WritesBalanced, ReadsBalanced
<1> QED BY <1>3, <1>5, <1>7, <1>10, <1>11

(* A permit of a channel taken: the caller is admitted, promised an        *)
(* element, or takes its offer back.                                       *)
LEMMA AcquireMoves ==
    ASSUME SyncInv, NEW c \in Callers, ChannelOp(c),
           NEW b \in {writer, reader}, Acquire(c, b), stored' = stored,
           NEW q \in {"read", "write", "false"}, pc' = [pc EXCEPT ![c] = q],
           b = reader <=> q = "read"
    PROVE  /\ ChannelMove(c)
           /\ ~granted[c] /\ granted'[c] /\ pc'[c] = q
           /\ \A d \in Callers \ {c} : pc'[d] = pc[d] /\ granted'[d] = granted[d]
           /\ permits'[b] = permits[b] - 1
           /\ \A e \in {writer, reader} \ {b} : permits'[e] = permits[e]
<1>1. /\ TypeOK /\ ChannelTypeOK /\ Limited
      /\ writer \in Blockers /\ reader \in Blockers /\ writer # reader
      /\ stored \in Nat /\ writer # None /\ reader # None
  BY ChannelTypes
<1>2. /\ TypeOK' /\ OthersSame(c) /\ PermitsSame({b})
      /\ waitsOn[c] = None /\ waitsOn'[c] = b /\ granted'[c]
      /\ permits'[b] = permits[b] - 1
  BY <1>1, AcquireFacts
<1>3. Limited'
  BY <1>1, <1>2, PermitsTaken
<1>4. ChannelTypeOK' /\ pc'[c] = q /\ \A d \in Callers \ {c} : pc'[d] = pc[d]
  BY <1>1, <1>2 DEF ChannelTypeOK
<1>5. ~granted[c]
  BY <1>2, ChannelCaller
<1>6. PermitsSame({writer, reader}) /\ \A e \in {writer, reader} \ {b} : permits'[e] = permits[e]
  BY <1>1, <1>2 DEF PermitsSame
<1>7. ChannelMove(c)
  BY <1>1, <1>2, <1>3, <1>4, <1>6 DEF ChannelMove, OthersSame
<1> QED BY <1>2, <1>4, <1>5, <1>6, <1>7 DEF OthersSame

(* read() and tryRead() get the promise of an element.                     *)
LEMMA PromiseTaken ==
    ASSUME SyncInv, NEW c \in Callers, ChannelOp(c), Acquire(c, reader), stored' = stored,
           pc[c] \in {"read", "tryRead"}, pc' = [pc EXCEPT ![c] = "read"]
    PROVE  ChannelMove(c) /\ Balanced'
<1>1. /\ Balanced /\ writer # reader /\ stored \in Nat
      /\ permits[writer] \in Nat /\ permits[reader] \in Nat
  BY ChannelTypes
<1>2. /\ ChannelMove(c)
      /\ ~granted[c] /\ granted'[c] /\ pc'[c] = "read"
      /\ \A d \in Callers \ {c} : pc'[d] = pc[d] /\ granted'[d] = granted[d]
      /\ permits'[reader] = permits[reader] - 1 /\ permits'[writer] = permits[writer]
  BY <1>1, AcquireMoves
<1>3. /\ c \notin Promised /\ Promised' = Promised \union {c}
      /\ Offers' = Offers /\ Admitted' = Admitted /\ At("announce")' = At("announce")
  BY <1>2 DEF Offers, Admitted, Promised, At
<1>4. /\ Cardinality(Promised') = Cardinality(Promised) + 1
      /\ Cardinality(Promised) \in Nat /\ Cardinality(At("announce")) \in Nat
  BY <1>3, CountedSets, Counted
<1>5. WritesBalanced' /\ ReadsBalanced'
  BY <1>1, <1>2, <1>3, <1>4 DEF Balanced, WritesBalanced, ReadsBalanced
<1> QED BY <1>2, <1>5 DEF Balanced

(* write() and tryWrite() are let in.                                      *)
LEMMA AdmissionTaken ==
    ASSUME SyncInv, NEW c \in Callers, ChannelOp(c), Acquire(c, writer), stored' = stored,
           pc[c] = "idle", pc' = [pc EXCEPT ![c] = "write"]
    PROVE  ChannelMove(c) /\ Balanced'
<1>1. /\ Balanced /\ writer # reader /\ stored \in Nat
      /\ permits[writer] \in Nat /\ permits[reader] \in Nat /\ ChannelCapacity \in Nat
  BY ChannelTypes
<1>2. /\ ChannelMove(c)
      /\ ~granted[c] /\ granted'[c] /\ pc'[c] = "write"
      /\ \A d \in Callers \ {c} : pc'[d] = pc[d] /\ granted'[d] = granted[d]
      /\ permits'[writer] = permits[writer] - 1 /\ permits'[reader] = permits[reader]
  BY <1>1, AcquireMoves
<1>3. /\ c \notin Admitted /\ Admitted' = Admitted \union {c}
      /\ Offers' = Offers /\ Promised' = Promised /\ At("announce")' = At("announce")
  BY <1>2 DEF Offers, Admitted, Promised, At
<1>4. /\ Cardinality(Admitted') = Cardinality(Admitted) + 1
      /\ Cardinality(Admitted) \in Nat /\ Cardinality(Offers) \in Nat
  BY <1>3, CountedSets, Counted
<1>5. WritesBalanced' /\ ReadsBalanced'
  BY <1>1, <1>2, <1>3, <1>4 DEF Balanced, WritesBalanced, ReadsBalanced
<1> QED BY <1>2, <1>5 DEF Balanced

(* tryRead() takes its offer back.                                         *)
LEMMA OfferTakenBack ==
    ASSUME SyncInv, NEW c \in Callers, ChannelOp(c), TryReadBack(c)
    PROVE  ChannelMove(c) /\ Balanced'
<1>1. /\ Balanced /\ writer # reader /\ stored \in Nat
      /\ permits[writer] \in Nat /\ permits[reader] \in Nat /\ ChannelCapacity \in Nat
  BY ChannelTypes
<1>2. /\ pc[c] = "tryBack" /\ stored' = stored /\ ChannelMove(c)
      /\ ~granted[c] /\ granted'[c] /\ pc'[c] = "false"
      /\ \A d \in Callers \ {c} : pc'[d] = pc[d] /\ granted'[d] = granted[d]
      /\ permits'[writer] = permits[writer] - 1 /\ permits'[reader] = permits[reader]
  BY <1>1, AcquireMoves DEF TryReadBack, OfferWithdrawn, Goto
<1>3. /\ c \in Offers /\ Offers' = Offers \ {c}
      /\ Admitted' = Admitted /\ Promised' = Promised /\ At("announce")' = At("announce")
  BY <1>2 DEF Offers, Admitted, Promised, At
<1>4. /\ Cardinality(Offers') = Cardinality(Offers) - 1
      /\ Cardinality(Admitted) \in Nat /\ Cardinality(Offers) \in Nat
  BY <1>3, CountedSets, Counted
<1>5. WritesBalanced' /\ ReadsBalanced'
  BY <1>1, <1>2, <1>3, <1>4 DEF Balanced, WritesBalanced, ReadsBalanced
<1> QED BY <1>2, <1>5 DEF Balanced

(* A call that waits takes the permit it waits for.                        *)
LEMMA ChannelTakeKeeps ==
    ASSUME SyncInv, NEW c \in Callers, ChannelOp(c), ChannelTake(c)
    PROVE  ChannelMove(c) /\ Balanced'
<1>1. /\ TypeOK /\ ChannelTypeOK /\ Limited
      /\ Balanced /\ writer # reader /\ stored \in Nat
      /\ writer \in Blockers /\ reader \in Blockers /\ writer # None /\ reader # None
      /\ permits[writer] \in Nat /\ permits[reader] \in Nat /\ ChannelCapacity \in Nat
  BY ChannelTypes
<1>2. /\ TypeOK' /\ OthersSame(c) /\ PermitsSame({waitsOn[c]})
      /\ waitsOn[c] \in {writer, reader} /\ waitsOn'[c] = waitsOn[c]
      /\ ~granted[c] /\ granted'[c]
      /\ permits'[waitsOn[c]] = permits[waitsOn[c]] - 1
      /\ pc' = pc /\ stored' = stored
  BY <1>1, TakeFacts DEF ChannelTake
<1>3. Limited'
  BY <1>1, <1>2, PermitsTaken
<1>4. /\ waitsOn[c] = reader => pc[c] = "read"
      /\ waitsOn[c] = writer => pc[c] = "write"
      /\ pc[c] = "write" => waitsOn[c] = writer
      /\ pc[c] # "false"
  BY <1>1, <1>2, ChannelCaller
<1>5. \A d \in Callers \ {c} : pc'[d] = pc[d] /\ granted'[d] = granted[d] /\ waitsOn'[d] = waitsOn[d]
  BY <1>2 DEF OthersSame
<1>6. ChannelMove(c)
  <2>1. ChannelTypeOK' /\ PermitsSame({writer, reader})
    BY <1>1, <1>2 DEF ChannelTypeOK, PermitsSame
  <2> QED BY <1>1, <1>2, <1>3, <1>4, <1>5, <2>1 DEF ChannelMove
<1>7. Offers' = Offers /\ At("announce")' = At("announce")
  BY <1>2 DEF Offers, At
<1>8. /\ Cardinality(Admitted) \in Nat /\ Cardinality(Offers) \in Nat
      /\ Cardinality(Promised) \in Nat /\ Cardinality(At("announce")) \in Nat
  BY CountedSets, Counted
<1>9. ASSUME waitsOn[c] = writer PROVE WritesBalanced' /\ ReadsBalanced'
  <2>1. permits'[writer] = permits[writer] - 1 /\ permits'[reader] = permits[reader]
    BY <1>1, <1>2, <1>9 DEF PermitsSame
  <2>2. c \notin Admitted /\ Admitted' = Admitted \union {c} /\ Promised' = Promised
    BY <1>2, <1>4, <1>5, <1>9 DEF Admitted, Promised, At
  <2>3. Cardinality(Admitted') = Cardinality(Admitted) + 1
    BY <2>2, CountedSets, Counted
  <2> QED BY <1>1, <1>2, <1>7, <1>8, <2>1, <2>2, <2>3 DEF Balanced, WritesBalanced, ReadsBalanced
<1>10. ASSUME waitsOn[c] = reader PROVE WritesBalanced' /\ ReadsBalanced'
  <2>1. permits'[reader] = permits[reader] - 1 /\ permits'[writer] = permits[writer]
    BY <1>1, <1>2, <1>10 DEF PermitsSame
  <2>2. c \notin Promised /\ Promised' = Promised \union {c} /\ Admitted' = Admitted
    BY <1>2, <1>4, <1>5, <1>10 DEF Admitted, Promised, At
  <2>3. Cardinality(Promised') = Cardinality(Promised) + 1
    BY <2>2, CountedSets, Counted
  <2> QED BY <1>1, <1>2, <1>7, <1>8, <2>1, <2>2, <2>3 DEF Balanced, WritesBalanced, ReadsBalanced
<1> QED BY <1>2, <1>6, <1>9, <1>10 DEF Balanced

(* read(), write() begin to wait: nothing is taken.                        *)
LEMMA ChannelEnterKeeps ==
    ASSUME SyncInv, NEW c \in Callers, ChannelOp(c), NEW b \in {writer, reader},
           Enter(c, b, FALSE), stored' = stored,
           pc[c] = (IF b = reader THEN "read" ELSE "idle"),
           pc' = [pc EXCEPT ![c] = IF b = reader THEN "read" ELSE "write"]
    PROVE  ChannelMove(c) /\ Balanced'
<1>1. /\ TypeOK /\ ChannelTypeOK /\ Limited /\ writer # reader
      /\ writer \in Blockers /\ reader \in Blockers /\ writer # None /\ reader # None
  BY ChannelTypes
<1>2. /\ TypeOK' /\ OthersSame(c) /\ permits' = permits
      /\ waitsOn[c] = None /\ waitsOn'[c] = b /\ granted'[c] = granted[c]
  BY <1>1, EnterFacts
<1>3. ~granted[c]
  BY <1>2, ChannelCaller
<1>4. /\ ChannelTypeOK' /\ \A d \in Callers \ {c} : pc'[d] = pc[d]
      /\ pc'[c] = IF b = reader THEN "read" ELSE "write"
  BY <1>1, <1>2 DEF ChannelTypeOK
<1>5. Limited' /\ PermitsSame({writer, reader})
  BY <1>1, <1>2 DEF Limited, PermitsSame
<1>6. ChannelMove(c)
  BY <1>1, <1>2, <1>4, <1>5 DEF ChannelMove, OthersSame
<1>7. Balanced'
  <2>1. /\ (c \in Offers)' <=> c \in Offers
        /\ (c \in Admitted)' <=> c \in Admitted
        /\ (c \in Promised)' <=> c \in Promised
        /\ (c \in At("announce"))' <=> c \in At("announce")
    BY <1>2, <1>3, <1>4 DEF Offers, Admitted, Promised, At
  <2> QED BY <1>2, <1>6, <2>1, MovesOnly
<1> QED BY <1>6, <1>7

(* A wait() of the channel returns: read() goes on to poll, write() to     *)
(* add, and tryRead(), its offer taken back, returns false.                *)
LEMMA ChannelReturnKeeps ==
    ASSUME SyncInv, NEW c \in Callers, ChannelOp(c),
           ReadWaited(c) \/ WriteWaited(c) \/ TryReadFalse(c)
    PROVE  ChannelMove(c) /\ Balanced'
<1>1. /\ TypeOK /\ ChannelTypeOK /\ Limited /\ writer # reader
      /\ writer \in Blockers /\ reader \in Blockers /\ writer # None /\ reader # None
  BY ChannelTypes
<1> DEFINE q == IF pc[c] = "read" THEN "poll" ELSE IF pc[c] = "write" THEN "add" ELSE "idle"
<1>2. /\ pc[c] \in {"read", "write", "false"} /\ stored' = stored /\ Return(c)
      /\ pc' = [pc EXCEPT ![c] = q]
  BY DEF ReadWaited, WriteWaited, TryReadFalse, Goto
<1>3. /\ TypeOK' /\ OthersSame(c) /\ permits' = permits
      /\ waitsOn'[c] = None /\ granted[c] /\ ~granted'[c]
  BY <1>1, <1>2, ReturnFacts
<1>4. ChannelTypeOK' /\ pc'[c] = q /\ \A d \in Callers \ {c} : pc'[d] = pc[d]
  BY <1>1, <1>2, <1>3 DEF ChannelTypeOK
<1>5. Limited' /\ PermitsSame({writer, reader})
  BY <1>1, <1>3 DEF Limited, PermitsSame
<1>6. ChannelMove(c)
  BY <1>1, <1>2, <1>3, <1>4, <1>5 DEF ChannelMove, OthersSame
<1>7. Balanced'
  <2>1. /\ (c \in Offers)' <=> c \in Offers
        /\ (c \in Admitted)' <=> c \in Admitted
        /\ (c \in Promised)' <=> c \in Promised
        /\ (c \in At("announce"))' <=> c \in At("announce")
    BY <1>2, <1>3, <1>4 DEF Offers, Admitted, Promised, At
  <2> QED BY <1>2, <1>3, <1>6, <2>1, MovesOnly
<1> QED BY <1>6, <1>7

(* Steps that touch no blocker.                                            *)
LEMMA ChannelMoveOnly ==
    ASSUME SyncInv, NEW c \in Callers, ChannelOp(c), UNCHANGED vars,
           NEW p \in {"poll", "add", "tryRead", "tryBack"},
           NEW q \in {"idle", "announce", "tryRead", "tryBack"},
           Goto(c, p, q), stored' \in Nat
    PROVE  /\ ChannelMove(c) /\ OthersSame(c) /\ pc[c] = p /\ pc'[c] = q
           /\ \A d \in Callers \ {c} : pc'[d] = pc[d]
           /\ permits' = permits /\ granted' = granted /\ ~granted[c]
<1>1. /\ TypeOK /\ ChannelTypeOK /\ Limited /\ writer # reader
      /\ writer \in Blockers /\ reader \in Blockers /\ writer # None /\ reader # None
  BY ChannelTypes
<1>2. /\ permits' = permits /\ granted' = granted /\ waitsOn' = waitsOn /\ TypeOK'
  BY <1>1 DEF vars, TypeOK
<1>3. waitsOn[c] = None /\ ~granted[c] /\ pc[c] = p
  BY ChannelCaller DEF Goto
<1>4. ChannelTypeOK' /\ pc'[c] = q /\ \A d \in Callers \ {c} : pc'[d] = pc[d]
  BY <1>1, <1>2 DEF ChannelTypeOK, Goto
<1>5. Limited' /\ PermitsSame({writer, reader}) /\ OthersSame(c)
  BY <1>1, <1>2 DEF Limited, PermitsSame, OthersSame
<1>6. ChannelMove(c)
  BY <1>1, <1>2, <1>3, <1>4, <1>5 DEF ChannelMove
<1> QED BY <1>2, <1>3, <1>4, <1>5, <1>6

(* tryRead() looks again, or finds no element.                             *)
LEMMA TryReadLooksKeeps ==
    ASSUME SyncInv, NEW c \in Callers, ChannelOp(c), TryReadNone(c) \/ TryReadYield(c)
    PROVE  ChannelMove(c) /\ Balanced'
<1>1. stored \in Nat
  BY ChannelTypes
<1>2. ASSUME NEW p \in {"tryRead", "tryBack"}, NEW q \in {"tryRead", "tryBack"},
             Goto(c, p, q), UNCHANGED <<vars, stored>>
      PROVE  ChannelMove(c) /\ Balanced'
  <2>1. /\ ChannelMove(c) /\ OthersSame(c) /\ pc[c] = p /\ pc'[c] = q
        /\ permits' = permits /\ stored' = stored
    BY <1>1, <1>2, ChannelMoveOnly
  <2>2. /\ (c \in Offers)' <=> c \in Offers
        /\ (c \in Admitted)' <=> c \in Admitted
        /\ (c \in Promised)' <=> c \in Promised
        /\ (c \in At("announce"))' <=> c \in At("announce")
    BY <2>1 DEF Offers, Admitted, Promised, At
  <2> QED BY <2>1, <2>2, MovesOnly
<1> QED BY <1>2 DEF TryReadNone, TryReadYield

(* read() polls: there is an element, promised to it.                      *)
LEMMA ReadPollKeeps ==
    ASSUME SyncInv, NEW c \in Callers, ChannelOp(c), ReadPoll(c)
    PROVE  ChannelMove(c) /\ Balanced'
<1>1. /\ Balanced /\ stored \in Nat
      /\ permits[writer] \in Nat /\ permits[reader] \in Nat /\ ChannelCapacity \in Nat
  BY ChannelTypes
<1>2. stored' = (IF stored = 0 THEN 0 ELSE stored - 1) /\ stored' \in Nat
  BY <1>1 DEF ReadPoll
<1>3. /\ ChannelMove(c) /\ pc[c] = "poll" /\ pc'[c] = "idle"
      /\ \A d \in Callers \ {c} : pc'[d] = pc[d]
      /\ permits' = permits /\ granted' = granted /\ ~granted[c]
  BY <1>2, ChannelMoveOnly DEF ReadPoll
<1>4. /\ c \in Offers /\ Offers' = Offers \ {c} /\ c \in Promised /\ Promised' = Promised \ {c}
      /\ Admitted' = Admitted /\ At("announce")' = At("announce")
  BY <1>3 DEF Offers, Admitted, Promised, At
<1>5. /\ Cardinality(Offers') = Cardinality(Offers) - 1
      /\ Cardinality(Promised') = Cardinality(Promised) - 1 /\ Cardinality(Promised') \in Nat
      /\ Cardinality(Promised) \in Nat /\ Cardinality(At("announce")) \in Nat
      /\ Cardinality(Admitted) \in Nat /\ Cardinality(Offers) \in Nat
  <2>1. Promised' \in SUBSET Callers
    BY <1>4, CountedSets
  <2> QED BY <1>4, <2>1, CountedSets, Counted
<1>6. stored' = stored - 1
  BY <1>1, <1>2, <1>5 DEF Balanced, ReadsBalanced
<1>7. WritesBalanced'
  BY <1>1, <1>3, <1>4, <1>5, <1>6 DEF Balanced, WritesBalanced
<1>8. ReadsBalanced'
  BY <1>1, <1>3, <1>4, <1>5, <1>6 DEF Balanced, ReadsBalanced
<1> QED BY <1>3, <1>7, <1>8 DEF Balanced

(* write() adds its element.                                               *)
LEMMA WriteAddKeeps ==
    ASSUME SyncInv, NEW c \in Callers, ChannelOp(c), WriteAdd(c)
    PROVE  ChannelMove(c) /\ Balanced'
<1>1. /\ Balanced /\ stored \in Nat
      /\ permits[writer] \in Nat /\ permits[reader] \in Nat /\ ChannelCapacity \in Nat
  BY ChannelTypes
<1>2. stored' = stored + 1 /\ stored' \in Nat
  BY <1>1 DEF WriteAdd, Stored
<1>3. /\ ChannelMove(c) /\ pc[c] = "add" /\ pc'[c] = "announce"
      /\ \A d \in Callers \ {c} : pc'[d] = pc[d]
      /\ permits' = permits /\ granted' = granted /\ ~granted[c]
  BY <1>2, ChannelMoveOnly DEF WriteAdd
<1>4. /\ c \in Admitted /\ Admitted' = Admitted \ {c}
      /\ c \notin At("announce") /\ At("announce")' = At("announce") \union {c}
      /\ Offers' = Offers /\ Promised' = Promised
  BY <1>3 DEF Offers, Admitted, Promised, At
<1>5. /\ Cardinality(Admitted') = Cardinality(Admitted) - 1
      /\ Cardinality(At("announce")') = Cardinality(At("announce")) + 1
      /\ Cardinality(Promised) \in Nat /\ Cardinality(At("announce")) \in Nat
      /\ Cardinality(Admitted) \in Nat /\ Cardinality(Offers) \in Nat
  BY <1>4, CountedSets, Counted
<1>6. WritesBalanced' /\ ReadsBalanced'
  BY <1>1, <1>2, <1>3, <1>4, <1>5 DEF Balanced, WritesBalanced, ReadsBalanced
<1> QED BY <1>3, <1>6 DEF Balanced

(* write() announces its element: a permit of reader, or a read that waits *)
(* is promised it.                                                         *)
LEMMA WriteAnnounceKeeps ==
    ASSUME SyncInv, NEW c \in Callers, ChannelOp(c), WriteAnnounce(c)
    PROVE  ChannelMove(c) /\ Balanced'
<1>1. /\ TypeOK /\ ChannelTypeOK /\ Limited /\ Located /\ Balanced
      /\ writer \in Blockers /\ reader \in Blockers /\ writer # reader
      /\ permits[writer] \in Nat /\ permits[reader] \in Nat
      /\ stored \in Nat /\ ChannelCapacity \in Nat
      /\ writer # None /\ reader # None
  BY ChannelTypes
<1>2. /\ pc[c] = "announce" /\ waitsOn[c] = None /\ ~granted[c]
      /\ stored' = stored /\ pc' = [pc EXCEPT ![c] = "idle"]
  BY ChannelCaller DEF WriteAnnounce, Goto
<1>3. /\ TypeOK' /\ waitsOn' = waitsOn /\ PermitsSame({reader})
      /\ Kept(reader) \/ (\E w \in Callers : Given(reader, w)) \/ Refused(reader)
  BY <1>1, WakeUpFacts DEF WriteAnnounce, Announced
<1>4. Limited'
  BY <1>1, <1>3, PermitsReleased
<1>5. ~Refused(reader)
  <2>1. c \in At("announce")
    BY <1>2 DEF At
  <2>2. permits[reader] < Limit[reader] /\ Limit[reader] \in Nat
    BY <1>1, <2>1, ReaderBelowLimit, SemaphoreAssumption
  <2> QED BY <1>1, <2>2 DEF Refused
<1>6. /\ ChannelTypeOK' /\ pc'[c] = "idle"
      /\ \A d \in Callers \ {c} : pc'[d] = pc[d]
  BY <1>1, <1>2, <1>3 DEF ChannelTypeOK
<1>7. ChannelMove(c)
  <2>1. \A d \in Callers : granted'[d] = granted[d] \/ (waitsOn[d] = reader /\ granted'[d])
    BY <1>3, <1>5 DEF Kept, Given, OthersSame
  <2>2. waitsOn'[c] = None /\ ~granted'[c]
    BY <1>1, <1>2, <1>3, <2>1
  <2>3. PermitsSame({writer, reader})
    BY <1>3 DEF PermitsSame
  <2> QED BY <1>1, <1>3, <1>4, <1>6, <2>1, <2>2, <2>3 DEF ChannelMove
<1>8. /\ permits'[writer] = permits[writer]
      /\ c \in At("announce") /\ At("announce")' = At("announce") \ {c} /\ Offers' = Offers
  BY <1>1, <1>2, <1>3, <1>6 DEF PermitsSame, Offers, At
<1>9. /\ Cardinality(At("announce")') = Cardinality(At("announce")) - 1
      /\ Cardinality(At("announce")) \in Nat /\ Cardinality(Promised) \in Nat
  BY <1>8, CountedSets, Counted
<1>10. ASSUME Kept(reader) PROVE Balanced'
  <2>1. Admitted' = Admitted /\ Promised' = Promised
    BY <1>2, <1>6, <1>10 DEF Kept, Admitted, Promised, At
  <2>2. permits'[reader] = permits[reader] + 1
    BY <1>10 DEF Kept
  <2>3. WritesBalanced'
    BY <1>1, <1>2, <1>8, <2>1 DEF Balanced, WritesBalanced
  <2>4. ReadsBalanced'
    BY <1>1, <1>2, <1>9, <2>1, <2>2 DEF Balanced, ReadsBalanced
  <2> QED BY <2>3, <2>4 DEF Balanced
<1>11. ASSUME NEW w \in Callers, Given(reader, w) PROVE Balanced'
  <2>1. /\ w # c /\ pc[w] = "read" /\ ~granted[w] /\ granted'[w]
        /\ \A d \in Callers \ {w} : granted'[d] = granted[d]
    BY <1>1, <1>2, <1>11 DEF Given, Located, OthersSame
  <2>2. w \notin Promised /\ Promised' = Promised \union {w} /\ Admitted' = Admitted
    BY <1>2, <1>6, <2>1 DEF Admitted, Promised, At
  <2>3. Cardinality(Promised') = Cardinality(Promised) + 1 /\ permits' = permits
    BY <1>11, <2>2, CountedSets, Counted DEF Given
  <2>4. WritesBalanced'
    BY <1>1, <1>2, <1>8, <2>2, <2>3 DEF Balanced, WritesBalanced
  <2>5. ReadsBalanced'
    BY <1>1, <1>2, <1>9, <2>2, <2>3 DEF Balanced, ReadsBalanced
  <2> QED BY <2>4, <2>5 DEF Balanced
<1> QED BY <1>3, <1>5, <1>7, <1>10, <1>11

(* Every step of the channel: one step per action.                         *)
LEMMA ChannelOpKeeps ==
    ASSUME SyncInv, NEW c \in Callers, ChannelOp(c)
    PROVE  SyncInv'
<1>1. ChannelStep(c) /\ ChannelTypeOK /\ writer # reader
  BY ChannelTypes DEF ChannelOp
<1> DEFINE Good == ChannelMove(c) /\ Balanced'
<1>2. ASSUME ReadBegin(c) PROVE Good
  BY <1>2, LetInKeeps DEF ReadBegin, LetIn
<1>3. ASSUME ReadWait(c) PROVE Good
  <2>1. pc[c] = "read" /\ pc' = [pc EXCEPT ![c] = "read"] /\ stored' = stored
    BY <1>1, <1>3 DEF ReadWait, ChannelTypeOK
  <2>2. CASE Acquire(c, reader)
    BY <2>1, <2>2, PromiseTaken
  <2>3. CASE Enter(c, reader, FALSE)
    BY <2>1, <2>3, ChannelEnterKeeps
  <2> QED BY <1>3, <2>2, <2>3 DEF ReadWait, Wait
<1>4. ASSUME ReadPoll(c) PROVE Good
  BY <1>4, ReadPollKeeps
<1>5. ASSUME TryReadBegin(c) PROVE Good
  BY <1>5, LetInKeeps DEF TryReadBegin, LetIn
<1>6. ASSUME TryReadTake(c) PROVE Good
  BY <1>6, PromiseTaken DEF TryReadTake, Goto
<1>7. ASSUME WriteWait(c) PROVE Good
  <2>1. CASE Acquire(c, writer)
    BY <1>7, <2>1, AdmissionTaken DEF WriteWait, Goto
  <2>2. CASE Enter(c, writer, FALSE)
    BY <1>1, <1>7, <2>2, ChannelEnterKeeps DEF WriteWait, Goto
  <2> QED BY <1>7, <2>1, <2>2 DEF WriteWait, Wait
<1>8. ASSUME TryWrite(c) PROVE Good
  BY <1>8, AdmissionTaken DEF TryWrite, Goto
<1>9. Good
  BY <1>1, <1>2, <1>3, <1>4, <1>5, <1>6, <1>7, <1>8, ChannelTakeKeeps, ChannelReturnKeeps,
     TryReadLooksKeeps, OfferTakenBack, WriteAddKeeps, WriteAnnounceKeeps
  DEF ChannelStep, ReadStep, WriteStep
<1> QED BY <1>9, ChannelMoveKeeps

-----------------------------------------------------------------------------
(* The condition.                                                          *)

(* What a step of c on the condition does to the callers.                  *)
ConditionMove(c) ==
    /\ TypeOK' /\ Limited'
    /\ PermitsSame(Awaits)
    /\ \A d \in Callers \ {c} :
           /\ waitsOn'[d] = waitsOn[d] /\ mine'[d] = mine[d] /\ todo'[d] = todo[d]
           /\ granted'[d] = granted[d] \/ (waitsOn[d] \in Awaits /\ granted'[d])
    /\ waitsOn'[c] \in Awaits \union {None}
    /\ waitsOn'[c] = None => ~granted'[c]
    /\ waitsOn'[c] \in Awaits => waitsOn'[c] = mine'[c]
    /\ mine'[c] # None => todo'[c] = <<>>

LEMMA ConditionCaller ==
    ASSUME SyncInv, NEW c \in Callers, ConditionOp(c)
    PROVE  /\ TypeOK /\ ConditionTypeOK /\ Limited /\ Located /\ ConditionInv
           /\ waitsOn[c] \in Awaits \union {None} /\ None \notin Awaits
           /\ Awaits \subseteq Blockers
           /\ waitsOn[c] = None => ~granted[c]
           /\ waitsOn[c] \in Awaits => waitsOn[c] = mine[c]
           /\ mine[c] # None => todo[c] = <<>>
           /\ mine[c] = None => waitsOn[c] = None
BY SemaphoreAssumption, FiberConditionAssumption
   DEF SyncInv, MutexInv, ConditionInv, ConditionTypeOK, CallsClean, Located, ConditionOp,
       InLock, InChannel

LEMMA ConditionMoveKeeps ==
    ASSUME SyncInv, NEW c \in Callers, ConditionOp(c), ConditionMove(c), ConditionInv'
    PROVE  SyncInv'
<1> USE SemaphoreAssumption, FiberSyncAssumption, FiberChannelAssumption,
        FiberMutexAssumption, FiberConditionAssumption
<1>1. /\ TypeOK /\ Located /\ MutexInv /\ ChannelTypeOK /\ Balanced
      /\ UNCHANGED <<holds, pc, stored>>
      /\ ~InLock(c) /\ ~InChannel(c)
  BY DEF SyncInv, MutexInv, MutexTypeOK, ConditionOp
<1>2. waitsOn[c] \in Awaits \union {None}
  BY ConditionCaller
<1>3. Located'
  <2>1. ASSUME NEW d \in Callers, d # c
        PROVE  /\ waitsOn'[d] = waitsOn[d] /\ pc'[d] = pc[d] /\ mine'[d] = mine[d]
               /\ todo'[d] = todo[d] /\ (granted[d] => granted'[d])
    BY <1>1, <2>1 DEF ConditionMove
  <2>2. waitsOn'[c] \notin Mutexes \union {reader, writer} /\ pc'[c] = "idle"
    BY <1>1 DEF ConditionMove, InChannel
  <2> QED BY <1>1, <2>1, <2>2 DEF Located, InLock, InChannel, Calm, ConditionMove
<1>4. MutexInv'
  <2>1. \A m \in Mutexes : permits'[m] = permits[m]
    BY DEF ConditionMove, PermitsSame
  <2>2. ASSUME NEW d \in Callers
        PROVE  /\ waitsOn'[d] = None => ~granted'[d]
               /\ \/ waitsOn'[d] = waitsOn[d] /\ granted'[d] = granted[d]
                  \/ waitsOn[d] \notin Mutexes /\ waitsOn'[d] \notin Mutexes
    BY <1>1, <1>2 DEF ConditionMove, MutexInv, CallsClean
  <2> QED BY <1>1, <2>1, <2>2, MutexFrame DEF ConditionMove
<1>5. Balanced'
  <2>1. permits'[writer] = permits[writer] /\ permits'[reader] = permits[reader]
    BY DEF ConditionMove, PermitsSame
  <2>2. \A d \in Callers : InChannel(d) => granted'[d] = granted[d]
    BY <1>1 DEF ConditionMove, Located, Calm, InChannel
  <2> QED BY <1>1, <2>1, <2>2, ChannelFrame
<1>6. ChannelTypeOK'
  BY <1>1 DEF ChannelTypeOK, ConditionMove
<1> QED BY <1>3, <1>4, <1>5, <1>6 DEF SyncInv, ConditionMove

(* A call on the condition takes a permit of its own blocker.              *)
LEMMA AwaitTakesKeeps ==
    ASSUME SyncInv, NEW c \in Callers, ConditionOp(c), mine[c] # None,
           Acquire(c, mine[c]) \/ Take(c),
           UNCHANGED <<waiters, mine, todo, swept>>
    PROVE  ConditionMove(c) /\ ConditionInv'
<1> USE ConditionCaller
<1>1. mine[c] \in Awaits
  BY DEF ConditionTypeOK
<1>2. /\ TypeOK' /\ OthersSame(c) /\ PermitsSame({mine[c]})
      /\ waitsOn'[c] = mine[c] /\ granted'[c]
      /\ permits[mine[c]] > 0 /\ permits'[mine[c]] = permits[mine[c]] - 1
  <2>1. CASE Acquire(c, mine[c])
    BY <1>1, <2>1, AcquireFacts
  <2>2. CASE Take(c)
    <3>1. waitsOn[c] \in Blockers
      BY <2>2, TakeFacts
    <3>2. waitsOn[c] = mine[c]
      BY <3>1, SemaphoreAssumption
    <3> QED BY <2>2, <3>2, TakeFacts
  <2> QED BY <2>1, <2>2
<1>3. Limited'
  BY <1>1, <1>2, PermitsTaken
<1>4. ConditionMove(c)
  BY <1>1, <1>2, <1>3 DEF ConditionMove, OthersSame, PermitsSame
<1>5. ConditionTypeOK' /\ OwnBlockers' /\ OncePlaced'
  <2>1. ConditionTypeOK'
    BY <1>2 DEF ConditionInv, ConditionTypeOK
  <2>2. OwnBlockers' /\ OncePlaced'
    BY DEF ConditionInv, OwnBlockers, OncePlaced, InTodo, Queued
  <2> QED BY <2>1, <2>2
<1>6. \A b \in Awaits : Queued(b)' = Queued(b) /\ BeingWoken(b)' = BeingWoken(b)
  BY DEF Queued, BeingWoken
<1>7. SignalsReachAwaits'
  <2>1. ASSUME NEW b \in Awaits \ swept, Queued(b) \/ BeingWoken(b)
        PROVE  permits'[b] = 0 /\ \E d \in Callers : mine[d] = b /\ ~granted'[d]
    <3>1. permits[b] = 0 /\ \E d \in Callers : mine[d] = b /\ ~granted[d]
      BY <2>1 DEF ConditionInv, SignalsReachAwaits
    <3>2. b # mine[c]
      BY <1>2, <3>1
    <3> QED BY <1>1, <1>2, <3>1, <3>2 DEF OthersSame, PermitsSame
  <2> QED BY <1>6, <2>1 DEF SignalsReachAwaits
<1>8. NoForgottenAwait'
  <2>1. ASSUME NEW d \in Callers, mine[d] # None, ~granted'[d]
        PROVE  ~granted[d] /\ mine[d] \in Awaits /\ permits'[mine[d]] = permits[mine[d]]
    <3>1. d # c
      BY <1>2, <2>1
    <3>2. mine[d] # mine[c]
      BY <2>1, <3>1 DEF ConditionInv, OwnBlockers
    <3>3. mine[d] \in Awaits
      BY <2>1 DEF ConditionTypeOK
    <3> QED BY <1>2, <2>1, <3>1, <3>2, <3>3 DEF OthersSame, PermitsSame
  <2> QED BY <1>6, <2>1 DEF ConditionInv, NoForgottenAwait
<1> QED BY <1>4, <1>5, <1>7, <1>8 DEF ConditionInv

(* await() begins to wait: the condition stays as it is.                   *)
LEMMA AwaitEntersKeeps ==
    ASSUME SyncInv, NEW c \in Callers, ConditionOp(c), mine[c] # None,
           Enter(c, mine[c], FALSE), UNCHANGED <<waiters, mine, todo, swept>>
    PROVE  ConditionMove(c) /\ ConditionInv'
<1> USE ConditionCaller
<1>1. mine[c] \in Awaits
  BY DEF ConditionTypeOK
<1>2. /\ TypeOK' /\ OthersSame(c) /\ permits' = permits
      /\ waitsOn[c] = None /\ waitsOn'[c] = mine[c] /\ granted'[c] = granted[c]
  BY <1>1, EnterFacts
<1>3. ConditionMove(c)
  BY <1>1, <1>2 DEF ConditionMove, OthersSame, PermitsSame, Limited
<1>4. ConditionInv'
  BY <1>2, ConditionFrame DEF OthersSame
<1> QED BY <1>3, <1>4

(* await() returns.                                                        *)
LEMMA AwaitReturnKeeps ==
    ASSUME SyncInv, NEW c \in Callers, ConditionOp(c), AwaitReturn(c)
    PROVE  ConditionMove(c) /\ ConditionInv'
<1> USE ConditionCaller
<1>1. /\ TypeOK' /\ OthersSame(c) /\ permits' = permits
      /\ waitsOn'[c] = None /\ granted[c] /\ ~granted'[c]
  BY ReturnFacts DEF AwaitReturn
<1>2. /\ mine' = [mine EXCEPT ![c] = None] /\ mine'[c] = None
      /\ \A d \in Callers \ {c} : mine'[d] = mine[d]
      /\ UNCHANGED <<waiters, todo, swept>>
  BY DEF AwaitReturn, ConditionTypeOK
<1>3. ConditionMove(c)
  BY <1>1, <1>2 DEF ConditionMove, OthersSame, PermitsSame, Limited
<1>4. ConditionTypeOK' /\ OwnBlockers' /\ OncePlaced'
  <2>1. ConditionTypeOK'
    BY <1>1, <1>2 DEF ConditionTypeOK
  <2>2. OwnBlockers'
    BY <1>2 DEF ConditionInv, OwnBlockers
  <2>3. OncePlaced'
    BY <1>2 DEF ConditionInv, OncePlaced, InTodo, Queued
  <2> QED BY <2>1, <2>2, <2>3
<1>5. \A b \in Awaits : Queued(b)' = Queued(b) /\ BeingWoken(b)' = BeingWoken(b)
  BY <1>2 DEF Queued, BeingWoken
<1>6. SignalsReachAwaits'
  BY <1>1, <1>2, <1>5 DEF ConditionInv, SignalsReachAwaits, OthersSame
<1>7. NoForgottenAwait'
  <2>1. ASSUME NEW d \in Callers, mine'[d] # None, ~granted'[d]
        PROVE  mine'[d] = mine[d] /\ ~granted[d] /\ mine[d] \in Awaits
    BY <1>1, <1>2, <2>1 DEF ConditionTypeOK, OthersSame
  <2> QED BY <1>1, <1>5, <2>1 DEF ConditionInv, NoForgottenAwait
<1> QED BY <1>3, <1>4, <1>6, <1>7 DEF ConditionInv

LEMMA BeingWokenInTodo == \A b \in Awaits : BeingWoken(b) <=> \E c \in Callers : InTodo(c, b)
BY DEF BeingWoken, InTodo

(* await() makes a blocker that nothing refers to, and queues it.          *)
LEMMA AwaitKeeps ==
    ASSUME SyncInv, NEW c \in Callers, ConditionOp(c), NEW b \in Awaits, Await(c, b)
    PROVE  ConditionMove(c) /\ ConditionInv'
<1> USE ConditionCaller
<1>1. /\ mine[c] = None /\ todo[c] = <<>> /\ waitsOn[c] = None /\ ~granted[c]
      /\ ~Queued(b) /\ ~BeingWoken(b) /\ \A d \in Callers : mine[d] # b
  BY DEF Await, Calm, Alive
<1>2. /\ permits'[b] = 0 /\ PermitsSame({b}) /\ permits' \in [Blockers -> Nat]
      /\ UNCHANGED <<waitsOn, granted, timed, todo>>
      /\ mine'[c] = b /\ (\A d \in Callers \ {c} : mine'[d] = mine[d])
      /\ waiters' = Append(waiters, b) /\ swept' = swept \ {b}
  BY DEF Await, TypeOK, ConditionTypeOK, PermitsSame
<1>3. /\ Len(waiters) \in Nat /\ Len(waiters') = Len(waiters) + 1
      /\ waiters'[Len(waiters) + 1] = b
      /\ \A i \in 1..Len(waiters) : waiters'[i] = waiters[i]
  BY <1>2 DEF ConditionTypeOK
<1>4. ConditionMove(c)
  <2>1. TypeOK'
    BY <1>2 DEF TypeOK
  <2>2. Limited'
    <3>1. ASSUME NEW e \in Blockers PROVE permits'[e] <= Limit[e]
      <4>1. Limit[e] \in Nat /\ permits[e] <= Limit[e]
        BY SemaphoreAssumption DEF Limited
      <4> QED BY <1>2, <4>1 DEF PermitsSame
    <3> QED BY <3>1 DEF Limited
  <2> QED BY <1>1, <1>2, <2>1, <2>2 DEF ConditionMove, PermitsSame
<1>5. ConditionTypeOK'
  <2>1. mine' \in [Callers -> Awaits \union {None}] /\ waiters' \in Seq(Awaits)
    BY DEF Await, ConditionTypeOK
  <2> QED BY <1>2, <1>4, <2>1 DEF ConditionTypeOK, ConditionMove
<1>6. OwnBlockers'
  BY <1>1, <1>2 DEF ConditionInv, OwnBlockers
<1>7. \A e \in Awaits : /\ Queued(e)' <=> Queued(e) \/ e = b
                        /\ BeingWoken(e)' <=> BeingWoken(e)
                        /\ \A d \in Callers : InTodo(d, e)' <=> InTodo(d, e)
  <2>1. ASSUME NEW e \in Awaits PROVE Queued(e)' <=> Queued(e) \/ e = b
    BY <1>3 DEF Queued
  <2> QED BY <1>2, <2>1 DEF BeingWoken, InTodo
<1>8. OncePlaced'
  <2>1. ASSUME NEW i \in 1..Len(waiters'), NEW j \in 1..Len(waiters'),
               waiters'[i] = waiters'[j], waiters'[i] \notin swept'
        PROVE  i = j
    <3>1. CASE i \in 1..Len(waiters) /\ j \in 1..Len(waiters)
      <4>1. waiters[i] # b
        BY <1>1, <3>1 DEF Queued
      <4> QED BY <1>2, <1>3, <2>1, <3>1, <4>1 DEF ConditionInv, OncePlaced
    <3>2. CASE i = Len(waiters) + 1 /\ j \in 1..Len(waiters)
      BY <1>1, <1>3, <2>1, <3>2 DEF Queued
    <3>3. CASE i \in 1..Len(waiters) /\ j = Len(waiters) + 1
      BY <1>1, <1>3, <2>1, <3>3 DEF Queued
    <3> QED BY <1>3, <3>1, <3>2, <3>3
  <2>2. ASSUME NEW d \in Callers, NEW i \in 1..Len(todo[d]), NEW j \in 1..Len(todo[d]),
               todo[d][i] = todo[d][j], todo[d][i] \notin swept'
        PROVE  i = j
    <3>1. todo[d][i] # b
      BY <1>1 DEF BeingWoken
    <3> QED BY <1>2, <2>2, <3>1 DEF ConditionInv, OncePlaced
  <2>3. ASSUME NEW e \in Awaits \ swept', NEW d \in Callers, NEW f \in Callers, InTodo(d, e)
        PROVE  ~Queued(e)' /\ (InTodo(f, e) => d = f)
    <3>1. e # b
      BY <1>1, <2>3 DEF BeingWoken, InTodo
    <3>2. e \notin swept
      BY <1>2, <3>1
    <3> QED BY <1>7, <2>3, <3>1, <3>2 DEF ConditionInv, OncePlaced
  <2> QED BY <1>2, <1>7, <2>1, <2>2, <2>3 DEF OncePlaced
<1>9. SignalsReachAwaits'
  <2>1. ASSUME NEW e \in Awaits \ swept', Queued(e)' \/ BeingWoken(e)'
        PROVE  permits'[e] = 0 /\ \E d \in Callers : mine'[d] = e /\ ~granted'[d]
    <3>1. CASE e = b
      BY <1>1, <1>2, <3>1
    <3>2. CASE e # b
      <4>1. permits[e] = 0 /\ \E d \in Callers : mine[d] = e /\ ~granted[d]
        BY <1>2, <1>7, <2>1, <3>2 DEF ConditionInv, SignalsReachAwaits
      <4> QED BY <1>1, <1>2, <3>2, <4>1 DEF PermitsSame
    <3> QED BY <3>1, <3>2
  <2> QED BY <2>1 DEF SignalsReachAwaits
<1>10. NoForgottenAwait'
  <2>1. ASSUME NEW d \in Callers, mine'[d] # None, ~granted'[d]
        PROVE  (Queued(mine[d]) \/ BeingWoken(mine[d]) \/ permits[mine[d]] > 0)'
    <3>1. CASE d = c
      <4>1. mine'[d] = b /\ Queued(b)'
        BY <1>2, <1>7, <3>1
      <4> QED BY <4>1 DEF Queued
    <3>2. CASE d # c
      <4>1. PICK e \in Awaits : mine[d] = e /\ mine'[d] = e /\ e # b
        BY <1>1, <1>2, <2>1, <3>2 DEF ConditionTypeOK
      <4>2. Queued(e) \/ BeingWoken(e) \/ permits[e] > 0
        BY <1>2, <2>1, <4>1 DEF ConditionInv, NoForgottenAwait
      <4>3. Queued(e)' \/ BeingWoken(e)' \/ permits'[e] > 0
        BY <1>2, <1>7, <4>1, <4>2 DEF PermitsSame
      <4> QED BY <4>1, <4>3 DEF Queued, BeingWoken
    <3> QED BY <3>1, <3>2
  <2> QED BY <2>1 DEF NoForgottenAwait
<1> QED BY <1>4, <1>5, <1>6, <1>8, <1>9, <1>10 DEF ConditionInv

(* signal() and signalAll() only move blockers from the queue to the       *)
(* caller's hands.                                                         *)
LEMMA SignalMoves ==
    ASSUME SyncInv, NEW c \in Callers, ConditionOp(c), Calm(c),
           UNCHANGED <<vars, mine>>, ConditionTypeOK', OncePlaced', swept \subseteq swept',
           \A d \in Callers \ {c} : todo'[d] = todo[d],
           \A e \in Awaits : (Queued(e) \/ BeingWoken(e))' <=> Queued(e) \/ BeingWoken(e)
    PROVE  ConditionMove(c) /\ ConditionInv'
<1> USE ConditionCaller
<1>1. UNCHANGED <<permits, waitsOn, granted, timed, mine>>
  BY DEF vars
<1>2. ConditionMove(c)
  <2>1. TypeOK' /\ Limited' /\ PermitsSame(Awaits)
    BY <1>1 DEF TypeOK, Limited, PermitsSame
  <2> QED BY <1>1, <2>1 DEF ConditionMove, Calm
<1>3. OwnBlockers'
  BY <1>1 DEF ConditionInv, OwnBlockers
<1>4. SignalsReachAwaits'
  BY <1>1 DEF ConditionInv, SignalsReachAwaits
<1>5. NoForgottenAwait'
  <2>1. ASSUME NEW d \in Callers, mine'[d] # None, ~granted'[d]
        PROVE  (Queued(mine[d]) \/ BeingWoken(mine[d]) \/ permits[mine[d]] > 0)'
    <3>1. PICK e \in Awaits : mine[d] = e /\ mine'[d] = e
      BY <1>1, <2>1 DEF ConditionTypeOK
    <3>2. Queued(e)' \/ BeingWoken(e)' \/ permits'[e] > 0
      BY <1>1, <2>1, <3>1 DEF ConditionInv, NoForgottenAwait
    <3> QED BY <3>1, <3>2 DEF Queued, BeingWoken
  <2> QED BY <2>1 DEF NoForgottenAwait
<1> QED BY <1>2, <1>3, <1>4, <1>5 DEF ConditionInv

LEMMA SignalKeeps ==
    ASSUME SyncInv, NEW c \in Callers, ConditionOp(c), Signal(c)
    PROVE  ConditionMove(c) /\ ConditionInv'
<1> USE ConditionCaller
<1>1. /\ Calm(c) /\ todo[c] = <<>> /\ waiters \in Seq(Awaits) /\ waiters # <<>>
      /\ todo'[c] = <<Head(waiters)>> /\ \A d \in Callers \ {c} : todo'[d] = todo[d]
      /\ waiters' = Tail(waiters) /\ swept' = swept
      /\ UNCHANGED <<vars, mine>>
  BY DEF Signal, Polled, Calm, ConditionTypeOK
<1>2. /\ Len(waiters) \in Nat \ {0} /\ Len(waiters') = Len(waiters) - 1
      /\ Head(waiters) = waiters[1] /\ waiters[1] \in Awaits
      /\ \A i \in 1..Len(waiters') : waiters'[i] = waiters[i + 1]
  BY <1>1
<1>3. PICK h \in Awaits : h = waiters[1]
  BY <1>2
<1>4. Len(todo'[c]) = 1 /\ todo'[c][1] = h
  BY <1>1, <1>2, <1>3
<1>5. ConditionTypeOK'
  <2>1. todo' \in [Callers -> Seq(Awaits)] /\ waiters' \in Seq(Awaits)
    BY <1>1, <1>2 DEF Signal, ConditionTypeOK
  <2> QED BY <1>1, <2>1 DEF ConditionTypeOK, vars, TypeOK
<1>6. \A e \in Awaits : /\ Queued(e)' => Queued(e)
                        /\ Queued(e) => Queued(e)' \/ e = h
                        /\ InTodo(c, e)' <=> e = h
                        /\ \A d \in Callers \ {c} : InTodo(d, e)' <=> InTodo(d, e)
                        /\ ~InTodo(c, e)
  <2>1. ASSUME NEW e \in Awaits, Queued(e)' PROVE Queued(e)
    <3>1. PICK i \in 1..Len(waiters') : waiters'[i] = e
      BY <2>1 DEF Queued
    <3>2. i + 1 \in 1..Len(waiters) /\ waiters[i + 1] = e
      BY <1>2, <3>1
    <3> QED BY <3>2 DEF Queued
  <2>2. ASSUME NEW e \in Awaits, Queued(e), e # h PROVE Queued(e)'
    <3>1. PICK i \in 1..Len(waiters) : waiters[i] = e
      BY <2>2 DEF Queued
    <3>2. i - 1 \in 1..Len(waiters') /\ waiters'[i - 1] = e
      BY <1>2, <1>3, <2>2, <3>1
    <3> QED BY <3>2 DEF Queued
  <2>3. \A e \in Awaits : InTodo(c, e)' <=> e = h
    BY <1>4 DEF InTodo
  <2>4. \A e \in Awaits : ~InTodo(c, e) /\ \A d \in Callers \ {c} : InTodo(d, e)' <=> InTodo(d, e)
    BY <1>1 DEF InTodo
  <2> QED BY <2>1, <2>2, <2>3, <2>4
<1>7. Queued(h) /\ h \in Awaits
  BY <1>2, <1>3 DEF Queued
<1>8. \A e \in Awaits : (Queued(e) \/ BeingWoken(e))' <=> Queued(e) \/ BeingWoken(e)
  <2>1. \A e \in Awaits : (BeingWoken(e)' <=> \E d \in Callers : InTodo(d, e)')
    BY DEF BeingWoken, InTodo
  <2> QED BY <1>6, <1>7, <2>1, BeingWokenInTodo
<1>9. OncePlaced'
  <2>1. ASSUME NEW i \in 1..Len(waiters'), NEW j \in 1..Len(waiters'),
               waiters'[i] = waiters'[j], waiters'[i] \notin swept'
        PROVE  i = j
    <3>1. /\ i + 1 \in 1..Len(waiters) /\ j + 1 \in 1..Len(waiters)
          /\ waiters[i + 1] = waiters[j + 1] /\ waiters[i + 1] \notin swept
      BY <1>1, <1>2, <2>1
    <3>2. i + 1 = j + 1
      BY <3>1 DEF ConditionInv, OncePlaced
    <3> QED BY <3>2
  <2>2. ASSUME NEW d \in Callers, NEW i \in 1..Len(todo'[d]), NEW j \in 1..Len(todo'[d]),
               todo'[d][i] = todo'[d][j], todo'[d][i] \notin swept'
        PROVE  i = j
    <3>1. CASE d = c
      BY <1>4, <2>2, <3>1
    <3>2. CASE d # c
      BY <1>1, <2>2, <3>2 DEF ConditionInv, OncePlaced
    <3> QED BY <3>1, <3>2
  <2>3. h \notin swept => ~Queued(h)'
    <3>1. ASSUME h \notin swept, NEW i \in 1..Len(waiters'), waiters'[i] = h PROVE FALSE
      <4>1. i + 1 \in 1..Len(waiters) /\ 1 \in 1..Len(waiters) /\ waiters[i + 1] = waiters[1]
        BY <1>2, <1>3, <3>1
      <4>2. i + 1 = 1
        BY <1>3, <3>1, <4>1 DEF ConditionInv, OncePlaced
      <4> QED BY <4>2
    <3> QED BY <3>1 DEF Queued
  <2>4. ASSUME NEW e \in Awaits \ swept', NEW d \in Callers, NEW f \in Callers, InTodo(d, e)'
        PROVE  ~Queued(e)' /\ (InTodo(f, e)' => d = f)
    <3>1. CASE e = h
      <4>1. \A g \in Callers : ~InTodo(g, e)
        BY <1>1, <1>7, <3>1 DEF ConditionInv, OncePlaced
      <4> QED BY <1>1, <1>6, <2>3, <2>4, <3>1, <4>1
    <3>2. CASE e # h
      BY <1>1, <1>6, <2>4, <3>2 DEF ConditionInv, OncePlaced
    <3> QED BY <3>1, <3>2
  <2> QED BY <2>1, <2>2, <2>4 DEF OncePlaced
<1> QED BY <1>1, <1>5, <1>8, <1>9, SignalMoves

LEMMA SignalAllKeeps ==
    ASSUME SyncInv, NEW c \in Callers, ConditionOp(c), SignalAll(c)
    PROVE  ConditionMove(c) /\ ConditionInv'
<1> USE ConditionCaller
<1>1. /\ Calm(c) /\ todo[c] = <<>> /\ waiters \in Seq(Awaits)
      /\ todo'[c] = waiters /\ \A d \in Callers \ {c} : todo'[d] = todo[d]
      /\ swept' = swept \union {waiters[i] : i \in 1..Len(waiters)}
      /\ UNCHANGED <<vars, mine, waiters>>
  BY DEF SignalAll, Calm, ConditionTypeOK
<1>2. ConditionTypeOK'
  <2>1. todo' \in [Callers -> Seq(Awaits)]
    BY <1>1 DEF SignalAll, ConditionTypeOK
  <2>2. \A i \in 1..Len(waiters) : waiters[i] \in Awaits
    BY <1>1
  <2> QED BY <1>1, <2>1, <2>2 DEF ConditionTypeOK, vars, TypeOK
<1>3. \A e \in Awaits : /\ Queued(e)' <=> Queued(e)
                        /\ InTodo(c, e)' <=> Queued(e)
                        /\ \A d \in Callers \ {c} : InTodo(d, e)' <=> InTodo(d, e)
                        /\ ~InTodo(c, e)
                        /\ e \notin swept' <=> e \notin swept /\ ~Queued(e)
  BY <1>1 DEF InTodo, Queued
<1>4. \A e \in Awaits : (Queued(e) \/ BeingWoken(e))' <=> Queued(e) \/ BeingWoken(e)
  <2>1. \A e \in Awaits : (BeingWoken(e)' <=> \E d \in Callers : InTodo(d, e)')
    BY DEF BeingWoken, InTodo
  <2> QED BY <1>3, <2>1, BeingWokenInTodo
<1>5. OncePlaced'
  <2>1. \A i, j \in 1..Len(waiters') :
            waiters'[i] = waiters'[j] /\ waiters'[i] \notin swept' => i = j
    BY <1>1 DEF ConditionInv, OncePlaced
  <2>2. ASSUME NEW d \in Callers, NEW i \in 1..Len(todo'[d]), NEW j \in 1..Len(todo'[d]),
               todo'[d][i] = todo'[d][j], todo'[d][i] \notin swept'
        PROVE  i = j
    <3>1. CASE d = c
      BY <1>1, <2>2, <3>1
    <3>2. CASE d # c
      BY <1>1, <2>2, <3>2 DEF ConditionInv, OncePlaced
    <3> QED BY <3>1, <3>2
  <2>3. ASSUME NEW e \in Awaits \ swept', NEW d \in Callers, NEW f \in Callers, InTodo(d, e)'
        PROVE  ~Queued(e)' /\ (InTodo(f, e)' => d = f)
    BY <1>3, <2>3 DEF ConditionInv, OncePlaced
  <2> QED BY <2>1, <2>2, <2>3 DEF OncePlaced
<1> QED BY <1>1, <1>2, <1>4, <1>5, SignalMoves

(* A signaller wakes the next blocker it has in hand.                      *)
LEMMA WakeNextKeeps ==
    ASSUME SyncInv, NEW c \in Callers, ConditionOp(c), WakeNext(c)
    PROVE  ConditionMove(c) /\ ConditionInv'
<1> USE ConditionCaller
<1>1. PICK b \in Awaits : b = todo[c][1]
  BY DEF WakeNext, ConditionTypeOK
<1>2. /\ todo[c] \in Seq(Awaits) /\ Len(todo[c]) \in Nat \ {0} /\ b = Head(todo[c])
      /\ todo'[c] = Tail(todo[c]) /\ \A d \in Callers \ {c} : todo'[d] = todo[d]
      /\ todo' \in [Callers -> Seq(Awaits)]
      /\ UNCHANGED <<waiters, mine, swept>> /\ WakeUp(b)
  BY <1>1 DEF WakeNext, ConditionTypeOK
<1>3. /\ Len(todo'[c]) = Len(todo[c]) - 1
      /\ \A i \in 1..Len(todo'[c]) : todo'[c][i] = todo[c][i + 1]
  BY <1>2
<1>4. /\ mine[c] = None /\ waitsOn[c] = None /\ ~granted[c]
      /\ InTodo(c, b) /\ BeingWoken(b)
  BY <1>1, <1>2 DEF InTodo, BeingWoken
<1>5. /\ TypeOK' /\ waitsOn' = waitsOn /\ PermitsSame({b})
      /\ Kept(b) \/ (\E w \in Callers : Given(b, w)) \/ Refused(b)
  BY <1>2, WakeUpFacts
<1>6. Limited'
  BY <1>5, PermitsReleased
<1>7. /\ \A d \in Callers : granted'[d] = granted[d] \/ (waitsOn[d] = b /\ granted'[d])
      /\ granted'[c] = granted[c]
  BY <1>4, <1>5 DEF Kept, Given, Refused, OthersSame
<1>8. ConditionMove(c)
  BY <1>2, <1>4, <1>5, <1>6, <1>7 DEF ConditionMove, PermitsSame
<1>9. ConditionTypeOK' /\ OwnBlockers'
  BY <1>2, <1>5 DEF ConditionInv, ConditionTypeOK, OwnBlockers
<1>10. \A e \in Awaits :
           /\ Queued(e)' <=> Queued(e)
           /\ InTodo(c, e)' => InTodo(c, e)
           /\ InTodo(c, e) => InTodo(c, e)' \/ e = b
           /\ \A d \in Callers \ {c} : InTodo(d, e)' <=> InTodo(d, e)
           /\ BeingWoken(e)' => BeingWoken(e)
           /\ BeingWoken(e) => BeingWoken(e)' \/ e = b
  <2>1. ASSUME NEW e \in Awaits, InTodo(c, e)' PROVE InTodo(c, e)
    <3>1. PICK i \in 1..Len(todo'[c]) : todo'[c][i] = e
      BY <2>1 DEF InTodo
    <3>2. i + 1 \in 1..Len(todo[c]) /\ todo[c][i + 1] = e
      BY <1>2, <1>3, <3>1
    <3> QED BY <3>2 DEF InTodo
  <2>2. ASSUME NEW e \in Awaits, InTodo(c, e), e # b PROVE InTodo(c, e)'
    <3>1. PICK i \in 1..Len(todo[c]) : todo[c][i] = e
      BY <2>2 DEF InTodo
    <3>2. i - 1 \in 1..Len(todo'[c]) /\ todo'[c][i - 1] = e
      BY <1>1, <1>2, <1>3, <2>2, <3>1
    <3> QED BY <3>2 DEF InTodo
  <2>3. \A e \in Awaits : /\ \A d \in Callers \ {c} : InTodo(d, e)' <=> InTodo(d, e)
                          /\ Queued(e)' <=> Queued(e)
    BY <1>2 DEF InTodo, Queued
  <2>4. \A e \in Awaits : (BeingWoken(e)' <=> \E d \in Callers : InTodo(d, e)')
    BY DEF BeingWoken, InTodo
  <2> QED BY <2>1, <2>2, <2>3, <2>4, BeingWokenInTodo
<1>11. OncePlaced'
  <2>1. ASSUME NEW d \in Callers, NEW i \in 1..Len(todo'[d]), NEW j \in 1..Len(todo'[d]),
               todo'[d][i] = todo'[d][j], todo'[d][i] \notin swept'
        PROVE  i = j
    <3>1. CASE d = c
      <4>1. i \in 1..Len(todo'[c]) /\ j \in 1..Len(todo'[c])
        BY <3>1
      <4>2. todo[c][i + 1] = todo[c][j + 1] /\ todo[c][i + 1] \notin swept
        BY <1>2, <1>3, <2>1, <3>1, <4>1
      <4>3. i + 1 \in 1..Len(todo[c]) /\ j + 1 \in 1..Len(todo[c])
        BY <1>2, <1>3, <4>1
      <4>4. i + 1 = j + 1
        BY <4>2, <4>3 DEF ConditionInv, OncePlaced
      <4> QED BY <4>1, <4>4
    <3>2. CASE d # c
      BY <1>2, <2>1, <3>2 DEF ConditionInv, OncePlaced
    <3> QED BY <3>1, <3>2
  <2>2. ASSUME NEW e \in Awaits \ swept', NEW d \in Callers, NEW f \in Callers, InTodo(d, e)'
        PROVE  ~Queued(e)' /\ (InTodo(f, e)' => d = f)
    BY <1>2, <1>10, <2>2 DEF ConditionInv, OncePlaced
  <2>3. \A i, j \in 1..Len(waiters') :
            waiters'[i] = waiters'[j] /\ waiters'[i] \notin swept' => i = j
    BY <1>2 DEF ConditionInv, OncePlaced
  <2> QED BY <2>1, <2>2, <2>3 DEF OncePlaced
<1>12. ASSUME b \notin swept PROVE ~Queued(b)' /\ ~BeingWoken(b)'
  <2>1. ~Queued(b) /\ \A d \in Callers : InTodo(d, b) => d = c
    BY <1>4, <1>12 DEF ConditionInv, OncePlaced
  <2>2. ASSUME InTodo(c, b)' PROVE FALSE
    <3>1. PICK i \in 1..Len(todo'[c]) : todo'[c][i] = b
      BY <2>2 DEF InTodo
    <3>2. i + 1 \in 1..Len(todo[c]) /\ 1 \in 1..Len(todo[c]) /\ todo[c][i + 1] = todo[c][1]
      BY <1>1, <1>2, <1>3, <3>1
    <3>3. i + 1 = 1
      BY <1>1, <1>12, <3>2 DEF ConditionInv, OncePlaced
    <3> QED BY <3>3
  <2>3. BeingWoken(b)' <=> \E d \in Callers : InTodo(d, b)'
    BY DEF BeingWoken, InTodo
  <2> QED BY <1>10, <2>1, <2>2, <2>3
<1>13. SignalsReachAwaits'
  <2>1. ASSUME NEW e \in Awaits \ swept', Queued(e)' \/ BeingWoken(e)'
        PROVE  permits'[e] = 0 /\ \E d \in Callers : mine'[d] = e /\ ~granted'[d]
    <3>1. e # b /\ e \notin swept
      BY <1>2, <1>12, <2>1
    <3>2. permits[e] = 0 /\ \E d \in Callers : mine[d] = e /\ ~granted[d]
      BY <1>10, <2>1, <3>1 DEF ConditionInv, SignalsReachAwaits
    <3>3. permits'[e] = permits[e]
      BY <1>5, <3>1 DEF PermitsSame
    <3>4. \A d \in Callers : mine[d] = e => granted'[d] = granted[d]
      BY <1>5, <1>7, <3>1 DEF Located, TypeOK
    <3> QED BY <1>2, <3>2, <3>3, <3>4
  <2> QED BY <2>1 DEF SignalsReachAwaits
<1>14. NoForgottenAwait'
  <2>1. ASSUME NEW d \in Callers, mine'[d] # None, ~granted'[d]
        PROVE  (Queued(mine[d]) \/ BeingWoken(mine[d]) \/ permits[mine[d]] > 0)'
    <3>1. PICK e \in Awaits : mine[d] = e /\ mine'[d] = e
      BY <1>2, <2>1 DEF ConditionTypeOK
    <3>2. CASE e = b
      <4>1. \A w \in Callers : Given(b, w) => w = d
        BY <3>1, <3>2 DEF Given, Located, ConditionInv, OwnBlockers
      <4>2. Kept(b) \/ Refused(b)
        BY <1>5, <2>1, <4>1 DEF Given
      <4>3. permits[b] \in Nat /\ Limit[b] \in Nat /\ Limit[b] > 0
        BY SemaphoreAssumption, FiberConditionAssumption DEF TypeOK
      <4>4. permits'[b] > 0
        BY <4>2, <4>3 DEF Kept, Refused
      <4> QED BY <3>1, <3>2, <4>4
    <3>3. CASE e # b
      <4>1. ~granted[d] /\ permits'[e] = permits[e]
        BY <1>5, <1>7, <2>1, <3>3 DEF PermitsSame
      <4>2. Queued(e) \/ BeingWoken(e) \/ permits[e] > 0
        BY <2>1, <3>1, <4>1 DEF ConditionInv, NoForgottenAwait
      <4>3. Queued(e)' \/ BeingWoken(e)' \/ permits'[e] > 0
        BY <1>10, <3>3, <4>1, <4>2
      <4> QED BY <3>1, <4>3 DEF Queued, BeingWoken
    <3> QED BY <3>2, <3>3
  <2> QED BY <2>1 DEF NoForgottenAwait
<1> QED BY <1>8, <1>9, <1>11, <1>13, <1>14 DEF ConditionInv

(* Every step of the condition: one step per action.                       *)
LEMMA ConditionOpKeeps ==
    ASSUME SyncInv, NEW c \in Callers, ConditionOp(c)
    PROVE  SyncInv'
<1> DEFINE Good == ConditionMove(c) /\ ConditionInv'
<1>1. ConditionStep(c) /\ ConditionTypeOK
  BY ConditionCaller DEF ConditionOp
<1>2. ASSUME AwaitWait(c) PROVE Good
  <2>1. CASE Acquire(c, mine[c])
    BY <1>2, <2>1, AwaitTakesKeeps DEF AwaitWait
  <2>2. CASE Enter(c, mine[c], FALSE)
    BY <1>2, <2>2, AwaitEntersKeeps DEF AwaitWait
  <2> QED BY <1>2, <2>1, <2>2 DEF AwaitWait
<1>3. ASSUME AwaitTake(c) PROVE Good
  BY <1>3, AwaitTakesKeeps DEF AwaitTake
<1>4. Good
  BY <1>1, <1>2, <1>3, AwaitKeeps, AwaitReturnKeeps, SignalKeeps, SignalAllKeeps, WakeNextKeeps
  DEF ConditionStep
<1> QED BY <1>4, ConditionMoveKeeps

-----------------------------------------------------------------------------
(* The invariant.                                                          *)

LEMMA InitSyncInv == SyncInit => SyncInv
<1> SUFFICES ASSUME SyncInit PROVE SyncInv
  OBVIOUS
<1> USE SemaphoreAssumption, FiberChannelAssumption, FiberConditionAssumption
<1>1. MutexInv
  BY InitMutexInv DEF SyncInit
<1>2. /\ permits = Capacity /\ stored = 0 /\ waiters = <<>> /\ swept = {}
      /\ \A c \in Callers : /\ waitsOn[c] = None /\ ~granted[c] /\ pc[c] = "idle"
                            /\ mine[c] = None /\ todo[c] = <<>>
  BY DEF SyncInit, ChannelInit, ConditionInit, Init
<1>3. ChannelTypeOK /\ ConditionTypeOK
  BY <1>1 DEF SyncInit, ChannelInit, ConditionInit, MutexInv, MutexTypeOK, ChannelTypeOK,
              ConditionTypeOK
<1>4. Limited /\ Located
  <2>1. None \notin Mutexes \union Awaits \union {writer, reader}
    BY FiberMutexAssumption
  <2> QED BY <1>2, <2>1 DEF Limited, Located, InLock, InChannel, Calm
<1>5. Balanced
  <2>1. Offers = {} /\ Admitted = {} /\ Promised = {} /\ At("announce") = {}
    BY <1>2 DEF Offers, Admitted, Promised, At
  <2>2. /\ Cardinality(Offers) = 0 /\ Cardinality(Admitted) = 0
        /\ Cardinality(Promised) = 0 /\ Cardinality(At("announce")) = 0
    BY <2>1, FS_EmptySet
  <2>3. permits[writer] = ChannelCapacity /\ permits[reader] = 0 /\ ChannelCapacity \in Nat
    BY <1>2
  <2>4. WritesBalanced
    BY <1>2, <2>2, <2>3 DEF WritesBalanced
  <2>5. ReadsBalanced
    BY <1>2, <2>2, <2>3 DEF ReadsBalanced
  <2> QED BY <2>4, <2>5 DEF Balanced
<1>6. ConditionInv
  <2>1. Len(waiters) = 0 /\ \A c \in Callers : Len(todo[c]) = 0
    BY <1>2
  <2>2. \A b \in Awaits : ~Queued(b) /\ ~BeingWoken(b) /\ \A c \in Callers : ~InTodo(c, b)
    BY <2>1 DEF Queued, BeingWoken, InTodo
  <2> QED BY <1>2, <1>3, <2>1, <2>2
          DEF ConditionInv, OwnBlockers, OncePlaced, SignalsReachAwaits, NoForgottenAwait
<1> QED BY <1>1, <1>3, <1>4, <1>5, <1>6 DEF SyncInv

LEMMA NextSyncInv == SyncInv /\ [SyncNext]_syncVars => SyncInv'
<1> SUFFICES ASSUME SyncInv, [SyncNext]_syncVars PROVE SyncInv'
  OBVIOUS
<1>1. CASE SyncNext
  BY <1>1, MutexOpKeeps, ChannelOpKeeps, ConditionOpKeeps DEF SyncNext
<1>2. CASE UNCHANGED syncVars
  <2>1. /\ UNCHANGED <<permits, waitsOn, granted, timed>>
        /\ UNCHANGED <<holds, pc, stored, waiters, mine, todo, swept>>
    BY <1>2 DEF syncVars, vars
  <2>2. TypeOK' /\ ChannelTypeOK' /\ Limited' /\ Located'
    BY <2>1 DEF SyncInv, MutexInv, MutexTypeOK, TypeOK, ChannelTypeOK, Limited, Located,
                InLock, InChannel, Calm
  <2>3. MutexInv'
    BY <2>1, <2>2, MutexFrame DEF SyncInv, MutexInv, CallsClean
  <2>4. Balanced' /\ ConditionInv'
    BY <2>1, <2>2, ChannelFrame, ConditionFrame DEF SyncInv
  <2> QED BY <2>2, <2>3, <2>4 DEF SyncInv
<1> QED BY <1>1, <1>2

LEMMA Invariant == SyncSpec => []SyncInv
BY InitSyncInv, NextSyncInv, PTL DEF SyncSpec

LEMMA SyncInvNoStandoff == SyncInv => NoStandoff
<1> SUFFICES ASSUME SyncInv,
                    NEW r \in Callers, Stuck(r, reader),
                    NEW w \in Callers, Stuck(w, writer),
                    \A c \in Callers : pc[c] = "idle" \/ Stuck(c, reader) \/ Stuck(c, writer)
             PROVE  FALSE
  BY DEF NoStandoff
<1>1. /\ Located /\ Balanced /\ permits[writer] = 0 /\ permits[reader] = 0
      /\ stored \in Nat /\ ChannelCapacity \in Nat
  BY ChannelTypes DEF Stuck
<1>2. \A c \in Callers : /\ pc[c] \in {"idle", "read", "write"}
                         /\ pc[c] \in {"read", "write"} => ~granted[c]
  BY <1>1 DEF Located, Stuck
<1>3. Admitted = {} /\ Promised = {} /\ At("announce") = {}
  BY <1>2 DEF Admitted, Promised, At
<1>4. /\ Cardinality(Admitted) = 0 /\ Cardinality(Promised) = 0
      /\ Cardinality(At("announce")) = 0
  BY <1>3, FS_EmptySet
<1>5. stored = 0
  BY <1>1, <1>4 DEF Balanced, ReadsBalanced
<1>6. Cardinality(Offers) = 0
  <2>1. Cardinality(Offers) \in Nat
    BY CountedSets, Counted
  <2> QED BY <1>1, <1>4, <1>5, <2>1 DEF Balanced, WritesBalanced
<1>7. r \in Offers
  BY <1>1 DEF Located, Stuck, Offers, At
<1>8. Cardinality(Offers \ {r}) = -1 /\ Cardinality(Offers \ {r}) \in Nat
  <2>1. Offers \ {r} \in SUBSET Callers
    BY CountedSets
  <2> QED BY <1>6, <1>7, <2>1, CountedSets, Counted
<1> QED BY <1>8

(* The types, and: no wakeUp() of any synchroniser takes a blocker beyond  *)
(* the limit it was made with.                                             *)
THEOREM SyncTypeOKHolds == SyncSpec => []SyncTypeOK
<1>1. SyncInv => SyncTypeOK
  BY DEF SyncInv, MutexInv, ConditionInv, SyncTypeOK, Limited
<1> QED BY <1>1, Invariant, PTL

(* EFiberMutex: two callers never have the same mutex, also while they use *)
(* channels and conditions, whose blockers hand over permits of their own, *)
(* and fail to get a mutex in time, if they are Steady.                    *)
THEOREM SyncMutualExclusionHolds == SyncSpec => []MutualExclusion
<1>1. SyncInv => MutualExclusion
  BY DEF SyncInv, MutexInv
<1> QED BY <1>1, Invariant, PTL

(* EFiberMutex::isLocked says whether somebody has the mutex, also after   *)
(* the tryLock(time) of a Steady caller failed.                            *)
THEOREM SyncLockedIffOwnedHolds == SyncSpec => []LockedIffOwned
<1>1. SyncInv => LockedIffOwned
  BY DEF SyncInv, MutexInv
<1> QED BY <1>1, Invariant, PTL

(* EFiberChannel: whatever the capacity and however many callers, every    *)
(* write is let in by the capacity or by one reader, and every element is  *)
(* promised to one read, which therefore never polls an empty queue; with  *)
(* tryRead by Steady callers only, since it yields.                        *)
THEOREM BalancedHolds == SyncSpec => []Balanced
<1>1. SyncInv => Balanced
  BY DEF SyncInv
<1> QED BY <1>1, Invariant, PTL

(* EFiberChannel: read() and write() never wait for each other.            *)
THEOREM NoStandoffHolds == SyncSpec => []NoStandoff
BY SyncInvNoStandoff, Invariant, PTL

(* EFiberCondition: a signal() goes to an await() that has not been woken, *)
(* unless a signalAll() left its blocker on the queue.                     *)
THEOREM SignalsReachAwaitsHolds == SyncSpec => []SignalsReachAwaits
<1>1. SyncInv => SignalsReachAwaits
  BY DEF SyncInv, ConditionInv
<1> QED BY <1>1, Invariant, PTL

(* EFiberCondition: an await() not woken yet is on the queue, or in the    *)
(* hands of a signaller, or its blocker has the permit.                    *)
THEOREM NoForgottenAwaitHolds == SyncSpec => []NoForgottenAwait
<1>1. SyncInv => NoForgottenAwait
  BY DEF SyncInv, ConditionInv
<1> QED BY <1>1, Invariant, PTL

=============================================================================
