------------------------- MODULE FiberBlockerProofs -------------------------
(***************************************************************************)
(* Proofs about FiberBlocker, for every set of fibers, threads, plain      *)
(* threads and blockers, and for every choice of what the fibers do.       *)
(***************************************************************************)
EXTENDS FiberBlocker, SequenceTheorems, TLAPS

(* A pc that names a fiber holds one, and so does a waker in the middle of *)
(* swapIn.                                                                 *)
Held ==
    /\ \A t \in Threads :
           pc[t] \in {"epoll", "run", "switch", "requeue"} => cur[t] \in Fibers
    /\ \A a \in Agents : wake[a] # "none" => target[a] \in Fibers

TypeInv == TypeOK /\ Held

(* What waitQueue.remove leaves is again a queue, and no longer than it.   *)
LEMMA WithdrawnType ==
    ASSUME NEW S, NEW q \in Seq(S), NEW f
    PROVE  /\ Withdrawn(q, f) \in Seq(S)
           /\ q = <<>> => Withdrawn(q, f) = <<>>
<1>1. CASE InSeq(f, q)
  <2>1. PICK i \in 1..Len(q) : i = CHOOSE j \in 1..Len(q) : q[j] = f
    BY <1>1 DEF InSeq
  <2>2. i - 1 \in Int /\ i + 1 \in Int /\ Len(q) \in Int
    BY LenProperties
  <2>3. \A j \in 1..Len(q) : q[j] \in S
    BY LenProperties
  <2>4. SubSeq(q, 1, i - 1) \in Seq(S)
    <3>1. \A j \in 1..(i - 1) : q[j] \in S
      BY <2>2, <2>3
    <3> QED BY <2>2, <3>1, SubSeqProperties
  <2>5. SubSeq(q, i + 1, Len(q)) \in Seq(S)
    <3>1. \A j \in (i + 1)..Len(q) : q[j] \in S
      BY <2>2, <2>3
    <3> QED BY <2>2, <3>1, SubSeqProperties
  <2>6. Withdrawn(q, f) = SubSeq(q, 1, i - 1) \o SubSeq(q, i + 1, Len(q))
    BY <1>1, <2>1 DEF Withdrawn, RemoveAt
  <2> QED BY <1>1, <2>4, <2>5, <2>6, ConcatProperties DEF InSeq
<1>2. CASE ~InSeq(f, q)
  BY <1>2 DEF Withdrawn
<1> QED BY <1>1, <1>2

LEMMA InitTypeInv == Init => TypeInv
BY FiberBlockerAssumption DEF Init, TypeInv, TypeOK, Held, PcValues, Callers, Agents

(* Every step keeps the types: one step per action of Next.                *)
LEMMA NextTypeInv == TypeInv /\ [Next]_vars => TypeInv'
<1> SUFFICES ASSUME TypeInv, [Next]_vars PROVE TypeInv'
  OBVIOUS
<1> USE FiberBlockerAssumption DEF TypeInv, TypeOK, Held, Callers, Agents, PcValues
<1>1. ASSUME NEW f \in Fibers, Dispatch(f) PROVE TypeInv'
  BY <1>1 DEF Dispatch, blockerVars, wakeVars, callVars
<1>2. ASSUME NEW t \in Threads, Start(t) PROVE TypeInv'
  BY <1>2 DEF Start, blockerVars, fiberVars, wakeVars, callVars
<1>3. ASSUME NEW t \in Threads, Poll(t) PROVE TypeInv'
  <2>1. Head(runq[t]) \in Fibers /\ Tail(runq[t]) \in Seq(Fibers)
    BY <1>3, HeadTailProperties DEF Poll
  <2> QED BY <1>3, <2>1 DEF Poll, blockerVars, fiberVars, wakeVars, callVars
<1>4. ASSUME NEW t \in Threads, PollEmpty(t) PROVE TypeInv'
  BY <1>4 DEF PollEmpty, blockerVars, fiberVars, wakeVars, callVars
<1>5. ASSUME NEW t \in Threads, OnceProcessEvents(t) PROVE TypeInv'
  BY <1>5 DEF OnceProcessEvents, blockerVars, fiberVars, wakeVars, callVars
<1>6. ASSUME NEW t \in Threads, IdleTimeout(t) PROVE TypeInv'
  BY <1>6 DEF IdleTimeout, blockerVars, fiberVars, wakeVars, callVars
<1>7. ASSUME NEW t \in Threads, NEW f \in Fibers, TimeEventProc(t, f) PROVE TypeInv'
  BY <1>7 DEF TimeEventProc, blockerVars, loopVars, callVars
<1>8. ASSUME NEW t \in Threads, EventsDone(t) PROVE TypeInv'
  BY <1>8 DEF EventsDone, blockerVars, fiberVars, wakeVars, callVars
<1>9. ASSUME NEW t \in Threads, Requeue(t) PROVE TypeInv'
  <2>1. Append(runq[t], cur[t]) \in Seq(Fibers)
    BY <1>9, AppendProperties DEF Requeue
  <2> QED BY <1>9, <2>1 DEF Requeue, blockerVars, fiberVars, wakeVars, callVars
<1>10. ASSUME NEW t \in Threads, SwapOutFalse(t) PROVE TypeInv'
  BY <1>10 DEF SwapOutFalse, PermitLeft, fiberVars, wakeVars, callVars
<1>11. ASSUME NEW t \in Threads, SwapOutTrue(t) PROVE TypeInv'
  BY <1>11 DEF SwapOutTrue, fiberVars, wakeVars, callVars
<1>12. ASSUME NEW t \in Threads, Reap(t) PROVE TypeInv'
  BY <1>12 DEF Reap, blockerVars, fiberVars, wakeVars, callVars
<1>13. ASSUME NEW c \in Callers, NEW b \in Blockers, WaitNow(c, b) PROVE TypeInv'
  BY <1>13 DEF WaitNow, PermitFound, fiberVars, loopVars, wakeVars
<1>14. ASSUME NEW f \in Fibers, NEW b \in Blockers, NEW tm \in BOOLEAN, FiberWait(f, b, tm)
       PROVE TypeInv'
  BY <1>14 DEF FiberWait, Free, Runs, blockerVars, wakeVars
<1>15. ASSUME NEW f \in Fibers, WaitReturn(f) PROVE TypeInv'
  BY <1>15 DEF WaitReturn, blockerVars, fiberVars, loopVars, wakeVars
<1>16. ASSUME NEW f \in Fibers, TimedReturn(f) PROVE TypeInv'
  <2>1. Withdrawn(waitQueue[waitsOn[f]], f) \in Seq(Callers)
    BY <1>16, WithdrawnType DEF TimedReturn
  <2> QED BY <1>16, <2>1 DEF TimedReturn, loopVars, wakeVars
<1>17. ASSUME NEW f \in Fibers, Yield(f) PROVE TypeInv'
  BY <1>17 DEF Yield, Free, Runs, blockerVars, fiberVars, wakeVars, callVars
<1>18. ASSUME NEW f \in Fibers, Finish(f) PROVE TypeInv'
  BY <1>18 DEF Finish, Free, Runs, blockerVars, wakeVars, callVars
<1>19. ASSUME NEW o \in Outsiders, NEW b \in Blockers, NEW tm \in BOOLEAN, ThreadWait(o, b, tm)
       PROVE TypeInv'
  BY <1>19 DEF ThreadWait, fiberVars, loopVars, wakeVars
<1>20. ASSUME NEW o \in Outsiders, ThreadReturn(o) PROVE TypeInv'
  BY <1>20 DEF ThreadReturn, blockerVars, fiberVars, loopVars, wakeVars
<1>21. ASSUME NEW o \in Outsiders, ThreadTimeout(o) PROVE TypeInv'
  <2>1. Withdrawn(waitQueue[waitsOn[o]], o) \in Seq(Callers)
    BY <1>21, WithdrawnType DEF ThreadTimeout
  <2> QED BY <1>21, <2>1 DEF ThreadTimeout, fiberVars, loopVars, wakeVars
<1>22. ASSUME NEW c \in Callers, NEW b \in Blockers, WakeUpKeep(c, b) PROVE TypeInv'
  BY <1>22 DEF WakeUpKeep, fiberVars, loopVars, wakeVars, callVars
<1>23. ASSUME NEW c \in Callers, NEW b \in Blockers, WakeUpThread(c, b) PROVE TypeInv'
  <2>1. Tail(waitQueue[b]) \in Seq(Callers)
    BY <1>23, HeadTailProperties DEF WakeUpThread
  <2> QED BY <1>23, <2>1 DEF WakeUpThread, fiberVars, loopVars, wakeVars
<1>24. ASSUME NEW c \in Callers, NEW b \in Blockers, WakeUpFiber(c, b) PROVE TypeInv'
  <2>1. Tail(waitQueue[b]) \in Seq(Callers)
    BY <1>24, HeadTailProperties DEF WakeUpFiber
  <2> QED BY <1>24, <2>1 DEF WakeUpFiber, fiberVars, loopVars, callVars
<1>25. ASSUME NEW a \in Agents, SwapInRead(a) PROVE TypeInv'
  BY <1>25 DEF SwapInRead, blockerVars, fiberVars, loopVars, callVars
<1>26. ASSUME NEW a \in Agents, SwapInClear(a) PROVE TypeInv'
  BY <1>26 DEF SwapInClear, blockerVars, loopVars, callVars
<1>27. ASSUME NEW a \in Agents, SwapInAdd(a) PROVE TypeInv'
  <2>1. target[a] \in Fibers
    BY <1>27 DEF SwapInAdd
  <2>2. Append(runq[Home[target[a]]], target[a]) \in Seq(Fibers)
    BY <2>1, AppendProperties
  <2> QED BY <1>27, <2>1, <2>2 DEF SwapInAdd, blockerVars, callVars
<1>28. ASSUME NEW a \in Agents, Signal(a) PROVE TypeInv'
  BY <1>28 DEF Signal, blockerVars, fiberVars, callVars
<1>29. CASE UNCHANGED vars
  BY <1>29 DEF vars, blockerVars, fiberVars, loopVars, wakeVars, callVars
<1> HIDE DEF TypeInv, TypeOK, Held, Callers, Agents, PcValues
<1>30. ASSUME NEW t \in Threads, DispatchLoop(t) PROVE TypeInv'
  BY <1>30, <1>2, <1>3, <1>4, <1>5, <1>7, <1>8, <1>9, <1>10, <1>11, <1>12 DEF DispatchLoop
<1>31. ASSUME NEW f \in Fibers, FiberCall(f) PROVE TypeInv'
  BY <1>31, <1>14, <1>15, <1>16, <1>17, <1>18 DEF FiberCall
<1>32. ASSUME NEW o \in Outsiders, ThreadCall(o) PROVE TypeInv'
  BY <1>32, <1>19, <1>20, <1>21 DEF ThreadCall
<1>33. ASSUME NEW c \in Callers, NEW b \in Blockers, WakeUp(c, b) PROVE TypeInv'
  BY <1>33, <1>22, <1>23, <1>24 DEF WakeUp
<1>34. ASSUME NEW a \in Agents, Waker(a) PROVE TypeInv'
  BY <1>34, <1>25, <1>26, <1>27, <1>28 DEF Waker
<1> QED
  BY <1>1, <1>6, <1>13, <1>29, <1>30, <1>31, <1>32, <1>33, <1>34 DEF Next

(* The types hold in every state, and every dispatch loop and every waker  *)
(* that is about to touch a fiber has one in hand.                         *)
THEOREM TypeCorrect == Spec => []TypeOK
<1>1. TypeInv => TypeOK
  BY DEF TypeInv
<1> QED BY <1>1, InitTypeInv, NextTypeInv, PTL DEF Spec

(* No step brings a permit and a waiter together: the four actions that    *)
(* add to wakeup_ or to a wait queue test the other one under the same     *)
(* lock, and the others only take away.                                    *)
LEMMA NextNoIdlePermit == TypeInv /\ NoIdlePermit /\ [Next]_vars => NoIdlePermit'
<1> SUFFICES ASSUME TypeInv, NoIdlePermit, [Next]_vars,
                    NEW d \in Blockers, waitQueue'[d] # <<>>
             PROVE  wakeup'[d] = 0
  BY DEF NoIdlePermit
<1> USE FiberBlockerAssumption DEF TypeInv, TypeOK, Held, Callers, Agents, NoIdlePermit
<1>1. CASE UNCHANGED blockerVars
  BY <1>1 DEF blockerVars
<1>2. ASSUME NEW t \in Threads, SwapOutFalse(t) PROVE wakeup'[d] = 0
  BY <1>2 DEF SwapOutFalse, PermitLeft
<1>3. ASSUME NEW t \in Threads, SwapOutTrue(t) PROVE wakeup'[d] = 0
  <2>1. wakeup[blocker[cur[t]]] = 0
    BY <1>3 DEF SwapOutTrue, PermitLeft
  <2> QED BY <1>3, <2>1 DEF SwapOutTrue
<1>4. ASSUME NEW c \in Callers, NEW b \in Blockers, WaitNow(c, b) PROVE wakeup'[d] = 0
  BY <1>4 DEF WaitNow, PermitFound
<1>5. ASSUME NEW f \in Fibers, TimedReturn(f) PROVE wakeup'[d] = 0
  <2>1. waitQueue[d] # <<>>
    BY <1>5, WithdrawnType DEF TimedReturn
  <2> QED BY <1>5, <2>1 DEF TimedReturn
<1>6. ASSUME NEW o \in Outsiders, NEW b \in Blockers, NEW tm \in BOOLEAN, ThreadWait(o, b, tm)
      PROVE wakeup'[d] = 0
  BY <1>6 DEF ThreadWait, PermitFound
<1>7. ASSUME NEW o \in Outsiders, ThreadTimeout(o) PROVE wakeup'[d] = 0
  <2>1. waitQueue[d] # <<>>
    BY <1>7, WithdrawnType DEF ThreadTimeout
  <2> QED BY <1>7, <2>1 DEF ThreadTimeout
<1>8. ASSUME NEW c \in Callers, NEW b \in Blockers, WakeUpKeep(c, b) PROVE wakeup'[d] = 0
  BY <1>8 DEF WakeUpKeep
<1>9. ASSUME NEW c \in Callers, NEW b \in Blockers, WakeUpThread(c, b) \/ WakeUpFiber(c, b)
      PROVE wakeup'[d] = 0
  <2>1. waitQueue[d] # <<>> /\ wakeup' = wakeup
    BY <1>9 DEF WakeUpThread, WakeUpFiber
  <2> QED BY <2>1
<1> HIDE DEF TypeInv, TypeOK, Held, Callers, Agents, NoIdlePermit
<1>10. ASSUME NEW t \in Threads, DispatchLoop(t) PROVE wakeup'[d] = 0
  BY <1>10, <1>1, <1>2, <1>3
     DEF DispatchLoop, Start, Poll, PollEmpty, OnceProcessEvents, TimeEventProc, EventsDone,
         Requeue, Reap
<1>11. ASSUME NEW f \in Fibers, Dispatch(f) \/ FiberCall(f) PROVE wakeup'[d] = 0
  BY <1>11, <1>1, <1>5 DEF Dispatch, FiberCall, WaitReturn, Yield, Finish, FiberWait
<1>12. ASSUME NEW o \in Outsiders, ThreadCall(o) PROVE wakeup'[d] = 0
  BY <1>12, <1>1, <1>6, <1>7 DEF ThreadCall, ThreadReturn
<1>13. ASSUME NEW a \in Agents, Waker(a) PROVE wakeup'[d] = 0
  BY <1>13, <1>1 DEF Waker, SwapInRead, SwapInClear, SwapInAdd, Signal
<1>14. ASSUME NEW c \in Callers, NEW b \in Blockers, WakeUp(c, b) PROVE wakeup'[d] = 0
  BY <1>14, <1>8, <1>9 DEF WakeUp
<1>15. ASSUME NEW t \in Threads, IdleTimeout(t) PROVE wakeup'[d] = 0
  BY <1>15, <1>1 DEF IdleTimeout
<1>16. CASE UNCHANGED vars
  BY <1>16, <1>1 DEF vars
<1> QED
  BY <1>4, <1>10, <1>11, <1>12, <1>13, <1>14, <1>15, <1>16 DEF Next

(* No wake-up is lost between wait() and swapOut(): a kept permit and a    *)
(* queued waiter never coexist, whatever the fibers and threads do.        *)
THEOREM NoIdlePermitHolds == Spec => []NoIdlePermit
<1>1. Init => NoIdlePermit
  BY DEF Init, NoIdlePermit
<1> QED BY <1>1, InitTypeInv, NextTypeInv, NextNoIdlePermit, PTL DEF Spec

(* A thread resumes a fiber only from its timers or from the fiber it runs *)
(* (asleep, it resumes nobody), and no loop has started while a fiber is   *)
(* still to be dispatched.                                                 *)
Awake ==
    /\ \A t \in Threads : wake[t] # "none" => pc[t] \in {"timers", "run"}
    /\ \A f \in Fibers : state[f] = "NEW" => \A t \in Threads : pc[t] = "new"

LEMMA NextAwake == TypeInv /\ Awake /\ [Next]_vars => Awake'
<1> SUFFICES ASSUME TypeInv, Awake, [Next]_vars PROVE Awake'
  OBVIOUS
<1> USE FiberBlockerAssumption DEF TypeInv, TypeOK, Held, Callers, Agents, PcValues, Awake
<1>1. CASE UNCHANGED <<state, pc, wake>>
  BY <1>1
<1>2. ASSUME NEW f \in Fibers, Dispatch(f) PROVE Awake'
  BY <1>2 DEF Dispatch, wakeVars
<1>3. ASSUME NEW t \in Threads, DispatchLoop(t) \/ IdleTimeout(t) PROVE Awake'
  <2>1. UNCHANGED <<state, wake>> \/ \E f \in Fibers : TimeEventProc(t, f)
    BY <1>3 DEF DispatchLoop, Start, Poll, PollEmpty, OnceProcessEvents, IdleTimeout, EventsDone,
                Requeue, SwapOutFalse, SwapOutTrue, Reap, fiberVars, wakeVars
  <2>2. ASSUME NEW f \in Fibers, TimeEventProc(t, f) PROVE Awake'
    BY <2>2 DEF TimeEventProc, loopVars
  <2>3. CASE UNCHANGED <<state, wake>>
    <3>1. pc[t] # "run" /\ (wake[t] # "none" => pc[t] # "timers" \/ pc'[t] \in {"timers", "run"})
      BY <1>3, <2>3 DEF DispatchLoop, Start, Poll, PollEmpty, OnceProcessEvents, IdleTimeout,
                EventsDone, TimeEventProc, Requeue, SwapOutFalse, SwapOutTrue, Reap, loopVars
    <3>2. \A u \in Threads : u # t => pc'[u] = pc[u]
      BY <1>3 DEF DispatchLoop, Start, Poll, PollEmpty, OnceProcessEvents, IdleTimeout,
                EventsDone, TimeEventProc, Requeue, SwapOutFalse, SwapOutTrue, Reap, loopVars
    <3>3. pc[t] = "new" => \A f \in Fibers : state[f] # "NEW"
      BY <1>3 DEF DispatchLoop, Start, Poll, PollEmpty, OnceProcessEvents, IdleTimeout,
                EventsDone, TimeEventProc, Requeue, SwapOutFalse, SwapOutTrue, Reap
    <3> QED BY <2>3, <3>1, <3>2, <3>3
  <2> QED BY <2>1, <2>2, <2>3
<1>4. ASSUME NEW f \in Fibers, FiberCall(f) PROVE Awake'
  <2>1. CASE UNCHANGED <<state, pc, wake>>
    BY <2>1, <1>1
  <2>2. ASSUME NEW b \in Blockers, NEW tm \in BOOLEAN, FiberWait(f, b, tm) PROVE Awake'
    BY <2>2 DEF FiberWait, Free, Runs, wakeVars
  <2>3. CASE Yield(f)
    BY <2>3 DEF Yield, Free, Runs, fiberVars, wakeVars
  <2>4. CASE Finish(f)
    BY <2>4 DEF Finish, Free, Runs, wakeVars
  <2> QED BY <1>4, <2>1, <2>2, <2>3, <2>4
          DEF FiberCall, WaitReturn, TimedReturn, fiberVars, loopVars, wakeVars
<1>5. ASSUME NEW a \in Agents, Waker(a) PROVE Awake'
  <2>1. pc' = pc /\ (a \in Threads => pc[a] \in {"timers", "run"})
    BY <1>5 DEF Waker, SwapInRead, SwapInClear, SwapInAdd, Signal, loopVars
  <2>2. \A t \in Threads : t # a => wake'[t] = wake[t]
    BY <1>5 DEF Waker, SwapInRead, SwapInClear, SwapInAdd, Signal
  <2>3. \A f \in Fibers : state'[f] = "NEW" => state[f] = "NEW"
    BY <1>5 DEF Waker, SwapInRead, SwapInClear, SwapInAdd, Signal, fiberVars
  <2> QED BY <2>1, <2>2, <2>3
<1>6. ASSUME NEW o \in Outsiders, ThreadCall(o) PROVE Awake'
  BY <1>6, <1>1 DEF ThreadCall, ThreadReturn, ThreadTimeout, ThreadWait, fiberVars, loopVars, wakeVars
<1>7. ASSUME NEW c \in Callers, NEW b \in Blockers, WaitNow(c, b) \/ WakeUp(c, b) PROVE Awake'
  <2>1. CASE WakeUpFiber(c, b)
    BY <2>1 DEF WakeUpFiber, Free, Runs, AgentOf, fiberVars, loopVars
  <2> QED BY <1>7, <1>1, <2>1
          DEF WaitNow, WakeUp, WakeUpKeep, WakeUpThread, fiberVars, loopVars, wakeVars
<1>8. CASE UNCHANGED vars
  BY <1>8, <1>1 DEF vars, fiberVars, loopVars, wakeVars
<1> HIDE DEF TypeInv, TypeOK, Held, Callers, Agents, PcValues, Awake
<1> QED BY <1>2, <1>3, <1>4, <1>5, <1>6, <1>7, <1>8 DEF Next

(* A fiber reaches the queue of a sleeping thread only through swapIn by   *)
(* another thread, which then owes the signal; the signal writes to the    *)
(* pipe, and only the thread itself, waking, drains it.                    *)
LEMMA NextNoMissedSignal ==
    TypeInv /\ Awake /\ NoMissedSignal /\ [Next]_vars => NoMissedSignal'
<1> DEFINE Owed(t) == pipe[t] \/ \E a \in Agents : wake[a] = "signal" /\ Home[target[a]] = t
<1> SUFFICES ASSUME TypeInv, Awake, NoMissedSignal, [Next]_vars,
                    NEW t \in Threads, pc'[t] = "idle", runq'[t] # <<>>
             PROVE  Owed(t)'
  BY DEF NoMissedSignal
<1> USE FiberBlockerAssumption DEF TypeInv, TypeOK, Held, Callers, Agents, PcValues, Awake
<1>1. pc[t] = "idle" /\ runq[t] # <<>> => Owed(t)
  BY DEF NoMissedSignal
<1>2. CASE UNCHANGED <<runq, pc, pipe, wakeVars>>
  BY <1>1, <1>2 DEF wakeVars
<1>3. ASSUME NEW f \in Fibers, Dispatch(f) PROVE Owed(t)'
  BY <1>3 DEF Dispatch
<1>4. ASSUME NEW u \in Threads, DispatchLoop(u) \/ IdleTimeout(u) PROVE Owed(t)'
  <2>1. ASSUME NEW f \in Fibers, TimeEventProc(u, f) PROVE Owed(t)'
    BY <1>1, <2>1 DEF TimeEventProc, loopVars
  <2>2. CASE UNCHANGED wakeVars
    <3>1. u # t
      BY <1>4, <2>2 DEF DispatchLoop, Start, Poll, PollEmpty, OnceProcessEvents, IdleTimeout,
                EventsDone, TimeEventProc, Requeue, SwapOutFalse, SwapOutTrue, Reap, loopVars, wakeVars
    <3>2. pc'[t] = pc[t] /\ runq'[t] = runq[t] /\ pipe'[t] = pipe[t]
      BY <1>4, <3>1 DEF DispatchLoop, Start, Poll, PollEmpty, OnceProcessEvents, IdleTimeout,
                EventsDone, TimeEventProc, Requeue, SwapOutFalse, SwapOutTrue, Reap, loopVars
    <3> QED BY <1>1, <2>2, <3>2 DEF wakeVars
  <2> QED BY <1>4, <2>1, <2>2
          DEF DispatchLoop, Start, Poll, PollEmpty, OnceProcessEvents, IdleTimeout,
              EventsDone, Requeue, SwapOutFalse, SwapOutTrue, Reap
<1>5. ASSUME NEW f \in Fibers, FiberCall(f) PROVE Owed(t)'
  <2>1. UNCHANGED <<runq, pipe, wakeVars>>
    BY <1>5 DEF FiberCall, WaitReturn, TimedReturn, Yield, Finish, FiberWait, loopVars
  <2>2. pc' = pc \/ pc' = [pc EXCEPT ![Home[f]] = "switch"]
    BY <1>5 DEF FiberCall, WaitReturn, TimedReturn, Yield, Finish, FiberWait, loopVars
  <2>3. pc'[t] = "idle" => pc[t] = "idle"
    BY <2>2
  <2> QED BY <1>1, <2>1, <2>3 DEF wakeVars
<1>6. ASSUME NEW a \in Agents, SwapInRead(a) \/ SwapInClear(a) PROVE Owed(t)'
  BY <1>1, <1>6 DEF SwapInRead, SwapInClear, loopVars
<1>7. ASSUME NEW a \in Agents, SwapInAdd(a) PROVE Owed(t)'
  <2>1. CASE Home[target[a]] = t
    <3>1. a # t
      BY <1>7 DEF SwapInAdd
    <3> QED BY <1>7, <2>1, <3>1 DEF SwapInAdd, MustSignal
  <2>2. CASE Home[target[a]] # t
    BY <1>1, <1>7, <2>2 DEF SwapInAdd
  <2> QED BY <2>1, <2>2
<1>8. ASSUME NEW a \in Agents, Signal(a) PROVE Owed(t)'
  BY <1>1, <1>8 DEF Signal
<1>9. ASSUME NEW o \in Outsiders, ThreadCall(o) PROVE Owed(t)'
  BY <1>9, <1>2 DEF ThreadCall, ThreadReturn, ThreadTimeout, ThreadWait, loopVars
<1>10. ASSUME NEW c \in Callers, NEW b \in Blockers, WaitNow(c, b) \/ WakeUp(c, b)
       PROVE  Owed(t)'
  <2>1. CASE WakeUpFiber(c, b)
    BY <1>1, <2>1 DEF WakeUpFiber, Free, Runs, AgentOf, loopVars
  <2> QED BY <1>10, <1>2, <2>1
          DEF WaitNow, WakeUp, WakeUpKeep, WakeUpThread, loopVars
<1>11. CASE UNCHANGED vars
  BY <1>11, <1>2 DEF vars, loopVars
<1> HIDE DEF TypeInv, TypeOK, Held, Callers, Agents, PcValues, Awake, Owed
<1>12. ASSUME NEW a \in Agents, Waker(a) PROVE Owed(t)'
  BY <1>12, <1>6, <1>7, <1>8 DEF Waker
<1> QED BY <1>3, <1>4, <1>5, <1>9, <1>10, <1>11, <1>12 DEF Next

(* No wake-up from another thread is missed: a thread asleep with a fiber  *)
(* to run has a byte in its pipe, or a waker is about to write one.        *)
THEOREM NoMissedSignalHolds == Spec => []NoMissedSignal
<1>1. Init => Awake
  BY DEF Init, Awake, Agents
<1>2. Init => NoMissedSignal
  BY DEF Init, NoMissedSignal
<1> QED
  BY <1>1, <1>2, InitTypeInv, NextTypeInv, NextAwake, NextNoMissedSignal, PTL DEF Spec

-----------------------------------------------------------------------------
(* The queues, as the sets of what is in them.                             *)

Once(s) == \A i, j \in 1..Len(s) : s[i] = s[j] => i = j

LEMMA AppendFacts ==
    ASSUME NEW S, NEW s \in Seq(S), NEW e \in S
    PROVE  /\ \A x : InSeq(x, Append(s, e)) <=> InSeq(x, s) \/ x = e
           /\ Once(s) /\ ~InSeq(e, s) => Once(Append(s, e))
<1>1. /\ Len(Append(s, e)) = Len(s) + 1
      /\ \A i \in 1..Len(s) : Append(s, e)[i] = s[i]
      /\ Append(s, e)[Len(s) + 1] = e
  BY AppendProperties
<1>2. Len(s) \in Nat
  BY LenProperties
<1>3. \A x : InSeq(x, Append(s, e)) <=> InSeq(x, s) \/ x = e
  BY <1>1, <1>2 DEF InSeq
<1>4. Once(s) /\ ~InSeq(e, s) => Once(Append(s, e))
  BY <1>1, <1>2 DEF InSeq, Once
<1> QED BY <1>3, <1>4

LEMMA TailFacts ==
    ASSUME NEW S, NEW s \in Seq(S), s # <<>>, Once(s)
    PROVE  /\ Head(s) \in S /\ InSeq(Head(s), s)
           /\ Once(Tail(s))
           /\ \A x : InSeq(x, Tail(s)) <=> InSeq(x, s) /\ x # Head(s)
<1>1. /\ Head(s) \in S /\ Head(s) = s[1] /\ Len(Tail(s)) = Len(s) - 1
      /\ \A i \in 1..Len(Tail(s)) : Tail(s)[i] = s[i + 1]
  BY HeadTailProperties
<1>2. Len(s) \in Nat /\ Len(s) # 0
  BY LenProperties, EmptySeq
<1>3. InSeq(Head(s), s)
  BY <1>1, <1>2 DEF InSeq
<1>4. Once(Tail(s))
  BY <1>1, <1>2 DEF Once
<1>5. ASSUME NEW x PROVE InSeq(x, Tail(s)) <=> InSeq(x, s) /\ x # Head(s)
  <2>1. ASSUME NEW i \in 1..Len(Tail(s)), Tail(s)[i] = x PROVE InSeq(x, s) /\ x # Head(s)
    BY <1>1, <1>2, <2>1 DEF InSeq, Once
  <2>2. ASSUME NEW i \in 1..Len(s), s[i] = x, x # Head(s) PROVE InSeq(x, Tail(s))
    <3>1. i - 1 \in 1..Len(Tail(s)) /\ Tail(s)[i - 1] = x
      BY <1>1, <1>2, <2>2
    <3> QED BY <3>1 DEF InSeq
  <2> QED BY <2>1, <2>2 DEF InSeq
<1> QED BY <1>1, <1>3, <1>4, <1>5

LEMMA WithdrawnFacts ==
    ASSUME NEW S, NEW s \in Seq(S), NEW e, Once(s)
    PROVE  /\ Once(Withdrawn(s, e))
           /\ \A x : InSeq(x, Withdrawn(s, e)) <=> InSeq(x, s) /\ x # e
<1>1. CASE ~InSeq(e, s)
  BY <1>1 DEF Withdrawn
<1>2. CASE InSeq(e, s)
  <2> DEFINE w == Withdrawn(s, e)
  <2>1. PICK k \in 1..Len(s) : s[k] = e /\ k = CHOOSE j \in 1..Len(s) : s[j] = e
    BY <1>2 DEF InSeq
  <2>2. Len(s) \in Nat /\ k \in Nat /\ k - 1 \in Int /\ k + 1 \in Int /\ Len(s) \in Int
    BY LenProperties
  <2>3. \A j \in 1..Len(s) : s[j] \in S
    BY LenProperties
  <2>4. /\ SubSeq(s, 1, k - 1) \in Seq(S)
        /\ Len(SubSeq(s, 1, k - 1)) = k - 1
        /\ \A i \in 1..(k - 1) : SubSeq(s, 1, k - 1)[i] = s[i]
    <3>1. \A j \in 1..(k - 1) : s[j] \in S
      BY <2>2, <2>3
    <3> QED BY <2>2, <3>1, SubSeqProperties
  <2>5. /\ SubSeq(s, k + 1, Len(s)) \in Seq(S)
        /\ Len(SubSeq(s, k + 1, Len(s))) = Len(s) - k
        /\ \A i \in 1..(Len(s) - k) : SubSeq(s, k + 1, Len(s))[i] = s[k + i]
    <3>1. \A j \in (k + 1)..Len(s) : s[j] \in S
      BY <2>2, <2>3
    <3> QED BY <2>2, <3>1, SubSeqProperties
  <2>6. w = SubSeq(s, 1, k - 1) \o SubSeq(s, k + 1, Len(s))
    BY <1>2, <2>1 DEF Withdrawn, RemoveAt
  <2>7. /\ Len(w) = Len(s) - 1
        /\ \A i \in 1..Len(w) : w[i] = IF i < k THEN s[i] ELSE s[i + 1]
    <3> DEFINE l == SubSeq(s, 1, k - 1)
               r == SubSeq(s, k + 1, Len(s))
    <3> HIDE DEF w, l, r
    <3>1. /\ l \in Seq(S) /\ r \in Seq(S) /\ w = l \o r
          /\ Len(l) = k - 1 /\ Len(r) = Len(s) - k
      BY <2>4, <2>5, <2>6 DEF l, r
    <3>2. /\ Len(l \o r) = Len(l) + Len(r)
          /\ \A i \in 1..(Len(l) + Len(r)) :
                (l \o r)[i] = IF i <= Len(l) THEN l[i] ELSE r[i - Len(l)]
      BY <3>1, ConcatProperties
    <3>3. /\ Len(w) = (k - 1) + (Len(s) - k)
          /\ \A i \in 1..Len(w) : w[i] = IF i <= k - 1 THEN l[i] ELSE r[i - (k - 1)]
      BY <3>1, <3>2
    <3> USE DEF l, r
    <3>4. ASSUME NEW i \in 1..Len(w) PROVE w[i] = IF i < k THEN s[i] ELSE s[i + 1]
      <4>1. CASE i < k
        BY <2>2, <2>4, <3>3, <4>1
      <4>2. CASE ~(i < k)
        <5>1. i - (k - 1) \in 1..(Len(s) - k) /\ k + (i - (k - 1)) = i + 1
          BY <2>2, <3>3, <4>2
        <5> QED BY <2>2, <2>5, <3>3, <4>2, <5>1
      <4> QED BY <4>1, <4>2
    <3> QED BY <2>2, <3>3, <3>4
  <2> HIDE DEF w
  <2>8. Once(w)
    BY <2>2, <2>7 DEF Once
  <2>9. ASSUME NEW x PROVE InSeq(x, w) <=> InSeq(x, s) /\ x # e
    <3>1. ASSUME NEW i \in 1..Len(w), w[i] = x PROVE InSeq(x, s) /\ x # e
      <4>1. CASE i < k
        BY <2>1, <2>2, <2>7, <3>1, <4>1 DEF InSeq, Once
      <4>2. CASE ~(i < k)
        <5>1. i + 1 \in 1..Len(s) /\ s[i + 1] = x /\ i + 1 # k
          BY <2>2, <2>7, <3>1, <4>2
        <5> QED BY <2>1, <5>1 DEF InSeq, Once
      <4> QED BY <4>1, <4>2
    <3>2. ASSUME NEW i \in 1..Len(s), s[i] = x, x # e PROVE InSeq(x, w)
      <4>1. CASE i < k
        BY <2>1, <2>2, <2>7, <3>2, <4>1 DEF InSeq
      <4>2. CASE i > k
        <5>1. i - 1 \in 1..Len(w) /\ w[i - 1] = x
          BY <2>2, <2>7, <3>2, <4>2
        <5> QED BY <5>1 DEF InSeq
      <4>3. i # k
        BY <2>1, <3>2
      <4> QED BY <2>2, <4>1, <4>2, <4>3
    <3> QED BY <3>1, <3>2 DEF InSeq
  <2> QED BY <2>8, <2>9 DEF w
<1> QED BY <1>1, <1>2

-----------------------------------------------------------------------------
(* Where the fibers are, when their code neither waits with a timeout nor  *)
(* calls yield(): on any number of threads, a fiber is in one place.       *)

Plain == "timedWait" \notin Ops /\ "yield" \notin Ops

Queued(f) == InSeq(f, runq[Home[f]])
Waking(a, f) == wake[a] \in {"check", "clear", "add"} /\ target[a] = f

\* On its thread's queue or with its loop, never both.
OnThread ==
    /\ \A t \in Threads : Once(runq[t])
    /\ \A f \in Fibers : \A t \in Threads \ {Home[f]} : ~InSeq(f, runq[t]) /\ cur[t] # f
    /\ \A f \in Fibers : Queued(f) => ~OnLoop(f)
    /\ \A f \in Fibers :
           /\ state[f] \in {"NEW", "TERMINATED"} => ~Queued(f) /\ waitsOn[f] = None
           /\ state[f] = "NEW" => ~OnLoop(f)
           /\ state[f] = "TERMINATED" /\ OnLoop(f) => pc[Home[f]] = "switch"

\* Waiting or being woken: BLOCKED, inside a call, and nowhere else.
Parked(f) ==
    state[f] = "BLOCKED" /\ waitsOn[f] # None /\ ~Queued(f) /\ ~OnLoop(f)

OnQueue ==
    /\ \A b \in Blockers : Once(waitQueue[b])
    /\ \A f \in Fibers, b \in Blockers :
           InSeq(f, waitQueue[b]) =>
               waitsOn[f] = b /\ Parked(f) /\ \A a \in Agents : ~Waking(a, f)

InHands ==
    \A f \in Fibers, a \in Agents :
        Waking(a, f) => Parked(f) /\ \A e \in Agents : Waking(e, f) => e = a

LoopShape ==
    \A t \in Threads :
        /\ pc[t] \in {"new", "poll", "idle"} => cur[t] = None
        /\ pc[t] = "switch" =>
               \/ state[cur[t]] = "TERMINATED"
               \/ state[cur[t]] = "BLOCKED" /\ blocker[cur[t]] = waitsOn[cur[t]]
                                            /\ waitsOn[cur[t]] # None

NoTimers == \A f \in Fibers : ~timer[f] /\ ~timed[f]

\* A plain thread is on the queue of the blocker it waits on until it is
\* notified.
Sleepers ==
    \A o \in Outsiders :
        /\ waitsOn[o] = None => ~passed[o]
        /\ \A b \in Blockers : InSeq(o, waitQueue[b]) <=> waitsOn[o] = b /\ ~passed[o]

Places == OnThread /\ OnQueue /\ InHands /\ LoopShape /\ NoTimers /\ Sleepers
PlainInv == TypeInv /\ Awake /\ Places /\ NoFiberLost

HasPlace(f) ==
    \/ state[f] \in {"NEW", "TERMINATED"}
    \/ Queued(f) \/ OnLoop(f) \/ Resuming(f)
    \/ waitsOn[f] # None /\ InSeq(f, waitQueue[waitsOn[f]])

(* Every step takes a fiber from one place to the next.                    *)
LEMMA NextPlaces ==
    TypeInv /\ Awake /\ Places /\ NoFiberLost /\ Plain /\ [Next]_vars => Places' /\ NoFiberLost'
<1> DEFINE Goal == Places /\ NoFiberLost
<1> SUFFICES ASSUME TypeInv, Awake, Places, NoFiberLost, Plain, [Next]_vars PROVE Goal'
  OBVIOUS
<1> USE FiberBlockerAssumption
    DEF TypeInv, TypeOK, Held, Callers, Agents, Places, OnThread, OnQueue, InHands, LoopShape,
        NoTimers, Sleepers, NoFiberLost, HasPlace, Parked, Queued, Waking, OnLoop, Resuming,
        Plain, Awake, blockerVars, fiberVars, loopVars, wakeVars, callVars
<1>1. ASSUME NEW f \in Fibers, Dispatch(f) PROVE Goal'
  <2>1. /\ Once(Append(runq[Home[f]], f))
        /\ \A x : InSeq(x, Append(runq[Home[f]], f)) <=> InSeq(x, runq[Home[f]]) \/ x = f
    BY <1>1, AppendFacts DEF Dispatch
  <2>2. OnThread'
    BY <1>1, <2>1 DEF Dispatch
  <2>3. OnQueue'
    BY <1>1, <2>1 DEF Dispatch
  <2>4. InHands'
    BY <1>1, <2>1 DEF Dispatch
  <2>5. (LoopShape /\ NoTimers)'
    BY <1>1, <2>1 DEF Dispatch
  <2>6. Sleepers'
    BY <1>1, <2>1 DEF Dispatch
  <2>7. ASSUME NEW g \in Fibers PROVE HasPlace(g)'
    BY <1>1, HasPlace(g), <2>1 DEF Dispatch
  <2> QED BY <2>2, <2>3, <2>4, <2>5, <2>6, <2>7
<1>2. ASSUME NEW t \in Threads, Start(t) PROVE Goal'
  <2>1. Places'
    BY <1>2 DEF Start
  <2>2. ASSUME NEW g \in Fibers PROVE HasPlace(g)'
    BY <1>2, HasPlace(g) DEF Start
  <2> QED BY <2>1, <2>2
<1>3. ASSUME NEW t \in Threads, Poll(t) PROVE Goal'
  <2>1. /\ InSeq(Head(runq[t]), runq[t])
        /\ Once(Tail(runq[t]))
        /\ \A x : InSeq(x, Tail(runq[t])) <=> InSeq(x, runq[t]) /\ x # Head(runq[t])
    BY <1>3, TailFacts DEF Poll
  <2>2. Head(runq[t]) \in Fibers
    BY <1>3, <2>1, TailFacts DEF Poll
  <2>3. Home[Head(runq[t])] = t
    BY <1>3, <2>1, <2>2 DEF Poll
  <2>4. OnThread'
    BY <1>3, <2>1, <2>2, <2>3 DEF Poll
  <2>5. OnQueue'
    BY <1>3, <2>1, <2>2, <2>3 DEF Poll
  <2>6. InHands'
    BY <1>3, <2>1, <2>2, <2>3 DEF Poll
  <2>7. (LoopShape /\ NoTimers)'
    BY <1>3, <2>1, <2>2, <2>3 DEF Poll
  <2>8. Sleepers'
    BY <1>3, <2>1, <2>2, <2>3 DEF Poll
  <2>9. ASSUME NEW g \in Fibers PROVE HasPlace(g)'
    BY <1>3, HasPlace(g), <2>1, <2>2, <2>3 DEF Poll
  <2> QED BY <2>4, <2>5, <2>6, <2>7, <2>8, <2>9
<1>4. ASSUME NEW t \in Threads, PollEmpty(t) PROVE Goal'
  <2>1. Places'
    BY <1>4 DEF PollEmpty
  <2>2. ASSUME NEW g \in Fibers PROVE HasPlace(g)'
    BY <1>4, HasPlace(g) DEF PollEmpty
  <2> QED BY <2>1, <2>2
<1>5. ASSUME NEW t \in Threads, OnceProcessEvents(t) PROVE Goal'
  <2>1. Places'
    BY <1>5 DEF OnceProcessEvents
  <2>2. ASSUME NEW g \in Fibers PROVE HasPlace(g)'
    BY <1>5, HasPlace(g) DEF OnceProcessEvents
  <2> QED BY <2>1, <2>2
<1>6. ASSUME NEW t \in Threads, IdleTimeout(t) PROVE Goal'
  <2>1. Places'
    BY <1>6 DEF IdleTimeout
  <2>2. ASSUME NEW g \in Fibers PROVE HasPlace(g)'
    BY <1>6, HasPlace(g) DEF IdleTimeout
  <2> QED BY <2>1, <2>2
<1>7. ASSUME NEW t \in Threads, NEW f \in Fibers, TimeEventProc(t, f) PROVE Goal'
  BY <1>7 DEF TimeEventProc
<1>8. ASSUME NEW t \in Threads, EventsDone(t) PROVE Goal'
  <2>1. Places'
    BY <1>8 DEF EventsDone
  <2>2. ASSUME NEW g \in Fibers PROVE HasPlace(g)'
    BY <1>8, HasPlace(g) DEF EventsDone
  <2> QED BY <2>1, <2>2
<1>9. ASSUME NEW t \in Threads, Requeue(t) PROVE Goal'
  <2>1. cur[t] \in Fibers /\ Home[cur[t]] = t /\ ~InSeq(cur[t], runq[t])
    BY <1>9 DEF Requeue
  <2>2. /\ Once(Append(runq[t], cur[t]))
        /\ \A x : InSeq(x, Append(runq[t], cur[t])) <=> InSeq(x, runq[t]) \/ x = cur[t]
    BY <1>9, <2>1, AppendFacts DEF Requeue
  <2>3. OnThread'
    BY <1>9, <2>1, <2>2 DEF Requeue
  <2>4. OnQueue'
    BY <1>9, <2>1, <2>2 DEF Requeue
  <2>5. InHands'
    BY <1>9, <2>1, <2>2 DEF Requeue
  <2>6. (LoopShape /\ NoTimers)'
    BY <1>9, <2>1, <2>2 DEF Requeue
  <2>7. Sleepers'
    BY <1>9, <2>1, <2>2 DEF Requeue
  <2>8. ASSUME NEW g \in Fibers PROVE HasPlace(g)'
    BY <1>9, HasPlace(g), <2>1, <2>2 DEF Requeue
  <2> QED BY <2>3, <2>4, <2>5, <2>6, <2>7, <2>8
<1>10. ASSUME NEW t \in Threads, SwapOutFalse(t) PROVE Goal'
  <2>1. Places'
    BY <1>10 DEF SwapOutFalse
  <2>2. ASSUME NEW g \in Fibers PROVE HasPlace(g)'
    BY <1>10, HasPlace(g) DEF SwapOutFalse
  <2> QED BY <2>1, <2>2
<1>11. ASSUME NEW t \in Threads, SwapOutTrue(t) PROVE Goal'
  <2>1. cur[t] \in Fibers /\ Home[cur[t]] = t
    BY <1>11 DEF SwapOutTrue
  <2>2. blocker[cur[t]] = waitsOn[cur[t]] /\ blocker[cur[t]] \in Blockers
    <3>1. pc[t] = "switch" /\ state[cur[t]] # "TERMINATED" /\ blocker[cur[t]] # None
      BY <1>11 DEF SwapOutTrue
    <3>2. blocker[cur[t]] = waitsOn[cur[t]]
      BY <3>1
    <3> QED BY <2>1, <3>1, <3>2
  <2>3. ~InSeq(cur[t], waitQueue[blocker[cur[t]]])
    BY <1>11, <2>1, <2>2 DEF SwapOutTrue
  <2>4. LET q == waitQueue[blocker[cur[t]]]
        IN  /\ Once(Append(q, cur[t]))
            /\ \A x : InSeq(x, Append(q, cur[t])) <=> InSeq(x, q) \/ x = cur[t]
    BY <1>11, <2>1, <2>2, <2>3, AppendFacts DEF SwapOutTrue
  <2>5. OnThread'
    BY <1>11, <2>1, <2>2, <2>3, <2>4 DEF SwapOutTrue
  <2>6. OnQueue'
    BY <1>11, <2>1, <2>2, <2>3, <2>4 DEF SwapOutTrue
  <2>7. InHands'
    BY <1>11, <2>1, <2>2, <2>3, <2>4 DEF SwapOutTrue
  <2>8. (LoopShape /\ NoTimers)'
    BY <1>11, <2>1, <2>2, <2>3, <2>4 DEF SwapOutTrue
  <2>9. Sleepers'
    BY <1>11, <2>1, <2>2, <2>3, <2>4 DEF SwapOutTrue
  <2>10. ASSUME NEW g \in Fibers PROVE HasPlace(g)'
    BY <1>11, HasPlace(g), <2>1, <2>2, <2>3, <2>4 DEF SwapOutTrue
  <2> QED BY <2>5, <2>6, <2>7, <2>8, <2>9, <2>10
<1>12. ASSUME NEW t \in Threads, Reap(t) PROVE Goal'
  <2>1. Places'
    BY <1>12 DEF Reap
  <2>2. ASSUME NEW g \in Fibers PROVE HasPlace(g)'
    BY <1>12, HasPlace(g) DEF Reap
  <2> QED BY <2>1, <2>2
<1>13. ASSUME NEW c \in Callers, NEW b \in Blockers, WaitNow(c, b) PROVE Goal'
  <2>1. c \in Fibers => OnLoop(c) /\ ~Queued(c) /\ state[c] # "TERMINATED"
    BY <1>13 DEF WaitNow, Free, Runs
  <2>2. waitsOn[c] = None /\ c \in Callers
    BY <1>13, <2>1 DEF WaitNow, Free, Runs
  <2>3. OnThread'
    BY <1>13, <2>1, <2>2 DEF WaitNow, Free, Runs
  <2>4. OnQueue'
    BY <1>13, <2>1, <2>2 DEF WaitNow, Free, Runs
  <2>5. InHands'
    BY <1>13, <2>1, <2>2 DEF WaitNow, Free, Runs
  <2>6. (LoopShape /\ NoTimers)'
    BY <1>13, <2>1, <2>2 DEF WaitNow, Free, Runs
  <2>7. ASSUME NEW o \in Outsiders
        PROVE  /\ waitsOn'[o] = None => ~passed'[o]
               /\ \A d \in Blockers : InSeq(o, waitQueue'[d]) <=> waitsOn'[o] = d /\ ~passed'[o]
    <3>1. waitQueue' = waitQueue /\ (passed'[o] <=> passed[o] \/ o = c)
      BY <1>13 DEF WaitNow
    <3>2. CASE o = c
      BY <1>13, <2>2, <3>1, <3>2 DEF WaitNow
    <3>3. CASE o # c
      BY <1>13, <3>1, <3>3 DEF WaitNow
    <3> QED BY <3>2, <3>3
  <2>8. ASSUME NEW g \in Fibers PROVE HasPlace(g)'
    BY <1>13, HasPlace(g), <2>1, <2>2 DEF WaitNow, Free, Runs
  <2> QED BY <2>3, <2>4, <2>5, <2>6, <2>7, <2>8
<1>14. ASSUME NEW f \in Fibers, NEW b \in Blockers, NEW tm \in BOOLEAN, FiberWait(f, b, tm) PROVE Goal'
  <2>1. Places'
    BY <1>14 DEF FiberWait, Free, Runs
  <2>2. ASSUME NEW g \in Fibers PROVE HasPlace(g)'
    BY <1>14, HasPlace(g) DEF FiberWait, Free, Runs
  <2> QED BY <2>1, <2>2
<1>15. ASSUME NEW f \in Fibers, WaitReturn(f) PROVE Goal'
  <2>1. Places'
    BY <1>15 DEF WaitReturn, Runs
  <2>2. ASSUME NEW g \in Fibers PROVE HasPlace(g)'
    BY <1>15, HasPlace(g) DEF WaitReturn, Runs
  <2> QED BY <2>1, <2>2
<1>16. ASSUME NEW f \in Fibers, TimedReturn(f) PROVE Goal'
  BY <1>16 DEF TimedReturn
<1>17. ASSUME NEW f \in Fibers, Yield(f) PROVE Goal'
  BY <1>17 DEF Yield
<1>18. ASSUME NEW f \in Fibers, Finish(f) PROVE Goal'
  <2>1. Places'
    BY <1>18 DEF Finish, Free, Runs
  <2>2. ASSUME NEW g \in Fibers PROVE HasPlace(g)'
    BY <1>18, HasPlace(g) DEF Finish, Free, Runs
  <2> QED BY <2>1, <2>2
<1>19. ASSUME NEW o \in Outsiders, NEW b \in Blockers, NEW tm \in BOOLEAN, ThreadWait(o, b, tm) PROVE Goal'
  <2>1. ~InSeq(o, waitQueue[b])
    BY <1>19 DEF ThreadWait, Free
  <2>2. /\ Once(Append(waitQueue[b], o))
        /\ \A x : InSeq(x, Append(waitQueue[b], o)) <=> InSeq(x, waitQueue[b]) \/ x = o
    BY <1>19, <2>1, AppendFacts DEF ThreadWait, Free
  <2>3. OnThread'
    BY <1>19, <2>1, <2>2 DEF ThreadWait, Free
  <2>4. OnQueue'
    BY <1>19, <2>1, <2>2 DEF ThreadWait, Free
  <2>5. InHands'
    BY <1>19, <2>1, <2>2 DEF ThreadWait, Free
  <2>6. (LoopShape /\ NoTimers)'
    BY <1>19, <2>1, <2>2 DEF ThreadWait, Free
  <2>7. Sleepers'
    BY <1>19, <2>1, <2>2 DEF ThreadWait, Free
  <2>8. ASSUME NEW g \in Fibers PROVE HasPlace(g)'
    BY <1>19, HasPlace(g), <2>1, <2>2 DEF ThreadWait, Free
  <2> QED BY <2>3, <2>4, <2>5, <2>6, <2>7, <2>8
<1>20. ASSUME NEW o \in Outsiders, ThreadReturn(o) PROVE Goal'
  <2>1. Places'
    BY <1>20 DEF ThreadReturn
  <2>2. ASSUME NEW g \in Fibers PROVE HasPlace(g)'
    BY <1>20, HasPlace(g) DEF ThreadReturn
  <2> QED BY <2>1, <2>2
<1>21. ASSUME NEW o \in Outsiders, ThreadTimeout(o) PROVE Goal'
  <2>1. LET q == waitQueue[waitsOn[o]]
        IN  /\ Once(Withdrawn(q, o))
            /\ \A x : InSeq(x, Withdrawn(q, o)) <=> InSeq(x, q) /\ x # o
    BY <1>21, WithdrawnFacts DEF ThreadTimeout
  <2>2. OnThread'
    BY <1>21, <2>1 DEF ThreadTimeout
  <2>3. OnQueue'
    BY <1>21, <2>1 DEF ThreadTimeout
  <2>4. InHands'
    BY <1>21, <2>1 DEF ThreadTimeout
  <2>5. (LoopShape /\ NoTimers)'
    BY <1>21, <2>1 DEF ThreadTimeout
  <2>6. Sleepers'
    BY <1>21, <2>1 DEF ThreadTimeout
  <2>7. ASSUME NEW g \in Fibers PROVE HasPlace(g)'
    BY <1>21, HasPlace(g), <2>1 DEF ThreadTimeout
  <2> QED BY <2>2, <2>3, <2>4, <2>5, <2>6, <2>7
<1>22. ASSUME NEW c \in Callers, NEW b \in Blockers, WakeUpKeep(c, b) PROVE Goal'
  <2>1. Places'
    BY <1>22 DEF WakeUpKeep
  <2>2. ASSUME NEW g \in Fibers PROVE HasPlace(g)'
    BY <1>22, HasPlace(g) DEF WakeUpKeep
  <2> QED BY <2>1, <2>2
<1>23. ASSUME NEW c \in Callers, NEW b \in Blockers, WakeUpThread(c, b) PROVE Goal'
  <2>1. /\ InSeq(Head(waitQueue[b]), waitQueue[b])
        /\ Once(Tail(waitQueue[b]))
        /\ \A x : InSeq(x, Tail(waitQueue[b])) <=> InSeq(x, waitQueue[b]) /\ x # Head(waitQueue[b])
    BY <1>23, TailFacts DEF WakeUpThread
  <2>2. OnThread'
    BY <1>23, <2>1 DEF WakeUpThread
  <2>3. OnQueue'
    BY <1>23, <2>1 DEF WakeUpThread
  <2>4. InHands'
    BY <1>23, <2>1 DEF WakeUpThread
  <2>5. (LoopShape /\ NoTimers)'
    BY <1>23, <2>1 DEF WakeUpThread
  <2>6. Sleepers'
    BY <1>23, <2>1 DEF WakeUpThread
  <2>7. ASSUME NEW g \in Fibers PROVE HasPlace(g)'
    BY <1>23, HasPlace(g), <2>1 DEF WakeUpThread
  <2> QED BY <2>2, <2>3, <2>4, <2>5, <2>6, <2>7
<1>24. ASSUME NEW c \in Callers, NEW b \in Blockers, WakeUpFiber(c, b) PROVE Goal'
  <2>1. /\ InSeq(Head(waitQueue[b]), waitQueue[b])
        /\ Once(Tail(waitQueue[b]))
        /\ \A x : InSeq(x, Tail(waitQueue[b])) <=> InSeq(x, waitQueue[b]) /\ x # Head(waitQueue[b])
    BY <1>24, TailFacts DEF WakeUpFiber, Free, Runs, AgentOf
  <2>2. AgentOf(c) \in Agents /\ wake[AgentOf(c)] = "none"
    BY <1>24, <2>1 DEF WakeUpFiber, Free, Runs, AgentOf
  <2>3. OnThread'
    BY <1>24 DEF WakeUpFiber
  <2>4. OnQueue'
    <3>1. \A d \in Blockers : Once(waitQueue'[d])
      BY <1>24, <2>1 DEF WakeUpFiber
    <3>2. ASSUME NEW f \in Fibers, NEW d \in Blockers, InSeq(f, waitQueue'[d])
          PROVE  /\ waitsOn'[f] = d /\ Parked(f)'
                 /\ \A a \in Agents : ~(Waking(a, f)')
      <4>1. InSeq(f, waitQueue[d]) /\ f # Head(waitQueue[b])
        BY <1>24, <2>1, <3>2 DEF WakeUpFiber
      <4>2. waitsOn[f] = d /\ Parked(f) /\ \A a \in Agents : ~Waking(a, f)
        BY <4>1
      <4>3. waitsOn'[f] = d /\ Parked(f)'
        BY <1>24, <4>2 DEF WakeUpFiber
      <4>4. \A a \in Agents : ~(Waking(a, f)')
        BY <1>24, <2>2, <4>1, <4>2 DEF WakeUpFiber
      <4> QED BY <4>3, <4>4
    <3> QED BY <3>1, <3>2
  <2>5. InHands'
    BY <1>24, <2>1, <2>2 DEF WakeUpFiber, Free, Runs, AgentOf
  <2>6. (LoopShape /\ NoTimers)'
    BY <1>24, <2>1, <2>2 DEF WakeUpFiber, Free, Runs, AgentOf
  <2>7. ASSUME NEW o \in Outsiders
        PROVE  /\ waitsOn'[o] = None => ~passed'[o]
               /\ \A d \in Blockers : InSeq(o, waitQueue'[d]) <=> waitsOn'[o] = d /\ ~passed'[o]
    <3>1. waitsOn' = waitsOn /\ passed' = passed /\ o # Head(waitQueue[b])
      BY <1>24 DEF WakeUpFiber
    <3>2. \A d \in Blockers : InSeq(o, waitQueue'[d]) <=> InSeq(o, waitQueue[d])
      BY <1>24, <2>1, <3>1 DEF WakeUpFiber
    <3> QED BY <3>1, <3>2
  <2>8. ASSUME NEW g \in Fibers PROVE HasPlace(g)'
    BY <1>24, HasPlace(g), <2>1, <2>2 DEF WakeUpFiber, Free, Runs, AgentOf
  <2> QED BY <2>3, <2>4, <2>5, <2>6, <2>7, <2>8
<1>25. ASSUME NEW a \in Agents, SwapInRead(a) PROVE Goal'
  <2>1. Places'
    BY <1>25 DEF SwapInRead, Resumable
  <2>2. ASSUME NEW g \in Fibers PROVE HasPlace(g)'
    BY <1>25, HasPlace(g) DEF SwapInRead, Resumable
  <2> QED BY <2>1, <2>2
<1>26. ASSUME NEW a \in Agents, SwapInClear(a) PROVE Goal'
  <2>1. Places'
    BY <1>26 DEF SwapInClear
  <2>2. ASSUME NEW g \in Fibers PROVE HasPlace(g)'
    BY <1>26, HasPlace(g) DEF SwapInClear
  <2> QED BY <2>1, <2>2
<1>27. ASSUME NEW a \in Agents, SwapInAdd(a) PROVE Goal'
  <2>1. target[a] \in Fibers /\ Home[target[a]] \in Threads /\ Waking(a, target[a]) /\ Parked(target[a])
    BY <1>27 DEF SwapInAdd
  <2>2. LET q == runq[Home[target[a]]]
        IN  /\ Once(Append(q, target[a]))
            /\ \A x : InSeq(x, Append(q, target[a])) <=> InSeq(x, q) \/ x = target[a]
    BY <1>27, <2>1, AppendFacts DEF SwapInAdd
  <2>3. OnThread'
    BY <1>27, <2>1, <2>2 DEF SwapInAdd
  <2>4. OnQueue'
    BY <1>27, <2>1, <2>2 DEF SwapInAdd
  <2>5. InHands'
    BY <1>27, <2>1, <2>2 DEF SwapInAdd
  <2>6. (LoopShape /\ NoTimers)'
    BY <1>27, <2>1, <2>2 DEF SwapInAdd
  <2>7. Sleepers'
    BY <1>27, <2>1, <2>2 DEF SwapInAdd
  <2>8. ASSUME NEW g \in Fibers PROVE HasPlace(g)'
    BY <1>27, HasPlace(g), <2>1, <2>2 DEF SwapInAdd
  <2> QED BY <2>3, <2>4, <2>5, <2>6, <2>7, <2>8
<1>28. ASSUME NEW a \in Agents, Signal(a) PROVE Goal'
  <2>1. Places'
    BY <1>28 DEF Signal
  <2>2. ASSUME NEW g \in Fibers PROVE HasPlace(g)'
    BY <1>28, HasPlace(g) DEF Signal
  <2> QED BY <2>1, <2>2
<1>29. CASE UNCHANGED vars
  <2>1. Places'
    BY <1>29 DEF vars
  <2>2. ASSUME NEW g \in Fibers PROVE HasPlace(g)'
    BY <1>29, HasPlace(g) DEF vars
  <2> QED BY <2>1, <2>2
<1> HIDE DEF TypeInv, TypeOK, Held, Callers, Agents, Places, OnThread, OnQueue, InHands,
        LoopShape, NoTimers, Sleepers, NoFiberLost, HasPlace, Awake, Goal
<1>30. ASSUME NEW t \in Threads, DispatchLoop(t) PROVE Goal'
  BY <1>30, <1>2, <1>3, <1>4, <1>5, <1>8, <1>7, <1>9, <1>10, <1>11, <1>12 DEF DispatchLoop
<1>31. ASSUME NEW f \in Fibers, FiberCall(f) PROVE Goal'
  BY <1>31, <1>14, <1>15, <1>16, <1>17, <1>18 DEF FiberCall
<1>32. ASSUME NEW o \in Outsiders, ThreadCall(o) PROVE Goal'
  BY <1>32, <1>19, <1>20, <1>21 DEF ThreadCall
<1>33. ASSUME NEW c \in Callers, NEW b \in Blockers, WakeUp(c, b) PROVE Goal'
  BY <1>33, <1>22, <1>23, <1>24 DEF WakeUp
<1>34. ASSUME NEW a \in Agents, Waker(a) PROVE Goal'
  BY <1>34, <1>25, <1>26, <1>27, <1>28 DEF Waker
<1>35. Goal'
  BY <1>1, <1>6, <1>13, <1>29, <1>30, <1>31, <1>32, <1>33, <1>34 DEF Next
<1> QED BY <1>35 DEF Goal

LEMMA InitPlaces == Init => Awake /\ Places /\ NoFiberLost
<1> SUFFICES ASSUME Init PROVE Awake /\ Places /\ NoFiberLost
  OBVIOUS
<1>1. Once(<<>>) /\ \A x : ~InSeq(x, <<>>)
  BY DEF Once, InSeq
<1>2. Awake /\ NoFiberLost
  BY DEF Init, Awake, NoFiberLost, Agents
<1>3. Places
  BY <1>1, FiberBlockerAssumption
     DEF Init, Places, OnThread, OnQueue, InHands, LoopShape, NoTimers, Sleepers, Queued, OnLoop,
         Parked, Waking, Callers, Agents
<1> QED BY <1>2, <1>3

LEMMA PlainInvariant == ASSUME Plain PROVE Spec => []PlainInv
<1>1. Init => PlainInv
  BY InitTypeInv, InitPlaces DEF PlainInv
<1>2. PlainInv /\ [Next]_vars => PlainInv'
  BY NextTypeInv, NextAwake, NextPlaces DEF PlainInv
<1> QED BY <1>1, <1>2, PTL DEF Spec

-----------------------------------------------------------------------------
(* The semaphore, step by step: what happens to the calls of the callers.  *)

GrantedIn == [c \in Callers |-> Granted(c)]

\* Every call but c's is where it was.
OthersGranted(c) == \A d \in Callers \ {c} : Granted(d)' <=> Granted(d)

LEMMA GrantedSame ==
    ASSUME TypeInv, TypeInv', \A c \in Callers : Granted(c)' <=> Granted(c)
    PROVE  GrantedIn' = GrantedIn
<1>1. ASSUME NEW c \in Callers PROVE Granted(c)' = Granted(c)
  <2>1. Granted(c) \in BOOLEAN /\ Granted(c)' \in BOOLEAN
    BY DEF TypeInv, TypeOK, Granted, Callers
  <2> QED BY <2>1
<1> QED BY <1>1 DEF GrantedIn

LEMMA GrantedSet ==
    ASSUME TypeInv, TypeInv', NEW c \in Callers, OthersGranted(c),
           NEW v \in BOOLEAN, Granted(c)' <=> v
    PROVE  GrantedIn' = [GrantedIn EXCEPT ![c] = v]
<1>1. ASSUME NEW d \in Callers PROVE Granted(d)' = IF d = c THEN v ELSE Granted(d)
  <2>1. Granted(d) \in BOOLEAN /\ Granted(d)' \in BOOLEAN
    BY DEF TypeInv, TypeOK, Granted, Callers
  <2> QED BY <2>1 DEF OthersGranted
<1> QED BY <1>1 DEF GrantedIn

\* The steps of the semaphore, from what they do to each caller.
LEMMA AcquireStep ==
    ASSUME TypeInv, TypeInv', NEW c \in Callers, NEW b \in Blockers,
           waitsOn[c] = None, wakeup[b] > 0, wakeup' = [wakeup EXCEPT ![b] = @ - 1],
           waitsOn' = [waitsOn EXCEPT ![c] = b], timed' = timed,
           Granted(c)', OthersGranted(c)
    PROVE  Sem!Acquire(c, b)
<1>1. GrantedIn' = [GrantedIn EXCEPT ![c] = TRUE]
  BY GrantedSet
<1> QED BY <1>1 DEF Sem!Acquire, Sem!Idle, GrantedIn

LEMMA EnterStep ==
    ASSUME TypeInv, TypeInv', NEW c \in Callers, NEW b \in Blockers,
           waitsOn[c] = None, wakeup' = wakeup, waitsOn' = [waitsOn EXCEPT ![c] = b],
           \A d \in Callers \ {c} : timed'[d] = timed[d], timed'[c] => c \in Steady,
           \A d \in Callers : Granted(d)' <=> Granted(d)
    PROVE  \E tm \in BOOLEAN : Sem!Enter(c, b, tm)
<1>1. GrantedIn' = GrantedIn
  BY GrantedSame
<1>2. timed' = [timed EXCEPT ![c] = timed'[c]] /\ timed'[c] \in BOOLEAN
  BY DEF TypeInv, TypeOK
<1>3. Sem!Enter(c, b, timed'[c])
  BY <1>1, <1>2 DEF Sem!Enter, Sem!Idle, GrantedIn
<1> QED BY <1>2, <1>3

LEMMA TakeStep ==
    ASSUME TypeInv, TypeInv', NEW c \in Callers, waitsOn[c] # None,
           wakeup[waitsOn[c]] > 0, wakeup' = [wakeup EXCEPT ![waitsOn[c]] = @ - 1],
           UNCHANGED <<waitsOn, timed>>, ~Granted(c), Granted(c)', OthersGranted(c)
    PROVE  Sem!Take(c)
<1>1. GrantedIn' = [GrantedIn EXCEPT ![c] = TRUE]
  BY GrantedSet
<1> QED BY <1>1 DEF Sem!Take, Sem!Waiting, GrantedIn

LEMMA HandoffStep ==
    ASSUME TypeInv, TypeInv', NEW c \in Callers, waitsOn[c] # None,
           UNCHANGED <<wakeup, waitsOn, timed>>, ~Granted(c), Granted(c)', OthersGranted(c)
    PROVE  Sem!Handoff(c)
<1>1. GrantedIn' = [GrantedIn EXCEPT ![c] = TRUE]
  BY GrantedSet
<1> QED BY <1>1 DEF Sem!Handoff, Sem!Waiting, GrantedIn

LEMMA ReturnStep ==
    ASSUME TypeInv, TypeInv', NEW c \in Callers, waitsOn[c] # None, wakeup' = wakeup,
           waitsOn' = [waitsOn EXCEPT ![c] = None], timed' = [timed EXCEPT ![c] = FALSE],
           Granted(c), OthersGranted(c)
    PROVE  Sem!Return(c)
<1>1. ~Granted(c)'
  BY DEF TypeInv, TypeOK, Granted
<1>2. GrantedIn' = [GrantedIn EXCEPT ![c] = FALSE]
  BY <1>1, GrantedSet
<1> QED BY <1>2 DEF Sem!Return, GrantedIn

LEMMA GiveUpStep ==
    ASSUME TypeInv, TypeInv', NEW c \in Callers, waitsOn[c] # None, timed[c], wakeup' = wakeup,
           waitsOn' = [waitsOn EXCEPT ![c] = None], timed' = [timed EXCEPT ![c] = FALSE],
           \A d \in Callers : Granted(d)' <=> Granted(d), ~Granted(c)
    PROVE  Sem!GiveUp(c)
<1>1. GrantedIn' = GrantedIn
  BY GrantedSame
<1> QED BY <1>1 DEF Sem!GiveUp, Sem!Waiting, GrantedIn

LEMMA PlainStep ==
    ASSUME Plain, PlainInv, PlainInv', [Next]_vars
    PROVE  Sem!Next \/ UNCHANGED Sem!vars
<1> DEFINE Step == Sem!Next \/ UNCHANGED Sem!vars
<1>t. TypeInv /\ TypeInv'
  BY DEF PlainInv
<1>s. ASSUME \A c \in Callers : Granted(c)' <=> Granted(c), UNCHANGED <<wakeup, waitsOn, timed>>
      PROVE  Step
  <2>1. GrantedIn' = GrantedIn
    BY <1>t, <1>s, GrantedSame
  <2> QED BY <1>s, <2>1 DEF Sem!vars, GrantedIn
<1> USE FiberBlockerAssumption
    DEF PlainInv, TypeInv, TypeOK, Held, Callers, Agents, Places, OnThread, OnQueue, InHands,
        LoopShape, NoTimers, Sleepers, Parked, Queued, Waking, OnLoop,
        Plain, Awake, Granted, blockerVars, fiberVars, loopVars, wakeVars, callVars
<1> HIDE DEF Step
<1>1. ASSUME NEW f \in Fibers, Dispatch(f) PROVE Step
  <2>1. \A c \in Callers : Granted(c)' <=> Granted(c)
    BY <1>1 DEF Dispatch
  <2>2. UNCHANGED <<wakeup, waitsOn, timed>>
    BY <1>1 DEF Dispatch
  <2> QED BY <2>1, <2>2, <1>s
<1>2. ASSUME NEW t \in Threads, Start(t) PROVE Step
  <2>1. \A c \in Callers : Granted(c)' <=> Granted(c)
    BY <1>2 DEF Start
  <2>2. UNCHANGED <<wakeup, waitsOn, timed>>
    BY <1>2 DEF Start
  <2> QED BY <2>1, <2>2, <1>s
<1>3. ASSUME NEW t \in Threads, Poll(t) PROVE Step
  <2>1. Head(runq[t]) \in Fibers
    BY <1>3, HeadTailProperties DEF Poll
  <2>2. \A c \in Callers : Granted(c)' <=> Granted(c)
    BY <1>3, <2>1 DEF Poll
  <2>3. UNCHANGED <<wakeup, waitsOn, timed>>
    BY <1>3 DEF Poll
  <2> QED BY <2>2, <2>3, <1>s
<1>4. ASSUME NEW t \in Threads, PollEmpty(t) PROVE Step
  <2>1. \A c \in Callers : Granted(c)' <=> Granted(c)
    BY <1>4 DEF PollEmpty
  <2>2. UNCHANGED <<wakeup, waitsOn, timed>>
    BY <1>4 DEF PollEmpty
  <2> QED BY <2>1, <2>2, <1>s
<1>5. ASSUME NEW t \in Threads, OnceProcessEvents(t) PROVE Step
  <2>1. \A c \in Callers : Granted(c)' <=> Granted(c)
    BY <1>5 DEF OnceProcessEvents
  <2>2. UNCHANGED <<wakeup, waitsOn, timed>>
    BY <1>5 DEF OnceProcessEvents
  <2> QED BY <2>1, <2>2, <1>s
<1>6. ASSUME NEW t \in Threads, IdleTimeout(t) PROVE Step
  <2>1. \A c \in Callers : Granted(c)' <=> Granted(c)
    BY <1>6 DEF IdleTimeout
  <2>2. UNCHANGED <<wakeup, waitsOn, timed>>
    BY <1>6 DEF IdleTimeout
  <2> QED BY <2>1, <2>2, <1>s
<1>7. ASSUME NEW t \in Threads, EventsDone(t) PROVE Step
  <2>1. \A c \in Callers : Granted(c)' <=> Granted(c)
    BY <1>7 DEF EventsDone
  <2>2. UNCHANGED <<wakeup, waitsOn, timed>>
    BY <1>7 DEF EventsDone
  <2> QED BY <2>1, <2>2, <1>s
<1>8. ASSUME NEW t \in Threads, Requeue(t) PROVE Step
  <2>1. cur[t] \in Fibers /\ Home[cur[t]] = t
    BY <1>8 DEF Requeue
  <2>2. pc[t] = "requeue"
    BY <1>8, <2>1 DEF Requeue
  <2>3. \A c \in Callers : Granted(c)' <=> Granted(c)
    BY <1>8, <2>1, <2>2 DEF Requeue
  <2>4. UNCHANGED <<wakeup, waitsOn, timed>>
    BY <1>8 DEF Requeue
  <2> QED BY <2>3, <2>4, <1>s
<1>9. ASSUME NEW t \in Threads, SwapOutTrue(t) PROVE Step
  <2>1. PICK f \in Fibers : f = cur[t]
    BY <1>9 DEF SwapOutTrue
  <2>2. Home[f] = t /\ pc[t] = "switch" /\ state[f] # "TERMINATED"
    BY <1>9, <2>1 DEF SwapOutTrue
  <2>3. PICK b \in Blockers : b = blocker[f] /\ b = waitsOn[f]
    <3>1. blocker[f] \in Blockers
      BY <1>9, <2>1 DEF SwapOutTrue
    <3>2. blocker[f] = waitsOn[f]
      BY <2>1, <2>2
    <3> QED BY <3>1, <3>2
  <2>4. \A x : InSeq(x, Append(waitQueue[b], f)) <=> InSeq(x, waitQueue[b]) \/ x = f
    <3>1. waitQueue[b] \in Seq(Callers) /\ f \in Callers
      OBVIOUS
    <3> QED BY ONLY <3>1, AppendFacts
  <2>5. \A c \in Callers : Granted(c)' <=> Granted(c)
    BY <1>9, <2>1, <2>2, <2>3, <2>4 DEF SwapOutTrue
  <2>6. UNCHANGED <<wakeup, waitsOn, timed>>
    BY <1>9 DEF SwapOutTrue
  <2> QED BY <2>5, <2>6, <1>s
<1>10. ASSUME NEW t \in Threads, Reap(t) PROVE Step
  <2>1. cur[t] \in Fibers /\ waitsOn[cur[t]] = None
    BY <1>10 DEF Reap
  <2>2. \A c \in Callers : Granted(c)' <=> Granted(c)
    BY <1>10, <2>1 DEF Reap
  <2>3. UNCHANGED <<wakeup, waitsOn, timed>>
    BY <1>10 DEF Reap
  <2> QED BY <2>2, <2>3, <1>s
<1>11. ASSUME NEW f \in Fibers, Finish(f) PROVE Step
  <2>1. \A c \in Callers : Granted(c)' <=> Granted(c)
    BY <1>11 DEF Finish, Free, Runs
  <2>2. UNCHANGED <<wakeup, waitsOn, timed>>
    BY <1>11 DEF Finish, Free, Runs
  <2> QED BY <2>1, <2>2, <1>s
<1>12. ASSUME NEW a \in Agents, SwapInRead(a) PROVE Step
  <2>1. \A c \in Callers : Granted(c)' <=> Granted(c)
    BY <1>12 DEF SwapInRead
  <2>2. UNCHANGED <<wakeup, waitsOn, timed>>
    BY <1>12 DEF SwapInRead
  <2> QED BY <2>1, <2>2, <1>s
<1>13. ASSUME NEW a \in Agents, SwapInClear(a) PROVE Step
  <2>1. \A c \in Callers : Granted(c)' <=> Granted(c)
    BY <1>13 DEF SwapInClear
  <2>2. UNCHANGED <<wakeup, waitsOn, timed>>
    BY <1>13 DEF SwapInClear
  <2> QED BY <2>1, <2>2, <1>s
<1>14. ASSUME NEW a \in Agents, SwapInAdd(a) PROVE Step
  <2>1. \A c \in Callers : Granted(c)' <=> Granted(c)
    BY <1>14 DEF SwapInAdd
  <2>2. UNCHANGED <<wakeup, waitsOn, timed>>
    BY <1>14 DEF SwapInAdd
  <2> QED BY <2>1, <2>2, <1>s
<1>15. ASSUME NEW a \in Agents, Signal(a) PROVE Step
  <2>1. \A c \in Callers : Granted(c)' <=> Granted(c)
    BY <1>15 DEF Signal
  <2>2. UNCHANGED <<wakeup, waitsOn, timed>>
    BY <1>15 DEF Signal
  <2> QED BY <2>1, <2>2, <1>s
<1>16. ASSUME NEW t \in Threads, SwapOutFalse(t) PROVE Step
  <2>1. PICK f \in Fibers : f = cur[t]
    BY <1>16 DEF SwapOutFalse, PermitLeft
  <2>2. Home[f] = t /\ pc[t] = "switch" /\ state[f] # "TERMINATED"
    BY <1>16, <2>1 DEF SwapOutFalse, PermitLeft
  <2>3. blocker[f] = waitsOn[f] /\ waitsOn[f] # None
    BY <1>16, <2>1, <2>2 DEF SwapOutFalse, PermitLeft
  <2>4. /\ wakeup[waitsOn[f]] > 0 /\ wakeup' = [wakeup EXCEPT ![waitsOn[f]] = @ - 1]
        /\ UNCHANGED <<waitsOn, timed>>
    BY <1>16, <2>1, <2>2, <2>3 DEF SwapOutFalse, PermitLeft
  <2>5. ~Granted(f)
    BY <1>16, <2>1, <2>2, <2>3 DEF SwapOutFalse, PermitLeft
  <2>6. Granted(f)'
    BY <1>16, <2>1, <2>2, <2>3 DEF SwapOutFalse, PermitLeft
  <2>7. OthersGranted(f)
    BY <1>16, <2>1, <2>2, <2>3 DEF SwapOutFalse, PermitLeft, OthersGranted
  <2>8. f \in Callers /\ waitsOn[f] # None
    BY <1>16, <2>1, <2>2, <2>3 DEF SwapOutFalse, PermitLeft
  <2> HIDE DEF TypeInv, TypeOK, Held, Callers, Agents, PlainInv, Places, OnThread, OnQueue,
              InHands, LoopShape, NoTimers, Sleepers, Awake, Granted
  <2>9. Sem!Take(f)
    BY <1>t, <2>4, <2>5, <2>6, <2>7, <2>8, TakeStep
  <2> QED BY <2>8, <2>9 DEF Step, Sem!Next
<1>17. ASSUME NEW c \in Callers, NEW b \in Blockers, WaitNow(c, b) PROVE Step
  <2>1. waitsOn[c] = None /\ b # None
    BY <1>17 DEF WaitNow, PermitFound, Free, Runs
  <2>2. /\ wakeup[b] > 0 /\ wakeup' = [wakeup EXCEPT ![b] = @ - 1]
        /\ waitsOn' = [waitsOn EXCEPT ![c] = b] /\ timed' = timed
    BY <1>17, <2>1 DEF WaitNow, PermitFound, Free, Runs
  <2>3. Granted(c)'
    BY <1>17, <2>1 DEF WaitNow, PermitFound, Free, Runs
  <2>4. OthersGranted(c)
    BY <1>17, <2>1 DEF WaitNow, PermitFound, Free, Runs, OthersGranted
  <2>5. c \in Callers /\ waitsOn[c] = None
    BY <1>17, <2>1 DEF WaitNow, PermitFound, Free, Runs
  <2> HIDE DEF TypeInv, TypeOK, Held, Callers, Agents, PlainInv, Places, OnThread, OnQueue,
              InHands, LoopShape, NoTimers, Sleepers, Awake, Granted
  <2>6. Sem!Acquire(c, b)
    BY <1>t, <2>2, <2>3, <2>4, <2>5, AcquireStep
  <2> QED BY <2>5, <2>6 DEF Step, Sem!Next
<1>18. ASSUME NEW f \in Fibers, NEW b \in Blockers, NEW tm \in BOOLEAN, FiberWait(f, b, tm) PROVE Step
  <2>1. waitsOn[f] = None /\ OnLoop(f) /\ b # None
    BY <1>18 DEF FiberWait, Free, Runs
  <2>2. /\ wakeup' = wakeup /\ waitsOn' = [waitsOn EXCEPT ![f] = b]
        /\ (\A d \in Callers \ {f} : timed'[d] = timed[d]) /\ ~timed'[f]
    BY <1>18, <2>1 DEF FiberWait, Free, Runs
  <2>3. \A d \in Callers : Granted(d)' <=> Granted(d)
    BY <1>18, <2>1 DEF FiberWait, Free, Runs
  <2>4. f \in Callers /\ waitsOn[f] = None
    BY <1>18, <2>1 DEF FiberWait, Free, Runs
  <2> HIDE DEF TypeInv, TypeOK, Held, Callers, Agents, PlainInv, Places, OnThread, OnQueue,
              InHands, LoopShape, NoTimers, Sleepers, Awake, Granted
  <2>5. \E v \in BOOLEAN : Sem!Enter(f, b, v)
    BY <1>t, <2>2, <2>3, <2>4, EnterStep
  <2> QED BY <2>4, <2>5 DEF Step, Sem!Next
<1>19. ASSUME NEW f \in Fibers, WaitReturn(f) PROVE Step
  <2>1. waitsOn[f] # None /\ OnLoop(f) /\ pc[Home[f]] = "run"
    BY <1>19 DEF WaitReturn, Runs
  <2>2. ~InSeq(f, waitQueue[waitsOn[f]])
    BY <1>19, <2>1 DEF WaitReturn, Runs
  <2>3. /\ wakeup' = wakeup /\ waitsOn' = [waitsOn EXCEPT ![f] = None]
        /\ timed' = [timed EXCEPT ![f] = FALSE]
    BY <1>19, <2>1, <2>2 DEF WaitReturn, Runs
  <2>4. Granted(f)
    BY <1>19, <2>1, <2>2 DEF WaitReturn, Runs
  <2>5. OthersGranted(f)
    BY <1>19, <2>1, <2>2 DEF WaitReturn, Runs, OthersGranted
  <2>6. f \in Callers /\ waitsOn[f] # None
    BY <1>19, <2>1, <2>2 DEF WaitReturn, Runs
  <2> HIDE DEF TypeInv, TypeOK, Held, Callers, Agents, PlainInv, Places, OnThread, OnQueue,
              InHands, LoopShape, NoTimers, Sleepers, Awake, Granted
  <2>7. Sem!Return(f)
    BY <1>t, <2>3, <2>4, <2>5, <2>6, ReturnStep
  <2> QED BY <2>6, <2>7 DEF Step, Sem!Next
<1>20. ASSUME NEW o \in Outsiders, NEW b \in Blockers, NEW tm \in BOOLEAN, ThreadWait(o, b, tm) PROVE Step
  <2>0. o \in Steady
    BY DEF Steady
  <2>1. \A x : InSeq(x, Append(waitQueue[b], o)) <=> InSeq(x, waitQueue[b]) \/ x = o
    BY <1>20, AppendFacts DEF ThreadWait, Free
  <2>2. waitsOn[o] = None /\ b # None /\ ~passed[o]
    BY <1>20, <2>1 DEF ThreadWait, Free
  <2>3. /\ wakeup' = wakeup /\ waitsOn' = [waitsOn EXCEPT ![o] = b]
        /\ \A d \in Callers \ {o} : timed'[d] = timed[d]
    BY <1>20, <2>1, <2>2 DEF ThreadWait, Free
  <2>4. \A d \in Callers : Granted(d)' <=> Granted(d)
    BY <1>20, <2>1, <2>2 DEF ThreadWait, Free
  <2>5. o \in Callers /\ waitsOn[o] = None
    BY <1>20, <2>1, <2>2 DEF ThreadWait, Free
  <2> HIDE DEF TypeInv, TypeOK, Held, Callers, Agents, PlainInv, Places, OnThread, OnQueue,
              InHands, LoopShape, NoTimers, Sleepers, Awake, Granted
  <2>6. \E v \in BOOLEAN : Sem!Enter(o, b, v)
    BY <1>t, <2>0, <2>3, <2>4, <2>5, EnterStep
  <2> QED BY <2>5, <2>6 DEF Step, Sem!Next
<1>21. ASSUME NEW o \in Outsiders, ThreadReturn(o) PROVE Step
  <2>1. waitsOn[o] # None
    BY <1>21 DEF ThreadReturn
  <2>2. /\ wakeup' = wakeup /\ waitsOn' = [waitsOn EXCEPT ![o] = None]
        /\ timed' = [timed EXCEPT ![o] = FALSE]
    BY <1>21, <2>1 DEF ThreadReturn
  <2>3. Granted(o)
    BY <1>21, <2>1 DEF ThreadReturn
  <2>4. OthersGranted(o)
    BY <1>21, <2>1 DEF ThreadReturn, OthersGranted
  <2>5. o \in Callers /\ waitsOn[o] # None
    BY <1>21, <2>1 DEF ThreadReturn
  <2> HIDE DEF TypeInv, TypeOK, Held, Callers, Agents, PlainInv, Places, OnThread, OnQueue,
              InHands, LoopShape, NoTimers, Sleepers, Awake, Granted
  <2>6. Sem!Return(o)
    BY <1>t, <2>2, <2>3, <2>4, <2>5, ReturnStep
  <2> QED BY <2>5, <2>6 DEF Step, Sem!Next
<1>22. ASSUME NEW o \in Outsiders, ThreadTimeout(o) PROVE Step
  <2>1. waitsOn[o] \in Blockers /\ waitsOn[o] # None
    BY <1>22 DEF ThreadTimeout
  <2>2. LET q == waitQueue[waitsOn[o]]
        IN  \A x : InSeq(x, Withdrawn(q, o)) <=> InSeq(x, q) /\ x # o
    BY <1>22, <2>1, WithdrawnFacts DEF ThreadTimeout
  <2>3. /\ timed[o] /\ wakeup' = wakeup /\ waitsOn' = [waitsOn EXCEPT ![o] = None]
        /\ timed' = [timed EXCEPT ![o] = FALSE]
    BY <1>22, <2>1, <2>2 DEF ThreadTimeout
  <2>4. ~Granted(o)
    BY <1>22, <2>1, <2>2 DEF ThreadTimeout
  <2>5. \A d \in Callers : Granted(d)' <=> Granted(d)
    BY <1>22, <2>1, <2>2 DEF ThreadTimeout
  <2>6. o \in Callers /\ waitsOn[o] # None
    BY <1>22, <2>1, <2>2 DEF ThreadTimeout
  <2> HIDE DEF TypeInv, TypeOK, Held, Callers, Agents, PlainInv, Places, OnThread, OnQueue,
              InHands, LoopShape, NoTimers, Sleepers, Awake, Granted
  <2>7. Sem!GiveUp(o)
    BY <1>t, <2>3, <2>4, <2>5, <2>6, GiveUpStep
  <2> QED BY <2>6, <2>7 DEF Step, Sem!Next
<1>23. ASSUME NEW c \in Callers, NEW b \in Blockers, WakeUpThread(c, b) PROVE Step
  <2>1. waitQueue[b] \in Seq(Callers) /\ waitQueue[b] # <<>> /\ Once(waitQueue[b])
    BY <1>23 DEF WakeUpThread
  <2>2. PICK h \in Outsiders : h = Head(waitQueue[b])
    BY <1>23, <2>1 DEF WakeUpThread
  <2>3. \A x : InSeq(x, Tail(waitQueue[b])) <=> InSeq(x, waitQueue[b]) /\ x # h
    BY <2>1, <2>2, TailFacts
  <2>4. InSeq(h, waitQueue[b])
    BY <2>1, <2>2, TailFacts
  <2>5. waitsOn[h] = b /\ b # None
    BY <1>23, <2>1, <2>2, <2>3, <2>4 DEF WakeUpThread
  <2>6. waitQueue'[b] = Tail(waitQueue[b]) /\ waitsOn' = waitsOn
    BY <1>23, <2>1, <2>2, <2>3, <2>4, <2>5 DEF WakeUpThread
  <2>7. UNCHANGED <<wakeup, waitsOn, timed>>
    BY <1>23, <2>1, <2>2, <2>3, <2>4, <2>5, <2>6 DEF WakeUpThread
  <2>8. ~Granted(h)
    BY <1>23, <2>1, <2>2, <2>3, <2>4, <2>5, <2>6 DEF WakeUpThread
  <2>9. Granted(h)'
    BY <1>23, <2>1, <2>2, <2>3, <2>4, <2>5, <2>6 DEF WakeUpThread
  <2>10. OthersGranted(h)
    BY <1>23, <2>1, <2>2, <2>3, <2>4, <2>5, <2>6 DEF WakeUpThread, OthersGranted
  <2>11. h \in Callers /\ waitsOn[h] # None
    BY <1>23, <2>1, <2>2, <2>3, <2>4, <2>5, <2>6 DEF WakeUpThread
  <2> HIDE DEF TypeInv, TypeOK, Held, Callers, Agents, PlainInv, Places, OnThread, OnQueue,
              InHands, LoopShape, NoTimers, Sleepers, Awake, Granted
  <2>12. Sem!Handoff(h)
    BY <1>t, <2>7, <2>8, <2>9, <2>10, <2>11, HandoffStep
  <2> QED BY <2>11, <2>12 DEF Step, Sem!Next
<1>24. ASSUME NEW c \in Callers, NEW b \in Blockers, WakeUpFiber(c, b) PROVE Step
  <2>1. waitQueue[b] \in Seq(Callers) /\ waitQueue[b] # <<>> /\ Once(waitQueue[b])
    BY <1>24 DEF WakeUpFiber, Free, Runs, AgentOf
  <2>2. PICK h \in Fibers : h = Head(waitQueue[b])
    BY <1>24, <2>1 DEF WakeUpFiber, Free, Runs, AgentOf
  <2>3. \A x : InSeq(x, Tail(waitQueue[b])) <=> InSeq(x, waitQueue[b]) /\ x # h
    BY <2>1, <2>2, TailFacts
  <2>4. InSeq(h, waitQueue[b])
    BY <2>1, <2>2, TailFacts
  <2>5. waitsOn[h] = b /\ b # None /\ ~OnLoop(h)
    BY <1>24, <2>1, <2>2, <2>3, <2>4 DEF WakeUpFiber, Free, Runs, AgentOf
  <2>6. waitQueue'[b] = Tail(waitQueue[b]) /\ waitsOn' = waitsOn /\ cur' = cur
    BY <1>24, <2>1, <2>2, <2>3, <2>4, <2>5 DEF WakeUpFiber, Free, Runs, AgentOf
  <2>7. UNCHANGED <<wakeup, waitsOn, timed>>
    BY <1>24, <2>1, <2>2, <2>3, <2>4, <2>5, <2>6 DEF WakeUpFiber, Free, Runs, AgentOf
  <2>8. ~Granted(h)
    BY <1>24, <2>1, <2>2, <2>3, <2>4, <2>5, <2>6 DEF WakeUpFiber, Free, Runs, AgentOf
  <2>9. Granted(h)'
    BY <1>24, <2>1, <2>2, <2>3, <2>4, <2>5, <2>6 DEF WakeUpFiber, Free, Runs, AgentOf
  <2>10. OthersGranted(h)
    <3>1. ASSUME NEW d \in Callers \ {h} PROVE Granted(d)' <=> Granted(d)
      <4>1. OnLoop(d)' = OnLoop(d) /\ pc' = pc /\ passed' = passed
        <5>1. pc' = pc /\ passed' = passed /\ cur' = cur
          BY <1>24 DEF WakeUpFiber
        <5> HIDE DEF PlainInv, TypeInv
        <5> QED BY <5>1
      <4>2. ASSUME waitsOn[d] # None
            PROVE  InSeq(d, waitQueue'[waitsOn[d]]) <=> InSeq(d, waitQueue[waitsOn[d]])
        <5>1. waitsOn[d] \in Blockers /\ (waitsOn[d] # b => waitQueue'[waitsOn[d]] = waitQueue[waitsOn[d]])
          BY <1>24, <4>2 DEF WakeUpFiber
        <5>2. CASE waitsOn[d] = b
          <6>1. InSeq(d, Tail(waitQueue[b])) <=> InSeq(d, waitQueue[b])
            BY <2>3
          <6> HIDE DEF PlainInv, TypeInv
          <6> QED BY <2>6, <5>2, <6>1
        <5> HIDE DEF PlainInv, TypeInv
        <5> QED BY <5>1, <5>2
      <4> HIDE DEF PlainInv, TypeInv
      <4> QED BY <2>6, <4>1, <4>2
    <3> QED BY <3>1 DEF OthersGranted
  <2>11. h \in Callers /\ waitsOn[h] # None
    BY <1>24, <2>1, <2>2, <2>3, <2>4, <2>5, <2>6 DEF WakeUpFiber, Free, Runs, AgentOf
  <2> HIDE DEF TypeInv, TypeOK, Held, Callers, Agents, PlainInv, Places, OnThread, OnQueue,
              InHands, LoopShape, NoTimers, Sleepers, Awake, Granted
  <2>12. Sem!Handoff(h)
    BY <1>t, <2>7, <2>8, <2>9, <2>10, <2>11, HandoffStep
  <2> QED BY <2>11, <2>12 DEF Step, Sem!Next
<1>25. ASSUME NEW c \in Callers, NEW b \in Blockers, WakeUpKeep(c, b) PROVE Step
  <2>1. GrantedIn' = GrantedIn
    BY <1>25, GrantedSame DEF WakeUpKeep
  <2>2. Sem!Release(b)
    BY <1>25, <2>1 DEF WakeUpKeep, BelowLimit, Sem!Release, GrantedIn
  <2> QED BY <2>2 DEF Step, Sem!Next
<1>26. ASSUME NEW f \in Fibers, Yield(f) \/ TimedReturn(f) PROVE Step
  BY <1>26 DEF Yield, TimedReturn
<1>27. ASSUME NEW t \in Threads, NEW f \in Fibers, TimeEventProc(t, f) PROVE Step
  BY <1>27 DEF TimeEventProc
<1>28. ASSUME UNCHANGED vars PROVE Step
  <2>1. \A c \in Callers : Granted(c)' <=> Granted(c)
    BY <1>28 DEF vars
  <2>2. UNCHANGED <<wakeup, waitsOn, timed>>
    BY <1>28 DEF vars
  <2> QED BY <2>1, <2>2, <1>s
<1> HIDE DEF PlainInv, TypeInv, TypeOK, Held, Callers, Agents, Places, OnThread, OnQueue,
        InHands, LoopShape, NoTimers, Sleepers, Awake, Granted
<1>29. ASSUME NEW t \in Threads, DispatchLoop(t) PROVE Step
  BY <1>29, <1>2, <1>3, <1>4, <1>5, <1>7, <1>27, <1>8, <1>16, <1>9, <1>10 DEF DispatchLoop
<1>30. ASSUME NEW f \in Fibers, FiberCall(f) PROVE Step
  BY <1>30, <1>18, <1>19, <1>26, <1>11 DEF FiberCall
<1>31. ASSUME NEW o \in Outsiders, ThreadCall(o) PROVE Step
  BY <1>31, <1>20, <1>21, <1>22 DEF ThreadCall
<1>32. ASSUME NEW c \in Callers, NEW b \in Blockers, WakeUp(c, b) PROVE Step
  BY <1>32, <1>25, <1>23, <1>24 DEF WakeUp
<1>33. ASSUME NEW a \in Agents, Waker(a) PROVE Step
  BY <1>33, <1>12, <1>13, <1>14, <1>15 DEF Waker
<1> HIDE DEF Plain
<1>34. Step
  BY <1>1, <1>6, <1>17, <1>28, <1>29, <1>30, <1>31, <1>32, <1>33 DEF Next
<1> QED BY <1>34 DEF Step

-----------------------------------------------------------------------------
(* Where the fibers are on one thread, join(), whatever their code does:   *)
(* there swapOut() never finds a permit that wait() did not, and a timer   *)
(* and a waker of the same fiber take turns.                               *)

\* The fiber's timed wait is over: it withdraws from the wait queue when it
\* runs.
Late(f) == timed[f] /\ timeout[f]

SoloQueue ==
    /\ \A b \in Blockers : Once(waitQueue[b])
    /\ \A f \in Fibers, b \in Blockers :
           InSeq(f, waitQueue[b]) =>
               /\ waitsOn[f] = b
               /\ state[f] = "BLOCKED" \/ Late(f)
               /\ (\E a \in Agents : Waking(a, f)) => Late(f)

SoloStates ==
    \A f \in Fibers :
        /\ state[f] = "RUNNABLE" => Queued(f) \/ OnLoop(f)
        /\ state[f] = "BLOCKED" =>
               /\ waitsOn[f] # None /\ ~Queued(f)
               /\ OnLoop(f) => pc[Home[f]] = "switch"
        /\ timer[f] => timed[f]
        /\ timed[f] => waitsOn[f] # None

SoloHands ==
    \A a \in Agents :
        wake[a] \in {"clear", "add"} => state[target[a]] = "BLOCKED" /\ ~OnLoop(target[a])

SoloLoop ==
    \A t \in Threads :
        /\ pc[t] # "requeue"
        /\ pc[t] \in {"new", "poll", "idle"} => cur[t] = None
        /\ pc[t] = "switch" =>
               \/ state[cur[t]] = "TERMINATED"
               \/ state[cur[t]] = "RUNNABLE" /\ waitsOn[cur[t]] = None
               \/ state[cur[t]] = "BLOCKED" /\ blocker[cur[t]] = waitsOn[cur[t]]
                                            /\ wakeup[waitsOn[cur[t]]] = 0
                                            /\ ~InSeq(cur[t], waitQueue[waitsOn[cur[t]]])

SoloPlaces == OnThread /\ SoloQueue /\ SoloStates /\ SoloHands /\ SoloLoop
SoloInv == TypeInv /\ Awake /\ SoloPlaces /\ NoFiberLost

LEMMA NextSoloPlaces ==
    TypeInv /\ Awake /\ SoloPlaces /\ NoFiberLost /\ Solo /\ [Next]_vars
        => SoloPlaces' /\ NoFiberLost'
<1> DEFINE Goal == SoloPlaces /\ NoFiberLost
<1> SUFFICES ASSUME TypeInv, Awake, SoloPlaces, NoFiberLost, Solo, [Next]_vars PROVE Goal'
  OBVIOUS
<1> USE FiberBlockerAssumption
    DEF TypeInv, TypeOK, Held, Callers, Agents, SoloPlaces, OnThread, SoloQueue, SoloStates,
        SoloHands, SoloLoop, Late, NoFiberLost, HasPlace, Queued, Waking, OnLoop, Resuming,
        Solo, Awake, blockerVars, fiberVars, loopVars, wakeVars, callVars
<1>1. ASSUME NEW f \in Fibers, Dispatch(f) PROVE Goal'
  <2>1. /\ Once(Append(runq[Home[f]], f))
        /\ \A x : InSeq(x, Append(runq[Home[f]], f)) <=> InSeq(x, runq[Home[f]]) \/ x = f
    BY <1>1, AppendFacts DEF Dispatch
  <2>2. OnThread'
    BY <1>1, <2>1 DEF Dispatch
  <2>3. SoloQueue'
    BY <1>1, <2>1 DEF Dispatch
  <2>4. SoloStates'
    BY <1>1, <2>1 DEF Dispatch
  <2>5. SoloHands'
    BY <1>1, <2>1 DEF Dispatch
  <2>6. SoloLoop'
    BY <1>1, <2>1 DEF Dispatch
  <2>7. ASSUME NEW g \in Fibers PROVE HasPlace(g)'
    BY <1>1, HasPlace(g), <2>1 DEF Dispatch
  <2> QED BY <2>2, <2>3, <2>4, <2>5, <2>6, <2>7
<1>2. ASSUME NEW t \in Threads, Start(t) PROVE Goal'
  <2>1. SoloPlaces'
    BY <1>2 DEF Start
  <2>2. ASSUME NEW g \in Fibers PROVE HasPlace(g)'
    BY <1>2, HasPlace(g) DEF Start
  <2> QED BY <2>1, <2>2
<1>3. ASSUME NEW t \in Threads, Poll(t) PROVE Goal'
  <2>1. /\ InSeq(Head(runq[t]), runq[t])
        /\ Once(Tail(runq[t]))
        /\ \A x : InSeq(x, Tail(runq[t])) <=> InSeq(x, runq[t]) /\ x # Head(runq[t])
    BY <1>3, TailFacts DEF Poll
  <2>2. Head(runq[t]) \in Fibers
    BY <1>3, <2>1, TailFacts DEF Poll
  <2>3. Home[Head(runq[t])] = t /\ cur[t] = None
    BY <1>3, <2>1, <2>2 DEF Poll
  <2>4. OnThread'
    BY <1>3, <2>1, <2>2, <2>3 DEF Poll
  <2>5. SoloQueue'
    BY <1>3, <2>1, <2>2, <2>3 DEF Poll
  <2>6. SoloStates'
    BY <1>3, <2>1, <2>2, <2>3 DEF Poll
  <2>7. SoloHands'
    BY <1>3, <2>1, <2>2, <2>3 DEF Poll
  <2>8. SoloLoop'
    BY <1>3, <2>1, <2>2, <2>3 DEF Poll
  <2>9. ASSUME NEW g \in Fibers PROVE HasPlace(g)'
    BY <1>3, HasPlace(g), <2>1, <2>2, <2>3 DEF Poll
  <2> QED BY <2>4, <2>5, <2>6, <2>7, <2>8, <2>9
<1>4. ASSUME NEW t \in Threads, PollEmpty(t) PROVE Goal'
  <2>1. SoloPlaces'
    BY <1>4 DEF PollEmpty
  <2>2. ASSUME NEW g \in Fibers PROVE HasPlace(g)'
    BY <1>4, HasPlace(g) DEF PollEmpty
  <2> QED BY <2>1, <2>2
<1>5. ASSUME NEW t \in Threads, OnceProcessEvents(t) PROVE Goal'
  <2>1. SoloPlaces'
    BY <1>5 DEF OnceProcessEvents
  <2>2. ASSUME NEW g \in Fibers PROVE HasPlace(g)'
    BY <1>5, HasPlace(g) DEF OnceProcessEvents
  <2> QED BY <2>1, <2>2
<1>6. ASSUME NEW t \in Threads, IdleTimeout(t) PROVE Goal'
  <2>1. SoloPlaces'
    BY <1>6 DEF IdleTimeout
  <2>2. ASSUME NEW g \in Fibers PROVE HasPlace(g)'
    BY <1>6, HasPlace(g) DEF IdleTimeout
  <2> QED BY <2>1, <2>2
<1>7. ASSUME NEW t \in Threads, NEW f \in Fibers, TimeEventProc(t, f) PROVE Goal'
  <2>1. SoloPlaces'
    BY <1>7 DEF TimeEventProc
  <2>2. ASSUME NEW g \in Fibers PROVE HasPlace(g)'
    BY <1>7, HasPlace(g) DEF TimeEventProc
  <2> QED BY <2>1, <2>2
<1>8. ASSUME NEW t \in Threads, EventsDone(t) PROVE Goal'
  <2>1. SoloPlaces'
    BY <1>8 DEF EventsDone
  <2>2. ASSUME NEW g \in Fibers PROVE HasPlace(g)'
    BY <1>8, HasPlace(g) DEF EventsDone
  <2> QED BY <2>1, <2>2
<1>9. ASSUME NEW t \in Threads, Requeue(t) PROVE Goal'
  <2>1. cur[t] \in Fibers /\ Home[cur[t]] = t /\ ~InSeq(cur[t], runq[t])
    BY <1>9 DEF Requeue
  <2>2. /\ Once(Append(runq[t], cur[t]))
        /\ \A x : InSeq(x, Append(runq[t], cur[t])) <=> InSeq(x, runq[t]) \/ x = cur[t]
    BY <1>9, <2>1, AppendFacts DEF Requeue
  <2>3. OnThread'
    BY <1>9, <2>1, <2>2 DEF Requeue
  <2>4. SoloQueue'
    BY <1>9, <2>1, <2>2 DEF Requeue
  <2>5. SoloStates'
    BY <1>9, <2>1, <2>2 DEF Requeue
  <2>6. SoloHands'
    BY <1>9, <2>1, <2>2 DEF Requeue
  <2>7. SoloLoop'
    BY <1>9, <2>1, <2>2 DEF Requeue
  <2>8. ASSUME NEW g \in Fibers PROVE HasPlace(g)'
    BY <1>9, HasPlace(g), <2>1, <2>2 DEF Requeue
  <2> QED BY <2>3, <2>4, <2>5, <2>6, <2>7, <2>8
<1>10. ASSUME NEW t \in Threads, SwapOutFalse(t) PROVE Goal'
  BY <1>10 DEF SwapOutFalse, PermitLeft
<1>11. ASSUME NEW t \in Threads, SwapOutTrue(t) PROVE Goal'
  <2>1. cur[t] \in Fibers /\ Home[cur[t]] = t
    BY <1>11 DEF SwapOutTrue
  <2>2. blocker[cur[t]] = waitsOn[cur[t]] /\ blocker[cur[t]] \in Blockers
    BY <1>11, <2>1 DEF SwapOutTrue
  <2>3. ~InSeq(cur[t], waitQueue[blocker[cur[t]]])
    BY <1>11, <2>1, <2>2 DEF SwapOutTrue
  <2>4. \A a \in Agents : wake[a] = "none"
    <3>1. pc[t] = "switch" /\ wake[t] = "none"
      BY <1>11 DEF SwapOutTrue
    <3>2. \A a \in Agents : a = t
      OBVIOUS
    <3> QED BY <3>1, <3>2
  <2>5. LET q == waitQueue[blocker[cur[t]]]
        IN  /\ Once(Append(q, cur[t]))
            /\ \A x : InSeq(x, Append(q, cur[t])) <=> InSeq(x, q) \/ x = cur[t]
    BY <1>11, <2>1, <2>2, <2>3, <2>4, AppendFacts DEF SwapOutTrue
  <2>6. OnThread'
    BY <1>11, <2>1, <2>2, <2>3, <2>4, <2>5 DEF SwapOutTrue
  <2>7. SoloQueue'
    BY <1>11, <2>1, <2>2, <2>3, <2>4, <2>5 DEF SwapOutTrue
  <2>8. SoloStates'
    BY <1>11, <2>1, <2>2, <2>3, <2>4, <2>5 DEF SwapOutTrue
  <2>9. SoloHands'
    BY <1>11, <2>1, <2>2, <2>3, <2>4, <2>5 DEF SwapOutTrue
  <2>10. SoloLoop'
    BY <1>11, <2>1, <2>2, <2>3, <2>4, <2>5 DEF SwapOutTrue
  <2>11. ASSUME NEW g \in Fibers PROVE HasPlace(g)'
    BY <1>11, HasPlace(g), <2>1, <2>2, <2>3, <2>4, <2>5 DEF SwapOutTrue
  <2> QED BY <2>6, <2>7, <2>8, <2>9, <2>10, <2>11
<1>12. ASSUME NEW t \in Threads, Reap(t) PROVE Goal'
  <2>1. SoloPlaces'
    BY <1>12 DEF Reap
  <2>2. ASSUME NEW g \in Fibers PROVE HasPlace(g)'
    BY <1>12, HasPlace(g) DEF Reap
  <2> QED BY <2>1, <2>2
<1>13. ASSUME NEW c \in Callers, NEW b \in Blockers, WaitNow(c, b) PROVE Goal'
  <2>1. c \in Fibers /\ OnLoop(c) /\ ~Queued(c) /\ state[c] = "RUNNABLE" /\ waitsOn[c] = None
    BY <1>13 DEF WaitNow, Free, Runs
  <2>2. OnThread'
    BY <1>13, <2>1 DEF WaitNow, Free, Runs
  <2>3. SoloQueue'
    BY <1>13, <2>1 DEF WaitNow, Free, Runs
  <2>4. SoloStates'
    BY <1>13, <2>1 DEF WaitNow, Free, Runs
  <2>5. SoloHands'
    BY <1>13, <2>1 DEF WaitNow, Free, Runs
  <2>6. SoloLoop'
    BY <1>13, <2>1 DEF WaitNow, Free, Runs
  <2>7. ASSUME NEW g \in Fibers PROVE HasPlace(g)'
    BY <1>13, HasPlace(g), <2>1 DEF WaitNow, Free, Runs
  <2> QED BY <2>2, <2>3, <2>4, <2>5, <2>6, <2>7
<1>14. ASSUME NEW f \in Fibers, NEW b \in Blockers, NEW tm \in BOOLEAN, FiberWait(f, b, tm) PROVE Goal'
  <2>1. wakeup[b] = 0 /\ ~InSeq(f, waitQueue[b]) /\ OnLoop(f) /\ b # None
    BY <1>14 DEF FiberWait, Free, Runs, PermitFound
  <2>2. \A t \in Threads : cur[t] = f
    BY <1>14, <2>1 DEF FiberWait, Free, Runs, PermitFound
  <2>3. OnThread'
    BY <1>14, <2>1, <2>2 DEF FiberWait, Free, Runs, PermitFound
  <2>4. SoloQueue'
    BY <1>14, <2>1, <2>2 DEF FiberWait, Free, Runs, PermitFound
  <2>5. SoloStates'
    BY <1>14, <2>1, <2>2 DEF FiberWait, Free, Runs, PermitFound
  <2>6. SoloHands'
    BY <1>14, <2>1, <2>2 DEF FiberWait, Free, Runs, PermitFound
  <2>7. SoloLoop'
    BY <1>14, <2>1, <2>2 DEF FiberWait, Free, Runs, PermitFound
  <2>8. ASSUME NEW g \in Fibers PROVE HasPlace(g)'
    BY <1>14, HasPlace(g), <2>1, <2>2 DEF FiberWait, Free, Runs, PermitFound
  <2> QED BY <2>3, <2>4, <2>5, <2>6, <2>7, <2>8
<1>15. ASSUME NEW f \in Fibers, WaitReturn(f) PROVE Goal'
  <2>1. SoloPlaces'
    BY <1>15 DEF WaitReturn, Runs
  <2>2. ASSUME NEW g \in Fibers PROVE HasPlace(g)'
    BY <1>15, HasPlace(g) DEF WaitReturn, Runs
  <2> QED BY <2>1, <2>2
<1>16. ASSUME NEW f \in Fibers, TimedReturn(f) PROVE Goal'
  <2>1. waitsOn[f] \in Blockers /\ waitsOn[f] # None /\ OnLoop(f) /\ state[f] # "BLOCKED"
    BY <1>16 DEF TimedReturn, Runs
  <2>2. LET q == waitQueue[waitsOn[f]]
        IN  /\ Once(Withdrawn(q, f))
            /\ \A x : InSeq(x, Withdrawn(q, f)) <=> InSeq(x, q) /\ x # f
    BY <1>16, <2>1, WithdrawnFacts DEF TimedReturn, Runs
  <2>3. OnThread'
    BY <1>16, <2>1, <2>2 DEF TimedReturn, Runs
  <2>4. SoloQueue'
    BY <1>16, <2>1, <2>2 DEF TimedReturn, Runs
  <2>5. SoloStates'
    BY <1>16, <2>1, <2>2 DEF TimedReturn, Runs
  <2>6. SoloHands'
    BY <1>16, <2>1, <2>2 DEF TimedReturn, Runs
  <2>7. SoloLoop'
    BY <1>16, <2>1, <2>2 DEF TimedReturn, Runs
  <2>8. ASSUME NEW g \in Fibers PROVE HasPlace(g)'
    BY <1>16, HasPlace(g), <2>1, <2>2 DEF TimedReturn, Runs
  <2> QED BY <2>3, <2>4, <2>5, <2>6, <2>7, <2>8
<1>17. ASSUME NEW f \in Fibers, Yield(f) PROVE Goal'
  <2>1. SoloPlaces'
    BY <1>17 DEF Yield, Free, Runs
  <2>2. ASSUME NEW g \in Fibers PROVE HasPlace(g)'
    BY <1>17, HasPlace(g) DEF Yield, Free, Runs
  <2> QED BY <2>1, <2>2
<1>18. ASSUME NEW f \in Fibers, Finish(f) PROVE Goal'
  <2>1. SoloPlaces'
    BY <1>18 DEF Finish, Free, Runs
  <2>2. ASSUME NEW g \in Fibers PROVE HasPlace(g)'
    BY <1>18, HasPlace(g) DEF Finish, Free, Runs
  <2> QED BY <2>1, <2>2
<1>19. ASSUME NEW o \in Outsiders, NEW b \in Blockers, NEW tm \in BOOLEAN, ThreadWait(o, b, tm) PROVE Goal'
  BY <1>19 DEF ThreadWait
<1>20. ASSUME NEW o \in Outsiders, ThreadReturn(o) PROVE Goal'
  BY <1>20 DEF ThreadReturn
<1>21. ASSUME NEW o \in Outsiders, ThreadTimeout(o) PROVE Goal'
  BY <1>21 DEF ThreadTimeout
<1>22. ASSUME NEW c \in Callers, NEW b \in Blockers, WakeUpKeep(c, b) PROVE Goal'
  <2>1. c \in Fibers /\ \A t \in Threads : pc[t] = "run"
    BY <1>22 DEF WakeUpKeep, Free, Runs
  <2>2. OnThread'
    BY <1>22, <2>1 DEF WakeUpKeep, Free, Runs
  <2>3. SoloQueue'
    BY <1>22, <2>1 DEF WakeUpKeep, Free, Runs
  <2>4. SoloStates'
    BY <1>22, <2>1 DEF WakeUpKeep, Free, Runs
  <2>5. SoloHands'
    BY <1>22, <2>1 DEF WakeUpKeep, Free, Runs
  <2>6. SoloLoop'
    BY <1>22, <2>1 DEF WakeUpKeep, Free, Runs
  <2>7. ASSUME NEW g \in Fibers PROVE HasPlace(g)'
    BY <1>22, HasPlace(g), <2>1 DEF WakeUpKeep, Free, Runs
  <2> QED BY <2>2, <2>3, <2>4, <2>5, <2>6, <2>7
<1>23. ASSUME NEW c \in Callers, NEW b \in Blockers, WakeUpThread(c, b) PROVE Goal'
  BY <1>23 DEF WakeUpThread
<1>24. ASSUME NEW c \in Callers, NEW b \in Blockers, WakeUpFiber(c, b) PROVE Goal'
  <2>1. /\ InSeq(Head(waitQueue[b]), waitQueue[b])
        /\ Once(Tail(waitQueue[b]))
        /\ \A x : InSeq(x, Tail(waitQueue[b])) <=> InSeq(x, waitQueue[b]) /\ x # Head(waitQueue[b])
    BY <1>24, TailFacts DEF WakeUpFiber, Free, Runs, AgentOf
  <2>2. AgentOf(c) \in Agents /\ wake[AgentOf(c)] = "none"
    BY <1>24, <2>1 DEF WakeUpFiber, Free, Runs, AgentOf
  <2>3. OnThread'
    BY <1>24, <2>1, <2>2 DEF WakeUpFiber, Free, Runs, AgentOf
  <2>4. SoloQueue'
    BY <1>24, <2>1, <2>2 DEF WakeUpFiber, Free, Runs, AgentOf
  <2>5. SoloStates'
    BY <1>24, <2>1, <2>2 DEF WakeUpFiber, Free, Runs, AgentOf
  <2>6. SoloHands'
    BY <1>24, <2>1, <2>2 DEF WakeUpFiber, Free, Runs, AgentOf
  <2>7. SoloLoop'
    BY <1>24, <2>1, <2>2 DEF WakeUpFiber, Free, Runs, AgentOf
  <2>8. ASSUME NEW g \in Fibers PROVE HasPlace(g)'
    BY <1>24, HasPlace(g), <2>1, <2>2 DEF WakeUpFiber, Free, Runs, AgentOf
  <2> QED BY <2>3, <2>4, <2>5, <2>6, <2>7, <2>8
<1>25. ASSUME NEW a \in Agents, SwapInRead(a) PROVE Goal'
  <2>1. \A t \in Threads : pc[t] # "switch"
    <3>1. a \in Threads /\ wake[a] # "none"
      BY <1>25 DEF SwapInRead
    <3>2. pc[a] # "switch"
      BY <3>1
    <3> QED BY <3>1, <3>2
  <2>2. \A f \in Fibers : state[f] = "BLOCKED" => ~OnLoop(f)
    BY <1>25, <2>1 DEF SwapInRead, Resumable
  <2>3. target[a] \in Fibers
    BY <1>25, <2>1, <2>2 DEF SwapInRead, Resumable
  <2>4. OnThread'
    BY <1>25, <2>1, <2>2, <2>3 DEF SwapInRead, Resumable
  <2>5. SoloQueue'
    BY <1>25, <2>1, <2>2, <2>3 DEF SwapInRead, Resumable
  <2>6. SoloStates'
    BY <1>25, <2>1, <2>2, <2>3 DEF SwapInRead, Resumable
  <2>7. SoloHands'
    BY <1>25, <2>1, <2>2, <2>3 DEF SwapInRead, Resumable
  <2>8. SoloLoop'
    BY <1>25, <2>1, <2>2, <2>3 DEF SwapInRead, Resumable
  <2>9. ASSUME NEW g \in Fibers PROVE HasPlace(g)'
    BY <1>25, HasPlace(g), <2>1, <2>2, <2>3 DEF SwapInRead, Resumable
  <2> QED BY <2>4, <2>5, <2>6, <2>7, <2>8, <2>9
<1>26. ASSUME NEW a \in Agents, SwapInClear(a) PROVE Goal'
  <2>1. SoloPlaces'
    BY <1>26 DEF SwapInClear
  <2>2. ASSUME NEW g \in Fibers PROVE HasPlace(g)'
    BY <1>26, HasPlace(g) DEF SwapInClear
  <2> QED BY <2>1, <2>2
<1>27. ASSUME NEW a \in Agents, SwapInAdd(a) PROVE Goal'
  <2>1. target[a] \in Fibers /\ Home[target[a]] \in Threads /\ state[target[a]] = "BLOCKED" /\ ~Queued(target[a])
    BY <1>27 DEF SwapInAdd
  <2>2. LET q == runq[Home[target[a]]]
        IN  /\ Once(Append(q, target[a]))
            /\ \A x : InSeq(x, Append(q, target[a])) <=> InSeq(x, q) \/ x = target[a]
    BY <1>27, <2>1, AppendFacts DEF SwapInAdd
  <2>3. OnThread'
    BY <1>27, <2>1, <2>2 DEF SwapInAdd
  <2>4. SoloQueue'
    BY <1>27, <2>1, <2>2 DEF SwapInAdd
  <2>5. SoloStates'
    BY <1>27, <2>1, <2>2 DEF SwapInAdd
  <2>6. SoloHands'
    BY <1>27, <2>1, <2>2 DEF SwapInAdd
  <2>7. SoloLoop'
    BY <1>27, <2>1, <2>2 DEF SwapInAdd
  <2>8. ASSUME NEW g \in Fibers PROVE HasPlace(g)'
    BY <1>27, HasPlace(g), <2>1, <2>2 DEF SwapInAdd
  <2> QED BY <2>3, <2>4, <2>5, <2>6, <2>7, <2>8
<1>28. ASSUME NEW a \in Agents, Signal(a) PROVE Goal'
  <2>1. SoloPlaces'
    BY <1>28 DEF Signal
  <2>2. ASSUME NEW g \in Fibers PROVE HasPlace(g)'
    BY <1>28, HasPlace(g) DEF Signal
  <2> QED BY <2>1, <2>2
<1>29. CASE UNCHANGED vars
  <2>1. SoloPlaces'
    BY <1>29 DEF vars
  <2>2. ASSUME NEW g \in Fibers PROVE HasPlace(g)'
    BY <1>29, HasPlace(g) DEF vars
  <2> QED BY <2>1, <2>2
<1> HIDE DEF TypeInv, TypeOK, Held, Callers, Agents, SoloPlaces, OnThread, SoloQueue,
        SoloStates, SoloHands, SoloLoop, Solo, NoFiberLost, HasPlace, Awake, Goal
<1>30. ASSUME NEW t \in Threads, DispatchLoop(t) PROVE Goal'
  BY <1>30, <1>2, <1>3, <1>4, <1>5, <1>8, <1>7, <1>9, <1>10, <1>11, <1>12 DEF DispatchLoop
<1>31. ASSUME NEW f \in Fibers, FiberCall(f) PROVE Goal'
  BY <1>31, <1>14, <1>15, <1>16, <1>17, <1>18 DEF FiberCall
<1>32. ASSUME NEW o \in Outsiders, ThreadCall(o) PROVE Goal'
  BY <1>32, <1>19, <1>20, <1>21 DEF ThreadCall
<1>33. ASSUME NEW c \in Callers, NEW b \in Blockers, WakeUp(c, b) PROVE Goal'
  BY <1>33, <1>22, <1>23, <1>24 DEF WakeUp
<1>34. ASSUME NEW a \in Agents, Waker(a) PROVE Goal'
  BY <1>34, <1>25, <1>26, <1>27, <1>28 DEF Waker
<1>35. Goal'
  BY <1>1, <1>6, <1>13, <1>29, <1>30, <1>31, <1>32, <1>33, <1>34 DEF Next
<1> QED BY <1>35 DEF Goal

LEMMA SoloStep ==
    ASSUME Solo, SoloInv, SoloInv', [Next]_vars
    PROVE  Sem!Next \/ UNCHANGED Sem!vars
<1> DEFINE Step == Sem!Next \/ UNCHANGED Sem!vars
<1>t. TypeInv /\ TypeInv'
  BY DEF SoloInv
<1>s. ASSUME \A c \in Callers : Granted(c)' <=> Granted(c), UNCHANGED <<wakeup, waitsOn, timed>>
      PROVE  Step
  <2>1. GrantedIn' = GrantedIn
    BY <1>t, <1>s, GrantedSame
  <2> QED BY <1>s, <2>1 DEF Sem!vars, GrantedIn
<1> USE FiberBlockerAssumption
    DEF SoloInv, TypeInv, TypeOK, Held, Callers, Agents, SoloPlaces, OnThread, SoloQueue,
        SoloStates, SoloHands, SoloLoop, Late, Queued, Waking, OnLoop,
        Solo, Awake, Granted, blockerVars, fiberVars, loopVars, wakeVars, callVars
<1> HIDE DEF Step
<1>1. ASSUME NEW f \in Fibers, Dispatch(f) PROVE Step
  <2>1. \A c \in Callers : Granted(c)' <=> Granted(c)
    BY <1>1 DEF Dispatch
  <2>2. UNCHANGED <<wakeup, waitsOn, timed>>
    BY <1>1 DEF Dispatch
  <2> QED BY <2>1, <2>2, <1>s
<1>2. ASSUME NEW t \in Threads, Start(t) PROVE Step
  <2>1. \A c \in Callers : Granted(c)' <=> Granted(c)
    BY <1>2 DEF Start
  <2>2. UNCHANGED <<wakeup, waitsOn, timed>>
    BY <1>2 DEF Start
  <2> QED BY <2>1, <2>2, <1>s
<1>3. ASSUME NEW t \in Threads, Poll(t) PROVE Step
  <2>1. Head(runq[t]) \in Fibers
    BY <1>3, HeadTailProperties DEF Poll
  <2>2. \A c \in Callers : Granted(c)' <=> Granted(c)
    BY <1>3, <2>1 DEF Poll
  <2>3. UNCHANGED <<wakeup, waitsOn, timed>>
    BY <1>3 DEF Poll
  <2> QED BY <2>2, <2>3, <1>s
<1>4. ASSUME NEW t \in Threads, PollEmpty(t) PROVE Step
  <2>1. \A c \in Callers : Granted(c)' <=> Granted(c)
    BY <1>4 DEF PollEmpty
  <2>2. UNCHANGED <<wakeup, waitsOn, timed>>
    BY <1>4 DEF PollEmpty
  <2> QED BY <2>1, <2>2, <1>s
<1>5. ASSUME NEW t \in Threads, OnceProcessEvents(t) PROVE Step
  <2>1. \A c \in Callers : Granted(c)' <=> Granted(c)
    BY <1>5 DEF OnceProcessEvents
  <2>2. UNCHANGED <<wakeup, waitsOn, timed>>
    BY <1>5 DEF OnceProcessEvents
  <2> QED BY <2>1, <2>2, <1>s
<1>6. ASSUME NEW t \in Threads, IdleTimeout(t) PROVE Step
  <2>1. \A c \in Callers : Granted(c)' <=> Granted(c)
    BY <1>6 DEF IdleTimeout
  <2>2. UNCHANGED <<wakeup, waitsOn, timed>>
    BY <1>6 DEF IdleTimeout
  <2> QED BY <2>1, <2>2, <1>s
<1>7. ASSUME NEW t \in Threads, EventsDone(t) PROVE Step
  <2>1. \A c \in Callers : Granted(c)' <=> Granted(c)
    BY <1>7 DEF EventsDone
  <2>2. UNCHANGED <<wakeup, waitsOn, timed>>
    BY <1>7 DEF EventsDone
  <2> QED BY <2>1, <2>2, <1>s
<1>8. ASSUME NEW t \in Threads, Requeue(t) PROVE Step
  <2>1. cur[t] \in Fibers /\ waitsOn[cur[t]] = None
    BY <1>8 DEF Requeue
  <2>2. \A c \in Callers : Granted(c)' <=> Granted(c)
    BY <1>8, <2>1 DEF Requeue
  <2>3. UNCHANGED <<wakeup, waitsOn, timed>>
    BY <1>8 DEF Requeue
  <2> QED BY <2>2, <2>3, <1>s
<1>9. ASSUME NEW t \in Threads, NEW f \in Fibers, TimeEventProc(t, f) PROVE Step
  <2>1. \A c \in Callers : Granted(c)' <=> Granted(c)
    BY <1>9 DEF TimeEventProc
  <2>2. UNCHANGED <<wakeup, waitsOn, timed>>
    BY <1>9 DEF TimeEventProc
  <2> QED BY <2>1, <2>2, <1>s
<1>10. ASSUME NEW f \in Fibers, Yield(f) PROVE Step
  <2>1. \A c \in Callers : Granted(c)' <=> Granted(c)
    BY <1>10 DEF Yield, Free, Runs
  <2>2. UNCHANGED <<wakeup, waitsOn, timed>>
    BY <1>10 DEF Yield, Free, Runs
  <2> QED BY <2>1, <2>2, <1>s
<1>11. ASSUME NEW t \in Threads, Reap(t) PROVE Step
  <2>1. cur[t] \in Fibers /\ waitsOn[cur[t]] = None
    BY <1>11 DEF Reap
  <2>2. \A c \in Callers : Granted(c)' <=> Granted(c)
    BY <1>11, <2>1 DEF Reap
  <2>3. UNCHANGED <<wakeup, waitsOn, timed>>
    BY <1>11 DEF Reap
  <2> QED BY <2>2, <2>3, <1>s
<1>12. ASSUME NEW f \in Fibers, Finish(f) PROVE Step
  <2>1. \A c \in Callers : Granted(c)' <=> Granted(c)
    BY <1>12 DEF Finish, Free, Runs
  <2>2. UNCHANGED <<wakeup, waitsOn, timed>>
    BY <1>12 DEF Finish, Free, Runs
  <2> QED BY <2>1, <2>2, <1>s
<1>13. ASSUME NEW a \in Agents, SwapInRead(a) PROVE Step
  <2>1. \A c \in Callers : Granted(c)' <=> Granted(c)
    BY <1>13 DEF SwapInRead
  <2>2. UNCHANGED <<wakeup, waitsOn, timed>>
    BY <1>13 DEF SwapInRead
  <2> QED BY <2>1, <2>2, <1>s
<1>14. ASSUME NEW a \in Agents, SwapInClear(a) PROVE Step
  <2>1. \A c \in Callers : Granted(c)' <=> Granted(c)
    BY <1>14 DEF SwapInClear
  <2>2. UNCHANGED <<wakeup, waitsOn, timed>>
    BY <1>14 DEF SwapInClear
  <2> QED BY <2>1, <2>2, <1>s
<1>15. ASSUME NEW a \in Agents, SwapInAdd(a) PROVE Step
  <2>1. \A c \in Callers : Granted(c)' <=> Granted(c)
    BY <1>15 DEF SwapInAdd
  <2>2. UNCHANGED <<wakeup, waitsOn, timed>>
    BY <1>15 DEF SwapInAdd
  <2> QED BY <2>1, <2>2, <1>s
<1>16. ASSUME NEW a \in Agents, Signal(a) PROVE Step
  <2>1. \A c \in Callers : Granted(c)' <=> Granted(c)
    BY <1>16 DEF Signal
  <2>2. UNCHANGED <<wakeup, waitsOn, timed>>
    BY <1>16 DEF Signal
  <2> QED BY <2>1, <2>2, <1>s
<1>17. ASSUME NEW t \in Threads, SwapOutTrue(t) PROVE Step
  <2>1. PICK f \in Fibers : f = cur[t]
    BY <1>17 DEF SwapOutTrue
  <2>2. Home[f] = t /\ pc[t] = "switch" /\ state[f] = "BLOCKED"
    BY <1>17, <2>1 DEF SwapOutTrue
  <2>3. PICK b \in Blockers : b = blocker[f] /\ b = waitsOn[f]
    <3>1. blocker[f] \in Blockers
      BY <1>17, <2>1 DEF SwapOutTrue
    <3>2. blocker[f] = waitsOn[f]
      BY <2>1, <2>2
    <3> QED BY <3>1, <3>2
  <2>4. \A x : InSeq(x, Append(waitQueue[b], f)) <=> InSeq(x, waitQueue[b]) \/ x = f
    <3>1. waitQueue[b] \in Seq(Callers) /\ f \in Callers
      OBVIOUS
    <3> QED BY ONLY <3>1, AppendFacts
  <2>5. \A c \in Callers : Granted(c)' <=> Granted(c)
    BY <1>17, <2>1, <2>2, <2>3, <2>4 DEF SwapOutTrue
  <2>6. UNCHANGED <<wakeup, waitsOn, timed>>
    BY <1>17 DEF SwapOutTrue
  <2> QED BY <2>5, <2>6, <1>s
<1>18. ASSUME NEW t \in Threads, SwapOutFalse(t) PROVE Step
  <2>1. cur[t] \in Fibers /\ pc[t] = "switch" /\ state[cur[t]] = "BLOCKED"
    BY <1>18 DEF SwapOutFalse
  <2>2. blocker[cur[t]] = waitsOn[cur[t]] /\ wakeup[waitsOn[cur[t]]] = 0
    BY <2>1
  <2> QED BY <1>18, <2>2 DEF SwapOutFalse, PermitLeft
<1>19. ASSUME NEW o \in Outsiders, ThreadCall(o) PROVE Step
  OBVIOUS
<1>20. ASSUME NEW c \in Callers, NEW b \in Blockers, WakeUpThread(c, b) PROVE Step
  BY <1>20 DEF WakeUpThread
<1>21. ASSUME NEW c \in Callers, NEW b \in Blockers, WaitNow(c, b) PROVE Step
  <2>1. waitsOn[c] = None /\ b # None
    BY <1>21 DEF WaitNow, PermitFound, Free, Runs
  <2>2. /\ wakeup[b] > 0 /\ wakeup' = [wakeup EXCEPT ![b] = @ - 1]
        /\ waitsOn' = [waitsOn EXCEPT ![c] = b] /\ timed' = timed
    BY <1>21, <2>1 DEF WaitNow, PermitFound, Free, Runs
  <2>3. Granted(c)'
    BY <1>21, <2>1 DEF WaitNow, PermitFound, Free, Runs
  <2>4. OthersGranted(c)
    BY <1>21, <2>1 DEF WaitNow, PermitFound, Free, Runs, OthersGranted
  <2>5. c \in Callers /\ waitsOn[c] = None
    BY <1>21, <2>1 DEF WaitNow, PermitFound, Free, Runs
  <2> HIDE DEF TypeInv, TypeOK, Held, Callers, Agents, SoloInv, SoloPlaces, OnThread, SoloQueue,
              SoloStates, SoloHands, SoloLoop, Solo, Awake, Granted
  <2>6. Sem!Acquire(c, b)
    BY <1>t, <2>2, <2>3, <2>4, <2>5, AcquireStep
  <2> QED BY <2>5, <2>6 DEF Step, Sem!Next
<1>22. ASSUME NEW f \in Fibers, NEW b \in Blockers, NEW tm \in BOOLEAN, FiberWait(f, b, tm) PROVE Step
  <2>0. f \in Steady
    BY DEF Steady
  <2>1. waitsOn[f] = None /\ OnLoop(f) /\ b # None
    BY <1>22 DEF FiberWait, Free, Runs
  <2>2. /\ wakeup' = wakeup /\ waitsOn' = [waitsOn EXCEPT ![f] = b]
        /\ \A d \in Callers \ {f} : timed'[d] = timed[d]
    BY <1>22, <2>1 DEF FiberWait, Free, Runs
  <2>3. \A d \in Callers : Granted(d)' <=> Granted(d)
    BY <1>22, <2>1 DEF FiberWait, Free, Runs
  <2>4. f \in Callers /\ waitsOn[f] = None
    BY <1>22, <2>1 DEF FiberWait, Free, Runs
  <2> HIDE DEF TypeInv, TypeOK, Held, Callers, Agents, SoloInv, SoloPlaces, OnThread, SoloQueue,
              SoloStates, SoloHands, SoloLoop, Solo, Awake, Granted
  <2>5. \E v \in BOOLEAN : Sem!Enter(f, b, v)
    BY <1>t, <2>0, <2>2, <2>3, <2>4, EnterStep
  <2> QED BY <2>4, <2>5 DEF Step, Sem!Next
<1>23. ASSUME NEW f \in Fibers, WaitReturn(f) PROVE Step
  <2>1. waitsOn[f] # None /\ OnLoop(f) /\ pc[Home[f]] = "run" /\ ~timed[f]
    BY <1>23 DEF WaitReturn, Runs
  <2>2. state[f] # "BLOCKED"
    BY <1>23, <2>1 DEF WaitReturn, Runs
  <2>3. ~InSeq(f, waitQueue[waitsOn[f]])
    BY <1>23, <2>1, <2>2 DEF WaitReturn, Runs
  <2>4. /\ wakeup' = wakeup /\ waitsOn' = [waitsOn EXCEPT ![f] = None]
        /\ timed' = [timed EXCEPT ![f] = FALSE]
    BY <1>23, <2>1, <2>2, <2>3 DEF WaitReturn, Runs
  <2>5. Granted(f)
    BY <1>23, <2>1, <2>2, <2>3 DEF WaitReturn, Runs
  <2>6. OthersGranted(f)
    BY <1>23, <2>1, <2>2, <2>3 DEF WaitReturn, Runs, OthersGranted
  <2>7. f \in Callers /\ waitsOn[f] # None
    BY <1>23, <2>1, <2>2, <2>3 DEF WaitReturn, Runs
  <2> HIDE DEF TypeInv, TypeOK, Held, Callers, Agents, SoloInv, SoloPlaces, OnThread, SoloQueue,
              SoloStates, SoloHands, SoloLoop, Solo, Awake, Granted
  <2>8. Sem!Return(f)
    BY <1>t, <2>4, <2>5, <2>6, <2>7, ReturnStep
  <2> QED BY <2>7, <2>8 DEF Step, Sem!Next
<1>24. ASSUME NEW c \in Callers, NEW b \in Blockers, WakeUpFiber(c, b) PROVE Step
  <2>1. waitQueue[b] \in Seq(Callers) /\ waitQueue[b] # <<>> /\ Once(waitQueue[b])
    BY <1>24 DEF WakeUpFiber, Free, Runs, AgentOf
  <2>2. PICK h \in Fibers : h = Head(waitQueue[b])
    BY <1>24, <2>1 DEF WakeUpFiber, Free, Runs, AgentOf
  <2>3. \A x : InSeq(x, Tail(waitQueue[b])) <=> InSeq(x, waitQueue[b]) /\ x # h
    BY <2>1, <2>2, TailFacts
  <2>4. InSeq(h, waitQueue[b])
    BY <2>1, <2>2, TailFacts
  <2>5. waitsOn[h] = b /\ b # None /\ ~OnLoop(h)
    BY <1>24, <2>1, <2>2, <2>3, <2>4 DEF WakeUpFiber, Free, Runs, AgentOf
  <2>6. waitQueue'[b] = Tail(waitQueue[b]) /\ waitsOn' = waitsOn /\ cur' = cur
    BY <1>24, <2>1, <2>2, <2>3, <2>4, <2>5 DEF WakeUpFiber, Free, Runs, AgentOf
  <2>7. UNCHANGED <<wakeup, waitsOn, timed>>
    BY <1>24, <2>1, <2>2, <2>3, <2>4, <2>5, <2>6 DEF WakeUpFiber, Free, Runs, AgentOf
  <2>8. ~Granted(h)
    BY <1>24, <2>1, <2>2, <2>3, <2>4, <2>5, <2>6 DEF WakeUpFiber, Free, Runs, AgentOf
  <2>9. Granted(h)'
    BY <1>24, <2>1, <2>2, <2>3, <2>4, <2>5, <2>6 DEF WakeUpFiber, Free, Runs, AgentOf
  <2>10. OthersGranted(h)
    BY <1>24, <2>1, <2>2, <2>3, <2>4, <2>5, <2>6 DEF WakeUpFiber, Free, Runs, AgentOf, OthersGranted
  <2>11. h \in Callers /\ waitsOn[h] # None
    BY <1>24, <2>1, <2>2, <2>3, <2>4, <2>5, <2>6 DEF WakeUpFiber, Free, Runs, AgentOf
  <2> HIDE DEF TypeInv, TypeOK, Held, Callers, Agents, SoloInv, SoloPlaces, OnThread, SoloQueue,
              SoloStates, SoloHands, SoloLoop, Solo, Awake, Granted
  <2>12. Sem!Handoff(h)
    BY <1>t, <2>7, <2>8, <2>9, <2>10, <2>11, HandoffStep
  <2> QED BY <2>11, <2>12 DEF Step, Sem!Next
<1>25. ASSUME NEW f \in Fibers, TimedReturn(f) PROVE Step
  <2>1. waitsOn[f] \in Blockers /\ waitsOn[f] # None /\ timed[f] /\ OnLoop(f) /\ pc[Home[f]] = "run"
    BY <1>25 DEF TimedReturn, Runs
  <2>2. PICK b \in Blockers : b = waitsOn[f]
    BY <2>1
  <2>3. /\ wakeup' = wakeup /\ waitsOn' = [waitsOn EXCEPT ![f] = None]
        /\ timed' = [timed EXCEPT ![f] = FALSE]
    BY <1>25 DEF TimedReturn
  <2>4. \A d \in Callers \ {f} : Granted(d)' <=> Granted(d)
    <3>1. \A x : InSeq(x, Withdrawn(waitQueue[b], f)) <=> InSeq(x, waitQueue[b]) /\ x # f
      <4>1. waitQueue[b] \in Seq(Callers) /\ Once(waitQueue[b])
        OBVIOUS
      <4> QED BY ONLY <4>1, WithdrawnFacts
    <3> QED BY <1>25, <2>1, <2>2, <2>3, <3>1 DEF TimedReturn
  <2>5. ~Granted(f)'
    BY <2>3
  <2>6. f \in Callers
    OBVIOUS
  <2> HIDE DEF TypeInv, TypeOK, Held, Callers, Agents, SoloInv, SoloPlaces, OnThread, SoloQueue,
              SoloStates, SoloHands, SoloLoop, Solo, Awake, Granted
  <2>7. CASE Granted(f)
    <3>1. Sem!Return(f)
      BY <1>t, <2>1, <2>3, <2>4, <2>6, <2>7, ReturnStep DEF OthersGranted
    <3> QED BY <2>6, <3>1 DEF Step, Sem!Next
  <2>8. CASE ~Granted(f)
    <3>1. \A d \in Callers : Granted(d)' <=> Granted(d)
      BY <2>4, <2>5, <2>8
    <3>2. Sem!GiveUp(f)
      BY <1>t, <2>1, <2>3, <2>6, <2>8, <3>1, GiveUpStep
    <3> QED BY <2>6, <3>2 DEF Step, Sem!Next
  <2> QED BY <2>7, <2>8
<1>26. ASSUME NEW c \in Callers, NEW b \in Blockers, WakeUpKeep(c, b) PROVE Step
  <2>1. GrantedIn' = GrantedIn
    BY <1>26, GrantedSame DEF WakeUpKeep
  <2>2. Sem!Release(b)
    BY <1>26, <2>1 DEF WakeUpKeep, BelowLimit, Sem!Release, GrantedIn
  <2> QED BY <2>2 DEF Step, Sem!Next
<1>27. ASSUME UNCHANGED vars PROVE Step
  <2>1. \A c \in Callers : Granted(c)' <=> Granted(c)
    BY <1>27 DEF vars
  <2>2. UNCHANGED <<wakeup, waitsOn, timed>>
    BY <1>27 DEF vars
  <2> QED BY <2>1, <2>2, <1>s
<1> HIDE DEF SoloInv, TypeInv, TypeOK, Held, Callers, Agents, SoloPlaces, OnThread, SoloQueue,
        SoloStates, SoloHands, SoloLoop, Awake, Granted
<1>28. ASSUME NEW t \in Threads, DispatchLoop(t) PROVE Step
  BY <1>28, <1>2, <1>3, <1>4, <1>5, <1>7, <1>9, <1>8, <1>18, <1>17, <1>11 DEF DispatchLoop
<1>29. ASSUME NEW f \in Fibers, FiberCall(f) PROVE Step
  BY <1>29, <1>22, <1>23, <1>25, <1>10, <1>12 DEF FiberCall
<1>30. ASSUME NEW c \in Callers, NEW b \in Blockers, WakeUp(c, b) PROVE Step
  BY <1>30, <1>26, <1>20, <1>24 DEF WakeUp
<1>31. ASSUME NEW a \in Agents, Waker(a) PROVE Step
  BY <1>31, <1>13, <1>14, <1>15, <1>16 DEF Waker
<1> HIDE DEF Solo
<1>32. Step
  BY <1>1, <1>6, <1>21, <1>19, <1>27, <1>28, <1>29, <1>30, <1>31 DEF Next
<1> QED BY <1>32 DEF Step

LEMMA SoloInvariant == ASSUME Solo PROVE Spec => []SoloInv
<1>1. Init => SoloPlaces
  <2> SUFFICES ASSUME Init PROVE SoloPlaces
    OBVIOUS
  <2>1. Once(<<>>) /\ \A x : ~InSeq(x, <<>>)
    BY DEF Once, InSeq
  <2> QED BY <2>1, FiberBlockerAssumption
          DEF Init, SoloPlaces, OnThread, SoloQueue, SoloStates, SoloHands, SoloLoop, Queued,
              OnLoop, Waking, Callers, Agents
<1>2. Init => SoloInv
  BY <1>1, InitTypeInv, InitPlaces DEF SoloInv
<1>3. SoloInv /\ [Next]_vars => SoloInv'
  BY NextTypeInv, NextAwake, NextSoloPlaces DEF SoloInv
<1> QED BY <1>2, <1>3, PTL DEF Spec

-----------------------------------------------------------------------------
(* What follows holds on one thread, whatever the fibers' code does, and   *)
(* on any number of threads where it has no timed waits, which a timer and *)
(* a waker on another thread may end at once, and no yield(), which a      *)
(* fiber that swapOut() gave a permit to must not call: its state is still *)
(* BLOCKED, and the loop would swap it out again.                          *)

LEMMA QueuedOnceFromThread == TypeInv /\ OnThread => QueuedOnce
BY FiberBlockerAssumption
   DEF TypeInv, TypeOK, OnThread, Queued, QueuedOnce, Occurrences, Once, InSeq, OnLoop

(* A fiber is in one place, whoever resumes it, and is never lost: not on  *)
(* its thread's queue twice, and not off every queue.                      *)
THEOREM InOnePlaceHolds == ASSUME Plain \/ Solo PROVE Spec => []InOnePlace
<1>1. PlainInv \/ SoloInv => InOnePlace
  BY QueuedOnceFromThread DEF PlainInv, Places, SoloInv, SoloPlaces, InOnePlace
<1>2. CASE Plain
  BY <1>1, <1>2, PlainInvariant, PTL
<1>3. CASE Solo
  BY <1>1, <1>3, SoloInvariant, PTL
<1> QED BY <1>2, <1>3

(* The assertion of the dispatch loop holds: the failure that TLC finds    *)
(* takes two threads and a timed wait.                                     *)
THEOREM AssertBlockerHolds == ASSUME Plain \/ Solo PROVE Spec => []AssertBlocker
<1>1. PlainInv => AssertBlocker
  BY DEF PlainInv, Places, LoopShape, AssertBlocker
<1>2. SoloInv => AssertBlocker
  BY DEF SoloInv, TypeInv, Held, SoloPlaces, SoloStates, SoloLoop, AssertBlocker
<1>3. CASE Plain
  BY <1>1, <1>3, PlainInvariant, PTL
<1>4. CASE Solo
  BY <1>2, <1>4, SoloInvariant, PTL
<1> QED BY <1>3, <1>4

(* Each blocker implements a counting semaphore: no permit is lost,        *)
(* invented or given twice, in whichever order wait(), swapOut(), wakeUp() *)
(* and the timers come, step by step of the semaphore.                     *)
THEOREM ImplementsSemaphoreHolds == ASSUME Plain \/ Solo PROVE Spec => ImplementsSemaphore
<1>1. Init => Sem!Init
  BY DEF Init, Sem!Init, Granted
<1>2. CASE Plain
  <2>1. PlainInv /\ PlainInv' /\ [Next]_vars => [Sem!Next]_(Sem!vars)
    BY <1>2, PlainStep
  <2> QED BY <1>1, <1>2, <2>1, PlainInvariant, PTL DEF Spec, ImplementsSemaphore, Sem!Spec
<1>3. CASE Solo
  <2>1. SoloInv /\ SoloInv' /\ [Next]_vars => [Sem!Next]_(Sem!vars)
    BY <1>3, SoloStep
  <2> QED BY <1>1, <1>3, <2>1, SoloInvariant, PTL DEF Spec, ImplementsSemaphore, Sem!Spec
<1> QED BY <1>2, <1>3

=============================================================================
