------------------------ MODULE FiberSchedulerProofs ------------------------
(***************************************************************************)
(* Proofs about FiberScheduler, for every finite set of fibers and every   *)
(* set of threads, with and without interrupt().                           *)
(***************************************************************************)
EXTENDS FiberScheduler, FiniteSetTheorems, SequenceTheorems, TLAPS

(* A thread in the middle of a dispatch holds a fiber, one that is not     *)
(* holds none, and only a running fiber is inside schedule().              *)
Held ==
    \A t \in Threads :
        /\ pc[t] \in {"run", "switch", "epoll"} => cur[t] # None
        /\ pc[t] \notin {"run", "switch", "epoll", "timers"} => cur[t] = None
        /\ call[t] # "none" => pc[t] = "run"
        /\ call[t] = "add" <=> task[t] # None
        /\ call[t] = "add" => dest[t] \in Threads

(* Until join() is called, nothing runs and nothing is handed out.         *)
NotBegun ==
    pc[Main] = "setup" =>
        \A t \in Threads : queue[t] = <<>> /\ (t # Main => pc[t] = "off")

Once(s) == \A i, j \in 1..Len(s) : s[i] = s[j] => i = j

(* No fiber is in two places.                                              *)
Apart ==
    /\ Once(defq)
    /\ \A t \in Threads : Once(queue[t])
    /\ \A f \in Fibers, t \in Threads :
           InSeq(f, defq) => ~InSeq(f, queue[t]) /\ cur[t] # f /\ task[t] # f
    /\ \A f \in Fibers, t, u \in Threads :
           InSeq(f, queue[t]) =>
               cur[u] # f /\ task[u] # f /\ (InSeq(f, queue[u]) => t = u)
    /\ \A f \in Fibers, t, u \in Threads :
           task[t] = f => cur[u] # f /\ (task[u] = f => t = u)

(* Where a fiber is bound to.                                              *)
Bound ==
    \A f \in Fibers :
        /\ fstate[f] = "NEW" => bound[f] = None
        /\ fstate[f] \in {"WAITING", "BLOCKED", "TERMINATED"} => bound[f] # None
        /\ InSeq(f, defq) => bound[f] = None
        /\ \A t \in Threads :
               /\ InSeq(f, queue[t]) => bound[f] \in {None, t}
               /\ cur[t] = f => bound[f] = t
               /\ task[t] = f => bound[f] = None
               /\ f \in timers[t] => bound[f] = t

(* What the place of a fiber says about its state ...                       *)
Fitting ==
    \A f \in Fibers :
        /\ InSeq(f, defq) => fstate[f] = "RUNNABLE"
        /\ \A t \in Threads :
               /\ InSeq(f, queue[t]) \/ task[t] = f => fstate[f] = "RUNNABLE"
               /\ cur[t] = f =>
                      \/ fstate[f] = "RUNNABLE"
                      \/ pc[t] = "switch" /\ fstate[f] \in {"WAITING", "BLOCKED", "TERMINATED"}
               /\ f \in timers[t] => fstate[f] = "WAITING"

(* ... and that it has one.                                                *)
HasPlace(f) ==
    /\ fstate[f] = "RUNNABLE" =>
           \/ InSeq(f, defq)
           \/ \E t \in Threads : InSeq(f, queue[t]) \/ cur[t] = f \/ task[t] = f
    /\ fstate[f] = "WAITING" => \E t \in Threads : f \in timers[t]
    /\ fstate[f] = "TERMINATED" => \E t \in Threads : cur[t] = f

Placed == \A f \in Fibers : HasPlace(f)

(* A thread that read zero in the counter, or has left, read it when no    *)
(* fiber was left, and none can come back to life.                         *)
Done ==
    \A t \in Threads :
        /\ pc[t] = "poll" /\ saw[t] = 0 => Live = {}
        /\ Left(t) => interrupted \/ Live = {}

Structure == TypeOK /\ Held /\ NotBegun /\ Apart /\ Bound /\ Fitting /\ Placed
IInv == Structure /\ CounterExact /\ Done /\ CleanReturnMeansDone

-----------------------------------------------------------------------------
(* The queues, as the sets of what is in them.                             *)

LEMMA EmptyFacts == Once(<<>>) /\ \A x : ~InSeq(x, <<>>)
BY DEF Once, InSeq

LEMMA AppendFacts ==
    ASSUME NEW S, NEW s \in Seq(S), NEW e \in S
    PROVE  /\ Append(s, e) \in Seq(S)
           /\ \A x : InSeq(x, Append(s, e)) <=> InSeq(x, s) \/ x = e
           /\ Once(s) /\ ~InSeq(e, s) => Once(Append(s, e))
<1>1. /\ Append(s, e) \in Seq(S) /\ Len(Append(s, e)) = Len(s) + 1
      /\ \A i \in 1..Len(s) : Append(s, e)[i] = s[i]
      /\ Append(s, e)[Len(s) + 1] = e
  BY AppendProperties
<1>2. Len(s) \in Nat
  BY LenProperties
<1>3. \A x : InSeq(x, Append(s, e)) <=> InSeq(x, s) \/ x = e
  BY <1>1, <1>2 DEF InSeq
<1>4. Once(s) /\ ~InSeq(e, s) => Once(Append(s, e))
  BY <1>1, <1>2 DEF InSeq, Once
<1> QED BY <1>1, <1>3, <1>4

LEMMA TailFacts ==
    ASSUME NEW S, NEW s \in Seq(S), s # <<>>
    PROVE  /\ Head(s) \in S /\ Tail(s) \in Seq(S)
           /\ InSeq(Head(s), s)
           /\ Once(s) => /\ Once(Tail(s))
                         /\ \A x : InSeq(x, Tail(s)) <=> InSeq(x, s) /\ x # Head(s)
<1>1. /\ Head(s) \in S /\ Tail(s) \in Seq(S)
      /\ Head(s) = s[1] /\ Len(Tail(s)) = Len(s) - 1
      /\ \A i \in 1..Len(Tail(s)) : Tail(s)[i] = s[i + 1]
  BY HeadTailProperties
<1>2. Len(s) \in Nat /\ Len(s) # 0
  BY LenProperties, EmptySeq
<1>3. InSeq(Head(s), s)
  BY <1>1, <1>2 DEF InSeq
<1>4. ASSUME Once(s) PROVE Once(Tail(s))
  BY <1>1, <1>2, <1>4 DEF Once
<1>5. ASSUME Once(s), NEW x PROVE InSeq(x, Tail(s)) <=> InSeq(x, s) /\ x # Head(s)
  <2>1. ASSUME NEW i \in 1..Len(Tail(s)), Tail(s)[i] = x PROVE InSeq(x, s) /\ x # Head(s)
    BY <1>1, <1>2, <1>5, <2>1 DEF InSeq, Once
  <2>2. ASSUME NEW i \in 1..Len(s), s[i] = x, x # Head(s) PROVE InSeq(x, Tail(s))
    <3>1. i - 1 \in 1..Len(Tail(s)) /\ Tail(s)[i - 1] = x
      BY <1>1, <1>2, <2>2
    <3> QED BY <3>1 DEF InSeq
  <2> QED BY <2>1, <2>2 DEF InSeq
<1> QED BY <1>1, <1>3, <1>4, <1>5

-----------------------------------------------------------------------------
(* Types, and which threads hold a fiber.                                  *)

Shape == TypeOK /\ Held /\ NotBegun

LEMMA InitShape == Init => Shape
<1> SUFFICES ASSUME Init PROVE Shape
  OBVIOUS
<1>1. <<>> \in Seq(Fibers)
  BY EmptySeq
<1>2. TypeOK
  BY <1>1, FiberSchedulerAssumption DEF Init, TypeOK
<1>3. Held /\ NotBegun
  BY FiberSchedulerAssumption DEF Init, Held, NotBegun
<1> QED BY <1>2, <1>3 DEF Shape

(* Every step keeps them; that the counter is not lowered below zero needs *)
(* that the fiber being deleted is counted.                                *)
LEMMA NextShape == Shape /\ (total = 0 => Live = {}) /\ [Next]_vars => Shape'
<1> SUFFICES ASSUME Shape, total = 0 => Live = {}, [Next]_vars PROVE Shape'
  OBVIOUS
<1> USE FiberSchedulerAssumption
    DEF Shape, TypeOK, Held, NotBegun, Goto, Workers, fiberVars, loopVars, callVars, endVars
<1>1. ASSUME NEW f \in Fibers, Schedule(f) PROVE Shape'
  <2>1. Append(defq, f) \in Seq(Fibers)
    BY AppendFacts
  <2> QED BY <1>1, <2>1 DEF Schedule, CountUp
<1>2. ASSUME Join PROVE Shape'
  <2>2. TypeOK'
    BY <1>2 DEF Join
  <2>3. Held'
    <3>1. pc' = [pc EXCEPT ![Main] = "dispatch"] /\ pc[Main] = "setup"
      BY <1>2 DEF Join
    <3>2. UNCHANGED <<cur, call, task, dest>>
      BY <1>2 DEF Join
    <3> QED BY <3>1, <3>2
  <2>4. NotBegun'
    BY <1>2 DEF Join
  <2> QED BY <2>2, <2>3, <2>4
<1>3. ASSUME JoinAlone PROVE Shape'
  <2>1. <<>> \in Seq(Fibers)
    BY EmptySeq
  <2> QED BY <1>3, <2>1 DEF JoinAlone
<1>4. ASSUME NEW t \in Threads, Dispatch(t) PROVE Shape'
  <2>1. Tail(defq) \in Seq(Fibers) /\ Append(queue[t], Head(defq)) \in Seq(Fibers)
    BY <1>4, TailFacts, AppendFacts DEF Dispatch
  <2> QED BY <1>4, <2>1 DEF Dispatch
<1>5. ASSUME NEW w \in Workers, StartWorker(w) PROVE Shape'
  BY <1>5 DEF StartWorker
<1>6. ASSUME EnterLoop PROVE Shape'
  BY <1>6 DEF EnterLoop
<1>7. ASSUME NEW t \in Threads, Poll(t) PROVE Shape'
  <2>1. Head(queue[t]) \in Fibers /\ Tail(queue[t]) \in Seq(Fibers)
    BY <1>7, TailFacts DEF Poll
  <2> QED BY <1>7, <2>1 DEF Poll
<1>8. ASSUME NEW t \in Threads, Top(t) PROVE Shape'
  BY <1>8 DEF Top
<1>9. ASSUME NEW t \in Threads, TopInterrupted(t) PROVE Shape'
  BY <1>9 DEF TopInterrupted, Others
<1>10. ASSUME NEW t \in Threads, PollEmpty(t) PROVE Shape'
  BY <1>10 DEF PollEmpty, StaysFor
<1>11. ASSUME NEW t \in Threads, Hang(t) PROVE Shape'
  BY <1>11 DEF Hang
<1>12. ASSUME NEW t \in Threads, Leave(t) PROVE Shape'
  BY <1>12 DEF Leave, Others, StaysFor
<1>13. ASSUME NEW t \in Threads, OnceProcessEvents(t) PROVE Shape'
  <2>1. /\ pc' = [pc EXCEPT ![t] = "timers"]
        /\ pipe' = [pipe EXCEPT ![t] = FALSE]
        /\ pc[t] \in {"epoll", "idle"}
        /\ UNCHANGED <<group, fiberVars, saw, cur, timers, waiters, hung, callVars, endVars>>
    BY <1>13 DEF OnceProcessEvents
  <2>2. TypeOK'
    <3>1. pc' \in [Threads -> {"setup", "dispatch", "off", "top", "poll", "hang", "idle",
                               "epoll", "timers", "run", "switch", "clean", "joining",
                               "exited", "thrown", "returned"}]
      BY <2>1
    <3>2. pipe' \in [Threads -> BOOLEAN]
      BY <2>1
    <3> QED BY <2>1, <3>1, <3>2
  <2>3. Held'
    BY <1>13 DEF OnceProcessEvents
  <2>4. NotBegun'
    BY <1>13 DEF OnceProcessEvents
  <2> QED BY <2>2, <2>3, <2>4
<1>14. ASSUME NEW t \in Threads, IdleTimeout(t) PROVE Shape'
  BY <1>14 DEF IdleTimeout
<1>15. ASSUME NEW t \in Threads, EventsDone(t) PROVE Shape'
  BY <1>15 DEF EventsDone
<1>16. ASSUME NEW t \in Threads, Suspended(t) PROVE Shape'
  BY <1>16 DEF Suspended
<1>17. ASSUME NEW t \in Threads, NEW f \in Fibers, Fire(t, f) PROVE Shape'
  <2>1. \A u \in Threads : Append(queue[u], f) \in Seq(Fibers)
    BY AppendFacts
  <2> QED BY <1>17, <2>1 DEF Fire, Resumed
<1>18. ASSUME NEW t \in Threads, Requeue(t) PROVE Shape'
  <2>1. Append(queue[t], cur[t]) \in Seq(Fibers)
    BY <1>18, AppendFacts DEF Requeue
  <2> QED BY <1>18, <2>1 DEF Requeue
<1>19. ASSUME NEW t \in Threads, Reap(t) PROVE Shape'
  <2>1. cur[t] \in Live
    BY <1>19 DEF Reap, Live
  <2>2. total' \in Nat
    BY <1>19, <2>1 DEF Reap, CountDown
  <2> QED BY <1>19, <2>2 DEF Reap
<1>20. ASSUME NEW t \in Threads, Yield(t) PROVE Shape'
  BY <1>20 DEF Yield, Runs
<1>21. ASSUME NEW t \in Threads, Sleep(t) PROVE Shape'
  BY <1>21 DEF Sleep, Runs
<1>22. ASSUME NEW t \in Threads, SleepReturn(t) PROVE Shape'
  BY <1>22 DEF SleepReturn, Runs
<1>23. ASSUME NEW t \in Threads, Block(t) PROVE Shape'
  BY <1>23 DEF Block, Runs
<1>24. ASSUME NEW t \in Threads, Finish(t) PROVE Shape'
  BY <1>24 DEF Finish, Runs
<1>25. ASSUME NEW t \in Threads, NEW f \in Fibers, WakeUp(t, f) PROVE Shape'
  <2>1. \A u \in Threads : Append(queue[u], f) \in Seq(Fibers)
    BY AppendFacts
  <2>2. TypeOK'
    BY <1>25, <2>1 DEF WakeUp, Runs, Resumed
  <2>3. Held'
    BY <1>25 DEF WakeUp, Runs, Resumed
  <2>4. NotBegun'
    BY <1>25 DEF WakeUp, Runs, Resumed
  <2> QED BY <2>2, <2>3, <2>4
<1>26. ASSUME NEW t \in Threads, NEW d \in Threads, NEW g \in Fibers, Spawn(t, g, d) PROVE Shape'
  BY <1>26 DEF Spawn, Runs, CountUp
<1>27. ASSUME NEW t \in Threads, SpawnAdd(t) PROVE Shape'
  <2>1. Append(queue[dest[t]], task[t]) \in Seq(Fibers)
    BY <1>27, AppendFacts DEF SpawnAdd
  <2>2. TypeOK'
    BY <1>27, <2>1 DEF SpawnAdd
  <2>3. Held'
    BY <1>27 DEF SpawnAdd
  <2>4. NotBegun'
    BY <1>27 DEF SpawnAdd
  <2> QED BY <2>2, <2>3, <2>4
<1>28. ASSUME NEW t \in Threads, SpawnReadHung(t) PROVE Shape'
  BY <1>28 DEF SpawnReadHung
<1>29. ASSUME NEW t \in Threads, SignalDest(t) PROVE Shape'
  <2>2. TypeOK'
    BY <1>29 DEF SignalDest
  <2>3. Held'
    BY <1>29 DEF SignalDest
  <2>4. NotBegun'
    BY <1>29 DEF SignalDest
  <2> QED BY <2>2, <2>3, <2>4
<1>30. ASSUME NEW t \in Threads, InterruptReturn(t) PROVE Shape'
  BY <1>30 DEF InterruptReturn
<1>31. ASSUME NEW c \in Threads \union {None}, Interrupt(c) PROVE Shape'
  <2>2. TypeOK'
    BY <1>31 DEF Interrupt, Runs, Pollers, Alone
  <2>3. Held'
    BY <1>31 DEF Interrupt, Runs, Pollers, Alone
  <2>4. NotBegun'
    BY <1>31 DEF Interrupt, Runs, Pollers, Alone
  <2> QED BY <2>2, <2>3, <2>4
<1>32. ASSUME NEW t \in Threads, InterruptSignal(t) PROVE Shape'
  BY <1>32 DEF InterruptSignal
<1>33. ASSUME NEW t \in Threads, NEW u \in Threads, CleanSignal(t, u) PROVE Shape'
  BY <1>33 DEF CleanSignal
<1>34. ASSUME NEW w \in Workers, ExitWorker(w) PROVE Shape'
  BY <1>34 DEF ExitWorker, ErrorAfter
<1>35. ASSUME ExitMain PROVE Shape'
  BY <1>35 DEF ExitMain
<1>36. ASSUME Return PROVE Shape'
  BY <1>36 DEF Return
<1>37. CASE UNCHANGED vars
  BY <1>37 DEF vars
<1> HIDE FiberSchedulerAssumption
         DEF Shape, TypeOK, Held, NotBegun, Goto, Workers,
             fiberVars, loopVars, callVars, endVars
<1>38. ASSUME Begin PROVE Shape'
  BY <1>38, <1>2, <1>3, <1>4, <1>5, <1>6 DEF Begin
<1>39. ASSUME NEW t \in Threads, Loop(t) PROVE Shape'
  BY <1>39, <1>8, <1>9, <1>7, <1>10, <1>11, <1>12, <1>13, <1>17, <1>15, <1>18, <1>16, <1>19 DEF Loop
<1>40. ASSUME NEW t \in Threads, Call(t) PROVE Shape'
  BY <1>40, <1>22, <1>27, <1>28, <1>29, <1>30 DEF Call
<1>41. ASSUME NEW t \in Threads, GiveBack(t) PROVE Shape'
  BY <1>41, <1>20, <1>21, <1>23, <1>24 DEF GiveBack
<1>42. ASSUME NEW t \in Threads, Exit(t) PROVE Shape'
  BY <1>42, <1>33, <1>34, <1>35, <1>36 DEF Exit
<1> QED
  BY <1>1, <1>38, <1>39, <1>14, <1>41, <1>40, <1>42, <1>26, <1>25, <1>31, <1>32, <1>37 DEF Next

-----------------------------------------------------------------------------
(* Where the fibers are.                                                   *)

Where == Apart /\ Bound /\ Fitting /\ Placed

LEMMA InitWhere == Init => Where
BY EmptyFacts, FiberSchedulerAssumption
   DEF Init, Where, Apart, Bound, Fitting, Placed, HasPlace

(* A step that moves no fiber, and takes no thread out of the switch.      *)
LEMMA SamePlaces ==
    ASSUME Where, UNCHANGED <<fstate, bound, defq, queue, cur, task, timers>>,
           \A t \in Threads : pc[t] = "switch" => pc'[t] = "switch"
    PROVE  Where'
BY DEF Where, Apart, Bound, Fitting, Placed, HasPlace

(* A fiber whose state and places a step leaves alone keeps its place.     *)
LEMMA KeepsPlace ==
    ASSUME NEW g \in Fibers, HasPlace(g), fstate'[g] = fstate[g],
           InSeq(g, defq) => InSeq(g, defq'),
           \A u \in Threads : /\ InSeq(g, queue[u]) => InSeq(g, queue'[u])
                              /\ cur[u] = g => cur'[u] = g
                              /\ task[u] = g => task'[u] = g
                              /\ g \in timers[u] => g \in timers'[u]
    PROVE  HasPlace(g)'
<1>1. CASE fstate[g] = "RUNNABLE"
  BY <1>1 DEF HasPlace
<1>2. CASE fstate[g] = "WAITING"
  BY <1>2 DEF HasPlace
<1>3. CASE fstate[g] = "TERMINATED"
  BY <1>3 DEF HasPlace
<1> QED BY <1>1, <1>2, <1>3 DEF HasPlace

LEMMA NextWhere == Shape /\ Where /\ [Next]_vars => Where'
<1> SUFFICES ASSUME Shape, Where, [Next]_vars PROVE Where'
  OBVIOUS
<1> USE FiberSchedulerAssumption
    DEF Shape, TypeOK, Held, Goto, fiberVars, loopVars, callVars, endVars
<1>1. ASSUME NEW f \in Fibers, Schedule(f) PROVE Where'
  <2>1. /\ Once(Append(defq, f))
        /\ \A x : InSeq(x, Append(defq, f)) <=> InSeq(x, defq) \/ x = f
    BY <1>1, AppendFacts DEF Schedule, Where, Apart, Fitting
  <2>2. Apart'
    BY <1>1, <2>1 DEF Schedule, Where, Apart, Bound, Fitting
  <2>3. Bound'
    BY <1>1, <2>1 DEF Schedule, Where, Apart, Bound, Fitting
  <2>4. Fitting'
    BY <1>1, <2>1 DEF Schedule, Where, Apart, Bound, Fitting
  <2>5. ASSUME NEW g \in Fibers PROVE HasPlace(g)'
    <3>1. HasPlace(g)
      BY DEF Where, Placed
    <3>2. CASE g = f
      BY <1>1, <2>1, <3>1, <3>2 DEF Schedule, HasPlace
    <3>3. CASE g # f
      BY <1>1, <2>1, <3>1, <3>3 DEF Schedule, HasPlace
    <3> QED BY <3>2, <3>3
  <2> QED BY <2>2, <2>3, <2>4, <2>5 DEF Where, Placed
<1>2. ASSUME JoinAlone PROVE Where'
  <2>1. \A t \in Threads : queue[t] = <<>>
    BY <1>2 DEF JoinAlone, NotBegun
  <2>2. Once(<<>>) /\ \A x : ~InSeq(x, <<>>)
    BY EmptyFacts
  <2>3. Apart'
    BY <1>2, <2>1, <2>2 DEF JoinAlone, Where, Apart, Bound, Fitting
  <2>4. Bound'
    BY <1>2, <2>1, <2>2 DEF JoinAlone, Where, Apart, Bound, Fitting
  <2>5. Fitting'
    BY <1>2, <2>1, <2>2 DEF JoinAlone, Where, Apart, Bound, Fitting
  <2>6. Placed'
    BY <1>2, <2>1, <2>2 DEF JoinAlone, Where, Apart, Bound, Fitting, Placed, HasPlace
  <2> QED BY <2>3, <2>4, <2>5, <2>6 DEF Where
<1>3. ASSUME NEW t \in Threads, Dispatch(t) PROVE Where'
  <2>1. /\ Head(defq) \in Fibers /\ InSeq(Head(defq), defq)
        /\ Once(Tail(defq))
        /\ \A x : InSeq(x, Tail(defq)) <=> InSeq(x, defq) /\ x # Head(defq)
    BY <1>3, TailFacts DEF Dispatch, Where, Apart
  <2>2. /\ Once(Append(queue[t], Head(defq)))
        /\ \A x : InSeq(x, Append(queue[t], Head(defq))) <=> InSeq(x, queue[t]) \/ x = Head(defq)
    BY <2>1, AppendFacts DEF Where, Apart
  <2>3. Apart'
    BY <1>3, <2>1, <2>2 DEF Dispatch, Where, Apart, Bound, Fitting
  <2>4. Bound'
    BY <1>3, <2>1, <2>2 DEF Dispatch, Where, Apart, Bound, Fitting
  <2>5. Fitting'
    BY <1>3, <2>1, <2>2 DEF Dispatch, Where, Apart, Bound, Fitting
  <2>6. ASSUME NEW g \in Fibers PROVE HasPlace(g)'
    <3>1. HasPlace(g)
      BY DEF Where, Placed
    <3>2. CASE g = Head(defq)
      BY <1>3, <2>1, <2>2, <3>1, <3>2 DEF Dispatch, HasPlace, Where, Fitting
    <3>3. CASE g # Head(defq)
      BY <1>3, <2>1, <2>2, <3>1, <3>3 DEF Dispatch, HasPlace
    <3> QED BY <3>2, <3>3
  <2> QED BY <2>3, <2>4, <2>5, <2>6 DEF Where, Placed
<1>4. ASSUME NEW t \in Threads, Poll(t) PROVE Where'
  <2>1. /\ Head(queue[t]) \in Fibers /\ InSeq(Head(queue[t]), queue[t])
        /\ Once(Tail(queue[t]))
        /\ \A x : InSeq(x, Tail(queue[t])) <=> InSeq(x, queue[t]) /\ x # Head(queue[t])
    BY <1>4, TailFacts DEF Poll, Where, Apart
  <2>2. cur[t] = None
    BY <1>4 DEF Poll
  <2>3. Apart'
    BY <1>4, <2>1, <2>2 DEF Poll, Where, Apart, Bound, Fitting
  <2>4. Bound'
    BY <1>4, <2>1, <2>2 DEF Poll, Where, Apart, Bound, Fitting
  <2>5. Fitting'
    BY <1>4, <2>1, <2>2 DEF Poll, Where, Apart, Bound, Fitting
  <2>6. ASSUME NEW g \in Fibers PROVE HasPlace(g)'
    <3>1. HasPlace(g)
      BY DEF Where, Placed
    <3>2. CASE g = Head(queue[t])
      BY <1>4, <2>1, <2>2, <3>1, <3>2 DEF Poll, HasPlace, Where, Fitting
    <3>3. CASE g # Head(queue[t])
      <4>1. \A u \in Threads : /\ InSeq(g, queue[u]) => InSeq(g, queue'[u])
                               /\ cur[u] = g => cur'[u] = g
                               /\ task[u] = g => task'[u] = g
                               /\ g \in timers[u] => g \in timers'[u]
        BY <1>4, <2>1, <2>2, <3>3 DEF Poll
      <4>2. fstate'[g] = fstate[g] /\ defq' = defq
        BY <1>4, <2>1, <2>2, <3>3 DEF Poll
      <4> QED BY <3>1, <4>1, <4>2, KeepsPlace
    <3> QED BY <3>2, <3>3
  <2> QED BY <2>3, <2>4, <2>5, <2>6 DEF Where, Placed
<1>5. ASSUME NEW t \in Threads, NEW f \in Fibers, Fire(t, f) PROVE Where'
  <2>1. cur[t] # f
    BY <1>5 DEF Fire, Where, Fitting
  <2>2. /\ fstate[f] = "WAITING" /\ bound[f] = t
        /\ \A u \in Threads : cur[u] # f
    BY <1>5, <2>1 DEF Fire, Where, Bound, Fitting
  <2>3. /\ Once(Append(queue[t], f))
        /\ \A x : InSeq(x, Append(queue[t], f)) <=> InSeq(x, queue[t]) \/ x = f
    BY <2>2, AppendFacts DEF Where, Apart, Fitting
  <2>4. Apart'
    BY <1>5, <2>1, <2>2, <2>3 DEF Fire, Resumed, Where, Apart, Bound, Fitting
  <2>5. Bound'
    BY <1>5, <2>1, <2>2, <2>3 DEF Fire, Resumed, Where, Apart, Bound, Fitting
  <2>6. Fitting'
    BY <1>5, <2>1, <2>2, <2>3 DEF Fire, Resumed, Where, Apart, Bound, Fitting
  <2>7. ASSUME NEW g \in Fibers PROVE HasPlace(g)'
    <3>1. HasPlace(g)
      BY DEF Where, Placed
    <3>2. CASE g = f
      BY <1>5, <2>1, <2>2, <2>3, <3>1, <3>2 DEF Fire, Resumed, HasPlace
    <3>3. CASE g # f
      <4>1. \A u \in Threads : /\ InSeq(g, queue[u]) => InSeq(g, queue'[u])
                               /\ cur[u] = g => cur'[u] = g
                               /\ task[u] = g => task'[u] = g
                               /\ g \in timers[u] => g \in timers'[u]
        BY <1>5, <2>1, <2>2, <2>3, <3>3 DEF Fire, Resumed
      <4>2. fstate'[g] = fstate[g] /\ defq' = defq
        BY <1>5, <2>1, <2>2, <2>3, <3>3 DEF Fire, Resumed
      <4> QED BY <3>1, <4>1, <4>2, KeepsPlace
    <3> QED BY <3>2, <3>3
  <2> QED BY <2>4, <2>5, <2>6, <2>7 DEF Where, Placed
<1>6. ASSUME NEW t \in Threads, Requeue(t) PROVE Where'
  <2>1. cur[t] \in Fibers
    BY <1>6 DEF Requeue
  <2>2. /\ Once(Append(queue[t], cur[t]))
        /\ \A x : InSeq(x, Append(queue[t], cur[t])) <=> InSeq(x, queue[t]) \/ x = cur[t]
    BY <1>6, <2>1, AppendFacts DEF Requeue, Where, Apart
  <2>3. Apart'
    BY <1>6, <2>1, <2>2 DEF Requeue, Where, Apart, Bound, Fitting
  <2>4. Bound'
    BY <1>6, <2>1, <2>2 DEF Requeue, Where, Apart, Bound, Fitting
  <2>5. Fitting'
    BY <1>6, <2>1, <2>2 DEF Requeue, Where, Apart, Bound, Fitting
  <2>6. ASSUME NEW g \in Fibers PROVE HasPlace(g)'
    <3>1. HasPlace(g)
      BY DEF Where, Placed
    <3>2. CASE g = cur[t]
      BY <1>6, <2>1, <2>2, <3>1, <3>2 DEF Requeue, HasPlace
    <3>3. CASE g # cur[t]
      BY <1>6, <2>1, <2>2, <3>1, <3>3 DEF Requeue, HasPlace
    <3> QED BY <3>2, <3>3
  <2> QED BY <2>3, <2>4, <2>5, <2>6 DEF Where, Placed
<1>7. ASSUME NEW t \in Threads, Suspended(t) PROVE Where'
  <2>1. cur[t] \in Fibers
    BY <1>7 DEF Suspended
  <2>2. Apart'
    BY <1>7, <2>1 DEF Suspended, Where, Apart, Bound, Fitting
  <2>3. Bound'
    BY <1>7, <2>1 DEF Suspended, Where, Apart, Bound, Fitting
  <2>4. Fitting'
    BY <1>7, <2>1 DEF Suspended, Where, Apart, Bound, Fitting
  <2>5. ASSUME NEW g \in Fibers PROVE HasPlace(g)'
    <3>1. HasPlace(g)
      BY DEF Where, Placed
    <3>2. CASE g = cur[t]
      BY <1>7, <2>1, <3>1, <3>2 DEF Suspended, HasPlace
    <3>3. CASE g # cur[t]
      BY <1>7, <2>1, <3>1, <3>3 DEF Suspended, HasPlace
    <3> QED BY <3>2, <3>3
  <2> QED BY <2>2, <2>3, <2>4, <2>5 DEF Where, Placed
<1>8. ASSUME NEW t \in Threads, Reap(t) PROVE Where'
  <2>1. cur[t] \in Fibers
    BY <1>8 DEF Reap
  <2>2. Apart'
    BY <1>8, <2>1 DEF Reap, Where, Apart, Bound, Fitting
  <2>3. Bound'
    BY <1>8, <2>1 DEF Reap, Where, Apart, Bound, Fitting
  <2>4. Fitting'
    BY <1>8, <2>1 DEF Reap, Where, Apart, Bound, Fitting
  <2>5. ASSUME NEW g \in Fibers PROVE HasPlace(g)'
    <3>1. HasPlace(g)
      BY DEF Where, Placed
    <3>2. CASE g = cur[t]
      BY <1>8, <2>1, <3>1, <3>2 DEF Reap, HasPlace
    <3>3. CASE g # cur[t]
      BY <1>8, <2>1, <3>1, <3>3 DEF Reap, HasPlace
    <3> QED BY <3>2, <3>3
  <2> QED BY <2>2, <2>3, <2>4, <2>5 DEF Where, Placed
<1>9. ASSUME NEW t \in Threads, Yield(t) PROVE Where'
  <2>1. cur[t] \in Fibers
    BY <1>9 DEF Yield, Runs
  <2>2. Apart'
    BY <1>9, <2>1 DEF Yield, Runs, Where, Apart, Bound, Fitting
  <2>3. Bound'
    BY <1>9, <2>1 DEF Yield, Runs, Where, Apart, Bound, Fitting
  <2>4. Fitting'
    BY <1>9, <2>1 DEF Yield, Runs, Where, Apart, Bound, Fitting
  <2>5. Placed'
    BY <1>9, <2>1 DEF Yield, Runs, Where, Apart, Bound, Fitting, Placed, HasPlace
  <2> QED BY <2>2, <2>3, <2>4, <2>5 DEF Where
<1>10. ASSUME NEW t \in Threads, Sleep(t) PROVE Where'
  <2>1. cur[t] \in Fibers
    BY <1>10 DEF Sleep, Runs
  <2>2. Apart'
    BY <1>10, <2>1 DEF Sleep, Runs, Where, Apart, Bound, Fitting
  <2>3. Bound'
    BY <1>10, <2>1 DEF Sleep, Runs, Where, Apart, Bound, Fitting
  <2>4. Fitting'
    BY <1>10, <2>1 DEF Sleep, Runs, Where, Apart, Bound, Fitting
  <2>5. Placed'
    BY <1>10, <2>1 DEF Sleep, Runs, Where, Apart, Bound, Fitting, Placed, HasPlace
  <2> QED BY <2>2, <2>3, <2>4, <2>5 DEF Where
<1>11. ASSUME NEW t \in Threads, Block(t) PROVE Where'
  <2>1. cur[t] \in Fibers
    BY <1>11 DEF Block, Runs
  <2>2. Apart'
    BY <1>11, <2>1 DEF Block, Runs, Where, Apart, Bound, Fitting
  <2>3. Bound'
    BY <1>11, <2>1 DEF Block, Runs, Where, Apart, Bound, Fitting
  <2>4. Fitting'
    BY <1>11, <2>1 DEF Block, Runs, Where, Apart, Bound, Fitting
  <2>5. Placed'
    BY <1>11, <2>1 DEF Block, Runs, Where, Apart, Bound, Fitting, Placed, HasPlace
  <2> QED BY <2>2, <2>3, <2>4, <2>5 DEF Where
<1>12. ASSUME NEW t \in Threads, Finish(t) PROVE Where'
  <2>1. cur[t] \in Fibers
    BY <1>12 DEF Finish, Runs
  <2>2. Apart'
    BY <1>12, <2>1 DEF Finish, Runs, Where, Apart, Bound, Fitting
  <2>3. Bound'
    BY <1>12, <2>1 DEF Finish, Runs, Where, Apart, Bound, Fitting
  <2>4. Fitting'
    BY <1>12, <2>1 DEF Finish, Runs, Where, Apart, Bound, Fitting
  <2>5. Placed'
    BY <1>12, <2>1 DEF Finish, Runs, Where, Apart, Bound, Fitting, Placed, HasPlace
  <2> QED BY <2>2, <2>3, <2>4, <2>5 DEF Where
<1>13. ASSUME NEW t \in Threads, NEW f \in Fibers, WakeUp(t, f) PROVE Where'
  <2>1. /\ fstate[f] = "BLOCKED" /\ bound[f] \in Threads
        /\ \A u \in Threads : cur[u] # f
    BY <1>13 DEF WakeUp, Where, Bound
  <2>2. /\ Once(Append(queue[bound[f]], f))
        /\ \A x : InSeq(x, Append(queue[bound[f]], f)) <=> InSeq(x, queue[bound[f]]) \/ x = f
    BY <2>1, AppendFacts DEF Where, Apart, Fitting
  <2>3. Apart'
    BY <1>13, <2>1, <2>2 DEF WakeUp, Resumed, Where, Apart, Bound, Fitting
  <2>4. Bound'
    BY <1>13, <2>1, <2>2 DEF WakeUp, Resumed, Where, Apart, Bound, Fitting
  <2>5. Fitting'
    BY <1>13, <2>1, <2>2 DEF WakeUp, Resumed, Where, Apart, Bound, Fitting
  <2>6. ASSUME NEW g \in Fibers PROVE HasPlace(g)'
    <3>1. HasPlace(g)
      BY DEF Where, Placed
    <3>2. CASE g = f
      BY <1>13, <2>1, <2>2, <3>1, <3>2 DEF WakeUp, Resumed, HasPlace
    <3>3. CASE g # f
      BY <1>13, <2>1, <2>2, <3>1, <3>3 DEF WakeUp, Resumed, HasPlace
    <3> QED BY <3>2, <3>3
  <2> QED BY <2>3, <2>4, <2>5, <2>6 DEF Where, Placed
<1>14. ASSUME NEW t \in Threads, NEW d \in Threads, NEW h \in Fibers, Spawn(t, h, d) PROVE Where'
  <2>1. task[t] = None
    BY <1>14 DEF Spawn, Runs
  <2>2. Apart'
    BY <1>14, <2>1 DEF Spawn, Where, Apart, Bound, Fitting
  <2>3. Bound'
    BY <1>14, <2>1 DEF Spawn, Where, Apart, Bound, Fitting
  <2>4. Fitting'
    BY <1>14, <2>1 DEF Spawn, Where, Apart, Bound, Fitting
  <2>5. ASSUME NEW g \in Fibers PROVE HasPlace(g)'
    <3>1. HasPlace(g)
      BY DEF Where, Placed
    <3>2. CASE g = h
      BY <1>14, <2>1, <3>1, <3>2 DEF Spawn, HasPlace
    <3>3. CASE g # h
      BY <1>14, <2>1, <3>1, <3>3 DEF Spawn, HasPlace
    <3> QED BY <3>2, <3>3
  <2> QED BY <2>2, <2>3, <2>4, <2>5 DEF Where, Placed
<1>15. ASSUME NEW t \in Threads, SpawnAdd(t) PROVE Where'
  <2>1. task[t] \in Fibers /\ dest[t] \in Threads
    BY <1>15 DEF SpawnAdd
  <2>2. /\ Once(Append(queue[dest[t]], task[t]))
        /\ \A x : InSeq(x, Append(queue[dest[t]], task[t])) <=>
                  InSeq(x, queue[dest[t]]) \/ x = task[t]
    BY <2>1, AppendFacts DEF Where, Apart
  <2>3. Apart'
    BY <1>15, <2>1, <2>2 DEF SpawnAdd, Where, Apart, Bound, Fitting
  <2>4. Bound'
    BY <1>15, <2>1, <2>2 DEF SpawnAdd, Where, Apart, Bound, Fitting
  <2>5. Fitting'
    BY <1>15, <2>1, <2>2 DEF SpawnAdd, Where, Apart, Bound, Fitting
  <2>6. ASSUME NEW g \in Fibers PROVE HasPlace(g)'
    <3>1. HasPlace(g)
      BY DEF Where, Placed
    <3>2. CASE g = task[t]
      BY <1>15, <2>1, <2>2, <3>1, <3>2 DEF SpawnAdd, HasPlace
    <3>3. CASE g # task[t]
      <4>1. \A u \in Threads : /\ InSeq(g, queue[u]) => InSeq(g, queue'[u])
                               /\ cur[u] = g => cur'[u] = g
                               /\ task[u] = g => task'[u] = g
                               /\ g \in timers[u] => g \in timers'[u]
        BY <1>15, <2>1, <2>2, <3>3 DEF SpawnAdd
      <4>2. fstate'[g] = fstate[g] /\ defq' = defq
        BY <1>15, <2>1, <2>2, <3>3 DEF SpawnAdd
      <4> QED BY <3>1, <4>1, <4>2, KeepsPlace
    <3> QED BY <3>2, <3>3
  <2> QED BY <2>3, <2>4, <2>5, <2>6 DEF Where, Placed
<1>16. ASSUME Join PROVE Where'
  BY <1>16, SamePlaces DEF Join
<1>17. ASSUME NEW w \in Workers, StartWorker(w) PROVE Where'
  BY <1>17, SamePlaces DEF StartWorker, Workers
<1>18. ASSUME EnterLoop PROVE Where'
  BY <1>18, SamePlaces DEF EnterLoop
<1>19. ASSUME NEW t \in Threads, Top(t) PROVE Where'
  BY <1>19, SamePlaces DEF Top
<1>20. ASSUME NEW t \in Threads, TopInterrupted(t) PROVE Where'
  BY <1>20, SamePlaces DEF TopInterrupted
<1>21. ASSUME NEW t \in Threads, PollEmpty(t) PROVE Where'
  BY <1>21, SamePlaces DEF PollEmpty
<1>22. ASSUME NEW t \in Threads, Hang(t) PROVE Where'
  BY <1>22, SamePlaces DEF Hang
<1>23. ASSUME NEW t \in Threads, Leave(t) PROVE Where'
  BY <1>23, SamePlaces DEF Leave
<1>24. ASSUME NEW t \in Threads, OnceProcessEvents(t) PROVE Where'
  BY <1>24, SamePlaces DEF OnceProcessEvents
<1>25. ASSUME NEW t \in Threads, IdleTimeout(t) PROVE Where'
  BY <1>25, SamePlaces DEF IdleTimeout
<1>26. ASSUME NEW t \in Threads, SleepReturn(t) PROVE Where'
  BY <1>26, SamePlaces DEF SleepReturn
<1>27. ASSUME NEW t \in Threads, SpawnReadHung(t) PROVE Where'
  BY <1>27, SamePlaces DEF SpawnReadHung
<1>28. ASSUME NEW t \in Threads, SignalDest(t) PROVE Where'
  BY <1>28, SamePlaces DEF SignalDest
<1>29. ASSUME NEW t \in Threads, InterruptReturn(t) PROVE Where'
  BY <1>29, SamePlaces DEF InterruptReturn
<1>30. ASSUME NEW t \in Threads, InterruptSignal(t) PROVE Where'
  BY <1>30, SamePlaces DEF InterruptSignal
<1>31. ASSUME NEW t \in Threads, EventsDone(t) PROVE Where'
  BY <1>31, SamePlaces DEF EventsDone
<1>32. ASSUME NEW t \in Threads, NEW u \in Threads, CleanSignal(t, u) PROVE Where'
  BY <1>32, SamePlaces DEF CleanSignal
<1>33. ASSUME NEW w \in Workers, ExitWorker(w) PROVE Where'
  BY <1>33, SamePlaces DEF ExitWorker, Workers
<1>34. ASSUME ExitMain PROVE Where'
  BY <1>34, SamePlaces DEF ExitMain
<1>35. ASSUME Return PROVE Where'
  BY <1>35, SamePlaces DEF Return
<1>36. ASSUME NEW c \in Threads \union {None}, Interrupt(c) PROVE Where'
  BY <1>36, SamePlaces DEF Interrupt
<1>37. CASE UNCHANGED vars
  BY <1>37, SamePlaces DEF vars
<1> HIDE FiberSchedulerAssumption DEF Shape, TypeOK, Held, Goto, fiberVars, loopVars, callVars, endVars
<1>38. ASSUME Begin PROVE Where'
  BY <1>38, <1>16, <1>2, <1>3, <1>17, <1>18
  DEF Begin
<1>39. ASSUME NEW t \in Threads, Loop(t) PROVE Where'
  BY <1>39, <1>19, <1>20, <1>4, <1>21, <1>22, <1>23, <1>24, <1>5, <1>31, <1>6, <1>7, <1>8
  DEF Loop
<1>40. ASSUME NEW t \in Threads, Call(t) PROVE Where'
  BY <1>40, <1>26, <1>15, <1>27, <1>28, <1>29
  DEF Call
<1>41. ASSUME NEW t \in Threads, GiveBack(t) PROVE Where'
  BY <1>41, <1>9, <1>10, <1>11, <1>12
  DEF GiveBack
<1>42. ASSUME NEW t \in Threads, Exit(t) PROVE Where'
  BY <1>42, <1>32, <1>33, <1>34, <1>35
  DEF Exit
<1> QED
  BY <1>1, <1>38, <1>39, <1>25, <1>41, <1>40, <1>42, <1>14, <1>13, <1>36, <1>30, <1>37
  DEF Next

-----------------------------------------------------------------------------
(* The fibers that are left, and the counter.                              *)

(* A step counts one fiber more, one less, or none.  A fiber comes to life *)
(* before join() or while another one runs.                                *)
LiveStep ==
    \/ Live' = Live /\ total' = total
    \/ \E f \in Fibers \ Live :
           Live' = Live \union {f} /\ total' = total + 1 /\ (pc[Main] = "setup" \/ Live # {})
    \/ \E f \in Live : Live' = Live \ {f} /\ total' = total - 1

LEMMA NextLive == Shape /\ Where /\ [Next]_vars => LiveStep
<1> SUFFICES ASSUME Shape, Where, [Next]_vars PROVE LiveStep
  OBVIOUS
<1> USE FiberSchedulerAssumption DEF fiberVars, loopVars, callVars, endVars
<1>0. ASSUME UNCHANGED <<fstate, total>> PROVE LiveStep
  BY <1>0 DEF LiveStep, Live
<1>1. ASSUME NEW f \in Fibers, Schedule(f) PROVE LiveStep
  <2>1. f \notin Live /\ Live' = Live \union {f} /\ total' = total + 1 /\ pc[Main] = "setup"
    BY <1>1 DEF Schedule, CountUp, Live, Shape, TypeOK
  <2> QED BY <2>1 DEF LiveStep
<1>2. ASSUME NEW t \in Threads, NEW h \in Fibers, NEW d \in Threads, Spawn(t, h, d) PROVE LiveStep
  <2>1. h \notin Live /\ Live' = Live \union {h} /\ total' = total + 1
    BY <1>2 DEF Spawn, CountUp, Live, Shape, TypeOK
  <2>2. cur[t] \in Live
    <3>1. cur[t] \in Fibers /\ pc[t] = "run"
      BY <1>2 DEF Spawn, Runs, Shape, TypeOK, Held
    <3>2. fstate[cur[t]] = "RUNNABLE"
      BY <3>1 DEF Where, Fitting
    <3> QED BY <3>1, <3>2 DEF Live
  <2> QED BY <2>1, <2>2 DEF LiveStep
<1>3. ASSUME NEW t \in Threads, Reap(t) PROVE LiveStep
  <2>1. cur[t] \in Live
    BY <1>3 DEF Reap, Goto, Live, Shape, TypeOK, Held
  <2>2. Live' = Live \ {cur[t]} /\ total' = total - 1
    BY <1>3, <2>1 DEF Reap, CountDown, Live, Shape, TypeOK
  <2> QED BY <2>1, <2>2 DEF LiveStep
<1>4. ASSUME NEW t \in Threads, NEW f \in Fibers, Fire(t, f) PROVE LiveStep
  <2>1. fstate[f] = "WAITING"
    BY <1>4 DEF Fire, Where, Fitting
  <2>2. fstate' = [fstate EXCEPT ![f] = "RUNNABLE"] /\ total' = total
    BY <1>4 DEF Fire
  <2> QED BY <2>1, <2>2 DEF LiveStep, Live, Shape, TypeOK
<1>5. ASSUME NEW t \in Threads, NEW f \in Fibers, WakeUp(t, f) PROVE LiveStep
  BY <1>5 DEF WakeUp, LiveStep, Live, Shape, TypeOK
<1>6. ASSUME NEW t \in Threads, Sleep(t) PROVE LiveStep
  <2>1. fstate[cur[t]] = "RUNNABLE"
    BY <1>6 DEF Sleep, Runs, Shape, TypeOK, Held, Where, Fitting
  <2>2. \E x \in {"WAITING", "BLOCKED", "TERMINATED"} : fstate' = [fstate EXCEPT ![cur[t]] = x]
    BY <1>6 DEF Sleep
  <2>3. total' = total
    BY <1>6 DEF Sleep
  <2> QED BY <2>1, <2>2, <2>3 DEF LiveStep, Live, Shape, TypeOK
<1>7. ASSUME NEW t \in Threads, Block(t) PROVE LiveStep
  <2>1. fstate[cur[t]] = "RUNNABLE"
    BY <1>7 DEF Block, Runs, Shape, TypeOK, Held, Where, Fitting
  <2>2. \E x \in {"WAITING", "BLOCKED", "TERMINATED"} : fstate' = [fstate EXCEPT ![cur[t]] = x]
    BY <1>7 DEF Block
  <2>3. total' = total
    BY <1>7 DEF Block
  <2> QED BY <2>1, <2>2, <2>3 DEF LiveStep, Live, Shape, TypeOK
<1>8. ASSUME NEW t \in Threads, Finish(t) PROVE LiveStep
  <2>1. fstate[cur[t]] = "RUNNABLE"
    BY <1>8 DEF Finish, Runs, Shape, TypeOK, Held, Where, Fitting
  <2>2. \E x \in {"WAITING", "BLOCKED", "TERMINATED"} : fstate' = [fstate EXCEPT ![cur[t]] = x]
    BY <1>8 DEF Finish
  <2>3. total' = total
    BY <1>8 DEF Finish
  <2> QED BY <2>1, <2>2, <2>3 DEF LiveStep, Live, Shape, TypeOK
<1>9. ASSUME Begin PROVE LiveStep
  BY <1>0, <1>9
  DEF Begin, Join, JoinAlone, Dispatch, StartWorker, EnterLoop
<1>10. ASSUME NEW t \in Threads, Loop(t) PROVE LiveStep
  BY <1>0, <1>10, <1>4, <1>3
  DEF Loop, Top, TopInterrupted, Poll, PollEmpty, Hang, Leave, OnceProcessEvents, EventsDone,
      Requeue, Suspended
<1>11. ASSUME NEW t \in Threads, Call(t) PROVE LiveStep
  BY <1>0, <1>11
  DEF Call, SleepReturn, SpawnAdd, SpawnReadHung, SignalDest, InterruptReturn
<1>12. ASSUME NEW t \in Threads, GiveBack(t) PROVE LiveStep
  BY <1>0, <1>12, <1>6, <1>7, <1>8
  DEF GiveBack, Yield
<1>13. ASSUME NEW t \in Threads, Exit(t) PROVE LiveStep
  BY <1>0, <1>13
  DEF Exit, CleanSignal, ExitWorker, ExitMain, Return
<1> QED
  BY <1>0, <1>1, <1>9, <1>10, <1>12, <1>11, <1>13, <1>2, <1>5
  DEF Next, vars, IdleTimeout, Interrupt, InterruptSignal

(* How a thread comes to have read zero, to leave, and to return.          *)
ControlStep ==
    /\ interrupted => interrupted'
    /\ \A t \in Threads :
           /\ pc'[t] = "poll" /\ saw'[t] = 0 =>
                  \/ pc[t] = "poll" /\ saw[t] = 0
                  \/ total = 0 /\ UNCHANGED fstate
           /\ Left(t)' => \/ Left(t) \/ interrupted
                          \/ pc[t] = "poll" /\ saw[t] = 0
    /\ pc'[Main] \in {"joining", "returned"} =>
           \/ pc[Main] \in {"joining", "returned"}
           \/ pc[Main] = "clean" /\ ~interrupted /\ UNCHANGED fstate

LEMMA NextControl == Shape /\ [Next]_vars => ControlStep
<1> SUFFICES ASSUME Shape, [Next]_vars PROVE ControlStep
  OBVIOUS
<1> USE FiberSchedulerAssumption
    DEF Shape, TypeOK, ControlStep, Left, Goto, fiberVars, loopVars, callVars, endVars
<1>1. ASSUME UNCHANGED <<pc, saw>>, interrupted => interrupted' PROVE ControlStep
  BY <1>1
<1>2. ASSUME Join PROVE ControlStep
  BY <1>2 DEF Join
<1>3. ASSUME JoinAlone PROVE ControlStep
  BY <1>3 DEF JoinAlone
<1>4. ASSUME EnterLoop PROVE ControlStep
  BY <1>4 DEF EnterLoop
<1>5. ASSUME NEW w \in Workers, StartWorker(w) PROVE ControlStep
  BY <1>5 DEF StartWorker, Workers
<1>6. ASSUME NEW t \in Threads, Top(t) PROVE ControlStep
  BY <1>6 DEF Top
<1>7. ASSUME NEW t \in Threads, TopInterrupted(t) PROVE ControlStep
  BY <1>7 DEF TopInterrupted
<1>8. ASSUME NEW t \in Threads, Poll(t) PROVE ControlStep
  BY <1>8 DEF Poll
<1>9. ASSUME NEW t \in Threads, PollEmpty(t) PROVE ControlStep
  BY <1>9 DEF PollEmpty, StaysFor
<1>10. ASSUME NEW t \in Threads, Hang(t) PROVE ControlStep
  BY <1>10 DEF Hang
<1>11. ASSUME NEW t \in Threads, Leave(t) PROVE ControlStep
  BY <1>11 DEF Leave, StaysFor
<1>12. ASSUME NEW t \in Threads, OnceProcessEvents(t) PROVE ControlStep
  BY <1>12 DEF OnceProcessEvents
<1>13. ASSUME NEW t \in Threads, IdleTimeout(t) PROVE ControlStep
  BY <1>13 DEF IdleTimeout
<1>14. ASSUME NEW t \in Threads, EventsDone(t) PROVE ControlStep
  BY <1>14 DEF EventsDone
<1>15. ASSUME NEW t \in Threads, Requeue(t) PROVE ControlStep
  BY <1>15 DEF Requeue
<1>16. ASSUME NEW t \in Threads, Suspended(t) PROVE ControlStep
  BY <1>16 DEF Suspended
<1>17. ASSUME NEW t \in Threads, Reap(t) PROVE ControlStep
  BY <1>17 DEF Reap
<1>18. ASSUME NEW t \in Threads, Yield(t) PROVE ControlStep
  BY <1>18 DEF Yield
<1>19. ASSUME NEW t \in Threads, Sleep(t) PROVE ControlStep
  BY <1>19 DEF Sleep
<1>20. ASSUME NEW t \in Threads, Block(t) PROVE ControlStep
  BY <1>20 DEF Block
<1>21. ASSUME NEW t \in Threads, Finish(t) PROVE ControlStep
  BY <1>21 DEF Finish
<1>22. ASSUME NEW w \in Workers, ExitWorker(w) PROVE ControlStep
  BY <1>22 DEF ExitWorker, Workers
<1>23. ASSUME ExitMain PROVE ControlStep
  BY <1>23 DEF ExitMain
<1>24. ASSUME Return PROVE ControlStep
  BY <1>24 DEF Return
<1> HIDE DEF Shape, TypeOK, ControlStep, Left, Goto
<1>25. ASSUME Begin PROVE ControlStep
  BY <1>1, <1>25, <1>2, <1>3, <1>5, <1>4
  DEF Begin, Dispatch
<1>26. ASSUME NEW t \in Threads, Loop(t) PROVE ControlStep
  BY <1>1, <1>26, <1>6, <1>7, <1>8, <1>9, <1>10, <1>11, <1>12, <1>14, <1>15, <1>16, <1>17
  DEF Loop, Fire
<1>27. ASSUME NEW t \in Threads, Call(t) PROVE ControlStep
  BY <1>1, <1>27
  DEF Call, SleepReturn, SpawnAdd, SpawnReadHung, SignalDest, InterruptReturn
<1>28. ASSUME NEW t \in Threads, GiveBack(t) PROVE ControlStep
  BY <1>1, <1>28, <1>18, <1>19, <1>20, <1>21
  DEF GiveBack
<1>29. ASSUME NEW t \in Threads, Exit(t) PROVE ControlStep
  BY <1>1, <1>29, <1>22, <1>23, <1>24
  DEF Exit, CleanSignal
<1> QED
  BY <1>1, <1>25, <1>26, <1>13, <1>28, <1>27, <1>29
  DEF Next, vars, Schedule, Spawn, WakeUp, Interrupt, InterruptSignal

-----------------------------------------------------------------------------
(* The invariant.                                                          *)

LEMMA InitIInv == Init => IInv
<1> SUFFICES ASSUME Init PROVE IInv
  OBVIOUS
<1>1. Live = {}
  BY DEF Init, Live
<1>2. Shape /\ Where
  BY InitShape, InitWhere
<1>3. CounterExact
  BY <1>1, FS_EmptySet DEF CounterExact, Init
<1>4. Done /\ CleanReturnMeansDone
  BY <1>1 DEF Done, CleanReturnMeansDone
<1> QED BY <1>2, <1>3, <1>4 DEF IInv, Structure, Shape, Where

LEMMA NextIInv == IInv /\ [Next]_vars => IInv'
<1> SUFFICES ASSUME IInv, [Next]_vars PROVE IInv'
  OBVIOUS
<1>1. Shape /\ Where /\ CounterExact /\ Done /\ CleanReturnMeansDone
  BY DEF IInv, Structure, Shape, Where
<1>2. IsFiniteSet(Live) /\ Cardinality(Live) \in Nat
  BY FiberSchedulerAssumption, FS_Subset, FS_CardinalityType DEF Live
<1>3. total = 0 => Live = {}
  BY <1>1, <1>2, FS_EmptySet DEF CounterExact
<1>4. Shape'
  BY <1>1, <1>3, NextShape
<1>5. Where'
  BY <1>1, NextWhere
<1>6. LiveStep /\ ControlStep
  BY <1>1, NextLive, NextControl
<1>7. CounterExact'
  <2>1. CASE Live' = Live /\ total' = total
    BY <1>1, <2>1 DEF CounterExact
  <2>2. ASSUME NEW f \in Fibers \ Live, Live' = Live \union {f}, total' = total + 1
        PROVE  CounterExact'
    BY <1>1, <1>2, <2>2, FS_AddElement DEF CounterExact
  <2>3. ASSUME NEW f \in Live, Live' = Live \ {f}, total' = total - 1 PROVE CounterExact'
    BY <1>1, <1>2, <2>3, FS_RemoveElement DEF CounterExact
  <2> QED BY <1>6, <2>1, <2>2, <2>3 DEF LiveStep
<1>8. pc[Main] # "setup" /\ Live = {} => Live' = {}
  BY <1>6 DEF LiveStep
<1>9. fstate' = fstate => Live' = Live
  BY DEF Live
<1>10. \A t \in Threads : pc[t] = "poll" \/ Left(t) => pc[Main] # "setup"
  BY <1>1 DEF Shape, NotBegun, Left
<1>11. Done'
  <2> SUFFICES ASSUME NEW t \in Threads
               PROVE  /\ pc'[t] = "poll" /\ saw'[t] = 0 => Live' = {}
                      /\ Left(t)' => interrupted' \/ Live' = {}
    BY DEF Done
  <2>1. ASSUME pc'[t] = "poll", saw'[t] = 0 PROVE Live' = {}
    <3>1. CASE pc[t] = "poll" /\ saw[t] = 0
      BY <1>1, <1>8, <1>10, <3>1 DEF Done
    <3>2. CASE total = 0 /\ UNCHANGED fstate
      BY <1>3, <1>9, <3>2
    <3> QED BY <1>6, <2>1, <3>1, <3>2 DEF ControlStep
  <2>2. ASSUME Left(t)' PROVE interrupted' \/ Live' = {}
    <3>1. CASE Left(t)
      BY <1>1, <1>6, <1>8, <1>10, <3>1 DEF Done, ControlStep
    <3>2. CASE interrupted
      BY <1>6, <3>2 DEF ControlStep
    <3>3. CASE pc[t] = "poll" /\ saw[t] = 0
      BY <1>1, <1>8, <1>10, <3>3 DEF Done
    <3> QED BY <1>6, <2>2, <3>1, <3>2, <3>3 DEF ControlStep
  <2> QED BY <2>1, <2>2
<1>12. CleanReturnMeansDone'
  <2>1. Main \in Threads
    BY FiberSchedulerAssumption
  <2>2. CASE pc[Main] \in {"joining", "returned"}
    BY <1>1, <1>8, <2>2 DEF CleanReturnMeansDone
  <2>3. CASE pc[Main] = "clean" /\ ~interrupted /\ UNCHANGED fstate
    BY <1>1, <1>9, <2>1, <2>3 DEF CleanReturnMeansDone, Done, Left
  <2> QED BY <1>6, <2>2, <2>3 DEF ControlStep, CleanReturnMeansDone
<1> QED BY <1>4, <1>5, <1>7, <1>11, <1>12 DEF IInv, Structure, Shape, Where

LEMMA Invariant == Spec => []IInv
BY InitIInv, NextIInv, PTL DEF Spec

(* The state of the scheduler has its types at every moment.               *)
THEOREM TypeCorrect == Spec => []TypeOK
<1>1. IInv => TypeOK
  BY DEF IInv, Structure
<1> QED BY <1>1, Invariant, PTL

(* totalFiberCounter is the number of fibers scheduled and not yet deleted *)
(* at every moment, for any number of threads that schedule and delete.    *)
THEOREM CounterExactHolds == Spec => []CounterExact
<1>1. IInv => CounterExact
  BY DEF IInv
<1> QED BY <1>1, Invariant, PTL

(* No thread leaves its loop while a fiber is left, except when the        *)
(* scheduler was interrupted.                                              *)
THEOREM LeavesOnlyWhenDoneHolds == Spec => []LeavesOnlyWhenDone
<1>1. IInv => LeavesOnlyWhenDone
  BY DEF IInv, Done, LeavesOnlyWhenDone
<1> QED BY <1>1, Invariant, PTL

(* Every live fiber is in a queue, in a loop's hands, in those of a        *)
(* schedule(), on a timer, or waits for a wakeUp().                        *)
THEOREM NoFiberLostHolds == Spec => []NoFiberLost
<1>1. IInv => NoFiberLost
  <2> SUFFICES ASSUME IInv, NEW f \in Live
               PROVE  \/ InSeq(f, defq)
                      \/ \E t \in Threads :
                             \/ InSeq(f, queue[t])
                             \/ cur[t] = f
                             \/ fstate[f] = "WAITING" /\ f \in timers[t]
                             \/ task[t] = f
                      \/ fstate[f] = "BLOCKED"
    BY DEF NoFiberLost
  <2>1. f \in Fibers /\ fstate[f] \in {"RUNNABLE", "BLOCKED", "WAITING", "TERMINATED"}
    BY DEF Live, IInv, Structure, TypeOK
  <2>2. HasPlace(f)
    BY <2>1 DEF IInv, Structure, Placed
  <2> QED BY <2>1, <2>2 DEF HasPlace
<1> QED BY <1>1, Invariant, PTL

(* join() that ends without the exception of interrupt() has run every     *)
(* fiber to its end.                                                       *)
THEOREM CleanReturnMeansDoneHolds == Spec => []CleanReturnMeansDone
<1>1. IInv => CleanReturnMeansDone
  BY DEF IInv
<1> QED BY <1>1, Invariant, PTL

=============================================================================
