--------------------------- MODULE HookedIoProofs ---------------------------
(***************************************************************************)
(* Proofs about HookedIo, for every finite set of fibers and descriptors,  *)
(* both backends, and whatever the kernel reports.                         *)
(***************************************************************************)
EXTENDS HookedIo, FiniteSetTheorems, TLAPS

Events == {"in", "out", "hup"}

CondTyped == cond \in [Fds -> SUBSET Events] /\ \A fd \in Fds : cond[fd] \subseteq Reports[fd]

(* The loop has the fiber that it switches to or from, and a descriptor    *)
(* whose handler is to run is still registered.                            *)
LoopHas ==
    /\ pc \in {"run", "switch"} => cur \in Fibers
    /\ pc # "files" => fired = {}
    /\ \A fd \in fired : mask[fd] # {}

(* A descriptor is in the call of one fiber.                               *)
Exclusive == \A f, g \in Fibers : f # g => call[f].fds \intersect call[g].fds = {}

CallShapes ==
    \A f \in Fibers :
        /\ call[f].op = "sleep" => call[f].fds = {} /\ call[f].at = "wait" /\ call[f].timed
        /\ call[f].op = "select" => call[f].timed

(* The only time event of a fiber is that of the wait it is in.            *)
TimersOwn == \A f \in Fibers : timer[f] # {} => Waits(f) /\ timer[f] = {"this"}

AsksFor(f, fd) == Waits(f) /\ fd \in call[f].fds

(* What RegisteredIffAsked says, fiber by fiber.                           *)
Registered ==
    \A fd \in Fds :
        /\ \A f \in Fibers : AsksFor(f, fd) => mask[fd] = call[f].want
        /\ mask[fd] # {} => client[fd] \in Fibers /\ AsksFor(client[fd], fd)

Pairs == {p \in Fds \X Fibers : Waits(p[2]) /\ p[1] \in call[p[2]].fds}
TimedWaits == {f \in Fibers : Waits(f) /\ call[f].timed}

HookedInv ==
    /\ HookedTypeOK /\ CondTyped
    /\ LoopHas /\ Exclusive /\ CallShapes
    /\ Registered /\ TimersOwn /\ SleepIsWhole /\ WaitersExact

-----------------------------------------------------------------------------
(* The parts of the invariant.                                             *)

LEMMA CountsExact == WaitersExact <=> waiters = Cardinality(Pairs) + Cardinality(TimedWaits)
BY DEF WaitersExact, Pairs, TimedWaits

LEMMA Finite ==
    /\ IsFiniteSet(Pairs) /\ IsFiniteSet(TimedWaits)
    /\ Cardinality(Pairs) \in Nat /\ Cardinality(TimedWaits) \in Nat
<1>1. Pairs \in SUBSET (Fds \X Fibers) /\ TimedWaits \in SUBSET Fibers
  BY DEF Pairs, TimedWaits
<1>2. IsFiniteSet(Fds \X Fibers) /\ IsFiniteSet(Fibers)
  BY HookedIoAssumption, FS_Product
<1> QED BY <1>1, <1>2, FS_Subset, FS_CardinalityType

LEMMA Row ==
    ASSUME NEW f, NEW S \in SUBSET Fds
    PROVE  /\ IsFiniteSet(S \X {f}) /\ IsFiniteSet(S)
           /\ Cardinality(S \X {f}) = Cardinality(S) /\ Cardinality(S) \in Nat
<1>1. IsFiniteSet(S) /\ Cardinality(S) \in Nat
  BY HookedIoAssumption, FS_Subset, FS_CardinalityType
<1>2. IsFiniteSet({f}) /\ Cardinality({f}) = 1
  BY FS_Singleton
<1>3. IsFiniteSet(S \X {f}) /\ Cardinality(S \X {f}) = Cardinality(S) * Cardinality({f})
  BY <1>1, <1>2, FS_Product
<1> QED BY <1>1, <1>2, <1>3

(* A descriptor belongs to one call, so what is registered for it is what  *)
(* that call wants.                                                        *)
LEMMA RegisteredMeans ==
    ASSUME HookedTypeOK, Exclusive, Registered
    PROVE  RegisteredIffAsked
<1> SUFFICES ASSUME NEW fd \in Fds
             PROVE  /\ mask[fd] = UNION {call[f].want : f \in {g \in Fibers : AsksFor(g, fd)}}
                    /\ mask[fd] # {} => Waits(client[fd]) /\ fd \in call[client[fd]].fds
  BY DEF RegisteredIffAsked, AsksFor
<1>1. mask[fd] # {} => Waits(client[fd]) /\ fd \in call[client[fd]].fds
  BY DEF Registered, AsksFor
<1>2. CASE \E f \in Fibers : AsksFor(f, fd)
  <2>1. PICK f \in Fibers : AsksFor(f, fd)
    BY <1>2
  <2>2. \A g \in Fibers : AsksFor(g, fd) => g = f
    BY <2>1 DEF AsksFor, Exclusive
  <2>3. {g \in Fibers : AsksFor(g, fd)} = {f}
    BY <2>1, <2>2
  <2>4. {call[g].want : g \in {h \in Fibers : AsksFor(h, fd)}} = {call[f].want}
    BY <2>3
  <2>5. mask[fd] = call[f].want
    BY <2>1 DEF Registered
  <2> QED BY <1>1, <2>4, <2>5
<1>3. CASE ~ \E f \in Fibers : AsksFor(f, fd)
  <2>1. mask[fd] = {}
    BY <1>3 DEF Registered
  <2>2. {call[f].want : f \in {g \in Fibers : AsksFor(g, fd)}} = {}
    BY <1>3
  <2> QED BY <1>1, <2>1, <2>2
<1> QED BY <1>2, <1>3

(* A step that leaves the registrations and the calls as they are.         *)
LEMMA SameCalls ==
    ASSUME HookedInv, UNCHANGED <<mask, client, waiters, call>>,
           HookedTypeOK', CondTyped', LoopHas', TimersOwn', SleepIsWhole'
    PROVE  HookedInv'
<1>1. (Exclusive /\ CallShapes /\ Registered)'
  BY DEF HookedInv, Exclusive, CallShapes, Registered, AsksFor, Waits
<1>2. Pairs' = Pairs /\ TimedWaits' = TimedWaits
  BY DEF Pairs, TimedWaits, Waits
<1>3. (waiters = Cardinality(Pairs) + Cardinality(TimedWaits))'
  BY <1>2, CountsExact DEF HookedInv
<1>4. WaitersExact'
  BY <1>3 DEF WaitersExact, Pairs, TimedWaits
<1> QED BY <1>1, <1>4 DEF HookedInv

(* A fiber with the CPU goes from one place of a call to another, without  *)
(* waiting.                                                                *)
LEMMA CallMoves ==
    ASSUME HookedInv, NEW f \in Fibers,
           UNCHANGED <<kernelVars, pollVars, fiberVars, loopVars>>,
           call' \in [Fibers -> Calls],
           \A g \in Fibers \ {f} : call'[g] = call[g],
           call[f].at # "wait", call'[f].at # "wait",
           Unshared(f, call'[f].fds),
           call'[f].op # "sleep", call'[f].op = "select" => call'[f].timed
    PROVE  HookedInv'
<1>1. \A g \in Fibers : Waits(g)' <=> Waits(g)
  BY DEF Waits
<1>2. \A g \in Fibers : Waits(g) => call'[g] = call[g]
  BY DEF Waits
<1>3. (HookedTypeOK /\ CondTyped /\ LoopHas)'
  BY DEF HookedInv, HookedTypeOK, CondTyped, LoopHas, kernelVars, pollVars, fiberVars, loopVars
<1>4. Exclusive'
  BY DEF HookedInv, Exclusive, Unshared
<1>5. (CallShapes /\ TimersOwn /\ SleepIsWhole)'
  BY <1>1, <1>2 DEF HookedInv, CallShapes, TimersOwn, SleepIsWhole, pollVars, fiberVars
<1>6. \A g \in Fibers, fd \in Fds : AsksFor(g, fd)' <=> AsksFor(g, fd)
  BY <1>1, <1>2 DEF AsksFor
<1>7. Registered'
  <2>1. UNCHANGED <<mask, client>>
    BY DEF pollVars
  <2>2. ASSUME NEW fd \in Fds
        PROVE  /\ \A g \in Fibers : AsksFor(g, fd)' => mask'[fd] = call'[g].want
               /\ mask'[fd] # {} => client'[fd] \in Fibers /\ Waits(client[fd])' /\ fd \in call'[client'[fd]].fds
    BY <1>1, <1>2, <1>6, <2>1 DEF HookedInv, Registered, AsksFor
  <2> QED BY <2>2 DEF Registered, AsksFor
<1>8. Pairs' = Pairs
  BY <1>1, <1>2 DEF Pairs
<1>9. TimedWaits' = TimedWaits
  BY <1>1, <1>2 DEF TimedWaits
<1>10. waiters' = waiters
  BY DEF pollVars
<1>11. WaitersExact'
  <2>1. (waiters = Cardinality(Pairs) + Cardinality(TimedWaits))'
    BY <1>8, <1>9, <1>10, CountsExact DEF HookedInv
  <2> QED BY <2>1 DEF WaitersExact, Pairs, TimedWaits
<1> QED BY <1>3, <1>4, <1>5, <1>7, <1>11 DEF HookedInv

-----------------------------------------------------------------------------
(* Waiting calls.                                                          *)

(* A fiber that waits for nothing registers, and gives the thread back.    *)
LEMMA RegisterKeeps ==
    ASSUME HookedInv, NEW f \in Fibers, NEW S \in SUBSET Fds, NEW want \in SUBSET Masks,
           NEW tm \in BOOLEAN,
           Register(f, S, want, tm),
           ~Waits(f), Unshared(f, S),
           UNCHANGED <<kernelVars, runq, cur, fired>>,
           call' \in [Fibers -> Calls],
           \A g \in Fibers \ {f} : call'[g] = call[g],
           call'[f].at = "wait", call'[f].fds = S, call'[f].want = want, call'[f].timed = tm,
           call'[f].op = "sleep" => S = {} /\ tm,
           call'[f].op = "select" => tm
    PROVE  HookedInv'
<1>1. HookedTypeOK /\ CondTyped /\ LoopHas
  BY DEF HookedInv
<1>2. /\ mask' = [fd \in Fds |-> IF fd \in S THEN mask[fd] \union want ELSE mask[fd]]
      /\ client' = [fd \in Fds |-> IF fd \in S THEN f ELSE client[fd]]
      /\ waiters' = waiters + Cardinality(S) + (IF tm THEN 1 ELSE 0)
      /\ timer' = [timer EXCEPT ![f] = (IF tm THEN {"this"} ELSE {}) \union (IF @ = {} THEN {} ELSE {"old"})]
      /\ timedOut' = [timedOut EXCEPT ![f] = ~tm /\ @]
      /\ state' = [state EXCEPT ![f] = "WAITING"]
      /\ pc = "run" /\ pc' = "switch"
  BY DEF Register, EventsAdded, TimerCreated, Goto
<1>3. Cardinality(S) \in Nat
  BY Row
<1>4. HookedTypeOK'
  <2>1. mask' \in [Fds -> SUBSET Masks] /\ client' \in [Fds -> Fibers \union {None}]
    BY <1>1, <1>2 DEF HookedTypeOK
  <2>2. waiters' \in Nat
    BY <1>1, <1>2, <1>3 DEF HookedTypeOK
  <2>3. /\ timer' \in [Fibers -> SUBSET TimeEvents] /\ timedOut' \in [Fibers -> BOOLEAN]
        /\ state' \in [Fibers -> {"RUNNABLE", "WAITING", "TERMINATED"}]
    BY <1>1, <1>2 DEF HookedTypeOK, TimeEvents
  <2> QED BY <1>1, <1>2, <2>1, <2>2, <2>3 DEF HookedTypeOK, kernelVars
<1>5. CondTyped'
  BY <1>1 DEF CondTyped, kernelVars
<1>6. LoopHas'
  BY <1>1, <1>2 DEF LoopHas
<1>7. Exclusive'
  BY DEF HookedInv, Exclusive, Unshared
<1>8. CallShapes'
  BY DEF HookedInv, CallShapes
<1>9. \A g \in Fibers \ {f} : Waits(g)' <=> Waits(g)
  BY DEF Waits
<1>10. \A fd \in Fds : /\ \A g \in Fibers \ {f} : AsksFor(g, fd)' <=> AsksFor(g, fd)
                       /\ AsksFor(f, fd)' <=> fd \in S
                       /\ ~AsksFor(f, fd)
  BY <1>9 DEF AsksFor, Waits
<1>11. \A fd \in S : mask[fd] = {} /\ \A g \in Fibers : ~AsksFor(g, fd)
  <2>1. \A fd \in S, g \in Fibers : ~AsksFor(g, fd)
    BY <1>10 DEF AsksFor, Unshared
  <2> QED BY <2>1 DEF HookedInv, Registered
<1>12. Registered'
  <2>1. ASSUME NEW fd \in Fds
        PROVE  /\ \A g \in Fibers : AsksFor(g, fd)' => mask'[fd] = call'[g].want
               /\ mask'[fd] # {} => client'[fd] \in Fibers /\ call'[client'[fd]].at = "wait"
                                    /\ fd \in call'[client'[fd]].fds
    <3>1. CASE fd \in S
      <4>1. mask'[fd] = want /\ client'[fd] = f
        BY <1>2, <1>11, <3>1
      <4> QED BY <1>10, <1>11, <3>1, <4>1
    <3>2. CASE fd \notin S
      <4>1. mask'[fd] = mask[fd] /\ client'[fd] = client[fd]
        BY <1>2, <3>2
      <4>2. \A g \in Fibers : AsksFor(g, fd)' => mask'[fd] = call'[g].want
        BY <1>10, <3>2, <4>1 DEF HookedInv, Registered
      <4>3. mask[fd] # {} => client[fd] \in Fibers \ {f} /\ AsksFor(client[fd], fd)
        BY <1>10 DEF HookedInv, Registered
      <4> QED BY <4>1, <4>2, <4>3 DEF AsksFor, Waits
    <3> QED BY <3>1, <3>2
  <2> QED BY <2>1 DEF Registered, AsksFor, Waits
<1>13. (TimersOwn /\ SleepIsWhole)'
  <2>1. timer[f] = {} /\ timer'[f] = IF tm THEN {"this"} ELSE {}
    BY <1>1, <1>2 DEF HookedInv, TimersOwn, HookedTypeOK
  <2>2. state'[f] = "WAITING" /\ \A g \in Fibers \ {f} : timer'[g] = timer[g] /\ state'[g] = state[g]
    BY <1>1, <1>2 DEF HookedTypeOK
  <2>3. ASSUME NEW g \in Fibers, call'[g].at = "wait", call'[g].op = "sleep"
        PROVE  "this" \in timer'[g] <=> state'[g] = "WAITING"
    <3>1. CASE g = f
      BY <2>1, <2>2, <2>3, <3>1
    <3>2. CASE g # f
      BY <2>2, <2>3, <3>2 DEF HookedInv, SleepIsWhole, Waits
    <3> QED BY <3>1, <3>2
  <2>4. ASSUME NEW g \in Fibers, timer'[g] # {}
        PROVE  call'[g].at = "wait" /\ timer'[g] = {"this"}
    BY <2>1, <2>2, <2>4 DEF HookedInv, TimersOwn, Waits
  <2> QED BY <2>3, <2>4 DEF SleepIsWhole, TimersOwn, Waits
<1>14. Cardinality(Pairs') = Cardinality(Pairs) + Cardinality(S)
  <2>1. Pairs' = Pairs \union (S \X {f})
    <3>1. ASSUME NEW fd \in Fds, NEW g \in Fibers
          PROVE  <<fd, g>> \in Pairs' <=> <<fd, g>> \in Pairs \/ (fd \in S /\ g = f)
      BY <1>10 DEF Pairs, AsksFor
    <3> QED BY <3>1 DEF Pairs
  <2>2. Pairs \cap (S \X {f}) = {}
    BY <1>10 DEF Pairs, AsksFor
  <2>3. /\ IsFiniteSet(Pairs) /\ IsFiniteSet(S \X {f})
        /\ Cardinality(S \X {f}) = Cardinality(S) /\ Cardinality(Pairs) \in Nat
    BY Finite, Row
  <2>4. Cardinality(Pairs \union (S \X {f})) =
            Cardinality(Pairs) + Cardinality(S \X {f}) - Cardinality(Pairs \cap (S \X {f}))
    BY <2>3, FS_Union
  <2>5. Cardinality(Pairs \cap (S \X {f})) = 0
    BY <2>2, FS_EmptySet
  <2> QED BY <1>3, <2>1, <2>3, <2>4, <2>5
<1>15. Cardinality(TimedWaits') = Cardinality(TimedWaits) + (IF tm THEN 1 ELSE 0)
  <2>1. f \notin TimedWaits /\ TimedWaits' = IF tm THEN TimedWaits \union {f} ELSE TimedWaits
    BY <1>9 DEF TimedWaits, Waits
  <2>2. IsFiniteSet(TimedWaits) /\ Cardinality(TimedWaits) \in Nat
    BY Finite
  <2>3. Cardinality(TimedWaits \union {f}) = Cardinality(TimedWaits) + 1
    BY <2>1, <2>2, FS_AddElement
  <2> QED BY <2>1, <2>2, <2>3
<1>16. WaitersExact'
  <2>1. waiters = Cardinality(Pairs) + Cardinality(TimedWaits)
    BY CountsExact DEF HookedInv
  <2>2. (waiters = Cardinality(Pairs) + Cardinality(TimedWaits))'
    BY <1>2, <1>3, <1>14, <1>15, <2>1, Finite
  <2> QED BY <2>2 DEF WaitersExact, Pairs, TimedWaits
<1> QED BY <1>4, <1>5, <1>6, <1>7, <1>8, <1>12, <1>13, <1>16 DEF HookedInv

(* The call goes on: nothing of it stays registered.                       *)
LEMMA WaitOverKeeps ==
    ASSUME HookedInv, NEW f \in Fibers, WaitOver(f)
    PROVE  HookedInv'
<1> DEFINE S == call[f].fds
           tm == call[f].timed
<1>1. HookedTypeOK /\ CondTyped /\ LoopHas /\ call[f] \in Calls
  BY DEF HookedInv, HookedTypeOK
<1>2. S \in SUBSET Fds /\ tm \in BOOLEAN /\ call[f].at = "wait" /\ pc = "run"
  BY <1>1 DEF Calls, WaitOver, At, Runs
<1>3. /\ mask' = [fd \in Fds |-> IF fd \in S THEN {} ELSE mask[fd]]
      /\ client' = [fd \in Fds |-> IF fd \in S THEN None ELSE client[fd]]
      /\ waiters' = (IF tm THEN waiters - 1 ELSE waiters) - Cardinality(S)
      /\ timer' = [timer EXCEPT ![f] = @ \ {"this"}]
      /\ timedOut' = [timedOut EXCEPT ![f] = ~Asks(f) /\ @]
      /\ UNCHANGED <<backend, cond, state, runq, cur, pc, fired>>
  BY DEF WaitOver, Unregister, Deleted, EventsDeleted, CancelTimer, TimerDeleted, Remaining, kernelVars, loopVars
<1>4. /\ call' \in [Fibers -> Calls] /\ \A g \in Fibers \ {f} : call'[g] = call[g]
      /\ call'[f].at # "wait"
      /\ call'[f].fds \subseteq S
      /\ call'[f].op # "sleep" /\ call'[f].op # "select"
  <2>1. CASE call' = [call EXCEPT ![f] = NoCall]
    BY <1>1, <2>1 DEF HookedTypeOK, NoCall, Calls
  <2>2. CASE call' = [call EXCEPT ![f].at = "fn"] /\ Transfers(f)
    <3>1. /\ call'[f] = [call[f] EXCEPT !.at = "fn"]
          /\ call[f].op \in {"read", "write", "sendfile"}
          /\ \A g \in Fibers \ {f} : call'[g] = call[g]
          /\ call' = [g \in Fibers |-> IF g = f THEN [call[f] EXCEPT !.at = "fn"] ELSE call[g]]
      BY <1>1, <2>2 DEF HookedTypeOK, Transfers
    <3>2. [call[f] EXCEPT !.at = "fn"] \in Calls
      BY <1>1 DEF Calls
    <3>3. call'[f].at = "fn" /\ call'[f].fds = S /\ call'[f].op = call[f].op
      BY <1>1, <3>1 DEF Calls
    <3>4. call' \in [Fibers -> Calls]
      BY <1>1, <3>1, <3>2 DEF HookedTypeOK
    <3> QED BY <3>1, <3>3, <3>4
  <2> QED BY <2>1, <2>2 DEF WaitOver, Goes, Ends
<1> HIDE DEF S, tm
<1>5. \A g \in Fibers \ {f} : Waits(g)' <=> Waits(g)
  BY <1>4 DEF Waits
<1>6. \A fd \in Fds : /\ \A g \in Fibers \ {f} : AsksFor(g, fd)' <=> AsksFor(g, fd)
                      /\ ~AsksFor(f, fd)'
                      /\ AsksFor(f, fd) <=> fd \in S
  BY <1>2, <1>4, <1>5 DEF AsksFor, Waits, S
<1>7. \A fd \in S, g \in Fibers \ {f} : ~AsksFor(g, fd)
  BY DEF AsksFor, HookedInv, Exclusive, S
<1>8. Exclusive' /\ CallShapes' /\ LoopHas' /\ CondTyped'
  <2>1. Exclusive'
    <3>1. \A g, h \in Fibers : g # h => call[g].fds \cap call[h].fds = {}
      BY DEF HookedInv, Exclusive
    <3> QED BY <1>4, <3>1 DEF Exclusive, S
  <2>2. CallShapes'
    BY <1>4 DEF HookedInv, CallShapes
  <2>3. LoopHas' /\ CondTyped'
    BY <1>1, <1>2, <1>3 DEF LoopHas, CondTyped
  <2> QED BY <2>1, <2>2, <2>3
<1>9. Registered'
  <2>1. ASSUME NEW fd \in Fds
        PROVE  /\ \A g \in Fibers : AsksFor(g, fd)' => mask'[fd] = call'[g].want
               /\ mask'[fd] # {} => client'[fd] \in Fibers /\ call'[client'[fd]].at = "wait"
                                    /\ fd \in call'[client'[fd]].fds
    <3>1. CASE fd \in S
      BY <1>3, <1>6, <1>7, <3>1
    <3>2. CASE fd \notin S
      <4>1. mask'[fd] = mask[fd] /\ client'[fd] = client[fd]
        BY <1>3, <3>2
      <4>2. \A g \in Fibers : AsksFor(g, fd)' => mask'[fd] = call'[g].want
        BY <1>4, <1>6, <4>1 DEF HookedInv, Registered
      <4>3. mask[fd] # {} => client[fd] \in Fibers \ {f} /\ AsksFor(client[fd], fd)
        BY <1>6, <3>2 DEF HookedInv, Registered
      <4> QED BY <1>4, <4>1, <4>2, <4>3 DEF AsksFor, Waits
    <3> QED BY <3>1, <3>2
  <2> QED BY <2>1 DEF Registered, AsksFor, Waits
<1>10. (TimersOwn /\ SleepIsWhole)'
  <2>1. timer'[f] = {} /\ \A g \in Fibers \ {f} : timer'[g] = timer[g]
    BY <1>1, <1>3 DEF HookedInv, TimersOwn, HookedTypeOK
  <2>2. ASSUME NEW g \in Fibers, call'[g].at = "wait", call'[g].op = "sleep"
        PROVE  "this" \in timer'[g] <=> state'[g] = "WAITING"
    BY <1>3, <1>4, <2>1, <2>2 DEF HookedInv, SleepIsWhole, Waits
  <2>3. ASSUME NEW g \in Fibers, timer'[g] # {}
        PROVE  call'[g].at = "wait" /\ timer'[g] = {"this"}
    BY <1>4, <2>1, <2>3 DEF HookedInv, TimersOwn, Waits
  <2> QED BY <2>2, <2>3 DEF SleepIsWhole, TimersOwn, Waits
<1>11. Cardinality(Pairs) = Cardinality(Pairs') + Cardinality(S) /\ Cardinality(Pairs') \in Nat
  <2>1. Pairs' = Pairs \ (S \X {f})
    <3>1. ASSUME NEW fd \in Fds, NEW g \in Fibers
          PROVE  <<fd, g>> \in Pairs' <=> <<fd, g>> \in Pairs /\ ~(fd \in S /\ g = f)
      BY <1>6 DEF Pairs, AsksFor
    <3> QED BY <3>1 DEF Pairs
  <2>2. Pairs \cap (S \X {f}) = S \X {f}
    BY <1>2, <1>6 DEF Pairs, AsksFor
  <2>3. Cardinality(S \X {f}) = Cardinality(S)
    BY <1>2, Row DEF S
  <2>4. IsFiniteSet(Pairs') /\ Cardinality(Pairs') = Cardinality(Pairs) - Cardinality(S)
    <3>1. IsFiniteSet(Pairs)
      BY Finite
    <3>2. /\ IsFiniteSet(Pairs \ (S \X {f}))
          /\ Cardinality(Pairs \ (S \X {f})) =
                 Cardinality(Pairs) - Cardinality(Pairs \cap (S \X {f}))
      BY <3>1, FS_Difference
    <3> QED BY <2>1, <2>2, <2>3, <3>2
  <2>5. Cardinality(Pairs') \in Nat /\ Cardinality(S) \in Nat
    BY <1>2, <2>4, FS_CardinalityType, Row DEF S
  <2> QED BY <2>4, <2>5, Finite
<1>12. Cardinality(TimedWaits) = Cardinality(TimedWaits') + (IF tm THEN 1 ELSE 0)
       /\ Cardinality(TimedWaits') \in Nat
  <2>1. /\ tm => f \in TimedWaits /\ TimedWaits' = TimedWaits \ {f}
        /\ ~tm => TimedWaits' = TimedWaits
    BY <1>2, <1>4, <1>5 DEF TimedWaits, Waits, tm
  <2>2. IsFiniteSet(TimedWaits')
    BY <2>1, Finite, FS_RemoveElement
  <2> QED BY <2>1, <2>2, Finite, FS_RemoveElement, FS_CardinalityType
<1>13. waiters' = Cardinality(Pairs') + Cardinality(TimedWaits') /\ waiters' \in Nat
  <2>1. waiters = Cardinality(Pairs) + Cardinality(TimedWaits)
    BY CountsExact DEF HookedInv
  <2>2. Cardinality(S) \in Nat
    BY <1>2, Row DEF S
  <2> QED BY <1>3, <1>11, <1>12, <2>1, <2>2
<1>14. WaitersExact'
  <2>1. (waiters = Cardinality(Pairs) + Cardinality(TimedWaits))'
    BY <1>13
  <2> QED BY <2>1 DEF WaitersExact, Pairs, TimedWaits
<1>15. HookedTypeOK'
  <2>1. mask' \in [Fds -> SUBSET Masks] /\ client' \in [Fds -> Fibers \union {None}]
    BY <1>1, <1>3 DEF HookedTypeOK
  <2>2. timer' \in [Fibers -> SUBSET TimeEvents] /\ timedOut' \in [Fibers -> BOOLEAN]
    BY <1>1, <1>3 DEF HookedTypeOK
  <2> QED BY <1>1, <1>3, <1>4, <1>13, <2>1, <2>2 DEF HookedTypeOK
<1> QED BY <1>8, <1>9, <1>10, <1>14, <1>15 DEF HookedInv

-----------------------------------------------------------------------------
(* The steps of a fiber.                                                   *)

LEMMA GoesFacts ==
    ASSUME HookedTypeOK, NEW f \in Fibers, NEW at \in {"fn", "try", "wait"}, Goes(f, at)
    PROVE  /\ call' \in [Fibers -> Calls] /\ \A g \in Fibers \ {f} : call'[g] = call[g]
           /\ call'[f].at = at /\ call'[f].op = call[f].op /\ call'[f].fds = call[f].fds
           /\ call'[f].want = call[f].want /\ call'[f].timed = call[f].timed
           /\ call[f] \in Calls
<1>1. call \in [Fibers -> Calls] /\ call[f] \in Calls
  BY DEF HookedTypeOK
<1>2. /\ call' = [g \in Fibers |-> IF g = f THEN [call[f] EXCEPT !.at = at] ELSE call[g]]
      /\ call'[f] = [call[f] EXCEPT !.at = at]
  BY <1>1 DEF Goes
<1>3. [call[f] EXCEPT !.at = at] \in Calls
  BY <1>1 DEF Calls
<1>4. call' \in [Fibers -> Calls] /\ \A g \in Fibers \ {f} : call'[g] = call[g]
  BY <1>1, <1>2, <1>3
<1> QED BY <1>1, <1>2, <1>4 DEF Calls

LEMMA CallFacts ==
    ASSUME HookedInv, NEW f \in Fibers
    PROVE  /\ HookedTypeOK /\ call[f] \in Calls /\ Unshared(f, call[f].fds) /\ Unshared(f, {})
           /\ call[f].fds \in SUBSET Fds /\ call[f].want \in SUBSET Masks
           /\ call[f].op = "sleep" => call[f].at = "wait"
           /\ call[f].op = "select" => call[f].timed
<1>1. HookedTypeOK /\ call[f] \in Calls
  BY DEF HookedInv, HookedTypeOK
<1>2. Unshared(f, call[f].fds) /\ Unshared(f, {})
  BY DEF HookedInv, Exclusive, Unshared
<1> QED BY <1>1, <1>2 DEF Calls, HookedInv, CallShapes

(* A call that is over or that goes on without waiting.                    *)
LEMMA StepsOn ==
    ASSUME HookedInv, NEW f \in Fibers,
           FnDone(f) \/ FnMore(f) \/ FnAgain(f) \/ TryReady(f)
    PROVE  HookedInv'
<1>1. call[f].at \in {"fn", "try"} /\ UNCHANGED <<kernelVars, pollVars, fiberVars, loopVars>>
  BY DEF FnDone, FnMore, FnAgain, TryReady, At
<1>2. CASE Ends(f)
  <2>1. /\ call' \in [Fibers -> Calls] /\ \A g \in Fibers \ {f} : call'[g] = call[g]
        /\ call'[f] = NoCall
    BY <1>2, CallFacts DEF Ends, HookedTypeOK, NoCall, Calls
  <2>2. call'[f].at = "none" /\ call'[f].op = "none" /\ call'[f].fds = {}
    BY <2>1 DEF NoCall
  <2>3. Unshared(f, call'[f].fds)
    BY <2>2, CallFacts
  <2> QED BY <1>1, <2>1, <2>2, <2>3, CallMoves
<1>3. ASSUME NEW at \in {"fn", "try"}, Goes(f, at) PROVE HookedInv'
  <2>1. /\ call' \in [Fibers -> Calls] /\ \A g \in Fibers \ {f} : call'[g] = call[g]
        /\ call'[f].at = at /\ call'[f].op = call[f].op /\ call'[f].fds = call[f].fds
        /\ call'[f].timed = call[f].timed
    BY <1>3, GoesFacts, CallFacts
  <2>2. Unshared(f, call'[f].fds)
    BY <2>1, CallFacts
  <2> QED BY <1>1, <2>1, <2>2, CallFacts, CallMoves
<1> QED BY <1>2, <1>3 DEF FnDone, FnMore, FnAgain, TryReady

LEMMA TryWaitKeeps ==
    ASSUME HookedInv, NEW f \in Fibers, TryWait(f)
    PROVE  HookedInv'
<1>1. /\ call[f].at = "try" /\ call[f].op # "select" /\ UNCHANGED <<kernelVars, runq, cur, fired>>
      /\ Register(f, call[f].fds, call[f].want, call[f].timed) /\ Goes(f, "wait")
  BY DEF TryWait, At
<1>2. /\ call' \in [Fibers -> Calls] /\ \A g \in Fibers \ {f} : call'[g] = call[g]
      /\ call'[f].at = "wait" /\ call'[f].op = call[f].op /\ call'[f].fds = call[f].fds
      /\ call'[f].want = call[f].want /\ call'[f].timed = call[f].timed
  BY <1>1, GoesFacts, CallFacts
<1>3. call[f].fds \in SUBSET Fds /\ call[f].want \in SUBSET Masks /\ call[f].timed \in BOOLEAN
  BY CallFacts DEF Calls
<1>4. ~Waits(f) /\ Unshared(f, call[f].fds) /\ call[f].op # "sleep"
  BY <1>1, CallFacts DEF Waits
<1> QED BY <1>1, <1>2, <1>3, <1>4, RegisterKeeps

LEMMA SelectWaitKeeps ==
    ASSUME HookedInv, NEW f \in Fibers, SelectWait(f)
    PROVE  HookedInv'
<1> DEFINE r == [op |-> "select", at |-> "wait", fds |-> {}, want |-> {}, timed |-> TRUE]
<1>1. /\ call[f].at = "try" /\ UNCHANGED <<kernelVars, runq, cur, fired>>
      /\ Register(f, {}, {}, TRUE)
      /\ call' = [call EXCEPT ![f] = r]
  BY DEF SelectWait, At
<1>2. /\ call' \in [Fibers -> Calls] /\ \A g \in Fibers \ {f} : call'[g] = call[g]
      /\ call'[f] = r
  BY <1>1, CallFacts DEF HookedTypeOK, Calls, AllOps
<1>3. ~Waits(f) /\ Unshared(f, {})
  BY <1>1, CallFacts DEF Waits
<1> QED BY <1>1, <1>2, <1>3, RegisterKeeps

(* The calls begin.                                                        *)
LEMMA BeginKeeps ==
    ASSUME HookedInv, NEW f \in Fibers,
           NEW op \in AllOps \ {"sleep"}, NEW at \in {"fn", "try"},
           NEW S \in SUBSET Fds, NEW want \in SUBSET Masks, NEW tm \in BOOLEAN,
           op = "select" => tm,
           Begin(f, op, at, S, want, tm)
    PROVE  HookedInv'
<1> DEFINE r == [op |-> op, at |-> at, fds |-> S, want |-> want, timed |-> tm]
<1>1. /\ call' = [call EXCEPT ![f] = r] /\ call[f] = NoCall /\ Unshared(f, S)
      /\ UNCHANGED <<kernelVars, pollVars, fiberVars, loopVars>>
  BY DEF Begin, Free
<1>2. /\ call' \in [Fibers -> Calls] /\ call'[f] = r
      /\ \A g \in Fibers \ {f} : call'[g] = call[g]
  BY <1>1, CallFacts DEF HookedTypeOK, Calls, AllOps
<1>3. call[f].at # "wait"
  BY <1>1 DEF NoCall
<1> QED BY <1>1, <1>2, <1>3, CallMoves

LEMMA BeginWaitKeeps ==
    ASSUME HookedInv, NEW f \in Fibers,
           NEW op \in AllOps \ {"select"},
           NEW S \in SUBSET Fds, NEW want \in SUBSET Masks, NEW tm \in BOOLEAN,
           op = "sleep" => S = {} /\ tm,
           BeginWait(f, op, S, want, tm)
    PROVE  HookedInv'
<1> DEFINE r == [op |-> op, at |-> "wait", fds |-> S, want |-> want, timed |-> tm]
<1>1. /\ call' = [call EXCEPT ![f] = r] /\ call[f] = NoCall /\ Unshared(f, S)
      /\ Register(f, S, want, tm) /\ UNCHANGED <<kernelVars, runq, cur, fired>>
  BY DEF BeginWait, Free
<1>2. /\ call' \in [Fibers -> Calls] /\ call'[f] = r
      /\ \A g \in Fibers \ {f} : call'[g] = call[g]
  BY <1>1, CallFacts DEF HookedTypeOK, Calls, AllOps
<1>3. ~Waits(f)
  BY <1>1 DEF NoCall, Waits
<1> QED BY <1>1, <1>2, <1>3, RegisterKeeps

LEMMA StartKeeps ==
    ASSUME HookedInv, NEW f \in Fibers, Start(f)
    PROVE  HookedInv'
<1>1. ASSUME NEW fd \in Fds, NEW tm \in BOOLEAN, Read(f, fd, tm) PROVE HookedInv'
  BY <1>1, BeginKeeps DEF Read, AllOps, Masks
<1>2. ASSUME NEW fd \in Fds, NEW tm \in BOOLEAN, Write(f, fd, tm) PROVE HookedInv'
  BY <1>2, BeginKeeps DEF Write, AllOps, Masks
<1>3. ASSUME NEW fd \in Fds, NEW tm \in BOOLEAN, Sendfile(f, fd, tm) PROVE HookedInv'
  BY <1>3, BeginKeeps DEF Sendfile, AllOps, Masks
<1>4. \A p \in Polls : p[1] \in SUBSET Fds /\ p[2] \in SUBSET Masks
  BY HookedIoAssumption DEF Masks
<1>5. ASSUME NEW p \in Polls, NEW tm \in BOOLEAN, PollCall(f, p[1], p[2], tm) PROVE HookedInv'
  BY <1>4, <1>5, BeginKeeps DEF PollCall, AllOps
<1>6. ASSUME NEW p \in Polls, Select(f, p[1], p[2]) PROVE HookedInv'
  BY <1>4, <1>6, BeginKeeps DEF Select, AllOps
<1>7. ASSUME NEW fd \in Fds, Connect(f, fd) PROVE HookedInv'
  BY <1>7, BeginWaitKeeps DEF Connect, AllOps, Masks
<1>8. ASSUME NEW fd \in Fds, EpollWait(f, fd) PROVE HookedInv'
  BY <1>8, BeginWaitKeeps DEF EpollWait, AllOps, Masks
<1>9. ASSUME Sleep(f) PROVE HookedInv'
  BY <1>9, BeginWaitKeeps DEF Sleep, AllOps, Masks
<1> QED BY <1>1, <1>2, <1>3, <1>5, <1>6, <1>7, <1>8, <1>9 DEF Start

-----------------------------------------------------------------------------
(* The kernel and the loop.                                                *)

LEMMA KernelKeeps ==
    ASSUME HookedInv, NEW fd \in Fds, NEW e \in Reports[fd], Become(fd, e) \/ Vanish(fd, e)
    PROVE  HookedInv'
<1>1. HookedTypeOK /\ CondTyped /\ LoopHas /\ TimersOwn /\ SleepIsWhole
  BY DEF HookedInv
<1>2. /\ UNCHANGED <<backend, mask, client, waiters, timer, timedOut, state, runq, cur, pc, fired>>
      /\ UNCHANGED call
      /\ cond' = [cond EXCEPT ![fd] = @ \union {e}] \/ cond' = [cond EXCEPT ![fd] = @ \ {e}]
  BY DEF Become, Vanish, pollVars, fiberVars, loopVars
<1>3. CondTyped'
  <2>1. e \in Events /\ Reports[fd] \subseteq Events
    BY HookedIoAssumption DEF Events
  <2>2. cond' \in [Fds -> SUBSET Events]
    BY <1>1, <1>2, <2>1 DEF CondTyped
  <2>3. \A g \in Fds : cond'[g] \subseteq Reports[g]
    BY <1>1, <1>2 DEF CondTyped
  <2> QED BY <2>2, <2>3 DEF CondTyped
<1>4. HookedTypeOK' /\ LoopHas' /\ TimersOwn' /\ SleepIsWhole'
  BY <1>1, <1>2, <1>3 DEF HookedTypeOK, CondTyped, LoopHas, TimersOwn, SleepIsWhole, Waits
<1> QED BY <1>2, <1>3, <1>4, SameCalls

(* Steps of the loop that resume no fiber.                                 *)
LEMMA LoopKeeps ==
    ASSUME HookedInv,
           Dispatch \/ PollEmpty \/ AeApiPoll \/ FilesDone \/ EventsDone \/ Requeue \/ IdleTimeout
    PROVE  HookedInv'
<1>1. HookedTypeOK /\ CondTyped /\ LoopHas /\ TimersOwn /\ SleepIsWhole
  BY DEF HookedInv
<1>2. UNCHANGED <<backend, cond, mask, client, waiters, timer, timedOut, state, call>>
  BY DEF Dispatch, PollEmpty, AeApiPoll, FilesDone, EventsDone, Requeue, IdleTimeout,
         kernelVars, pollVars, fiberVars
<1>3. CondTyped' /\ TimersOwn' /\ SleepIsWhole'
  BY <1>1, <1>2 DEF CondTyped, TimersOwn, SleepIsWhole, Waits
<1>4. /\ runq' \in Seq(Fibers) /\ cur' \in Fibers \union {None} /\ fired' \in SUBSET Fds
      /\ pc' \in {"top", "epoll", "idle", "files", "timers", "run", "switch"}
      /\ LoopHas'
  <2>1. CASE Dispatch
    <3>1. Head(runq) \in Fibers /\ Tail(runq) \in Seq(Fibers)
      BY <1>1, <2>1 DEF HookedTypeOK, Dispatch
    <3> QED BY <1>1, <1>2, <2>1, <3>1 DEF HookedTypeOK, LoopHas, Dispatch, Goto
  <2>2. CASE AeApiPoll
    <3>1. /\ fired' \in SUBSET Fds /\ \A fd \in fired' : mask[fd] # {}
          /\ pc' = "files" /\ UNCHANGED <<runq, cur>>
      BY <2>2 DEF AeApiPoll, Active, Goto, fiberVars
    <3> QED BY <1>1, <1>2, <3>1 DEF HookedTypeOK, LoopHas
  <2>3. CASE PollEmpty \/ FilesDone \/ IdleTimeout
    BY <1>1, <1>2, <2>3 DEF HookedTypeOK, LoopHas, PollEmpty, FilesDone, IdleTimeout, Goto, fiberVars
  <2>4. CASE EventsDone
    BY <1>1, <1>2, <2>4 DEF HookedTypeOK, LoopHas, EventsDone, Goto, fiberVars
  <2>5. CASE Requeue
    BY <1>1, <1>2, <2>5 DEF HookedTypeOK, LoopHas, Requeue, Goto
  <2> QED BY <2>1, <2>2, <2>3, <2>4, <2>5
<1>5. HookedTypeOK'
  BY <1>1, <1>2, <1>4 DEF HookedTypeOK
<1> QED BY <1>2, <1>3, <1>4, <1>5, SameCalls

LEMMA SwapInFacts ==
    ASSUME HookedTypeOK, NEW f \in Fibers, SwapIn(f)
    PROVE  /\ state' \in [Fibers -> {"RUNNABLE", "WAITING", "TERMINATED"}]
           /\ runq' \in Seq(Fibers)
           /\ \A g \in Fibers \ {f} : state'[g] = state[g]
           /\ state'[f] # "WAITING"
<1>1. CASE state[f] = "WAITING"
  <2>1. state' = [state EXCEPT ![f] = "RUNNABLE"] /\ runq' = Append(runq, f)
    BY <1>1 DEF SwapIn
  <2>2. runq' \in Seq(Fibers)
    BY <2>1 DEF HookedTypeOK
  <2> QED BY <2>1, <2>2 DEF HookedTypeOK
<1>2. CASE state[f] # "WAITING"
  BY <1>2 DEF SwapIn, HookedTypeOK
<1> QED BY <1>1, <1>2

(* A file event resumes the fiber that waits for the descriptor, which     *)
(* does not sleep.                                                         *)
LEMMA FileEventKeeps ==
    ASSUME HookedInv, NEW fd \in Fds, FileEvent(fd)
    PROVE  HookedInv'
<1>1. HookedTypeOK /\ CondTyped /\ LoopHas /\ TimersOwn /\ SleepIsWhole
  BY DEF HookedInv
<1>2. /\ UNCHANGED <<backend, cond, mask, client, waiters, timer, timedOut, cur, pc, call>>
      /\ fd \in fired /\ fired' = fired \ {fd} /\ pc = "files" /\ SwapIn(client[fd])
  BY DEF FileEvent, kernelVars, pollVars
<1>3. client[fd] \in Fibers /\ AsksFor(client[fd], fd)
  BY <1>1, <1>2 DEF LoopHas, HookedInv, Registered
<1>4. /\ state' \in [Fibers -> {"RUNNABLE", "WAITING", "TERMINATED"}]
      /\ runq' \in Seq(Fibers)
      /\ \A g \in Fibers \ {client[fd]} : state'[g] = state[g]
  BY <1>1, <1>2, <1>3, SwapInFacts
<1>5. HookedTypeOK' /\ CondTyped' /\ LoopHas'
  BY <1>1, <1>2, <1>4 DEF HookedTypeOK, CondTyped, LoopHas
<1>6. TimersOwn' /\ SleepIsWhole'
  <2>1. \A g \in Fibers : call[g].op = "sleep" => g # client[fd]
    BY <1>3 DEF HookedInv, CallShapes, AsksFor
  <2> QED BY <1>1, <1>2, <1>4, <2>1 DEF TimersOwn, SleepIsWhole, Waits
<1> QED BY <1>2, <1>5, <1>6, SameCalls

LEMMA TimeEventKeeps ==
    ASSUME HookedInv, NEW f \in Fibers, TimeEvent(f)
    PROVE  HookedInv'
<1>1. HookedTypeOK /\ CondTyped /\ LoopHas /\ TimersOwn /\ SleepIsWhole
  BY DEF HookedInv
<1>2. /\ UNCHANGED <<backend, cond, mask, client, waiters, cur, pc, fired, call>>
      /\ \E e \in timer[f] : timer' = [timer EXCEPT ![f] = @ \ {e}]
      /\ timedOut' = [timedOut EXCEPT ![f] = TRUE]
      /\ SwapIn(f)
  BY DEF TimeEvent, kernelVars, loopVars
<1>3. /\ state' \in [Fibers -> {"RUNNABLE", "WAITING", "TERMINATED"}]
      /\ runq' \in Seq(Fibers)
      /\ \A g \in Fibers \ {f} : state'[g] = state[g]
      /\ state'[f] # "WAITING"
  BY <1>1, <1>2, SwapInFacts
<1>4. /\ timer' \in [Fibers -> SUBSET TimeEvents] /\ timedOut' \in [Fibers -> BOOLEAN]
      /\ timer'[f] = {} /\ \A g \in Fibers \ {f} : timer'[g] = timer[g]
  <2>1. PICK e \in timer[f] : timer' = [timer EXCEPT ![f] = @ \ {e}]
    BY <1>2
  <2>2. timer[f] = {"this"} /\ e = "this"
    BY <1>1, <2>1 DEF TimersOwn
  <2> QED BY <1>1, <1>2, <2>1, <2>2 DEF HookedTypeOK
<1>5. HookedTypeOK' /\ CondTyped' /\ LoopHas'
  BY <1>1, <1>2, <1>3, <1>4 DEF HookedTypeOK, CondTyped, LoopHas
<1>6. TimersOwn' /\ SleepIsWhole'
  BY <1>1, <1>2, <1>3, <1>4 DEF TimersOwn, SleepIsWhole, Waits
<1> QED BY <1>2, <1>5, <1>6, SameCalls

(* A fiber between two calls gives the thread back, or ends.               *)
LEMMA YieldKeeps ==
    ASSUME HookedInv, NEW f \in Fibers, Yield(f) \/ Finish(f)
    PROVE  HookedInv'
<1>1. HookedTypeOK /\ CondTyped /\ LoopHas /\ TimersOwn /\ SleepIsWhole
  BY DEF HookedInv
<1>2. /\ UNCHANGED <<backend, cond, mask, client, waiters, timer, timedOut, runq, cur, fired, call>>
      /\ state' = state \/ state' = [state EXCEPT ![f] = "TERMINATED"]
      /\ call[f] = NoCall /\ pc = "run" /\ pc' = "switch"
  BY DEF Yield, Finish, Free, Goto, kernelVars, pollVars, fiberVars
<1>3. /\ state' \in [Fibers -> {"RUNNABLE", "WAITING", "TERMINATED"}]
      /\ \A g \in Fibers \ {f} : state'[g] = state[g]
  BY <1>1, <1>2 DEF HookedTypeOK
<1>4. HookedTypeOK' /\ CondTyped' /\ LoopHas'
  BY <1>1, <1>2, <1>3 DEF HookedTypeOK, CondTyped, LoopHas
<1>5. TimersOwn' /\ SleepIsWhole'
  BY <1>1, <1>2, <1>3 DEF TimersOwn, SleepIsWhole, Waits, NoCall
<1> QED BY <1>2, <1>4, <1>5, SameCalls

-----------------------------------------------------------------------------
(* The invariant.                                                          *)

LEMMA InitHookedInv == Init => HookedInv
<1> SUFFICES ASSUME Init PROVE HookedInv
  OBVIOUS
<1>1. /\ mask = [fd \in Fds |-> {}] /\ cond = [fd \in Fds |-> {}] /\ waiters = 0 /\ pc = "top"
      /\ timer = [f \in Fibers |-> {}]
      /\ fired = {} /\ runq \in Orders /\ call = [f \in Fibers |-> NoCall]
  BY DEF Init
<1>2. runq \in Seq(Fibers)
  <2>1. Cardinality(Fibers) \in Nat
    BY HookedIoAssumption, FS_CardinalityType
  <2>2. runq \in [1..Cardinality(Fibers) -> Fibers]
    BY <1>1 DEF Orders
  <2> QED BY <2>1, <2>2
<1>3. \A f \in Fibers : /\ call[f] = NoCall /\ call[f].at = "none" /\ call[f].op = "none"
                        /\ call[f].fds = {} /\ ~Waits(f)
  BY <1>1 DEF NoCall, Waits
<1>4. HookedTypeOK
  <2>1. NoCall \in Calls
    BY DEF NoCall, Calls
  <2> QED BY <1>1, <1>2, <2>1 DEF Init, HookedTypeOK
<1>5. CondTyped /\ LoopHas /\ Exclusive /\ CallShapes /\ Registered /\ TimersOwn /\ SleepIsWhole
  BY <1>1, <1>3 DEF TimersOwn, CondTyped, LoopHas, Exclusive, CallShapes, Registered, AsksFor, SleepIsWhole
<1>6. WaitersExact
  <2>1. Pairs = {} /\ TimedWaits = {}
    BY <1>3 DEF Pairs, TimedWaits
  <2>2. Cardinality(Pairs) = 0 /\ Cardinality(TimedWaits) = 0
    BY <2>1, FS_EmptySet
  <2> QED BY <1>1, <2>2, CountsExact
<1> QED BY <1>4, <1>5, <1>6 DEF HookedInv

LEMMA NextHookedInv == HookedInv /\ [Next]_vars => HookedInv'
<1> SUFFICES ASSUME HookedInv, [Next]_vars PROVE HookedInv'
  OBVIOUS
<1>1. CASE Kernel
  BY <1>1, KernelKeeps DEF Kernel
<1>2. CASE Loop \/ IdleTimeout
  BY <1>2, LoopKeeps, FileEventKeeps DEF Loop
<1>3. ASSUME NEW f \in Fibers, TimeEvent(f) \/ GoOn(f) \/ Start(f) \/ Yield(f) \/ Finish(f)
      PROVE  HookedInv'
  BY <1>3, TimeEventKeeps, StepsOn, TryWaitKeeps, SelectWaitKeeps, WaitOverKeeps, StartKeeps,
     YieldKeeps DEF GoOn
<1>4. CASE UNCHANGED vars
  <2>1. UNCHANGED <<backend, cond, mask, client, waiters, timer, timedOut, state, runq, cur, pc,
                    fired, call>>
    BY <1>4 DEF vars, kernelVars, pollVars, fiberVars, loopVars
  <2>2. (HookedTypeOK /\ CondTyped /\ LoopHas /\ TimersOwn /\ SleepIsWhole)'
    BY <2>1 DEF HookedInv, HookedTypeOK, CondTyped, LoopHas, TimersOwn, SleepIsWhole, Waits
  <2> QED BY <2>1, <2>2, SameCalls
<1> QED BY <1>1, <1>2, <1>3, <1>4 DEF Next

LEMMA Invariant == Spec => []HookedInv
BY InitHookedInv, NextHookedInv, PTL DEF Spec

(* The types; EIoWaiter's counter never goes below zero.                   *)
THEOREM HookedTypeOKHolds == Spec => []HookedTypeOK
<1>1. HookedInv => HookedTypeOK
  BY DEF HookedInv
<1> QED BY <1>1, Invariant, PTL

(* setFileEvent and delFileEvent under every hooked call: the poller has   *)
(* registered what the fibers inside a waiting call asked for, each for    *)
(* the fiber that asked.                                                   *)
THEOREM RegisteredIffAskedHolds == Spec => []RegisteredIffAsked
<1>1. HookedInv => RegisteredIffAsked
  BY RegisteredMeans DEF HookedInv
<1> QED BY <1>1, Invariant, PTL

(* sleep(): a fiber in it is resumed by its own timer and nothing else.    *)
THEOREM SleepIsWholeHolds == Spec => []SleepIsWhole
<1>1. HookedInv => SleepIsWhole
  BY DEF HookedInv
<1> QED BY <1>1, Invariant, PTL

(* EIoWaiter::waiters counts the registrations and timers of the waiting   *)
(* calls, however many fibers and descriptors there are.                   *)
THEOREM WaitersExactHolds == Spec => []WaitersExact
<1>1. HookedInv => WaitersExact
  BY DEF HookedInv
<1> QED BY <1>1, Invariant, PTL

=============================================================================
