--------------------------- MODULE FiberQueueProofs ---------------------------
(***************************************************************************)
(* Proofs about FiberQueue, for every set of threads, queues and fibers.   *)
(*                                                                         *)
(* The argument is about three things no variable of the code has: the     *)
(* list of each queue as a sequence L[q] of nodes, the owner own[n] of a   *)
(* node (a queue, a fiber, a thread inside add() or poll(), or None when   *)
(* it was freed), and the place place[f] of a fiber (a queue, a thread, or *)
(* None when it was deleted).  That they exist says that nothing is in two *)
(* places, because each is a function.                                     *)
(***************************************************************************)
EXTENDS FiberQueue, FiniteSetTheorems, SequenceTheorems, WellFoundedInduction, TLAPS

(* L[q] is what the next fields lead through, from the head of q on, and   *)
(* ends at its tail unless an add() is about to move that.                 *)
Lists(L) ==
    /\ L \in [Queues -> Seq(Nodes)]
    /\ \A q \in Queues :
           /\ Len(L[q]) >= 1 /\ head[q] = L[q][1]
           /\ \A i \in 1..(Len(L[q]) - 1) : next[L[q][i]] = L[q][i + 1]
           /\ next[L[q][Len(L[q])]] = None
           /\ \A i, j \in 1..Len(L[q]) : L[q][i] = L[q][j] => i = j
           /\ (\A t \in Threads : At(t, "settail") => op[t].q # q)
              => tail[q] = L[q][Len(L[q])]

(* What the steps of add() and poll() know of the list and the locks.      *)
Calls(L) ==
    \A t \in Threads :
        /\ ~At(t, "idle") => op[t].q \in Queues
        /\ op[t].at \in {"link", "settail"} => tl[op[t].q] = t
        /\ op[t].at \in {"look", "take"} => hl[op[t].q] = t
        /\ op[t].at \in {"addlock", "link"} =>
               next[op[t].node] = None /\ value[op[t].node] = op[t].f
        /\ At(t, "settail") => op[t].node = L[op[t].q][Len(L[op[t].q])]
        /\ At(t, "take") =>
               /\ Len(L[op[t].q]) >= 2
               /\ op[t].node = L[op[t].q][1] /\ op[t].new = L[op[t].q][2]

\* t has a node and a fiber that are in no queue.
Moves(t) == op[t].at \in {"addlock", "link", "pack"}

(* Every node is in one list, with one fiber or thread, or freed.          *)
Owned(L, own) ==
    /\ own \in [Nodes -> Queues \union Fibers \union Threads \union {None}]
    /\ \A q \in Queues : \A i \in 1..Len(L[q]) : own[L[q][i]] = q
    /\ \A t \in Threads : \A f \in held[t] : own[packing[f]] = f
    /\ \A t \in Threads : Moves(t) => op[t].node \in Nodes /\ own[op[t].node] = t
    /\ \A n \in freed : own[n] = None

(* Every fiber is in one queue, with one thread, or deleted.               *)
Placed(L, place) ==
    /\ place \in [Fibers -> Queues \union Threads \union {None}]
    /\ \A q \in Queues : \A i \in 2..Len(L[q]) :
           value[L[q][i]] \in Fibers /\ place[value[L[q][i]]] = q
    /\ \A q \in Queues : \A i, j \in 2..Len(L[q]) : value[L[q][i]] = value[L[q][j]] => i = j
    /\ \A t \in Threads : \A f \in held[t] : place[f] = t
    /\ \A t \in Threads :
           Moves(t) => op[t].f \in Fibers /\ place[op[t].f] = t /\ op[t].f \notin held[t]

Sound(L, own, place) ==
    /\ QueueTypeOK
    /\ Lists(L) /\ Calls(L) /\ Owned(L, own) /\ Placed(L, place)

QueueInv == \E L, own, place : Sound(L, own, place)

-----------------------------------------------------------------------------
(* Sequences.                                                              *)

LEMMA AppendFacts ==
    ASSUME NEW S, NEW s \in Seq(S), NEW x \in S
    PROVE  /\ Append(s, x) \in Seq(S)
           /\ Len(Append(s, x)) = Len(s) + 1
           /\ Append(s, x)[Len(s) + 1] = x
           /\ \A i \in 1..Len(s) : Append(s, x)[i] = s[i]
OBVIOUS

LEMMA TailFacts ==
    ASSUME NEW S, NEW s \in Seq(S), Len(s) >= 1
    PROVE  /\ Tail(s) \in Seq(S)
           /\ Len(Tail(s)) = Len(s) - 1
           /\ \A i \in 1..(Len(s) - 1) : Tail(s)[i] = s[i + 1]
<1>1. s # <<>>
  OBVIOUS
<1> QED BY <1>1

LEMMA Distinct ==
    /\ None \notin Nodes /\ None \notin Threads /\ None \notin Fibers
    /\ \A t \in Threads, q \in Queues : t # q
    /\ \A t \in Threads, f \in Fibers : t # f
    /\ \A q \in Queues, f \in Fibers : q # f
BY FiberQueueAssumption DEF Nodes

LEMMA ElementFacts ==
    ASSUME NEW L, Lists(L), NEW q \in Queues
    PROVE  /\ L[q] \in Seq(Nodes) /\ Len(L[q]) \in Nat
           /\ \A i \in 1..Len(L[q]) : L[q][i] \in Nodes /\ L[q][i] # None
<1>1. L[q] \in Seq(Nodes)
  BY DEF Lists
<1> QED BY <1>1, Distinct

LEMMA LinkFacts ==
    ASSUME NEW L, Lists(L), NEW q \in Queues
    PROVE  /\ Len(L[q]) \in Nat /\ Len(L[q]) >= 1 /\ head[q] = L[q][1]
           /\ \A i \in 1..Len(L[q]) : L[q][i] # None
           /\ \A i \in 1..(Len(L[q]) - 1) : next[L[q][i]] = L[q][i + 1]
           /\ next[L[q][Len(L[q])]] = None
<1>1. Len(L[q]) \in Nat /\ \A i \in 1..Len(L[q]) : L[q][i] # None
  BY ElementFacts
<1>2. /\ Len(L[q]) >= 1 /\ head[q] = L[q][1]
      /\ \A i \in 1..(Len(L[q]) - 1) : next[L[q][i]] = L[q][i + 1]
      /\ next[L[q][Len(L[q])]] = None
  BY DEF Lists
<1> QED BY <1>1, <1>2

LEMMA ListsFrame ==
    ASSUME NEW L, Lists(L), head' = head, tail' = tail,
           \A q \in Queues : \A i \in 1..Len(L[q]) : next'[L[q][i]] = next[L[q][i]],
           \A t \in Threads : /\ At(t, "settail")' <=> At(t, "settail")
                              /\ At(t, "settail") => op'[t].q = op[t].q
    PROVE  Lists(L)'
<1>1. ASSUME NEW q \in Queues
      PROVE  /\ \A i \in 1..(Len(L[q]) - 1) : next'[L[q][i]] = L[q][i + 1]
             /\ next'[L[q][Len(L[q])]] = None
  BY DEF Lists
<1>2. ASSUME NEW q \in Queues, \A t \in Threads : At(t, "settail")' => op'[t].q # q
      PROVE  tail'[q] = L[q][Len(L[q])]
  BY <1>2 DEF Lists
<1> QED BY <1>1, <1>2 DEF Lists

-----------------------------------------------------------------------------
(* Every step keeps the lists, owners and places sound, for lists, owners  *)
(* and places that the lemma names where the refinement needs them.        *)

LEMMA AddKeeps ==
    ASSUME NEW L, NEW own, NEW place, Sound(L, own, place),
           NEW t \in Threads, NEW q \in Queues, NEW f \in Fibers, Add(t, q, f)
    PROVE  \E own2, place2 : Sound(L, own2, place2)'
<1>1. PICK n \in Nodes : n = packing[f]
  BY DEF Sound, QueueTypeOK
<1> DEFINE own2 == [own EXCEPT ![n] = t]
<1>2. own[n] = f /\ place[f] = t /\ f \in held[t]
  BY <1>1 DEF Sound, Owned, Placed, Add
<1>3. \A r \in Queues : \A i \in 1..Len(L[r]) : L[r][i] \in Nodes /\ L[r][i] # n
  BY <1>2, ElementFacts, Distinct DEF Sound, Owned
<1>4. ASSUME NEW u \in Threads, Moves(u) PROVE op[u].node # n
  <2>1. own[op[u].node] = u /\ u # f
    BY <1>4, Distinct DEF Sound, Owned
  <2> QED BY <1>2, <2>1
<1>5. \A u \in Threads : \A g \in held[u] : g # f => packing[g] # n
  BY <1>2 DEF Sound, Owned
<1>6. QueueTypeOK'
  BY <1>1 DEF Sound, Add, QueueTypeOK, OpTypes, NoOp, NodeOrNull, At, lockVars
<1>a. /\ \A u \in Threads \ {t} : op'[u] = op[u] /\ held'[u] = held[u]
      /\ op'[t].at = "addlock" /\ op'[t].q = q /\ op'[t].f = f /\ op'[t].node = n
      /\ held'[t] = held[t] \ {f} /\ op[t].at = "idle"
  BY <1>1 DEF Sound, Add, QueueTypeOK, NoOp, At
<1>b. /\ \A m \in Nodes \ {n} : next'[m] = next[m] /\ value'[m] = value[m]
      /\ next'[n] = None /\ value'[n] = f
  BY <1>1 DEF Sound, Add, QueueTypeOK
<1>7. Lists(L)'
  <2>1. \A r \in Queues : \A i \in 1..Len(L[r]) : next'[L[r][i]] = next[L[r][i]]
    BY <1>3, <1>b
  <2>2. \A u \in Threads : (At(u, "settail")' <=> At(u, "settail"))
                             /\ (At(u, "settail") => op'[u].q = op[u].q)
    BY <1>a DEF At
  <2> QED BY <2>1, <2>2, ListsFrame DEF Sound, Add
<1>8. Calls(L)'
  BY <1>1, <1>4 DEF Sound, Add, Calls, Moves, QueueTypeOK, OpTypes, NoOp, At, lockVars
<1>9. Owned(L, own2)'
  <2>1. \A u \in Threads : \A g \in held'[u] : g # f /\ g \in held[u] /\ packing[g] \in Nodes
    BY <1>2, <1>a DEF Sound, Placed, QueueTypeOK
  <2>2. own2 \in [Nodes -> Queues \union Fibers \union Threads \union {None}]
    BY DEF Sound, Owned
  <2>3. \A u \in Threads : Moves(u)' => u = t \/ (Moves(u) /\ op'[u] = op[u])
    BY <1>a DEF Moves
  <2>4. n \notin freed
    BY <1>2, Distinct DEF Sound, Owned
  <2>5. \A q_1 \in Queues : \A i \in 1..Len(L[q_1]) : own2[L[q_1][i]] = q_1
    BY <1>3 DEF Sound, Owned
  <2>6. \A u \in Threads : \A g \in held'[u] : own2[packing[g]] = g
    BY <1>5, <2>1 DEF Sound, Owned
  <2>7. \A u \in Threads : Moves(u)' => op'[u].node \in Nodes /\ own2[op'[u].node] = u
    BY <1>a, <1>4, <2>2, <2>3 DEF Sound, Owned
  <2>8. \A m \in freed : own2[m] = None
    BY <2>4 DEF Sound, Owned
  <2> QED BY <2>2, <2>5, <2>6, <2>7, <2>8 DEF Owned, Add
<1>10. Placed(L, place)'
  BY <1>1, <1>2, <1>3 DEF Sound, Add, Placed, Moves, QueueTypeOK, OpTypes, NoOp, At
<1> QED BY <1>6, <1>7, <1>8, <1>9, <1>10 DEF Sound

LEMMA AddLockKeeps ==
    ASSUME NEW L, NEW own, NEW place, Sound(L, own, place),
           NEW t \in Threads, AddLock(t)
    PROVE  Sound(L, own, place)'
<1>1. QueueTypeOK'
  BY DEF Sound, AddLock, QueueTypeOK, OpTypes, Goes, At, listVars
<1>2. Lists(L)'
  BY DEF Sound, AddLock, Lists, QueueTypeOK, Goes, At, listVars
<1>3. Calls(L)'
  BY Distinct DEF Sound, AddLock, Calls, QueueTypeOK, OpTypes, Goes, At, Lockable, listVars
<1>4. Owned(L, own)'
  BY DEF Sound, AddLock, Owned, Moves, QueueTypeOK, OpTypes, Goes, At, listVars
<1>5. Placed(L, place)'
  BY DEF Sound, AddLock, Placed, Moves, QueueTypeOK, OpTypes, Goes, At, listVars
<1> QED BY <1>1, <1>2, <1>3, <1>4, <1>5 DEF Sound

LEMMA AddLinkKeeps ==
    ASSUME NEW L, NEW own, NEW place, Sound(L, own, place),
           NEW t \in Threads, AddLink(t)
    PROVE  \E L2, own2, place2 :
               /\ L2 = [L EXCEPT ![op[t].q] = Append(@, op[t].node)]
               /\ Sound(L2, own2, place2)'
<1>1. PICK q \in Queues, n \in Nodes, f \in Fibers : q = op[t].q /\ n = op[t].node /\ f = op[t].f
  BY DEF Sound, Calls, Owned, Placed, Moves, AddLink, At
<1>2. PICK last \in Nodes : last = L[q][Len(L[q])] /\ tail[q] = last
  <2>1. \A u \in Threads : At(u, "settail") => op[u].q # q
    BY <1>1 DEF Sound, Calls, AddLink, At
  <2>2. tail[q] = L[q][Len(L[q])] /\ Len(L[q]) >= 1
    BY <2>1 DEF Sound, Lists
  <2> QED BY <2>2, ElementFacts DEF Sound
<1> DEFINE L2 == [L EXCEPT ![q] = Append(@, n)]
           own2 == [own EXCEPT ![n] = q]
           place2 == [place EXCEPT ![f] = q]
<1>3. /\ own[n] = t /\ place[f] = t /\ f \notin held[t] /\ value[n] = f /\ next[n] = None
      /\ tl[q] = t
  BY <1>1 DEF Sound, Calls, Owned, Placed, Moves, AddLink, At
<1>4. /\ L[q] \in Seq(Nodes) /\ Len(L[q]) \in Nat /\ Len(L[q]) >= 1
      /\ \A r \in Queues : \A i \in 1..Len(L[r]) : L[r][i] \in Nodes /\ L[r][i] # n
  BY <1>3, ElementFacts, Distinct DEF Sound, Lists, Owned
<1>5. /\ L2[q] \in Seq(Nodes) /\ Len(L2[q]) = Len(L[q]) + 1 /\ L2[q][Len(L[q]) + 1] = n
      /\ \A i \in 1..Len(L[q]) : L2[q][i] = L[q][i]
      /\ \A r \in Queues \ {q} : L2[r] = L[r]
      /\ L2 \in [Queues -> Seq(Nodes)]
  BY <1>4, AppendFacts DEF Sound, Lists
<1>6. last # n /\ \A r \in Queues : \A i \in 1..Len(L[r]) : L[r][i] = last => r = q /\ i = Len(L[q])
  BY <1>2, <1>4, ElementFacts DEF Sound, Lists, Owned
<1>7. next' = [next EXCEPT ![last] = n]
  BY <1>1, <1>2 DEF AddLink
<1>8. \A u \in Threads \ {t} : op[u].at = "settail" \/ op[u].at = "link" => op[u].q # q
  BY <1>1, <1>3 DEF Sound, Calls
<1>9. \A u \in Threads : Moves(u) => op[u].node # last
  BY <1>2, <1>4, Distinct DEF Sound, Owned
<1>10. \A u \in Threads \ {t} : Moves(u) => op[u].node # n /\ op[u].f # f
  BY <1>3 DEF Sound, Owned, Placed
<1>11. \A u \in Threads : f \notin held[u] /\ (\A g \in held[u] : packing[g] # n)
  BY <1>1, <1>3, Distinct DEF Sound, Owned, Placed, QueueTypeOK
<1>12. \A r \in Queues : \A i \in 2..Len(L[r]) : value[L[r][i]] # f
  BY <1>3, Distinct DEF Sound, Placed
<1>a. /\ \A u \in Threads \ {t} : op'[u] = op[u]
      /\ op'[t].at = "settail" /\ op'[t].q = q /\ op'[t].node = n
      /\ op[t].at = "link"
  BY <1>1 DEF Sound, AddLink, QueueTypeOK, Goes, At
<1>13. QueueTypeOK'
  BY <1>1, <1>2 DEF Sound, AddLink, QueueTypeOK, OpTypes, NodeOrNull, Goes, At, lockVars
<1> HIDE DEF L2
<1>14. Lists(L2)'
  <2>1. \A r \in Queues \ {q} :
           /\ Len(L2[r]) >= 1 /\ head[r] = L2[r][1]
           /\ \A i \in 1..(Len(L2[r]) - 1) : next'[L2[r][i]] = L2[r][i + 1]
           /\ next'[L2[r][Len(L2[r])]] = None
           /\ \A i, j \in 1..Len(L2[r]) : L2[r][i] = L2[r][j] => i = j
    BY <1>4, <1>5, <1>6, <1>7 DEF Sound, Lists, QueueTypeOK
  <2>2. /\ Len(L2[q]) >= 1 /\ head[q] = L2[q][1]
        /\ \A i \in 1..(Len(L2[q]) - 1) : next'[L2[q][i]] = L2[q][i + 1]
        /\ next'[L2[q][Len(L2[q])]] = None
        /\ \A i, j \in 1..Len(L2[q]) : L2[q][i] = L2[q][j] => i = j
    <3>1. PICK m \in Nat : m = Len(L[q]) /\ m >= 1
      BY <1>4
    <3>2. \A i \in 1..(m - 1) : L[q][i] \in Nodes /\ L[q][i] # last /\ next[L[q][i]] = L[q][i + 1]
      BY <1>4, <1>6, <3>1 DEF Sound, Lists
    <3>3. \A i \in 1..(m - 1) : next'[L2[q][i]] = L2[q][i + 1]
      <4>1. next \in [Nodes -> NodeOrNull]
        BY DEF Sound, QueueTypeOK
      <4>2. ASSUME NEW i \in 1..(m - 1) PROVE next'[L2[q][i]] = L2[q][i + 1]
        <5>1. L2[q][i] = L[q][i] /\ L2[q][i + 1] = L[q][i + 1]
          BY <1>5, <3>1
        <5>2. next'[L[q][i]] = next[L[q][i]]
          BY <1>7, <3>2, <4>1
        <5> QED BY <3>2, <5>1, <5>2
      <4> QED BY <4>2
    <3>4. next'[L2[q][m]] = L2[q][m + 1] /\ next'[L2[q][m + 1]] = None
      <4>1. L2[q][m] = last /\ L2[q][m + 1] = n
        BY <1>2, <1>5, <3>1
      <4>2. next'[last] = n /\ next'[n] = None
        BY <1>3, <1>6, <1>7 DEF Sound, QueueTypeOK
      <4> QED BY <4>1, <4>2
    <3>5. \A i, j \in 1..m : L[q][i] = L[q][j] => i = j
      BY <3>1 DEF Sound, Lists
    <3>6. \A i, j \in 1..(m + 1) : L2[q][i] = L2[q][j] => i = j
      BY <1>4, <1>5, <3>1, <3>5
    <3>7. head[q] = L2[q][1]
      BY <1>5, <3>1 DEF Sound, Lists
    <3>8. Len(L2[q]) = m + 1
      BY <1>5, <3>1
    <3>9. \A i \in 1..m : next'[L2[q][i]] = L2[q][i + 1]
      <4>1. \A i \in 1..m : i \in 1..(m - 1) \/ i = m
        BY <3>1
      <4> QED BY <3>3, <3>4, <4>1
    <3>10. Len(L2[q]) >= 1 /\ Len(L2[q]) - 1 = m
      BY <3>8
    <3> QED BY <3>4, <3>6, <3>7, <3>8, <3>9, <3>10
  <2>3. \A r \in Queues : (\A u \in Threads : At(u, "settail")' => op'[u].q # r) => r # q
    BY <1>1 DEF Sound, AddLink, QueueTypeOK, OpTypes, Goes, At
  <2>4. \A r \in Queues \ {q} : (\A u \in Threads : At(u, "settail")' => op'[u].q # r)
                                   => tail[r] = L2[r][Len(L2[r])]
    BY <1>1, <1>5 DEF Sound, Lists, AddLink, QueueTypeOK, OpTypes, Goes, At
  <2> QED BY <1>5, <2>1, <2>2, <2>3, <2>4 DEF Lists, AddLink
<1>15. Calls(L2)'
  <2>1. ASSUME NEW u \in Threads, ~At(u, "idle")' PROVE op'[u].q \in Queues
    BY <1>1, <1>a, <2>1 DEF Sound, Calls, At
  <2>2. ASSUME NEW u \in Threads, op'[u].at \in {"link", "settail"} PROVE tl[op'[u].q] = u
    BY <1>3, <1>a, <2>2 DEF Sound, Calls
  <2>3. ASSUME NEW u \in Threads, op'[u].at \in {"look", "take"} PROVE hl[op'[u].q] = u
    BY <1>a, <2>3 DEF Sound, Calls
  <2>4. ASSUME NEW u \in Threads, op'[u].at \in {"addlock", "link"}
        PROVE  next'[op'[u].node] = None /\ value[op'[u].node] = op'[u].f
    <3>1. u # t /\ Moves(u)
      BY <1>a, <2>4 DEF Moves
    <3>2. op[u].node # last /\ op[u].node \in Nodes
      BY <1>9, <3>1 DEF Sound, Owned
    <3> QED BY <1>7, <1>a, <2>4, <3>1, <3>2 DEF Sound, Calls, QueueTypeOK
  <2>5. ASSUME NEW u \in Threads, At(u, "settail")'
        PROVE  op'[u].node = L2[op'[u].q][Len(L2[op'[u].q])]
    BY <1>4, <1>5, <1>8, <1>a, <2>1, <2>5 DEF Sound, Calls, At
  <2>6. ASSUME NEW u \in Threads, At(u, "take")'
        PROVE  /\ Len(L2[op'[u].q]) >= 2
               /\ op'[u].node = L2[op'[u].q][1] /\ op'[u].new = L2[op'[u].q][2]
    <3>1. PICK r \in Queues : r = op[u].q
      BY <1>a, <2>6 DEF Sound, Calls, At
    <3>2. /\ op'[u] = op[u] /\ Len(L[r]) >= 2
          /\ op[u].node = L[r][1] /\ op[u].new = L[r][2]
      BY <1>a, <2>6, <3>1 DEF Sound, Calls, At
    <3>3. Len(L2[r]) >= 2 /\ L2[r][1] = L[r][1] /\ L2[r][2] = L[r][2]
      BY <1>4, <1>5, <3>2
    <3> QED BY <3>1, <3>2, <3>3
  <2> QED BY <2>1, <2>2, <2>3, <2>4, <2>5, <2>6 DEF Calls, AddLink, lockVars
<1>b. \A r \in Queues : \A i \in 1..Len(L2[r]) :
          \/ r = q /\ i = Len(L[q]) + 1 /\ L2[r][i] = n
          \/ i \in 1..Len(L[r]) /\ L2[r][i] = L[r][i]
  BY <1>4, <1>5
<1>c. \A u \in Threads : Moves(u)' => u # t /\ Moves(u) /\ op'[u] = op[u]
  BY <1>a DEF Moves
<1>16. Owned(L2, own2)'
  <2>1. own2 \in [Nodes -> Queues \union Fibers \union Threads \union {None}]
    BY DEF Sound, Owned
  <2>2. \A r \in Queues : \A i \in 1..Len(L2[r]) : own2[L2[r][i]] = r
    BY <1>4, <1>b, <2>1 DEF Sound, Owned
  <2>3. \A u \in Threads : \A g \in held[u] : own2[packing[g]] = g
    BY <1>11 DEF Sound, Owned, QueueTypeOK
  <2>4. \A u \in Threads : Moves(u)' => op'[u].node \in Nodes /\ own2[op'[u].node] = u
    BY <1>10, <1>c DEF Sound, Owned
  <2>5. \A m \in freed : own2[m] = None
    BY <1>3, Distinct DEF Sound, Owned
  <2> QED BY <2>1, <2>2, <2>3, <2>4, <2>5 DEF Owned, AddLink
<1>17. Placed(L2, place2)'
  <2>1. place2 \in [Fibers -> Queues \union Threads \union {None}]
    BY DEF Sound, Placed
  <2>2. \A r \in Queues : \A i \in 2..Len(L2[r]) : value[L2[r][i]] \in Fibers /\ place2[value[L2[r][i]]] = r
    BY <1>3, <1>12, <1>b, <2>1 DEF Sound, Placed
  <2>3. \A r \in Queues : \A i, j \in 2..Len(L2[r]) : value[L2[r][i]] = value[L2[r][j]] => i = j
    BY <1>3, <1>12, <1>b DEF Sound, Placed
  <2>4. \A u \in Threads : \A g \in held[u] : place2[g] = u
    BY <1>11 DEF Sound, Placed, QueueTypeOK
  <2>5. \A u \in Threads : Moves(u)' =>
            op'[u].f \in Fibers /\ place2[op'[u].f] = u /\ op'[u].f \notin held[u]
    BY <1>10, <1>c DEF Sound, Placed
  <2> QED BY <2>1, <2>2, <2>3, <2>4, <2>5 DEF Placed, AddLink
<1>18. Sound(L2, own2, place2)'
  BY <1>13, <1>14, <1>15, <1>16, <1>17 DEF Sound
<1> QED BY <1>1, <1>18 DEF L2

LEMMA AddTailKeeps ==
    ASSUME NEW L, NEW own, NEW place, Sound(L, own, place),
           NEW t \in Threads, AddTail(t)
    PROVE  Sound(L, own, place)'
<1>1. PICK q \in Queues : q = op[t].q /\ tl[q] = t /\ op[t].node = L[q][Len(L[q])]
  BY DEF Sound, Calls, AddTail, At
<1>2. L[q][Len(L[q])] \in Nodes
  BY ElementFacts DEF Sound, Lists
<1>3. \A u \in Threads \ {t} : op[u].at \in {"link", "settail"} => op[u].q # q
  BY <1>1 DEF Sound, Calls
<1>4. /\ \A u \in Threads \ {t} : op'[u] = op[u]
      /\ op'[t] = NoOp /\ op'[t].at = "idle" /\ op[t].at = "settail"
  BY DEF Sound, AddTail, QueueTypeOK, NoOp, Ends, At
<1>5. QueueTypeOK'
  <2>1. op' \in [Threads -> OpTypes]
    BY DEF Sound, AddTail, QueueTypeOK, OpTypes, NodeOrNull, NoOp, Ends
  <2> QED BY <1>1, <1>2, <1>4, <2>1 DEF Sound, AddTail, QueueTypeOK, At
<1>6. Lists(L)'
  <2>1. tail' = [tail EXCEPT ![q] = L[q][Len(L[q])]]
    BY <1>1 DEF AddTail
  <2>2. ASSUME NEW r \in Queues, \A u \in Threads : At(u, "settail")' => op'[u].q # r
        PROVE  tail'[r] = L[r][Len(L[r])]
    <3>1. CASE r = q
      BY <2>1, <3>1 DEF Sound, QueueTypeOK
    <3>2. CASE r # q
      <4>1. \A u \in Threads : At(u, "settail") => op[u].q # r
        BY <1>1, <1>4, <2>2, <3>2 DEF At
      <4> QED BY <2>1, <3>2, <4>1 DEF Sound, Lists, QueueTypeOK
    <3> QED BY <3>1, <3>2
  <2> QED BY <2>2 DEF Sound, Lists, AddTail
<1>7. Calls(L)'
  BY <1>1, <1>3, <1>4 DEF Sound, Calls, AddTail, QueueTypeOK, At
<1>8. Owned(L, own)' /\ Placed(L, place)'
  BY <1>4 DEF Sound, Owned, Placed, Moves, AddTail
<1> QED BY <1>5, <1>6, <1>7, <1>8 DEF Sound

LEMMA PollKeeps ==
    ASSUME NEW L, NEW own, NEW place, Sound(L, own, place),
           NEW t \in Threads, NEW q \in Queues, Poll(t, q)
    PROVE  Sound(L, own, place)'
<1>1. /\ \A u \in Threads \ {t} : op'[u] = op[u]
      /\ op'[t].at = "polllock" /\ op'[t].q = q /\ op[t].at = "idle"
  BY DEF Sound, Poll, QueueTypeOK, NoOp, At
<1>2. QueueTypeOK'
  BY DEF Sound, Poll, QueueTypeOK, OpTypes, NodeOrNull, NoOp, At, listVars, lockVars
<1>3. Lists(L)'
  BY <1>1, ListsFrame DEF Sound, Poll, listVars, At
<1>4. Calls(L)'
  BY <1>1 DEF Sound, Calls, Poll, listVars, lockVars, At
<1>5. Owned(L, own)' /\ Placed(L, place)'
  BY <1>1 DEF Sound, Owned, Placed, Moves, Poll, listVars
<1> QED BY <1>2, <1>3, <1>4, <1>5 DEF Sound

LEMMA PollLockKeeps ==
    ASSUME NEW L, NEW own, NEW place, Sound(L, own, place),
           NEW t \in Threads, PollLock(t)
    PROVE  Sound(L, own, place)'
<1>1. PICK q \in Queues : q = op[t].q /\ hl[q] = None
  BY DEF Sound, Calls, PollLock, HeadLockable, Lockable, At
<1>2. /\ \A u \in Threads \ {t} : op'[u] = op[u]
      /\ op'[t].at = "look" /\ op'[t].q = q /\ op[t].at = "polllock"
      /\ hl' = [hl EXCEPT ![q] = t]
  BY <1>1 DEF Sound, PollLock, QueueTypeOK, Goes, At
<1>3. QueueTypeOK'
  <2>1. op' \in [Threads -> OpTypes]
    <3>1. op \in [Threads -> OpTypes]
      BY DEF Sound, QueueTypeOK
    <3>2. [op[t] EXCEPT !.at = "look"] \in OpTypes
      BY <3>1 DEF OpTypes
    <3> QED BY <3>1, <3>2 DEF PollLock, Goes
  <2>2. \A u \in Threads : op'[u].at = "take" => op'[u].new # None
    BY <1>2 DEF Sound, QueueTypeOK, At
  <2>3. hl' \in [Queues -> Threads \union {None}]
    BY <1>2 DEF Sound, QueueTypeOK
  <2> QED BY <2>1, <2>2, <2>3 DEF Sound, PollLock, QueueTypeOK, At, listVars
<1>4. Lists(L)'
  BY <1>2, ListsFrame DEF Sound, PollLock, listVars, At
<1>5. Calls(L)'
  BY <1>1, <1>2, Distinct DEF Sound, Calls, PollLock, QueueTypeOK, listVars, At
<1>6. Owned(L, own)' /\ Placed(L, place)'
  BY <1>2 DEF Sound, Owned, Placed, Moves, PollLock, listVars
<1> QED BY <1>3, <1>4, <1>5, <1>6 DEF Sound

(* next of the head is null exactly when the queue has the dummy only.     *)
LEMMA LookFacts ==
    ASSUME NEW L, Lists(L), NEW q \in Queues
    PROVE  /\ IsLast(head[q]) => Len(L[q]) = 1
           /\ ~IsLast(head[q]) => Len(L[q]) >= 2 /\ next[head[q]] = L[q][2]
<1>1. /\ Len(L[q]) \in Nat /\ Len(L[q]) >= 1 /\ head[q] = L[q][1]
      /\ \A i \in 1..Len(L[q]) : L[q][i] # None
      /\ \A i \in 1..(Len(L[q]) - 1) : next[L[q][i]] = L[q][i + 1]
      /\ next[L[q][Len(L[q])]] = None
  BY LinkFacts
<1>2. Len(L[q]) >= 2 => next[head[q]] = L[q][2] /\ L[q][2] # None
  BY <1>1
<1>3. Len(L[q]) = 1 => next[head[q]] = None
  BY <1>1
<1>4. Len(L[q]) = 1 \/ Len(L[q]) >= 2
  <2>1. PICK m \in Nat : m = Len(L[q]) /\ m >= 1
    BY <1>1
  <2>2. \A k \in Nat : k >= 1 => k = 1 \/ k >= 2
    OBVIOUS
  <2> QED BY <2>1, <2>2
<1> QED BY <1>2, <1>3, <1>4 DEF IsLast

LEMMA PollMissKeeps ==
    ASSUME NEW L, NEW own, NEW place, Sound(L, own, place),
           NEW t \in Threads, PollMiss(t)
    PROVE  Sound(L, own, place)' /\ Len(L[op[t].q]) = 1
<1>1. PICK q \in Queues : q = op[t].q /\ hl[q] = t
  BY DEF Sound, Calls, PollMiss, At
<1>2. Len(L[q]) = 1
  BY <1>1, LookFacts DEF Sound, PollMiss
<1>3. /\ \A u \in Threads \ {t} : op'[u] = op[u]
      /\ op'[t] = NoOp /\ op'[t].at = "idle" /\ op[t].at = "look"
      /\ hl' = [hl EXCEPT ![q] = None]
  BY <1>1 DEF Sound, PollMiss, QueueTypeOK, NoOp, Ends, At
<1>4. QueueTypeOK'
  <2>1. op' \in [Threads -> OpTypes]
    BY DEF Sound, PollMiss, QueueTypeOK, OpTypes, NodeOrNull, NoOp, Ends
  <2> QED BY <1>3, <2>1 DEF Sound, PollMiss, QueueTypeOK, At, listVars
<1>5. Lists(L)'
  BY <1>3, ListsFrame DEF Sound, PollMiss, listVars, At
<1>6. \A u \in Threads \ {t} : op[u].at \in {"look", "take"} => op[u].q # q
  BY <1>1 DEF Sound, Calls
<1>7. Calls(L)'
  BY <1>1, <1>3, <1>6 DEF Sound, Calls, PollMiss, QueueTypeOK, listVars, At
<1>8. Owned(L, own)' /\ Placed(L, place)'
  BY <1>3 DEF Sound, Owned, Placed, Moves, PollMiss, listVars
<1> QED BY <1>1, <1>2, <1>4, <1>5, <1>7, <1>8 DEF Sound

LEMMA PollLookKeeps ==
    ASSUME NEW L, NEW own, NEW place, Sound(L, own, place),
           NEW t \in Threads, PollLook(t)
    PROVE  Sound(L, own, place)'
<1>1. PICK q \in Queues : q = op[t].q /\ hl[q] = t
  BY DEF Sound, Calls, PollLook, At
<1>2. /\ Len(L[q]) >= 2 /\ next[head[q]] = L[q][2] /\ head[q] = L[q][1]
      /\ L[q][1] \in Nodes /\ L[q][2] \in Nodes /\ L[q][2] # None
  <2>1. Lists(L) /\ ~IsLast(head[q])
    BY <1>1 DEF Sound, PollLook
  <2>2. Len(L[q]) >= 2 /\ next[head[q]] = L[q][2]
    BY <2>1, LookFacts
  <2>3. 1 \in 1..Len(L[q]) /\ 2 \in 1..Len(L[q]) /\ head[q] = L[q][1]
    BY <2>1, <2>2, ElementFacts DEF Lists
  <2> QED BY <2>1, <2>2, <2>3, ElementFacts
<1>3. /\ \A u \in Threads \ {t} : op'[u] = op[u]
      /\ op'[t].at = "take" /\ op'[t].q = q /\ op[t].at = "look"
      /\ op'[t].node = L[q][1] /\ op'[t].new = L[q][2]
  BY <1>1, <1>2 DEF Sound, PollLook, QueueTypeOK, At
<1>4. QueueTypeOK'
  <2>1. op' \in [Threads -> OpTypes]
    <3>1. op[t] \in OpTypes /\ L[q][1] \in NodeOrNull /\ L[q][2] \in NodeOrNull
      BY <1>2 DEF Sound, QueueTypeOK, NodeOrNull
    <3>2. [op[t] EXCEPT !.at = "take", !.node = L[q][1], !.new = L[q][2]] \in OpTypes
      BY <3>1 DEF OpTypes
    <3>3. op' = [op EXCEPT ![t] = [op[t] EXCEPT !.at = "take", !.node = L[q][1], !.new = L[q][2]]]
      BY <1>1, <1>2 DEF PollLook
    <3> QED BY <3>2, <3>3 DEF Sound, QueueTypeOK
  <2> QED BY <1>2, <1>3, <2>1 DEF Sound, PollLook, QueueTypeOK, At, listVars, lockVars
<1>5. Lists(L)'
  BY <1>3, ListsFrame DEF Sound, PollLook, listVars, At
<1>6. Calls(L)'
  BY <1>1, <1>2, <1>3 DEF Sound, Calls, PollLook, QueueTypeOK, listVars, lockVars, At
<1>7. Owned(L, own)' /\ Placed(L, place)'
  <2>1. \A u \in Threads : Moves(u)' => u # t /\ Moves(u) /\ op'[u] = op[u]
    BY <1>3 DEF Moves
  <2> QED BY <2>1 DEF Sound, Owned, Placed, PollLook, listVars
<1> QED BY <1>4, <1>5, <1>6, <1>7 DEF Sound

LEMMA PollTakeKeeps ==
    ASSUME NEW L, NEW own, NEW place, Sound(L, own, place),
           NEW t \in Threads, PollTake(t)
    PROVE  \E L2, own2, place2 :
               /\ L2 = [L EXCEPT ![op[t].q] = Tail(@)]
               /\ Len(L[op[t].q]) >= 2 /\ op'[t].f = value[L[op[t].q][2]]
               /\ Sound(L2, own2, place2)'
<1>1. PICK q \in Queues : q = op[t].q /\ hl[q] = t
  BY DEF Sound, Calls, PollTake, At
<1>2. PICK m \in Nat : m = Len(L[q]) /\ m >= 2
  BY <1>1, ElementFacts DEF Sound, Calls, PollTake, At
<1>3. PICK n \in Nodes, new \in Nodes, f \in Fibers :
          /\ n = L[q][1] /\ new = L[q][2] /\ f = value[new]
          /\ n = op[t].node /\ new = op[t].new
  <2>1. 1 \in 1..Len(L[q]) /\ 2 \in 1..Len(L[q]) /\ 2 \in 2..Len(L[q])
    BY <1>2
  <2>2. L[q][1] \in Nodes /\ L[q][2] \in Nodes
    BY <2>1, ElementFacts DEF Sound
  <2>3. value[L[q][2]] \in Fibers
    BY <2>1 DEF Sound, Placed
  <2>4. op[t].node = L[q][1] /\ op[t].new = L[q][2]
    BY <1>1 DEF Sound, Calls, PollTake, At
  <2> QED BY <2>2, <2>3, <2>4
<1> DEFINE L2 == [L EXCEPT ![q] = Tail(@)]
           own2 == [own EXCEPT ![n] = t]
           place2 == [place EXCEPT ![f] = t]
<1>4. L[q] \in Seq(Nodes) /\ L \in [Queues -> Seq(Nodes)]
  BY DEF Sound, Lists
<1>5. /\ L2[q] \in Seq(Nodes) /\ Len(L2[q]) = m - 1
      /\ \A i \in 1..(m - 1) : L2[q][i] = L[q][i + 1]
      /\ \A r \in Queues \ {q} : L2[r] = L[r]
      /\ L2 \in [Queues -> Seq(Nodes)]
  BY <1>2, <1>4, TailFacts
<1>6. /\ \A u \in Threads \ {t} : op'[u] = op[u]
      /\ op'[t].at = "pack" /\ op'[t].q = q /\ op'[t].node = n /\ op'[t].f = f
      /\ op[t].at = "take"
      /\ head' = [head EXCEPT ![q] = new] /\ hl' = [hl EXCEPT ![q] = None]
  BY <1>1, <1>3 DEF Sound, PollTake, QueueTypeOK, At
<1>7. own[n] = q /\ place[f] = q
  <2>1. 1 \in 1..Len(L[q]) /\ 2 \in 2..Len(L[q])
    BY <1>2
  <2>2. own[L[q][1]] = q
    BY <2>1 DEF Sound, Owned
  <2>3. place[value[L[q][2]]] = q
    BY <2>1 DEF Sound, Placed
  <2> QED BY <1>3, <2>2, <2>3
<1>8. \A u \in Threads \ {t} : op[u].at \in {"look", "take"} => op[u].q # q
  BY <1>1 DEF Sound, Calls
<1>9. QueueTypeOK'
  <2>1. op' \in [Threads -> OpTypes]
    <3>1. [op[t] EXCEPT !.at = "pack", !.f = f] \in OpTypes
      BY DEF Sound, QueueTypeOK, OpTypes
    <3>2. op' = [op EXCEPT ![t] = [op[t] EXCEPT !.at = "pack", !.f = f]]
      BY <1>3 DEF PollTake
    <3> QED BY <3>1, <3>2 DEF Sound, QueueTypeOK
  <2> QED BY <1>6, <2>1 DEF Sound, PollTake, QueueTypeOK, At
<1> HIDE DEF L2
<1>10. \A r \in Queues : \A i \in 1..Len(L2[r]) :
           \/ r = q /\ i + 1 \in 2..m /\ L2[r][i] = L[r][i + 1]
           \/ r # q /\ L2[r] = L[r]
  BY <1>5
<1>11. Lists(L2)'
  <2>1. ASSUME NEW r \in Queues \ {q}
        PROVE  /\ Len(L2[r]) >= 1 /\ head'[r] = L2[r][1]
               /\ \A i \in 1..(Len(L2[r]) - 1) : next[L2[r][i]] = L2[r][i + 1]
               /\ next[L2[r][Len(L2[r])]] = None
               /\ \A i, j \in 1..Len(L2[r]) : L2[r][i] = L2[r][j] => i = j
    <3>1. L2[r] = L[r] /\ head'[r] = head[r]
      BY <1>5, <1>6 DEF Sound, QueueTypeOK
    <3> QED BY <3>1 DEF Sound, Lists
  <2>2. /\ Len(L2[q]) >= 1 /\ head'[q] = L2[q][1]
        /\ \A i \in 1..(Len(L2[q]) - 1) : next[L2[q][i]] = L2[q][i + 1]
        /\ next[L2[q][Len(L2[q])]] = None
        /\ \A i, j \in 1..Len(L2[q]) : L2[q][i] = L2[q][j] => i = j
    <3>1. head'[q] = L2[q][1]
      <4>1. 1 \in 1..(m - 1) /\ L2[q][1] = L[q][2]
        BY <1>2, <1>5
      <4> QED BY <1>3, <1>6, <4>1 DEF Sound, QueueTypeOK
    <3>2. /\ \A i \in 1..(m - 1) : next[L[q][i]] = L[q][i + 1]
          /\ next[L[q][m]] = None
          /\ \A i, j \in 1..m : L[q][i] = L[q][j] => i = j
      BY <1>2 DEF Sound, Lists
    <3>3. ASSUME NEW i \in 1..(m - 2) PROVE next[L2[q][i]] = L2[q][i + 1]
      <4>1. L2[q][i] = L[q][i + 1] /\ L2[q][i + 1] = L[q][(i + 1) + 1] /\ i + 1 \in 1..(m - 1)
        <5>1. i \in 1..(m - 1) /\ i + 1 \in 1..(m - 1)
          BY <1>2
        <5> QED BY <1>5, <5>1
      <4> QED BY <3>2, <4>1
    <3>4. next[L2[q][m - 1]] = None
      BY <1>2, <1>5, <3>2
    <3>5. ASSUME NEW i \in 1..(m - 1), NEW j \in 1..(m - 1), L2[q][i] = L2[q][j] PROVE i = j
      BY <1>2, <1>5, <3>2, <3>5
    <3> QED BY <1>2, <1>5, <3>1, <3>3, <3>4, <3>5
  <2>3. ASSUME NEW r \in Queues, \A u \in Threads : At(u, "settail")' => op'[u].q # r
        PROVE  tail[r] = L2[r][Len(L2[r])]
    <3>1. \A u \in Threads : At(u, "settail") => op[u].q # r
      BY <1>6, <2>3 DEF At
    <3>2. tail[r] = L[r][Len(L[r])]
      BY <3>1 DEF Sound, Lists
    <3> QED BY <1>2, <1>5, <3>2
  <2> QED BY <1>5, <2>1, <2>2, <2>3 DEF Lists, PollTake
<1>12. Calls(L2)'
  <2>1. ASSUME NEW u \in Threads, ~At(u, "idle")' PROVE op'[u].q \in Queues
    BY <1>6, <2>1 DEF Sound, Calls, At
  <2>2. ASSUME NEW u \in Threads, op'[u].at \in {"link", "settail"} PROVE tl[op'[u].q] = u
    BY <1>6, <2>2 DEF Sound, Calls
  <2>3. ASSUME NEW u \in Threads, op'[u].at \in {"look", "take"} PROVE hl'[op'[u].q] = u
    BY <1>6, <1>8, <2>3 DEF Sound, Calls, QueueTypeOK
  <2>4. ASSUME NEW u \in Threads, op'[u].at \in {"addlock", "link"}
        PROVE  next[op'[u].node] = None /\ value[op'[u].node] = op'[u].f
    BY <1>6, <2>4 DEF Sound, Calls
  <2>5. ASSUME NEW u \in Threads, At(u, "settail")'
        PROVE  op'[u].node = L2[op'[u].q][Len(L2[op'[u].q])]
    <3>1. op'[u] = op[u] /\ op[u].q \in Queues /\ op[u].node = L[op[u].q][Len(L[op[u].q])]
      BY <1>6, <2>5 DEF Sound, Calls, At
    <3>2. PICK r \in Queues : r = op[u].q
      BY <3>1
    <3>3. L2[r][Len(L2[r])] = L[r][Len(L[r])]
      <4>1. CASE r = q
        <5>1. m - 1 \in 1..(m - 1) /\ (m - 1) + 1 = m
          BY <1>2
        <5> QED BY <1>2, <1>5, <4>1, <5>1
      <4>2. CASE r # q
        BY <1>5, <4>2
      <4> QED BY <4>1, <4>2
    <3> QED BY <3>1, <3>2, <3>3
  <2>6. ASSUME NEW u \in Threads, At(u, "take")'
        PROVE  /\ Len(L2[op'[u].q]) >= 2
               /\ op'[u].node = L2[op'[u].q][1] /\ op'[u].new = L2[op'[u].q][2]
    BY <1>5, <1>6, <1>8, <2>1, <2>6 DEF Sound, Calls, At
  <2> QED BY <2>1, <2>2, <2>3, <2>4, <2>5, <2>6 DEF Calls, PollTake
<1>13. Owned(L2, own2)'
  <2>1. own2 \in [Nodes -> Queues \union Fibers \union Threads \union {None}]
    BY DEF Sound, Owned
  <2>2. ASSUME NEW r \in Queues, NEW i \in 1..Len(L2[r]) PROVE own2[L2[r][i]] = r
    <3>1. CASE r = q
      <4>1. L2[q][i] = L[q][i + 1] /\ i + 1 \in 2..m
        BY <1>10, <3>1
      <4>2. L[q][i + 1] # n /\ own[L[q][i + 1]] = q
        <5>1. i + 1 \in 1..Len(L[q]) /\ 1 \in 1..Len(L[q]) /\ i + 1 # 1
          BY <1>2, <4>1
        <5>2. own[L[q][i + 1]] = q
          BY <5>1 DEF Sound, Owned
        <5>3. L[q][i + 1] # L[q][1]
          BY <5>1 DEF Sound, Lists
        <5> QED BY <1>3, <5>2, <5>3
      <4> QED BY <3>1, <4>1, <4>2, <2>1 DEF Sound, Owned
    <3>2. CASE r # q
      <4>1. own[L2[r][i]] = r /\ L2[r][i] # n
        BY <1>5, <1>7, <3>2 DEF Sound, Owned
      <4> QED BY <4>1 DEF Sound, Owned
    <3> QED BY <3>1, <3>2
  <2>3. \A u \in Threads : \A g \in held[u] : own2[packing[g]] = g
    BY <1>7, Distinct DEF Sound, Owned, QueueTypeOK
  <2>4. ASSUME NEW u \in Threads, Moves(u)' PROVE op'[u].node \in Nodes /\ own2[op'[u].node] = u
    <3>1. CASE u = t
      BY <1>6, <3>1 DEF Sound, Owned
    <3>2. CASE u # t
      <4>1. op[u].node \in Nodes /\ own[op[u].node] = u /\ op'[u] = op[u]
        BY <1>6, <2>4, <3>2 DEF Sound, Owned, Moves
      <4> QED BY <1>7, <4>1, Distinct DEF Sound, Owned
    <3> QED BY <3>1, <3>2
  <2>5. \A k \in freed : own2[k] = None
    BY <1>7, Distinct DEF Sound, Owned, QueueTypeOK, Nodes
  <2> QED BY <2>1, <2>2, <2>3, <2>4, <2>5 DEF Owned, PollTake
<1>14. Placed(L2, place2)'
  <2>1. place2 \in [Fibers -> Queues \union Threads \union {None}]
    BY DEF Sound, Placed
  <2>2. /\ \A i \in 2..m : value[L[q][i]] \in Fibers /\ place[value[L[q][i]]] = q
        /\ \A i, j \in 2..m : value[L[q][i]] = value[L[q][j]] => i = j
    BY <1>2 DEF Sound, Placed
  <2>3. ASSUME NEW r \in Queues, NEW i \in 2..Len(L2[r])
        PROVE  value[L2[r][i]] \in Fibers /\ place2[value[L2[r][i]]] = r
    <3>1. CASE r = q
      <4>1. L2[q][i] = L[q][i + 1] /\ i + 1 \in 3..m /\ i + 1 \in 2..m
        BY <1>2, <1>5, <3>1
      <4>2. value[L[q][i + 1]] # f
        <5>1. 2 \in 2..m /\ i + 1 # 2
          BY <1>2, <4>1
        <5> QED BY <1>3, <2>2, <4>1, <5>1
      <4> QED BY <2>2, <3>1, <4>1, <4>2 DEF Sound, Placed
    <3>2. CASE r # q
      <4>1. value[L2[r][i]] \in Fibers /\ place[value[L2[r][i]]] = r
        BY <1>5, <3>2 DEF Sound, Placed
      <4> QED BY <1>7, <3>2, <4>1 DEF Sound, Placed
    <3> QED BY <3>1, <3>2
  <2>4. ASSUME NEW r \in Queues, NEW i \in 2..Len(L2[r]), NEW j \in 2..Len(L2[r]),
               value[L2[r][i]] = value[L2[r][j]]
        PROVE  i = j
    <3>1. CASE r = q
      <4>1. L2[q][i] = L[q][i + 1] /\ i + 1 \in 2..m /\ L2[q][j] = L[q][j + 1] /\ j + 1 \in 2..m
        BY <1>2, <1>5, <3>1
      <4> QED BY <2>2, <2>4, <3>1, <4>1
    <3>2. CASE r # q
      BY <1>5, <2>4, <3>2 DEF Sound, Placed
    <3> QED BY <3>1, <3>2
  <2>5. \A u \in Threads : \A g \in held[u] : place2[g] = u
    BY <1>7, Distinct DEF Sound, Placed, QueueTypeOK
  <2>6. f \notin held[t]
    BY <1>7, Distinct DEF Sound, Placed
  <2>7. ASSUME NEW u \in Threads, Moves(u)'
        PROVE  op'[u].f \in Fibers /\ place2[op'[u].f] = u /\ op'[u].f \notin held[u]
    <3>1. CASE u = t
      BY <1>6, <2>6, <3>1 DEF Sound, Placed
    <3>2. CASE u # t
      <4>1. /\ op'[u] = op[u]
            /\ op[u].f \in Fibers /\ place[op[u].f] = u /\ op[u].f \notin held[u]
        BY <1>6, <2>7, <3>2 DEF Sound, Placed, Moves
      <4> QED BY <1>7, <4>1, Distinct DEF Sound, Placed
    <3> QED BY <3>1, <3>2
  <2>8. value' = value /\ held' = held
    BY DEF PollTake
  <2> HIDE DEF Sound
  <2> QED BY <2>1, <2>3, <2>4, <2>5, <2>7, <2>8 DEF Placed
<1>15. Sound(L2, own2, place2)'
  BY <1>9, <1>11, <1>12, <1>13, <1>14 DEF Sound
<1>16. Len(L[op[t].q]) >= 2 /\ op'[t].f = value[L[op[t].q][2]]
  BY <1>1, <1>2, <1>3, <1>6
<1> QED BY <1>1, <1>15, <1>16 DEF L2

LEMMA PollPackKeeps ==
    ASSUME NEW L, NEW own, NEW place, Sound(L, own, place),
           NEW t \in Threads, PollPack(t)
    PROVE  \E own2 : Sound(L, own2, place)'
<1>1. PICK n \in Nodes, f \in Fibers : n = op[t].node /\ f = op[t].f
  BY DEF Sound, Owned, Placed, Moves, PollPack, At
<1> DEFINE own2 == [own EXCEPT ![n] = f]
<1>2. own[n] = t /\ place[f] = t /\ f \notin held[t]
  BY <1>1 DEF Sound, Owned, Placed, Moves, PollPack, At
<1>3. \A r \in Queues : \A i \in 1..Len(L[r]) : L[r][i] \in Nodes /\ L[r][i] # n
  BY <1>2, ElementFacts, Distinct DEF Sound, Owned
<1>4. /\ \A u \in Threads \ {t} : op'[u] = op[u] /\ held'[u] = held[u]
      /\ op'[t] = NoOp /\ op'[t].at = "idle" /\ op[t].at = "pack"
      /\ held'[t] = held[t] \union {f}
      /\ packing' = [packing EXCEPT ![f] = n]
      /\ \A m \in Nodes \ {n} : value'[m] = value[m]
  BY <1>1 DEF Sound, PollPack, Packed, QueueTypeOK, NoOp, Ends, At
<1>5. QueueTypeOK'
  <2>1. op' \in [Threads -> OpTypes]
    BY DEF Sound, PollPack, QueueTypeOK, OpTypes, NodeOrNull, NoOp, Ends
  <2>2. value' \in [Nodes -> Fibers \union {None}] /\ packing' \in [Fibers -> Nodes]
    BY <1>1 DEF Sound, PollPack, Packed, QueueTypeOK
  <2>3. held' \in [Threads -> SUBSET Fibers]
    BY <1>1 DEF Sound, PollPack, QueueTypeOK
  <2>4. \A u \in Threads : op'[u].at = "take" => op'[u].new # None
    BY <1>4 DEF Sound, QueueTypeOK, At
  <2> QED BY <2>1, <2>2, <2>3, <2>4 DEF Sound, PollPack, QueueTypeOK, At, lockVars
<1>6. Lists(L)'
  BY <1>4, ListsFrame DEF Sound, PollPack, At
<1>7. \A u \in Threads \ {t} : Moves(u) => op[u].node # n /\ op[u].f # f
  BY <1>2 DEF Sound, Owned, Placed
<1>8. \A u \in Threads : \A g \in held[u] : g # f /\ packing[g] # n
  BY <1>2, Distinct DEF Sound, Owned, Placed, QueueTypeOK
<1>9. Calls(L)'
  <2>1. ASSUME NEW u \in Threads, op'[u].at \in {"addlock", "link"}
        PROVE  next[op'[u].node] = None /\ value'[op'[u].node] = op'[u].f
    <3>1. u # t /\ Moves(u)
      BY <1>4, <2>1 DEF Moves
    <3>2. op[u].node \in Nodes \ {n}
      BY <1>7, <3>1 DEF Sound, Owned
    <3> QED BY <1>4, <2>1, <3>1, <3>2 DEF Sound, Calls
  <2> QED BY <1>4, <2>1 DEF Sound, Calls, PollPack, lockVars, At
<1>10. \A u \in Threads : Moves(u)' => u # t /\ Moves(u) /\ op'[u] = op[u] /\ held'[u] = held[u]
  BY <1>4 DEF Moves
<1>11. Owned(L, own2)'
  <2>1. own2 \in [Nodes -> Queues \union Fibers \union Threads \union {None}]
    BY DEF Sound, Owned
  <2>2. \A r \in Queues : \A i \in 1..Len(L[r]) : own2[L[r][i]] = r
    BY <1>3 DEF Sound, Owned
  <2>3. ASSUME NEW u \in Threads, NEW g \in held'[u] PROVE own2[packing'[g]] = g
    <3>1. g = f \/ (g \in held[u] /\ g # f /\ packing[g] # n /\ packing[g] \in Nodes /\ g \in Fibers)
      BY <1>4, <1>8 DEF Sound, QueueTypeOK
    <3> QED BY <1>4, <3>1 DEF Sound, Owned, QueueTypeOK
  <2>4. \A u \in Threads : Moves(u)' => op'[u].node \in Nodes /\ own2[op'[u].node] = u
    BY <1>7, <1>10 DEF Sound, Owned
  <2>5. \A k \in freed : own2[k] = None
    BY <1>2, Distinct DEF Sound, Owned
  <2> QED BY <2>1, <2>2, <2>3, <2>4, <2>5 DEF Owned, PollPack
<1>12. Placed(L, place)'
  <2>1. \A r \in Queues : \A i \in 1..Len(L[r]) : value'[L[r][i]] = value[L[r][i]]
    BY <1>3, <1>4
  <2>2. \A r \in Queues : \A i \in 2..Len(L[r]) : value'[L[r][i]] = value[L[r][i]]
    BY <2>1, ElementFacts DEF Sound
  <2>3. \A u \in Threads : \A g \in held'[u] : place[g] = u
    BY <1>2, <1>4 DEF Sound, Placed
  <2> QED BY <1>10, <2>2, <2>3 DEF Sound, Placed
<1> QED BY <1>5, <1>6, <1>9, <1>11, <1>12 DEF Sound

LEMMA DeleteKeeps ==
    ASSUME NEW L, NEW own, NEW place, Sound(L, own, place),
           NEW t \in Threads, NEW f \in Fibers, Delete(t, f)
    PROVE  \E own2, place2 : Sound(L, own2, place2)'
<1>1. PICK n \in Nodes : n = packing[f]
  BY DEF Sound, QueueTypeOK
<1> DEFINE own2 == [own EXCEPT ![n] = None]
           place2 == [place EXCEPT ![f] = None]
<1>2. own[n] = f /\ place[f] = t
  BY <1>1 DEF Sound, Owned, Placed, Delete
<1>3. /\ op' = op /\ freed' = freed \union {n} /\ held'[t] = held[t] \ {f}
      /\ \A u \in Threads \ {t} : held'[u] = held[u]
  BY <1>1 DEF Sound, Delete, QueueTypeOK
<1>4. QueueTypeOK'
  BY <1>1 DEF Sound, Delete, QueueTypeOK, At, listVars, lockVars
<1>5. Lists(L)' /\ Calls(L)'
  BY <1>3 DEF Sound, Lists, Calls, Delete, listVars, lockVars, At
<1>6. \A u \in Threads : \A g \in held'[u] :
          /\ g \in held[u] /\ g \in Fibers /\ g # f
          /\ packing[g] \in Nodes /\ packing[g] # n
  BY <1>2, <1>3 DEF Sound, Owned, Placed, QueueTypeOK
<1>7. ASSUME NEW u \in Threads, Moves(u)
      PROVE  op[u].node # n /\ op[u].f # f /\ held'[u] \subseteq held[u]
  <2>1. own[op[u].node] = u /\ u # f
    BY <1>7, Distinct DEF Sound, Owned
  <2>2. place[op[u].f] = u /\ (u = t => op[u].f # f)
    BY <1>7 DEF Sound, Placed, Delete
  <2> QED BY <1>2, <1>3, <2>1, <2>2
<1>8. Owned(L, own2)'
  <2>1. own2 \in [Nodes -> Queues \union Fibers \union Threads \union {None}]
    BY DEF Sound, Owned
  <2>2. \A r \in Queues : \A i \in 1..Len(L[r]) : own2[L[r][i]] = r
    BY <1>2, ElementFacts, Distinct DEF Sound, Owned
  <2>3. \A u \in Threads : \A g \in held'[u] : own2[packing[g]] = g
    BY <1>6 DEF Sound, Owned
  <2>4. \A u \in Threads : Moves(u) => op[u].node \in Nodes /\ own2[op[u].node] = u
    BY <1>7 DEF Sound, Owned
  <2>5. \A k \in freed' : own2[k] = None
    BY <1>3 DEF Sound, Owned, QueueTypeOK
  <2> QED BY <1>3, <2>1, <2>2, <2>3, <2>4, <2>5 DEF Owned, Moves, Delete, listVars
<1>9. Placed(L, place2)'
  <2>1. place2 \in [Fibers -> Queues \union Threads \union {None}]
    BY DEF Sound, Placed
  <2>2. \A r \in Queues : \A i \in 2..Len(L[r]) : place2[value[L[r][i]]] = r /\ value[L[r][i]] \in Fibers
    BY <1>2, Distinct DEF Sound, Placed
  <2>3. \A u \in Threads : \A g \in held'[u] : place2[g] = u
    BY <1>6 DEF Sound, Placed
  <2>4. \A u \in Threads : Moves(u) =>
            op[u].f \in Fibers /\ place2[op[u].f] = u /\ op[u].f \notin held'[u]
    BY <1>7 DEF Sound, Placed
  <2> QED BY <1>3, <2>1, <2>2, <2>3, <2>4 DEF Sound, Placed, Moves, Delete, listVars
<1> QED BY <1>4, <1>5, <1>8, <1>9 DEF Sound

LEMMA InitSound == ASSUME Init PROVE QueueInv
<1> DEFINE L == [q \in Queues |-> <<q>>]
           own == [n \in Nodes |-> n]
           place == [f \in Fibers |-> CHOOSE t \in Threads : f \in held[t]]
<1>1. /\ held \in [Threads -> SUBSET Fibers]
      /\ \A f \in Fibers : \E t \in Threads : \A u \in Threads : f \in held[u] <=> u = t
  BY DEF Init
<1>2. /\ place \in [Fibers -> Queues \union Threads \union {None}]
      /\ \A t \in Threads : \A f \in held[t] : place[f] = t
  <2>1. ASSUME NEW f \in Fibers
        PROVE  place[f] \in Threads /\ \A u \in Threads : f \in held[u] => place[f] = u
    BY <1>1
  <2> QED BY <1>1, <2>1
<1>3. QueueTypeOK
  BY <1>1 DEF Init, QueueTypeOK, OpTypes, NoOp, Nodes, NodeOrNull, At
<1>4. \A q \in Queues : Len(L[q]) = 1 /\ L[q][1] = q /\ L[q] \in Seq(Nodes) /\ q \in Nodes
  BY DEF Nodes
<1>5. \A t \in Threads : op[t].at = "idle"
  BY DEF Init, NoOp
<1> HIDE DEF L, place
<1>6. Lists(L)
  BY <1>4 DEF Init, Lists, L
<1>7. Calls(L)
  BY <1>5 DEF Calls, At
<1>8. Owned(L, own)
  <2>1. own \in [Nodes -> Queues \union Fibers \union Threads \union {None}]
    BY DEF Nodes
  <2>2. \A q \in Queues : \A i \in 1..Len(L[q]) : own[L[q][i]] = q
    BY <1>4
  <2>3. \A t \in Threads : \A f \in held[t] : own[packing[f]] = f
    BY <1>1 DEF Init, Nodes
  <2> QED BY <1>5, <2>1, <2>2, <2>3 DEF Owned, Moves, Init
<1>9. Placed(L, place)
  BY <1>2, <1>4, <1>5 DEF Placed, Moves
<1> QED BY <1>3, <1>6, <1>7, <1>8, <1>9 DEF QueueInv, Sound

LEMMA UnchangedSound ==
    ASSUME NEW L, NEW own, NEW place, Sound(L, own, place), UNCHANGED vars
    PROVE  Sound(L, own, place)'
BY DEF Sound, QueueTypeOK, Lists, Calls, Owned, Placed, Moves, At, vars, listVars, lockVars

LEMMA NextSound == QueueInv /\ [Next]_vars => QueueInv'
<1> SUFFICES ASSUME QueueInv, [Next]_vars PROVE QueueInv'
  OBVIOUS
<1>1. PICK L, own, place : Sound(L, own, place)
  BY DEF QueueInv
<1>2. ASSUME NEW t \in Threads, NEW q \in Queues, NEW f \in Fibers, Add(t, q, f) PROVE QueueInv'
  BY <1>1, <1>2, AddKeeps DEF QueueInv
<1>3. ASSUME NEW t \in Threads, AddLink(t) PROVE QueueInv'
  BY <1>1, <1>3, AddLinkKeeps DEF QueueInv
<1>4. ASSUME NEW t \in Threads, PollTake(t) PROVE QueueInv'
  BY <1>1, <1>4, PollTakeKeeps DEF QueueInv
<1>5. ASSUME NEW t \in Threads, PollPack(t) PROVE QueueInv'
  BY <1>1, <1>5, PollPackKeeps DEF QueueInv
<1>6. ASSUME NEW t \in Threads, NEW f \in Fibers, Delete(t, f) PROVE QueueInv'
  BY <1>1, <1>6, DeleteKeeps DEF QueueInv
<1>7. ASSUME NEW t \in Threads,
             AddLock(t) \/ AddTail(t) \/ PollLock(t) \/ PollMiss(t) \/ PollLook(t)
      PROVE  QueueInv'
  <2>1. Sound(L, own, place)'
    BY <1>1, <1>7, AddLockKeeps, AddTailKeeps, PollLockKeeps, PollMissKeeps, PollLookKeeps
  <2> QED BY <2>1 DEF QueueInv
<1>8. ASSUME NEW t \in Threads, NEW q \in Queues, Poll(t, q) PROVE QueueInv'
  <2>1. Sound(L, own, place)'
    BY <1>1, <1>8, PollKeeps
  <2> QED BY <2>1 DEF QueueInv
<1>9. CASE UNCHANGED vars
  <2>1. Sound(L, own, place)'
    BY <1>1, <1>9, UnchangedSound
  <2> QED BY <2>1 DEF QueueInv
<1> QED BY <1>2, <1>3, <1>4, <1>5, <1>6, <1>7, <1>8, <1>9 DEF Next

LEMMA QueueInvariant == Spec => []QueueInv
BY InitSound, NextSound, PTL DEF Spec

(* The fields and locals of add() and poll() have their types; in          *)
(* particular a poll() past its look has a node to take, never null.       *)
THEOREM QueueTypeOKHolds == Spec => []QueueTypeOK
<1>1. QueueInv => QueueTypeOK
  BY DEF QueueInv, Sound
<1> QED BY <1>1, QueueInvariant, PTL

-----------------------------------------------------------------------------
(* The properties speak of the list as Chain walks it.                     *)

(* Induction on the naturals, as a fact about sets.                        *)
LEMMA NatSetInduction ==
    ASSUME NEW T \in SUBSET Nat, 0 \in T, \A n \in T : n + 1 \in T
    PROVE  T = Nat
<1> DEFINE R == {ss \in Nat \X Nat : ss[1] < ss[2]}
<1> SUFFICES ASSUME T # Nat PROVE FALSE
  OBVIOUS
<1>1. IsWellFoundedOn(R, Nat)
  BY NatLessThanWellFounded DEF OpToRel
<1>2. PICK m \in Nat \ T : \A n \in Nat \ T : ~(<<n, m>> \in R)
  BY <1>1, WFMin
<1>3. m # 0 /\ m - 1 \in Nat /\ m - 1 < m
  BY <1>2
<1>4. <<m - 1, m>> \in R
  BY <1>2, <1>3
<1>5. m - 1 \in T
  BY <1>2, <1>3, <1>4
<1> QED BY <1>2, <1>3, <1>5

LEMMA NodesFinite == IsFiniteSet(Nodes) /\ Cardinality(Nodes) \in Nat
BY FiberQueueAssumption, FS_Union, FS_CardinalityType DEF Nodes

\* A list has no node twice, so it has no more than there are.
LEMMA ListBounded ==
    ASSUME NEW L, Lists(L), NEW q \in Queues
    PROVE  Len(L[q]) <= Cardinality(Nodes)
<1>1. /\ L[q] \in Seq(Nodes) /\ Len(L[q]) \in Nat
      /\ \A i, j \in 1..Len(L[q]) : L[q][i] = L[q][j] => i = j
  BY ElementFacts DEF Lists
<1> DEFINE F == [i \in 1..Len(L[q]) |-> L[q][i]]
<1>2. F \in Injection(1..Len(L[q]), Nodes)
  BY <1>1 DEF Injection, IsInjective
<1>3. Cardinality(1..Len(L[q])) <= Cardinality(Nodes)
  BY <1>2, NodesFinite, FS_Injection
<1>4. Cardinality(1..Len(L[q])) = Len(L[q])
  BY <1>1, FS_Interval
<1> QED BY <1>3, <1>4

LEMMA ChainIsList ==
    ASSUME NEW L, Lists(L), NEW q \in Queues
    PROVE  \A k \in 0..Cardinality(Nodes) :
               Chain(q)[k] = IF k < Len(L[q]) THEN L[q][k + 1] ELSE None
<1> DEFINE N == Cardinality(Nodes)
           Walks(w) == w = [k \in 0..N |->
                               IF k = 0 THEN head[q]
                               ELSE IF w[k - 1] = None THEN None ELSE next[w[k - 1]]]
           at == [k \in 0..N |-> IF k < Len(L[q]) THEN L[q][k + 1] ELSE None]
<1>1. /\ Len(L[q]) \in Nat /\ Len(L[q]) >= 1 /\ head[q] = L[q][1]
      /\ \A i \in 1..Len(L[q]) : L[q][i] # None
      /\ \A i \in 1..(Len(L[q]) - 1) : next[L[q][i]] = L[q][i + 1]
      /\ next[L[q][Len(L[q])]] = None
  BY LinkFacts
<1>a. N \in Nat
  BY NodesFinite
<1>2. ASSUME NEW k \in 1..N
      PROVE  at[k] = IF at[k - 1] = None THEN None ELSE next[at[k - 1]]
  <2>1. k - 1 \in 0..N /\ (k - 1) + 1 = k
    BY <1>1, <1>a
  <2>2. CASE k < Len(L[q])
    BY <1>1, <1>a, <2>1, <2>2
  <2>3. CASE k = Len(L[q])
    BY <1>1, <1>a, <2>1, <2>3
  <2>4. CASE k > Len(L[q])
    BY <1>1, <1>a, <2>1, <2>4
  <2> QED BY <1>1, <1>a, <2>2, <2>3, <2>4
<1>3. at[0] = head[q]
  BY <1>1, <1>a
<1> HIDE DEF at, N
<1>4. Walks(at)
  <2>1. at = [k \in 0..N |-> at[k]]
    BY DEF at
  <2>2. \A k \in 0..N : at[k] = IF k = 0 THEN head[q]
                                ELSE IF at[k - 1] = None THEN None ELSE next[at[k - 1]]
    BY <1>1, <1>a, <1>2, <1>3
  <2> QED BY <2>1, <2>2
<1>5. Chain(q) = CHOOSE w : Walks(w)
  BY DEF Chain, N
<1>6. Walks(Chain(q))
  <2> HIDE DEF Walks
  <2> QED BY <1>4, <1>5
<1>7. \A k \in 0..N : Chain(q)[k] = at[k]
  <2> DEFINE T == {k \in Nat : k <= N => Chain(q)[k] = at[k]}
  <2>1. 0 \in T
    BY <1>1, <1>a, <1>3, <1>6
  <2>2. ASSUME NEW k \in T PROVE k + 1 \in T
    BY <1>1, <1>a, <1>2, <1>6
  <2>3. T = Nat
    BY <2>1, <2>2, NatSetInduction
  <2> QED BY <1>1, <1>a, <2>3
<1> QED BY <1>7 DEF at, N

LEMMA ListedIsList ==
    ASSUME NEW L, Lists(L), NEW q \in Queues
    PROVE  /\ Length(q) = Len(L[q]) - 1 /\ Length(q) \in Nat
           /\ \A k \in 0..Length(q) : Chain(q)[k] = L[q][k + 1]
           /\ Listed(q) = {L[q][i] : i \in 1..Len(L[q])}
<1> DEFINE N == Cardinality(Nodes)
<1>1. N \in Nat
  BY NodesFinite
<1>2. PICK m \in Nat : m = Len(L[q]) /\ m >= 1 /\ m <= N /\ \A i \in 1..m : L[q][i] # None
  BY ElementFacts, ListBounded DEF Lists
<1> HIDE DEF N
<1>3. \A k \in 0..N : Chain(q)[k] = IF k < m THEN L[q][k + 1] ELSE None
  BY <1>2, ChainIsList DEF N
<1>4. {k \in 1..N : Chain(q)[k] # None} = 1..(m - 1)
  <2>1. ASSUME NEW k \in 1..N PROVE Chain(q)[k] # None <=> k < m
    <3>1. k \in 0..N /\ (k < m => k + 1 \in 1..m)
      BY <1>1, <1>2
    <3> QED BY <1>2, <1>3, <3>1
  <2>2. \A k \in 1..(m - 1) : k \in 1..N /\ k < m
    BY <1>1, <1>2
  <2>3. \A k \in 1..N : k < m => k \in 1..(m - 1)
    BY <1>1, <1>2
  <2> QED BY <2>1, <2>2, <2>3
<1>5. Length(q) = m - 1
  <2>1. Cardinality(1..(m - 1)) = m - 1
    BY <1>2, FS_Interval
  <2> QED BY <1>4, <2>1 DEF Length, N
<1>6. \A k \in 0..(m - 1) : Chain(q)[k] = L[q][k + 1] /\ k + 1 \in 1..m
  BY <1>1, <1>2, <1>3
<1>7. \A i \in 1..m : i - 1 \in 0..(m - 1) /\ Chain(q)[i - 1] = L[q][i]
  <2>1. ASSUME NEW i \in 1..m PROVE i - 1 \in 0..(m - 1) /\ (i - 1) + 1 = i
    BY <1>2
  <2> QED BY <1>6, <2>1
<1>8. Listed(q) = {L[q][i] : i \in 1..m}
  BY <1>5, <1>6, <1>7 DEF Listed
<1> QED BY <1>2, <1>5, <1>6, <1>8

LEMMA NodesSoundStep ==
    ASSUME NEW L, NEW own, NEW place, Sound(L, own, place)
    PROVE  NodesSound
<1> DEFINE InHands == UNION {held[t] : t \in Threads}
<1>1. \A q \in Queues : \A n \in Listed(q) : own[n] = q
  BY ListedIsList DEF Sound, Owned
<1>2. \A f \in InHands : f \in Fibers /\ packing[f] \in Nodes /\ own[packing[f]] = f
  BY DEF Sound, QueueTypeOK, Owned
<1>3. \A n \in Carried : own[n] \in Fibers
  BY <1>2 DEF Carried
<1>4. \A n \in InAdd \union InPoll : own[n] \in Threads
  BY DEF Sound, Owned, Moves, InAdd, InPoll, At
<1>5. \A n \in freed : own[n] = None
  BY DEF Sound, Owned
<1>6. Cardinality(Carried) = Cardinality(InHands)
  <2> DEFINE F == [f \in InHands |-> packing[f]]
  <2>1. F \in Bijection(InHands, Carried)
    <3>1. \A f, g \in InHands : packing[f] = packing[g] => f = g
      BY <1>2
    <3> QED BY <3>1 DEF Carried, Bijection, Injection, Surjection, IsInjective
  <2>2. IsFiniteSet(InHands)
    <3>1. InHands \in SUBSET Fibers
      BY <1>2
    <3> QED BY <3>1, FiberQueueAssumption, FS_Subset
  <2> QED BY <2>1, <2>2, FS_Bijection DEF ExistsBijection
<1>7. NodesApart
  <2>1. \A q, r \in Queues : q # r => Listed(q) \intersect Listed(r) = {}
    BY <1>1
  <2>2. ASSUME NEW q \in Queues
        PROVE  Listed(q) \intersect (Carried \union InAdd \union InPoll \union freed) = {}
    <3>1. q \notin Fibers /\ q \notin Threads /\ q # None
      BY Distinct DEF Nodes
    <3> QED BY <1>1, <1>3, <1>4, <1>5, <3>1
  <2>3. Carried \intersect (InAdd \union InPoll \union freed) = {}
    BY <1>3, <1>4, <1>5, Distinct
  <2>4. (InAdd \union InPoll) \intersect freed = {}
    BY <1>4, <1>5, Distinct
  <2> QED BY <1>6, <2>1, <2>2, <2>3, <2>4 DEF NodesApart
<1>8. NoFreedNode
  <2>1. \A q \in Queues : \A i \in 1..Len(L[q]) : L[q][i] \notin freed
    BY <1>5, Distinct DEF Sound, Owned, Nodes
  <2>2. ASSUME NEW t \in Threads, At(t, "link") PROVE tail[op[t].q] \notin freed
    <3>1. PICK q \in Queues : q = op[t].q /\ tl[q] = t
      BY <2>2 DEF Sound, Calls, At
    <3>2. \A u \in Threads : At(u, "settail") => op[u].q # q
      BY <2>2, <3>1 DEF Sound, Calls, At
    <3>3. tail[q] = L[q][Len(L[q])] /\ Len(L[q]) \in 1..Len(L[q])
      BY <3>2, ElementFacts DEF Sound, Lists
    <3> QED BY <2>1, <3>1, <3>3
  <2>3. ASSUME NEW t \in Threads, At(t, "look") PROVE head[op[t].q] \notin freed
    <3>1. PICK q \in Queues : q = op[t].q
      BY <2>3 DEF Sound, Calls, At
    <3>2. head[q] = L[q][1] /\ 1 \in 1..Len(L[q])
      BY ElementFacts DEF Sound, Lists
    <3> QED BY <2>1, <3>1, <3>2
  <2>4. ASSUME NEW t \in Threads, At(t, "take") PROVE op[t].new \notin freed
    <3>1. PICK q \in Queues : q = op[t].q /\ Len(L[q]) >= 2 /\ op[t].new = L[q][2]
      BY <2>4 DEF Sound, Calls, At
    <3>2. 2 \in 1..Len(L[q])
      BY <3>1, ElementFacts DEF Sound
    <3> QED BY <2>1, <3>1, <3>2
  <2>5. ASSUME NEW t \in Threads, At(t, "pack") PROVE op[t].node \notin freed
    <3>1. own[op[t].node] = t
      BY <2>5 DEF Sound, Owned, Moves, At
    <3> QED BY <1>5, <3>1, Distinct
  <2> QED BY <2>2, <2>3, <2>4, <2>5 DEF NoFreedNode
<1> QED BY <1>7, <1>8 DEF NodesSound

(* A node is in one list, or the packing of one fiber, or with one thread  *)
(* inside add() or poll(), and what these dereference is not freed.        *)
THEOREM NodesSoundHolds == Spec => []NodesSound
<1>1. QueueInv => NodesSound
  BY NodesSoundStep DEF QueueInv
<1> QED BY <1>1, QueueInvariant, PTL

-----------------------------------------------------------------------------
(* The refinement of FiberFifo.                                            *)

View(L) == [q \in Queues |-> [k \in 1..(Len(L[q]) - 1) |-> value[L[q][k + 1]]]]

FifoIsView == \A L : Lists(L) => FifoQueue = View(L)

LEMMA FifoQueueView == FifoIsView
<1> SUFFICES ASSUME NEW L, Lists(L) PROVE FifoQueue = View(L)
  BY DEF FifoIsView
<1>1. ASSUME NEW q \in Queues
      PROVE  FifoQueue[q] = [k \in 1..(Len(L[q]) - 1) |-> value[L[q][k + 1]]]
  <2>1. /\ Length(q) = Len(L[q]) - 1 /\ Length(q) \in Nat
        /\ \A k \in 0..Length(q) : Chain(q)[k] = L[q][k + 1]
    BY ListedIsList
  <2>2. \A k \in 1..Length(q) : Chain(q)[k] = L[q][k + 1]
    BY <2>1
  <2> QED BY <2>1, <2>2 DEF FifoQueue
<1> QED BY <1>1 DEF FifoQueue, View

LEMMA SameSeq ==
    ASSUME NEW S, NEW s \in Seq(S), NEW r \in Seq(S), Len(s) = Len(r),
           \A i \in 1..Len(s) : s[i] = r[i]
    PROVE  s = r
BY SeqEqual

LEMMA ViewFacts ==
    ASSUME NEW L, NEW own, NEW place, Sound(L, own, place), NEW q \in Queues
    PROVE  /\ FifoQueue[q] \in Seq(Fibers)
           /\ Len(FifoQueue[q]) = Len(L[q]) - 1
           /\ \A k \in 1..(Len(L[q]) - 1) : FifoQueue[q][k] = value[L[q][k + 1]]
<1>1. FifoQueue[q] = [k \in 1..(Len(L[q]) - 1) |-> value[L[q][k + 1]]]
  <2>1. FifoQueue = View(L)
    BY FifoQueueView DEF Sound, FifoIsView
  <2> QED BY <2>1 DEF View
<1>2. PICK m \in Nat : m = Len(L[q]) - 1
  <2>1. Len(L[q]) \in Nat /\ Len(L[q]) >= 1
    BY ElementFacts DEF Sound, Lists
  <2> QED BY <2>1
<1>3. \A k \in 1..m : value[L[q][k + 1]] \in Fibers
  <2>1. \A k \in 1..m : k + 1 \in 2..Len(L[q])
    BY <1>2, ElementFacts DEF Sound
  <2> QED BY <2>1 DEF Sound, Placed
<1> QED BY <1>1, <1>2, <1>3

(* FifoQueue after a step is the view of the list after it.                *)
LEMMA FifoQueueNext ==
    ASSUME NEW L, Lists(L)'
    PROVE  FifoQueue' = [q \in Queues |-> [k \in 1..(Len(L[q]) - 1) |-> value'[L[q][k + 1]]]]
<1>1. FifoIsView'
  BY FifoQueueView, PTL
<1> QED BY <1>1 DEF FifoIsView, View

LEMMA SameView ==
    ASSUME NEW L, Lists(L), Lists(L)',
           \A q \in Queues : \A i \in 1..Len(L[q]) : value'[L[q][i]] = value[L[q][i]]
    PROVE  FifoQueue' = FifoQueue
<1>1. FifoQueue = View(L)
  BY FifoQueueView DEF FifoIsView
<1>2. ASSUME NEW q \in Queues, NEW k \in 1..(Len(L[q]) - 1)
      PROVE  value'[L[q][k + 1]] = value[L[q][k + 1]]
  <2>1. k + 1 \in 1..Len(L[q])
    BY ElementFacts
  <2> QED BY <2>1
<1>3. ASSUME NEW q \in Queues
      PROVE  [k \in 1..(Len(L[q]) - 1) |-> value'[L[q][k + 1]]]
             = [k \in 1..(Len(L[q]) - 1) |-> value[L[q][k + 1]]]
  BY <1>2
<1>4. FifoQueue' = [q \in Queues |-> [k \in 1..(Len(L[q]) - 1) |-> value'[L[q][k + 1]]]]
  BY FifoQueueNext
<1> QED BY <1>1, <1>3, <1>4 DEF View

(* Linked at the end of the list, a fiber is at the end of the queue.      *)
LEMMA AddLinkView ==
    ASSUME NEW L, NEW own, NEW place, Sound(L, own, place),
           NEW t \in Threads, AddLink(t),
           NEW q \in Queues, q = op[t].q, NEW f \in Fibers, f = op[t].f
    PROVE  FifoQueue' = [FifoQueue EXCEPT ![q] = Append(@, f)]
<1>1. PICK L2, own2, place2 :
          L2 = [L EXCEPT ![q] = Append(@, op[t].node)] /\ Sound(L2, own2, place2)'
  BY AddLinkKeeps
<1>2. PICK n \in Nodes, m \in Nat :
          n = op[t].node /\ value[n] = f /\ m = Len(L[q]) /\ m >= 1 /\ L[q] \in Seq(Nodes)
  BY DEF Sound, Lists, Calls, Owned, Moves, AddLink, At
<1>3. /\ Len(L2[q]) = m + 1 /\ L2[q][m + 1] = n
      /\ \A i \in 1..m : L2[q][i] = L[q][i]
      /\ \A r \in Queues \ {q} : L2[r] = L[r]
  <2>1. L \in [Queues -> Seq(Nodes)]
    BY DEF Sound, Lists
  <2>2. L2[q] = Append(L[q], n) /\ \A r \in Queues \ {q} : L2[r] = L[r]
    BY <1>1, <1>2, <2>1
  <2> QED BY <1>2, <2>2, AppendFacts
<1>4. /\ FifoQueue[q] \in Seq(Fibers) /\ Len(FifoQueue[q]) = m - 1
      /\ \A k \in 1..(m - 1) : FifoQueue[q][k] = value[L[q][k + 1]]
  <2>1. /\ FifoQueue[q] \in Seq(Fibers) /\ Len(FifoQueue[q]) = Len(L[q]) - 1
        /\ \A k \in 1..(Len(L[q]) - 1) : FifoQueue[q][k] = value[L[q][k + 1]]
    BY ViewFacts
  <2> QED BY <1>2, <2>1
<1>5. FifoQueue' = [r \in Queues |-> [k \in 1..(Len(L2[r]) - 1) |-> value[L2[r][k + 1]]]]
  <2>1. Lists(L2)' /\ value' = value
    BY <1>1 DEF Sound, AddLink
  <2>2. FifoQueue' = [r \in Queues |-> [k \in 1..(Len(L2[r]) - 1) |-> value'[L2[r][k + 1]]]]
    BY <2>1, FifoQueueNext
  <2> QED BY <2>1, <2>2
<1>6. FifoQueue'[q] = Append(FifoQueue[q], f)
  <2> DEFINE s == [k \in 1..m |-> value[L2[q][k + 1]]]
             a == Append(FifoQueue[q], f)
  <2>1. FifoQueue'[q] = s
    <3>1. Len(L2[q]) - 1 = m
      BY <1>2, <1>3
    <3> QED BY <1>5, <3>1
  <2>2. a \in Seq(Fibers) /\ Len(a) = m /\ a[m] = f /\ \A k \in 1..(m - 1) : a[k] = FifoQueue[q][k]
    BY <1>2, <1>4, AppendFacts
  <2> HIDE DEF a
  <2>3. \A k \in 1..m : s[k] = a[k]
    <3>1. s[m] = a[m]
      <4>1. m \in 1..m
        BY <1>2
      <4> QED BY <1>2, <1>3, <2>2, <4>1
    <3>2. ASSUME NEW k \in 1..(m - 1) PROVE s[k] = a[k]
      <4>1. k \in 1..m /\ k + 1 \in 1..m
        BY <1>2
      <4> QED BY <1>3, <1>4, <2>2, <4>1
    <3>3. \A k \in 1..m : k = m \/ k \in 1..(m - 1)
      OBVIOUS
    <3> QED BY <3>1, <3>2, <3>3
  <2>4. s \in Seq(Fibers) /\ Len(s) = m
    <3>1. \A k \in 1..m : a[k] \in Fibers
      BY <2>2
    <3>2. \A k \in 1..m : value[L2[q][k + 1]] \in Fibers
      BY <2>3, <3>1
    <3> QED BY <3>2
  <2>5. s = a
    BY <2>2, <2>3, <2>4, SameSeq
  <2> QED BY <2>1, <2>5 DEF a
<1>7. \A r \in Queues \ {q} : FifoQueue'[r] = FifoQueue[r]
  <2>1. FifoQueue = View(L)
    BY FifoQueueView DEF Sound, FifoIsView
  <2> QED BY <1>3, <1>5, <2>1 DEF View
<1> QED BY <1>5, <1>6, <1>7 DEF FifoQueue

(* With the head moved over it, the first fiber is off the queue.          *)
LEMMA PollTakeView ==
    ASSUME NEW L, NEW own, NEW place, Sound(L, own, place),
           NEW t \in Threads, PollTake(t), NEW q \in Queues, q = op[t].q
    PROVE  /\ FifoQueue[q] # <<>> /\ op'[t].f = Head(FifoQueue[q])
           /\ FifoQueue' = [FifoQueue EXCEPT ![q] = Tail(@)]
<1>1. PICK L2, own2, place2 :
          /\ L2 = [L EXCEPT ![q] = Tail(@)] /\ Sound(L2, own2, place2)'
          /\ Len(L[q]) >= 2 /\ op'[t].f = value[L[q][2]]
  BY PollTakeKeeps
<1>2. PICK m \in Nat : m = Len(L[q]) /\ m >= 2 /\ L[q] \in Seq(Nodes)
  <2>1. L[q] \in Seq(Nodes)
    BY DEF Sound, Lists
  <2> QED BY <1>1, <2>1
<1>3. /\ Len(L2[q]) = m - 1
      /\ \A i \in 1..(m - 1) : L2[q][i] = L[q][i + 1]
      /\ \A r \in Queues \ {q} : L2[r] = L[r]
  <2>1. L \in [Queues -> Seq(Nodes)]
    BY DEF Sound, Lists
  <2>2. L2[q] = Tail(L[q]) /\ \A r \in Queues \ {q} : L2[r] = L[r]
    BY <1>1, <2>1
  <2> QED BY <1>2, <2>2, TailFacts
<1>4. /\ FifoQueue[q] \in Seq(Fibers) /\ Len(FifoQueue[q]) = m - 1
      /\ \A k \in 1..(m - 1) : FifoQueue[q][k] = value[L[q][k + 1]]
  <2>1. /\ FifoQueue[q] \in Seq(Fibers) /\ Len(FifoQueue[q]) = Len(L[q]) - 1
        /\ \A k \in 1..(Len(L[q]) - 1) : FifoQueue[q][k] = value[L[q][k + 1]]
    BY ViewFacts
  <2> QED BY <1>2, <2>1
<1>5. FifoQueue' = [r \in Queues |-> [k \in 1..(Len(L2[r]) - 1) |-> value[L2[r][k + 1]]]]
  <2>1. Lists(L2)' /\ value' = value
    BY <1>1 DEF Sound, PollTake
  <2>2. FifoQueue' = [r \in Queues |-> [k \in 1..(Len(L2[r]) - 1) |-> value'[L2[r][k + 1]]]]
    BY <2>1, FifoQueueNext
  <2> QED BY <2>1, <2>2
<1>6. FifoQueue[q] # <<>> /\ op'[t].f = Head(FifoQueue[q])
  BY <1>1, <1>2, <1>4
<1>7. FifoQueue'[q] = Tail(FifoQueue[q])
  <2> DEFINE s == [k \in 1..(m - 2) |-> value[L2[q][k + 1]]]
             a == Tail(FifoQueue[q])
  <2>1. FifoQueue'[q] = s
    <3>1. Len(L2[q]) - 1 = m - 2
      BY <1>2, <1>3
    <3> QED BY <1>5, <3>1
  <2>2. a \in Seq(Fibers) /\ Len(a) = m - 2 /\ \A k \in 1..(m - 2) : a[k] = FifoQueue[q][k + 1]
    BY <1>2, <1>4, TailFacts
  <2> HIDE DEF a
  <2>3. ASSUME NEW k \in 1..(m - 2) PROVE s[k] = a[k]
    <3>1. k + 1 \in 1..(m - 1)
      BY <1>2
    <3> QED BY <1>3, <1>4, <2>2, <3>1
  <2>4. s \in Seq(Fibers) /\ Len(s) = m - 2
    <3>1. \A k \in 1..(m - 2) : a[k] \in Fibers
      BY <1>2, <2>2
    <3>2. \A k \in 1..(m - 2) : value[L2[q][k + 1]] \in Fibers
      BY <2>3, <3>1
    <3>3. m - 2 \in Nat
      BY <1>2
    <3> QED BY <3>2, <3>3
  <2>5. s = a
    BY <2>2, <2>3, <2>4, SameSeq
  <2> QED BY <2>1, <2>5 DEF a
<1>8. \A r \in Queues \ {q} : FifoQueue'[r] = FifoQueue[r]
  <2>1. FifoQueue = View(L)
    BY FifoQueueView DEF Sound, FifoIsView
  <2> QED BY <1>3, <1>5, <2>1 DEF View
<1> QED BY <1>5, <1>6, <1>7, <1>8 DEF FifoQueue

LEMMA FifoInit == ASSUME Init PROVE Fifo!Init
<1>1. FifoHeld = held
  <2>1. held \in [Threads -> SUBSET Fibers] /\ \A t \in Threads : op[t].at = "idle"
    BY DEF Init, NoOp
  <2> QED BY <2>1 DEF FifoHeld
<1>2. FifoCall = [t \in Threads |-> <<"idle">>]
  BY DEF FifoCall, Init, NoOp, At
<1>3. FifoQueue = [q \in Queues |-> <<>>]
  <2>1. PICK L, own, place : Sound(L, own, place)
    BY InitSound DEF QueueInv
  <2>2. ASSUME NEW q \in Queues PROVE FifoQueue[q] = <<>>
    <3>1. head[q] = q /\ next[q] = None
      BY DEF Init, Nodes
    <3>2. Len(L[q]) = 1
      BY <2>1, <3>1, LookFacts DEF Sound, IsLast
    <3> QED BY <2>1, <3>2, ViewFacts
  <2> QED BY <2>2 DEF FifoQueue
<1> QED BY <1>1, <1>2, <1>3 DEF Init, Fifo!Init

\* What a step leaves of the threads that do not take it.
LEMMA FifoFrame ==
    ASSUME NEW t \in Threads,
           \A u \in Threads \ {t} : op'[u] = op[u] /\ held'[u] = held[u]
    PROVE  /\ FifoHeld' = [FifoHeld EXCEPT ![t] = FifoHeld'[t]]
           /\ FifoCall' = [FifoCall EXCEPT ![t] = FifoCall'[t]]
           /\ FifoHeld'[t] = FifoHeld[t] => FifoHeld' = FifoHeld
           /\ FifoCall'[t] = FifoCall[t] => FifoCall' = FifoCall
<1>1. \A u \in Threads \ {t} : FifoHeld'[u] = FifoHeld[u] /\ FifoCall'[u] = FifoCall[u]
  BY DEF FifoHeld, FifoCall, At
<1>2. /\ FifoHeld = [u \in Threads |-> FifoHeld[u]] /\ FifoCall = [u \in Threads |-> FifoCall[u]]
      /\ FifoHeld' = [u \in Threads |-> FifoHeld'[u]]
      /\ FifoCall' = [u \in Threads |-> FifoCall'[u]]
  BY DEF FifoHeld, FifoCall
<1> QED BY <1>1, <1>2

FifoNext == [Fifo!Next]_<<FifoHeld, FifoQueue, FifoCall>>

LEMMA AddFifo ==
    ASSUME NEW L, NEW own, NEW place, Sound(L, own, place),
           NEW t \in Threads, NEW q \in Queues, NEW f \in Fibers, Add(t, q, f)
    PROVE  FifoNext
<1>1. /\ \A u \in Threads \ {t} : op'[u] = op[u] /\ held'[u] = held[u]
      /\ op[t].at = "idle" /\ op'[t].at = "addlock" /\ op'[t].f = f
      /\ f \in held[t] /\ held'[t] = held[t] \ {f}
  BY DEF Sound, Add, QueueTypeOK, NoOp, At
<1>2. FifoHeld'[t] = FifoHeld[t] /\ FifoCall'[t] = FifoCall[t]
  BY <1>1 DEF FifoHeld, FifoCall, At
<1>3. FifoHeld' = FifoHeld /\ FifoCall' = FifoCall
  BY <1>1, <1>2, FifoFrame
<1>4. FifoQueue' = FifoQueue
  <2>1. Lists(L) /\ Lists(L)'
    <3>1. own[packing[f]] = f /\ packing[f] \in Nodes
      BY <1>1 DEF Sound, Owned, QueueTypeOK
    <3>2. \A r \in Queues : \A i \in 1..Len(L[r]) : L[r][i] # packing[f]
      BY <3>1, Distinct DEF Sound, Owned
    <3> QED BY <1>1, <3>2, ListsFrame, ElementFacts DEF Sound, Add, QueueTypeOK, At
  <2>2. \A r \in Queues : \A i \in 1..Len(L[r]) : value'[L[r][i]] = value[L[r][i]]
    <3>1. own[packing[f]] = f /\ packing[f] \in Nodes
      BY <1>1 DEF Sound, Owned, QueueTypeOK
    <3>2. \A r \in Queues : \A i \in 1..Len(L[r]) : L[r][i] # packing[f] /\ L[r][i] \in Nodes
      BY <3>1, ElementFacts, Distinct DEF Sound, Owned
    <3> QED BY <3>2 DEF Sound, Add, QueueTypeOK
  <2> QED BY <2>1, <2>2, SameView
<1> QED BY <1>3, <1>4 DEF FifoNext

LEMMA AddLinkFifo ==
    ASSUME NEW L, NEW own, NEW place, Sound(L, own, place),
           NEW t \in Threads, AddLink(t)
    PROVE  FifoNext
<1>1. PICK q \in Queues, f \in Fibers : q = op[t].q /\ f = op[t].f /\ f \notin held[t]
  BY DEF Sound, Calls, Placed, Moves, AddLink, At
<1>2. /\ \A u \in Threads \ {t} : op'[u] = op[u] /\ held'[u] = held[u]
      /\ op[t].at = "link" /\ op'[t].at = "settail" /\ held'[t] = held[t]
  BY DEF Sound, AddLink, QueueTypeOK, Goes, At
<1>3. /\ f \in FifoHeld[t] /\ FifoHeld'[t] = FifoHeld[t] \ {f}
      /\ FifoCall'[t] = FifoCall[t]
  BY <1>1, <1>2 DEF FifoHeld, FifoCall, At
<1>4. FifoQueue' = [FifoQueue EXCEPT ![q] = Append(@, f)]
  BY <1>1, AddLinkView
<1>5. FifoHeld' = [FifoHeld EXCEPT ![t] = @ \ {f}] /\ FifoCall' = FifoCall
  BY <1>2, <1>3, FifoFrame
<1>6. Fifo!Put(t, q, f)
  BY <1>3, <1>4, <1>5 DEF Fifo!Put
<1> QED BY <1>6 DEF FifoNext, Fifo!Next

LEMMA PollFifo ==
    ASSUME NEW L, NEW own, NEW place, Sound(L, own, place),
           NEW t \in Threads, NEW q \in Queues, Poll(t, q)
    PROVE  FifoNext
<1>1. /\ \A u \in Threads \ {t} : op'[u] = op[u] /\ held'[u] = held[u]
      /\ op[t].at = "idle" /\ op'[t].at = "polllock" /\ op'[t].q = q /\ held'[t] = held[t]
  BY DEF Sound, Poll, QueueTypeOK, NoOp, At
<1>2. FifoHeld'[t] = FifoHeld[t] /\ FifoCall[t] = <<"idle">> /\ FifoCall'[t] = <<"poll", q>>
  BY <1>1 DEF FifoHeld, FifoCall, At
<1>3. FifoHeld' = FifoHeld /\ FifoCall' = [FifoCall EXCEPT ![t] = <<"poll", q>>]
  BY <1>1, <1>2, FifoFrame
<1>4. FifoQueue' = FifoQueue
  BY PollKeeps, SameView DEF Sound, Poll, listVars
<1>5. Fifo!Begin(t, q)
  BY <1>2, <1>3, <1>4 DEF Fifo!Begin
<1> QED BY <1>5 DEF FifoNext, Fifo!Next

LEMMA PollMissFifo ==
    ASSUME NEW L, NEW own, NEW place, Sound(L, own, place),
           NEW t \in Threads, PollMiss(t)
    PROVE  FifoNext
<1>1. PICK q \in Queues : q = op[t].q
  BY DEF Sound, Calls, PollMiss, At
<1>2. /\ \A u \in Threads \ {t} : op'[u] = op[u] /\ held'[u] = held[u]
      /\ op[t].at = "look" /\ op'[t].at = "idle" /\ held'[t] = held[t]
  BY DEF Sound, PollMiss, QueueTypeOK, NoOp, Ends, At
<1>3. FifoHeld'[t] = FifoHeld[t] /\ FifoCall[t] = <<"poll", q>> /\ FifoCall'[t] = <<"idle">>
  BY <1>1, <1>2 DEF FifoHeld, FifoCall, At
<1>4. FifoHeld' = FifoHeld /\ FifoCall' = [FifoCall EXCEPT ![t] = <<"idle">>]
  BY <1>2, <1>3, FifoFrame
<1>5. Len(L[q]) = 1 /\ Sound(L, own, place)'
  BY <1>1, PollMissKeeps
<1>6. FifoQueue[q] = <<>>
  BY <1>5, ViewFacts
<1>7. FifoQueue' = FifoQueue
  BY <1>5, SameView DEF Sound, PollMiss, listVars
<1>8. Fifo!Miss(t, q)
  BY <1>3, <1>4, <1>6, <1>7 DEF Fifo!Miss
<1> QED BY <1>8 DEF FifoNext, Fifo!Next

LEMMA PollTakeFifo ==
    ASSUME NEW L, NEW own, NEW place, Sound(L, own, place),
           NEW t \in Threads, PollTake(t)
    PROVE  FifoNext
<1>1. PICK q \in Queues : q = op[t].q
  BY DEF Sound, Calls, PollTake, At
<1>2. PICK f : f = op'[t].f
  OBVIOUS
<1>3. /\ FifoQueue[q] # <<>> /\ f = Head(FifoQueue[q])
      /\ FifoQueue' = [FifoQueue EXCEPT ![q] = Tail(@)]
  BY <1>1, <1>2, PollTakeView
<1>4. /\ \A u \in Threads \ {t} : op'[u] = op[u] /\ held'[u] = held[u]
      /\ op[t].at = "take" /\ op'[t].at = "pack" /\ held'[t] = held[t]
  BY DEF Sound, PollTake, QueueTypeOK, At
<1>5. /\ FifoHeld'[t] = FifoHeld[t] \union {f}
      /\ FifoCall[t] = <<"poll", q>> /\ FifoCall'[t] = <<"found">>
  BY <1>1, <1>2, <1>4 DEF FifoHeld, FifoCall, At
<1>6. /\ FifoHeld' = [FifoHeld EXCEPT ![t] = @ \union {f}]
      /\ FifoCall' = [FifoCall EXCEPT ![t] = <<"found">>]
  BY <1>4, <1>5, FifoFrame
<1>7. Fifo!Get(t, q)
  BY <1>3, <1>5, <1>6 DEF Fifo!Get
<1> QED BY <1>7 DEF FifoNext, Fifo!Next

LEMMA PollPackFifo ==
    ASSUME NEW L, NEW own, NEW place, Sound(L, own, place),
           NEW t \in Threads, PollPack(t)
    PROVE  FifoNext
<1>1. PICK n \in Nodes, f \in Fibers : n = op[t].node /\ f = op[t].f /\ own[n] = t
  BY DEF Sound, Owned, Placed, Moves, PollPack, At
<1>2. /\ \A u \in Threads \ {t} : op'[u] = op[u] /\ held'[u] = held[u]
      /\ op[t].at = "pack" /\ op'[t].at = "idle" /\ held'[t] = held[t] \union {f}
      /\ \A m \in Nodes \ {n} : value'[m] = value[m]
  BY <1>1 DEF Sound, PollPack, Packed, QueueTypeOK, NoOp, Ends, At
<1>3. FifoHeld'[t] = FifoHeld[t] /\ FifoCall[t] = <<"found">> /\ FifoCall'[t] = <<"idle">>
  BY <1>1, <1>2 DEF FifoHeld, FifoCall, At
<1>4. FifoHeld' = FifoHeld /\ FifoCall' = [FifoCall EXCEPT ![t] = <<"idle">>]
  BY <1>2, <1>3, FifoFrame
<1>5. FifoQueue' = FifoQueue
  <2>1. Lists(L) /\ Lists(L)'
    BY PollPackKeeps DEF Sound
  <2>2. \A r \in Queues : \A i \in 1..Len(L[r]) : L[r][i] \in Nodes /\ L[r][i] # n
    BY <1>1, ElementFacts, Distinct DEF Sound, Owned
  <2> QED BY <1>2, <2>1, <2>2, SameView
<1>6. Fifo!End(t)
  BY <1>3, <1>4, <1>5 DEF Fifo!End
<1> QED BY <1>6 DEF FifoNext, Fifo!Next

LEMMA DeleteFifo ==
    ASSUME NEW L, NEW own, NEW place, Sound(L, own, place),
           NEW t \in Threads, NEW f \in Fibers, Delete(t, f)
    PROVE  FifoNext
<1>1. /\ op' = op /\ \A u \in Threads \ {t} : held'[u] = held[u]
      /\ op[t].at = "idle" /\ f \in held[t] /\ held'[t] = held[t] \ {f}
  BY DEF Sound, Delete, QueueTypeOK, At
<1>2. f \in FifoHeld[t] /\ FifoHeld'[t] = FifoHeld[t] \ {f} /\ FifoCall'[t] = FifoCall[t]
  BY <1>1 DEF FifoHeld, FifoCall, At
<1>3. FifoHeld' = [FifoHeld EXCEPT ![t] = @ \ {f}] /\ FifoCall' = FifoCall
  BY <1>1, <1>2, FifoFrame
<1>4. FifoQueue' = FifoQueue
  BY DeleteKeeps, SameView DEF Sound, Delete, listVars
<1>5. Fifo!Drop(t, f)
  BY <1>2, <1>3, <1>4 DEF Fifo!Drop
<1> QED BY <1>5 DEF FifoNext, Fifo!Next

(* The steps that take or leave a lock, look, or move the tail.            *)
LEMMA QuietFifo ==
    ASSUME NEW L, NEW own, NEW place, Sound(L, own, place), NEW t \in Threads,
           AddLock(t) \/ AddTail(t) \/ PollLock(t) \/ PollLook(t)
    PROVE  FifoNext
<1>1. Lists(L) /\ Lists(L)'
  BY AddLockKeeps, AddTailKeeps, PollLockKeeps, PollLookKeeps DEF Sound
<1>2. /\ \A u \in Threads \ {t} : op'[u] = op[u] /\ held'[u] = held[u]
      /\ held'[t] = held[t] /\ value' = value
      /\ \/ op[t].at = "addlock" /\ op'[t].at = "link" /\ op'[t].f = op[t].f
         \/ op[t].at = "settail" /\ op'[t].at = "idle"
         \/ /\ op[t].at \in {"polllock", "look"} /\ op'[t].at \in {"look", "take"}
            /\ op'[t].q = op[t].q
  BY DEF Sound, AddLock, AddTail, PollLock, PollLook, QueueTypeOK, OpTypes, NoOp, Goes, Ends, At, listVars
<1>3. FifoHeld'[t] = FifoHeld[t] /\ FifoCall'[t] = FifoCall[t]
  BY <1>2 DEF FifoHeld, FifoCall, At
<1>4. FifoHeld' = FifoHeld /\ FifoCall' = FifoCall
  BY <1>2, <1>3, FifoFrame
<1>5. FifoQueue' = FifoQueue
  BY <1>1, <1>2, SameView
<1> QED BY <1>4, <1>5 DEF FifoNext

LEMMA FifoStep == QueueInv /\ [Next]_vars => FifoNext
<1> SUFFICES ASSUME QueueInv, [Next]_vars PROVE FifoNext
  OBVIOUS
<1>1. PICK L, own, place : Sound(L, own, place)
  BY DEF QueueInv
<1>2. ASSUME NEW t \in Threads,
             AddLock(t) \/ AddLink(t) \/ AddTail(t) \/ PollLock(t) \/ PollMiss(t)
             \/ PollLook(t) \/ PollTake(t) \/ PollPack(t)
      PROVE  FifoNext
  BY <1>1, <1>2, QuietFifo, AddLinkFifo, PollMissFifo, PollTakeFifo, PollPackFifo
<1>3. ASSUME NEW t \in Threads, NEW q \in Queues, Poll(t, q) PROVE FifoNext
  BY <1>1, <1>3, PollFifo
<1>4. ASSUME NEW t \in Threads, NEW q \in Queues, NEW f \in Fibers, Add(t, q, f) PROVE FifoNext
  BY <1>1, <1>4, AddFifo
<1>5. ASSUME NEW t \in Threads, NEW f \in Fibers, Delete(t, f) PROVE FifoNext
  BY <1>1, <1>5, DeleteFifo
<1>6. CASE UNCHANGED vars
  <2>1. Lists(L) /\ Lists(L)'
    BY <1>1, <1>6, UnchangedSound DEF Sound
  <2>2. FifoQueue' = FifoQueue
    BY <1>6, <2>1, SameView DEF vars, listVars
  <2>3. FifoHeld' = FifoHeld /\ FifoCall' = FifoCall
    BY <1>6 DEF FifoHeld, FifoCall, At, vars
  <2> QED BY <2>2, <2>3 DEF FifoNext
<1> QED BY <1>2, <1>3, <1>4, <1>5, <1>6 DEF Next

(* EFiberConcurrentQueue is a FIFO queue: add() takes effect when it links *)
(* the node and poll() when it moves the head or finds the list empty, and *)
(* no fiber is lost, doubled or overlooked.                                *)
THEOREM ImplementsFifoHolds == Spec => ImplementsFifo
<1>1. QueueInv /\ [Next]_vars => [Fifo!Next]_(Fifo!vars)
  BY FifoStep DEF FifoNext, Fifo!vars
<1> QED BY <1>1, FifoInit, QueueInvariant, PTL DEF Spec, ImplementsFifo, Fifo!Spec

=============================================================================
