----------------------------- MODULE FiberQueue -----------------------------
(***************************************************************************)
(* EFiberConcurrentQueue, the run queue of a scheduler thread: a linked    *)
(* list with a dummy node, a spin lock for the head and one for the tail.  *)
(* It allocates nothing.  A fiber brings the node it is queued with, its   *)
(* packing; poll() leaves that node in the list as the new dummy and gives *)
(* the fiber the old one.  So nodes travel between fibers and queues, and  *)
(* a fiber taken from one queue may be added to another, or deleted with   *)
(* the node it has, while an add() to the first has not yet moved its tail.*)
(*                                                                         *)
(* Each read or write of the list is a step; one fiber is added by one     *)
(* thread at a time.  Memory is sequentially consistent: next is volatile, *)
(* and on the processors the library supports a store is not seen before   *)
(* an earlier one.                                                         *)
(***************************************************************************)
EXTENDS Naturals, FiniteSets, Sequences

CONSTANTS
    Threads,    \* the scheduler threads and whoever wakes fibers
    Queues,     \* one queue for each scheduler thread
    Fibers,     \* the fibers
    None        \* null

ASSUME FiberQueueAssumption ==
    /\ IsFiniteSet(Queues) /\ IsFiniteSet(Fibers)
    /\ Queues \intersect Fibers = {} /\ Threads \intersect (Queues \union Fibers) = {}
    /\ None \notin Threads \union Queues \union Fibers

\* The nodes ever allocated, each named for its first owner.
Nodes == Queues \union Fibers
NodeOrNull == Nodes \union {None}

VARIABLES
    head, tail,     \* head[q], tail[q]
    hl, tl,         \* hl[q], tl[q]: the thread that has the spin lock, or None
    next, value,    \* next[n], value[n]: the fields of a node
    packing,        \* packing[f]: the node of f
    freed,          \* nodes that were deleted
    held,           \* held[t]: fibers that t has taken, or not yet queued
    op              \* op[t]: how far t's add() or poll() is, and its locals

listVars == <<head, tail, next, value, packing>>
lockVars == <<hl, tl>>
vars == <<listVars, lockVars, freed, held, op>>

NoOp == [at |-> "idle", q |-> None, f |-> None, node |-> None, new |-> None]

OpTypes ==
    [at : {"idle", "addlock", "link", "settail", "polllock", "look", "take", "pack"},
     q : Queues \union {None}, f : Fibers \union {None}, node : NodeOrNull, new : NodeOrNull]

QueueTypeOK ==
    /\ head \in [Queues -> Nodes] /\ tail \in [Queues -> Nodes]
    /\ hl \in [Queues -> Threads \union {None}] /\ tl \in [Queues -> Threads \union {None}]
    /\ next \in [Nodes -> NodeOrNull] /\ value \in [Nodes -> Fibers \union {None}]
    /\ packing \in [Fibers -> Nodes]
    /\ freed \subseteq Nodes
    /\ held \in [Threads -> SUBSET Fibers]
    /\ op \in [Threads -> OpTypes]
    /\ \A t \in Threads : op[t].at = "take" => op[t].new # None

Init ==
    /\ head = [q \in Queues |-> q] /\ tail = [q \in Queues |-> q]
    /\ hl = [q \in Queues |-> None] /\ tl = [q \in Queues |-> None]
    /\ next = [n \in Nodes |-> None] /\ value = [n \in Nodes |-> None]
    /\ packing = [f \in Fibers |-> f]
    /\ freed = {}
    /\ held \in {h \in [Threads -> SUBSET Fibers] :
                     \A f \in Fibers : \E t \in Threads : \A u \in Threads : f \in h[u] <=> u = t}
    /\ op = [t \in Threads |-> NoOp]

At(t, at) == op[t].at = at
Goes(t, at) == op' = [op EXCEPT ![t].at = at]
Ends(t) == op' = [op EXCEPT ![t] = NoOp]

-----------------------------------------------------------------------------
(* add                                                                     *)

Add(t, q, f) ==
    /\ At(t, "idle")
    /\ f \in held[t]
    /\ held' = [held EXCEPT ![t] = @ \ {f}]
    /\ value' = [value EXCEPT ![packing[f]] = f]
    /\ next' = [next EXCEPT ![packing[f]] = None]
    /\ op' = [op EXCEPT ![t] = [NoOp EXCEPT !.at = "addlock", !.q = q, !.f = f, !.node = packing[f]]]
    /\ UNCHANGED <<head, tail, packing, lockVars, freed>>

Lockable(lock, q) == lock[q] = None

AddLock(t) ==
    /\ At(t, "addlock")
    /\ Lockable(tl, op[t].q)
    /\ tl' = [tl EXCEPT ![op[t].q] = t]
    /\ Goes(t, "link")
    /\ UNCHANGED <<listVars, hl, freed, held>>

AddLink(t) ==
    /\ At(t, "link")
    /\ next' = [next EXCEPT ![tail[op[t].q]] = op[t].node]
    /\ Goes(t, "settail")
    /\ UNCHANGED <<head, tail, value, packing, lockVars, freed, held>>

\* ... and unlock.
AddTail(t) ==
    /\ At(t, "settail")
    /\ tail' = [tail EXCEPT ![op[t].q] = op[t].node]
    /\ tl' = [tl EXCEPT ![op[t].q] = None]
    /\ Ends(t)
    /\ UNCHANGED <<head, next, value, packing, hl, freed, held>>

-----------------------------------------------------------------------------
(* poll                                                                    *)

Poll(t, q) ==
    /\ At(t, "idle")
    /\ op' = [op EXCEPT ![t] = [NoOp EXCEPT !.at = "polllock", !.q = q]]
    /\ UNCHANGED <<listVars, lockVars, freed, held>>

HeadLockableAlways(q) == TRUE
HeadLockable(q) == Lockable(hl, q)

PollLock(t) ==
    /\ At(t, "polllock")
    /\ HeadLockable(op[t].q)
    /\ hl' = [hl EXCEPT ![op[t].q] = t]
    /\ Goes(t, "look")
    /\ UNCHANGED <<listVars, tl, freed, held>>

IsLastNever(n) == FALSE
IsLast(n) == next[n] = None

\* node->next is null: unlock, and return null.
PollMiss(t) ==
    /\ At(t, "look")
    /\ IsLast(head[op[t].q])
    /\ hl' = [hl EXCEPT ![op[t].q] = None]
    /\ Ends(t)
    /\ UNCHANGED <<listVars, tl, freed, held>>

PollLook(t) ==
    /\ At(t, "look")
    /\ ~IsLast(head[op[t].q])
    /\ op' = [op EXCEPT ![t].at = "take", ![t].node = head[op[t].q], ![t].new = next[head[op[t].q]]]
    /\ UNCHANGED <<listVars, lockVars, freed, held>>

\* The value of the new head, the new head, and unlock.
PollTake(t) ==
    /\ At(t, "take")
    /\ head' = [head EXCEPT ![op[t].q] = op[t].new]
    /\ hl' = [hl EXCEPT ![op[t].q] = None]
    /\ op' = [op EXCEPT ![t].at = "pack", ![t].f = value[op[t].new]]
    /\ UNCHANGED <<tail, next, value, packing, tl, freed, held>>

PackedNew(node, new) == new
Packed(node, new) == node

\* The old dummy goes to the fiber.
PollPack(t) ==
    LET node == Packed(op[t].node, op[t].new) IN
    /\ At(t, "pack")
    /\ value' = [value EXCEPT ![node] = op[t].f]
    /\ packing' = [packing EXCEPT ![op[t].f] = node]
    /\ held' = [held EXCEPT ![t] = @ \union {op[t].f}]
    /\ Ends(t)
    /\ UNCHANGED <<head, tail, next, lockVars, freed>>

\* The dispatch loop deletes a fiber that terminated, and ~EFiber its node.
Delete(t, f) ==
    /\ At(t, "idle")
    /\ f \in held[t]
    /\ held' = [held EXCEPT ![t] = @ \ {f}]
    /\ freed' = freed \union {packing[f]}
    /\ UNCHANGED <<listVars, lockVars, op>>

Next ==
    \E t \in Threads :
        \/ AddLock(t) \/ AddLink(t) \/ AddTail(t)
        \/ PollLock(t) \/ PollMiss(t) \/ PollLook(t) \/ PollTake(t) \/ PollPack(t)
        \/ \E q \in Queues : Poll(t, q) \/ \E f \in Fibers : Add(t, q, f)
        \/ \E f \in Fibers : Delete(t, f)

Spec == Init /\ [][Next]_vars

-----------------------------------------------------------------------------
(* Properties.                                                             *)

\* The k-th node of q after its dummy, None beyond the last.
Chain(q) ==
    LET walk[k \in 0..Cardinality(Nodes)] ==
            IF k = 0 THEN head[q]
            ELSE IF walk[k - 1] = None THEN None ELSE next[walk[k - 1]]
    IN  walk

Length(q) == Cardinality({k \in 1..Cardinality(Nodes) : Chain(q)[k] # None})
Listed(q) == {Chain(q)[k] : k \in 0..Length(q)}

\* The node of a fiber that is in some thread's hands.
Carried == {packing[f] : f \in UNION {held[t] : t \in Threads}}
InAdd == {op[t].node : t \in {u \in Threads : At(u, "addlock") \/ At(u, "link")}}
InPoll == {op[t].node : t \in {u \in Threads : At(u, "pack")}}

(* No node is ever in two lists, with two fibers, or in a list while a     *)
(* fiber may reuse or free it.                                             *)
NodesApart ==
    /\ \A q, r \in Queues : q # r => Listed(q) \intersect Listed(r) = {}
    /\ \A q \in Queues : Listed(q) \intersect (Carried \union InAdd \union InPoll \union freed) = {}
    /\ Cardinality(Carried) = Cardinality(UNION {held[t] : t \in Threads})
    /\ Carried \intersect (InAdd \union InPoll \union freed) = {}
    /\ (InAdd \union InPoll) \intersect freed = {}

(* What add() and poll() are about to dereference has not been deleted     *)
(* with a fiber.  tail[q] itself may name such a node for a moment, after  *)
(* the link and before the tail is moved.                                  *)
NoFreedNode ==
    \A t \in Threads :
        /\ At(t, "link") => tail[op[t].q] \notin freed
        /\ At(t, "look") => head[op[t].q] \notin freed
        /\ At(t, "take") => op[t].new \notin freed
        /\ At(t, "pack") => op[t].node \notin freed

(* Both: the nodes that travel with the fibers are sound under every       *)
(* interleaving of add(), poll() and the deletion of fibers.               *)
NodesSound == NodesApart /\ NoFreedNode

\* A fiber is in the caller's hands until it is linked, and from the moment
\* the head has moved past it.
FifoHeld == [t \in Threads |->
    held[t] \union (IF op[t].at \in {"addlock", "link", "pack"} THEN {op[t].f} ELSE {})]
FifoQueue == [q \in Queues |-> [k \in 1..Length(q) |-> value[Chain(q)[k]]]]
FifoCall == [t \in Threads |->
    IF op[t].at \in {"polllock", "look", "take"} THEN <<"poll", op[t].q>>
    ELSE IF At(t, "pack") THEN <<"found">> ELSE <<"idle">>]

Fifo == INSTANCE FiberFifo WITH held <- FifoHeld, queue <- FifoQueue, call <- FifoCall

(* Every add and poll takes effect at one instant, in FIFO order, and no   *)
(* fiber is lost, doubled or overlooked, whatever the interleaving.        *)
ImplementsFifo == Fifo!Spec

=============================================================================
