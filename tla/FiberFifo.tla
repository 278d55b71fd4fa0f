----------------------------- MODULE FiberFifo -----------------------------
(***************************************************************************)
(* What EFiberConcurrentQueue promises its callers: a FIFO queue whose add *)
(* and poll take effect at one instant each.  A fiber is handed over, so   *)
(* it is in one caller's hands or in one queue, and a poll comes back with *)
(* nothing only if the queue was empty during the call.                    *)
(***************************************************************************)
EXTENDS Sequences

CONSTANTS
    Threads,    \* the callers
    Queues,     \* the queues
    Fibers      \* what is queued

VARIABLES
    held,       \* held[t]: the fibers in t's hands
    queue,      \* queue[q]: the fibers in q, oldest first
    call        \* call[t]: how far t's poll is, and of which queue

vars == <<held, queue, call>>

Init ==
    /\ held \in {h \in [Threads -> SUBSET Fibers] :
                     \A f \in Fibers : \E t \in Threads : \A u \in Threads : f \in h[u] <=> u = t}
    /\ queue = [q \in Queues |-> <<>>]
    /\ call = [t \in Threads |-> <<"idle">>]

Put(t, q, f) ==
    /\ f \in held[t]
    /\ held' = [held EXCEPT ![t] = @ \ {f}]
    /\ queue' = [queue EXCEPT ![q] = Append(@, f)]
    /\ UNCHANGED call

Begin(t, q) ==
    /\ call[t] = <<"idle">>
    /\ call' = [call EXCEPT ![t] = <<"poll", q>>]
    /\ UNCHANGED <<held, queue>>

Get(t, q) ==
    /\ call[t] = <<"poll", q>>
    /\ queue[q] # <<>>
    /\ held' = [held EXCEPT ![t] = @ \union {Head(queue[q])}]
    /\ queue' = [queue EXCEPT ![q] = Tail(@)]
    /\ call' = [call EXCEPT ![t] = <<"found">>]

Miss(t, q) ==
    /\ call[t] = <<"poll", q>>
    /\ queue[q] = <<>>
    /\ call' = [call EXCEPT ![t] = <<"idle">>]
    /\ UNCHANGED <<held, queue>>

End(t) ==
    /\ call[t] = <<"found">>
    /\ call' = [call EXCEPT ![t] = <<"idle">>]
    /\ UNCHANGED <<held, queue>>

\* A fiber that terminated is deleted.
Drop(t, f) ==
    /\ f \in held[t]
    /\ held' = [held EXCEPT ![t] = @ \ {f}]
    /\ UNCHANGED <<queue, call>>

Next ==
    \E t \in Threads :
        \/ End(t)
        \/ \E q \in Queues : Begin(t, q) \/ Get(t, q) \/ Miss(t, q) \/ \E f \in Fibers : Put(t, q, f)
        \/ \E f \in Fibers : Drop(t, f)

Spec == Init /\ [][Next]_vars

=============================================================================
