----------------------------- MODULE FiberSyncMC -----------------------------
(* A small instance of FiberSync for TLC. *)
EXTENDS FiberSync, TLC

Symmetry ==
    Permutations(Callers) \union Permutations(Mutexes) \union Permutations(Awaits)

AllBlockers == Mutexes \union Awaits \union {writer, reader}

Capacities ==
    [b \in AllBlockers |->
        CASE b \in Mutexes -> 1 [] b = writer -> ChannelCapacity [] OTHER -> 0]

\* The limits of channels and conditions are `unlimited' in the code: permits
\* of a channel never come near this one, and permits beyond the first of a
\* blocker that one await() uses make no difference.
Limits ==
    [b \in AllBlockers |->
        IF b \in {writer, reader} THEN ChannelCapacity + 2 * Cardinality(Callers) ELSE 1]

=============================================================================
