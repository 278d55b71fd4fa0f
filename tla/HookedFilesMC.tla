--------------------------- MODULE HookedFilesMC ---------------------------
(* Small instances of HookedFiles for TLC.  Threads, descriptors and files *)
(* are interchangeable, and every property is a safety property.           *)
EXTENDS HookedFiles, TLC

CONSTANTS soon, forever, shortly

\* A new socket has no timeout; `soon' is a millisecond or more.
WholeMillis == [time \in Times |-> IF time = soon THEN shortly ELSE forever]

Interchangeable == Permutations(Threads) \union Permutations(Fds) \union Permutations(Files)

=============================================================================
