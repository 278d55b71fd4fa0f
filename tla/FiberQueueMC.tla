---------------------------- MODULE FiberQueueMC ----------------------------
(* Small instances of FiberQueue for TLC.  Threads, queues and fibers are  *)
(* interchangeable, and every property is a safety property.               *)
EXTENDS FiberQueue, TLC

Interchangeable == Permutations(Threads) \union Permutations(Queues) \union Permutations(Fibers)

=============================================================================
