-------------------------- MODULE FiberSchedulerMC --------------------------
(* Small instances of FiberScheduler for TLC. *)
EXTENDS FiberScheduler, TLC

OpsSpawnSleepBlock == {"spawn", "sleep", "block"}
OpsSleepBlock == {"sleep", "block"}

\* The fibers are interchangeable, and so are the workers; for runs that
\* check no liveness.
Symmetry == Permutations(Fibers) \union Permutations(Workers)

=============================================================================
