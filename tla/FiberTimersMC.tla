---------------------------- MODULE FiberTimersMC ----------------------------
(* Small instances of FiberTimers for TLC. *)
EXTENDS FiberTimers

=============================================================================
