----------------------------- MODULE HookedIoMC -----------------------------
(* Small instances of HookedIo for TLC. *)
EXTENDS HookedIo, TLC

CONSTANTS d1, d2

\* The two ends of a pipe.
ReportsPipe == (d1 :> {"in", "hup"}) @@ (d2 :> {"out"})
ReportsIn == [fd \in Fds |-> {"in"}]

PollsBoth == {<<{d1, d2}, {"in", "out"}>>, <<{d1}, {"in"}>>}

OpsReadSleep == {"read", "sleep"}

=============================================================================
