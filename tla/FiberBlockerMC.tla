--------------------------- MODULE FiberBlockerMC ---------------------------
(* Small instances of FiberBlocker for TLC. *)
EXTENDS FiberBlocker, TLC

CONSTANTS f1, f2, f3, t1, t2, b1, b2

\* One fiber per thread.
HomeApart == (f1 :> t1) @@ (f2 :> t2)

\* A single scheduler thread.
HomeOne == [f \in Fibers |-> t1]

\* A counting blocker that starts empty.
CapacityZero == [b \in Blockers |-> 0]
LimitTwo == [b \in Blockers |-> 2]

\* EFiberMutex's blocker(1, 1) beside an empty one.
LimitOne == [b \in Blockers |-> 1]
CapacityMixed == (b1 :> 1) @@ (b2 :> 0)

OpsUntimed == {"wait", "wakeUp", "finish"}
OpsTimed == {"wait", "timedWait", "wakeUp", "finish"}

=============================================================================
