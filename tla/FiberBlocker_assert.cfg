SPECIFICATION Spec
CONSTANTS
    f1 = f1
    f2 = f2
    f3 = f3
    t1 = t1
    t2 = t2
    b1 = b1
    b2 = b2
    None = None
    Fibers = {f1, f2}
    Threads = {t1, t2}
    Outsiders = {}
    Blockers = {b1}
    Home <- HomeApart
    Capacity <- CapacityZero
    Limit <- LimitOne
    Ops <- OpsTimed
INVARIANTS
    AssertBlocker
CHECK_DEADLOCK FALSE
