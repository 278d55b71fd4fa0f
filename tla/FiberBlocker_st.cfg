SPECIFICATION Spec
CONSTANTS
    f1 = f1
    f2 = f2
    f3 = f3
    t1 = t1
    t2 = t2
    b1 = b1
    b2 = b2
    None = None
    Fibers = {f1, f2, f3}
    Threads = {t1}
    Outsiders = {}
    Blockers = {b1, b2}
    Home <- HomeOne
    Capacity <- CapacityMixed
    Limit <- LimitOne
    Ops <- AllOps
INVARIANTS
    InOnePlace
PROPERTIES
    ImplementsSemaphore
CHECK_DEADLOCK FALSE
