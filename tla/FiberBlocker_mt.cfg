SPECIFICATION FairSpec
CONSTANTS
    f1 = f1
    f2 = f2
    f3 = f3
    t1 = t1
    t2 = t2
    b1 = b1
    b2 = b2
    None = None
    Fibers = {f1, f2}
    Threads = {t1, t2}
    Outsiders = {o1}
    Blockers = {b1}
    Home <- HomeApart
    Capacity <- CapacityZero
    Limit <- LimitTwo
    Ops <- OpsUntimed
INVARIANTS
    TypeOK
    NoIdlePermit
    NoMissedSignal
PROPERTIES
    ImplementsFairSemaphore
CHECK_DEADLOCK FALSE
