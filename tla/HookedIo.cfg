SPECIFICATION FairSpec
CONSTANTS
    d1 = d1
    d2 = d2
    Fibers = {f1, f2}
    Fds = {d1, d2}
    Reports <- ReportsPipe
    Backends = {"epoll", "kqueue"}
    Ops <- AllOps
    Polls <- PollsBoth
    None = None
INVARIANTS
    HookedTypeOK
    RegisteredIffAsked
    SleepIsWhole
    WaitersExact
PROPERTIES
    ReadyEndsWait
CHECK_DEADLOCK FALSE
