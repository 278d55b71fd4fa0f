SPECIFICATION Spec
CONSTANTS
    d1 = d1
    d2 = d2
    Fibers = {f1, f2}
    Fds = {d1}
    Reports <- ReportsIn
    Backends = {"epoll"}
    Ops <- OpsReadSleep
    Polls = {}
    None = None
INVARIANTS
    TimeoutIsReal
CHECK_DEADLOCK FALSE
