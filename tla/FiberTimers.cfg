SPECIFICATION FairSpec
CONSTANTS
    Fibers = {f}
    Timers = {t}
    Delays = {1}
    Periods = {0, 1}
    Durations = {0, 1}
    Locals = {l}
    Second = 2
    IdleTimeout = 3
    Horizon = 4
    None = None
INVARIANTS
    TypeOK
    OnTime
    WaitsHaveEvents
    CancelStops
    RefsExact
    LocalsFreed
PROPERTIES
    TimedWaitEnds
CHECK_DEADLOCK FALSE
