SPECIFICATION Spec
CONSTANTS
    Fibers = {f, g}
    Timers = {}
    Delays = {1}
    Periods = {0, 1}
    Durations = {0, 1, 3}
    Locals = {l}
    Second = 2
    IdleTimeout = 3
    Horizon = 5
    None = None
INVARIANT
    DelaysNoEvent
CHECK_DEADLOCK FALSE
