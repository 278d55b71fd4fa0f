SPECIFICATION SyncSpec
CONSTANTS
    Callers = {c1, c2, c3}
    Steady = {c1, c2, c3}
    Mutexes = {m1, m2}
    Awaits = {a1, a2}
    writer = writer
    reader = reader
    ChannelCapacity = 1
    Blockers <- AllBlockers
    Capacity <- Capacities
    Limit <- Limits
    None = None
INVARIANTS
    SyncTypeOK
    MutualExclusion
    LockedIffOwned
    Balanced
    NoStandoff
    SignalsReachAwaits
    NoForgottenAwait
SYMMETRY Symmetry
CHECK_DEADLOCK FALSE
