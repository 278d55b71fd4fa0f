SPECIFICATION Spec
CONSTANTS
    Threads = {t1, t2}
    Fds = {d1, d2, d3}
    Files = {o1, o2, o3}
    Times = {never, soon}
    Millis <- WholeMillis
    soon = soon
    forever = forever
    shortly = shortly
    Default = never
    Inherits = TRUE
    None = None
INVARIANTS
    FilesTypeOK
    NeverBlocks
    ModeFaithful
    TimeoutCurrent
SYMMETRY Interchangeable
CHECK_DEADLOCK FALSE
