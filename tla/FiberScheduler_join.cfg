SPECIFICATION FairSpec
CONSTANTS
    Fibers = {f1, f2}
    Threads = {main, w1}
    Main = main
    Ops <- OpsSpawnSleepBlock
    CanInterrupt = FALSE
    None = None
INVARIANTS
    TypeOK
    CounterExact
    LeavesOnlyWhenDone
    NoFiberLost
PROPERTIES
    FibersFinish
CHECK_DEADLOCK FALSE
