SPECIFICATION FairSpecNoTimeout
CONSTANTS
    Fibers = {f1}
    Threads = {main, w1}
    Main = main
    Ops <- OpsSleepBlock
    CanInterrupt = TRUE
    None = None
INVARIANTS
    CleanReturnMeansDone
PROPERTIES
    JoinReturns
    InterruptEndsLoops
CHECK_DEADLOCK FALSE
