SPECIFICATION FairSpecThread
CONSTANTS
    Threads = {main, other}
    Owner = main
    Functions = {f1, f2}
    MaxQuits = 2
    UserQuits = TRUE
    Patient = TRUE
INVARIANTS LoopOutlivesUse
PROPERTY JoinReturns
CHECK_DEADLOCK FALSE
