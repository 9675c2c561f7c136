SPECIFICATION FairSpecThread
CONSTANTS
    Threads = {main, other}
    Owner = main
    Functions = {f1, f2}
    MaxQuits = 2
    UserQuits = FALSE
    Patient = FALSE
PROPERTY StartReturns
CHECK_DEADLOCK FALSE
