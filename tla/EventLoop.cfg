SPECIFICATION FairSpec
CONSTANTS
    Threads = {t1, t2}
    Functions = {f1, f2, f3}
    MaxQuits = 2
INVARIANTS TypeOK QueueOrder NoLostWakeup QuitNotMissed
PROPERTIES ImplementsExecutor QueuedRunsOrLoopEnds
CHECK_DEADLOCK FALSE
