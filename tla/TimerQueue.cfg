SPECIFICATION FairSpec
CONSTANTS
    Addresses = {a1, a2}
    Reuse = TRUE
    Delays = {0, 1}
    Intervals = {1}
    MaxTimers = 2
    MaxClock = 2
    MaxStepsBack = 1
    MaxPending = 2
INVARIANTS TimersConsistent TimerfdCoversEarliest CancelledStaysOut
PROPERTY DueTimersRun
CHECK_DEADLOCK FALSE
