SPECIFICATION Spec
CONSTANTS
    Addresses = {a1, a2}
    Reuse = TRUE
    Delays = {1}
    Intervals = {1}
    MaxTimers = 2
    MaxClock = 2
    MaxStepsBack = 0
    MaxPending = 1
INVARIANT StoppedOnlyByOwnId
CHECK_DEADLOCK FALSE
