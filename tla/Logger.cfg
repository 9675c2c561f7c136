SPECIFICATION Spec
CONSTANTS
    Threads = {t1, t2}
    FileRollSize = 3
    FlushEveryNLine = 2
    FlushInterval = 1
    BufferSize = 2
    Minute = 2
    Period = 4
    MaxLines = 4
    MaxClock = 4
    MaxSetBacks = 1
    MaxErrors = 1
INVARIANTS LinesKept FatalOnDisk
PROPERTY RollsAndFlushes
CHECK_DEADLOCK FALSE
