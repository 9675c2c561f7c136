SPECIFICATION FairSpec
CONSTANTS
    MaxMessages = 9
    Capacity = 2
    DropLimit = 3
INVARIANTS BuffersGoRound NothingLost
PROPERTIES DropsOnlyUnderLoad WrittenUnlessStopped StartAndStopReturn
CHECK_DEADLOCK FALSE
