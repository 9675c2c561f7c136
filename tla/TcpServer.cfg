SPECIFICATION FairSpec
CONSTANTS
    Hosts = {h1}
    Ports = {p1, p2}
    MaxThreads = 2
    MaxConns = 3
    NumFds = 3
    RacyOpen = FALSE
INVARIANTS NoAssertFails OwnedWhileUp DestroyedOnce
PROPERTIES ActiveAlive ClosedIsFreed BacklogServed
CHECK_DEADLOCK FALSE
