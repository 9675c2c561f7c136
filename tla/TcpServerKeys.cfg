SPECIFICATION Spec
CONSTANTS
    Hosts = {h1, h2}
    Ports = {p1}
    MaxThreads = 2
    MaxConns = 2
    NumFds = 3
    RacyOpen = FALSE
INVARIANT KeysUnique
CHECK_DEADLOCK FALSE
