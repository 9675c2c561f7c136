SPECIFICATION FairSpec
CONSTANTS
    Threads = {t1}
    LoopUser = loop
    MaxSends = 2
    MaxDowns = 2
    RacyClose = TRUE
    OwnerDies = TRUE
INVARIANTS DownAtMostOnce WriteInterestExact ChannelRemovedBeforeFree SentInOrder
PROPERTIES FinAfterDrain ShutdownCompletes PeerCloseCleansUp
CHECK_DEADLOCK FALSE
