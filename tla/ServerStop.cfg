CONSTANTS
    u1 = u1
    u2 = u2
    t1 = t1
    t2 = t2
    None = None
    Local <- OneLocal
    Remote <- TwoRemote
    MaxPendingTCP = 1
    MaxDials = 2
SPECIFICATION FairSpec
INVARIANTS
    ServerSound
    ListedAckIsSaved
    CountedHaveReturned
PROPERTIES
    StopEnds
CHECK_DEADLOCK FALSE
