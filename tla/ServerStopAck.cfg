CONSTANTS
    u1 = u1
    u2 = u2
    t1 = t1
    t2 = t2
    None = None
    Local <- OneLocal
    Remote <- NoRemote
    MaxPendingTCP = 1
    MaxDials = 2
SPECIFICATION Spec
INVARIANT AckIsSaved
CHECK_DEADLOCK FALSE
