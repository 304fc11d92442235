CONSTANTS
    s1 = s1
    s2 = s2
    b1 = b1
    f1 = f1
    Senders <- OneSender
    Bulk <- OneBulk
    Flushers <- OneFlusher
    Cap = 2
    Headroom = 1
    MaxSends = 2
SPECIFICATION FairSpec
INVARIANTS
    QueueSound
    OrderKept
    BulkLeavesRoom
PROPERTIES
    SendersReleased
CHECK_DEADLOCK FALSE
