CONSTANTS
    s1 = s1
    s2 = s2
    b1 = b1
    f1 = f1
    Senders <- TwoSenders
    Bulk <- OneBulk
    Flushers <- OneFlusher
    Cap = 2
    Headroom = 1
    MaxSends = 1
SPECIFICATION Spec
INVARIANT FlushTruthfulOpen
CHECK_DEADLOCK FALSE
