CONSTANTS
    c1 = c1
    c2 = c2
    p1 = p1
    p2 = p2
    p3 = p3
    Clients <- OneClient
    First <- TwoPanes
    Later <- NewPane
    Closable <- NoPane
    MaxActs = 3
SPECIFICATION LayoutSpec
INVARIANT DeferredEditKept
CHECK_DEADLOCK FALSE
