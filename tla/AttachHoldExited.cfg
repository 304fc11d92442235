CONSTANTS
    p1 = p1
    p2 = p2
    Panes <- TwoPanes
    Blank <- BlankP2
    Mortal <- MortalP1
    MaxPos <- TwoThenOne
    HoldLimit = 1
    OutCap = 1
    Headroom = 1
SPECIFICATION AttachSpec
INVARIANTS
    LostIsRepainted
CHECK_DEADLOCK FALSE
