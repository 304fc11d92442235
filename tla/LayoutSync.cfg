CONSTANTS
    c1 = c1
    c2 = c2
    p1 = p1
    p2 = p2
    p3 = p3
    Clients <- TwoClients
    First <- TwoPanes
    Later <- NewPane
    Closable <- CloseAny
    MaxActs = 3
SPECIFICATION LayoutFairSpec
INVARIANTS
    TreesSound
    EditLostOnlyToOthers
    NoEchoStorm
PROPERTIES
    StateForward
    Converges
CHECK_DEADLOCK FALSE
