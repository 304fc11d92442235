CONSTANTS
    c1 = c1
    c2 = c2
    t1 = t1
    t2 = t2
    None = None
    Conns <- OneConn
    Tokens <- TwoTokens
    MaxFaults = 1
    MaxKills = 1
    MaxSends = 1
SPECIFICATION FairSpec
INVARIANTS
    LoginSound
    RevokedStaysOut
PROPERTIES
    LoginEnds
    ExpiredCutOff
CHECK_DEADLOCK FALSE
