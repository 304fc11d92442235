CONSTANTS
    c1 = c1
    c2 = c2
    t1 = t1
    t2 = t2
    None = None
    Conns <- OneConn
    Tokens <- OneToken
    MaxFaults = 0
    MaxKills = 0
    MaxSends = 1
SPECIFICATION Spec
INVARIANT NothingAfterRevoke
CHECK_DEADLOCK FALSE
