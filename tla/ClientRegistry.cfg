CONSTANTS
    l1 = l1
    l2 = l2
    t1 = t1
    v1 = v1
    i1 = i1
    i2 = i2
    local = local
    full = full
    watch = watch
    Conns <- LiveConns
    Ids <- LiveIds
    Principals <- MCPrincipals
    Local = local
    Principal <- MCPrincipal
    Viewers <- MCViewers
    Anon <- MCAnon
    NoId = NoId
    Unknown = Unknown
    MaxAttach = 3
SPECIFICATION FairSpec
INVARIANTS
    TypeOK
    SlotSound
    ClientsKnowMaster
PROPERTIES
    SlotMovesInTurn
    ReserveEnds
