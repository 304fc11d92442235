CONSTANTS
    c1 = c1
    c2 = c2
    c3 = c3
    k1 = k1
    k2 = k2
    wide = wide
    tall = tall
    Clients <- ThreeClients
    Sizers <- TwoSizers
    Sizes <- TwoSizes
    Kickers <- NoKickers
    First = First
    NoSize = NoSize
    Jiggled = Jiggled
    NoMaster = NoMaster
    Masters <- OneMaster
    MaxRequests = 2
    MaxTakes = 1
    MaxCasts = 0
    MaxFaults = 1
    MaxRestarts = 0
    MaxKicks = 0
SPECIFICATION Spec
INVARIANT RecordIsReal
SYMMETRY SizeSymmetry
CHECK_DEADLOCK FALSE
