CONSTANTS
    c1 = c1
    c2 = c2
    c3 = c3
    k1 = k1
    k2 = k2
    wide = wide
    tall = tall
    Clients <- TwoClients
    Sizers <- TwoSizers
    Sizes <- TwoSizes
    Kickers <- OneKicker
    First = First
    NoSize = NoSize
    Jiggled = Jiggled
    NoMaster = NoMaster
    Masters <- OneMaster
    MaxRequests = 1
    MaxTakes = 0
    MaxCasts = 0
    MaxFaults = 0
    MaxRestarts = 0
    MaxKicks = 1
SPECIFICATION Spec
INVARIANT KickIsTransient
SYMMETRY SizeSymmetry
CHECK_DEADLOCK FALSE
