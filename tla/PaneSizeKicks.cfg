CONSTANTS
    c1 = c1
    c2 = c2
    c3 = c3
    k1 = k1
    k2 = k2
    wide = wide
    tall = tall
    Clients <- TwoClients
    Sizers <- TwoSizers
    Sizes <- TwoSizes
    Kickers <- TwoKickers
    First = First
    NoSize = NoSize
    Jiggled = Jiggled
    NoMaster = NoMaster
    Masters <- AnyMaster
    MaxRequests = 2
    MaxTakes = 0
    MaxCasts = 0
    MaxFaults = 1
    MaxRestarts = 1
    MaxKicks = 3
SPECIFICATION Spec
INVARIANT LoneRecordIsReal
SYMMETRY KickSymmetry
CHECK_DEADLOCK FALSE
