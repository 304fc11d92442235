CONSTANTS
    c1 = c1
    c2 = c2
    c3 = c3
    k1 = k1
    k2 = k2
    wide = wide
    tall = tall
    Clients <- TwoClients
    Sizers <- TwoSizers
    Sizes <- TwoSizes
    Kickers <- OneKicker
    First = First
    NoSize = NoSize
    Jiggled = Jiggled
    NoMaster = NoMaster
    Masters <- AnyMaster
    MaxRequests = 2
    MaxTakes = 1
    MaxCasts = 1
    MaxFaults = 1
    MaxRestarts = 1
    MaxKicks = 1
SPECIFICATION Spec
INVARIANTS
    SizesSound
    FramesCorrect
    LoneRecordIsReal
SYMMETRY SizerSymmetry
CHECK_DEADLOCK FALSE
