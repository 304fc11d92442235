CONSTANTS
    c1 = c1
    c2 = c2
    c3 = c3
    k1 = k1
    k2 = k2
    wide = wide
    tall = tall
    Clients <- ThreeClients
    Sizers <- TwoSizers
    Sizes <- TwoSizes
    Kickers <- NoKickers
    First = First
    NoSize = NoSize
    Jiggled = Jiggled
    NoMaster = NoMaster
    Masters <- AnyMaster
    MaxRequests = 2
    MaxTakes = 1
    MaxCasts = 1
    MaxFaults = 1
    MaxRestarts = 1
    MaxKicks = 0
SPECIFICATION Spec
INVARIANTS
    SizesSound
    FramesCorrect
SYMMETRY SizerSymmetry
CHECK_DEADLOCK FALSE
