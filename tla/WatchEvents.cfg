CONSTANTS
    s1 = s1
    s2 = s2
    s3 = s3
    g1 = g1
    g2 = g2
    Sources <- ThreeSources
    Emitters <- TwoEmitters
    MaxQueue = 2
    MaxParked = 2
    MaxEvents = 3
    MaxWatches = 2
    MaxTime = 3
SPECIFICATION Spec
INVARIANTS
    QueueSound
    SkipsAreKnown
    WatchersLive
SYMMETRY Symmetry
CHECK_DEADLOCK FALSE
