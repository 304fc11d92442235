CONSTANTS
    s1 = s1
    s2 = s2
    s3 = s3
    g1 = g1
    g2 = g2
    Sources <- TwoSources
    Emitters <- OneEmitter
    MaxQueue = 2
    MaxParked = 2
    MaxEvents = 2
    MaxWatches = 2
    MaxTime = 3
SPECIFICATION Spec
INVARIANT WindowIsClosed
CHECK_DEADLOCK FALSE
