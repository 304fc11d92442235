CONSTANTS
    t1 = t1
    t2 = t2
    e1 = e1
    e2 = e2
    s1 = s1
    s2 = s2
    Tasks <- OneTask
    Emitters <- OneEmitter
    Settlers <- OneSettler
    Teardowns = {}
    Timed <- OneTask
    Waited <- NoTask
    MaxSub = 1
    MaxEvents = 5
SPECIFICATION Spec
INVARIANT WaitingHasWindow
CHECK_DEADLOCK FALSE
