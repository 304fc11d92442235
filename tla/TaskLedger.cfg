CONSTANTS
    t1 = t1
    t2 = t2
    e1 = e1
    e2 = e2
    s1 = s1
    s2 = s2
    Tasks <- TwoTasks
    Emitters <- TwoEmitters
    Settlers <- OneSettler
    Teardowns = {"destroy", "restart"}
    Timed <- OneTask
    Waited <- OneTask
    MaxSub = 1
    MaxEvents = 2
SPECIFICATION FairSpec
INVARIANTS
    LedgerSound
    DeadNeverDone
PROPERTIES
    ExitEndsTask
    ImplementsFuture
CHECK_DEADLOCK FALSE
