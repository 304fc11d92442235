CONSTANTS
    c1 = c1
    c2 = c2
    Clients <- TwoClients
    MaxVersion = 1
    MaxGen = 2
    MaxNotes = 2
    MaxFaults = 1
    MaxDowns = 1
SPECIFICATION FairSpec
INVARIANTS
    StoreSound
    LoadFindsLastSaved
    OverwriteOnlyAfterLag
PROPERTY EventuallySaved
CHECK_DEADLOCK FALSE
