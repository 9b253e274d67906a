\* Two processes at once, kills, lock files left over.
CONSTANTS
    ida = ida
    idb = idb
    idc = idc
    Proc = {p1, p2}
    KeyFile = TRUE
    Id = {ida, idb}
    Pass = {x}
    NoPass = NoPass
    Comment = Comment
    Broken = Broken
    Blank = Blank
    Behead <- Beheaded
    Related <- NotRelated
    Stores <- FewStores
    None = None
    MaxInode = 4
    MaxRuns = 3
    MayCrash = TRUE
    TidyUp = FALSE
CHECK_DEADLOCK FALSE
SPECIFICATION FairSpec
INVARIANTS
    NoSelfCopy
PROPERTIES
    WritersHoldTheLock
    StorePersists
    EveryRunEnds
