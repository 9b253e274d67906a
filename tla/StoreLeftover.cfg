\* A lock file left by a failed run is not truncated by the next one.
CONSTANTS
    ida = ida
    idb = idb
    idc = idc
    Proc = {p1}
    KeyFile = TRUE
    Id = {ida, idb, idc}
    Pass = {x}
    NoPass = NoPass
    Comment = Comment
    Broken = Broken
    Blank = Blank
    Behead <- Beheaded
    Related <- NotRelated
    Stores <- BothRecords
    None = None
    MaxInode = 3
    MaxRuns = 2
    MayCrash = FALSE
    TidyUp = FALSE
CHECK_DEADLOCK FALSE
SPECIFICATION Spec
PROPERTY DeletedIsGone
