\* Two processes create the store.
CONSTANTS
    ida = ida
    idb = idb
    idc = idc
    Proc = {p1, p2}
    KeyFile = FALSE
    Id = {ida, idb}
    Pass = {x}
    NoPass = NoPass
    Comment = Comment
    Broken = Broken
    Blank = Blank
    Behead <- Beheaded
    Related <- NotRelated
    Stores <- NoStore
    None = None
    MaxInode = 3
    MaxRuns = 2
    MayCrash = FALSE
    TidyUp = FALSE
CHECK_DEADLOCK FALSE
SPECIFICATION Spec
PROPERTY CreateFindsNoStore
