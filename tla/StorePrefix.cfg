\* Two identities of which one is a prefix of the other.
CONSTANTS
    ida = ida
    idb = idb
    idc = idc
    Proc = {p1}
    KeyFile = FALSE
    Id = {ida, idb}
    Pass = {x}
    NoPass = NoPass
    Comment = Comment
    Broken = Broken
    Blank = Blank
    Behead <- Beheaded
    Related <- APrefixesB
    Stores <- FewStores
    None = None
    MaxInode = 2
    MaxRuns = 1
    MayCrash = FALSE
    TidyUp = TRUE
CHECK_DEADLOCK FALSE
SPECIFICATION Spec
PROPERTY OthersKept
