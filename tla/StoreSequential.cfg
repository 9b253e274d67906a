\* One process after another, leftovers removed: every edit is atomic.
CONSTANTS
    ida = ida
    idb = idb
    idc = idc
    Proc = {p1}
    KeyFile = FALSE
    Id = {ida, idb}
    Pass = {x, y}
    NoPass = NoPass
    Comment = Comment
    Broken = Broken
    Blank = Blank
    Behead <- Beheaded
    Related <- NotRelated
    Stores <- AllStores
    None = None
    MaxInode = 4
    MaxRuns = 3
    MayCrash = TRUE
    TidyUp = TRUE
CHECK_DEADLOCK FALSE
SPECIFICATION Spec
INVARIANTS
    TypeOK
PROPERTIES
    ImplementsAtomicStore
