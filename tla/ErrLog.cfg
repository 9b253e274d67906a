\* Both builds; clients log nothing, and from log functions, without threads only.
CONSTANTS
    Thread = {t1, t2}
    Handle = {h}
    NULL = NULL
    Location = {l1, l2}
    Code <- Codes
    Garbage = Garbage
    Build <- BothBuilds
    NestsIn <- PlainBuild
    NoneIn <- PlainBuild
    ResetsUnset = FALSE
    MaxCalls = 4
    MaxDepth = 2
CHECK_DEADLOCK FALSE
SPECIFICATION FairSpec
INVARIANTS
    TypeOK
    EventHasItsLocation
    ClientCodeSerialised
PROPERTY CallsReturn
