\* Two threads, one of which logs at level I2LOG_NONE.
CONSTANTS
    Thread = {t1, t2}
    Handle = {h}
    NULL = NULL
    Location = {l1, l2}
    Code <- Codes
    Garbage = Garbage
    Build <- ThreadsBuild
    NestsIn <- NoBuild
    NoneIn <- ThreadsBuild
    ResetsUnset = FALSE
    MaxCalls = 2
    MaxDepth = 2
CHECK_DEADLOCK FALSE
SPECIFICATION Spec
INVARIANT MutexHeldInCalls
