\* A handle is reset that no reset function was set for.
CONSTANTS
    Thread = {t1, t2}
    Handle = {h}
    NULL = NULL
    Location = {l1, l2}
    Code <- Codes
    Garbage = Garbage
    Build <- PlainBuild
    NestsIn <- NoBuild
    NoneIn <- NoBuild
    ResetsUnset = TRUE
    MaxCalls = 1
    MaxDepth = 2
CHECK_DEADLOCK FALSE
SPECIFICATION Spec
INVARIANT ResetCallsAssigned
