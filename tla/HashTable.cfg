\* Two buckets, two values, hint 2: the table against the map it promises.
CONSTANTS
    k1 = k1
    k2 = k2
    k3 = k3
    Key = {k1, k2, k3}
    Value = {v1, v2}
    NULL = NULL
    Hash <- MCHash
    Primes <- MCPrimes
    Hint = 2
    MaxBlocks = 2
    MaxAlist = 4
SYMMETRY Values
SPECIFICATION Spec
INVARIANTS
    TypeOK
    OnOneList
    KeysOnce
    CountsExact
    MarksOnlyWhileIterating
    LoopsEndWithWorkDone
    NoMemoryLost
PROPERTIES
    ImplementsKeyMap
    ListsStillInCallback
