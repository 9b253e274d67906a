\* One bucket and no hint: all keys in one chain, one binding to a block.
CONSTANTS
    k1 = k1
    k2 = k2
    k3 = k3
    Key = {k1, k2, k3}
    Value = {v1}
    NULL = NULL
    Hash <- MCHash
    Primes <- MCOnePrime
    Hint = 0
    MaxBlocks = 3
    MaxAlist = 3
SPECIFICATION FairSpec
PROPERTIES
    LoopsEnd
