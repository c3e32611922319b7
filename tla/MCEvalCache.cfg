SPECIFICATION CacheSpec
CONSTANTS
    Workers = {w1, w2}
    Keys = {k1, k2, k3}
    Sizes = {1, 2, 4}
    PerShard = 2
    PerShardBytes = 3
    MaxSwaps = 2
    NoKey = NoKey
INVARIANTS NetWithinOneSwap ShardConsistent
SYMMETRY Symmetry
