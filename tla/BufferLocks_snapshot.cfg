SPECIFICATION FairSpec
CONSTANTS
    k1 = k1
    k2 = k2
    k3 = k3
    s1 = s1
    s2 = s2
    Keys <- MCKeys
    Shards <- MCShards
    ShardOf <- MCShardOf
    NoThread = NoThread
    Storers = {h1}
    Removers = {d1}
    Cleaners = {c1}
    RangeReaders = {r1}
CHECK_DEADLOCK FALSE
INVARIANTS
    TypeOK
    RangeReadIsSnapshot
    StopNeedsReadAgainstCallback
PROPERTIES
    OnlyReadAgainstCallbackStops
    ImplementsAtomicBuffer
