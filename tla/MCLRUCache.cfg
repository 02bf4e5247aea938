CONSTANTS
    t1 = t1  t2 = t2
    k1 = k1  k2 = k2  k3 = k3  kf = kf
    v1 = v1  v2 = v2
    h1 = h1  h2 = h2  h3 = h3
    Threads <- MCThreads
    Keys <- MCKeys
    Values = {v1, v2}
    Hashes = {h1, h2, h3}
    hash <- MCHash
    deserialized_table <- MCFixed
    max_size = 2
    NoThread = NoThread
    NoValue = NoValue
SPECIFICATION FairSpec
INVARIANTS TypeOK IteratorsValid BoundedWhenUnlocked NeverThrows FixedShadowsDynamic
PROPERTIES FirstValueStays ImplementsWorkingSet LockReleased
