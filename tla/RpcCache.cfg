SPECIFICATION Spec
CONSTANTS
    Sids = {a, b}
    Self = me
    RpcTimeMax = 5
    RpcIdMax = 2
    FindMax = 2
    CacheCountMax = 2
    CacheSizeMax = 3
    CountSlack = 1
    SizeSlack = 1
    Sizes = {1, 2}
    Workload = {"await", "notify", "cast", "throw"}
    TickLag = 1
    TickSpan = 0
    MaxTime = 0
    LastSend = 0
    MaxMsgs = 3
SYMMETRY SidSymmetry
INVARIANTS BucketsExact CacheAccount InOrderOnce CachedOnlyWithoutSocket
\* The bounds stop the clock and the sends.
CHECK_DEADLOCK FALSE
