SPECIFICATION FairSpec
CONSTANTS
    Sids = {a}
    Self = me
    RpcTimeMax = 5
    RpcIdMax = 9
    FindMax = 3
    CacheCountMax = 1
    CacheSizeMax = 3
    CountSlack = 1
    SizeSlack = 1
    Sizes = {1}
    Workload = {"await", "self"}
    TickLag = 2
    TickSpan = 2
    MaxTime = 11
    LastSend = 6
    MaxMsgs = 2
INVARIANTS CachedPending SettledOnce
PROPERTIES SentInTime OwnAnswer PromiseKept EveryCallSettles CacheDrains
\* The bounds stop the clock and the sends.
CHECK_DEADLOCK FALSE
