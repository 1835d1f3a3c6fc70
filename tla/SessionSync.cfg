SPECIFICATION FairSpec
CONSTANTS
    Uids = {u}
    Data <- Copies
    ExpireSeconds = 0
    BucketSpan = 1
    MaxCacheCount = 1
    CacheSlack = 1
    EvictBatch = 1
    TickLag = 1
    MaxTime = 1
    Fronts = {f, g}
    VersionMax = 4
    NeedSession = {TRUE, FALSE}
    MaxLogins = 1
    MaxGen = 1
    MaxMsgs = 2
INVARIANTS OneFetch FreshUnlessShared HandledInOrder
PROPERTIES NoneLeftWaiting
\* The bounds stop the front ends.
CHECK_DEADLOCK FALSE
