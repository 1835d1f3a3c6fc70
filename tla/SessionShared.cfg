SPECIFICATION Spec
CONSTANTS
    Uids = {u}
    Data <- Copies
    ExpireSeconds = 0
    BucketSpan = 1
    MaxCacheCount = 1
    CacheSlack = 1
    EvictBatch = 1
    TickLag = 1
    MaxTime = 0
    Fronts = {f, g}
    VersionMax = 4
    NeedSession = {TRUE}
    MaxLogins = 1
    MaxGen = 1
    MaxMsgs = 2
INVARIANTS HandledFresh
\* The bounds stop the front ends.
CHECK_DEADLOCK FALSE
