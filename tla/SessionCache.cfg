SPECIFICATION CacheSpec
CONSTANTS
    Uids = {u, v, w, x}
    Data = {d}
    ExpireSeconds = 3
    BucketSpan = 2
    MaxCacheCount = 2
    CacheSlack = 2
    EvictBatch = 2
    TickLag = 2
    MaxTime = 8
SYMMETRY UidSymmetry
INVARIANTS BucketsMatch CacheBounded NothingOverdue
PROPERTIES EvictsOldest KeptWhileUsed
\* The bound stops the clock.
CHECK_DEADLOCK FALSE
