SPECIFICATION FairSpec
CONSTANTS
    Talks = c
    Listens = d
    Silent = e
    Clients = {c, d, e}
    Uids = {1, 2}
    BucketCnt = 2
    MaxConnectionNum = 2
    IntervalCacheLen = 2
    HeartbeatOn = TRUE
    MaxSends = 2
    MaxFrames <- FramesOf
    ChunkMax = 2
INVARIANTS FlushReaches CountsAgree Delivered
PROPERTIES ForwardedOwn ComesToRest
\* Clients may rest.
CHECK_DEADLOCK FALSE
