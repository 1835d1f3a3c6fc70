--------------------------- MODULE SessionCache ---------------------------
(***************************************************************************)
(* The cache of sessions a back-end server keeps                           *)
(* (src/src/components/backendServer.ts: sessionMap, sessionExpireMap and  *)
(* the five functions that touch them).  A session is found by its uid; it *)
(* expires from a bucket of 5 s, and the oldest go when there are too many.*)
(*                                                                         *)
(* Both maps iterate in the order of insertion: sessionExpireMap is the    *)
(* sequence of its buckets, a bucket the sequence of its uids.             *)
(* What a session holds (Data) is the business of SessionSync.             *)
(***************************************************************************)
EXTENDS Integers, Sequences, FiniteSets, SequencesExt, Maps

CONSTANTS
    Uids,           \* players
    Data,           \* what a cached session holds
    ExpireSeconds,  \* expireSeconds: how long an unused session is kept
    BucketSpan,     \* 5: the seconds of one bucket
    MaxCacheCount,  \* maxCacheCount
    CacheSlack,     \* 200: sessions allowed above maxCacheCount
    EvictBatch,     \* 300: sessions given up at a time
    TickLag,        \* wall seconds between two runs of checkExpire, at most
    MaxTime         \* bound: the clock stops here

ASSUME ExpiryAssumption ==
    /\ ExpireSeconds \in Nat /\ BucketSpan \in Nat \ {0}
    /\ TickLag \in 1..2 /\ MaxTime \in Nat
\* 300 < 3000 + 200: the session just added is never among those given up.
ASSUME EvictAssumption ==
    /\ MaxCacheCount \in Nat /\ CacheSlack \in Nat
    /\ EvictBatch \in 1..(MaxCacheCount + CacheSlack - 1)

VARIABLES
    now,                \* Date.now() / 1000, rounded down
    ticked,             \* when checkExpire last ran
    sessionMap,         \* uid -> what the session holds, its expireTime and,
                        \* as history, when it was last used
    sessionExpireMap    \* the buckets

timeVars == <<now, ticked>>
mapVars == <<sessionMap, sessionExpireMap>>
cacheVars == <<timeVars, mapVars>>

Cached == DOMAIN sessionMap

\* Slip: the start of the bucket for its end.
ExpireTimeStart == ((ticked + ExpireSeconds) \div BucketSpan) * BucketSpan
\* this.expireTime, set by checkExpire: the end of a bucket.
ExpireTime == ((ticked + ExpireSeconds) \div BucketSpan) * BucketSpan + BucketSpan

CacheTypeOK ==
    /\ now \in Nat /\ ticked \in 0..now
    /\ Cached \subseteq Uids
    /\ \A u \in Cached :
          sessionMap[u] \in [data : Data, expireTime : Nat, used : 0..now]
    /\ \A i \in DOMAIN sessionExpireMap :
          /\ sessionExpireMap[i].time \in Nat
          /\ sessionExpireMap[i].time % BucketSpan = 0
          /\ sessionExpireMap[i].uids \in Seq(Uids)

\* The constructor runs checkExpire once.
CacheInit ==
    /\ now = 0 /\ ticked = 0
    /\ sessionMap = <<>>
    /\ sessionExpireMap = <<>>

-----------------------------------------------------------------------------
(* Buckets.                                                                *)

\* Bucket t without u, if there is a bucket t.
Taken(buckets, t, u) ==
    [i \in DOMAIN buckets |->
        IF buckets[i].time = t THEN [buckets[i] EXCEPT !.uids = Without(@, {u})]
        ELSE buckets[i]]

\* Bucket t with u, created at the end if there is none.
Placed(buckets, t, u) ==
    LET has == \E i \in DOMAIN buckets : buckets[i].time = t
        bs  == IF has THEN buckets ELSE Append(buckets, [time |-> t, uids |-> <<>>])
    IN  [i \in DOMAIN bs |->
            IF bs[i].time = t /\ ~Contains(bs[i].uids, u)
            THEN [bs[i] EXCEPT !.uids = Append(@, u)] ELSE bs[i]]

\* Slip: the session stays in its old bucket too.
RefreshedTwice(buckets, u) == Placed(buckets, ExpireTime, u)
\* updateSession: the session of u moves to the current bucket.
Refreshed(buckets, u) ==
    LET old == sessionMap[u].expireTime
    IN  IF old = ExpireTime THEN buckets
        ELSE Placed(Taken(buckets, old, u), ExpireTime, u)

-----------------------------------------------------------------------------
(* The operations.                                                         *)

\* The places of the uids: <<which bucket, where in it>>.
Places(buckets) == UNION {{i} \X DOMAIN buckets[i].uids : i \in DOMAIN buckets}
Before(p, q) == p[1] < q[1] \/ (p[1] = q[1] /\ p[2] < q[2])

\* Slip: eviction from the newest bucket.
VictimsNewest(map, buckets) ==
    IF Cardinality(DOMAIN map) < MaxCacheCount + CacheSlack THEN {}
    ELSE {buckets[p[1]].uids[p[2]] : p \in {q \in Places(buckets) :
             Cardinality({r \in Places(buckets) : Before(q, r)}) < EvictBatch}}
\* Slip: one session too many is allowed.
VictimsLate(map, buckets) ==
    IF Cardinality(DOMAIN map) <= MaxCacheCount + CacheSlack THEN {}
    ELSE {buckets[p[1]].uids[p[2]] : p \in {q \in Places(buckets) :
             Cardinality({r \in Places(buckets) : Before(r, q)}) < EvictBatch}}
\* checkCacheTooMuch: the sessions it deletes from map, oldest bucket first.
Victims(map, buckets) ==
    IF Cardinality(DOMAIN map) < MaxCacheCount + CacheSlack THEN {}
    ELSE {buckets[p[1]].uids[p[2]] : p \in {q \in Places(buckets) :
             Cardinality({r \in Places(buckets) : Before(r, q)}) < EvictBatch}}

\* addSession, of a uid that is not cached.
AddSession(u, data) ==
    LET map  == [v \in Cached \cup {u} |->
                    IF v = u THEN [data |-> data, expireTime |-> ExpireTime, used |-> now]
                    ELSE sessionMap[v]]
        bs   == Placed(sessionExpireMap, ExpireTime, u)
        gone == Victims(map, bs)
    IN  /\ u \notin Cached
        /\ sessionMap' = [v \in DOMAIN map \ gone |-> map[v]]
        /\ sessionExpireMap' =
              [i \in DOMAIN bs |->
                  [bs[i] EXCEPT !.uids =
                      Without(@, {v \in gone : map[v].expireTime = bs[i].time})]]

\* syncSettings (or a new sid), then updateSession.
UpdateSession(u, data) ==
    /\ u \in Cached
    /\ sessionMap' = [sessionMap EXCEPT ![u] =
                         [data |-> data, expireTime |-> ExpireTime, used |-> now]]
    /\ sessionExpireMap' = Refreshed(sessionExpireMap, u)

\* delSession(getSession(u)).
DelSession(u) ==
    /\ sessionMap' = [v \in Cached \ {u} |-> sessionMap[v]]
    /\ sessionExpireMap' =
          IF u \in Cached THEN Taken(sessionExpireMap, sessionMap[u].expireTime, u)
          ELSE sessionExpireMap

\* The buckets from the first to the last before one that is not yet due.
Due(i) == \A j \in 1..i : now > sessionExpireMap[j].time

\* Slip: a due bucket is dropped and its sessions stay.
CheckExpireKeeping ==
    /\ ticked' = now
    /\ sessionExpireMap' = SelectSeq(sessionExpireMap, LAMBDA b : now <= b.time)
    /\ UNCHANGED <<now, sessionMap>>

CheckExpire ==
    LET due  == {i \in DOMAIN sessionExpireMap : Due(i)}
        gone == UNION {ToSet(sessionExpireMap[i].uids) : i \in due}
    IN  /\ ticked' = now
        /\ sessionExpireMap' =
              SubSeq(sessionExpireMap, Cardinality(due) + 1, Len(sessionExpireMap))
        /\ sessionMap' = [v \in Cached \ gone |-> sessionMap[v]]
        /\ UNCHANGED now

\* The wall clock; the timer runs every second, at most TickLag late.
Clock ==
    /\ now < MaxTime
    /\ now - ticked < TickLag
    /\ now' = now + 1
    /\ UNCHANGED <<ticked, mapVars>>

-----------------------------------------------------------------------------
(* The cache alone, under any sequence of operations its callers can make. *)

CacheNext ==
    \/ \E u \in Uids, data \in Data : AddSession(u, data) /\ UNCHANGED timeVars
    \/ \E u \in Uids, data \in Data : UpdateSession(u, data) /\ UNCHANGED timeVars
    \/ \E u \in Uids : DelSession(u) /\ UNCHANGED timeVars
    \/ CheckExpire
    \/ Clock

CacheSpec == CacheInit /\ [][CacheNext]_cacheVars

\* Every cached session is in the bucket of its expireTime, once, and in no
\* other; buckets hold nothing else.  A session in no bucket would never expire,
\* one in two would expire while it is in use.
BucketsMatch ==
    /\ \A i, j \in DOMAIN sessionExpireMap :
          i < j => sessionExpireMap[i].time < sessionExpireMap[j].time
    /\ \A i \in DOMAIN sessionExpireMap :
          LET b == sessionExpireMap[i]
          IN  /\ ToSet(b.uids) = {u \in Cached : sessionMap[u].expireTime = b.time}
              /\ Cardinality(ToSet(b.uids)) = Len(b.uids)
    /\ \A u \in Cached : \E i \in DOMAIN sessionExpireMap :
          sessionExpireMap[i].time = sessionMap[u].expireTime

\* There are never more than maxCacheCount + 200 sessions.
CacheBounded == Cardinality(Cached) < MaxCacheCount + CacheSlack

\* checkExpire leaves no session that was due: stopping at the first bucket that
\* is not due misses none.
NothingOverdue == \A u \in Cached : sessionMap[u].expireTime >= ticked

\* A session that is added stays, and those given up to make room for it are the
\* ones that expire first.
EvictsOldest ==
    [][\A u \in Uids, data \in Data : AddSession(u, data) =>
          /\ u \in Cached'
          /\ \A v \in Cached \ Cached', w \in Cached' :
                sessionMap[v].expireTime <= sessionMap'[w].expireTime]_cacheVars

\* A session is kept for expireSeconds after its last use, however the use, the
\* bucket and a late timer fall.
KeptWhileUsed ==
    [][CheckExpire => \A u \in Cached \ Cached' :
          now - sessionMap[u].used >= ExpireSeconds]_cacheVars
=============================================================================
