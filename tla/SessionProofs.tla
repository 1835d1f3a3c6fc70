---------------------------- MODULE SessionProofs ----------------------------
(***************************************************************************)
(* Proofs about SessionCache and SessionSync, for any players, front ends, *)
(* cache limits, times and numbers of messages.                            *)
(***************************************************************************)
EXTENDS SessionSync, DataTheorems, TLAPS

(***************************************************************************)
(* The inductive invariant of the cache.                                   *)
(***************************************************************************)

Buckets == [time : Nat, uids : Seq(Uids)]

\* Buckets in order, each an ordered set; and u in the bucket of time t.
Good(bs) ==
    /\ bs \in Seq(Buckets)
    /\ \A i, j \in DOMAIN bs : i < j => bs[i].time < bs[j].time
    /\ \A i \in DOMAIN bs : Once(bs[i].uids)
In(bs, t, u) == \E i \in DOMAIN bs : bs[i].time = t /\ Has(bs[i].uids, u)

\* The buckets hold what the map says, and none is newer than t.
Match(map, bs) == \A t, u : In(bs, t, u) <=> u \in DOMAIN map /\ map[u].expireTime = t
UpTo(bs, t) == \A i \in DOMAIN bs : bs[i].time <= t

TimeOK == now \in Nat /\ ticked \in Nat /\ ticked <= now /\ now <= ticked + TickLag

\* What a session says of its use and its end.
Fits(s) ==
    /\ s.expireTime \in Nat /\ s.used \in Nat /\ s.used <= now
    /\ ticked <= s.expireTime
    /\ s.used + ExpireSeconds < s.expireTime + TickLag
MapOK ==
    /\ sessionMap = [u \in Cached |-> sessionMap[u]]
    /\ Cached \subseteq Uids /\ IsFiniteSet(Cached)
    /\ \A u \in Cached : Fits(sessionMap[u])

CacheInv ==
    /\ TimeOK /\ MapOK
    /\ Good(sessionExpireMap) /\ Match(sessionMap, sessionExpireMap)
    /\ UpTo(sessionExpireMap, ExpireTime)
    /\ CacheBounded

(***************************************************************************)
(* Buckets.                                                                *)
(***************************************************************************)

LEMMA BucketsOf ==
    ASSUME NEW bs, Good(bs)
    PROVE  /\ Len(bs) \in Nat /\ DOMAIN bs = 1..Len(bs)
           /\ \A i \in DOMAIN bs : /\ bs[i] \in Buckets /\ bs[i].time \in Nat
                                   /\ bs[i].uids \in Seq(Uids)
           /\ \A i, j \in DOMAIN bs : bs[i].time = bs[j].time => i = j
           /\ \A i, j \in DOMAIN bs : bs[i].time < bs[j].time => i < j
<1>1. Len(bs) \in Nat /\ DOMAIN bs = 1..Len(bs) /\ \A i \in DOMAIN bs : bs[i] \in Buckets
  BY DEF Good
<1>2. \A i \in DOMAIN bs : bs[i].time \in Nat /\ bs[i].uids \in Seq(Uids)
  BY <1>1 DEF Buckets
<1>3. ASSUME NEW i \in DOMAIN bs, NEW j \in DOMAIN bs, ~(i < j), i # j
      PROVE  bs[j].time < bs[i].time
  <2>1. j < i
    BY <1>1, <1>3
  <2>. QED BY <2>1 DEF Good
<1>4. ASSUME NEW i \in DOMAIN bs, NEW j \in DOMAIN bs, bs[i].time = bs[j].time PROVE i = j
  BY <1>1, <1>2, <1>3, <1>4 DEF Good
<1>5. ASSUME NEW i \in DOMAIN bs, NEW j \in DOMAIN bs, bs[i].time < bs[j].time PROVE i < j
  BY <1>1, <1>2, <1>3, <1>5
<1>. QED BY <1>1, <1>2, <1>4, <1>5

\* A bucket with other uids.
LEMMA OtherUids ==
    ASSUME NEW b \in Buckets, NEW q \in Seq(Uids)
    PROVE  LET n == [b EXCEPT !.uids = q]
           IN  n \in Buckets /\ n.time = b.time /\ n.uids = q
BY DEF Buckets

\* Buckets of the same times, with fewer or more uids.
LEMMA SameTimes ==
    ASSUME NEW bs, Good(bs), NEW cs, DOMAIN cs = DOMAIN bs, cs = [i \in DOMAIN bs |-> cs[i]],
           \A i \in DOMAIN bs : cs[i] \in Buckets /\ cs[i].time = bs[i].time /\ Once(cs[i].uids)
    PROVE  Good(cs) /\ \A t : UpTo(bs, t) => UpTo(cs, t)
<1>1. Len(bs) \in Nat /\ DOMAIN bs = 1..Len(bs)
  BY BucketsOf
<1>2. cs \in [1..Len(bs) -> Buckets]
  BY <1>1
<1>3. cs \in Seq(Buckets)
  BY <1>1, <1>2
<1>. QED BY <1>3 DEF Good, UpTo

LEMMA TakenOut ==
    ASSUME NEW bs, Good(bs), NEW t, NEW u
    PROVE  LET cs == Taken(bs, t, u)
           IN  /\ Good(cs) /\ \A x : UpTo(bs, x) => UpTo(cs, x)
               /\ \A x, v : In(cs, x, v) <=> In(bs, x, v) /\ ~(x = t /\ v = u)
<1> DEFINE cs == Taken(bs, t, u)
<1>1. /\ Len(bs) \in Nat /\ DOMAIN bs = 1..Len(bs)
      /\ \A i \in DOMAIN bs : /\ bs[i] \in Buckets /\ bs[i].time \in Nat
                              /\ bs[i].uids \in Seq(Uids) /\ Once(bs[i].uids)
  BY BucketsOf DEF Good
<1>2. DOMAIN cs = DOMAIN bs /\ cs = [i \in DOMAIN bs |-> cs[i]]
  BY DEF Taken
<1>3. ASSUME NEW i \in DOMAIN bs
      PROVE  /\ cs[i] \in Buckets /\ cs[i].time = bs[i].time /\ Once(cs[i].uids)
             /\ \A v : Has(cs[i].uids, v) <=> Has(bs[i].uids, v) /\ ~(bs[i].time = t /\ v = u)
  <2>1. CASE bs[i].time = t
    <3> DEFINE q == Without(bs[i].uids, {u})
    <3>1. q \in Seq(Uids) /\ Once(q) /\ \A v : Has(q, v) <=> (v \notin {u} /\ Has(bs[i].uids, v))
      BY <1>1, WithoutOnce
    <3>2. cs[i] = [bs[i] EXCEPT !.uids = q]
      BY <2>1 DEF Taken
    <3> HIDE DEF q, cs
    <3>3. cs[i] \in Buckets /\ cs[i].time = bs[i].time /\ cs[i].uids = q
      BY <1>1, <3>1, <3>2, OtherUids
    <3>. QED BY <2>1, <3>1, <3>3
  <2>2. CASE bs[i].time # t
    <3>1. cs[i] = bs[i]
      BY <2>2 DEF Taken
    <3> HIDE DEF cs
    <3>. QED BY <1>1, <2>2, <3>1
  <2>. QED BY <2>1, <2>2
<1> HIDE DEF cs
<1>4. Good(cs) /\ \A x : UpTo(bs, x) => UpTo(cs, x)
  BY <1>2, <1>3, SameTimes
<1>5. \A x, v : In(cs, x, v) <=> In(bs, x, v) /\ ~(x = t /\ v = u)
  BY <1>2, <1>3 DEF In
<1>. QED BY <1>4, <1>5 DEF cs

\* An empty bucket at the end.
LEMMA NewBucket ==
    ASSUME NEW bs, Good(bs), NEW t \in Nat, UpTo(bs, t), \A i \in DOMAIN bs : bs[i].time # t
    PROVE  LET cs == Append(bs, [time |-> t, uids |-> <<>>])
           IN  /\ Good(cs) /\ UpTo(cs, t) /\ \E i \in DOMAIN cs : cs[i].time = t
               /\ \A x, v : In(cs, x, v) <=> In(bs, x, v)
<1> DEFINE b == [time |-> t, uids |-> <<>>]
           cs == Append(bs, b)
           n == Len(bs)
<1>1. /\ n \in Nat /\ DOMAIN bs = 1..n /\ bs \in Seq(Buckets)
      /\ \A i \in DOMAIN bs : bs[i].time \in Nat /\ bs[i].time < t
  BY BucketsOf DEF Good, UpTo
<1>2. b \in Buckets /\ b.time = t /\ b.uids = <<>>
  BY DEF Buckets
<1>3. Once(b.uids) /\ \A v : ~Has(b.uids, v)
  BY <1>2 DEF Once, Has
<1> HIDE DEF b
<1>4. /\ cs \in Seq(Buckets) /\ DOMAIN cs = 1..n + 1 /\ cs[n + 1] = b
      /\ \A i \in 1..n : cs[i] = bs[i]
  BY <1>1, <1>2
<1> HIDE DEF cs
<1>5. /\ \A i \in 1..n + 1 : i \in 1..n \/ i = n + 1
      /\ \A i \in 1..n : i \in 1..n + 1 /\ i < n + 1 /\ ~(n + 1 < i)
      /\ n + 1 \in 1..n + 1 /\ ~(n + 1 < n + 1)
  BY <1>1
<1> DEFINE m == n + 1
<1> HIDE DEF m
<1>6. ASSUME NEW i \in DOMAIN cs, NEW j \in DOMAIN cs, i < j PROVE cs[i].time < cs[j].time
  <2>1. i \in 1..n
    BY <1>4, <1>5, <1>6, <1>1
  <2>2. CASE j \in 1..n
    BY <1>1, <1>4, <1>6, <2>1, <2>2 DEF Good
  <2>3. CASE j = n + 1
    BY <1>1, <1>2, <1>4, <2>1, <2>3
  <2>. QED BY <1>4, <1>5, <2>2, <2>3
<1>7. \A i \in DOMAIN cs : Once(cs[i].uids)
  BY <1>1, <1>3, <1>4, <1>5 DEF Good
<1>8. UpTo(cs, t)
  BY <1>1, <1>2, <1>4, <1>5 DEF UpTo
<1>9. \A x, v : In(cs, x, v) <=> In(bs, x, v)
  BY <1>1, <1>3, <1>4, <1>5 DEF In
<1>10. \E i \in DOMAIN cs : cs[i].time = t
  BY <1>2, <1>4, <1>5
<1>11. Good(cs)
  BY <1>4, <1>6, <1>7 DEF Good
<1>. QED BY <1>8, <1>9, <1>10, <1>11 DEF cs, b

LEMMA PlacedIn ==
    ASSUME NEW bs, Good(bs), NEW t \in Nat, UpTo(bs, t), NEW u \in Uids
    PROVE  LET cs == Placed(bs, t, u)
           IN  /\ Good(cs) /\ UpTo(cs, t)
               /\ \A x, v : In(cs, x, v) <=> In(bs, x, v) \/ (x = t /\ v = u)
               /\ ~In(bs, t, u) =>
                     \E i \in DOMAIN cs : /\ cs[i].time = t /\ Len(cs[i].uids) > 0
                                          /\ cs[i].uids[Len(cs[i].uids)] = u
<1> DEFINE has == \E i \in DOMAIN bs : bs[i].time = t
           es == IF has THEN bs ELSE Append(bs, [time |-> t, uids |-> <<>>])
           cs == Placed(bs, t, u)
<1>1. /\ Good(es) /\ UpTo(es, t) /\ \A x, v : In(es, x, v) <=> In(bs, x, v)
      /\ \E i \in DOMAIN es : es[i].time = t
  <2>1. CASE has
    BY <2>1
  <2>2. CASE ~has
    <3>1. es = Append(bs, [time |-> t, uids |-> <<>>])
      BY <2>2
    <3>2. \A i \in DOMAIN bs : bs[i].time # t
      BY <2>2
    <3> HIDE DEF has, es
    <3>. QED BY <3>1, <3>2, NewBucket
  <2>. QED BY <2>1, <2>2
<1>2. cs = [i \in DOMAIN es |-> IF es[i].time = t /\ ~Contains(es[i].uids, u)
                                THEN [es[i] EXCEPT !.uids = Append(@, u)] ELSE es[i]]
  BY DEF Placed
<1> HIDE DEF es, cs
<1>3. /\ Len(es) \in Nat /\ DOMAIN es = 1..Len(es)
      /\ \A i \in DOMAIN es : /\ es[i] \in Buckets /\ es[i].time \in Nat
                              /\ es[i].uids \in Seq(Uids) /\ Once(es[i].uids)
  BY <1>1, BucketsOf DEF Good
<1>4. DOMAIN cs = DOMAIN es /\ cs = [i \in DOMAIN es |-> cs[i]]
  BY <1>2
<1>5. ASSUME NEW i \in DOMAIN es
      PROVE  /\ Contains(es[i].uids, u) <=> Has(es[i].uids, u)
             /\ cs[i] \in Buckets /\ cs[i].time = es[i].time /\ Once(cs[i].uids)
             /\ \A v : Has(cs[i].uids, v) <=> Has(es[i].uids, v) \/ (es[i].time = t /\ v = u)
             /\ es[i].time = t /\ ~Has(es[i].uids, u) =>
                   Len(cs[i].uids) > 0 /\ cs[i].uids[Len(cs[i].uids)] = u
  <2>1. Contains(es[i].uids, u) <=> Has(es[i].uids, u)
    <3>1. DOMAIN es[i].uids = 1..Len(es[i].uids)
      BY <1>3
    <3>. QED BY <3>1 DEF Contains, Has
  <2>2. CASE es[i].time = t /\ ~Has(es[i].uids, u)
    <3> DEFINE q == Append(es[i].uids, u)
    <3>1. q \in Seq(Uids) /\ Once(q) /\ \A v : Has(q, v) <=> (v = u \/ Has(es[i].uids, v))
      BY <1>3, <2>2, AppendOnce
    <3>2. Len(q) > 0 /\ q[Len(q)] = u
      BY <1>3
    <3>3. cs[i] = [es[i] EXCEPT !.uids = q]
      BY <1>2, <2>1, <2>2
    <3> HIDE DEF q
    <3>4. cs[i] \in Buckets /\ cs[i].time = es[i].time /\ cs[i].uids = q
      BY <1>3, <3>1, <3>3, OtherUids
    <3>. QED BY <2>1, <2>2, <3>1, <3>2, <3>4
  <2>3. CASE ~(es[i].time = t /\ ~Has(es[i].uids, u))
    <3>1. cs[i] = es[i]
      BY <1>2, <2>1, <2>3
    <3>. QED BY <1>3, <2>1, <2>3, <3>1
  <2>. QED BY <2>2, <2>3
<1>6. Good(cs) /\ UpTo(cs, t)
  BY <1>1, <1>4, <1>5, SameTimes
<1>7. \A x, v : In(cs, x, v) <=> In(es, x, v) \/ (x = t /\ v = u)
  <2>1. ASSUME NEW x, NEW v, In(cs, x, v) PROVE In(es, x, v) \/ (x = t /\ v = u)
    BY <1>4, <1>5, <2>1 DEF In
  <2>2. ASSUME NEW x, NEW v, In(es, x, v) PROVE In(cs, x, v)
    BY <1>4, <1>5, <2>2 DEF In
  <2>3. In(cs, t, u)
    <3>1. PICK i \in DOMAIN es : es[i].time = t
      BY <1>1
    <3>2. Has(cs[i].uids, u) /\ cs[i].time = t
      BY <1>5, <3>1
    <3>. QED BY <1>4, <3>2 DEF In
  <2>. QED BY <2>1, <2>2, <2>3
<1>8. ~In(es, t, u) =>
         \E i \in DOMAIN cs : /\ cs[i].time = t /\ Len(cs[i].uids) > 0
                              /\ cs[i].uids[Len(cs[i].uids)] = u
  BY <1>1, <1>4, <1>5 DEF In
<1>. QED BY <1>1, <1>6, <1>7, <1>8 DEF cs

(***************************************************************************)
(* Eviction.                                                               *)
(***************************************************************************)

Uid(bs, p) == bs[p[1]].uids[p[2]]
Ahead(bs, p) == {r \in Places(bs) : Before(r, p)}

\* Every session of the map has one place.
LEMMA OnePlaceEach ==
    ASSUME NEW bs, Good(bs), NEW map, Match(map, bs), IsFiniteSet(DOMAIN map)
    PROVE  /\ IsFiniteSet(Places(bs)) /\ Cardinality(Places(bs)) = Cardinality(DOMAIN map)
           /\ \A p \in Places(bs) : /\ p[1] \in DOMAIN bs /\ p[2] \in DOMAIN bs[p[1]].uids
                                    /\ p[1] \in Nat /\ p[2] \in Nat /\ p = <<p[1], p[2]>>
                                    /\ Uid(bs, p) \in DOMAIN map
                                    /\ map[Uid(bs, p)].expireTime = bs[p[1]].time
           /\ \A p, q \in Places(bs) : Uid(bs, p) = Uid(bs, q) => p = q
           /\ \A u \in DOMAIN map : \E p \in Places(bs) : Uid(bs, p) = u
           /\ \A i \in DOMAIN bs : \A k \in DOMAIN bs[i].uids : <<i, k>> \in Places(bs)
<1> DEFINE P == Places(bs)
           D == DOMAIN map
<1>1. /\ DOMAIN bs = 1..Len(bs) /\ Len(bs) \in Nat
      /\ \A i \in DOMAIN bs : bs[i].uids \in Seq(Uids) /\ Once(bs[i].uids)
      /\ \A i, j \in DOMAIN bs : bs[i].time = bs[j].time => i = j
  BY BucketsOf DEF Good
<1>2. ASSUME NEW i \in DOMAIN bs, NEW k \in DOMAIN bs[i].uids
      PROVE  i \in Nat /\ k \in Nat /\ <<i, k>> \in P
  <2>1. DOMAIN bs[i].uids = 1..Len(bs[i].uids) /\ Len(bs[i].uids) \in Nat
    BY <1>1
  <2>. QED BY <1>1, <2>1 DEF Places
<1>3. ASSUME NEW p \in P
      PROVE  /\ p[1] \in DOMAIN bs /\ p[2] \in DOMAIN bs[p[1]].uids
             /\ p[1] \in Nat /\ p[2] \in Nat /\ p = <<p[1], p[2]>>
             /\ Uid(bs, p) \in D /\ map[Uid(bs, p)].expireTime = bs[p[1]].time
  <2>1. PICK i \in DOMAIN bs : p \in {i} \X DOMAIN bs[i].uids
    BY DEF Places
  <2>2. p[1] = i /\ p[2] \in DOMAIN bs[i].uids /\ p = <<p[1], p[2]>>
    BY <2>1
  <2>3. Has(bs[i].uids, Uid(bs, p))
    BY <2>2 DEF Has, Uid
  <2>4. In(bs, bs[i].time, Uid(bs, p))
    BY <2>3 DEF In
  <2>. QED BY <1>2, <2>2, <2>4 DEF Match
<1>4. ASSUME NEW p \in P, NEW q \in P, Uid(bs, p) = Uid(bs, q) PROVE p = q
  <2>1. p[1] = q[1]
    BY <1>1, <1>3, <1>4
  <2>2. p[2] = q[2]
    BY <1>1, <1>3, <1>4, <2>1 DEF Once, Uid
  <2>. QED BY <1>3, <2>1, <2>2
<1>5. ASSUME NEW u \in D PROVE \E p \in P : Uid(bs, p) = u
  <2>1. In(bs, map[u].expireTime, u)
    BY DEF Match
  <2>2. PICK i \in DOMAIN bs : Has(bs[i].uids, u)
    BY <2>1 DEF In
  <2>3. PICK k \in DOMAIN bs[i].uids : bs[i].uids[k] = u
    BY <2>2 DEF Has
  <2>4. <<i, k>> \in P /\ Uid(bs, <<i, k>>) = u
    BY <1>2, <2>3 DEF Uid
  <2>. QED BY <2>4
<1> HIDE DEF P
<1> DEFINE f == [p \in P |-> Uid(bs, p)]
<1>6. f \in Injection(P, D) /\ f \in Surjection(P, D)
  <2>1. f \in [P -> D]
    BY <1>3
  <2>2. \A p, q \in P : f[p] = f[q] => p = q
    BY <1>4
  <2>3. \A u \in D : \E p \in P : f[p] = u
    BY <1>5
  <2> HIDE DEF f
  <2>. QED BY <2>1, <2>2, <2>3 DEF Injection, Surjection, IsInjective
<1>7. IsFiniteSet(P) /\ Cardinality(P) = Cardinality(D)
  <2> HIDE DEF f
  <2>. QED BY <1>6, FS_Injection
<1>. QED BY <1>2, <1>3, <1>4, <1>5, <1>7 DEF P

(***************************************************************************)
(* Numbers: the end of a bucket.                                           *)
(***************************************************************************)

\* Division rounds down, to the same number or a greater one for a greater one.
LEMMA RoundedDown ==
    ASSUME NEW a \in Nat, NEW b \in Nat, b > 0
    PROVE  /\ (a \div b) * b \in Nat /\ (a \div b) * b <= a /\ a < (a \div b) * b + b
           /\ \A c \in Nat : a <= c => (a \div b) * b <= (c \div b) * b
<1>1. a \div b \in Nat /\ b * (a \div b) <= a /\ a < b * (a \div b) + b
  OBVIOUS
<1>2. ASSUME NEW c \in Nat, a <= c PROVE (a \div b) * b <= (c \div b) * b
  <2> DEFINE q == a \div b
             r == c \div b
  <2>1. r \in Nat /\ c < b * r + b
    OBVIOUS
  <2>2. q \in Nat /\ b * q < b * r + b
    BY <1>1, <1>2, <2>1
  <2> HIDE DEF q, r
  <2>3. ASSUME q >= r + 1 PROVE FALSE
    <3>1. b * q >= b * (r + 1)
      BY <2>1, <2>2, <2>3
    <3>2. b * (r + 1) = b * r + b
      BY <2>1
    <3>. QED BY <2>1, <2>2, <3>1, <3>2
  <2>4. q <= r
    BY <2>1, <2>2, <2>3
  <2>5. q * b <= r * b
    BY <2>1, <2>2, <2>4
  <2>. QED BY <2>5 DEF q, r
<1> DEFINE q == a \div b
<1>3. q * b = b * q /\ q * b \in Nat
  <2>1. q \in Nat
    BY <1>1
  <2> HIDE DEF q
  <2>. QED BY <2>1
<1>. QED BY <1>1, <1>2, <1>3

LEMMA ExpireLater ==
    ASSUME TimeOK
    PROVE  ExpireTime \in Nat /\ ticked + ExpireSeconds < ExpireTime
<1>1. ExpireSeconds \in Nat /\ BucketSpan \in Nat /\ BucketSpan > 0
  BY ExpiryAssumption DEF ExpiryAssumption
<1>2. ticked + ExpireSeconds \in Nat
  BY <1>1 DEF TimeOK
<1> DEFINE a == ticked + ExpireSeconds
           e == (a \div BucketSpan) * BucketSpan
<1>3. e \in Nat /\ a < e + BucketSpan
  <2> HIDE DEF a
  <2>. QED BY <1>1, <1>2, RoundedDown DEF a
<1>4. ExpireTime = e + BucketSpan
  BY DEF ExpireTime
<1> HIDE DEF e
<1>. QED BY <1>1, <1>2, <1>3, <1>4

LEMMA ExpireGrows ==
    ASSUME TimeOK, TimeOK', ticked <= ticked'
    PROVE  ExpireTime <= ExpireTime' /\ ExpireTime' \in Nat
<1>1. ExpireSeconds \in Nat /\ BucketSpan \in Nat /\ BucketSpan > 0
  BY ExpiryAssumption DEF ExpiryAssumption
<1> DEFINE a == ticked + ExpireSeconds
           c == ticked' + ExpireSeconds
<1>2. a \in Nat /\ c \in Nat /\ a <= c
  <2>1. ticked \in Nat /\ ticked' \in Nat
    BY DEF TimeOK
  <2>2. \A x, y, z \in Nat : x <= y => x + z \in Nat /\ y + z \in Nat /\ x + z <= y + z
    OBVIOUS
  <2>. QED BY <1>1, <2>1, <2>2
<1>3. /\ (a \div BucketSpan) * BucketSpan <= (c \div BucketSpan) * BucketSpan
      /\ (a \div BucketSpan) * BucketSpan \in Nat /\ (c \div BucketSpan) * BucketSpan \in Nat
  <2> HIDE DEF a, c
  <2>. QED BY <1>1, <1>2, RoundedDown
<1>4. /\ ExpireTime = (a \div BucketSpan) * BucketSpan + BucketSpan
      /\ ExpireTime' = (c \div BucketSpan) * BucketSpan + BucketSpan
  BY DEF ExpireTime
<1> HIDE DEF a, c
<1>. QED BY <1>1, <1>3, <1>4

LEMMA BeforeAhead ==
    ASSUME NEW bs, Good(bs), NEW map, Match(map, bs), IsFiniteSet(DOMAIN map),
           NEW p \in Places(bs)
    PROVE  /\ IsFiniteSet(Ahead(bs, p)) /\ Cardinality(Ahead(bs, p)) \in Nat
           /\ \A q \in Places(bs) :
                 /\ Before(p, q) => Cardinality(Ahead(bs, p)) < Cardinality(Ahead(bs, q))
                 /\ p # q => Before(p, q) \/ Before(q, p)
<1>1. /\ IsFiniteSet(Places(bs))
      /\ \A q \in Places(bs) : q[1] \in Nat /\ q[2] \in Nat /\ q = <<q[1], q[2]>>
  BY OnePlaceEach
<1>2. \A q \in Places(bs) : IsFiniteSet(Ahead(bs, q)) /\ Cardinality(Ahead(bs, q)) \in Nat
  BY <1>1, FS_Subset, FS_CardinalityType DEF Ahead
<1>3. ASSUME NEW q \in Places(bs), Before(p, q)
      PROVE  Cardinality(Ahead(bs, p)) < Cardinality(Ahead(bs, q))
  <2>1. Ahead(bs, p) \in SUBSET Ahead(bs, q)
    <3>1. ASSUME NEW r \in Places(bs), Before(r, p) PROVE Before(r, q)
      <4>1. /\ p[1] \in Nat /\ p[2] \in Nat /\ q[1] \in Nat /\ q[2] \in Nat
            /\ r[1] \in Nat /\ r[2] \in Nat
        BY <1>1
      <4>. QED BY <1>3, <3>1, <4>1 DEF Before
    <3>. QED BY <3>1 DEF Ahead
  <2>2. p \in Ahead(bs, q) /\ p \notin Ahead(bs, p)
    BY <1>1, <1>3 DEF Ahead, Before
  <2>3. /\ Cardinality(Ahead(bs, p)) <= Cardinality(Ahead(bs, q))
        /\ Cardinality(Ahead(bs, p)) # Cardinality(Ahead(bs, q))
    BY <1>2, <2>1, <2>2, FS_Subset
  <2>. QED BY <1>2, <2>3
<1>4. ASSUME NEW q \in Places(bs), p # q PROVE Before(p, q) \/ Before(q, p)
  <2>1. p[1] # q[1] \/ p[2] # q[2]
    BY <1>1, <1>4
  <2>. QED BY <1>1, <2>1 DEF Before
<1>. QED BY <1>2, <1>3, <1>4

\* When there are too many, some go, and none of them expires after one that
\* stays; the one whose place is the last stays.
LEMMA VictimsOf ==
    ASSUME NEW bs, Good(bs), NEW map, Match(map, bs), IsFiniteSet(DOMAIN map),
           Cardinality(DOMAIN map) >= MaxCacheCount + CacheSlack
    PROVE  /\ Victims(map, bs) \subseteq DOMAIN map /\ Victims(map, bs) # {}
           /\ \A v \in Victims(map, bs), w \in DOMAIN map \ Victims(map, bs) :
                 map[v].expireTime <= map[w].expireTime
           /\ \A p \in Places(bs) : (\A r \in Places(bs) \ {p} : Before(r, p))
                                    => Uid(bs, p) \notin Victims(map, bs)
<1> DEFINE P == Places(bs)
           D == DOMAIN map
           V == Victims(map, bs)
           n(p) == Cardinality(Ahead(bs, p))
<1>1. /\ MaxCacheCount \in Nat /\ CacheSlack \in Nat /\ EvictBatch \in Nat /\ EvictBatch >= 1
      /\ EvictBatch <= MaxCacheCount + CacheSlack - 1
  BY EvictAssumption DEF EvictAssumption
<1>2. /\ Cardinality(D) \in Nat /\ Cardinality(D) >= MaxCacheCount + CacheSlack
      /\ ~(Cardinality(D) < MaxCacheCount + CacheSlack)
  BY <1>1, FS_CardinalityType
<1>3. V = {Uid(bs, p) : p \in {q \in P : n(q) < EvictBatch}}
  BY <1>2 DEF Victims, Uid, Ahead
<1>4. /\ IsFiniteSet(P) /\ Cardinality(P) = Cardinality(D)
      /\ \A p \in P : /\ Uid(bs, p) \in D /\ map[Uid(bs, p)].expireTime = bs[p[1]].time
                      /\ p[1] \in DOMAIN bs
      /\ \A p, q \in P : Uid(bs, p) = Uid(bs, q) => p = q
      /\ \A u \in D : \E p \in P : Uid(bs, p) = u
  BY OnePlaceEach
<1>5. /\ \A p \in P : n(p) \in Nat
      /\ \A p, q \in P : Before(p, q) => n(p) < n(q)
      /\ \A p, q \in P : p # q => Before(p, q) \/ Before(q, p)
  BY BeforeAhead
<1>6. V \subseteq D
  BY <1>3, <1>4
<1>7. V # {}
  <2> HIDE DEF n
  <2> DEFINE N == {n(p) : p \in P}
  <2>1. P # {}
    BY <1>1, <1>2, <1>4, FS_EmptySet
  <2>2. N \in SUBSET Nat /\ N # {}
    BY <1>5, <2>1
  <2> HIDE DEF N
  <2>3. PICK m \in N : \A k \in N : m <= k
    BY <2>2, Least
  <2>4. PICK p \in P : n(p) = m
    BY DEF N
  <2>5. Ahead(bs, p) = {}
    <3>1. ASSUME NEW r \in P, Before(r, p) PROVE FALSE
      <4>1. n(r) \in N /\ n(r) \in Nat /\ n(p) \in Nat /\ n(r) < n(p)
        BY <1>5, <3>1 DEF N
      <4>. QED BY <2>3, <2>4, <4>1
    <3>. QED BY <3>1 DEF Ahead
  <2>6. n(p) = 0
    BY <2>5, FS_EmptySet DEF n
  <2>. QED BY <1>1, <1>3, <2>6
<1>8. ASSUME NEW v \in V, NEW w \in D \ V PROVE map[v].expireTime <= map[w].expireTime
  <2> HIDE DEF n
  <2>1. PICK p \in P : Uid(bs, p) = v /\ n(p) < EvictBatch
    BY <1>3
  <2>2. PICK q \in P : Uid(bs, q) = w
    BY <1>4
  <2>3. ~(n(q) < EvictBatch)
    BY <1>3, <2>2
  <2>4. ~Before(q, p)
    BY <1>1, <1>5, <2>1, <2>3
  <2>5. p[1] = q[1] \/ p[1] < q[1]
    BY <1>5, <2>4 DEF Before
  <2>6. bs[p[1]].time <= bs[q[1]].time
    BY <1>4, <2>5, BucketsOf DEF Good
  <2>. QED BY <1>4, <2>1, <2>2, <2>6
<1>9. ASSUME NEW p \in P, \A r \in P \ {p} : Before(r, p) PROVE Uid(bs, p) \notin V
  <2>1. Ahead(bs, p) = P \ {p}
    <3>1. ~Before(p, p)
      <4>1. p[1] \in Nat /\ p[2] \in Nat
        BY OnePlaceEach
      <4>. QED BY <4>1 DEF Before
    <3>. QED BY <1>9, <3>1 DEF Ahead
  <2>2. n(p) = Cardinality(D) - 1
    BY <1>4, <2>1, FS_RemoveElement
  <2> HIDE DEF n
  <2>3. ~(n(p) < EvictBatch)
    BY <1>1, <1>2, <2>2
  <2>. QED BY <1>3, <1>4, <2>3
<1>. QED BY <1>6, <1>7, <1>8, <1>9

(***************************************************************************)
(* The operations on the cache.                                            *)
(***************************************************************************)

LEMMA LimitsNat == MaxCacheCount \in Nat /\ CacheSlack \in Nat /\ MaxCacheCount + CacheSlack > 1
<1>1. /\ MaxCacheCount \in Nat /\ CacheSlack \in Nat
      /\ EvictBatch \in 1..(MaxCacheCount + CacheSlack - 1)
  BY EvictAssumption DEF EvictAssumption
<1>. QED BY <1>1

\* A session just added or used.
Used(data) == [data |-> data, expireTime |-> ExpireTime, used |-> now]

LEMMA UsedFits == ASSUME TimeOK, NEW data PROVE Fits(Used(data)) /\ Used(data).expireTime = ExpireTime
<1>1. /\ Used(data).expireTime = ExpireTime /\ Used(data).used = now
  BY DEF Used
<1>2. /\ ExpireTime \in Nat /\ ticked + ExpireSeconds < ExpireTime
      /\ ExpireSeconds \in Nat /\ TickLag \in Nat
  BY ExpireLater, ExpiryAssumption DEF ExpiryAssumption
<1>3. now \in Nat /\ ticked \in Nat /\ now <= ticked + TickLag
  BY DEF TimeOK
<1> HIDE DEF Used
<1>. QED BY <1>1, <1>2, <1>3 DEF Fits

\* What an operation does to the cache, whatever it holds.
MapOf(map) ==
    /\ map = [u \in DOMAIN map |-> map[u]]
    /\ DOMAIN map \subseteq Uids /\ IsFiniteSet(DOMAIN map)
    /\ Cardinality(DOMAIN map) < MaxCacheCount + CacheSlack
CacheOf(map, bs) ==
    MapOf(map) /\ Good(bs) /\ Match(map, bs) /\ UpTo(bs, ExpireTime)

LEMMA CacheOfInv ==
    ASSUME CacheInv
    PROVE  /\ TimeOK /\ CacheOf(sessionMap, sessionExpireMap)
           /\ \A u \in Cached : Fits(sessionMap[u])
BY DEF CacheInv, MapOK, CacheBounded, CacheOf, MapOf, Cached

LEMMA SameTimeStep ==
    ASSUME CacheInv, UNCHANGED timeVars, CacheOf(sessionMap', sessionExpireMap'),
           \A u \in Cached' : \/ u \in Cached /\ sessionMap'[u] = sessionMap[u]
                              \/ \E data : sessionMap'[u] = Used(data)
    PROVE  CacheInv'
<1>1. TimeOK /\ TimeOK' /\ now' = now /\ ticked' = ticked
  BY DEF CacheInv, TimeOK, timeVars
<1>2. ExpireTime' = ExpireTime
  BY <1>1 DEF ExpireTime
<1>3. ASSUME NEW u \in Cached' PROVE Fits(sessionMap[u])'
  <2>1. Fits(sessionMap'[u])
    BY <1>1, UsedFits, CacheOfInv
  <2>. QED BY <1>1, <2>1 DEF Fits
<1>4. MapOK' /\ CacheBounded'
  BY <1>3 DEF MapOK, CacheBounded, CacheOf, MapOf, Cached
<1>5. Good(sessionExpireMap)' /\ Match(sessionMap, sessionExpireMap)'
  BY DEF CacheOf, Good, Match, In, Once, Has
<1>6. UpTo(sessionExpireMap, ExpireTime)'
  BY <1>2 DEF CacheOf, UpTo
<1>. QED BY <1>1, <1>4, <1>5, <1>6 DEF CacheInv

LEMMA AddEffect ==
    ASSUME CacheInv, NEW u \in Uids, NEW data, AddSession(u, data)
    PROVE  /\ CacheOf(sessionMap', sessionExpireMap')
           /\ \A v \in Cached' : IF v = u THEN sessionMap'[v] = Used(data)
                                 ELSE v \in Cached /\ sessionMap'[v] = sessionMap[v]
           /\ u \in Cached'
           /\ \A v \in Cached \ Cached', w \in Cached' :
                 sessionMap[v].expireTime <= sessionMap'[w].expireTime
<1> DEFINE map == [v \in Cached \cup {u} |-> IF v = u THEN Used(data) ELSE sessionMap[v]]
           bs == Placed(sessionExpireMap, ExpireTime, u)
           gone == Victims(map, bs)
           Left(i) == {v \in gone : map[v].expireTime = bs[i].time}
<1>1. /\ u \notin Cached
      /\ sessionMap' = [v \in DOMAIN map \ gone |-> map[v]]
      /\ sessionExpireMap' = [i \in DOMAIN bs |-> [bs[i] EXCEPT !.uids = Without(@, Left(i))]]
  BY DEF AddSession, Used
<1>2. /\ TimeOK /\ Good(sessionExpireMap) /\ Match(sessionMap, sessionExpireMap)
      /\ UpTo(sessionExpireMap, ExpireTime) /\ ExpireTime \in Nat
      /\ Cached \subseteq Uids /\ IsFiniteSet(Cached)
      /\ Cardinality(Cached) < MaxCacheCount + CacheSlack
  BY CacheOfInv, ExpireLater DEF CacheOf, MapOf, Cached
<1>3. /\ DOMAIN map = Cached \cup {u} /\ map[u] = Used(data)
      /\ \A v \in Cached : map[v] = sessionMap[v]
  BY <1>1
<1>4. Used(data).expireTime = ExpireTime
  BY <1>2, UsedFits
<1>5. ~In(sessionExpireMap, ExpireTime, u)
  BY <1>1, <1>2 DEF Match, Cached
<1>6. /\ Good(bs) /\ UpTo(bs, ExpireTime)
      /\ \A x, v : In(bs, x, v) <=> In(sessionExpireMap, x, v) \/ (x = ExpireTime /\ v = u)
      /\ \E i \in DOMAIN bs : /\ bs[i].time = ExpireTime /\ Len(bs[i].uids) > 0
                              /\ bs[i].uids[Len(bs[i].uids)] = u
  BY <1>2, <1>5, PlacedIn
<1> HIDE DEF map, bs
<1>7. Match(map, bs)
  <2>1. ASSUME NEW x, NEW v
        PROVE  In(bs, x, v) <=> v \in DOMAIN map /\ map[v].expireTime = x
    <3>1. CASE v = u
      BY <1>1, <1>2, <1>3, <1>4, <1>6, <3>1 DEF Match, Cached
    <3>2. CASE v # u
      BY <1>1, <1>2, <1>3, <1>4, <1>6, <3>2 DEF Match, Cached
    <3>. QED BY <3>1, <3>2
  <2>. QED BY <2>1 DEF Match
<1>8. IsFiniteSet(DOMAIN map) /\ Cardinality(DOMAIN map) = Cardinality(Cached) + 1
      /\ Cardinality(Cached) \in Nat
  BY <1>1, <1>2, <1>3, FS_AddElement, FS_CardinalityType
<1>9. /\ gone \subseteq DOMAIN map /\ u \notin gone
      /\ \A v \in gone, w \in DOMAIN map \ gone : map[v].expireTime <= map[w].expireTime
      /\ Cardinality(DOMAIN map \ gone) < MaxCacheCount + CacheSlack
  <2>1. CASE Cardinality(DOMAIN map) < MaxCacheCount + CacheSlack
    <3>1. gone = {}
      BY <2>1 DEF Victims
    <3>. QED BY <2>1, <3>1
  <2>2. CASE ~(Cardinality(DOMAIN map) < MaxCacheCount + CacheSlack)
    <3>1. Cardinality(DOMAIN map) >= MaxCacheCount + CacheSlack
      BY <1>8, <2>2, LimitsNat
    <3>2. /\ gone \subseteq DOMAIN map /\ gone # {}
          /\ \A v \in gone, w \in DOMAIN map \ gone : map[v].expireTime <= map[w].expireTime
          /\ \A p \in Places(bs) : (\A r \in Places(bs) \ {p} : Before(r, p))
                                   => Uid(bs, p) \notin gone
      BY <1>6, <1>7, <1>8, <3>1, VictimsOf
    <3> HIDE DEF gone
    <3>3. u \notin gone
      <4>1. PICK i \in DOMAIN bs : /\ bs[i].time = ExpireTime /\ Len(bs[i].uids) > 0
                                   /\ bs[i].uids[Len(bs[i].uids)] = u
        BY <1>6
      <4> DEFINE p == <<i, Len(bs[i].uids)>>
      <4>2. /\ bs[i].uids \in Seq(Uids) /\ i \in Nat
            /\ \A j \in DOMAIN bs : j \in Nat /\ bs[j].time \in Nat /\ bs[j].time <= bs[i].time
            /\ \A j \in DOMAIN bs : j <= i
        <5>1. /\ \A j \in DOMAIN bs : j \in Nat /\ bs[j].time \in Nat /\ bs[j].time <= bs[i].time
              /\ bs[i].uids \in Seq(Uids)
          BY <1>6, <4>1, BucketsOf DEF UpTo
        <5>2. \A j \in DOMAIN bs : ~(i < j)
          BY <1>6, <5>1 DEF Good
        <5>. QED BY <5>1, <5>2
      <4>3. Len(bs[i].uids) \in DOMAIN bs[i].uids /\ DOMAIN bs[i].uids = 1..Len(bs[i].uids)
        BY <4>1, <4>2
      <4>4. p \in Places(bs)
        BY <1>6, <1>7, <1>8, <4>3, OnePlaceEach
      <4>5. ASSUME NEW r \in Places(bs) \ {p} PROVE Before(r, p)
        <5>1. /\ r[1] \in DOMAIN bs /\ r[2] \in DOMAIN bs[r[1]].uids
              /\ r[1] \in Nat /\ r[2] \in Nat /\ r = <<r[1], r[2]>>
          BY <1>6, <1>7, <1>8, <4>5, OnePlaceEach
        <5>2. r[1] <= i /\ (r[1] = i => r[2] <= Len(bs[i].uids) /\ r[2] # Len(bs[i].uids))
          BY <4>2, <4>3, <4>5, <5>1
        <5>. QED BY <4>2, <4>3, <5>1, <5>2 DEF Before
      <4>6. Uid(bs, p) = u
        BY <4>1 DEF Uid
      <4>. QED BY <3>2, <4>4, <4>5, <4>6
    <3>4. Cardinality(DOMAIN map \ gone) < MaxCacheCount + CacheSlack
      <4>1. PICK v : v \in gone
        BY <3>2
      <4>2. DOMAIN map \ gone \in SUBSET (DOMAIN map \ {v})
        BY <4>1
      <4>3. /\ IsFiniteSet(DOMAIN map \ {v})
            /\ Cardinality(DOMAIN map \ {v}) = Cardinality(DOMAIN map) - 1
        BY <1>8, <3>2, <4>1, FS_RemoveElement
      <4>4. Cardinality(DOMAIN map \ gone) <= Cardinality(Cached) /\ IsFiniteSet(DOMAIN map \ gone)
        BY <1>8, <4>2, <4>3, FS_Subset
      <4>5. Cardinality(DOMAIN map \ gone) \in Nat
        BY <4>4, FS_CardinalityType
      <4>. QED BY <1>2, <1>8, <4>4, <4>5, LimitsNat
    <3>. QED BY <3>2, <3>3, <3>4
  <2>. QED BY <2>1, <2>2
<1> HIDE DEF gone
<1>10. /\ Cached' = DOMAIN map \ gone /\ \A v \in Cached' : sessionMap'[v] = map[v]
       /\ sessionMap' = [v \in DOMAIN sessionMap' |-> sessionMap'[v]]
  BY <1>1 DEF Cached
<1>11. IsFiniteSet(Cached') /\ Cached' \subseteq Uids
  BY <1>2, <1>3, <1>8, <1>10, FS_Subset
<1>12. MapOf(sessionMap')
  BY <1>9, <1>10, <1>11 DEF MapOf, Cached
<1> DEFINE cs == sessionExpireMap'
<1>13. /\ DOMAIN cs = DOMAIN bs /\ cs = [i \in DOMAIN bs |-> cs[i]]
       /\ \A i \in DOMAIN bs : cs[i] = [bs[i] EXCEPT !.uids = Without(bs[i].uids, Left(i))]
  <2> HIDE DEF Left
  <2>. QED BY <1>1
<1> HIDE DEF cs
<1>14. ASSUME NEW i \in DOMAIN bs
       PROVE  /\ cs[i] \in Buckets /\ cs[i].time = bs[i].time /\ Once(cs[i].uids)
              /\ \A v : Has(cs[i].uids, v) <=> (v \notin Left(i) /\ Has(bs[i].uids, v))
  <2> DEFINE q == Without(bs[i].uids, Left(i))
  <2>1. bs[i] \in Buckets /\ bs[i].uids \in Seq(Uids) /\ Once(bs[i].uids)
    BY <1>6, BucketsOf DEF Good
  <2> HIDE DEF Left
  <2>2. q \in Seq(Uids) /\ Once(q) /\ \A v : Has(q, v) <=> (v \notin Left(i) /\ Has(bs[i].uids, v))
    BY <2>1, WithoutOnce
  <2>3. cs[i] = [bs[i] EXCEPT !.uids = q]
    BY <1>13
  <2> HIDE DEF q
  <2>4. cs[i] \in Buckets /\ cs[i].time = bs[i].time /\ cs[i].uids = q
    BY <2>1, <2>2, <2>3, OtherUids
  <2>. QED BY <2>2, <2>4
<1>15. Good(cs) /\ UpTo(cs, ExpireTime)
  BY <1>6, <1>13, <1>14, SameTimes
<1>16. ASSUME NEW x, NEW v
       PROVE  In(cs, x, v) <=> v \in Cached' /\ sessionMap'[v].expireTime = x
  <2>1. In(cs, x, v) <=> In(bs, x, v) /\ ~(v \in gone /\ map[v].expireTime = x)
    BY <1>13, <1>14 DEF In
  <2>. QED BY <1>7, <1>10, <2>1 DEF Match
<1>17. Match(sessionMap', cs)
  BY <1>16 DEF Match, Cached
<1>18. CacheOf(sessionMap', sessionExpireMap')
  BY <1>12, <1>15, <1>17 DEF CacheOf, cs
<1>19. ASSUME NEW v \in Cached \ Cached', NEW w \in Cached'
       PROVE  sessionMap[v].expireTime <= sessionMap'[w].expireTime
  BY <1>3, <1>9, <1>10
<1>. QED BY <1>3, <1>9, <1>10, <1>18, <1>19

LEMMA AddStep ==
    ASSUME CacheInv, NEW u \in Uids, NEW data, AddSession(u, data), UNCHANGED timeVars
    PROVE  CacheInv'
<1>1. CacheOf(sessionMap', sessionExpireMap')
  BY AddEffect
<1>2. \A v \in Cached' : \/ v \in Cached /\ sessionMap'[v] = sessionMap[v]
                         \/ \E d : sessionMap'[v] = Used(d)
  BY AddEffect
<1>. QED BY <1>1, <1>2, SameTimeStep

LEMMA UpdateStep ==
    ASSUME CacheInv, NEW u, NEW data, UpdateSession(u, data), UNCHANGED timeVars
    PROVE  CacheInv'
<1> DEFINE old == sessionMap[u].expireTime
           es == Taken(sessionExpireMap, old, u)
           cs == sessionExpireMap'
<1>1. /\ u \in Cached /\ sessionMap' = [sessionMap EXCEPT ![u] = Used(data)]
      /\ cs = IF old = ExpireTime THEN sessionExpireMap ELSE Placed(es, ExpireTime, u)
  BY DEF UpdateSession, Used, Refreshed
<1>2. /\ TimeOK /\ Good(sessionExpireMap) /\ Match(sessionMap, sessionExpireMap)
      /\ UpTo(sessionExpireMap, ExpireTime) /\ ExpireTime \in Nat
      /\ MapOf(sessionMap) /\ Cached \subseteq Uids
  BY CacheOfInv, ExpireLater DEF CacheOf, MapOf, Cached
<1>3. /\ Cached' = Cached /\ DOMAIN sessionMap' = DOMAIN sessionMap /\ DOMAIN sessionMap = Cached
      /\ sessionMap' = [v \in DOMAIN sessionMap' |-> sessionMap'[v]]
      /\ sessionMap'[u] = Used(data) /\ \A v \in Cached \ {u} : sessionMap'[v] = sessionMap[v]
  BY <1>1, <1>2 DEF MapOf, Cached
<1>4. MapOf(sessionMap')
  BY <1>2, <1>3 DEF MapOf
<1>5. Used(data).expireTime = ExpireTime
  BY <1>2, UsedFits
<1>6. /\ Good(cs) /\ UpTo(cs, ExpireTime)
      /\ \A x, v : In(cs, x, v) <=> \/ In(sessionExpireMap, x, v) /\ ~(x = old /\ v = u)
                                    \/ x = ExpireTime /\ v = u
  <2>1. CASE old = ExpireTime
    <3>1. In(sessionExpireMap, ExpireTime, u)
      BY <1>1, <1>2, <2>1 DEF Match, Cached
    <3>. QED BY <1>1, <1>2, <2>1, <3>1
  <2>2. CASE old # ExpireTime
    <3>1. /\ Good(es) /\ UpTo(es, ExpireTime)
          /\ \A x, v : In(es, x, v) <=> In(sessionExpireMap, x, v) /\ ~(x = old /\ v = u)
      BY <1>2, TakenOut
    <3>2. u \in Uids /\ cs = Placed(es, ExpireTime, u)
      BY <1>1, <1>2, <2>2
    <3> HIDE DEF es, cs
    <3>3. /\ Good(cs) /\ UpTo(cs, ExpireTime)
          /\ \A x, v : In(cs, x, v) <=> In(es, x, v) \/ (x = ExpireTime /\ v = u)
      BY <1>2, <3>1, <3>2, PlacedIn
    <3>. QED BY <3>1, <3>3
  <2>. QED BY <2>1, <2>2
<1> HIDE DEF cs
<1>7. Match(sessionMap', cs)
  <2>1. ASSUME NEW x, NEW v
        PROVE  In(cs, x, v) <=> v \in DOMAIN sessionMap' /\ sessionMap'[v].expireTime = x
    <3>1. CASE v = u
      BY <1>1, <1>2, <1>3, <1>5, <1>6, <3>1 DEF Match, Cached
    <3>2. CASE v # u
      BY <1>2, <1>3, <1>6, <3>2 DEF Match
    <3>. QED BY <3>1, <3>2
  <2>. QED BY <2>1 DEF Match
<1>8. CacheOf(sessionMap', sessionExpireMap')
  BY <1>4, <1>6, <1>7 DEF CacheOf, cs
<1>9. \A v \in Cached' : \/ v \in Cached /\ sessionMap'[v] = sessionMap[v]
                         \/ \E d : sessionMap'[v] = Used(d)
  BY <1>3
<1>. QED BY <1>8, <1>9, SameTimeStep

\* Fewer sessions are not too many.
LEMMA FewerOf ==
    ASSUME NEW map, MapOf(map), NEW S
    PROVE  LET f == [v \in DOMAIN map \ S |-> map[v]]
           IN  MapOf(f) /\ DOMAIN f = DOMAIN map \ S /\ \A v \in DOMAIN f : f[v] = map[v]
<1> DEFINE f == [v \in DOMAIN map \ S |-> map[v]]
<1>1. DOMAIN f = DOMAIN map \ S /\ f = [v \in DOMAIN f |-> f[v]] /\ \A v \in DOMAIN f : f[v] = map[v]
  OBVIOUS
<1> HIDE DEF f
<1>2. /\ IsFiniteSet(DOMAIN map) /\ DOMAIN f \in SUBSET DOMAIN map /\ DOMAIN map \subseteq Uids
      /\ Cardinality(DOMAIN map) < MaxCacheCount + CacheSlack
  BY <1>1 DEF MapOf
<1>3. /\ IsFiniteSet(DOMAIN f) /\ Cardinality(DOMAIN f) <= Cardinality(DOMAIN map)
      /\ Cardinality(DOMAIN f) \in Nat /\ Cardinality(DOMAIN map) \in Nat
  BY <1>2, FS_Subset, FS_CardinalityType
<1>4. Cardinality(DOMAIN f) < MaxCacheCount + CacheSlack
  BY <1>2, <1>3, LimitsNat
<1>. QED BY <1>1, <1>2, <1>3, <1>4 DEF MapOf, f

LEMMA DelStep ==
    ASSUME CacheInv, NEW u, DelSession(u), UNCHANGED timeVars
    PROVE  CacheInv'
<1> DEFINE old == sessionMap[u].expireTime
           cs == sessionExpireMap'
<1>1. /\ sessionMap' = [v \in DOMAIN sessionMap \ {u} |-> sessionMap[v]]
      /\ cs = IF u \in Cached THEN Taken(sessionExpireMap, old, u) ELSE sessionExpireMap
  BY DEF DelSession, Cached
<1>2. /\ Good(sessionExpireMap) /\ Match(sessionMap, sessionExpireMap)
      /\ UpTo(sessionExpireMap, ExpireTime) /\ MapOf(sessionMap)
  BY CacheOfInv DEF CacheOf
<1>3. /\ MapOf(sessionMap') /\ DOMAIN sessionMap' = DOMAIN sessionMap \ {u}
      /\ \A v \in DOMAIN sessionMap' : sessionMap'[v] = sessionMap[v]
  BY <1>1, <1>2, FewerOf
<1>4. /\ Good(cs) /\ UpTo(cs, ExpireTime)
      /\ \A x, v : In(cs, x, v) <=> In(sessionExpireMap, x, v) /\ v # u
  <2>1. CASE u \in Cached
    <3>1. /\ Good(cs) /\ UpTo(cs, ExpireTime)
          /\ \A x, v : In(cs, x, v) <=> In(sessionExpireMap, x, v) /\ ~(x = old /\ v = u)
      BY <1>1, <1>2, <2>1, TakenOut
    <3>2. \A x : In(sessionExpireMap, x, u) => x = old
      BY <1>2 DEF Match
    <3>. QED BY <3>1, <3>2
  <2>2. CASE u \notin Cached
    <3>1. \A x : ~In(sessionExpireMap, x, u)
      BY <1>2, <2>2 DEF Match, Cached
    <3>. QED BY <1>1, <1>2, <2>2, <3>1
  <2>. QED BY <2>1, <2>2
<1> HIDE DEF cs
<1>5. Match(sessionMap', cs)
  BY <1>2, <1>3, <1>4 DEF Match
<1>6. CacheOf(sessionMap', sessionExpireMap')
  BY <1>3, <1>4, <1>5 DEF CacheOf, cs
<1>7. \A v \in Cached' : v \in Cached /\ sessionMap'[v] = sessionMap[v]
  BY <1>3 DEF Cached
<1>. QED BY <1>6, <1>7, SameTimeStep

LEMMA ExpireEffect ==
    ASSUME CacheInv, CheckExpire
    PROVE  /\ CacheOf(sessionMap', sessionExpireMap')
           /\ \A u \in Cached' : /\ u \in Cached /\ sessionMap'[u] = sessionMap[u]
                                 /\ now <= sessionMap[u].expireTime
           /\ \A u \in Cached \ Cached' : sessionMap[u].expireTime < now
<1> DEFINE bs == sessionExpireMap
           n == Len(bs)
           due == {i \in DOMAIN bs : Due(i)}
           m == Cardinality(due)
           gone == UNION {ToSet(bs[i].uids) : i \in due}
           cs == sessionExpireMap'
<1>1. /\ cs = SubSeq(bs, m + 1, n)
      /\ sessionMap' = [v \in DOMAIN sessionMap \ gone |-> sessionMap[v]]
  BY DEF CheckExpire, Cached
<1>2. /\ TimeOK /\ Good(bs) /\ Match(sessionMap, bs) /\ UpTo(bs, ExpireTime) /\ MapOf(sessionMap)
      /\ now \in Nat
  BY CacheOfInv DEF CacheOf, TimeOK
<1>3. /\ n \in Nat /\ DOMAIN bs = 1..n /\ bs \in Seq(Buckets)
      /\ \A i \in 1..n : bs[i].time \in Nat /\ bs[i].uids \in Seq(Uids) /\ Once(bs[i].uids)
  BY <1>2, BucketsOf DEF Good
<1>4. m \in 0..n /\ due = 1..m
  <2>1. due \in SUBSET (1..n)
    BY <1>3
  <2>2. \A i \in due : \A j \in 1..i : j \in due
    BY <1>3 DEF Due
  <2> HIDE DEF due, n
  <2>. QED BY <1>3, <2>1, <2>2, NoGap
<1>5. \A i \in due : bs[i].time < now
  BY <1>2, <1>3 DEF Due
<1>6. \A i \in 1..n : i \notin due => now <= bs[i].time
  <2>0. \A i \in 1..n : i \in due <=> Due(i)
    BY <1>3
  <2> HIDE DEF due, m
  <2>1. ASSUME NEW i \in 1..n, i \notin due PROVE now <= bs[i].time
    <3>1. m + 1 \in 1..n /\ m + 1 <= i /\ m + 1 \notin due /\ m \in Nat
      BY <1>3, <1>4, <2>1
    <3>2. ~Due(m + 1)
      BY <2>0, <3>1
    <3>3. PICK j \in 1..m + 1 : ~(now > bs[j].time)
      BY <3>2 DEF Due
    <3>4. j = m + 1
      <4>1. j \notin due
        BY <1>5, <1>2, <1>3, <3>3, <3>1
      <4>. QED BY <1>4, <3>1, <3>3, <4>1
    <3>5. now <= bs[m + 1].time
      BY <1>2, <1>3, <3>1, <3>3, <3>4
    <3>6. i = m + 1 \/ m + 1 < i
      BY <2>1, <3>1
    <3>7. bs[m + 1].time <= bs[i].time
      BY <1>2, <1>3, <2>1, <3>1, <3>6 DEF Good
    <3>. QED BY <1>2, <1>3, <2>1, <3>1, <3>5, <3>7
  <2>. QED BY <2>1
<1>7. ASSUME NEW v
      PROVE  v \in gone <=> \E i \in due : Has(bs[i].uids, v)
  BY <1>3, <1>4, CountOnce
<1>8. /\ cs \in Seq(Buckets) /\ DOMAIN cs = 1..n - m
      /\ \A i \in 1..n - m : cs[i] = bs[m + i] /\ m + i \in 1..n /\ m + i \notin due
      /\ \A i \in 1..n : i \notin due => i - m \in 1..n - m /\ cs[i - m] = bs[i]
  <2> DEFINE k == m
  <2>1. k \in 0..n /\ due = 1..k
    BY <1>4
  <2>2. cs = SubSeq(bs, k + 1, n)
    BY <1>1
  <2> HIDE DEF k, cs, due
  <2>3. /\ cs \in Seq(Buckets) /\ DOMAIN cs = 1..n - k
        /\ \A i \in 1..n - k : cs[i] = bs[k + i] /\ k + i \in 1..n /\ k + i \notin 1..k
    BY <1>3, <2>1, <2>2
  <2>4. \A i \in 1..n : i \notin 1..k => i - k \in 1..n - k /\ k + (i - k) = i
    BY <1>3, <2>1
  <2>. QED BY <2>1, <2>3, <2>4 DEF k
<1> HIDE DEF cs, gone, due, m, n
<1>9. ASSUME NEW x, NEW v
      PROVE  In(cs, x, v) <=> In(bs, x, v) /\ v \notin gone
  <2>1. ASSUME In(cs, x, v) PROVE In(bs, x, v) /\ v \notin gone
    <3>1. PICK i \in 1..n : i \notin due /\ bs[i].time = x /\ Has(bs[i].uids, v)
      BY <1>8, <2>1 DEF In
    <3>2. ASSUME NEW j \in due, Has(bs[j].uids, v) PROVE FALSE
      <4>0. j \in DOMAIN bs
        BY <1>3, <1>4, <3>2
      <4>1. In(bs, bs[j].time, v) /\ In(bs, x, v) /\ j \in DOMAIN bs
        BY <1>3, <3>1, <3>2, <4>0 DEF In
      <4>2. bs[j].time = bs[i].time
        BY <1>2, <3>1, <4>1 DEF Match
      <4>. QED BY <1>2, <1>3, <3>1, <3>2, <4>1, <4>2, BucketsOf
    <3>. QED BY <1>3, <1>7, <3>1, <3>2 DEF In
  <2>2. ASSUME In(bs, x, v), v \notin gone PROVE In(cs, x, v)
    <3>1. PICK i \in 1..n : bs[i].time = x /\ Has(bs[i].uids, v)
      BY <1>3, <2>2 DEF In
    <3>2. i \notin due
      BY <1>7, <2>2, <3>1
    <3>. QED BY <1>8, <3>1, <3>2 DEF In
  <2>. QED BY <2>1, <2>2
<1>10. Good(cs) /\ UpTo(cs, ExpireTime)
  <2>1. ASSUME NEW i \in 1..n - m, NEW j \in 1..n - m, i < j PROVE cs[i].time < cs[j].time
    <3>1. m + i < m + j
      BY <1>3, <1>4, <2>1
    <3>. QED BY <1>2, <1>3, <1>8, <3>1 DEF Good
  <2>2. \A i \in 1..n - m : Once(cs[i].uids) /\ cs[i].time <= ExpireTime
    BY <1>2, <1>3, <1>8 DEF UpTo
  <2>. QED BY <1>8, <2>1, <2>2 DEF Good, UpTo
<1>11. /\ MapOf(sessionMap') /\ DOMAIN sessionMap' = DOMAIN sessionMap \ gone
       /\ \A v \in DOMAIN sessionMap' : sessionMap'[v] = sessionMap[v]
  BY <1>1, <1>2, FewerOf
<1>12. Match(sessionMap', cs)
  BY <1>2, <1>9, <1>11 DEF Match
<1>13. CacheOf(sessionMap', sessionExpireMap')
  BY <1>10, <1>11, <1>12 DEF CacheOf, cs
<1>14. ASSUME NEW u \in Cached
       PROVE  /\ u \in gone => sessionMap[u].expireTime < now
              /\ u \notin gone => now <= sessionMap[u].expireTime
  <2>1. In(bs, sessionMap[u].expireTime, u)
    BY <1>2 DEF Match, Cached
  <2>2. PICK i \in 1..n : bs[i].time = sessionMap[u].expireTime /\ Has(bs[i].uids, u)
    BY <1>3, <2>1 DEF In
  <2>3. CASE u \in gone
    <3>1. PICK j \in due : Has(bs[j].uids, u)
      BY <1>7, <2>3
    <3>2. In(bs, bs[j].time, u)
      BY <1>3, <1>4, <3>1 DEF In
    <3>3. bs[j].time = sessionMap[u].expireTime
      BY <1>2, <3>2 DEF Match
    <3>. QED BY <1>5, <2>3, <3>3
  <2>4. CASE u \notin gone
    <3>1. i \notin due
      BY <1>7, <2>2, <2>4
    <3>. QED BY <1>6, <2>2, <2>4, <3>1
  <2>. QED BY <2>3, <2>4
<1>. QED BY <1>11, <1>13, <1>14 DEF Cached

\* checkExpire leaves nothing due, and takes nothing that was used of late.
LEMMA ExpireStep ==
    ASSUME CacheInv, CheckExpire
    PROVE  CacheInv' /\ \A u \in Cached \ Cached' : now - sessionMap[u].used >= ExpireSeconds
<1>1. /\ TimeOK /\ now' = now /\ ticked' = now /\ TickLag \in 1..2 /\ ExpireSeconds \in Nat
      /\ now \in Nat /\ ticked \in Nat /\ ticked <= now /\ now <= now + TickLag
  BY ExpiryAssumption DEF CacheInv, TimeOK, CheckExpire, ExpiryAssumption
<1>2. TimeOK'
  BY <1>1 DEF TimeOK
<1>3. /\ CacheOf(sessionMap', sessionExpireMap')
      /\ \A u \in Cached' : /\ u \in Cached /\ sessionMap'[u] = sessionMap[u]
                            /\ now <= sessionMap[u].expireTime
      /\ \A u \in Cached \ Cached' : sessionMap[u].expireTime < now
  BY ExpireEffect
<1>4. ASSUME NEW u \in Cached' PROVE Fits(sessionMap[u])'
  <2>1. Fits(sessionMap[u]) /\ sessionMap'[u] = sessionMap[u] /\ now <= sessionMap[u].expireTime
    BY <1>3, <1>4, CacheOfInv
  <2>. QED BY <1>1, <2>1 DEF Fits
<1>5. MapOK' /\ CacheBounded'
  BY <1>3, <1>4 DEF MapOK, CacheBounded, CacheOf, MapOf, Cached
<1>6. Good(sessionExpireMap)' /\ Match(sessionMap, sessionExpireMap)'
  BY <1>3 DEF CacheOf, Good, Match, In, Once, Has
<1>7. UpTo(sessionExpireMap, ExpireTime)'
  <2>1. ExpireTime <= ExpireTime' /\ ExpireTime \in Nat /\ ExpireTime' \in Nat
    BY <1>1, <1>2, ExpireLater, ExpireGrows
  <2>2. \A i \in DOMAIN sessionExpireMap' : /\ sessionExpireMap'[i].time \in Nat
                                            /\ sessionExpireMap'[i].time <= ExpireTime
    BY <1>3, BucketsOf DEF CacheOf, UpTo
  <2>. QED BY <2>1, <2>2 DEF UpTo
<1>8. ASSUME NEW u \in Cached \ Cached' PROVE now - sessionMap[u].used >= ExpireSeconds
  <2>1. Fits(sessionMap[u]) /\ sessionMap[u].expireTime < now
    BY <1>3, CacheOfInv
  <2>. QED BY <1>1, <2>1 DEF Fits
<1>. QED BY <1>2, <1>5, <1>6, <1>7, <1>8 DEF CacheInv

LEMMA ClockStep == ASSUME CacheInv, Clock PROVE CacheInv'
<1>1. /\ now - ticked < TickLag /\ now' = now + 1 /\ ticked' = ticked /\ TickLag \in 1..2
      /\ sessionMap' = sessionMap /\ sessionExpireMap' = sessionExpireMap
      /\ now \in Nat /\ ticked \in Nat /\ ticked <= now
  BY ExpiryAssumption DEF Clock, mapVars, CacheInv, TimeOK, ExpiryAssumption
<1>2. TimeOK'
  BY <1>1 DEF TimeOK
<1>3. ASSUME NEW u \in Cached' PROVE Fits(sessionMap[u])'
  <2>1. Fits(sessionMap[u])
    BY <1>1 DEF CacheInv, MapOK, Cached
  <2>. QED BY <1>1, <2>1 DEF Fits
<1>4. MapOK' /\ CacheBounded'
  BY <1>1, <1>3 DEF CacheInv, MapOK, CacheBounded, Cached
<1>5. Good(sessionExpireMap)' /\ Match(sessionMap, sessionExpireMap)'
  BY <1>1 DEF CacheInv, Good, Match, In
<1>6. UpTo(sessionExpireMap, ExpireTime)'
  BY <1>1 DEF CacheInv, UpTo, ExpireTime
<1>. QED BY <1>2, <1>4, <1>5, <1>6 DEF CacheInv

LEMMA CacheStutter == ASSUME CacheInv, UNCHANGED cacheVars PROVE CacheInv'
<1>1. UNCHANGED <<now, ticked, sessionMap, sessionExpireMap>>
  BY DEF cacheVars, timeVars, mapVars
<1>. QED BY <1>1 DEF CacheInv, TimeOK, MapOK, Fits, Cached, Good, Match, In, UpTo, ExpireTime,
     CacheBounded

LEMMA CacheInitInv == CacheInit => CacheInv
<1> SUFFICES ASSUME CacheInit PROVE CacheInv
  OBVIOUS
<1>1. /\ now = 0 /\ ticked = 0 /\ sessionMap = <<>> /\ sessionExpireMap = <<>>
      /\ DOMAIN sessionMap = {} /\ DOMAIN sessionExpireMap = {} /\ Cached = {}
  BY DEF CacheInit, Cached
<1>2. TimeOK
  BY <1>1, ExpiryAssumption DEF TimeOK, ExpiryAssumption
<1>3. MapOK /\ CacheBounded
  <2>1. IsFiniteSet({}) /\ Cardinality({}) = 0
    BY FS_EmptySet
  <2>2. sessionMap = [u \in {} |-> sessionMap[u]]
    BY <1>1
  <2>. QED BY <1>1, <2>1, <2>2, LimitsNat DEF MapOK, CacheBounded
<1>4. Good(sessionExpireMap) /\ UpTo(sessionExpireMap, ExpireTime)
  BY <1>1 DEF Good, UpTo
<1>5. Match(sessionMap, sessionExpireMap)
  BY <1>1 DEF Match, In
<1>. QED BY <1>2, <1>3, <1>4, <1>5 DEF CacheInv

LEMMA CacheNextInv == ASSUME CacheInv, [CacheNext]_cacheVars PROVE CacheInv'
<1>1. ASSUME NEW u \in Uids, NEW data \in Data, AddSession(u, data), UNCHANGED timeVars
      PROVE  CacheInv'
  BY <1>1, AddStep
<1>2. ASSUME NEW u \in Uids, NEW data \in Data, UpdateSession(u, data), UNCHANGED timeVars
      PROVE  CacheInv'
  BY <1>2, UpdateStep
<1>3. ASSUME NEW u \in Uids, DelSession(u), UNCHANGED timeVars PROVE CacheInv'
  BY <1>3, DelStep
<1>4. CASE CheckExpire
  BY <1>4, ExpireStep
<1>5. CASE Clock
  BY <1>5, ClockStep
<1>6. CASE UNCHANGED cacheVars
  BY <1>6, CacheStutter
<1>. QED BY <1>1, <1>2, <1>3, <1>4, <1>5, <1>6 DEF CacheNext

(***************************************************************************)
(* The theorems about the cache.                                           *)
(***************************************************************************)

\* Buckets, map, clock and limits agree, always.
THEOREM CacheInvariance == CacheSpec => []CacheInv
<1>1. ExpiryAssumption /\ EvictAssumption
  BY ExpiryAssumption, EvictAssumption
<1>. QED BY <1>1, CacheInitInv, CacheNextInv, PTL DEF CacheSpec

LEMMA InvBuckets == CacheInv => BucketsMatch
<1> SUFFICES ASSUME CacheInv PROVE BucketsMatch
  OBVIOUS
<1> DEFINE bs == sessionExpireMap
<1>1. Good(bs) /\ Match(sessionMap, bs)
  BY DEF CacheInv
<1>2. /\ \A i \in DOMAIN bs : bs[i].uids \in Seq(Uids) /\ Once(bs[i].uids)
      /\ \A i, j \in DOMAIN bs : bs[i].time = bs[j].time => i = j
  BY <1>1, BucketsOf DEF Good
<1>3. ASSUME NEW i \in DOMAIN bs
      PROVE  /\ ToSet(bs[i].uids) = {u \in Cached : sessionMap[u].expireTime = bs[i].time}
             /\ Cardinality(ToSet(bs[i].uids)) = Len(bs[i].uids)
  <2>1. \A u : Has(bs[i].uids, u) <=> u \in Cached /\ sessionMap[u].expireTime = bs[i].time
    <3>1. \A u : Has(bs[i].uids, u) <=> In(bs, bs[i].time, u)
      BY <1>2 DEF In
    <3>. QED BY <1>1, <3>1 DEF Match, Cached
  <2>2. /\ Cardinality(ToSet(bs[i].uids)) = Len(bs[i].uids)
        /\ \A x : x \in ToSet(bs[i].uids) <=> Has(bs[i].uids, x)
    BY <1>2, CountOnce
  <2>. QED BY <2>1, <2>2
<1>4. ASSUME NEW u \in Cached
      PROVE  \E i \in DOMAIN bs : bs[i].time = sessionMap[u].expireTime
  BY <1>1 DEF Match, In, Cached
<1>. QED BY <1>1, <1>3, <1>4 DEF BucketsMatch, Good

\* Every cached session is in the bucket of its expireTime, once, and in no
\* other, through every add, update, delete, eviction and expiry
\* (backendServer.ts addSession, updateSession, delSession, checkExpire,
\* checkCacheTooMuch).
THEOREM EveryBucketMatches == CacheSpec => []BucketsMatch
BY CacheInvariance, InvBuckets, PTL

\* There are never more than maxCacheCount + 200 sessions.
THEOREM CacheStaysBounded == CacheSpec => []CacheBounded
<1>1. CacheInv => CacheBounded
  BY DEF CacheInv
<1>. QED BY <1>1, CacheInvariance, PTL

\* checkExpire, which stops at the first bucket that is not due, misses no
\* session that was due.
THEOREM NothingIsOverdue == CacheSpec => []NothingOverdue
<1>1. CacheInv => NothingOverdue
  <2> SUFFICES ASSUME CacheInv, NEW u \in Cached PROVE sessionMap[u].expireTime >= ticked
    BY DEF NothingOverdue
  <2>1. Fits(sessionMap[u]) /\ ticked \in Nat
    BY DEF CacheInv, MapOK, TimeOK
  <2>. QED BY <2>1 DEF Fits
<1>. QED BY <1>1, CacheInvariance, PTL

\* What a step that adds a session gives up, and what one that expires them.
GivesUpOldest ==
    \A u \in Uids, data \in Data : AddSession(u, data) =>
       /\ u \in Cached'
       /\ \A v \in Cached \ Cached', w \in Cached' :
             sessionMap[v].expireTime <= sessionMap'[w].expireTime
ExpiresUnused ==
    CheckExpire => \A u \in Cached \ Cached' : now - sessionMap[u].used >= ExpireSeconds

\* A session that is added stays, and those given up for it expire first
\* (checkCacheTooMuch takes the buckets in the order of their insertion).
THEOREM OldestAreEvicted == CacheSpec => EvictsOldest
<1>1. CacheInv => GivesUpOldest
  BY AddEffect DEF GivesUpOldest
<1>2. CacheInv /\ [CacheNext]_cacheVars => [GivesUpOldest]_cacheVars
  BY <1>1
<1>3. [][GivesUpOldest]_cacheVars <=> EvictsOldest
  BY DEF GivesUpOldest, EvictsOldest
<1>. QED BY <1>2, <1>3, CacheInvariance, PTL DEF CacheSpec

\* A session is kept for expireSeconds after its last use, however the use, the
\* bucket and a late timer fall (checkExpire).
THEOREM UsedAreKept == CacheSpec => KeptWhileUsed
<1>1. CacheInv => ExpiresUnused
  BY ExpireStep DEF ExpiresUnused
<1>2. CacheInv /\ [CacheNext]_cacheVars => [ExpiresUnused]_cacheVars
  BY <1>1
<1>3. [][ExpiresUnused]_cacheVars <=> KeptWhileUsed
  BY DEF ExpiresUnused, KeptWhileUsed
<1>. QED BY <1>2, <1>3, CacheInvariance, PTL DEF CacheSpec

(***************************************************************************)
(* SessionSync: types.                                                     *)
(***************************************************************************)

Sessions == [version : Nat, login : Nat, gen : Nat]
BackCopies == [sid : Fronts, version : Nat, login : Nat, gen : Nat]
Msgs == [n : Nat, uid : Uids, from : Fronts, session : Sessions]
Replies == [call : Nat, info : Sessions]
Calls == [call : Nat, uid : Uids]
Served == [call : Nat, uid : Uids, info : Sessions]
Loads == [call : Nat, uid : Uids, sid : Fronts]
Hows == {"cached", "noNeed", "fetched", "joined"}
LoadTasks == [load : Loads, info : Sessions]
WakeTasks == [woken : Uids]
ResumeTasks == [resume : Msgs, how : Hows, with : Seq(BackCopies)]
Tasks == LoadTasks \cup WakeTasks \cup ResumeTasks

ClientsOK ==
    /\ clients \in [Fronts -> MapsOf(Uids, Sessions)]
    /\ logins \in [Fronts -> [Uids -> Nat]]
WiresOK ==
    /\ serving \in [Fronts -> Seq(Served)] /\ \A f \in Fronts : Len(serving[f]) <= 1
    /\ chan \in [Fronts -> Seq(Msgs \cup Replies)]
    /\ asks \in [Fronts -> Seq(Calls)]
    /\ sent \in Nat
BackOK ==
    /\ chunk \in Seq(Msgs \cup Replies) /\ micro \in Seq(Tasks)
    /\ loads \subseteq Loads /\ IsFiniteSet(loads) /\ calls \in Nat
    /\ waiting \in MapsOf(Uids, Seq(Msgs))
DataOK ==
    /\ needSession \in BOOLEAN
    /\ \A u \in Cached : sessionMap[u].data \in BackCopies
    /\ handled \in Seq([msg : Msgs, how : Hows, with : BackCopies])
SyncTypes == CacheInv /\ ClientsOK /\ WiresOK /\ BackOK /\ DataOK

\* What the items of a read, and tasks, are told apart by.
LEMMA ItemKinds ==
    /\ \A x \in Msgs : ~IsReply(x) /\ x \notin Replies
    /\ \A x \in Replies : IsReply(x) /\ x \notin Msgs
<1>1. /\ \A x \in Msgs : DOMAIN x = {"n", "uid", "from", "session"}
      /\ \A x \in Replies : DOMAIN x = {"call", "info"}
  BY DEF Msgs, Replies
<1>2. /\ "call" \notin {"n", "uid", "from", "session"} /\ "call" \in {"call", "info"}
  OBVIOUS
<1>. QED BY <1>1, <1>2 DEF IsReply

LEMMA TaskKinds ==
    /\ \A t \in LoadTasks : /\ "load" \in DOMAIN t /\ "woken" \notin DOMAIN t
                            /\ "resume" \notin DOMAIN t
                            /\ t.load \in Loads /\ t.info \in Sessions
    /\ \A t \in WakeTasks : /\ "load" \notin DOMAIN t /\ "woken" \in DOMAIN t
                            /\ "resume" \notin DOMAIN t /\ t.woken \in Uids
    /\ \A t \in ResumeTasks : /\ "load" \notin DOMAIN t /\ "woken" \notin DOMAIN t
                              /\ "resume" \in DOMAIN t
                              /\ t.resume \in Msgs /\ t.how \in Hows /\ t.with \in Seq(BackCopies)
<1>1. /\ \A t \in LoadTasks : DOMAIN t = {"load", "info"} /\ t.load \in Loads /\ t.info \in Sessions
      /\ \A t \in WakeTasks : DOMAIN t = {"woken"} /\ t.woken \in Uids
      /\ \A t \in ResumeTasks : /\ DOMAIN t = {"resume", "how", "with"}
                                /\ t.resume \in Msgs /\ t.how \in Hows /\ t.with \in Seq(BackCopies)
  BY DEF LoadTasks, WakeTasks, ResumeTasks
<1>. QED BY <1>1

LEMMA MsgFields ==
    ASSUME NEW m \in Msgs
    PROVE  m.n \in Nat /\ m.uid \in Uids /\ m.from \in Fronts /\ m.session \in Sessions
BY DEF Msgs

LEMMA SessionFields ==
    ASSUME NEW s \in Sessions
    PROVE  /\ s.version \in Nat /\ s.login \in Nat /\ s.gen \in Nat
           /\ \A f \in Fronts : /\ CopyOf(f, s) \in BackCopies
                                /\ CopyOf(f, s) = [sid |-> f, version |-> s.version,
                                                   login |-> s.login, gen |-> s.gen]
BY DEF Sessions, BackCopies, CopyOf

LEMMA CopyFields ==
    ASSUME NEW s \in BackCopies
    PROVE  s.sid \in Fronts /\ s.version \in Nat /\ s.login \in Nat /\ s.gen \in Nat
BY DEF BackCopies

LEMMA NoneIsSession == NoSession \in Sessions
BY DEF NoSession, Sessions

LEMMA VersionNat == VersionMax \in Nat /\ \A v \in Nat : VersionAfter(v) \in Nat
BY SyncAssumption DEF SyncAssumption, VersionAfter

(***************************************************************************)
(* SessionSync: what an action does to the cache.                          *)
(***************************************************************************)

\* A step of the cache that puts only proper copies in it.
LEMMA CacheKept ==
    ASSUME SyncTypes, UNCHANGED cacheVars
    PROVE  CacheInv' /\ \A u \in Cached' : sessionMap'[u].data \in BackCopies
<1>1. CacheInv'
  BY CacheStutter DEF SyncTypes
<1>2. sessionMap' = sessionMap
  BY DEF cacheVars, mapVars
<1>. QED BY <1>1, <1>2 DEF SyncTypes, DataOK, Cached

LEMMA CopyUpdated ==
    ASSUME SyncTypes, NEW u \in Uids, NEW copy \in BackCopies, UpdateSession(u, copy),
           UNCHANGED timeVars
    PROVE  CacheInv' /\ \A v \in Cached' : sessionMap'[v].data \in BackCopies
<1>1. CacheInv'
  BY UpdateStep DEF SyncTypes
<1>2. /\ Cached' = Cached
      /\ \A v \in Cached : sessionMap'[v].data = IF v = u THEN copy ELSE sessionMap[v].data
  <2>1. sessionMap' = [sessionMap EXCEPT ![u] = [data |-> copy, expireTime |-> ExpireTime, used |-> now]]
    BY DEF UpdateSession
  <2>2. sessionMap = [v \in Cached |-> sessionMap[v]]
    BY DEF SyncTypes, CacheInv, MapOK
  <2>. QED BY <2>1, <2>2 DEF Cached
<1>. QED BY <1>1, <1>2 DEF SyncTypes, DataOK

LEMMA CopyAdded ==
    ASSUME SyncTypes, NEW u \in Uids, NEW copy \in BackCopies, AddSession(u, copy),
           UNCHANGED timeVars
    PROVE  CacheInv' /\ \A v \in Cached' : sessionMap'[v].data \in BackCopies
<1>1. CacheInv'
  BY AddStep DEF SyncTypes
<1>2. \A v \in Cached' : IF v = u THEN sessionMap'[v] = Used(copy)
                         ELSE v \in Cached /\ sessionMap'[v] = sessionMap[v]
  BY AddEffect DEF SyncTypes
<1>3. Used(copy).data = copy
  BY DEF Used
<1>. QED BY <1>1, <1>2, <1>3 DEF SyncTypes, DataOK

LEMMA CopyDeleted ==
    ASSUME SyncTypes, NEW u, DelSession(u), UNCHANGED timeVars
    PROVE  CacheInv' /\ \A v \in Cached' : sessionMap'[v].data \in BackCopies
<1>1. CacheInv'
  BY DelStep DEF SyncTypes
<1>2. sessionMap' = [v \in Cached \ {u} |-> sessionMap[v]]
  BY DEF DelSession
<1>. QED BY <1>1, <1>2 DEF SyncTypes, DataOK, Cached

LEMMA CopiesExpire ==
    ASSUME SyncTypes, CheckExpire
    PROVE  CacheInv' /\ \A v \in Cached' : sessionMap'[v].data \in BackCopies
<1>1. CacheInv'
  BY ExpireStep DEF SyncTypes
<1>2. \A v \in Cached' : v \in Cached /\ sessionMap'[v] = sessionMap[v]
  BY ExpireEffect DEF SyncTypes
<1>. QED BY <1>1, <1>2 DEF SyncTypes, DataOK

LEMMA CopiesAge ==
    ASSUME SyncTypes, Clock
    PROVE  CacheInv' /\ \A v \in Cached' : sessionMap'[v].data \in BackCopies
<1>1. CacheInv'
  BY ClockStep DEF SyncTypes
<1>2. sessionMap' = sessionMap
  BY DEF Clock, mapVars
<1>. QED BY <1>1, <1>2 DEF SyncTypes, DataOK, Cached

(***************************************************************************)
(* SessionSync: each action keeps the types.                               *)
(***************************************************************************)

LEMMA SameClients == ASSUME SyncTypes, UNCHANGED frontVars PROVE ClientsOK'
BY DEF SyncTypes, ClientsOK, frontVars

LEMMA SameWires == ASSUME SyncTypes, UNCHANGED serving, UNCHANGED linkVars PROVE WiresOK'
BY DEF SyncTypes, WiresOK, linkVars

LEMMA SameBack == ASSUME SyncTypes, UNCHANGED backVars PROVE BackOK'
BY DEF SyncTypes, BackOK, backVars

LEMMA SameData ==
    ASSUME SyncTypes, CacheInv' /\ \A u \in Cached' : sessionMap'[u].data \in BackCopies,
           UNCHANGED needSession, UNCHANGED handled
    PROVE  DataOK'
BY DEF SyncTypes, DataOK

\* What a front end has of its clients, and what a login, a logout and a change
\* of the settings make of it.
LEMMA ClientsOf ==
    ASSUME SyncTypes, NEW f \in Fronts
    PROVE  /\ clients[f] \in MapsOf(Uids, Sessions)
           /\ DOMAIN clients[f] \subseteq Uids
           /\ \A u \in DOMAIN clients[f] : clients[f][u] \in Sessions
           /\ \A u \in Uids : logins[f][u] \in Nat
           /\ DOMAIN clients = Fronts /\ DOMAIN logins = Fronts
<1>1. clients \in [Fronts -> MapsOf(Uids, Sessions)] /\ logins \in [Fronts -> [Uids -> Nat]]
  BY DEF SyncTypes, ClientsOK
<1>2. clients[f] \in MapsOf(Uids, Sessions)
  BY <1>1
<1>. QED BY <1>1, <1>2, MapElim

LEMMA LoginTypes ==
    ASSUME SyncTypes, NEW f \in Fronts, NEW u \in Uids, Login(f, u)
    PROVE  SyncTypes'
<1> DEFINE s == [version |-> 1, login |-> logins'[f][u], gen |-> 0]
           c == [v \in DOMAIN clients[f] \cup {u} |-> IF v = u THEN s ELSE clients[f][v]]
<1>1. logins' = [logins EXCEPT ![f][u] = @ + 1] /\ clients' = [clients EXCEPT ![f] = c]
  BY DEF Login
<1>2. logins' \in [Fronts -> [Uids -> Nat]]
  BY <1>1, ClientsOf DEF SyncTypes, ClientsOK
<1>3. s \in Sessions
  <2>1. logins'[f][u] \in Nat
    BY <1>2
  <2>. QED BY <2>1 DEF Sessions
<1> HIDE DEF s
<1>4. c \in [DOMAIN clients[f] \cup {u} -> Sessions] /\ DOMAIN clients[f] \cup {u} \subseteq Uids
  BY <1>3, ClientsOf
<1> HIDE DEF c
<1>5. c \in MapsOf(Uids, Sessions)
  BY <1>4, MapIntro
<1>6. ClientsOK'
  BY <1>1, <1>2, <1>5 DEF SyncTypes, ClientsOK
<1>7. /\ UNCHANGED cacheVars /\ UNCHANGED needSession /\ UNCHANGED serving
      /\ UNCHANGED linkVars /\ UNCHANGED backVars /\ UNCHANGED handled
  BY DEF Login
<1>. QED BY <1>6, <1>7, CacheKept, SameWires, SameBack, SameData DEF SyncTypes

LEMMA LogoutTypes ==
    ASSUME SyncTypes, NEW f \in Fronts, NEW u \in Uids, Logout(f, u)
    PROVE  SyncTypes'
<1> DEFINE c == [v \in DOMAIN clients[f] \ {u} |-> clients[f][v]]
<1>1. logins' = logins /\ clients' = [clients EXCEPT ![f] = c]
  BY DEF Logout
<1>2. c \in [DOMAIN clients[f] \ {u} -> Sessions] /\ DOMAIN clients[f] \ {u} \subseteq Uids
  BY ClientsOf
<1> HIDE DEF c
<1>3. c \in MapsOf(Uids, Sessions)
  BY <1>2, MapIntro
<1>4. ClientsOK'
  BY <1>1, <1>3 DEF SyncTypes, ClientsOK
<1>5. /\ UNCHANGED cacheVars /\ UNCHANGED needSession /\ UNCHANGED serving
      /\ UNCHANGED linkVars /\ UNCHANGED backVars /\ UNCHANGED handled
  BY DEF Logout
<1>. QED BY <1>4, <1>5, CacheKept, SameWires, SameBack, SameData DEF SyncTypes

\* A session after a change of its settings, and a getSession being served.
Changed(s) == [s EXCEPT !.version = VersionAfter(@), !.gen = @ + 1]
Later(x) == [x EXCEPT !.info.gen = @ + 1]

LEMMA ChangedFields ==
    ASSUME NEW s \in Sessions
    PROVE  /\ Changed(s) \in Sessions
           /\ Changed(s).version = VersionAfter(s.version)
           /\ Changed(s).login = s.login /\ Changed(s).gen = s.gen + 1
<1>1. s.version \in Nat /\ s.login \in Nat /\ s.gen \in Nat /\ VersionAfter(s.version) \in Nat
  BY SessionFields, VersionNat
<1> DEFINE r == [s EXCEPT !.version = VersionAfter(s.version)]
<1>2. /\ r \in Sessions /\ r.version = VersionAfter(s.version)
      /\ r.login = s.login /\ r.gen = s.gen
  BY <1>1 DEF Sessions
<1>3. Changed(s) = [r EXCEPT !.gen = r.gen + 1]
  BY <1>2 DEF Changed
<1> HIDE DEF r
<1>4. r.gen + 1 \in Nat
  BY <1>1, <1>2
<1>5. LET n == [r EXCEPT !.gen = r.gen + 1]
      IN  n \in Sessions /\ n.version = r.version /\ n.login = r.login /\ n.gen = r.gen + 1
  BY <1>2, <1>4 DEF Sessions
<1>. QED BY <1>2, <1>3, <1>5

LEMMA LaterFields ==
    ASSUME NEW x \in Served
    PROVE  /\ x.call \in Nat /\ x.uid \in Uids /\ x.info \in Sessions
           /\ Later(x) \in Served /\ Later(x).call = x.call /\ Later(x).uid = x.uid
           /\ Later(x).info.version = x.info.version /\ Later(x).info.login = x.info.login
           /\ Later(x).info.gen = x.info.gen + 1
<1>1. x.call \in Nat /\ x.uid \in Uids /\ x.info \in Sessions
  BY DEF Served
<1> DEFINE i == [x.info EXCEPT !.gen = @ + 1]
<1>2. i \in Sessions /\ i.version = x.info.version /\ i.login = x.info.login /\ i.gen = x.info.gen + 1
  BY <1>1 DEF Sessions
<1>3. Later(x) = [x EXCEPT !.info = i]
  BY DEF Later, Served
<1> HIDE DEF i
<1>. QED BY <1>1, <1>2, <1>3 DEF Served

\* A sequence of one element.
LEMMA OneOrNone ==
    ASSUME NEW S, NEW s \in Seq(S), Len(s) <= 1, s # <<>>
    PROVE  Len(s) = 1 /\ DOMAIN s = {1} /\ s = <<s[1]>> /\ s[1] \in S
<1>1. Len(s) = 1 /\ DOMAIN s = 1..Len(s)
  <2>1. Len(s) \in Nat /\ DOMAIN s = 1..Len(s)
    OBVIOUS
  <2>2. Len(s) # 0
    BY EmptySeq
  <2>. QED BY <2>1, <2>2
<1>2. DOMAIN s = {1} /\ s[1] \in S
  BY <1>1
<1>. QED BY <1>1, <1>2

LEMMA SetEffect ==
    ASSUME SyncTypes, NEW f \in Fronts, NEW u \in Uids, Set(f, u)
    PROVE  /\ u \in DOMAIN clients[f] /\ Changed(clients[f][u]) \in Sessions
           /\ clients' = [clients EXCEPT ![f] =
                 [v \in DOMAIN clients[f] |->
                     IF v = u THEN Changed(clients[f][u]) ELSE clients[f][v]]]
<1> DEFINE c == clients[f]
           s == c[u]
<1>1. u \in DOMAIN c /\ s \in Sessions /\ c \in [DOMAIN c -> Sessions] /\ DOMAIN clients = Fronts
  BY ClientsOf, MapElim DEF Set
<1>2. clients' = [clients EXCEPT ![f][u].version = VersionAfter(@), ![f][u].gen = @ + 1]
  BY DEF Set
<1>3. [s EXCEPT !.version = VersionAfter(@), !.gen = @ + 1] = Changed(s)
  BY DEF Changed
<1>4. clients' = [clients EXCEPT ![f] = [c EXCEPT ![u] =
                     [s EXCEPT !.version = VersionAfter(@), !.gen = @ + 1]]]
  BY <1>1, <1>2
<1>5. [c EXCEPT ![u] = Changed(s)] = [v \in DOMAIN c |-> IF v = u THEN Changed(s) ELSE c[v]]
  BY <1>1
<1>6. Changed(s) \in Sessions
  BY <1>1, ChangedFields
<1>. QED BY <1>1, <1>3, <1>4, <1>5, <1>6

LEMMA SetServing ==
    ASSUME SyncTypes, NEW f \in Fronts, NEW u \in Uids, Set(f, u)
    PROVE  \/ serving' = serving
           \/ /\ serving[f] # <<>> /\ serving[f][1] \in Served
              /\ serving[f][1].uid = u /\ serving[f][1].info.login = clients[f][u].login
              /\ Later(serving[f][1]) \in Served
              /\ serving' = [serving EXCEPT ![f] = <<Later(serving[f][1])>>]
<1> DEFINE s == serving[f]
<1>1. SUFFICES ASSUME s # <<>>, s[1].uid = u, s[1].info.login = clients[f][u].login,
                      serving' = [serving EXCEPT ![f][1].info.gen = @ + 1]
               PROVE  /\ s[1] \in Served /\ Later(s[1]) \in Served
                      /\ serving' = [serving EXCEPT ![f] = <<Later(s[1])>>]
  BY DEF Set
<1>2. serving \in [Fronts -> Seq(Served)] /\ s \in Seq(Served) /\ Len(s) <= 1
  BY DEF SyncTypes, WiresOK
<1>3. Len(s) = 1 /\ DOMAIN s = {1} /\ s = <<s[1]>> /\ s[1] \in Served
  BY <1>1, <1>2, OneOrNone
<1>4. serving' = [serving EXCEPT ![f] = [s EXCEPT ![1] = [s[1] EXCEPT !.info.gen = @ + 1]]]
  BY <1>1, <1>2
<1>5. [s[1] EXCEPT !.info.gen = @ + 1] = Later(s[1])
  BY DEF Later
<1>6. [s EXCEPT ![1] = Later(s[1])] = <<Later(s[1])>>
  BY <1>3
<1>7. Later(s[1]) \in Served
  BY <1>3, LaterFields
<1>. QED BY <1>3, <1>4, <1>5, <1>6, <1>7

LEMMA SetTypes ==
    ASSUME SyncTypes, NEW f \in Fronts, NEW u \in Uids, Set(f, u)
    PROVE  SyncTypes'
<1> DEFINE c == [v \in DOMAIN clients[f] |->
                     IF v = u THEN Changed(clients[f][u]) ELSE clients[f][v]]
<1>1. clients' = [clients EXCEPT ![f] = c] /\ Changed(clients[f][u]) \in Sessions
  BY SetEffect
<1>2. c \in [DOMAIN clients[f] -> Sessions] /\ DOMAIN clients[f] \subseteq Uids
  BY <1>1, ClientsOf
<1> HIDE DEF c
<1>3. c \in MapsOf(Uids, Sessions)
  BY <1>2, MapIntro
<1>4. ClientsOK'
  BY <1>1, <1>3 DEF SyncTypes, ClientsOK, Set
<1>5. WiresOK'
  <2>1. chan' = chan /\ asks' = asks /\ sent' = sent
    BY DEF Set, linkVars
  <2>2. \A x \in Served : <<x>> \in Seq(Served) /\ Len(<<x>>) = 1
    OBVIOUS
  <2>3. serving \in [Fronts -> Seq(Served)] /\ \A g \in Fronts : Len(serving[g]) <= 1
    BY DEF SyncTypes, WiresOK
  <2>4. serving' \in [Fronts -> Seq(Served)] /\ \A g \in Fronts : Len(serving'[g]) <= 1
    <3>1. CASE serving' = serving
      BY <2>3, <3>1
    <3>2. CASE serving' # serving
      <4>1. PICK x \in Served : serving' = [serving EXCEPT ![f] = <<x>>]
        BY <3>2, SetServing
      <4>. QED BY <2>2, <2>3, <4>1
    <3>. QED BY <3>1, <3>2
  <2>. QED BY <2>1, <2>4 DEF SyncTypes, WiresOK
<1>6. UNCHANGED cacheVars /\ UNCHANGED needSession /\ UNCHANGED backVars /\ UNCHANGED handled
  BY DEF Set
<1>. QED BY <1>4, <1>5, <1>6, CacheKept, SameBack, SameData DEF SyncTypes

(***************************************************************************)
(* Queues: the first, the rest, and what is cut off.                       *)
(***************************************************************************)

LEMMA FirstAndRest ==
    ASSUME NEW S, NEW s \in Seq(S), s # <<>>
    PROVE  /\ Len(s) \in Nat \ {0} /\ 1 \in DOMAIN s
           /\ Head(s) = s[1] /\ Head(s) \in S
           /\ Tail(s) \in Seq(S) /\ Len(Tail(s)) = Len(s) - 1
           /\ \A i \in 1..Len(s) - 1 : Tail(s)[i] = s[i + 1]
<1>1. Len(s) \in Nat /\ DOMAIN s = 1..Len(s) /\ Head(s) = s[1]
  OBVIOUS
<1>2. Len(s) # 0
  BY EmptySeq
<1>. QED BY <1>1, <1>2, HeadTailProperties

LEMMA Cut ==
    ASSUME NEW S, NEW s \in Seq(S), NEW n \in 0..Len(s)
    PROVE  /\ SubSeq(s, 1, n) \in Seq(S) /\ Len(SubSeq(s, 1, n)) = n
           /\ \A i \in 1..n : SubSeq(s, 1, n)[i] = s[i]
           /\ SubSeq(s, n + 1, Len(s)) \in Seq(S)
           /\ Len(SubSeq(s, n + 1, Len(s))) = Len(s) - n
           /\ \A i \in 1..Len(s) - n : SubSeq(s, n + 1, Len(s))[i] = s[n + i]
<1>1. Len(s) \in Nat /\ DOMAIN s = 1..Len(s) /\ n \in Nat
  OBVIOUS
<1>2. \A i \in 1..Len(s) : s[i] \in S
  OBVIOUS
<1>3. \A i \in 1..n : s[i] \in S
  BY <1>1, <1>2
<1>4. \A i \in n + 1..Len(s) : s[i] \in S
  BY <1>1, <1>2
<1>5. /\ SubSeq(s, 1, n) \in Seq(S) /\ Len(SubSeq(s, 1, n)) = n
      /\ \A i \in 1..n : SubSeq(s, 1, n)[i] = s[i]
  BY <1>1, <1>3, SubSeqProperties
<1>6. /\ SubSeq(s, n + 1, Len(s)) \in Seq(S)
      /\ Len(SubSeq(s, n + 1, Len(s))) = IF n + 1 <= Len(s) THEN Len(s) - (n + 1) + 1 ELSE 0
      /\ \A i \in 1..Len(s) - (n + 1) + 1 : SubSeq(s, n + 1, Len(s))[i] = s[n + 1 + i - 1]
  BY <1>1, <1>4, SubSeqProperties
<1>7. Len(s) - (n + 1) + 1 = Len(s) - n
  BY <1>1
<1>8. \A i \in 1..Len(s) - n : SubSeq(s, n + 1, Len(s))[i] = s[n + i]
  BY <1>1, <1>6, <1>7
<1>9. Len(SubSeq(s, n + 1, Len(s))) = Len(s) - n
  <2>1. \A a \in Nat : \A b \in 0..a : (IF b + 1 <= a THEN a - (b + 1) + 1 ELSE 0) = a - b
    OBVIOUS
  <2>. QED BY <1>1, <1>6, <2>1
<1>. QED BY <1>5, <1>6, <1>8, <1>9

(***************************************************************************)
(* SessionSync: the connections.                                           *)
(***************************************************************************)

LEMMA WiresOf ==
    ASSUME SyncTypes, NEW f \in Fronts
    PROVE  /\ serving[f] \in Seq(Served) /\ Len(serving[f]) <= 1
           /\ chan[f] \in Seq(Msgs \cup Replies) /\ asks[f] \in Seq(Calls)
           /\ DOMAIN serving = Fronts /\ DOMAIN chan = Fronts /\ DOMAIN asks = Fronts
BY DEF SyncTypes, WiresOK

LEMMA ForwardTypes ==
    ASSUME SyncTypes, NEW f \in Fronts, NEW u \in Uids, Forward(f, u)
    PROVE  SyncTypes'
<1> DEFINE m == [n |-> sent', uid |-> u, from |-> f, session |-> clients[f][u]]
<1>1. sent' = sent + 1 /\ chan' = [chan EXCEPT ![f] = Append(chan[f], m)]
  BY DEF Forward
<1>2. u \in DOMAIN clients[f] /\ sent' \in Nat
  BY <1>1 DEF Forward, SyncTypes, WiresOK
<1>3. m \in Msgs
  BY <1>2, ClientsOf DEF Msgs
<1> HIDE DEF m
<1>4. Append(chan[f], m) \in Seq(Msgs \cup Replies)
  BY <1>3, WiresOf
<1>5. WiresOK'
  BY <1>1, <1>2, <1>4 DEF SyncTypes, WiresOK, Forward
<1>6. /\ UNCHANGED cacheVars /\ UNCHANGED needSession /\ UNCHANGED frontVars
      /\ UNCHANGED backVars /\ UNCHANGED handled
  BY DEF Forward
<1>. QED BY <1>5, <1>6, CacheKept, SameClients, SameBack, SameData DEF SyncTypes

LEMMA GetSessionTypes ==
    ASSUME SyncTypes, NEW f \in Fronts, GetSession(f)
    PROVE  SyncTypes'
<1> DEFINE u == Head(asks[f]).uid
           s == [call |-> Head(asks[f]).call, uid |-> u,
                 info |-> IF u \in DOMAIN clients[f] THEN clients[f][u] ELSE NoSession]
<1>1. /\ serving' = [serving EXCEPT ![f] = <<s>>]
      /\ asks' = [asks EXCEPT ![f] = Tail(asks[f])] /\ asks[f] # <<>>
  BY DEF GetSession
<1>2. Head(asks[f]) \in Calls /\ Tail(asks[f]) \in Seq(Calls)
  BY <1>1, WiresOf, FirstAndRest
<1>3. Head(asks[f]).call \in Nat /\ u \in Uids
  BY <1>2 DEF Calls
<1>4. s \in Served
  BY <1>3, ClientsOf, NoneIsSession DEF Served
<1> HIDE DEF s
<1>5. <<s>> \in Seq(Served) /\ Len(<<s>>) = 1
  BY <1>4
<1>6. /\ serving' \in [Fronts -> Seq(Served)] /\ asks' \in [Fronts -> Seq(Calls)]
      /\ \A g \in Fronts : Len(serving'[g]) <= 1
  BY <1>1, <1>2, <1>5 DEF SyncTypes, WiresOK
<1>7. /\ UNCHANGED cacheVars /\ UNCHANGED needSession /\ UNCHANGED frontVars
      /\ UNCHANGED backVars /\ UNCHANGED handled /\ UNCHANGED chan /\ UNCHANGED sent
  BY DEF GetSession
<1>8. WiresOK'
  BY <1>6, <1>7 DEF SyncTypes, WiresOK
<1>. QED BY <1>7, <1>8, CacheKept, SameClients, SameBack, SameData DEF SyncTypes

LEMMA ReplyTypes ==
    ASSUME SyncTypes, NEW f \in Fronts, Reply(f)
    PROVE  SyncTypes'
<1> DEFINE r == [call |-> serving[f][1].call, info |-> serving[f][1].info]
<1>1. /\ chan' = [chan EXCEPT ![f] = Append(chan[f], r)]
      /\ serving' = [serving EXCEPT ![f] = <<>>] /\ serving[f] # <<>>
  BY DEF Reply, AtRest
<1>2. serving[f][1] \in Served
  BY <1>1, WiresOf, OneOrNone
<1>3. r \in Replies
  BY <1>2, LaterFields DEF Replies
<1> HIDE DEF r
<1>4. Append(chan[f], r) \in Seq(Msgs \cup Replies)
  BY <1>3, WiresOf
<1>5. <<>> \in Seq(Served) /\ Len(<<>>) = 0
  OBVIOUS
<1>6. /\ serving' \in [Fronts -> Seq(Served)] /\ chan' \in [Fronts -> Seq(Msgs \cup Replies)]
      /\ \A g \in Fronts : Len(serving'[g]) <= 1
  BY <1>1, <1>4, <1>5 DEF SyncTypes, WiresOK
<1>7. /\ UNCHANGED cacheVars /\ UNCHANGED needSession /\ UNCHANGED frontVars
      /\ UNCHANGED backVars /\ UNCHANGED handled /\ UNCHANGED asks /\ UNCHANGED sent
  BY DEF Reply
<1>8. WiresOK'
  BY <1>6, <1>7 DEF SyncTypes, WiresOK
<1>. QED BY <1>7, <1>8, CacheKept, SameClients, SameBack, SameData DEF SyncTypes

LEMMA ConnectTypes ==
    ASSUME SyncTypes, NEW f \in Fronts, Connect(f)
    PROVE  SyncTypes'
<1>1. /\ UNCHANGED cacheVars /\ UNCHANGED needSession /\ UNCHANGED frontVars
      /\ UNCHANGED backVars /\ UNCHANGED handled /\ UNCHANGED serving
      /\ UNCHANGED chan /\ UNCHANGED asks /\ UNCHANGED sent
  BY DEF Connect
<1>2. WiresOK'
  BY <1>1 DEF SyncTypes, WiresOK
<1>. QED BY <1>1, <1>2, CacheKept, SameClients, SameBack, SameData DEF SyncTypes

LEMMA DisconnectTypes ==
    ASSUME SyncTypes, NEW f \in Fronts, Disconnect(f)
    PROVE  SyncTypes'
<1>1. PICK n \in 0..Len(asks[f]) : asks' = [asks EXCEPT ![f] = SubSeq(asks[f], 1, n)]
  BY DEF Disconnect
<1>2. SubSeq(asks[f], 1, n) \in Seq(Calls)
  BY WiresOf, Cut
<1>3. <<>> \in Seq(Msgs \cup Replies)
  OBVIOUS
<1>4. chan' \in [Fronts -> Seq(Msgs \cup Replies)] /\ asks' \in [Fronts -> Seq(Calls)]
  BY <1>1, <1>2, <1>3 DEF SyncTypes, WiresOK, Disconnect
<1>5. /\ UNCHANGED cacheVars /\ UNCHANGED needSession /\ UNCHANGED frontVars
      /\ UNCHANGED backVars /\ UNCHANGED handled /\ UNCHANGED serving /\ UNCHANGED sent
  BY DEF Disconnect
<1>6. WiresOK'
  BY <1>4, <1>5 DEF SyncTypes, WiresOK
<1>. QED BY <1>5, <1>6, CacheKept, SameClients, SameBack, SameData DEF SyncTypes

LEMMA ReadTypes ==
    ASSUME SyncTypes, NEW f \in Fronts, Read(f)
    PROVE  SyncTypes'
<1>1. PICK n \in 1..Len(chan[f]) :
         /\ chunk' = SubSeq(chan[f], 1, n)
         /\ chan' = [chan EXCEPT ![f] = SubSeq(chan[f], n + 1, Len(chan[f]))]
  BY DEF Read
<1>2. n \in 0..Len(chan[f])
  BY WiresOf
<1>3. /\ chunk' \in Seq(Msgs \cup Replies)
      /\ SubSeq(chan[f], n + 1, Len(chan[f])) \in Seq(Msgs \cup Replies)
  BY <1>1, <1>2, WiresOf, Cut
<1>4. chan' \in [Fronts -> Seq(Msgs \cup Replies)]
  BY <1>1, <1>3 DEF SyncTypes, WiresOK
<1>5. /\ UNCHANGED cacheVars /\ UNCHANGED needSession /\ UNCHANGED frontVars
      /\ UNCHANGED handled /\ UNCHANGED serving /\ UNCHANGED asks /\ UNCHANGED sent
      /\ UNCHANGED micro /\ UNCHANGED loads /\ UNCHANGED calls /\ UNCHANGED waiting
  BY DEF Read
<1>6. WiresOK' /\ BackOK'
  BY <1>3, <1>4, <1>5 DEF SyncTypes, WiresOK, BackOK
<1>. QED BY <1>5, <1>6, CacheKept, SameClients, SameData DEF SyncTypes

(***************************************************************************)
(* SessionSync: the back end.                                              *)
(***************************************************************************)

LEMMA BackOf ==
    ASSUME SyncTypes
    PROVE  /\ chunk \in Seq(Msgs \cup Replies) /\ micro \in Seq(Tasks)
           /\ loads \subseteq Loads /\ IsFiniteSet(loads) /\ calls \in Nat
           /\ waiting \in MapsOf(Uids, Seq(Msgs)) /\ DOMAIN waiting \subseteq Uids
           /\ \A u \in DOMAIN waiting : waiting[u] \in Seq(Msgs)
BY MapElim DEF SyncTypes, BackOK

LEMMA LoadFields ==
    ASSUME NEW l \in Loads, NEW i \in Sessions
    PROVE  /\ l.call \in Nat /\ l.uid \in Uids /\ l.sid \in Fronts
           /\ Loaded(l, i) \in LoadTasks /\ Loaded(l, i).load = l /\ Loaded(l, i).info = i
BY DEF Loads, LoadTasks, Loaded

\* The continuations that a reply resumes: one of each load it is for.
ResumedLoads(item) == {Loaded(l, item.info) : l \in {k \in loads : k.call = item.call}}

LEMMA DecodeReplyEffect ==
    ASSUME SyncTypes, DecodeReply
    PROVE  LET h == Head(chunk)
               q == SetToSeq(ResumedLoads(h))
           IN  /\ h \in Replies /\ h.info \in Sessions
               /\ Tail(chunk) \in Seq(Msgs \cup Replies) /\ chunk # <<>>
               /\ loads' = loads \ {k \in loads : k.call = h.call}
               /\ q \in Seq(LoadTasks) /\ micro' = micro \o q /\ Once(q)
               /\ \A t : Has(q, t) <=> t \in ResumedLoads(h)
<1> DEFINE h == Head(chunk)
           M == {k \in loads : k.call = h.call}
           q == SetToSeq(ResumedLoads(h))
<1>1. /\ chunk # <<>> /\ IsReply(h) /\ loads' = loads \ M
      /\ micro' = micro \o q
  BY DEF DecodeReply, ResumedLoads
<1>2. h \in Msgs \cup Replies /\ Tail(chunk) \in Seq(Msgs \cup Replies)
  BY <1>1, BackOf, FirstAndRest
<1>3. h \in Replies
  BY <1>1, <1>2, ItemKinds
<1>4. h.info \in Sessions
  BY <1>3 DEF Replies
<1> HIDE DEF h
<1>5. IsFiniteSet(ResumedLoads(h))
  <2>1. IsFiniteSet(M)
    BY BackOf, FS_Subset
  <2>2. ResumedLoads(h) = {Loaded(l, h.info) : l \in M}
    BY DEF ResumedLoads
  <2> DEFINE g == [l \in M |-> Loaded(l, h.info)]
  <2>3. g \in Surjection(M, ResumedLoads(h))
    BY <2>2 DEF Surjection
  <2>. QED BY <2>1, <2>3, FS_Surjection
<1>6. ResumedLoads(h) \subseteq LoadTasks
  BY <1>4, BackOf, LoadFields DEF ResumedLoads
<1> DEFINE R == ResumedLoads(h)
           n == Cardinality(R)
<1> HIDE DEF R
<1>7. /\ n \in Nat /\ q \in [1..n -> R] /\ Len(q) = n
      /\ \A i, j \in 1..n : q[i] = q[j] => i = j
      /\ \A x \in R : \E i \in 1..n : q[i] = x
  BY <1>5, SetToSeqOnce DEF R
<1> HIDE DEF q, n
<1>8. DOMAIN q = 1..n /\ q \in [1..n -> LoadTasks]
  BY <1>6, <1>7 DEF R
<1>9. q \in Seq(LoadTasks) /\ Once(q)
  BY <1>7, <1>8 DEF Once
<1>10. \A t : Has(q, t) <=> t \in R
  BY <1>7, <1>8 DEF Has
<1>. QED BY <1>1, <1>2, <1>3, <1>4, <1>9, <1>10 DEF q, h, R

LEMMA DecodeReplyTypes ==
    ASSUME SyncTypes, DecodeReply
    PROVE  SyncTypes'
<1>1. PICK q \in Seq(LoadTasks) : micro' = micro \o q
  BY DecodeReplyEffect
<1>2. micro' \in Seq(Tasks)
  <2>1. q \in Seq(Tasks)
    BY DEF Tasks
  <2>. QED BY <1>1, <2>1, BackOf
<1>3. loads' \subseteq loads /\ chunk' \in Seq(Msgs \cup Replies)
  BY DecodeReplyEffect DEF DecodeReply
<1>4. /\ UNCHANGED cacheVars /\ UNCHANGED needSession /\ UNCHANGED frontVars
      /\ UNCHANGED serving /\ UNCHANGED linkVars /\ UNCHANGED calls /\ UNCHANGED waiting
      /\ UNCHANGED handled
  BY DEF DecodeReply
<1>5. IsFiniteSet(loads') /\ loads' \subseteq Loads
  BY <1>3, BackOf, FS_Subset
<1>6. BackOK'
  BY <1>2, <1>3, <1>4, <1>5 DEF SyncTypes, BackOK
<1>. QED BY <1>4, <1>6, CacheKept, SameClients, SameWires, SameData DEF SyncTypes

LEMMA LoadFailsTypes ==
    ASSUME SyncTypes, NEW l \in loads, LoadFails(l)
    PROVE  SyncTypes'
<1>1. l \in Loads /\ loads' = loads \ {l} /\ micro' = <<Loaded(l, NoSession)>>
  BY BackOf DEF LoadFails
<1>2. micro' \in Seq(Tasks)
  <2>1. Loaded(l, NoSession) \in Tasks
    BY <1>1, LoadFields, NoneIsSession DEF Tasks
  <2>. QED BY <1>1, <2>1
<1>3. IsFiniteSet(loads') /\ loads' \subseteq Loads
  BY <1>1, BackOf, FS_Subset
<1>4. /\ UNCHANGED cacheVars /\ UNCHANGED needSession /\ UNCHANGED frontVars
      /\ UNCHANGED serving /\ UNCHANGED linkVars /\ UNCHANGED calls /\ UNCHANGED waiting
      /\ UNCHANGED handled /\ UNCHANGED chunk
  BY DEF LoadFails
<1>5. BackOK'
  BY <1>2, <1>3, <1>4 DEF SyncTypes, BackOK
<1>. QED BY <1>4, <1>5, CacheKept, SameClients, SameWires, SameData DEF SyncTypes

\* A message about to be handled.
LEMMA MsgAtHead ==
    ASSUME SyncTypes, DecodeMsg
    PROVE  /\ chunk # <<>> /\ Head(chunk) \in Msgs /\ Tail(chunk) \in Seq(Msgs \cup Replies)
           /\ chunk' = Tail(chunk)
<1>1. chunk # <<>> /\ ~IsReply(Head(chunk)) /\ chunk' = Tail(chunk)
  BY DEF DecodeMsg
<1>. QED BY <1>1, BackOf, FirstAndRest, ItemKinds

LEMMA HandleTypes ==
    ASSUME SyncTypes, NEW m \in Msgs, NEW how \in Hows, NEW copy \in BackCopies,
           Handle(m, how, copy), UNCHANGED needSession,
           CacheInv' /\ \A u \in Cached' : sessionMap'[u].data \in BackCopies
    PROVE  DataOK'
<1>1. [msg |-> m, how |-> how, with |-> copy] \in [msg : Msgs, how : Hows, with : BackCopies]
  OBVIOUS
<1>2. handled' \in Seq([msg : Msgs, how : Hows, with : BackCopies])
  BY <1>1 DEF Handle, SyncTypes, DataOK
<1>. QED BY <1>2 DEF SyncTypes, DataOK

LEMMA CopyIs == ASSUME SyncTypes, NEW u \in Cached PROVE Copy(u) \in BackCopies /\ u \in Uids
BY DEF SyncTypes, DataOK, Copy, CacheInv, MapOK

\* What a message without a need for a session is handled with.
Plain(m) == IF m.uid \in Cached THEN [Copy(m.uid) EXCEPT !.sid = m.from]
            ELSE CopyOf(m.from, NoSession)

LEMMA PlainIs ==
    ASSUME SyncTypes, NEW m \in Msgs
    PROVE  Plain(m) \in BackCopies /\ Plain(m).sid = m.from
<1>1. m.uid \in Uids /\ m.from \in Fronts
  BY MsgFields
<1>2. ASSUME m.uid \in Cached PROVE LET c == [Copy(m.uid) EXCEPT !.sid = m.from]
                                   IN  c \in BackCopies /\ c.sid = m.from
  BY <1>1, <1>2, CopyIs DEF BackCopies
<1>3. LET c == CopyOf(m.from, NoSession) IN c \in BackCopies /\ c.sid = m.from
  BY <1>1, NoneIsSession, SessionFields
<1>. QED BY <1>2, <1>3 DEF Plain

LEMMA DecodeMsgTypes ==
    ASSUME SyncTypes, DecodeMsg
    PROVE  SyncTypes'
<1> DEFINE m == Head(chunk)
<1>1. m \in Msgs /\ chunk' \in Seq(Msgs \cup Replies)
  BY MsgAtHead
<1>2. m.uid \in Uids /\ m.from \in Fronts
  BY <1>1, MsgFields
<1>3. /\ UNCHANGED timeVars /\ UNCHANGED needSession /\ UNCHANGED frontVars
      /\ UNCHANGED serving /\ UNCHANGED chan /\ UNCHANGED sent /\ UNCHANGED micro
  BY DEF DecodeMsg
<1>4. HandleCached(m) \/ HandleNoNeed(m) \/ JoinFetch(m) \/ StartFetch(m)
  BY DEF DecodeMsg
<1> HIDE DEF m
<1>5. CASE HandleCached(m)
  <2>1. /\ m.uid \in Cached /\ UpdateSession(m.uid, Copy(m.uid))
        /\ Handle(m, "cached", Copy(m.uid))
        /\ UNCHANGED loads /\ UNCHANGED calls /\ UNCHANGED asks /\ UNCHANGED waiting
    BY <1>5 DEF HandleCached, Hit
  <2>2. Copy(m.uid) \in BackCopies /\ "cached" \in Hows
    BY <2>1, CopyIs DEF Hows
  <2>3. CacheInv' /\ \A u \in Cached' : sessionMap'[u].data \in BackCopies
    BY <1>2, <1>3, <2>1, <2>2, CopyUpdated
  <2>4. DataOK'
    BY <1>1, <1>3, <2>1, <2>2, <2>3, HandleTypes
  <2>5. WiresOK' /\ BackOK'
    BY <1>1, <1>3, <2>1 DEF SyncTypes, WiresOK, BackOK
  <2>. QED BY <1>3, <2>3, <2>4, <2>5, SameClients DEF SyncTypes
<1>6. CASE HandleNoNeed(m)
  <2>1. /\ IF m.uid \in Cached THEN UpdateSession(m.uid, Plain(m)) ELSE AddSession(m.uid, Plain(m))
        /\ Handle(m, "noNeed", Plain(m))
        /\ UNCHANGED loads /\ UNCHANGED calls /\ UNCHANGED asks /\ UNCHANGED waiting
    BY <1>6 DEF HandleNoNeed, Plain
  <2>2. Plain(m) \in BackCopies /\ "noNeed" \in Hows
    BY <1>1, PlainIs DEF Hows
  <2>3. CacheInv' /\ \A u \in Cached' : sessionMap'[u].data \in BackCopies
    BY <1>2, <1>3, <2>1, <2>2, CopyUpdated, CopyAdded
  <2>4. DataOK'
    BY <1>1, <1>3, <2>1, <2>2, <2>3, HandleTypes
  <2>5. WiresOK' /\ BackOK'
    BY <1>1, <1>3, <2>1 DEF SyncTypes, WiresOK, BackOK
  <2>. QED BY <1>3, <2>3, <2>4, <2>5, SameClients DEF SyncTypes
<1>7. CASE JoinFetch(m)
  <2>1. /\ m.uid \in DOMAIN waiting /\ waiting' = [waiting EXCEPT ![m.uid] = Append(waiting[m.uid], m)]
        /\ UNCHANGED mapVars /\ UNCHANGED loads /\ UNCHANGED calls /\ UNCHANGED asks
        /\ UNCHANGED handled
    BY <1>7 DEF JoinFetch
  <2>2. waiting[m.uid] \in Seq(Msgs) /\ waiting \in [DOMAIN waiting -> Seq(Msgs)]
    BY <2>1, BackOf, MapElim
  <2>3. Append(waiting[m.uid], m) \in Seq(Msgs)
    BY <1>1, <2>2
  <2>4. waiting' \in [DOMAIN waiting -> Seq(Msgs)] /\ DOMAIN waiting \in SUBSET Uids
    BY <2>1, <2>2, <2>3, BackOf
  <2>5. waiting' \in MapsOf(Uids, Seq(Msgs))
    BY <2>4, MapIntro
  <2>6. WiresOK' /\ BackOK'
    BY <1>1, <1>3, <2>1, <2>5 DEF SyncTypes, WiresOK, BackOK
  <2>7. UNCHANGED cacheVars
    BY <1>3, <2>1 DEF cacheVars
  <2>. QED BY <1>3, <2>1, <2>6, <2>7, CacheKept, SameClients, SameData DEF SyncTypes
<1>8. CASE StartFetch(m)
  <2> DEFINE w == [u \in DOMAIN waiting \cup {m.uid} |-> IF u = m.uid THEN <<m>> ELSE waiting[u]]
             l == [call |-> calls', uid |-> m.uid, sid |-> m.from]
             a == [call |-> calls', uid |-> m.uid]
  <2>1. /\ waiting' = w /\ calls' = calls + 1 /\ loads' = loads \cup {l}
        /\ asks' = [asks EXCEPT ![m.from] = Append(asks[m.from], a)]
        /\ UNCHANGED mapVars /\ UNCHANGED handled
    BY <1>8 DEF StartFetch
  <2>2. calls' \in Nat
    BY <2>1, BackOf
  <2>3. l \in Loads /\ a \in Calls
    BY <1>2, <2>2 DEF Loads, Calls
  <2>4. w \in [DOMAIN waiting \cup {m.uid} -> Seq(Msgs)] /\ DOMAIN waiting \cup {m.uid} \in SUBSET Uids
    <3>1. <<m>> \in Seq(Msgs)
      BY <1>1
    <3>. QED BY <1>2, <3>1, BackOf
  <2> HIDE DEF w, l, a
  <2>5. waiting' \in MapsOf(Uids, Seq(Msgs))
    BY <2>1, <2>4, MapIntro
  <2>6. IsFiniteSet(loads') /\ loads' \subseteq Loads
    BY <2>1, <2>3, BackOf, FS_AddElement
  <2>7. asks' \in [Fronts -> Seq(Calls)]
    <3>1. Append(asks[m.from], a) \in Seq(Calls)
      BY <1>2, <2>3, WiresOf
    <3>. QED BY <2>1, <3>1 DEF SyncTypes, WiresOK
  <2>8. WiresOK' /\ BackOK'
    BY <1>1, <1>3, <2>2, <2>5, <2>6, <2>7 DEF SyncTypes, WiresOK, BackOK
  <2>9. UNCHANGED cacheVars
    BY <1>3, <2>1 DEF cacheVars
  <2>. QED BY <1>3, <2>1, <2>8, <2>9, CacheKept, SameClients, SameData DEF SyncTypes
<1>. QED BY <1>4, <1>5, <1>6, <1>7, <1>8

\* The continuation that is about to run.
LEMMA TaskAtHead ==
    ASSUME SyncTypes, micro # <<>>
    PROVE  Task \in Tasks /\ Tail(micro) \in Seq(Tasks)
BY BackOf, FirstAndRest DEF Task

LEMMA LoadRuns ==
    ASSUME SyncTypes, Running("load")
    PROVE  Task.load \in Loads /\ Task.info \in Sessions /\ Tail(micro) \in Seq(Tasks)
<1>1. micro # <<>> /\ "load" \in DOMAIN Task
  BY DEF Running
<1>. QED BY <1>1, TaskAtHead, TaskKinds DEF Tasks

LEMMA WakeRuns ==
    ASSUME SyncTypes, Running("woken")
    PROVE  Task.woken \in Uids /\ Tail(micro) \in Seq(Tasks)
<1>1. micro # <<>> /\ "woken" \in DOMAIN Task
  BY DEF Running
<1>. QED BY <1>1, TaskAtHead, TaskKinds DEF Tasks

LEMMA ResumeRuns ==
    ASSUME SyncTypes, Running("resume")
    PROVE  /\ Task.resume \in Msgs /\ Task.how \in Hows /\ Task.with \in Seq(BackCopies)
           /\ Tail(micro) \in Seq(Tasks)
<1>1. micro # <<>> /\ "resume" \in DOMAIN Task
  BY DEF Running
<1>. QED BY <1>1, TaskAtHead, TaskKinds DEF Tasks

LEMMA LoadTypes ==
    ASSUME SyncTypes, Load
    PROVE  SyncTypes'
<1> DEFINE u == Task.load.uid
           copy == CopyOf(Task.load.sid, Task.info)
<1>1. /\ IF Task.info = NoSession THEN DelSession(u)
         ELSE IF u \in Cached THEN UpdateSession(u, copy) ELSE AddSession(u, copy)
      /\ micro' = Append(Tail(micro), [woken |-> u]) /\ Running("load")
  BY DEF Load
<1>2. /\ UNCHANGED timeVars /\ UNCHANGED needSession /\ UNCHANGED frontVars
      /\ UNCHANGED serving /\ UNCHANGED linkVars /\ UNCHANGED chunk /\ UNCHANGED loads
      /\ UNCHANGED calls /\ UNCHANGED waiting /\ UNCHANGED handled
  BY DEF Load
<1>3. Task.load \in Loads /\ Task.info \in Sessions /\ Tail(micro) \in Seq(Tasks)
  BY <1>1, LoadRuns
<1>4. u \in Uids /\ copy \in BackCopies
  BY <1>3, LoadFields, SessionFields
<1> HIDE DEF u, copy
<1>5. CacheInv' /\ \A v \in Cached' : sessionMap'[v].data \in BackCopies
  BY <1>1, <1>2, <1>4, CopyDeleted, CopyUpdated, CopyAdded
<1>6. micro' \in Seq(Tasks)
  <2>1. [woken |-> u] \in Tasks
    BY <1>4 DEF Tasks, WakeTasks
  <2>. QED BY <1>1, <1>3, <2>1
<1>7. BackOK'
  BY <1>2, <1>6 DEF SyncTypes, BackOK
<1>. QED BY <1>2, <1>5, <1>7, SameClients, SameWires, SameData DEF SyncTypes

\* The messages that a woken fetch resumes, in order.
LEMMA ResumedAre ==
    ASSUME SyncTypes, NEW u \in DOMAIN waiting
    PROVE  /\ waiting[u] \in Seq(Msgs) /\ Resumed(u) \in Seq(ResumeTasks)
           /\ Len(Resumed(u)) = Len(waiting[u]) /\ Len(waiting[u]) \in Nat
           /\ \A i \in 1..Len(waiting[u]) : Resumed(u)[i].resume = waiting[u][i]
<1> DEFINE w == waiting[u]
           how(i) == IF i = 1 THEN "fetched" ELSE "joined"
           with == IF u \in Cached THEN <<Copy(u)>> ELSE <<>>
<1>1. w \in Seq(Msgs) /\ Len(w) \in Nat /\ DOMAIN w = 1..Len(w) /\ \A i \in 1..Len(w) : w[i] \in Msgs
  BY BackOf
<1>2. with \in Seq(BackCopies)
  <2>1. u \in Cached => <<Copy(u)>> \in Seq(BackCopies)
    BY CopyIs
  <2>. QED BY <2>1
<1>3. \A i \in 1..Len(w) : how(i) \in Hows
  BY DEF Hows
<1> HIDE DEF w, with
<1>4. \A i \in 1..Len(w) : /\ [resume |-> w[i], how |-> how(i), with |-> with] \in ResumeTasks
                           /\ [resume |-> w[i], how |-> how(i), with |-> with].resume = w[i]
  BY <1>1, <1>2, <1>3 DEF ResumeTasks
<1>5. Resumed(u) = [i \in 1..Len(w) |-> [resume |-> w[i], how |-> how(i), with |-> with]]
  BY <1>1 DEF Resumed, w, with
<1> HIDE DEF how
<1>. QED BY <1>1, <1>4, <1>5 DEF w

LEMMA WakeTypes ==
    ASSUME SyncTypes, Wake, \E u : u = Task.woken /\ u \in DOMAIN waiting
    PROVE  SyncTypes'
<1>1. PICK u : u = Task.woken /\ u \in DOMAIN waiting
  OBVIOUS
<1> DEFINE w == [v \in DOMAIN waiting \ {u} |-> waiting[v]]
<1>2. waiting' = w /\ micro' = Tail(micro) \o Resumed(u) /\ Running("woken")
  BY <1>1 DEF Wake
<1>3. /\ UNCHANGED cacheVars /\ UNCHANGED needSession /\ UNCHANGED frontVars
      /\ UNCHANGED serving /\ UNCHANGED linkVars /\ UNCHANGED chunk /\ UNCHANGED loads
      /\ UNCHANGED calls /\ UNCHANGED handled
  BY DEF Wake
<1>4. w \in [DOMAIN waiting \ {u} -> Seq(Msgs)] /\ DOMAIN waiting \ {u} \in SUBSET Uids
  BY BackOf
<1> HIDE DEF w
<1>5. waiting' \in MapsOf(Uids, Seq(Msgs))
  BY <1>2, <1>4, MapIntro
<1>6. micro' \in Seq(Tasks)
  <2>1. Resumed(u) \in Seq(ResumeTasks) /\ Tail(micro) \in Seq(Tasks)
    BY <1>1, <1>2, ResumedAre, WakeRuns
  <2>2. Resumed(u) \in Seq(Tasks)
    BY <2>1 DEF Tasks
  <2>. QED BY <1>2, <2>1, <2>2
<1>7. BackOK'
  BY <1>3, <1>5, <1>6 DEF SyncTypes, BackOK
<1>. QED BY <1>3, <1>7, CacheKept, SameClients, SameWires, SameData DEF SyncTypes

LEMMA ResumeTypes ==
    ASSUME SyncTypes, Resume
    PROVE  SyncTypes'
<1> DEFINE m == Task.resume
<1>1. /\ IF Task.with # <<>> THEN Handle(m, Task.how, Task.with[1]) ELSE UNCHANGED handled
      /\ IF Task.with # <<>> /\ m.uid \in Cached
         THEN UpdateSession(m.uid, Copy(m.uid)) ELSE UNCHANGED mapVars
      /\ micro' = Tail(micro) /\ Running("resume")
  BY DEF Resume
<1>2. /\ UNCHANGED timeVars /\ UNCHANGED needSession /\ UNCHANGED frontVars
      /\ UNCHANGED serving /\ UNCHANGED linkVars /\ UNCHANGED chunk /\ UNCHANGED loads
      /\ UNCHANGED calls /\ UNCHANGED waiting
  BY DEF Resume
<1>3. /\ m \in Msgs /\ Task.how \in Hows /\ Task.with \in Seq(BackCopies)
      /\ micro' \in Seq(Tasks)
  BY <1>1, ResumeRuns
<1>4. m.uid \in Uids
  BY <1>3, MsgFields
<1>5. Task.with # <<>> => Task.with[1] \in BackCopies
  BY <1>3, FirstAndRest
<1> HIDE DEF m
<1>6. CacheInv' /\ \A v \in Cached' : sessionMap'[v].data \in BackCopies
  <2>1. CASE Task.with # <<>> /\ m.uid \in Cached
    BY <1>1, <1>2, <1>4, <2>1, CopyIs, CopyUpdated
  <2>2. CASE ~(Task.with # <<>> /\ m.uid \in Cached)
    <3>1. UNCHANGED cacheVars
      BY <1>1, <1>2, <2>2 DEF cacheVars
    <3>. QED BY <3>1, CacheKept
  <2>. QED BY <2>1, <2>2
<1>7. DataOK'
  <2>1. CASE Task.with # <<>>
    BY <1>1, <1>2, <1>3, <1>5, <1>6, <2>1, HandleTypes
  <2>2. CASE Task.with = <<>>
    BY <1>1, <1>2, <1>6, <2>2, SameData
  <2>. QED BY <2>1, <2>2
<1>8. BackOK'
  BY <1>2, <1>3 DEF SyncTypes, BackOK
<1>. QED BY <1>2, <1>6, <1>7, <1>8, SameClients, SameWires DEF SyncTypes

LEMMA TickTypes == ASSUME SyncTypes, Tick PROVE SyncTypes'
<1>1. CacheInv' /\ \A v \in Cached' : sessionMap'[v].data \in BackCopies
  BY CopiesExpire DEF Tick
<1>2. /\ UNCHANGED needSession /\ UNCHANGED frontVars /\ UNCHANGED serving
      /\ UNCHANGED linkVars /\ UNCHANGED backVars /\ UNCHANGED handled
  BY DEF Tick
<1>. QED BY <1>1, <1>2, SameClients, SameWires, SameBack, SameData DEF SyncTypes

LEMMA TimeTypes == ASSUME SyncTypes, Time PROVE SyncTypes'
<1>1. CacheInv' /\ \A v \in Cached' : sessionMap'[v].data \in BackCopies
  BY CopiesAge DEF Time
<1>2. /\ UNCHANGED needSession /\ UNCHANGED frontVars /\ UNCHANGED serving
      /\ UNCHANGED linkVars /\ UNCHANGED backVars /\ UNCHANGED handled
  BY DEF Time
<1>. QED BY <1>1, <1>2, SameClients, SameWires, SameBack, SameData DEF SyncTypes

LEMMA SyncStutter == ASSUME SyncTypes, UNCHANGED syncVars PROVE SyncTypes'
<1>1. /\ UNCHANGED cacheVars /\ UNCHANGED needSession /\ UNCHANGED frontVars
      /\ UNCHANGED serving /\ UNCHANGED linkVars /\ UNCHANGED backVars /\ UNCHANGED handled
  BY DEF syncVars
<1>. QED BY <1>1, CacheKept, SameClients, SameWires, SameBack, SameData DEF SyncTypes

LEMMA SyncInitTypes == Init => SyncTypes
<1> SUFFICES ASSUME Init PROVE SyncTypes
  OBVIOUS
<1>1. CacheInv
  BY CacheInitInv DEF Init
<1>2. <<>> \in MapsOf(Uids, Sessions) /\ <<>> \in MapsOf(Uids, Seq(Msgs))
  BY EmptyMap
<1>3. ClientsOK
  BY <1>2 DEF Init, ClientsOK
<1>4. <<>> \in Seq(Served) /\ <<>> \in Seq(Msgs \cup Replies) /\ <<>> \in Seq(Calls) /\ Len(<<>>) = 0
  OBVIOUS
<1>5. WiresOK
  BY <1>4 DEF Init, WiresOK
<1>6. BackOK
  BY <1>2, FS_EmptySet DEF Init, BackOK
<1>7. DataOK
  BY SyncAssumption DEF SyncAssumption, Init, CacheInit, DataOK, Cached
<1>. QED BY <1>1, <1>3, <1>5, <1>6, <1>7 DEF SyncTypes

(***************************************************************************)
(* SessionSync: one fetch at a time.                                       *)
(***************************************************************************)

\* A continuation of the fetch of u; a queue with one, and with at most one of each.
Holds(t, u) ==
    ("load" \in DOMAIN t /\ t.load.uid = u) \/ ("woken" \in DOMAIN t /\ t.woken = u)
HoldsIn(s, u) == \E i \in DOMAIN s : Holds(s[i], u)
OneIn(s) == \A i, j \in DOMAIN s : \A u : Holds(s[i], u) /\ Holds(s[j], u) => i = j
LoadsFor(u) == \E l \in loads : l.uid = u

\* sessionFetchingMap has an entry for each player whose fetch is a call or a
\* continuation, and no player has two of them.
FetchInv ==
    /\ \A l, k \in loads : l.uid = k.uid => l = k
    /\ \A u : ~(LoadsFor(u) /\ HoldsIn(micro, u))
    /\ OneIn(micro)
    /\ \A u : u \in DOMAIN waiting <=> LoadsFor(u) \/ HoldsIn(micro, u)

LEMMA HoldsKinds ==
    /\ \A t \in LoadTasks : \A u : Holds(t, u) <=> t.load.uid = u
    /\ \A t \in WakeTasks : \A u : Holds(t, u) <=> t.woken = u
    /\ \A t \in ResumeTasks : \A u : ~Holds(t, u)
BY TaskKinds DEF Holds

LEMMA TailHolds ==
    ASSUME NEW S, NEW s \in Seq(S), s # <<>>, OneIn(s)
    PROVE  /\ OneIn(Tail(s))
           /\ \A u : HoldsIn(Tail(s), u) <=> HoldsIn(s, u) /\ ~Holds(Head(s), u)
<1> DEFINE t == Tail(s)
<1>1. /\ Len(s) \in Nat \ {0} /\ DOMAIN s = 1..Len(s) /\ DOMAIN t = 1..Len(s) - 1
      /\ Head(s) = s[1] /\ \A i \in 1..Len(s) - 1 : t[i] = s[i + 1]
  BY FirstAndRest
<1> HIDE DEF t
<1>2. \A i \in DOMAIN t : i + 1 \in DOMAIN s /\ i + 1 # 1 /\ t[i] = s[i + 1] /\ i \in Int
  BY <1>1
<1>3. \A i \in DOMAIN s : i = 1 \/ (i - 1 \in DOMAIN t /\ t[i - 1] = s[i])
  <2> SUFFICES ASSUME NEW i \in DOMAIN s, i # 1
               PROVE  i - 1 \in DOMAIN t /\ t[i - 1] = s[i]
    OBVIOUS
  <2>1. i - 1 \in 1..Len(s) - 1 /\ (i - 1) + 1 = i
    BY <1>1
  <2>. QED BY <1>1, <2>1
<1>4. OneIn(t)
  <2> SUFFICES ASSUME NEW i \in DOMAIN t, NEW j \in DOMAIN t, NEW u, Holds(t[i], u), Holds(t[j], u)
               PROVE  i = j
    BY DEF OneIn
  <2>1. i + 1 = j + 1
    BY <1>2 DEF OneIn
  <2>. QED BY <1>2, <2>1
<1>5. ASSUME NEW u PROVE HoldsIn(t, u) <=> HoldsIn(s, u) /\ ~Holds(s[1], u)
  <2>1. ASSUME HoldsIn(t, u) PROVE HoldsIn(s, u) /\ ~Holds(s[1], u)
    <3>1. PICK i \in DOMAIN t : Holds(t[i], u)
      BY <2>1 DEF HoldsIn
    <3>2. i + 1 \in DOMAIN s /\ i + 1 # 1 /\ Holds(s[i + 1], u)
      BY <1>2, <3>1
    <3>3. 1 \in DOMAIN s
      BY <1>1
    <3>. QED BY <3>2, <3>3 DEF HoldsIn, OneIn
  <2>2. ASSUME HoldsIn(s, u), ~Holds(s[1], u) PROVE HoldsIn(t, u)
    <3>1. PICK i \in DOMAIN s : Holds(s[i], u)
      BY <2>2 DEF HoldsIn
    <3>. QED BY <1>3, <2>2, <3>1 DEF HoldsIn
  <2>. QED BY <2>1, <2>2
<1>. QED BY <1>1, <1>4, <1>5 DEF t

LEMMA ConcatHolds ==
    ASSUME NEW S, NEW s \in Seq(S), NEW t \in Seq(S), OneIn(s), OneIn(t),
           \A u : ~(HoldsIn(s, u) /\ HoldsIn(t, u))
    PROVE  /\ OneIn(s \o t)
           /\ \A u : HoldsIn(s \o t, u) <=> HoldsIn(s, u) \/ HoldsIn(t, u)
<1> DEFINE c == s \o t
<1>1. /\ Len(s) \in Nat /\ Len(t) \in Nat /\ DOMAIN s = 1..Len(s) /\ DOMAIN t = 1..Len(t)
      /\ DOMAIN c = 1..Len(s) + Len(t)
      /\ \A i \in 1..Len(s) + Len(t) : c[i] = IF i <= Len(s) THEN s[i] ELSE t[i - Len(s)]
  BY ConcatProperties
<1> HIDE DEF c
<1>2. \A i \in DOMAIN c : /\ i \in Int
                          /\ \/ i \in DOMAIN s /\ c[i] = s[i]
                             \/ i - Len(s) \in DOMAIN t /\ c[i] = t[i - Len(s)] /\ i \notin DOMAIN s
  <2> SUFFICES ASSUME NEW i \in DOMAIN c
               PROVE  /\ i \in Int
                      /\ \/ i \in DOMAIN s /\ c[i] = s[i]
                         \/ i - Len(s) \in DOMAIN t /\ c[i] = t[i - Len(s)] /\ i \notin DOMAIN s
    OBVIOUS
  <2>1. CASE i <= Len(s)
    BY <1>1, <2>1
  <2>2. CASE ~(i <= Len(s))
    <3>1. i \in Int /\ i - Len(s) \in 1..Len(t) /\ i \notin 1..Len(s)
      BY <1>1, <2>2
    <3>. QED BY <1>1, <2>2, <3>1
  <2>. QED BY <2>1, <2>2
<1>3. \A i \in DOMAIN s : i \in DOMAIN c /\ c[i] = s[i]
  BY <1>1
<1>4. \A i \in DOMAIN t : i + Len(s) \in DOMAIN c /\ c[i + Len(s)] = t[i]
  <2> SUFFICES ASSUME NEW i \in DOMAIN t
               PROVE  i + Len(s) \in DOMAIN c /\ c[i + Len(s)] = t[i]
    OBVIOUS
  <2>1. i + Len(s) \in 1..Len(s) + Len(t) /\ ~(i + Len(s) <= Len(s)) /\ (i + Len(s)) - Len(s) = i
    BY <1>1
  <2>. QED BY <1>1, <2>1
<1>5. OneIn(c)
  <2> SUFFICES ASSUME NEW i \in DOMAIN c, NEW j \in DOMAIN c, NEW u, Holds(c[i], u), Holds(c[j], u)
               PROVE  i = j
    BY DEF OneIn
  <2>1. CASE i \in DOMAIN s
    <3>1. HoldsIn(s, u) /\ c[i] = s[i]
      BY <1>2, <1>3, <2>1 DEF HoldsIn
    <3>2. j \in DOMAIN s /\ c[j] = s[j]
      BY <1>2, <3>1 DEF HoldsIn
    <3>. QED BY <2>1, <3>1, <3>2 DEF OneIn
  <2>2. CASE i \notin DOMAIN s
    <3>1. HoldsIn(t, u) /\ i - Len(s) \in DOMAIN t /\ c[i] = t[i - Len(s)]
      BY <1>2, <2>2 DEF HoldsIn
    <3>2. j - Len(s) \in DOMAIN t /\ c[j] = t[j - Len(s)]
      BY <1>2, <3>1 DEF HoldsIn
    <3>3. i - Len(s) = j - Len(s)
      BY <3>1, <3>2 DEF OneIn
    <3>. QED BY <1>1, <1>2, <3>3
  <2>. QED BY <2>1, <2>2
<1>6. \A u : HoldsIn(c, u) <=> HoldsIn(s, u) \/ HoldsIn(t, u)
  BY <1>2, <1>3, <1>4 DEF HoldsIn
<1>. QED BY <1>5, <1>6 DEF c

\* A queue of one, of loads of different players, and of nothing but messages.
LEMMA SingleHolds ==
    ASSUME NEW t
    PROVE  OneIn(<<t>>) /\ \A u : HoldsIn(<<t>>, u) <=> Holds(t, u)
BY DEF OneIn, HoldsIn

LEMMA LoadsHold ==
    ASSUME NEW q \in Seq(LoadTasks), Once(q),
           \A t, r : Has(q, t) /\ Has(q, r) /\ t.load.uid = r.load.uid => t = r
    PROVE  OneIn(q) /\ \A u : HoldsIn(q, u) <=> \E t : Has(q, t) /\ t.load.uid = u
<1>1. \A i \in DOMAIN q : q[i] \in LoadTasks /\ Has(q, q[i])
  BY DEF Has
<1>2. OneIn(q)
  BY <1>1, HoldsKinds DEF OneIn, Once
<1>. QED BY <1>1, <1>2, HoldsKinds DEF HoldsIn, Has

LEMMA ResumesHold ==
    ASSUME NEW q \in Seq(ResumeTasks)
    PROVE  OneIn(q) /\ \A u : ~HoldsIn(q, u)
<1>1. \A i \in DOMAIN q : q[i] \in ResumeTasks
  OBVIOUS
<1>. QED BY <1>1, HoldsKinds DEF OneIn, HoldsIn

LEMMA FetchKept ==
    ASSUME FetchInv, UNCHANGED loads, UNCHANGED micro, DOMAIN waiting' = DOMAIN waiting
    PROVE  FetchInv'
<1>1. \A u : LoadsFor(u)' <=> LoadsFor(u)
  BY DEF LoadsFor
<1>. QED BY <1>1 DEF FetchInv

\* The reply that ends a load puts its continuation in the queue.
LEMMA DecodeReplyFetch ==
    ASSUME SyncTypes, FetchInv, DecodeReply
    PROVE  FetchInv'
<1> DEFINE h == Head(chunk)
           M == {k \in loads : k.call = h.call}
           q == SetToSeq(ResumedLoads(h))
<1>1. /\ h.info \in Sessions /\ loads' = loads \ M
      /\ q \in Seq(LoadTasks) /\ micro' = micro \o q /\ Once(q)
      /\ \A t : Has(q, t) <=> t \in ResumedLoads(h)
  BY DecodeReplyEffect
<1>2. UNCHANGED waiting
  BY DEF DecodeReply
<1> HIDE DEF h, q
<1>3. \A t : Has(q, t) <=> \E l \in M : t = Loaded(l, h.info)
  BY <1>1 DEF ResumedLoads
<1> HIDE DEF M
<1>4. M \subseteq loads
  BY DEF M
<1>5. \A l \in M : Loaded(l, h.info).load = l /\ l \in loads
  BY <1>1, <1>4, BackOf, LoadFields
<1>6. \A t, r : Has(q, t) /\ Has(q, r) /\ t.load.uid = r.load.uid => t = r
  BY <1>3, <1>5 DEF FetchInv
<1>7. OneIn(q) /\ \A u : HoldsIn(q, u) <=> \E l \in M : l.uid = u
  <2>1. OneIn(q) /\ \A u : HoldsIn(q, u) <=> \E t : Has(q, t) /\ t.load.uid = u
    BY <1>1, <1>6, LoadsHold
  <2>. QED BY <1>3, <1>5, <2>1
<1>8. \A u : LoadsFor(u) <=> LoadsFor(u)' \/ HoldsIn(q, u)
  BY <1>1, <1>4, <1>7 DEF LoadsFor
<1>9. \A u : ~(LoadsFor(u)' /\ HoldsIn(q, u))
  BY <1>1, <1>4, <1>7 DEF LoadsFor, FetchInv
<1>10. OneIn(micro') /\ \A u : HoldsIn(micro', u) <=> HoldsIn(micro, u) \/ HoldsIn(q, u)
  <2>1. q \in Seq(Tasks)
    BY <1>1 DEF Tasks
  <2>2. \A u : ~(HoldsIn(micro, u) /\ HoldsIn(q, u))
    BY <1>8 DEF FetchInv
  <2>. QED BY <1>1, <1>7, <2>1, <2>2, BackOf, ConcatHolds DEF FetchInv
<1>11. \A l, k \in loads' : l.uid = k.uid => l = k
  BY <1>1 DEF FetchInv
<1>12. \A u : ~(LoadsFor(u)' /\ HoldsIn(micro', u))
  BY <1>8, <1>9, <1>10 DEF FetchInv
<1>13. \A u : u \in DOMAIN waiting' <=> LoadsFor(u)' \/ HoldsIn(micro', u)
  BY <1>2, <1>8, <1>10 DEF FetchInv
<1>. QED BY <1>10, <1>11, <1>12, <1>13 DEF FetchInv

LEMMA LoadFailsFetch ==
    ASSUME SyncTypes, FetchInv, NEW l \in loads, LoadFails(l)
    PROVE  FetchInv'
<1>1. /\ loads' = loads \ {l} /\ micro' = <<Loaded(l, NoSession)>> /\ micro = <<>>
      /\ UNCHANGED waiting
  BY DEF LoadFails, Idle
<1>2. OneIn(micro') /\ \A u : HoldsIn(micro', u) <=> u = l.uid
  <2>1. \A u : Holds(Loaded(l, NoSession), u) <=> l.uid = u
    BY BackOf, LoadFields, NoneIsSession, HoldsKinds
  <2>. QED BY <1>1, <2>1, SingleHolds
<1>3. \A u : ~HoldsIn(micro, u)
  BY <1>1 DEF HoldsIn
<1>4. \A u : LoadsFor(u)' <=> LoadsFor(u) /\ u # l.uid
  BY <1>1 DEF LoadsFor, FetchInv
<1>5. LoadsFor(l.uid)
  BY DEF LoadsFor
<1>6. \A k, j \in loads' : j.uid = k.uid => j = k
  BY <1>1 DEF FetchInv
<1>7. \A u : ~(LoadsFor(u)' /\ HoldsIn(micro', u))
  BY <1>2, <1>4
<1>8. \A u : u \in DOMAIN waiting' <=> LoadsFor(u)' \/ HoldsIn(micro', u)
  BY <1>1, <1>2, <1>3, <1>4, <1>5 DEF FetchInv
<1>. QED BY <1>2, <1>6, <1>7, <1>8 DEF FetchInv

LEMMA StartFetchFetch ==
    ASSUME SyncTypes, FetchInv, NEW m, StartFetch(m), UNCHANGED micro
    PROVE  FetchInv'
<1> DEFINE l == [call |-> calls', uid |-> m.uid, sid |-> m.from]
<1>1. /\ m.uid \notin DOMAIN waiting /\ DOMAIN waiting' = DOMAIN waiting \cup {m.uid}
      /\ loads' = loads \cup {l} /\ l.uid = m.uid
  BY DEF StartFetch
<1> HIDE DEF l
<1>2. ~LoadsFor(m.uid) /\ ~HoldsIn(micro, m.uid)
  BY <1>1 DEF FetchInv
<1>3. \A u : LoadsFor(u)' <=> LoadsFor(u) \/ u = m.uid
  BY <1>1 DEF LoadsFor
<1>4. \A k, j \in loads' : j.uid = k.uid => j = k
  BY <1>1, <1>2 DEF FetchInv, LoadsFor
<1>5. \A u : ~(LoadsFor(u)' /\ HoldsIn(micro', u))
  BY <1>2, <1>3 DEF FetchInv
<1>6. \A u : u \in DOMAIN waiting' <=> LoadsFor(u)' \/ HoldsIn(micro', u)
  BY <1>1, <1>3 DEF FetchInv
<1>. QED BY <1>4, <1>5, <1>6 DEF FetchInv

LEMMA DecodeMsgFetch ==
    ASSUME SyncTypes, FetchInv, DecodeMsg
    PROVE  FetchInv'
<1> DEFINE m == Head(chunk)
<1>1. UNCHANGED micro /\ (HandleCached(m) \/ HandleNoNeed(m) \/ JoinFetch(m) \/ StartFetch(m))
  BY DEF DecodeMsg
<1> HIDE DEF m
<1>2. CASE HandleCached(m) \/ HandleNoNeed(m)
  BY <1>1, <1>2, FetchKept DEF HandleCached, HandleNoNeed
<1>3. CASE JoinFetch(m)
  <2>1. UNCHANGED loads /\ DOMAIN waiting' = DOMAIN waiting
    BY <1>3 DEF JoinFetch
  <2>. QED BY <1>1, <2>1, FetchKept
<1>4. CASE StartFetch(m)
  BY <1>1, <1>4, StartFetchFetch
<1>. QED BY <1>1, <1>2, <1>3, <1>4

LEMMA LoadFetch ==
    ASSUME SyncTypes, FetchInv, Load
    PROVE  FetchInv'
<1> DEFINE u == Task.load.uid
           w == [woken |-> u]
<1>1. /\ micro' = Append(Tail(micro), w) /\ Running("load") /\ UNCHANGED loads /\ UNCHANGED waiting
  BY DEF Load
<1>2. micro # <<>> /\ Task \in LoadTasks
  <2>1. micro # <<>> /\ "load" \in DOMAIN Task
    BY <1>1 DEF Running
  <2>. QED BY <2>1, TaskAtHead, TaskKinds DEF Tasks
<1>3. /\ OneIn(Tail(micro)) /\ Tail(micro) \in Seq(Tasks)
      /\ \A v : HoldsIn(Tail(micro), v) <=> HoldsIn(micro, v) /\ v # u
  <2>1. \A v : Holds(Head(micro), v) <=> v = u
    BY <1>2, HoldsKinds DEF Task
  <2>. QED BY <1>2, <2>1, TailHolds, TaskAtHead, BackOf DEF FetchInv
<1>4. HoldsIn(micro, u)
  <2>1. 1 \in DOMAIN micro /\ micro[1] = Task
    BY <1>2, FirstAndRest, BackOf DEF Task
  <2>2. Holds(micro[1], u)
    BY <1>2, <2>1, HoldsKinds
  <2>. QED BY <2>1, <2>2 DEF HoldsIn
<1>5. u \in Uids
  BY <1>1, LoadRuns, LoadFields
<1> HIDE DEF u
<1>6. w \in WakeTasks /\ w.woken = u
  BY <1>5 DEF WakeTasks
<1>7. \A v : HoldsIn(<<w>>, v) <=> v = u
  BY <1>6, SingleHolds, HoldsKinds
<1>8. OneIn(<<w>>) /\ <<w>> \in Seq(Tasks) /\ w \in Tasks
  BY <1>6, SingleHolds DEF Tasks
<1> HIDE DEF w
<1>9. Append(Tail(micro), w) = Tail(micro) \o <<w>>
  BY <1>3, <1>8, AppendIsConcat
<1>10. OneIn(micro') /\ \A v : HoldsIn(micro', v) <=> HoldsIn(micro, v)
  <2>1. /\ OneIn(Tail(micro) \o <<w>>)
        /\ \A v : HoldsIn(Tail(micro) \o <<w>>, v) <=> HoldsIn(Tail(micro), v) \/ HoldsIn(<<w>>, v)
    BY <1>3, <1>7, <1>8, ConcatHolds
  <2>. QED BY <1>1, <1>3, <1>4, <1>7, <1>9, <2>1
<1>11. \A v : LoadsFor(v)' <=> LoadsFor(v)
  BY <1>1 DEF LoadsFor
<1>. QED BY <1>1, <1>10, <1>11 DEF FetchInv

\* The fetch that is over has its entry, which the continuation removes.
LEMMA WakeFetch ==
    ASSUME SyncTypes, FetchInv, Wake
    PROVE  Task.woken \in DOMAIN waiting /\ FetchInv'
<1> DEFINE u == Task.woken
<1>1. /\ micro' = Tail(micro) \o Resumed(u) /\ Running("woken") /\ UNCHANGED loads
      /\ DOMAIN waiting' = DOMAIN waiting \ {u}
  BY DEF Wake
<1>2. micro # <<>> /\ Task \in WakeTasks
  <2>1. micro # <<>> /\ "woken" \in DOMAIN Task
    BY <1>1 DEF Running
  <2>. QED BY <2>1, TaskAtHead, TaskKinds DEF Tasks
<1>3. /\ OneIn(Tail(micro)) /\ Tail(micro) \in Seq(Tasks)
      /\ \A v : HoldsIn(Tail(micro), v) <=> HoldsIn(micro, v) /\ v # u
  <2>1. \A v : Holds(Head(micro), v) <=> v = u
    BY <1>2, HoldsKinds DEF Task
  <2>. QED BY <1>2, <2>1, TailHolds, TaskAtHead, BackOf DEF FetchInv
<1>4. HoldsIn(micro, u)
  <2>1. 1 \in DOMAIN micro /\ micro[1] = Task
    BY <1>2, FirstAndRest, BackOf DEF Task
  <2>2. Holds(micro[1], u)
    BY <1>2, <2>1, HoldsKinds
  <2>. QED BY <2>1, <2>2 DEF HoldsIn
<1>5. u \in DOMAIN waiting /\ ~LoadsFor(u)
  BY <1>4 DEF FetchInv
<1> HIDE DEF u
<1>6. Resumed(u) \in Seq(ResumeTasks)
  BY <1>5, ResumedAre
<1>7. Resumed(u) \in Seq(Tasks) /\ OneIn(Resumed(u)) /\ \A v : ~HoldsIn(Resumed(u), v)
  BY <1>6, ResumesHold DEF Tasks
<1>8. OneIn(micro') /\ \A v : HoldsIn(micro', v) <=> HoldsIn(micro, v) /\ v # u
  BY <1>1, <1>3, <1>7, ConcatHolds
<1>9. \A v : LoadsFor(v)' <=> LoadsFor(v)
  BY <1>1 DEF LoadsFor
<1>10. FetchInv'
  BY <1>1, <1>5, <1>8, <1>9 DEF FetchInv
<1>. QED BY <1>5, <1>10 DEF u

LEMMA ResumeFetch ==
    ASSUME SyncTypes, FetchInv, Resume
    PROVE  FetchInv'
<1>1. /\ micro' = Tail(micro) /\ Running("resume") /\ UNCHANGED loads /\ UNCHANGED waiting
  BY DEF Resume
<1>2. micro # <<>> /\ Task \in ResumeTasks
  <2>1. micro # <<>> /\ "resume" \in DOMAIN Task
    BY <1>1 DEF Running
  <2>. QED BY <2>1, TaskAtHead, TaskKinds DEF Tasks
<1>3. OneIn(micro') /\ \A v : HoldsIn(micro', v) <=> HoldsIn(micro, v)
  <2>1. \A v : ~Holds(Head(micro), v)
    BY <1>2, HoldsKinds DEF Task
  <2>. QED BY <1>1, <1>2, <2>1, TailHolds, BackOf DEF FetchInv
<1>4. \A v : LoadsFor(v)' <=> LoadsFor(v)
  BY <1>1 DEF LoadsFor
<1>. QED BY <1>1, <1>3, <1>4 DEF FetchInv

\* The inductive invariant of SessionSync.
SyncInv == SyncTypes /\ FetchInv

LEMMA SyncInitInv == Init => SyncInv
<1>1. Init => FetchInv
  BY DEF Init, FetchInv, LoadsFor, HoldsIn, OneIn
<1>. QED BY <1>1, SyncInitTypes DEF SyncInv

LEMMA SyncNextInv == ASSUME SyncInv, [Next]_syncVars PROVE SyncInv'
<1>1. ASSUME NEW f \in Fronts, NEW u \in Uids,
             Login(f, u) \/ Logout(f, u) \/ Set(f, u) \/ Forward(f, u)
      PROVE  SyncInv'
  <2>1. SyncTypes'
    BY <1>1, LoginTypes, LogoutTypes, SetTypes, ForwardTypes DEF SyncInv
  <2>2. UNCHANGED backVars
    BY <1>1 DEF Login, Logout, Set, Forward
  <2>. QED BY <2>1, <2>2, FetchKept DEF backVars, SyncInv
<1>2. ASSUME NEW f \in Fronts, GetSession(f) \/ Reply(f) \/ Connect(f) \/ Disconnect(f)
      PROVE  SyncInv'
  <2>1. SyncTypes'
    BY <1>2, GetSessionTypes, ReplyTypes, ConnectTypes, DisconnectTypes DEF SyncInv
  <2>2. UNCHANGED backVars
    BY <1>2 DEF GetSession, Reply, Connect, Disconnect
  <2>. QED BY <2>1, <2>2, FetchKept DEF backVars, SyncInv
<1>3. ASSUME NEW f \in Fronts, Read(f) PROVE SyncInv'
  <2>1. UNCHANGED loads /\ UNCHANGED micro /\ UNCHANGED waiting
    BY <1>3 DEF Read
  <2>. QED BY <1>3, <2>1, ReadTypes, FetchKept DEF SyncInv
<1>4. ASSUME NEW l \in loads, LoadFails(l) PROVE SyncInv'
  BY <1>4, LoadFailsTypes, LoadFailsFetch DEF SyncInv
<1>5. CASE DecodeReply
  BY <1>5, DecodeReplyTypes, DecodeReplyFetch DEF SyncInv
<1>6. CASE DecodeMsg
  BY <1>6, DecodeMsgTypes, DecodeMsgFetch DEF SyncInv
<1>7. CASE Load
  BY <1>7, LoadTypes, LoadFetch DEF SyncInv
<1>8. CASE Wake
  <2>1. Task.woken \in DOMAIN waiting /\ FetchInv'
    BY <1>8, WakeFetch DEF SyncInv
  <2>. QED BY <1>8, <2>1, WakeTypes DEF SyncInv
<1>9. CASE Resume
  BY <1>9, ResumeTypes, ResumeFetch DEF SyncInv
<1>10. CASE Tick \/ Time
  <2>1. SyncTypes'
    BY <1>10, TickTypes, TimeTypes DEF SyncInv
  <2>2. UNCHANGED backVars
    BY <1>10 DEF Tick, Time
  <2>. QED BY <2>1, <2>2, FetchKept DEF backVars, SyncInv
<1>11. CASE UNCHANGED syncVars
  <2>1. UNCHANGED backVars
    BY <1>11 DEF syncVars
  <2>. QED BY <1>11, <2>1, SyncStutter, FetchKept DEF backVars, SyncInv
<1>. QED BY <1>1, <1>2, <1>3, <1>4, <1>5, <1>6, <1>7, <1>8, <1>9, <1>10, <1>11 DEF Next, BackStep

\* SyncInv holds of every reachable state: the values every variable takes, and how
\* the calls, the continuations and sessionFetchingMap belong together (fetchSession,
\* loadSession, handleMsg).
THEOREM SyncInvariance == Spec => []SyncInv
BY SyncInitInv, SyncNextInv, PTL DEF Spec

LEMMA AtMostOne ==
    ASSUME NEW S, \A x, y \in S : x = y
    PROVE  Cardinality(S) = IF S = {} THEN 0 ELSE 1
<1>1. CASE S = {}
  BY <1>1, FS_EmptySet
<1>2. CASE S # {}
  <2>1. PICK x : S = {x}
    BY <1>2
  <2>. QED BY <1>2, <2>1, FS_Singleton
<1>. QED BY <1>1, <1>2

\* A player's session is fetched at most once at a time, and sessionFetchingMap
\* has an entry for exactly the players whose fetch is under way (fetchSession,
\* loadSession).
THEOREM OneFetchAtATime == Spec => []OneFetch
<1>1. SyncInv => OneFetch
  <2> SUFFICES ASSUME SyncInv, NEW u \in Uids
               PROVE  FetchesOf(u) = IF u \in DOMAIN waiting THEN 1 ELSE 0
    BY DEF OneFetch
  <2> DEFINE L == {l \in loads : l.uid = u}
             M == {i \in DOMAIN micro : Holds(micro[i], u)}
  <2>1. FetchesOf(u) = Cardinality(L) + Cardinality(M)
    BY DEF FetchesOf, Holds
  <2>2. Cardinality(L) = IF L = {} THEN 0 ELSE 1
    <3>1. \A x, y \in L : x = y
      BY DEF SyncInv, FetchInv
    <3>. QED BY <3>1, AtMostOne
  <2>3. Cardinality(M) = IF M = {} THEN 0 ELSE 1
    <3>1. \A x, y \in M : x = y
      BY DEF SyncInv, FetchInv, OneIn
    <3>. QED BY <3>1, AtMostOne
  <2>4. (L # {} <=> LoadsFor(u)) /\ (M # {} <=> HoldsIn(micro, u))
    BY DEF LoadsFor, HoldsIn
  <2> HIDE DEF L, M
  <2>. QED BY <2>1, <2>2, <2>3, <2>4 DEF SyncInv, FetchInv
<1>. QED BY <1>1, SyncInvariance, PTL

(***************************************************************************)
(* What a queue has, and in which order.                                   *)
(***************************************************************************)

Precedes(s, x, y) == \E i, j \in DOMAIN s : i < j /\ s[i] = x /\ s[j] = y

LEMMA NothingHas ==
    /\ \A x : ~Has(<<>>, x)
    /\ \A x, y : ~Precedes(<<>>, x, y)
    /\ \A e, x : Has(<<e>>, x) <=> x = e
    /\ \A e, x, y : ~Precedes(<<e>>, x, y)
<1>1. DOMAIN <<>> = {}
  OBVIOUS
<1>2. \A e : DOMAIN <<e>> = {1} /\ <<e>>[1] = e
  OBVIOUS
<1>3. ~(1 < 1)
  OBVIOUS
<1>4. /\ \A x : ~Has(<<>>, x)
      /\ \A x, y : ~Precedes(<<>>, x, y)
  BY <1>1 DEF Has, Precedes
<1>5. ASSUME NEW e PROVE /\ \A x : Has(<<e>>, x) <=> x = e
                         /\ \A x, y : ~Precedes(<<e>>, x, y)
  <2> DEFINE s == <<e>>
  <2>1. DOMAIN s = {1} /\ s[1] = e
    BY <1>2
  <2> HIDE DEF s
  <2>2. /\ \A x : Has(s, x) <=> x = e
        /\ \A x, y : ~Precedes(s, x, y)
    BY <1>3, <2>1 DEF Has, Precedes
  <2>. QED BY <2>2 DEF s
<1>. QED BY <1>4, <1>5

LEMMA ConcatHas ==
    ASSUME NEW S, NEW s \in Seq(S), NEW t \in Seq(S)
    PROVE  /\ \A x : Has(s \o t, x) <=> Has(s, x) \/ Has(t, x)
           /\ \A x, y : Precedes(s \o t, x, y)
                        <=> Precedes(s, x, y) \/ Precedes(t, x, y) \/ (Has(s, x) /\ Has(t, y))
<1> DEFINE c == s \o t
           m == Len(s)
           n == Len(t)
<1>1. /\ m \in Nat /\ n \in Nat /\ DOMAIN s = 1..m /\ DOMAIN t = 1..n /\ DOMAIN c = 1..m + n
      /\ \A i \in 1..m + n : c[i] = IF i <= m THEN s[i] ELSE t[i - m]
  BY ConcatProperties
<1> HIDE DEF c, m, n
<1>2. \A i \in DOMAIN c : i \in Int /\ (i \in DOMAIN s \/ (i - m \in DOMAIN t /\ m < i))
  BY <1>1
<1>3. \A i \in DOMAIN s : i \in DOMAIN c /\ c[i] = s[i] /\ i \in Int /\ i <= m
  BY <1>1
<1>4. \A i \in DOMAIN t : i + m \in DOMAIN c /\ c[i + m] = t[i] /\ i \in Int /\ m < i + m
  <2> SUFFICES ASSUME NEW i \in DOMAIN t
               PROVE  i + m \in DOMAIN c /\ c[i + m] = t[i] /\ i \in Int /\ m < i + m
    OBVIOUS
  <2>1. i + m \in 1..m + n /\ ~(i + m <= m) /\ (i + m) - m = i /\ i \in Int /\ m < i + m
    BY <1>1
  <2>. QED BY <1>1, <2>1
<1>5. \A i \in DOMAIN c : i - m \in DOMAIN t => c[i] = t[i - m]
  BY <1>1
<1>6. \A x : Has(c, x) <=> Has(s, x) \/ Has(t, x)
  BY <1>2, <1>3, <1>4, <1>5 DEF Has
<1>7. ASSUME NEW x, NEW y, Precedes(c, x, y)
      PROVE  Precedes(s, x, y) \/ Precedes(t, x, y) \/ (Has(s, x) /\ Has(t, y))
  <2>1. PICK i \in DOMAIN c, j \in DOMAIN c : i < j /\ c[i] = x /\ c[j] = y
    BY <1>7 DEF Precedes
  <2>2. i \in Int /\ j \in Int
    BY <1>2
  <2>3. CASE i \in DOMAIN s /\ j \in DOMAIN s
    BY <1>3, <2>1, <2>3 DEF Precedes
  <2>4. CASE i \in DOMAIN s /\ j \notin DOMAIN s
    BY <1>2, <1>3, <1>5, <2>1, <2>4 DEF Has
  <2>5. CASE i \notin DOMAIN s
    <3>1. i - m \in DOMAIN t /\ c[i] = t[i - m] /\ m < i
      BY <1>2, <1>5, <2>5
    <3>2. m < j /\ j \notin DOMAIN s
      BY <1>1, <2>1, <2>2, <3>1
    <3>3. j - m \in DOMAIN t /\ c[j] = t[j - m] /\ i - m < j - m
      BY <1>1, <1>2, <1>5, <2>1, <2>2, <3>2
    <3>. QED BY <2>1, <3>1, <3>3 DEF Precedes
  <2>. QED BY <2>3, <2>4, <2>5
<1>8. ASSUME NEW x, NEW y, Precedes(s, x, y) \/ Precedes(t, x, y) \/ (Has(s, x) /\ Has(t, y))
      PROVE  Precedes(c, x, y)
  <2>1. CASE Precedes(s, x, y)
    BY <1>3, <2>1 DEF Precedes
  <2>2. CASE Precedes(t, x, y)
    <3>1. PICK i \in DOMAIN t, j \in DOMAIN t : i < j /\ t[i] = x /\ t[j] = y
      BY <2>2 DEF Precedes
    <3>2. i + m < j + m
      BY <1>1, <1>4, <3>1
    <3>. QED BY <1>4, <3>1, <3>2 DEF Precedes
  <2>3. CASE Has(s, x) /\ Has(t, y)
    <3>1. PICK i \in DOMAIN s, j \in DOMAIN t : s[i] = x /\ t[j] = y
      BY <2>3 DEF Has
    <3>2. i < j + m
      BY <1>1, <1>3, <1>4
    <3>. QED BY <1>3, <1>4, <3>1, <3>2 DEF Precedes
  <2>. QED BY <1>8, <2>1, <2>2, <2>3
<1>. QED BY <1>6, <1>7, <1>8 DEF c

LEMMA AppendHas ==
    ASSUME NEW S, NEW s \in Seq(S), NEW e \in S
    PROVE  /\ Append(s, e) \in Seq(S)
           /\ \A x : Has(Append(s, e), x) <=> Has(s, x) \/ x = e
           /\ \A x, y : Precedes(Append(s, e), x, y) <=> Precedes(s, x, y) \/ (Has(s, x) /\ y = e)
<1>1. Append(s, e) = s \o <<e>> /\ <<e>> \in Seq(S) /\ Append(s, e) \in Seq(S)
  BY AppendIsConcat
<1> DEFINE q == <<e>>
<1>2. /\ \A x : Has(q, x) <=> x = e
      /\ \A x, y : ~Precedes(q, x, y)
  BY NothingHas
<1>3. q \in Seq(S)
  BY <1>1
<1> HIDE DEF q
<1>4. /\ \A x : Has(s \o q, x) <=> Has(s, x) \/ Has(q, x)
      /\ \A x, y : Precedes(s \o q, x, y)
                   <=> Precedes(s, x, y) \/ Precedes(q, x, y) \/ (Has(s, x) /\ Has(q, y))
  BY <1>3, ConcatHas
<1>5. Append(s, e) = s \o q
  BY <1>1 DEF q
<1>. QED BY <1>1, <1>2, <1>4, <1>5

LEMMA AppendToSecond ==
    ASSUME NEW S, NEW s \in Seq(S), NEW t \in Seq(S), NEW q \in Seq(S)
    PROVE  (s \o t) \o q = s \o (t \o q)
BY ConcatAssociative

LEMMA HeadTailHas ==
    ASSUME NEW S, NEW s \in Seq(S), s # <<>>
    PROVE  /\ \A x : Has(s, x) <=> x = Head(s) \/ Has(Tail(s), x)
           /\ \A x, y : Precedes(s, x, y)
                        <=> Precedes(Tail(s), x, y) \/ (x = Head(s) /\ Has(Tail(s), y))
<1> DEFINE h == Head(s)
           t == Tail(s)
<1>1. h \in S /\ t \in Seq(S) /\ <<h>> \in Seq(S)
  BY FirstAndRest
<1>2. s = <<h>> \o t
  <2>1. /\ Len(s) \in Nat \ {0} /\ DOMAIN s = 1..Len(s) /\ h = s[1]
        /\ Len(t) = Len(s) - 1 /\ \A i \in 1..Len(s) - 1 : t[i] = s[i + 1]
    BY FirstAndRest
  <2> HIDE DEF h, t
  <2> DEFINE c == <<h>> \o t
  <2>2. /\ DOMAIN <<h>> = {1} /\ <<h>>[1] = h /\ Len(<<h>>) = 1
    OBVIOUS
  <2>3. /\ c \in Seq(S) /\ Len(c) = 1 + Len(t) /\ DOMAIN c = 1..1 + Len(t)
        /\ \A i \in 1..1 + Len(t) : c[i] = IF i <= 1 THEN <<h>>[i] ELSE t[i - 1]
    BY <1>1, <2>2, ConcatProperties
  <2> HIDE DEF c
  <2>4. 1 + Len(t) = Len(s)
    BY <2>1
  <2>5. \A i \in 1..Len(s) : c[i] = s[i]
    <3> SUFFICES ASSUME NEW i \in 1..Len(s) PROVE c[i] = s[i]
      OBVIOUS
    <3>1. CASE i = 1
      BY <2>1, <2>2, <2>3, <2>4, <3>1
    <3>2. CASE i # 1
      <4>1. ~(i <= 1) /\ i - 1 \in 1..Len(s) - 1 /\ (i - 1) + 1 = i
        BY <2>1, <3>2
      <4>. QED BY <2>1, <2>3, <2>4, <4>1
    <3>. QED BY <3>1, <3>2
  <2>6. c = s
    BY <2>1, <2>3, <2>4, <2>5
  <2>. QED BY <2>6 DEF c
<1> DEFINE q == <<h>>
<1>3. /\ \A x : Has(q, x) <=> x = h
      /\ \A x, y : ~Precedes(q, x, y)
  BY NothingHas
<1>4. q \in Seq(S) /\ t \in Seq(S) /\ s = q \o t
  BY <1>1, <1>2
<1> HIDE DEF q, h, t
<1>5. /\ \A x : Has(q \o t, x) <=> Has(q, x) \/ Has(t, x)
      /\ \A x, y : Precedes(q \o t, x, y)
                   <=> Precedes(q, x, y) \/ Precedes(t, x, y) \/ (Has(q, x) /\ Has(t, y))
  BY <1>4, ConcatHas
<1>6. /\ \A x : Has(s, x) <=> x = h \/ Has(t, x)
      /\ \A x, y : Precedes(s, x, y) <=> Precedes(t, x, y) \/ (x = h /\ Has(t, y))
  BY <1>3, <1>4, <1>5
<1>. QED BY <1>6 DEF h, t

LEMMA CutHas ==
    ASSUME NEW S, NEW s \in Seq(S), NEW n \in 0..Len(s)
    PROVE  /\ s = SubSeq(s, 1, n) \o SubSeq(s, n + 1, Len(s))
           /\ \A x : Has(s, x) <=> Has(SubSeq(s, 1, n), x) \/ Has(SubSeq(s, n + 1, Len(s)), x)
           /\ \A x, y : Precedes(SubSeq(s, 1, n), x, y) => Precedes(s, x, y)
<1> DEFINE a == SubSeq(s, 1, n)
           b == SubSeq(s, n + 1, Len(s))
<1>1. a \in Seq(S) /\ b \in Seq(S)
  BY Cut
<1>2. s = a \o b
  <2>1. Len(s) \in Nat
    OBVIOUS
  <2>2. 1 \in 1..Len(s) + 1 /\ n \in 1 - 1..Len(s) /\ Len(s) \in n..Len(s)
    BY <2>1
  <2>. QED BY <2>2, ConcatAdjacentSubSeq, SubSeqFull
<1> HIDE DEF a, b
<1>3. /\ \A x : Has(a \o b, x) <=> Has(a, x) \/ Has(b, x)
      /\ \A x, y : Precedes(a \o b, x, y)
                   <=> Precedes(a, x, y) \/ Precedes(b, x, y) \/ (Has(a, x) /\ Has(b, y))
  BY <1>1, ConcatHas
<1>4. /\ \A x : Has(s, x) <=> Has(a, x) \/ Has(b, x)
      /\ \A x, y : Precedes(a, x, y) => Precedes(s, x, y)
  BY <1>2, <1>3
<1>. QED BY <1>2, <1>4 DEF a, b

(***************************************************************************)
(* SessionSync: the versions of a session only grow, as long as its player *)
(* does not log in again and the version does not start again at 1.        *)
(***************************************************************************)

Bounded == MaxLogins <= 1 /\ MaxGen < VersionMax

\* The settings of a session are of its version or, in what a front end tells of
\* them a little later, newer.
MsgOK(s) == s.login = 1 /\ s.version = s.gen + 1
InfoOK(s) == s.login = 1 /\ s.version >= 1 /\ s.gen + 1 >= s.version

LoginsOK ==
    \A f \in Fronts, u \in Uids :
        /\ logins[f][u] <= 1
        /\ u \in DOMAIN clients[f] =>
              /\ logins[f][u] = 1 /\ MsgOK(clients[f][u]) /\ clients[f][u].gen <= MaxGen

\* The version that the session of u at f has reached.
Ceiling(f, u) ==
    IF u \in DOMAIN clients[f] THEN clients[f][u].version
    ELSE IF logins[f][u] = 0 THEN 0 ELSE VersionMax

\* A step leaves the session of u at f alone.
Untouched(f, u) ==
    /\ u \in DOMAIN clients'[f] <=> u \in DOMAIN clients[f]
    /\ u \in DOMAIN clients[f] => clients'[f][u] = clients[f][u]
    /\ logins'[f][u] = logins[f][u]
Rises(f, u) ==
    Ceiling(f, u) \in Nat /\ Ceiling(f, u)' \in Nat /\ Ceiling(f, u) <= Ceiling(f, u)'

LEMMA CeilingIs ==
    ASSUME Bounded, SyncTypes, LoginsOK, NEW f \in Fronts, NEW u \in Uids
    PROVE  /\ Ceiling(f, u) \in Nat /\ Ceiling(f, u) <= VersionMax
           /\ u \in DOMAIN clients[f] => Ceiling(f, u) = clients[f][u].version
           /\ logins[f][u] = 0 => Ceiling(f, u) = 0
           /\ logins[f][u] \in Nat /\ MaxGen \in Nat /\ VersionMax \in Nat \ {0}
<1>1. logins[f][u] \in Nat /\ MaxGen \in Nat /\ VersionMax \in Nat \ {0}
  BY ClientsOf, SyncAssumption DEF SyncAssumption
<1>2. CASE u \in DOMAIN clients[f]
  <2>1. clients[f][u] \in Sessions /\ MsgOK(clients[f][u]) /\ clients[f][u].gen <= MaxGen
        /\ logins[f][u] = 1
    BY <1>2, ClientsOf DEF LoginsOK
  <2>2. clients[f][u].version \in Nat /\ clients[f][u].version <= VersionMax
    BY <1>1, <2>1, SessionFields DEF MsgOK, Bounded
  <2>. QED BY <1>1, <1>2, <2>1, <2>2 DEF Ceiling
<1>3. CASE u \notin DOMAIN clients[f]
  BY <1>1, <1>3 DEF Ceiling
<1>. QED BY <1>1, <1>2, <1>3

LEMMA CeilingKept ==
    ASSUME Bounded, SyncTypes, LoginsOK, NEW f \in Fronts, NEW u \in Uids, Untouched(f, u)
    PROVE  Rises(f, u)
<1>1. Ceiling(f, u)' = Ceiling(f, u)
  BY DEF Ceiling, Untouched
<1>2. Ceiling(f, u) \in Nat
  BY CeilingIs
<1>. QED BY <1>1, <1>2 DEF Rises

\* One session is touched.
LEMMA OneTouched ==
    ASSUME Bounded, SyncTypes, LoginsOK, NEW f \in Fronts, NEW u \in Uids,
           \A g \in Fronts, v \in Uids : g # f \/ v # u => Untouched(g, v),
           logins'[f][u] <= 1,
           u \in DOMAIN clients'[f] => /\ logins'[f][u] = 1 /\ MsgOK(clients'[f][u])
                                       /\ clients'[f][u].gen <= MaxGen,
           Rises(f, u)
    PROVE  LoginsOK' /\ \A g \in Fronts, v \in Uids : Rises(g, v)
<1>1. \A g \in Fronts, v \in Uids : Rises(g, v)
  BY CeilingKept
<1>2. ASSUME NEW g \in Fronts, NEW v \in Uids
      PROVE  /\ logins'[g][v] <= 1
             /\ v \in DOMAIN clients'[g] =>
                   /\ logins'[g][v] = 1 /\ MsgOK(clients'[g][v]) /\ clients'[g][v].gen <= MaxGen
  <2>1. CASE g = f /\ v = u
    BY <2>1
  <2>2. CASE g # f \/ v # u
    BY <2>2 DEF LoginsOK, Untouched
  <2>. QED BY <2>1, <2>2
<1>3. LoginsOK'
  BY <1>2 DEF LoginsOK
<1>. QED BY <1>1, <1>3

LEMMA LoginRises ==
    ASSUME Bounded, SyncTypes, LoginsOK, NEW f \in Fronts, NEW u \in Uids, Login(f, u)
    PROVE  LoginsOK' /\ \A g \in Fronts, v \in Uids : Rises(g, v)
<1> DEFINE s == [version |-> 1, login |-> logins'[f][u], gen |-> 0]
           c == [v \in DOMAIN clients[f] \cup {u} |-> IF v = u THEN s ELSE clients[f][v]]
<1>1. /\ logins' = [logins EXCEPT ![f][u] = @ + 1] /\ clients' = [clients EXCEPT ![f] = c]
      /\ u \notin DOMAIN clients[f] /\ logins[f][u] < MaxLogins
  BY DEF Login
<1>2. logins[f][u] = 0
  <2>1. logins[f][u] \in Nat /\ MaxLogins \in Nat /\ MaxLogins <= 1
    BY ClientsOf, SyncAssumption DEF SyncAssumption, Bounded
  <2>. QED BY <1>1, <2>1
<1>3. logins \in [Fronts -> [Uids -> Nat]] /\ DOMAIN clients = Fronts
  BY ClientsOf DEF SyncTypes, ClientsOK
<1>4. /\ logins'[f][u] = 1
      /\ \A g \in Fronts, v \in Uids : g # f \/ v # u => logins'[g][v] = logins[g][v]
  BY <1>1, <1>2, <1>3
<1>5. s.version = 1 /\ s.login = 1 /\ s.gen = 0
  BY <1>4
<1> HIDE DEF s
<1>6. /\ DOMAIN c = DOMAIN clients[f] \cup {u} /\ c[u] = s
      /\ \A v \in DOMAIN clients[f] : v # u => c[v] = clients[f][v]
  OBVIOUS
<1> HIDE DEF c
<1>7. clients'[f] = c /\ \A g \in Fronts : g # f => clients'[g] = clients[g]
  BY <1>1, <1>3
<1>8. \A g \in Fronts, v \in Uids : g # f \/ v # u => Untouched(g, v)
  BY <1>4, <1>6, <1>7 DEF Untouched
<1>9. MaxGen \in Nat /\ Ceiling(f, u) = 0
  BY <1>2, CeilingIs
<1>10. Ceiling(f, u)' = 1
  BY <1>5, <1>6, <1>7 DEF Ceiling
<1>11. MsgOK(clients'[f][u]) /\ clients'[f][u].gen <= MaxGen
  BY <1>5, <1>6, <1>7, <1>9 DEF MsgOK
<1>. QED BY <1>4, <1>8, <1>9, <1>10, <1>11, OneTouched DEF Rises

LEMMA LogoutRises ==
    ASSUME Bounded, SyncTypes, LoginsOK, NEW f \in Fronts, NEW u \in Uids, Logout(f, u)
    PROVE  LoginsOK' /\ \A g \in Fronts, v \in Uids : Rises(g, v)
<1> DEFINE c == [v \in DOMAIN clients[f] \ {u} |-> clients[f][v]]
<1>1. logins' = logins /\ clients' = [clients EXCEPT ![f] = c] /\ u \in DOMAIN clients[f]
  BY DEF Logout
<1>2. DOMAIN c = DOMAIN clients[f] \ {u} /\ \A v \in DOMAIN clients[f] : v # u => c[v] = clients[f][v]
  OBVIOUS
<1> HIDE DEF c
<1>3. clients'[f] = c /\ \A g \in Fronts : g # f => clients'[g] = clients[g]
  BY <1>1, ClientsOf
<1>4. \A g \in Fronts, v \in Uids : g # f \/ v # u => Untouched(g, v)
  BY <1>1, <1>2, <1>3 DEF Untouched
<1>5. /\ logins[f][u] = 1 /\ Ceiling(f, u) <= VersionMax
      /\ Ceiling(f, u) \in Nat /\ VersionMax \in Nat
  BY <1>1, CeilingIs DEF LoginsOK
<1>6. Ceiling(f, u)' = VersionMax
  BY <1>1, <1>2, <1>3, <1>5 DEF Ceiling
<1>. QED BY <1>1, <1>2, <1>3, <1>4, <1>5, <1>6, OneTouched DEF Rises

LEMMA SetRises ==
    ASSUME Bounded, SyncTypes, LoginsOK, NEW f \in Fronts, NEW u \in Uids, Set(f, u)
    PROVE  LoginsOK' /\ \A g \in Fronts, v \in Uids : Rises(g, v)
<1> DEFINE s == clients[f][u]
           c == [v \in DOMAIN clients[f] |-> IF v = u THEN Changed(s) ELSE clients[f][v]]
<1>1. logins' = logins /\ clients' = [clients EXCEPT ![f] = c] /\ u \in DOMAIN clients[f]
      /\ s.gen < MaxGen
  BY SetEffect DEF Set
<1>2. s \in Sessions /\ MsgOK(s) /\ logins[f][u] = 1
  BY <1>1, ClientsOf DEF LoginsOK
<1>3. DOMAIN c = DOMAIN clients[f] /\ c[u] = Changed(s)
      /\ \A v \in DOMAIN clients[f] : v # u => c[v] = clients[f][v]
  BY <1>1
<1> HIDE DEF c
<1>4. clients'[f] = c /\ \A g \in Fronts : g # f => clients'[g] = clients[g]
  BY <1>1, ClientsOf
<1>5. \A g \in Fronts, v \in Uids : g # f \/ v # u => Untouched(g, v)
  BY <1>1, <1>3, <1>4 DEF Untouched
<1>6. Ceiling(f, u) = s.version /\ VersionMax \in Nat /\ MaxGen \in Nat
  BY <1>1, CeilingIs
<1> HIDE DEF s
<1>7. s.version \in Nat /\ s.gen \in Nat /\ s.login = 1 /\ s.version = s.gen + 1
  BY <1>2, SessionFields DEF MsgOK
<1>8. VersionAfter(s.version) = s.version + 1
  BY <1>1, <1>6, <1>7 DEF VersionAfter, Bounded
<1>9. Changed(s).version = s.version + 1 /\ Changed(s).login = 1 /\ Changed(s).gen = s.gen + 1
  BY <1>2, <1>7, <1>8, ChangedFields
<1>10. MsgOK(clients'[f][u]) /\ clients'[f][u].gen <= MaxGen
  BY <1>1, <1>3, <1>4, <1>6, <1>7, <1>9 DEF MsgOK
<1>11. Ceiling(f, u)' = s.version + 1
  BY <1>1, <1>3, <1>4, <1>9 DEF Ceiling
<1>12. Rises(f, u)
  BY <1>6, <1>7, <1>11 DEF Rises
<1>13. logins'[f][u] = 1
  BY <1>1, <1>2
<1>. QED BY <1>5, <1>10, <1>12, <1>13, OneTouched

LEMMA OthersRise ==
    ASSUME Bounded, SyncTypes, LoginsOK, UNCHANGED frontVars
    PROVE  LoginsOK' /\ \A g \in Fronts, v \in Uids : Rises(g, v)
<1>1. UNCHANGED clients /\ UNCHANGED logins
  BY DEF frontVars
<1>2. \A g \in Fronts, v \in Uids : Untouched(g, v)
  BY <1>1 DEF Untouched
<1>3. LoginsOK'
  BY <1>1 DEF LoginsOK
<1>. QED BY <1>2, <1>3, CeilingKept

(***************************************************************************)
(* SessionSync: what is on its way from a front end.                       *)
(***************************************************************************)

\* What comes from f, first of all what is being decoded (of some front end).
Line(f) == chunk \o chan[f]

\* Call c is of no load but one for u at f.
Matches(c, u, f) == c <= calls /\ \A l \in loads : l.call = c => l.uid = u /\ l.sid = f

Known(s) == s = NoSession \/ InfoOK(s)
ServedOK(s, f) ==
    Matches(s.call, s.uid, f) /\ Known(s.info) /\ s.info.version <= Ceiling(f, s.uid)
CallsOK ==
    /\ \A l \in loads : l.call <= calls
    /\ \A f \in Fronts : \A a : Has(asks[f], a) => Matches(a.call, a.uid, f)
    /\ \A f \in Fronts : \A s : Has(serving[f], s) => ServedOK(s, f)

\* A reply of f, and a message of f.
ReplyOK(x, f) ==
    /\ x.call <= calls /\ Known(x.info)
    /\ \A l \in loads : l.call = x.call /\ l.sid = f => x.info.version <= Ceiling(f, l.uid)
SentOK(x, f) ==
    x.n <= sent /\ MsgOK(x.session) /\ x.session.version <= Ceiling(f, x.uid)
ItemOK(x, f) == (x \in Replies => ReplyOK(x, f)) /\ (x \in Msgs /\ x.from = f => SentOK(x, f))
\* It is of f indeed.
ItemOf(x, f) ==
    /\ x \in Replies => \A l \in loads : l.call = x.call => l.sid = f
    /\ x \in Msgs => x.from = f

\* A message of f comes after earlier ones of its player, and after settings of
\* no later version.
Ordered(x, y, f) ==
    y \in Msgs /\ y.from = f =>
        /\ x \in Msgs /\ x.from = f /\ x.uid = y.uid
              => x.n < y.n /\ x.session.version <= y.session.version
        /\ x \in Replies => \A l \in loads : l.call = x.call /\ l.sid = f /\ l.uid = y.uid
                                => x.info.version <= y.session.version

LinesOK ==
    /\ \A f \in Fronts : \A x : Has(Line(f), x) => ItemOK(x, f)
    /\ \A f \in Fronts : \A x, y : Precedes(Line(f), x, y) => Ordered(x, y, f)
    /\ \A f \in Fronts : \A x : Has(chan[f], x) => ItemOf(x, f)

\* Numbers and versions grow, and loads get new calls.
Grows ==
    /\ sent \in Nat /\ sent' \in Nat /\ sent <= sent'
    /\ calls \in Nat /\ calls' \in Nat /\ calls <= calls'
    /\ loads \subseteq Loads /\ loads' \subseteq Loads
    /\ \A l \in loads' : l \in loads \/ (calls < l.call /\ l.call <= calls')
    /\ \A f \in Fronts, u \in Uids : Rises(f, u)

LEMMA MatchesKept ==
    ASSUME Grows, NEW c \in Nat, NEW u, NEW f, Matches(c, u, f)
    PROVE  Matches(c, u, f)'
<1>1. c <= calls'
  BY DEF Matches, Grows
<1>2. \A l \in loads' : l.call = c => l \in loads
  <2> SUFFICES ASSUME NEW l \in loads', l.call = c, l \notin loads PROVE FALSE
    OBVIOUS
  <2>1. calls < c /\ c <= calls /\ calls \in Nat
    BY DEF Grows, Matches
  <2>. QED BY <2>1
<1>. QED BY <1>1, <1>2 DEF Matches

LEMMA ServedKept ==
    ASSUME Grows, NEW f \in Fronts, NEW s \in Served, ServedOK(s, f)
    PROVE  ServedOK(s, f)'
<1>1. s.call \in Nat /\ s.uid \in Uids /\ s.info \in Sessions
  BY LaterFields
<1>2. s.info.version \in Nat /\ Rises(f, s.uid)
  BY <1>1, SessionFields DEF Grows
<1>3. s.info.version <= Ceiling(f, s.uid)'
  BY <1>2 DEF ServedOK, Rises
<1>4. Matches(s.call, s.uid, f)'
  BY <1>1, MatchesKept DEF ServedOK
<1>. QED BY <1>3, <1>4 DEF ServedOK

LEMMA ReplyFields ==
    ASSUME NEW x \in Replies PROVE x.call \in Nat /\ x.info \in Sessions /\ x.info.version \in Nat
BY SessionFields DEF Replies

LEMMA MsgVersion ==
    ASSUME NEW x \in Msgs
    PROVE  /\ x.n \in Nat /\ x.uid \in Uids /\ x.from \in Fronts
           /\ x.session.version \in Nat /\ x.session.gen \in Nat /\ x.session.login \in Nat
BY MsgFields, SessionFields

\* A reply is for no load that is new.
LEMMA OldLoad ==
    ASSUME Grows, NEW c \in Nat, c <= calls, NEW l \in loads', l.call = c
    PROVE  l \in loads
<1>1. CASE l \notin loads
  <2>1. calls < c /\ calls \in Nat
    BY <1>1 DEF Grows
  <2>. QED BY <2>1
<1>. QED BY <1>1

LEMMA ItemKept ==
    ASSUME Grows, NEW f \in Fronts, NEW x, ItemOK(x, f)
    PROVE  /\ ItemOK(x, f)'
           /\ ItemOf(x, f) => ItemOf(x, f)'
<1>1. ASSUME x \in Replies PROVE ReplyOK(x, f)' /\ \A l \in loads' : l.call = x.call => l \in loads
  <2>1. x.call \in Nat /\ x.info.version \in Nat /\ x.call <= calls /\ Known(x.info)
    BY <1>1, ReplyFields DEF ItemOK, ReplyOK
  <2>2. \A l \in loads' : l.call = x.call => l \in loads
    BY <2>1, OldLoad
  <2>3. x.call <= calls'
    BY <2>1 DEF Grows
  <2>4. ASSUME NEW l \in loads', l.call = x.call, l.sid = f
        PROVE  x.info.version <= Ceiling(f, l.uid)'
    <3>1. l \in loads /\ l.uid \in Uids
      BY <2>2, <2>4, LoadFields, NoneIsSession DEF Grows
    <3>2. x.info.version <= Ceiling(f, l.uid) /\ Rises(f, l.uid)
      BY <1>1, <2>4, <3>1 DEF ItemOK, ReplyOK, Grows
    <3>. QED BY <2>1, <3>2 DEF Rises
  <2>5. ReplyOK(x, f)'
    BY <2>1, <2>3, <2>4 DEF ReplyOK
  <2>. QED BY <2>2, <2>5
<1>2. ASSUME x \in Msgs, x.from = f PROVE SentOK(x, f)'
  <2>1. x.n \in Nat /\ x.uid \in Uids /\ x.session.version \in Nat
    BY <1>2, MsgVersion
  <2>2. SentOK(x, f) /\ Rises(f, x.uid)
    BY <1>2, <2>1 DEF ItemOK, Grows
  <2>3. x.n <= sent'
    BY <2>1, <2>2 DEF SentOK, Grows
  <2>4. x.session.version <= Ceiling(f, x.uid)'
    BY <2>1, <2>2 DEF SentOK, Rises
  <2>. QED BY <2>2, <2>3, <2>4 DEF SentOK
<1>3. ItemOK(x, f)'
  BY <1>1, <1>2 DEF ItemOK
<1>4. ItemOf(x, f) => ItemOf(x, f)'
  BY <1>1 DEF ItemOf
<1>. QED BY <1>3, <1>4

LEMMA OrderedKept ==
    ASSUME Grows, NEW f \in Fronts, NEW x, NEW y, Ordered(x, y, f), ItemOK(x, f)
    PROVE  Ordered(x, y, f)'
<1>1. ASSUME x \in Replies, NEW l \in loads', l.call = x.call PROVE l \in loads
  <2>1. x.call \in Nat /\ x.call <= calls
    BY <1>1, ReplyFields DEF ItemOK, ReplyOK
  <2>. QED BY <1>1, <2>1, OldLoad
<1>. QED BY <1>1 DEF Ordered

\* Nothing joins a line.
LEMMA LinesShrink ==
    ASSUME LinesOK, Grows,
           \A f \in Fronts : \A x : Has(Line(f)', x) => Has(Line(f), x),
           \A f \in Fronts : \A x, y : Precedes(Line(f)', x, y) => Precedes(Line(f), x, y),
           \A f \in Fronts : \A x : Has(chan'[f], x) => Has(chan[f], x) /\ Has(Line(f), x)
    PROVE  LinesOK'
<1>1. ASSUME NEW f \in Fronts, NEW x, Has(Line(f)', x) PROVE ItemOK(x, f)'
  BY <1>1, ItemKept DEF LinesOK
<1>2. ASSUME NEW f \in Fronts, NEW x, NEW y, Precedes(Line(f)', x, y) PROVE Ordered(x, y, f)'
  <2>1. Precedes(Line(f), x, y) /\ Has(Line(f), x)
    BY <1>2 DEF Precedes, Has
  <2>. QED BY <2>1, OrderedKept DEF LinesOK
<1>3. ASSUME NEW f \in Fronts, NEW x, Has(chan'[f], x) PROVE ItemOf(x, f)'
  BY <1>3, ItemKept DEF LinesOK
<1>. QED BY <1>1, <1>2, <1>3 DEF LinesOK

\* Item e joins the line of f.
LEMMA LineGrows ==
    ASSUME SyncTypes, LinesOK, Grows, NEW f \in Fronts, NEW e \in Msgs \cup Replies,
           chunk' = chunk, chan' = [chan EXCEPT ![f] = Append(chan[f], e)],
           ItemOK(e, f)', ItemOf(e, f)',
           \A x : Has(Line(f), x) => Ordered(x, e, f)'
    PROVE  /\ LinesOK'
           /\ \A g \in Fronts : \A x : Has(Line(g)', x) => Has(Line(g), x) \/ (g = f /\ x = e)
<1> DEFINE S == Msgs \cup Replies
<1>1. /\ \A g \in Fronts : chan[g] \in Seq(S) /\ chan'[g] = IF g = f THEN Append(chan[f], e) ELSE chan[g]
      /\ chunk \in Seq(S)
  BY WiresOf, BackOf
<1>2. \A g \in Fronts : Line(g) \in Seq(S) /\ \A x : Has(Line(g), x) <=> Has(chunk, x) \/ Has(chan[g], x)
  <2> SUFFICES ASSUME NEW g \in Fronts
               PROVE  Line(g) \in Seq(S) /\ \A x : Has(Line(g), x) <=> Has(chunk, x) \/ Has(chan[g], x)
    OBVIOUS
  <2>1. chan[g] \in Seq(S) /\ chunk \in Seq(S)
    BY <1>1
  <2>. QED BY <2>1, ConcatHas DEF Line
<1>3. \A g \in Fronts : Line(g)' = IF g = f THEN Append(Line(f), e) ELSE Line(g)
  <2>1. chunk \o Append(chan[f], e) = Append(chunk \o chan[f], e)
    <3>1. e \in S /\ chan[f] \in Seq(S) /\ chunk \in Seq(S) /\ chunk \o chan[f] \in Seq(S)
      BY <1>1, <1>2 DEF Line
    <3> HIDE DEF S
    <3> DEFINE q == <<e>>
    <3>2. Append(chan[f], e) = chan[f] \o q /\ q \in Seq(S)
      BY <3>1, AppendIsConcat
    <3>3. Append(chunk \o chan[f], e) = (chunk \o chan[f]) \o q
      BY <3>1, AppendIsConcat
    <3> HIDE DEF q
    <3>4. \A a, b, c \in Seq(S) : (a \o b) \o c = a \o (b \o c)
      BY AppendToSecond
    <3> HIDE DEF S
    <3>5. chunk \in Seq(S) /\ chan[f] \in Seq(S) /\ q \in Seq(S)
      BY <3>1, <3>2
    <3>6. (chunk \o chan[f]) \o q = chunk \o (chan[f] \o q)
      BY <3>4, <3>5
    <3>. QED BY <3>2, <3>3, <3>6
  <2> SUFFICES ASSUME NEW g \in Fronts PROVE Line(g)' = IF g = f THEN Append(Line(f), e) ELSE Line(g)
    OBVIOUS
  <2>2. Line(g)' = chunk \o chan'[g]
    BY DEF Line
  <2>3. Line(f) = chunk \o chan[f] /\ Line(g) = chunk \o chan[g]
    BY DEF Line
  <2>4. CASE g = f
    <3>1. chan'[g] = Append(chan[f], e)
      BY <1>1, <2>4
    <3>. QED BY <2>1, <2>2, <2>3, <2>4, <3>1
  <2>5. CASE g # f
    <3>1. chan'[g] = chan[g]
      BY <1>1, <2>5
    <3>. QED BY <2>2, <2>3, <2>5, <3>1
  <2>. QED BY <2>4, <2>5
<1>4. /\ \A x : Has(Append(Line(f), e), x) <=> Has(Line(f), x) \/ x = e
      /\ \A x, y : Precedes(Append(Line(f), e), x, y) <=> Precedes(Line(f), x, y) \/ (Has(Line(f), x) /\ y = e)
  BY <1>2, AppendHas
<1>5. \A x : Has(chan'[f], x) <=> Has(chan[f], x) \/ x = e
  BY <1>1, AppendHas
<1>6. ASSUME NEW g \in Fronts, NEW x, Has(Line(g)', x)
      PROVE  ItemOK(x, g)' /\ (Has(Line(g), x) \/ (g = f /\ x = e))
  BY <1>3, <1>4, <1>6, ItemKept DEF LinesOK
<1>7. ASSUME NEW g \in Fronts, NEW x, NEW y, Precedes(Line(g)', x, y) PROVE Ordered(x, y, g)'
  <2>1. CASE Precedes(Line(g), x, y)
    <3>1. Has(Line(g), x)
      BY <2>1 DEF Precedes, Has
    <3>. QED BY <2>1, <3>1, OrderedKept DEF LinesOK
  <2>2. CASE ~Precedes(Line(g), x, y)
    BY <1>3, <1>4, <1>7, <2>2
  <2>. QED BY <2>1, <2>2
<1>8. ASSUME NEW g \in Fronts, NEW x, Has(chan'[g], x) PROVE ItemOf(x, g)'
  <2>1. CASE Has(chan[g], x)
    <3>1. Has(Line(g), x)
      BY <1>2, <2>1
    <3>. QED BY <2>1, <3>1, ItemKept DEF LinesOK
  <2>2. CASE ~Has(chan[g], x)
    BY <1>1, <1>5, <1>8, <2>2
  <2>. QED BY <2>1, <2>2
<1>. QED BY <1>6, <1>7, <1>8 DEF LinesOK

(***************************************************************************)
(* SessionSync: each action keeps the lines in order.                      *)
(***************************************************************************)

Flow == LoginsOK /\ CallsOK /\ LinesOK

\* A message that joins a line has a new number and the version of its session.
Arrivals ==
    \A f \in Fronts : \A x : Has(Line(f)', x) /\ x \in Msgs /\ x.from = f =>
        Has(Line(f), x) \/ (sent < x.n /\ Ceiling(f, x.uid) <= x.session.version)

LEMMA LineHas ==
    ASSUME SyncTypes, NEW f \in Fronts
    PROVE  /\ Line(f) \in Seq(Msgs \cup Replies)
           /\ \A x : Has(Line(f), x) <=> Has(chunk, x) \/ Has(chan[f], x)
           /\ \A x : Has(Line(f), x) => x \in Msgs \cup Replies
           /\ \A x : Has(asks[f], x) => x \in Calls
           /\ \A x : Has(serving[f], x) => x \in Served
<1>1. /\ chunk \in Seq(Msgs \cup Replies) /\ chan[f] \in Seq(Msgs \cup Replies)
      /\ asks[f] \in Seq(Calls) /\ serving[f] \in Seq(Served)
  BY BackOf, WiresOf
<1>2. /\ Line(f) \in Seq(Msgs \cup Replies)
      /\ \A x : Has(Line(f), x) <=> Has(chunk, x) \/ Has(chan[f], x)
  BY <1>1, ConcatHas DEF Line
<1>3. ASSUME NEW S, NEW s \in Seq(S), NEW x, Has(s, x) PROVE x \in S
  BY <1>3 DEF Has
<1>. QED BY <1>1, <1>2, <1>3

LEMMA GrowsFrom ==
    ASSUME SyncTypes, loads' \subseteq loads, calls' = calls, sent' = sent \/ sent' = sent + 1,
           \A f \in Fronts, u \in Uids : Rises(f, u)
    PROVE  Grows
<1>1. sent \in Nat /\ calls \in Nat /\ loads \subseteq Loads
  BY DEF SyncTypes, WiresOK, BackOK
<1>2. sent' \in Nat /\ sent <= sent' /\ calls' \in Nat /\ calls <= calls'
  BY <1>1
<1>3. loads' \subseteq Loads /\ \A l \in loads' : l \in loads
  BY <1>1
<1>. QED BY <1>1, <1>2, <1>3 DEF Grows

LEMMA CallsKept ==
    ASSUME SyncTypes, CallsOK, Grows,
           \A f \in Fronts : \A a : Has(asks'[f], a) => Has(asks[f], a) \/ Matches(a.call, a.uid, f)',
           \A f \in Fronts : \A s : Has(serving'[f], s) => Has(serving[f], s) \/ ServedOK(s, f)'
    PROVE  CallsOK'
<1>1. ASSUME NEW l \in loads' PROVE l.call <= calls'
  <2>1. CASE l \in loads
    <3>1. l.call \in Nat /\ l.call <= calls
      BY <2>1, LoadFields, NoneIsSession DEF Grows, CallsOK
    <3>. QED BY <3>1 DEF Grows
  <2>. QED BY <2>1 DEF Grows
<1>2. ASSUME NEW f \in Fronts, NEW a, Has(asks'[f], a) PROVE Matches(a.call, a.uid, f)'
  <2>1. CASE Has(asks[f], a)
    <3>1. a \in Calls
      BY <2>1, LineHas
    <3>2. a.call \in Nat
      BY <3>1 DEF Calls
    <3>. QED BY <2>1, <3>2, MatchesKept DEF CallsOK
  <2>. QED BY <1>2, <2>1
<1>3. ASSUME NEW f \in Fronts, NEW s, Has(serving'[f], s) PROVE ServedOK(s, f)'
  <2>1. CASE Has(serving[f], s)
    <3>1. s \in Served
      BY <2>1, LineHas
    <3>. QED BY <2>1, <3>1, ServedKept DEF CallsOK
  <2>. QED BY <1>3, <2>1
<1>. QED BY <1>1, <1>2, <1>3 DEF CallsOK

\* Nothing moves, and nothing joins a line.
LEMMA FlowSame ==
    ASSUME SyncTypes, Flow, Grows, LoginsOK', UNCHANGED chunk, UNCHANGED chan
    PROVE  LinesOK' /\ Arrivals
<1>1. \A f \in Fronts : Line(f)' = Line(f)
  BY DEF Line
<1>2. \A f \in Fronts : \A x : Has(chan'[f], x) => Has(chan[f], x) /\ Has(Line(f), x)
  BY LineHas
<1>3. LinesOK'
  BY <1>1, <1>2, LinesShrink DEF Flow
<1>. QED BY <1>1, <1>3 DEF Arrivals

LEMMA ClientFlow ==
    ASSUME Bounded, SyncTypes, Flow, NEW f \in Fronts, NEW u \in Uids, Login(f, u) \/ Logout(f, u)
    PROVE  Flow' /\ Grows /\ Arrivals
<1>1. /\ UNCHANGED serving /\ UNCHANGED chan /\ UNCHANGED asks /\ UNCHANGED sent
      /\ UNCHANGED chunk /\ UNCHANGED loads /\ UNCHANGED calls
  BY DEF Login, Logout, linkVars, backVars
<1>2. LoginsOK' /\ Grows
  BY <1>1, LoginRises, LogoutRises, GrowsFrom DEF Flow
<1>3. CallsOK'
  BY <1>1, <1>2, CallsKept DEF Flow
<1>. QED BY <1>1, <1>2, <1>3, FlowSame DEF Flow

LEMMA SetFlow ==
    ASSUME Bounded, SyncTypes, Flow, NEW f \in Fronts, NEW u \in Uids, Set(f, u)
    PROVE  Flow' /\ Grows /\ Arrivals
<1>1. /\ UNCHANGED chan /\ UNCHANGED asks /\ UNCHANGED sent
      /\ UNCHANGED chunk /\ UNCHANGED loads /\ UNCHANGED calls
  BY DEF Set, linkVars, backVars
<1>2. LoginsOK' /\ Grows
  BY <1>1, SetRises, GrowsFrom DEF Flow
<1>3. \A g \in Fronts : \A s : Has(serving'[g], s) => Has(serving[g], s) \/ ServedOK(s, g)'
  <2>1. CASE serving' = serving
    BY <2>1
  <2>2. CASE serving' # serving
    <3>1. PICK x : /\ serving[f] # <<>> /\ x = serving[f][1] /\ x \in Served /\ x.uid = u
                   /\ x.info.login = clients[f][u].login
                   /\ serving' = [serving EXCEPT ![f] = <<Later(x)>>]
      BY <2>2, SetServing
    <3>2. Has(serving[f], x)
      BY <3>1, WiresOf, FirstAndRest DEF Has
    <3>3. ServedOK(x, f)'
      BY <1>2, <3>1, <3>2, ServedKept DEF Flow, CallsOK
    <3>4. /\ Later(x).call = x.call /\ Later(x).uid = x.uid
          /\ Later(x).info.version = x.info.version /\ Later(x).info.login = x.info.login
          /\ Later(x).info.gen = x.info.gen + 1 /\ x.info \in Sessions
      BY <3>1, LaterFields
    <3>5. InfoOK(Later(x).info)
      <4>1. u \in DOMAIN clients[f]
        BY DEF Set
      <4>2. x.info.login = 1
        BY <3>1, <4>1 DEF Flow, LoginsOK, MsgOK
      <4>3. InfoOK(x.info)
        BY <3>3, <4>2 DEF ServedOK, Known, NoSession
      <4>4. x.info.version \in Nat /\ x.info.gen \in Nat
        BY <3>4, SessionFields
      <4>. QED BY <3>4, <4>2, <4>3, <4>4 DEF InfoOK
    <3>6. ServedOK(Later(x), f)'
      BY <3>3, <3>4, <3>5 DEF ServedOK, Known, Matches
    <3>7. \A g \in Fronts : serving'[g] = IF g = f THEN <<Later(x)>> ELSE serving[g]
      BY <3>1, WiresOf
    <3>. QED BY <3>6, <3>7, NothingHas
  <2>. QED BY <2>1, <2>2
<1>4. CallsOK'
  BY <1>1, <1>2, <1>3, CallsKept DEF Flow
<1>. QED BY <1>1, <1>2, <1>4, FlowSame DEF Flow

LEMMA ForwardFlow ==
    ASSUME Bounded, SyncTypes, Flow, NEW f \in Fronts, NEW u \in Uids, Forward(f, u)
    PROVE  Flow' /\ Grows /\ Arrivals
<1>0. PICK m : m = [n |-> sent', uid |-> u, from |-> f, session |-> clients[f][u]]
  OBVIOUS
<1>1. /\ sent' = sent + 1 /\ chan' = [chan EXCEPT ![f] = Append(chan[f], m)]
      /\ u \in DOMAIN clients[f]
  BY <1>0 DEF Forward
<1>2. /\ UNCHANGED serving /\ UNCHANGED asks /\ UNCHANGED frontVars
      /\ UNCHANGED chunk /\ UNCHANGED loads /\ UNCHANGED calls
  BY DEF Forward, backVars
<1>3. LoginsOK' /\ Grows
  BY <1>1, <1>2, OthersRise, GrowsFrom DEF Flow
<1>4. sent \in Nat /\ sent' \in Nat
  BY <1>3 DEF Grows
<1>5. m \in Msgs /\ m.from = f /\ m.uid = u /\ m.n = sent + 1 /\ m.session = clients[f][u]
  BY <1>0, <1>1, <1>4, ClientsOf DEF Msgs
<1>6. /\ MsgOK(m.session) /\ m.session.version = Ceiling(f, u)
      /\ m.session.version = Ceiling(f, u)' /\ Ceiling(f, u) \in Nat
  <2>1. MsgOK(m.session) /\ m.session.version = Ceiling(f, u)
    BY <1>1, <1>5 DEF Flow, LoginsOK, Ceiling
  <2>2. Ceiling(f, u)' = Ceiling(f, u)
    BY <1>2 DEF Ceiling, frontVars
  <2>. QED BY <2>1, <2>2, CeilingIs DEF Flow
<1>7. ItemOK(m, f)' /\ ItemOf(m, f)'
  <2>1. m \notin Replies /\ m.n <= sent'
    BY <1>1, <1>4, <1>5, ItemKinds
  <2>. QED BY <1>5, <1>6, <2>1 DEF ItemOK, ItemOf, SentOK
<1>8. ASSUME NEW x, Has(Line(f), x) PROVE Ordered(x, m, f)'
  <2>1. ItemOK(x, f)
    BY <1>8 DEF Flow, LinesOK
  <2>2. ASSUME x \in Msgs, x.from = f, x.uid = u
        PROVE  x.n < m.n /\ x.session.version <= m.session.version
    <3>1. x.n <= sent /\ x.session.version <= Ceiling(f, u) /\ x.n \in Nat
      BY <2>1, <2>2, MsgVersion DEF ItemOK, SentOK
    <3>. QED BY <1>4, <1>5, <1>6, <3>1
  <2>3. ASSUME x \in Replies, NEW l \in loads', l.call = x.call, l.sid = f, l.uid = u
        PROVE  x.info.version <= m.session.version
    BY <1>2, <1>6, <2>1, <2>3 DEF ItemOK, ReplyOK
  <2>. QED BY <1>5, <2>2, <2>3 DEF Ordered
<1>9. LinesOK' /\ \A g \in Fronts : \A x : Has(Line(g)', x) => Has(Line(g), x) \/ (g = f /\ x = m)
  BY <1>1, <1>2, <1>3, <1>5, <1>7, <1>8, LineGrows DEF Flow
<1>10. Arrivals
  <2>1. sent < m.n /\ Ceiling(f, m.uid) <= m.session.version
    BY <1>4, <1>5, <1>6
  <2>. QED BY <1>9, <2>1 DEF Arrivals
<1>11. CallsOK'
  BY <1>2, <1>3, CallsKept DEF Flow
<1>. QED BY <1>3, <1>9, <1>10, <1>11 DEF Flow

LEMMA GetSessionFlow ==
    ASSUME Bounded, SyncTypes, Flow, NEW f \in Fronts, GetSession(f)
    PROVE  Flow' /\ Grows /\ Arrivals
<1>0. PICK a, s :
         /\ a = Head(asks[f])
         /\ s = [call |-> a.call, uid |-> a.uid,
                 info |-> IF a.uid \in DOMAIN clients[f] THEN clients[f][a.uid] ELSE NoSession]
  OBVIOUS
<1>1. /\ serving' = [serving EXCEPT ![f] = <<s>>]
      /\ asks' = [asks EXCEPT ![f] = Tail(asks[f])] /\ asks[f] # <<>>
  BY <1>0 DEF GetSession
<1>2. /\ UNCHANGED frontVars /\ UNCHANGED chan /\ UNCHANGED sent
      /\ UNCHANGED chunk /\ UNCHANGED loads /\ UNCHANGED calls
  BY DEF GetSession, backVars
<1>3. LoginsOK' /\ Grows
  BY <1>2, OthersRise, GrowsFrom DEF Flow
<1>4. a \in Calls /\ Has(asks[f], a) /\ \A x : Has(Tail(asks[f]), x) => Has(asks[f], x)
  <2>1. asks[f] \in Seq(Calls)
    BY WiresOf
  <2>. QED BY <1>0, <1>1, <2>1, HeadTailHas, FirstAndRest
<1>5. Matches(a.call, a.uid, f) /\ a.call \in Nat /\ a.uid \in Uids
  BY <1>4 DEF Flow, CallsOK, Calls
<1>6. s.call = a.call /\ s.uid = a.uid
      /\ s.info = IF a.uid \in DOMAIN clients[f] THEN clients[f][a.uid] ELSE NoSession
  BY <1>0
<1>7. ServedOK(s, f)'
  <2>1. Matches(s.call, s.uid, f)'
    BY <1>3, <1>5, <1>6, MatchesKept
  <2>2. Known(s.info) /\ s.info.version <= Ceiling(f, a.uid)
    <3>1. CASE a.uid \in DOMAIN clients[f]
      <4>1. MsgOK(s.info) /\ s.info \in Sessions /\ s.info.version = Ceiling(f, a.uid)
        BY <1>5, <1>6, <3>1, ClientsOf DEF Flow, LoginsOK, Ceiling
      <4>2. s.info.version \in Nat /\ s.info.gen \in Nat
        BY <4>1, SessionFields
      <4>. QED BY <4>1, <4>2 DEF MsgOK, InfoOK, Known
    <3>2. CASE a.uid \notin DOMAIN clients[f]
      <4>1. s.info = NoSession /\ Ceiling(f, a.uid) \in Nat
        BY <1>5, <1>6, <3>2, CeilingIs DEF Flow
      <4>. QED BY <4>1 DEF NoSession, Known
    <3>. QED BY <3>1, <3>2
  <2>3. Ceiling(f, a.uid)' = Ceiling(f, a.uid)
    BY <1>2 DEF Ceiling, frontVars
  <2>. QED BY <1>6, <2>1, <2>2, <2>3 DEF ServedOK
<1>8. \A g \in Fronts : /\ serving'[g] = IF g = f THEN <<s>> ELSE serving[g]
                        /\ asks'[g] = IF g = f THEN Tail(asks[f]) ELSE asks[g]
  BY <1>1, WiresOf
<1>9. CallsOK'
  BY <1>3, <1>4, <1>7, <1>8, NothingHas, CallsKept DEF Flow
<1>. QED BY <1>2, <1>3, <1>9, FlowSame DEF Flow

LEMMA ReplyFlow ==
    ASSUME Bounded, SyncTypes, Flow, NEW f \in Fronts, Reply(f)
    PROVE  Flow' /\ Grows /\ Arrivals
<1>0. PICK s, r : s = serving[f][1] /\ r = [call |-> s.call, info |-> s.info]
  OBVIOUS
<1>1. /\ chan' = [chan EXCEPT ![f] = Append(chan[f], r)]
      /\ serving' = [serving EXCEPT ![f] = <<>>] /\ serving[f] # <<>>
  BY <1>0 DEF Reply, AtRest
<1>2. /\ UNCHANGED frontVars /\ UNCHANGED asks /\ UNCHANGED sent
      /\ UNCHANGED chunk /\ UNCHANGED loads /\ UNCHANGED calls
  BY DEF Reply, backVars
<1>3. LoginsOK' /\ Grows
  BY <1>2, OthersRise, GrowsFrom DEF Flow
<1>4. s \in Served /\ Has(serving[f], s)
  BY <1>0, <1>1, WiresOf, FirstAndRest DEF Has
<1>5. ServedOK(s, f)' /\ r.call = s.call /\ r.info = s.info
  BY <1>0, <1>3, <1>4, ServedKept DEF Flow, CallsOK
<1>6. r \in Replies
  BY <1>0, <1>4, LaterFields DEF Replies
<1>7. ItemOK(r, f)' /\ ItemOf(r, f)'
  <2>1. r \notin Msgs
    BY <1>6, ItemKinds
  <2>. QED BY <1>5, <2>1 DEF ItemOK, ItemOf, ReplyOK, ServedOK, Matches
<1>8. \A x : Ordered(x, r, f)'
  BY <1>6, ItemKinds DEF Ordered
<1>9. LinesOK' /\ \A g \in Fronts : \A x : Has(Line(g)', x) => Has(Line(g), x) \/ (g = f /\ x = r)
  BY <1>1, <1>2, <1>3, <1>6, <1>7, <1>8, LineGrows DEF Flow
<1>10. Arrivals
  BY <1>6, <1>9, ItemKinds DEF Arrivals
<1>11. CallsOK'
  <2>1. \A g \in Fronts : serving'[g] = IF g = f THEN <<>> ELSE serving[g]
    BY <1>1, WiresOf
  <2>. QED BY <1>2, <1>3, <2>1, NothingHas, CallsKept DEF Flow
<1>. QED BY <1>3, <1>9, <1>10, <1>11 DEF Flow

LEMMA LineNext ==
    ASSUME SyncTypes', NEW f \in Fronts
    PROVE  /\ \A x : Has(Line(f)', x) <=> Has(chunk', x) \/ Has(chan'[f], x)
           /\ \A x, y : Precedes(Line(f)', x, y) <=>
                 Precedes(chunk', x, y) \/ Precedes(chan'[f], x, y) \/ (Has(chunk', x) /\ Has(chan'[f], y))
<1>1. chunk' \in Seq(Msgs \cup Replies) /\ chan'[f] \in Seq(Msgs \cup Replies)
  BY DEF SyncTypes, WiresOK, BackOK
<1>2. Line(f)' = chunk' \o chan'[f]
  BY DEF Line
<1>. QED BY <1>1, <1>2, ConcatHas

LEMMA LineNow ==
    ASSUME SyncTypes, NEW f \in Fronts
    PROVE  /\ \A x : Has(Line(f), x) <=> Has(chunk, x) \/ Has(chan[f], x)
           /\ \A x, y : Precedes(Line(f), x, y) <=>
                 Precedes(chunk, x, y) \/ Precedes(chan[f], x, y) \/ (Has(chunk, x) /\ Has(chan[f], y))
<1>1. chunk \in Seq(Msgs \cup Replies) /\ chan[f] \in Seq(Msgs \cup Replies)
  BY BackOf, WiresOf
<1>. QED BY <1>1, ConcatHas DEF Line

LEMMA QuietFlow ==
    ASSUME Bounded, SyncTypes, Flow, UNCHANGED frontVars, UNCHANGED serving, UNCHANGED chan,
           UNCHANGED asks, UNCHANGED sent, UNCHANGED chunk, loads' \subseteq loads, UNCHANGED calls
    PROVE  Flow' /\ Grows /\ Arrivals
<1>1. LoginsOK' /\ Grows
  BY OthersRise, GrowsFrom DEF Flow
<1>2. CallsOK'
  BY <1>1, CallsKept DEF Flow
<1>. QED BY <1>1, <1>2, FlowSame DEF Flow

LEMMA DisconnectFlow ==
    ASSUME Bounded, SyncTypes, SyncTypes', Flow, NEW f \in Fronts, Disconnect(f)
    PROVE  Flow' /\ Grows /\ Arrivals
<1>1. /\ UNCHANGED frontVars /\ UNCHANGED serving /\ UNCHANGED sent
      /\ UNCHANGED chunk /\ UNCHANGED loads /\ UNCHANGED calls
      /\ chan' = [chan EXCEPT ![f] = <<>>]
  BY DEF Disconnect, backVars
<1>2. LoginsOK' /\ Grows
  BY <1>1, OthersRise, GrowsFrom DEF Flow
<1>3. PICK n \in 0..Len(asks[f]) : asks' = [asks EXCEPT ![f] = SubSeq(asks[f], 1, n)]
  BY DEF Disconnect
<1>4. \A g \in Fronts : \A a : Has(asks'[g], a) => Has(asks[g], a)
  <2>1. \A a : Has(SubSeq(asks[f], 1, n), a) => Has(asks[f], a)
    BY WiresOf, CutHas
  <2>2. \A g \in Fronts : asks'[g] = IF g = f THEN SubSeq(asks[f], 1, n) ELSE asks[g]
    BY <1>3, WiresOf
  <2>. QED BY <2>1, <2>2
<1>5. CallsOK'
  BY <1>1, <1>2, <1>4, CallsKept DEF Flow
<1>6. \A g \in Fronts : chan'[g] = IF g = f THEN <<>> ELSE chan[g]
  BY <1>1, WiresOf
<1>7. /\ \A g \in Fronts : \A x : Has(chan'[g], x) => Has(chan[g], x)
      /\ \A g \in Fronts : \A x, y : Precedes(chan'[g], x, y) => Precedes(chan[g], x, y)
  BY <1>6, NothingHas
<1>8. /\ \A g \in Fronts : \A x : Has(Line(g)', x) => Has(Line(g), x)
      /\ \A g \in Fronts : \A x, y : Precedes(Line(g)', x, y) => Precedes(Line(g), x, y)
      /\ \A g \in Fronts : \A x : Has(chan'[g], x) => Has(chan[g], x) /\ Has(Line(g), x)
  BY <1>1, <1>7, LineNext, LineNow
<1>9. LinesOK'
  BY <1>2, <1>8, LinesShrink DEF Flow
<1>. QED BY <1>2, <1>5, <1>8, <1>9 DEF Flow, Arrivals

LEMMA ReadFlow ==
    ASSUME Bounded, SyncTypes, SyncTypes', Flow, NEW f \in Fronts, Read(f)
    PROVE  Flow' /\ Grows /\ Arrivals
<1>1. /\ UNCHANGED frontVars /\ UNCHANGED serving /\ UNCHANGED sent /\ UNCHANGED asks
      /\ UNCHANGED loads /\ UNCHANGED calls /\ chunk = <<>>
  BY DEF Read, Idle
<1>2. LoginsOK' /\ Grows
  BY <1>1, OthersRise, GrowsFrom DEF Flow
<1>3. CallsOK'
  BY <1>1, <1>2, CallsKept DEF Flow
<1>4. PICK n \in 1..Len(chan[f]) :
         /\ chunk' = SubSeq(chan[f], 1, n)
         /\ chan' = [chan EXCEPT ![f] = SubSeq(chan[f], n + 1, Len(chan[f]))]
  BY DEF Read
<1>5. n \in 0..Len(chan[f]) /\ chan[f] \in Seq(Msgs \cup Replies)
  BY WiresOf
<1>6. \A g \in Fronts : chan'[g] = IF g = f THEN SubSeq(chan[f], n + 1, Len(chan[f])) ELSE chan[g]
  BY <1>4, WiresOf
<1>7. /\ chan[f] = chunk' \o chan'[f]
      /\ \A x : Has(chan[f], x) <=> Has(chunk', x) \/ Has(chan'[f], x)
  <2> DEFINE a == SubSeq(chan[f], 1, n)
             b == SubSeq(chan[f], n + 1, Len(chan[f]))
  <2>1. chan[f] = a \o b /\ \A x : Has(chan[f], x) <=> Has(a, x) \/ Has(b, x)
    BY <1>5, CutHas
  <2>2. chunk' = a /\ chan'[f] = b
    BY <1>4, <1>6
  <2> HIDE DEF a, b
  <2>. QED BY <2>1, <2>2
<1>8. Line(f)' = chan[f]
  BY <1>7 DEF Line
<1>9. /\ \A g \in Fronts : \A x : Has(Line(g), x) <=> Has(chan[g], x)
      /\ \A g \in Fronts : \A x, y : Precedes(Line(g), x, y) <=> Precedes(chan[g], x, y)
  BY <1>1, LineNow, NothingHas
\* What is read is of f: it matters to no other line.
<1>10. \A x : Has(chunk', x) => Has(Line(f), x) /\ ItemOK(x, f)' /\ ItemOf(x, f)'
  BY <1>2, <1>7, <1>9, ItemKept DEF Flow, LinesOK
<1>11. ASSUME NEW g \in Fronts, g # f, NEW x, Has(chunk', x)
       PROVE  /\ ItemOK(x, g)' /\ ~(x \in Msgs /\ x.from = g)
              /\ \A y : Ordered(x, y, g)' /\ (Has(chunk', y) => Ordered(y, x, g)')
  <2>1. ItemOK(x, f)' /\ ItemOf(x, f)'
    BY <1>10, <1>11
  <2>2. ~(x \in Msgs /\ x.from = g)
    BY <1>11, <2>1 DEF ItemOf
  <2>3. x \in Replies => ReplyOK(x, g)'
    BY <1>11, <2>1 DEF ItemOf, ItemOK, ReplyOK
  <2>4. ItemOK(x, g)'
    BY <2>2, <2>3 DEF ItemOK
  <2>5. \A y : Ordered(x, y, g)' /\ Ordered(y, x, g)'
    BY <1>11, <2>1, <2>2 DEF Ordered, ItemOf
  <2>. QED BY <2>2, <2>4, <2>5
<1>12. ASSUME NEW g \in Fronts, NEW x, Has(Line(g)', x)
       PROVE  ItemOK(x, g)' /\ (x \in Msgs /\ x.from = g => Has(Line(g), x))
  <2>1. CASE Has(Line(g), x)
    BY <1>2, <2>1, ItemKept DEF Flow, LinesOK
  <2>2. CASE ~Has(Line(g), x)
    <3>1. g # f
      BY <1>8, <1>9, <1>12, <2>2
    <3>2. Has(chunk', x)
      BY <1>6, <1>9, <1>12, <2>2, <3>1, LineNext
    <3>. QED BY <1>11, <3>1, <3>2
  <2>. QED BY <2>1, <2>2
<1>13. ASSUME NEW g \in Fronts, NEW x, NEW y, Precedes(Line(g)', x, y) PROVE Ordered(x, y, g)'
  <2>1. CASE Precedes(Line(g), x, y)
    <3>1. Has(Line(g), x)
      BY <2>1 DEF Precedes, Has
    <3>. QED BY <1>2, <2>1, <3>1, OrderedKept DEF Flow, LinesOK
  <2>2. CASE ~Precedes(Line(g), x, y)
    <3>1. g # f
      BY <1>8, <1>9, <1>13, <2>2
    <3>2. Has(chunk', x)
      <4>1. Precedes(chunk', x, y) \/ Has(chunk', x)
        BY <1>6, <1>9, <1>13, <2>2, <3>1, LineNext
      <4>. QED BY <4>1 DEF Precedes, Has
    <3>. QED BY <1>11, <3>1, <3>2
  <2>. QED BY <2>1, <2>2
<1>14. ASSUME NEW g \in Fronts, NEW x, Has(chan'[g], x) PROVE ItemOf(x, g)'
  <2>1. Has(chan[g], x)
    BY <1>6, <1>7, <1>14
  <2>. QED BY <1>2, <1>9, <2>1, ItemKept DEF Flow, LinesOK
<1>15. LinesOK'
  BY <1>12, <1>13, <1>14 DEF LinesOK
<1>. QED BY <1>2, <1>3, <1>12, <1>15 DEF Flow, Arrivals

\* The first item of what is being decoded goes; loads may end, or begin.
LEMMA DecodedFlow ==
    ASSUME Bounded, SyncTypes, SyncTypes', Flow, Grows, LoginsOK', CallsOK', chunk # <<>>,
           chunk' = Tail(chunk), UNCHANGED chan
    PROVE  Flow' /\ Arrivals
<1>1. /\ \A x : Has(chunk', x) => Has(chunk, x)
      /\ \A x, y : Precedes(chunk', x, y) => Precedes(chunk, x, y)
  BY BackOf, HeadTailHas
<1>2. /\ \A g \in Fronts : \A x : Has(Line(g)', x) => Has(Line(g), x)
      /\ \A g \in Fronts : \A x, y : Precedes(Line(g)', x, y) => Precedes(Line(g), x, y)
      /\ \A g \in Fronts : \A x : Has(chan'[g], x) => Has(chan[g], x) /\ Has(Line(g), x)
  BY <1>1, LineNext, LineNow
<1>3. LinesOK'
  BY <1>2, LinesShrink DEF Flow
<1>. QED BY <1>2, <1>3 DEF Flow, Arrivals

LEMMA DecodeReplyFlow ==
    ASSUME Bounded, SyncTypes, SyncTypes', Flow, DecodeReply
    PROVE  Flow' /\ Grows /\ Arrivals
<1>1. /\ UNCHANGED frontVars /\ UNCHANGED serving /\ UNCHANGED sent /\ UNCHANGED asks
      /\ UNCHANGED chan /\ loads' \subseteq loads /\ UNCHANGED calls
      /\ chunk # <<>> /\ chunk' = Tail(chunk)
  BY DEF DecodeReply, linkVars
<1>2. LoginsOK' /\ Grows
  BY <1>1, OthersRise, GrowsFrom DEF Flow
<1>3. CallsOK'
  BY <1>1, <1>2, CallsKept DEF Flow
<1>. QED BY <1>1, <1>2, <1>3, DecodedFlow

LEMMA DecodeMsgFlow ==
    ASSUME Bounded, SyncTypes, SyncTypes', Flow, DecodeMsg
    PROVE  Flow' /\ Grows /\ Arrivals
<1>1. /\ UNCHANGED frontVars /\ UNCHANGED serving /\ UNCHANGED sent
      /\ UNCHANGED chan /\ chunk # <<>> /\ chunk' = Tail(chunk)
  BY DEF DecodeMsg
<1>2. PICK m : m = Head(chunk)
  OBVIOUS
<1>3. m \in Msgs /\ (HandleCached(m) \/ HandleNoNeed(m) \/ JoinFetch(m) \/ StartFetch(m))
  BY <1>2, MsgAtHead DEF DecodeMsg
<1>4. LoginsOK' /\ \A f \in Fronts, u \in Uids : Rises(f, u)
  BY <1>1, OthersRise DEF Flow
<1>5. CASE HandleCached(m) \/ HandleNoNeed(m) \/ JoinFetch(m)
  <2>1. UNCHANGED asks /\ UNCHANGED loads /\ UNCHANGED calls
    BY <1>5 DEF HandleCached, HandleNoNeed, JoinFetch
  <2>2. Grows
    BY <1>1, <1>4, <2>1, GrowsFrom
  <2>3. CallsOK'
    BY <1>1, <2>1, <2>2, CallsKept DEF Flow
  <2>. QED BY <1>1, <1>4, <2>2, <2>3, DecodedFlow
<1>6. CASE StartFetch(m)
  <2>1. PICK l, a : l = [call |-> calls', uid |-> m.uid, sid |-> m.from]
                    /\ a = [call |-> calls', uid |-> m.uid]
    OBVIOUS
  <2>2. /\ calls' = calls + 1 /\ loads' = loads \cup {l}
        /\ asks' = [asks EXCEPT ![m.from] = Append(asks[m.from], a)]
    BY <1>6, <2>1 DEF StartFetch
  <2>3. /\ calls \in Nat /\ calls' \in Nat /\ sent \in Nat /\ loads \subseteq Loads /\ loads' \subseteq Loads
    BY <2>2, BackOf DEF SyncTypes, BackOK, WiresOK
  <2>4. l.call = calls + 1 /\ l.uid = m.uid /\ l.sid = m.from /\ a.call = calls + 1 /\ a.uid = m.uid
    BY <2>1, <2>2
  <2>5. Grows
    BY <1>1, <1>4, <2>2, <2>3, <2>4 DEF Grows
  <2>6. Matches(a.call, a.uid, m.from)'
    <3>1. \A k \in loads : k.call # a.call
      <4> SUFFICES ASSUME NEW k \in loads PROVE k.call # a.call
        OBVIOUS
      <4>1. k.call \in Nat /\ k.call <= calls
        BY <2>3, LoadFields, NoneIsSession DEF Flow, CallsOK
      <4>. QED BY <2>3, <2>4, <4>1
    <3>. QED BY <2>2, <2>3, <2>4, <3>1 DEF Matches
  <2>7. \A g \in Fronts : \A x : Has(asks'[g], x) => Has(asks[g], x) \/ (g = m.from /\ x = a)
    <3>1. a \in Calls /\ m.from \in Fronts
      <4>1. m.uid \in Uids /\ m.from \in Fronts
        BY <1>3, MsgFields
      <4>. QED BY <2>1, <2>3, <4>1 DEF Calls
    <3>2. asks[m.from] \in Seq(Calls)
      BY <3>1, WiresOf
    <3>3. \A x : Has(Append(asks[m.from], a), x) <=> Has(asks[m.from], x) \/ x = a
      BY <3>1, <3>2, AppendHas
    <3>4. \A g \in Fronts : asks'[g] = IF g = m.from THEN Append(asks[m.from], a) ELSE asks[g]
      BY <2>2, <3>1, WiresOf
    <3>. QED BY <3>3, <3>4
  <2>8. CallsOK'
    BY <1>1, <2>5, <2>6, <2>7, CallsKept DEF Flow
  <2>. QED BY <1>1, <1>4, <2>5, <2>8, DecodedFlow
<1>. QED BY <1>3, <1>5, <1>6

LEMMA NextFlow ==
    ASSUME Bounded, SyncTypes, SyncTypes', Flow, [Next]_syncVars
    PROVE  Flow' /\ Grows /\ Arrivals
<1>1. ASSUME NEW f \in Fronts, NEW u \in Uids,
             Login(f, u) \/ Logout(f, u) \/ Set(f, u) \/ Forward(f, u)
      PROVE  Flow' /\ Grows /\ Arrivals
  BY <1>1, ClientFlow, SetFlow, ForwardFlow
<1>2. ASSUME NEW f \in Fronts,
             GetSession(f) \/ Reply(f) \/ Connect(f) \/ Disconnect(f) \/ Read(f)
      PROVE  Flow' /\ Grows /\ Arrivals
  <2>1. CASE Connect(f)
    BY <2>1, QuietFlow DEF Connect, backVars
  <2>. QED BY <1>2, <2>1, GetSessionFlow, ReplyFlow, DisconnectFlow, ReadFlow
<1>3. ASSUME NEW l \in loads, LoadFails(l) PROVE Flow' /\ Grows /\ Arrivals
  BY <1>3, QuietFlow DEF LoadFails, linkVars
<1>4. CASE DecodeReply \/ DecodeMsg
  BY <1>4, DecodeReplyFlow, DecodeMsgFlow
<1>5. CASE Load \/ Wake \/ Resume
  BY <1>5, QuietFlow DEF Load, Wake, Resume, linkVars
<1>6. CASE Tick \/ Time
  BY <1>6, QuietFlow DEF Tick, Time, linkVars, backVars
<1>7. CASE UNCHANGED syncVars
  BY <1>7, QuietFlow DEF syncVars, linkVars, backVars
<1>. QED BY <1>1, <1>2, <1>3, <1>4, <1>5, <1>6, <1>7 DEF Next, BackStep

LEMMA InitFlow == ASSUME Init PROVE Flow
<1>1. LoginsOK
  BY DEF Init, LoginsOK
<1>2. \A f \in Fronts : chan[f] = <<>> /\ asks[f] = <<>> /\ serving[f] = <<>> /\ chunk = <<>> /\ loads = {}
  BY DEF Init
<1>3. CallsOK
  <2>1. \A l \in loads : l.call <= calls
    BY DEF Init
  <2>2. ASSUME NEW f \in Fronts PROVE /\ \A a : ~Has(asks[f], a)
                                     /\ \A s : ~Has(serving[f], s)
    <3>1. asks[f] = <<>> /\ serving[f] = <<>>
      BY <1>2
    <3>. QED BY <3>1, NothingHas
  <2>. QED BY <2>1, <2>2 DEF CallsOK
<1>4. \A f \in Fronts : /\ \A x : ~Has(Line(f), x)
                        /\ \A x, y : ~Precedes(Line(f), x, y)
  BY <1>2, SyncInitTypes, LineNow, NothingHas
<1>5. LinesOK
  BY <1>2, <1>4, NothingHas DEF LinesOK
<1>. QED BY <1>1, <1>3, <1>5 DEF Flow

(***************************************************************************)
(* SessionSync: the messages of a player stay in order.                    *)
(***************************************************************************)

\* What is still to come from f of u has later numbers, or no earlier versions.
After(n, f, u) ==
    /\ n <= sent
    /\ \A x : Has(Line(f), x) /\ x \in Msgs /\ x.from = f /\ x.uid = u => n < x.n
Reaches(v, f, u) ==
    /\ v <= Ceiling(f, u)
    /\ \A x : Has(Line(f), x) /\ x \in Msgs /\ x.from = f /\ x.uid = u
                => v <= x.session.version

\* How far a message has come.
Waits(m) == \E u \in DOMAIN waiting : Has(waiting[u], m)
Resumes(m) == \E t \in ResumeTasks : Has(micro, t) /\ t.resume = m
Passed(m) == \E h : Has(handled, h) /\ h.msg = m

Earlier(m, o) == m.uid = o.uid /\ m.from = o.from => m.n < o.n

StagesOK ==
    /\ \A m : Passed(m) \/ Resumes(m) \/ Waits(m) => m \in Msgs /\ After(m.n, m.from, m.uid)
    /\ \A m, o : Passed(m) /\ Resumes(o) => Earlier(m, o)
    /\ \A m, o : Passed(m) /\ Waits(o) => Earlier(m, o)
    /\ \A m, o : Resumes(m) /\ Waits(o) => Earlier(m, o)
RowsOK ==
    /\ \A h, k : Precedes(handled, h, k) => Earlier(h.msg, k.msg)
    /\ \A t, r \in ResumeTasks : Precedes(micro, t, r) => Earlier(t.resume, r.resume)
    /\ \A u \in DOMAIN waiting :
          /\ \A m, o : Precedes(waiting[u], m, o) => Earlier(m, o)
          /\ \A m : Has(waiting[u], m) => m.uid = u

\* The session of u is cached as c; its fetch is over and has not resumed anyone.
Stored(u, c) == u \in Cached /\ Copy(u) = c
Wakes(u) == Has(micro, [woken |-> u])

CopyOK(c, u) == InfoOK(c) /\ Reaches(c.version, c.sid, u)
TaskOK(t) == Known(t.info) /\ Reaches(t.info.version, t.load.sid, t.load.uid)
WaiterOK(m) == MsgOK(m.session) /\ Reaches(m.session.version, m.from, m.uid)
\* m waits because what is cached is older.
Missed(m) ==
    \A c : Stored(m.uid, c) /\ c.sid = m.from /\ ~Wakes(m.uid) => c.version < m.session.version

VersionsOK ==
    /\ needSession => \A u, c : Stored(u, c) => CopyOK(c, u)
    /\ \A t \in LoadTasks : Has(micro, t) => TaskOK(t)
    /\ \A m : Waits(m) => WaiterOK(m) /\ Missed(m)

\* Messages are decoded before any is resumed; without a need for sessions none wait.
TurnsOK ==
    /\ chunk # <<>> => \A t : Has(micro, t) => t \in LoadTasks
    /\ ~needSession => loads = {} /\ micro = <<>> /\ DOMAIN waiting = {}

OrderInv == StagesOK /\ RowsOK /\ VersionsOK /\ TurnsOK

\* What holds of a stream goes on to hold.
LEMMA StreamKept ==
    ASSUME Grows, Arrivals, NEW f \in Fronts, NEW u \in Uids
    PROVE  /\ \A n \in Nat : After(n, f, u) => After(n, f, u)'
           /\ \A v \in Nat : Reaches(v, f, u) => Reaches(v, f, u)'
<1>1. /\ sent \in Nat /\ sent' \in Nat /\ sent <= sent'
      /\ Ceiling(f, u) \in Nat /\ Ceiling(f, u)' \in Nat /\ Ceiling(f, u) <= Ceiling(f, u)'
  BY DEF Grows, Rises
<1>2. \A x : Has(Line(f)', x) /\ x \in Msgs /\ x.from = f /\ x.uid = u =>
         /\ x.n \in Nat /\ x.session.version \in Nat
         /\ Has(Line(f), x) \/ (sent < x.n /\ Ceiling(f, u) <= x.session.version)
  BY MsgVersion DEF Arrivals
<1>3. ASSUME NEW n \in Nat, After(n, f, u) PROVE After(n, f, u)'
  <2>1. n <= sent'
    BY <1>1, <1>3 DEF After
  <2>2. ASSUME NEW x, Has(Line(f)', x), x \in Msgs, x.from = f, x.uid = u PROVE n < x.n
    <3>1. CASE Has(Line(f), x)
      BY <1>3, <2>2, <3>1 DEF After
    <3>2. CASE sent < x.n
      BY <1>1, <1>2, <1>3, <2>2, <3>2 DEF After
    <3>. QED BY <1>2, <2>2, <3>1, <3>2
  <2>. QED BY <2>1, <2>2 DEF After
<1>4. ASSUME NEW v \in Nat, Reaches(v, f, u) PROVE Reaches(v, f, u)'
  <2>1. v <= Ceiling(f, u)'
    BY <1>1, <1>4 DEF Reaches
  <2>2. ASSUME NEW x, Has(Line(f)', x), x \in Msgs, x.from = f, x.uid = u
        PROVE  v <= x.session.version
    <3>1. CASE Has(Line(f), x)
      BY <1>4, <2>2, <3>1 DEF Reaches
    <3>2. CASE Ceiling(f, u) <= x.session.version
      BY <1>1, <1>2, <1>4, <2>2, <3>2 DEF Reaches
    <3>. QED BY <1>2, <2>2, <3>1, <3>2
  <2>. QED BY <2>1, <2>2 DEF Reaches
<1>. QED BY <1>3, <1>4

LEMMA MsgKept ==
    ASSUME Grows, Arrivals, NEW m \in Msgs
    PROVE  /\ After(m.n, m.from, m.uid) => After(m.n, m.from, m.uid)'
           /\ WaiterOK(m) => WaiterOK(m)'
<1>1. m.n \in Nat /\ m.from \in Fronts /\ m.uid \in Uids /\ m.session.version \in Nat
  BY MsgVersion
<1>2. /\ \A n \in Nat : After(n, m.from, m.uid) => After(n, m.from, m.uid)'
      /\ \A v \in Nat : Reaches(v, m.from, m.uid) => Reaches(v, m.from, m.uid)'
  BY <1>1, StreamKept
<1>. QED BY <1>1, <1>2 DEF WaiterOK

LEMMA TaskKept ==
    ASSUME Grows, Arrivals, NEW t \in LoadTasks, TaskOK(t)
    PROVE  TaskOK(t)'
<1>1. t.load \in Loads /\ t.info \in Sessions
  BY TaskKinds
<1>2. t.load.uid \in Uids /\ t.load.sid \in Fronts /\ t.info.version \in Nat
  BY <1>1, LoadFields, SessionFields
<1>3. Reaches(t.info.version, t.load.sid, t.load.uid)'
  BY <1>2, StreamKept DEF TaskOK
<1>. QED BY <1>3 DEF TaskOK

LEMMA CopyOKKept ==
    ASSUME Grows, Arrivals, NEW u \in Uids, NEW c \in BackCopies, CopyOK(c, u)
    PROVE  CopyOK(c, u)'
<1>1. c.version \in Nat /\ c.sid \in Fronts
  BY CopyFields
<1>2. Reaches(c.version, c.sid, u)'
  BY <1>1, StreamKept DEF CopyOK
<1>. QED BY <1>2 DEF CopyOK

LEMMA StagedAre ==
    ASSUME SyncTypes
    PROVE  /\ \A m : Passed(m) \/ Resumes(m) \/ Waits(m) => m \in Msgs
           /\ \A u, c : Stored(u, c) => u \in Uids /\ c \in BackCopies
           /\ \A t : Has(micro, t) => t \in Tasks
           /\ \A h : Has(handled, h) => h.msg \in Msgs
<1>1. ASSUME NEW S, NEW s \in Seq(S), NEW x, Has(s, x) PROVE x \in S
  BY <1>1 DEF Has
<1>2. \A t : Has(micro, t) => t \in Tasks
  BY <1>1, BackOf
<1>3. \A h : Has(handled, h) => h.msg \in Msgs
  <2>1. handled \in Seq([msg : Msgs, how : Hows, with : BackCopies])
    BY DEF SyncTypes, DataOK
  <2>2. \A h : Has(handled, h) => h \in [msg : Msgs, how : Hows, with : BackCopies]
    BY <1>1, <2>1
  <2>. QED BY <2>2
<1>4. \A m : Waits(m) => m \in Msgs
  BY <1>1, BackOf DEF Waits
<1>5. \A m : Resumes(m) => m \in Msgs
  BY TaskKinds DEF Resumes
<1>6. \A u, c : Stored(u, c) => u \in Uids /\ c \in BackCopies
  BY CopyIs DEF Stored
<1>. QED BY <1>2, <1>3, <1>4, <1>5, <1>6 DEF Passed

\* No message moves.
LEMMA StagesSame ==
    ASSUME Grows, Arrivals, StagesOK, UNCHANGED handled, UNCHANGED waiting,
           \A m : Resumes(m)' => Resumes(m)
    PROVE  StagesOK'
<1>1. /\ \A m : Passed(m)' => Passed(m)
      /\ \A m : Waits(m)' => Waits(m)
  BY DEF Passed, Waits
<1>2. ASSUME NEW m, Passed(m)' \/ Resumes(m)' \/ Waits(m)'
      PROVE  m \in Msgs /\ After(m.n, m.from, m.uid)'
  <2>1. m \in Msgs /\ After(m.n, m.from, m.uid)
    BY <1>1, <1>2 DEF StagesOK
  <2>. QED BY <2>1, MsgKept
<1>3. \A m, o : /\ Passed(m)' /\ Resumes(o)' => Earlier(m, o)
                /\ Passed(m)' /\ Waits(o)' => Earlier(m, o)
                /\ Resumes(m)' /\ Waits(o)' => Earlier(m, o)
  BY <1>1 DEF StagesOK
<1>. QED BY <1>2, <1>3 DEF StagesOK

\* The versions, when no message joins those that wait.
LEMMA VersionsKept ==
    ASSUME SyncTypes, SyncTypes', Grows, Arrivals, VersionsOK, UNCHANGED needSession,
           \A m : Waits(m)' => Waits(m) /\ (Missed(m) => Missed(m)'),
           needSession => \A u, c : Stored(u, c)' => Stored(u, c) \/ CopyOK(c, u),
           \A t \in LoadTasks : Has(micro', t) => Has(micro, t) \/ TaskOK(t)'
    PROVE  VersionsOK'
<1>1. ASSUME needSession, NEW u, NEW c, Stored(u, c)' PROVE CopyOK(c, u)'
  <2>1. u \in Uids /\ c \in BackCopies
    <3>1. u \in Cached' /\ c = sessionMap'[u].data
      BY <1>1 DEF Stored, Copy
    <3>. QED BY <3>1 DEF SyncTypes, DataOK, CacheInv, MapOK, Cached
  <2>2. CopyOK(c, u)
    BY <1>1 DEF VersionsOK
  <2>. QED BY <2>1, <2>2, CopyOKKept
<1>2. ASSUME NEW t \in LoadTasks, Has(micro', t) PROVE TaskOK(t)'
  BY <1>2, TaskKept DEF VersionsOK
<1>3. ASSUME NEW m, Waits(m)' PROVE WaiterOK(m)' /\ Missed(m)'
  <2>1. Waits(m) /\ Missed(m)' /\ WaiterOK(m)
    BY <1>3 DEF VersionsOK
  <2>2. m \in Msgs
    BY <2>1, StagedAre
  <2>. QED BY <2>1, <2>2, MsgKept
<1>. QED BY <1>1, <1>2, <1>3 DEF VersionsOK

LEMMA OrderKept ==
    ASSUME SyncTypes, SyncTypes', Grows, Arrivals, OrderInv,
           UNCHANGED micro, UNCHANGED handled, UNCHANGED waiting, UNCHANGED needSession,
           loads' \subseteq loads,
           \A u, c : Stored(u, c)' => Stored(u, c),
           chunk = chunk' \/ micro = <<>>
    PROVE  OrderInv'
<1>1. StagesOK'
  <2>1. \A m : Resumes(m)' => Resumes(m)
    BY DEF Resumes
  <2>. QED BY <2>1, StagesSame DEF OrderInv
<1>2. RowsOK'
  BY DEF OrderInv, RowsOK
<1>3. VersionsOK'
  <2>1. \A m : Waits(m)' => Waits(m) /\ (Missed(m) => Missed(m)')
    BY DEF Waits, Missed, Wakes
  <2>. QED BY <2>1, VersionsKept DEF OrderInv
<1>4. TurnsOK'
  <2>1. chunk' # <<>> => \A t : Has(micro', t) => t \in LoadTasks
    BY NothingHas DEF OrderInv, TurnsOK
  <2>. QED BY <2>1 DEF OrderInv, TurnsOK
<1>. QED BY <1>1, <1>2, <1>3, <1>4 DEF OrderInv

\* What is cached, after each operation on the cache.
LEMMA StoredUpdated ==
    ASSUME SyncTypes, NEW u, NEW copy, UpdateSession(u, copy)
    PROVE  \A v, c : Stored(v, c)' => IF v = u THEN c = copy ELSE Stored(v, c)
<1>1. sessionMap' = [sessionMap EXCEPT ![u] = [data |-> copy, expireTime |-> ExpireTime, used |-> now]]
  BY DEF UpdateSession
<1>2. sessionMap = [v \in Cached |-> sessionMap[v]]
  BY DEF SyncTypes, CacheInv, MapOK
<1>3. /\ Cached' = Cached
      /\ \A v \in Cached : sessionMap'[v].data = IF v = u THEN copy ELSE sessionMap[v].data
  BY <1>1, <1>2 DEF Cached
<1>. QED BY <1>3 DEF Stored, Copy

LEMMA StoredAdded ==
    ASSUME SyncTypes, NEW u \in Uids, NEW copy, AddSession(u, copy)
    PROVE  \A v, c : Stored(v, c)' => IF v = u THEN c = copy ELSE Stored(v, c)
<1>1. \A v \in Cached' : IF v = u THEN sessionMap'[v] = Used(copy)
                         ELSE v \in Cached /\ sessionMap'[v] = sessionMap[v]
  BY AddEffect DEF SyncTypes
<1>2. Used(copy).data = copy
  BY DEF Used
<1>. QED BY <1>1, <1>2 DEF Stored, Copy

LEMMA StoredFewer ==
    ASSUME SyncTypes, (\E u : DelSession(u)) \/ CheckExpire \/ Clock \/ UNCHANGED sessionMap
    PROVE  \A v, c : Stored(v, c)' => Stored(v, c)
<1>1. ASSUME NEW u, DelSession(u) PROVE \A v, c : Stored(v, c)' => Stored(v, c)
  <2>1. sessionMap' = [v \in Cached \ {u} |-> sessionMap[v]]
    BY <1>1 DEF DelSession
  <2>. QED BY <2>1 DEF Stored, Copy, Cached
<1>2. CASE CheckExpire
  <2>1. \A v \in Cached' : v \in Cached /\ sessionMap'[v] = sessionMap[v]
    BY <1>2, ExpireEffect DEF SyncTypes
  <2>. QED BY <2>1 DEF Stored, Copy
<1>3. CASE Clock \/ UNCHANGED sessionMap
  <2>1. sessionMap' = sessionMap
    BY <1>3 DEF Clock, mapVars
  <2>. QED BY <2>1 DEF Stored, Copy, Cached
<1>. QED BY <1>1, <1>2, <1>3

\* What is decoded comes before everything else of its line.
LEMMA HeadFirst ==
    ASSUME SyncTypes, SyncTypes', chunk # <<>>, chunk' = Tail(chunk), UNCHANGED chan,
           NEW f \in Fronts
    PROVE  /\ Has(Line(f), Head(chunk))
           /\ \A x : Has(Line(f)', x) => Precedes(Line(f), Head(chunk), x)
<1>1. /\ Has(chunk, Head(chunk))
      /\ \A x : Has(chunk', x) => Precedes(chunk, Head(chunk), x)
  BY BackOf, HeadTailHas
<1>. QED BY <1>1, LineNow, LineNext

LEMMA NothingLeft ==
    ASSUME NEW S, NEW s \in Seq(S), \A x : ~Has(s, x)
    PROVE  s = <<>>
<1>1. s # <<>> => Has(s, Head(s))
  BY HeadTailHas
<1>. QED BY <1>1

LEMMA DecodeReplyOrder ==
    ASSUME SyncTypes, SyncTypes', Flow, Grows, Arrivals, OrderInv, DecodeReply
    PROVE  OrderInv'
<1>0. PICK h, q : h = Head(chunk) /\ q = SetToSeq(ResumedLoads(h))
  OBVIOUS
<1>1. /\ h \in Replies /\ h.info \in Sessions /\ chunk # <<>>
      /\ loads' = loads \ {k \in loads : k.call = h.call}
      /\ q \in Seq(LoadTasks) /\ micro' = micro \o q
      /\ \A t : Has(q, t) <=> t \in ResumedLoads(h)
  BY <1>0, DecodeReplyEffect
<1>2. /\ UNCHANGED cacheVars /\ UNCHANGED needSession /\ UNCHANGED chan /\ UNCHANGED waiting
      /\ UNCHANGED handled /\ chunk' = Tail(chunk)
  BY DEF DecodeReply, linkVars
<1>3. /\ \A t : Has(micro', t) <=> Has(micro, t) \/ Has(q, t)
      /\ \A t, r : Precedes(micro', t, r) <=>
            Precedes(micro, t, r) \/ Precedes(q, t, r) \/ (Has(micro, t) /\ Has(q, r))
  <2>1. q \in Seq(Tasks) /\ micro \in Seq(Tasks)
    BY <1>1, BackOf DEF Tasks
  <2>. QED BY <1>1, <2>1, ConcatHas
<1>4. /\ \A t : Has(q, t) => t \in LoadTasks /\ t \notin ResumeTasks
      /\ \A t, r : Precedes(q, t, r) => Has(q, r)
  <2>1. \A t : Has(q, t) => t \in LoadTasks
    BY <1>1 DEF Has
  <2>. QED BY <2>1, TaskKinds DEF Precedes, Has
<1>5. StagesOK'
  <2>1. \A m : Resumes(m)' => Resumes(m)
    BY <1>3, <1>4 DEF Resumes
  <2>. QED BY <1>2, <2>1, StagesSame DEF OrderInv
<1>6. RowsOK'
  BY <1>2, <1>3, <1>4 DEF OrderInv, RowsOK
<1>7. ASSUME NEW t \in LoadTasks, Has(q, t) PROVE TaskOK(t)'
  <2>1. PICK l \in loads : l.call = h.call /\ t = Loaded(l, h.info)
    BY <1>1, <1>7 DEF ResumedLoads
  <2>2. l.uid \in Uids /\ l.sid \in Fronts /\ t.load = l /\ t.info = h.info
    BY <1>1, <2>1, BackOf, LoadFields
  <2>3. /\ Has(Line(l.sid), h)
        /\ \A x : Has(Line(l.sid)', x) => Precedes(Line(l.sid), h, x)
    BY <1>0, <1>1, <1>2, <2>2, HeadFirst
  <2>4. ReplyOK(h, l.sid)
    BY <1>1, <2>2, <2>3 DEF Flow, LinesOK, ItemOK
  <2>5. Known(h.info) /\ h.info.version <= Ceiling(l.sid, l.uid)
    BY <2>1, <2>4 DEF ReplyOK
  <2>6. h.info.version <= Ceiling(l.sid, l.uid)'
    <3>1. h.info.version \in Nat /\ Rises(l.sid, l.uid)
      BY <1>1, <2>2, SessionFields DEF Grows
    <3>. QED BY <2>5, <3>1 DEF Rises
  <2>7. ASSUME NEW x, Has(Line(l.sid)', x), x \in Msgs, x.from = l.sid, x.uid = l.uid
        PROVE  h.info.version <= x.session.version
    <3>1. Ordered(h, x, l.sid)
      BY <2>2, <2>3, <2>7 DEF Flow, LinesOK
    <3>. QED BY <1>1, <2>1, <2>7, <3>1 DEF Ordered
  <2>8. Reaches(h.info.version, l.sid, l.uid)'
    BY <2>6, <2>7 DEF Reaches
  <2>. QED BY <2>2, <2>5, <2>8 DEF TaskOK
<1>8. VersionsOK'
  <2>1. \A m : Waits(m)' => Waits(m) /\ (Missed(m) => Missed(m)')
    <3>1. \A u, c : Stored(u, c)' => Stored(u, c)
      BY <1>2, StoredFewer DEF cacheVars, mapVars
    <3>. QED BY <1>2, <1>3, <3>1 DEF Waits, Missed, Wakes
  <2>2. \A u, c : Stored(u, c)' => Stored(u, c)
    BY <1>2, StoredFewer DEF cacheVars, mapVars
  <2>3. \A t \in LoadTasks : Has(micro', t) => Has(micro, t) \/ TaskOK(t)'
    BY <1>3, <1>7
  <2>. QED BY <1>2, <2>1, <2>2, <2>3, VersionsKept DEF OrderInv
<1>9. TurnsOK'
  <2>1. chunk' # <<>> => \A t : Has(micro', t) => t \in LoadTasks
    BY <1>1, <1>3, <1>4 DEF OrderInv, TurnsOK
  <2>2. ASSUME ~needSession PROVE loads' = {} /\ micro' = <<>> /\ DOMAIN waiting' = {}
    <3>1. loads = {} /\ micro = <<>> /\ DOMAIN waiting = {}
      BY <2>2 DEF OrderInv, TurnsOK
    <3>2. \A t : ~Has(micro', t)
      BY <1>1, <1>3, <3>1, NothingHas DEF ResumedLoads
    <3>3. micro' \in Seq(Tasks)
      BY DEF SyncTypes, BackOK
    <3>. QED BY <1>1, <1>2, <3>1, <3>2, <3>3, NothingLeft
  <2>. QED BY <1>2, <2>1, <2>2 DEF TurnsOK
<1>. QED BY <1>5, <1>6, <1>8, <1>9 DEF OrderInv

LEMMA LoadFailsOrder ==
    ASSUME SyncTypes, SyncTypes', Flow, Grows, Arrivals, OrderInv, NEW l \in loads, LoadFails(l)
    PROVE  OrderInv'
<1>0. PICK t : t = Loaded(l, NoSession)
  OBVIOUS
<1>1. /\ micro = <<>> /\ micro' = <<t>> /\ chunk' = <<>>
      /\ UNCHANGED cacheVars /\ UNCHANGED needSession /\ UNCHANGED waiting /\ UNCHANGED handled
  BY <1>0 DEF LoadFails, Idle
<1>2. t \in LoadTasks /\ t.load = l /\ t.info = NoSession /\ l.uid \in Uids /\ l.sid \in Fronts
  BY <1>0, BackOf, LoadFields, NoneIsSession
<1>3. /\ \A r : Has(micro', r) <=> r = t
      /\ \A r, s : ~Precedes(micro', r, s)
      /\ \A r : ~Has(micro, r)
  BY <1>1, NothingHas
<1>4. StagesOK'
  <2>1. \A m : Resumes(m)' => Resumes(m)
    BY <1>2, <1>3, TaskKinds DEF Resumes
  <2>. QED BY <1>1, <2>1, StagesSame DEF OrderInv
<1>5. RowsOK'
  BY <1>1, <1>3 DEF OrderInv, RowsOK
<1>6. TaskOK(t)'
  <2>1. t.info.version = 0 /\ Known(t.info)
    BY <1>2 DEF NoSession, Known
  <2>2. 0 <= Ceiling(l.sid, l.uid)'
    BY <1>2 DEF Grows, Rises
  <2>3. \A x \in Msgs : 0 <= x.session.version
    BY MsgVersion
  <2>4. Reaches(0, l.sid, l.uid)'
    BY <2>2, <2>3 DEF Reaches
  <2>. QED BY <1>2, <2>1, <2>4 DEF TaskOK
<1>7. VersionsOK'
  <2>1. \A u, c : Stored(u, c)' => Stored(u, c)
    BY <1>1, StoredFewer DEF cacheVars, mapVars
  <2>2. \A m : Waits(m)' => Waits(m) /\ (Missed(m) => Missed(m)')
    BY <1>1, <1>3, <2>1 DEF Waits, Missed, Wakes
  <2>. QED BY <1>1, <1>3, <1>6, <2>1, <2>2, VersionsKept DEF OrderInv
<1>8. TurnsOK'
  BY <1>1 DEF OrderInv, TurnsOK
<1>. QED BY <1>4, <1>5, <1>7, <1>8 DEF OrderInv

LEMMA AppendsHandled ==
    ASSUME SyncTypes, SyncTypes', NEW h, handled' = Append(handled, h)
    PROVE  /\ \A x : Has(handled', x) <=> Has(handled, x) \/ x = h
           /\ \A x, y : Precedes(handled', x, y) <=> Precedes(handled, x, y) \/ (Has(handled, x) /\ y = h)
<1> DEFINE R == [msg : Msgs, how : Hows, with : BackCopies]
           S == R \cup {h}
<1>1. handled \in Seq(R)
  BY DEF SyncTypes, DataOK
<1> HIDE DEF R
<1>2. handled \in Seq(S) /\ h \in S
  BY <1>1
<1> HIDE DEF S
<1>. QED BY <1>2, AppendHas

\* The message that is decoded: later than all that are past its line, with no
\* older version, and before all that are still to come.
LEMMA HeadMsg ==
    ASSUME SyncTypes, SyncTypes', Flow, Grows, Arrivals, OrderInv, DecodeMsg,
           NEW m, m = Head(chunk)
    PROVE  /\ m \in Msgs /\ MsgOK(m.session) /\ Has(Line(m.from), m)
           /\ After(m.n, m.from, m.uid)' /\ WaiterOK(m)'
           /\ \A o : Passed(o) \/ Resumes(o) \/ Waits(o) => Earlier(o, m)
           /\ \A o : ~Resumes(o)
           /\ \A v : Reaches(v, m.from, m.uid) => v <= m.session.version
<1>1. m \in Msgs /\ chunk # <<>> /\ chunk' = Tail(chunk) /\ UNCHANGED chan
  BY MsgAtHead DEF DecodeMsg
<1>2. m.n \in Nat /\ m.uid \in Uids /\ m.from \in Fronts /\ m.session.version \in Nat
  BY <1>1, MsgVersion
<1>3. /\ Has(Line(m.from), m)
      /\ \A x : Has(Line(m.from)', x) => Precedes(Line(m.from), m, x)
  BY <1>1, <1>2, HeadFirst
<1>4. SentOK(m, m.from)
  BY <1>1, <1>2, <1>3 DEF Flow, LinesOK, ItemOK
<1>5. ASSUME NEW x, Has(Line(m.from)', x), x \in Msgs, x.from = m.from, x.uid = m.uid
      PROVE  m.n < x.n /\ m.session.version <= x.session.version
  <2>1. Ordered(m, x, m.from)
    BY <1>2, <1>3, <1>5 DEF Flow, LinesOK
  <2>. QED BY <1>1, <1>5, <2>1 DEF Ordered
<1>6. m.n <= sent' /\ m.session.version <= Ceiling(m.from, m.uid)'
  <2>1. sent \in Nat /\ sent' \in Nat /\ sent <= sent' /\ Rises(m.from, m.uid)
    BY <1>2 DEF Grows
  <2>. QED BY <1>2, <1>4, <2>1 DEF SentOK, Rises
<1>7. After(m.n, m.from, m.uid)' /\ WaiterOK(m)' /\ MsgOK(m.session)
  BY <1>4, <1>5, <1>6 DEF After, Reaches, WaiterOK, SentOK
<1>8. ASSUME NEW o, Passed(o) \/ Resumes(o) \/ Waits(o) PROVE Earlier(o, m)
  <2>1. After(o.n, o.from, o.uid)
    BY <1>8 DEF OrderInv, StagesOK
  <2>. QED BY <1>1, <1>3, <2>1 DEF After, Earlier
<1>9. \A o : ~Resumes(o)
  BY <1>1, TaskKinds DEF OrderInv, TurnsOK, Resumes
<1>10. \A v : Reaches(v, m.from, m.uid) => v <= m.session.version
  BY <1>1, <1>3 DEF Reaches
<1>. QED BY <1>1, <1>3, <1>7, <1>8, <1>9, <1>10

\* The message at the head of what is decoded is handled.
LEMMA HandledNow ==
    ASSUME SyncTypes, SyncTypes', Flow, Grows, Arrivals, OrderInv, DecodeMsg,
           NEW m, m = Head(chunk), NEW how, NEW copy, Handle(m, how, copy),
           UNCHANGED waiting,
           \A o : Waits(o) => ~(o.uid = m.uid /\ o.from = m.from)
    PROVE  StagesOK' /\ RowsOK'
<1>1. /\ m \in Msgs /\ After(m.n, m.from, m.uid)'
      /\ \A o : Passed(o) \/ Resumes(o) \/ Waits(o) => Earlier(o, m)
      /\ \A o : ~Resumes(o)
  BY HeadMsg
<1>2. micro' = micro
  BY DEF DecodeMsg
<1>3. PICK h : h = [msg |-> m, how |-> how, with |-> copy]
  OBVIOUS
<1>4. handled' = Append(handled, h) /\ h.msg = m
  BY <1>3 DEF Handle
<1>5. /\ \A x : Has(handled', x) <=> Has(handled, x) \/ x = h
      /\ \A x, y : Precedes(handled', x, y) <=> Precedes(handled, x, y) \/ (Has(handled, x) /\ y = h)
  BY <1>4, AppendsHandled
<1>6. /\ \A o : Passed(o)' => Passed(o) \/ o = m
      /\ \A o : ~Resumes(o)'
      /\ \A o : Waits(o)' => Waits(o)
  BY <1>1, <1>2, <1>4, <1>5 DEF Passed, Resumes, Waits
<1>7. ASSUME NEW o, Passed(o)' \/ Resumes(o)' \/ Waits(o)'
      PROVE  o \in Msgs /\ After(o.n, o.from, o.uid)'
  <2>1. CASE o = m
    BY <1>1, <2>1
  <2>2. CASE o # m
    <3>1. o \in Msgs /\ After(o.n, o.from, o.uid)
      BY <1>6, <1>7, <2>2 DEF OrderInv, StagesOK
    <3>. QED BY <3>1, MsgKept
  <2>. QED BY <2>1, <2>2
<1>8. ASSUME NEW o, NEW x, Passed(o)', Waits(x)' PROVE Earlier(o, x)
  BY <1>6, <1>8 DEF OrderInv, StagesOK, Earlier
<1>9. StagesOK'
  BY <1>6, <1>7, <1>8 DEF StagesOK
<1>10. ASSUME NEW x, NEW y, Precedes(handled', x, y) PROVE Earlier(x.msg, y.msg)
  <2>1. CASE Precedes(handled, x, y)
    BY <2>1 DEF OrderInv, RowsOK
  <2>2. CASE Has(handled, x) /\ y = h
    <3>1. Passed(x.msg)
      BY <2>2 DEF Passed
    <3>. QED BY <1>1, <1>4, <2>2, <3>1
  <2>. QED BY <1>5, <1>10, <2>1, <2>2
<1>11. RowsOK'
  BY <1>2, <1>10 DEF OrderInv, RowsOK
<1>. QED BY <1>9, <1>11

\* It joins those that wait.
LEMMA WaitsNow ==
    ASSUME SyncTypes, SyncTypes', Flow, Grows, Arrivals, OrderInv, DecodeMsg,
           NEW m, m = Head(chunk), needSession, ~Hit(m), UNCHANGED handled, UNCHANGED sessionMap,
           DOMAIN waiting' = DOMAIN waiting \cup {m.uid},
           \A u \in DOMAIN waiting : u # m.uid => waiting'[u] = waiting[u],
           waiting'[m.uid] = IF m.uid \in DOMAIN waiting THEN Append(waiting[m.uid], m) ELSE <<m>>
    PROVE  OrderInv'
<1>1. /\ m \in Msgs /\ After(m.n, m.from, m.uid)' /\ WaiterOK(m)'
      /\ \A o : Passed(o) \/ Resumes(o) \/ Waits(o) => Earlier(o, m)
      /\ \A o : ~Resumes(o)
      /\ \A v : Reaches(v, m.from, m.uid) => v <= m.session.version
  BY HeadMsg
<1>2. micro' = micro /\ needSession' = needSession /\ chunk # <<>>
  BY DEF DecodeMsg
<1>3. \A x : Has(waiting'[m.uid], x) <=> x = m \/ (m.uid \in DOMAIN waiting /\ Has(waiting[m.uid], x))
  <2>1. CASE m.uid \in DOMAIN waiting
    BY <1>1, <2>1, BackOf, AppendHas
  <2>2. CASE m.uid \notin DOMAIN waiting
    BY <2>2, NothingHas
  <2>. QED BY <2>1, <2>2
<1>4. \A x, y : Precedes(waiting'[m.uid], x, y) =>
         m.uid \in DOMAIN waiting /\ (Precedes(waiting[m.uid], x, y) \/ (Has(waiting[m.uid], x) /\ y = m))
  <2>1. CASE m.uid \in DOMAIN waiting
    BY <1>1, <2>1, BackOf, AppendHas
  <2>2. CASE m.uid \notin DOMAIN waiting
    BY <2>2, NothingHas
  <2>. QED BY <2>1, <2>2
<1>5. /\ \A o : Passed(o)' => Passed(o)
      /\ \A o : ~Resumes(o)'
      /\ \A o : Waits(o)' => Waits(o) \/ o = m
  BY <1>1, <1>2, <1>3 DEF Passed, Resumes, Waits
<1>6. ASSUME NEW o, Passed(o)' \/ Resumes(o)' \/ Waits(o)'
      PROVE  o \in Msgs /\ After(o.n, o.from, o.uid)'
  <2>1. CASE o = m
    BY <1>1, <2>1
  <2>2. CASE o # m
    <3>1. o \in Msgs /\ After(o.n, o.from, o.uid)
      BY <1>5, <1>6, <2>2 DEF OrderInv, StagesOK
    <3>. QED BY <3>1, MsgKept
  <2>. QED BY <2>1, <2>2
<1>7. ASSUME NEW o, NEW x, Passed(o)', Waits(x)' PROVE Earlier(o, x)
  BY <1>1, <1>5, <1>7 DEF OrderInv, StagesOK
<1>8. StagesOK'
  BY <1>5, <1>6, <1>7 DEF StagesOK
<1>9. ASSUME NEW u \in DOMAIN waiting'
      PROVE  /\ \A x, y : Precedes(waiting'[u], x, y) => Earlier(x, y)
             /\ \A x : Has(waiting'[u], x) => x.uid = u
  <2>1. CASE u # m.uid
    BY <1>9, <2>1 DEF OrderInv, RowsOK
  <2>2. CASE u = m.uid
    <3>1. ASSUME NEW x, NEW y, Precedes(waiting'[u], x, y) PROVE Earlier(x, y)
      <4>1. m.uid \in DOMAIN waiting /\ (Precedes(waiting[m.uid], x, y) \/ (Has(waiting[m.uid], x) /\ y = m))
        BY <1>4, <2>2, <3>1
      <4>2. Has(waiting[m.uid], x) => Earlier(x, m)
        BY <1>1, <4>1 DEF Waits
      <4>. QED BY <4>1, <4>2 DEF OrderInv, RowsOK
    <3>2. \A x : Has(waiting'[u], x) => x.uid = u
      BY <1>3, <2>2 DEF OrderInv, RowsOK
    <3>. QED BY <3>1, <3>2
  <2>. QED BY <2>1, <2>2
<1>10. RowsOK'
  BY <1>2, <1>9 DEF OrderInv, RowsOK
<1>11. \A u, c : Stored(u, c)' <=> Stored(u, c)
  BY DEF Stored, Copy, Cached
<1>12. Missed(m)
  <2> SUFFICES ASSUME NEW c, Stored(m.uid, c), c.sid = m.from PROVE c.version < m.session.version
    BY DEF Missed
  <2>1. CopyOK(c, m.uid)
    BY DEF OrderInv, VersionsOK
  <2>2. c.version <= m.session.version
    BY <1>1, <2>1 DEF CopyOK
  <2>3. c.version # m.session.version
    BY DEF Hit, Stored
  <2>4. c.version \in Nat /\ m.session.version \in Nat
    BY <1>1, StagedAre, CopyFields, MsgVersion
  <2>. QED BY <2>2, <2>3, <2>4
<1>13. VersionsOK'
  <2>1. ASSUME NEW u, NEW c, Stored(u, c) PROVE CopyOK(c, u)'
    <3>1. CopyOK(c, u) /\ u \in Uids /\ c \in BackCopies
      BY <2>1, StagedAre DEF OrderInv, VersionsOK
    <3>. QED BY <3>1, CopyOKKept
  <2>2. ASSUME NEW t \in LoadTasks, Has(micro, t) PROVE TaskOK(t)'
    BY <2>2, TaskKept DEF OrderInv, VersionsOK
  <2>3. ASSUME NEW o, Waits(o)' PROVE WaiterOK(o)' /\ Missed(o)
    <3>1. CASE o = m
      BY <1>1, <1>12, <3>1
    <3>2. CASE o # m
      <4>1. WaiterOK(o) /\ Missed(o) /\ o \in Msgs
        BY <1>5, <2>3, <3>2, StagedAre DEF OrderInv, VersionsOK
      <4>. QED BY <4>1, MsgKept
    <3>. QED BY <3>1, <3>2
  <2>4. \A o : Missed(o) => Missed(o)'
    BY <1>2, <1>11 DEF Missed, Wakes
  <2>. QED BY <1>2, <1>11, <2>1, <2>2, <2>3, <2>4 DEF VersionsOK
<1>14. TurnsOK'
  BY <1>2 DEF OrderInv, TurnsOK
<1>. QED BY <1>8, <1>10, <1>13, <1>14 DEF OrderInv

LEMMA DecodeMsgOrder ==
    ASSUME SyncTypes, SyncTypes', Flow, Grows, Arrivals, OrderInv, DecodeMsg
    PROVE  OrderInv'
<1>0. PICK m : m = Head(chunk)
  OBVIOUS
<1>1. /\ HandleCached(m) \/ HandleNoNeed(m) \/ JoinFetch(m) \/ StartFetch(m)
      /\ UNCHANGED micro /\ UNCHANGED needSession /\ chunk # <<>>
  BY <1>0 DEF DecodeMsg
<1>2. /\ m \in Msgs /\ m.uid \in Uids /\ m.session.version \in Nat
      /\ \A o : ~Resumes(o)
      /\ \A v : Reaches(v, m.from, m.uid) => v <= m.session.version
  BY <1>0, HeadMsg, MsgVersion
<1>3. CASE HandleCached(m) \/ HandleNoNeed(m)
  <2>1. /\ UNCHANGED loads /\ UNCHANGED waiting
        /\ \E how, copy : Handle(m, how, copy)
    BY <1>3 DEF HandleCached, HandleNoNeed
  <2>2. CASE HandleCached(m) /\ needSession
    <3>1. PICK c : c = Copy(m.uid)
      OBVIOUS
    <3>2. /\ Stored(m.uid, c) /\ c.sid = m.from /\ c.version = m.session.version
          /\ UpdateSession(m.uid, c)
      BY <2>2, <3>1 DEF HandleCached, Hit, Stored
    <3>3. ASSUME NEW o, Waits(o), o.uid = m.uid, o.from = m.from PROVE FALSE
      <4>1. WaiterOK(o) /\ Missed(o) /\ o \in Msgs
        BY <3>3, StagedAre DEF OrderInv, VersionsOK
      <4>2. ~Wakes(m.uid)
        <5>1. [woken |-> m.uid] \in WakeTasks
          BY <1>2 DEF WakeTasks
        <5>2. [woken |-> m.uid] \notin LoadTasks
          BY <5>1, TaskKinds
        <5>. QED BY <1>1, <5>2 DEF OrderInv, TurnsOK, Wakes
      <4>3. c.version < o.session.version
        BY <3>2, <3>3, <4>1, <4>2 DEF Missed
      <4>4. o.session.version <= m.session.version
        BY <1>2, <3>3, <4>1 DEF WaiterOK
      <4>5. o.session.version \in Nat
        BY <4>1, MsgVersion
      <4>. QED BY <1>2, <3>2, <4>3, <4>4, <4>5
    <3>4. StagesOK' /\ RowsOK'
      BY <1>0, <2>1, <3>3, HandledNow
    <3>5. \A u, x : Stored(u, x)' => Stored(u, x)
      BY <3>2, StoredUpdated
    <3>6. VersionsOK'
      <4>1. \A o : Waits(o)' => Waits(o) /\ (Missed(o) => Missed(o)')
        BY <1>1, <2>1, <3>5 DEF Waits, Missed, Wakes
      <4>. QED BY <1>1, <3>5, <4>1, VersionsKept DEF OrderInv
    <3>7. TurnsOK'
      BY <1>1, <2>1, <2>2 DEF OrderInv, TurnsOK
    <3>. QED BY <3>4, <3>6, <3>7 DEF OrderInv
  <2>3. CASE ~needSession
    <3>1. loads = {} /\ micro = <<>> /\ DOMAIN waiting = {}
      BY <2>3 DEF OrderInv, TurnsOK
    <3>2. \A o : ~Waits(o) /\ ~Waits(o)'
      BY <2>1, <3>1 DEF Waits
    <3>3. StagesOK' /\ RowsOK'
      BY <1>0, <2>1, <3>2, HandledNow
    <3>4. VersionsOK'
      BY <1>1, <2>3, <3>1, <3>2, NothingHas DEF VersionsOK
    <3>5. TurnsOK'
      BY <1>1, <2>1, <3>1, NothingHas DEF TurnsOK
    <3>. QED BY <3>3, <3>4, <3>5 DEF OrderInv
  <2>. QED BY <1>3, <2>2, <2>3 DEF HandleNoNeed
<1>4. CASE JoinFetch(m) \/ StartFetch(m)
  <2>1. /\ needSession /\ ~Hit(m) /\ UNCHANGED handled /\ UNCHANGED sessionMap
        /\ DOMAIN waiting' = DOMAIN waiting \cup {m.uid}
        /\ \A u \in DOMAIN waiting : u # m.uid => waiting'[u] = waiting[u]
        /\ waiting'[m.uid] = IF m.uid \in DOMAIN waiting THEN Append(waiting[m.uid], m) ELSE <<m>>
    <3>1. CASE JoinFetch(m)
      <4>1. /\ m.uid \in DOMAIN waiting
            /\ waiting' = [waiting EXCEPT ![m.uid] = Append(waiting[m.uid], m)]
        BY <3>1 DEF JoinFetch
      <4>2. waiting = [u \in DOMAIN waiting |-> waiting[u]]
        BY BackOf, MapElim
      <4>. QED BY <3>1, <4>1, <4>2 DEF JoinFetch, mapVars
    <3>2. CASE StartFetch(m)
      BY <3>2 DEF StartFetch, mapVars
    <3>. QED BY <1>4, <3>1, <3>2
  <2>. QED BY <1>0, <2>1, WaitsNow
<1>. QED BY <1>1, <1>3, <1>4

\* What a queue has when its first continuation has gone.
LEMMA RestHas ==
    ASSUME SyncTypes, micro # <<>>
    PROVE  /\ \A t : Has(micro, t) <=> t = Task \/ Has(Tail(micro), t)
           /\ \A t, r : Precedes(micro, t, r)
                        <=> Precedes(Tail(micro), t, r) \/ (t = Task /\ Has(Tail(micro), r))
           /\ Tail(micro) \in Seq(Tasks)
BY BackOf, HeadTailHas, TaskAtHead DEF Task

LEMMA LoadOrder ==
    ASSUME SyncTypes, SyncTypes', Flow, Grows, Arrivals, OrderInv, Load
    PROVE  OrderInv'
<1>0. PICK t, u, w : t = Task /\ u = t.load.uid /\ w = [woken |-> u]
  OBVIOUS
<1>1. /\ micro' = Append(Tail(micro), w) /\ Running("load")
      /\ UNCHANGED needSession /\ UNCHANGED chunk /\ UNCHANGED loads
      /\ UNCHANGED waiting /\ UNCHANGED handled
      /\ IF t.info = NoSession THEN DelSession(u)
         ELSE IF u \in Cached THEN UpdateSession(u, CopyOf(t.load.sid, t.info))
         ELSE AddSession(u, CopyOf(t.load.sid, t.info))
  BY <1>0 DEF Load
<1>2. micro # <<>> /\ t \in LoadTasks /\ chunk = <<>>
  <2>1. micro # <<>> /\ "load" \in DOMAIN Task /\ chunk = <<>>
    BY <1>1 DEF Running
  <2>. QED BY <1>0, <2>1, TaskAtHead, TaskKinds DEF Tasks
<1>3. t.load \in Loads /\ t.info \in Sessions /\ u \in Uids /\ t.load.sid \in Fronts
  BY <1>0, <1>2, TaskKinds, LoadFields
<1>4. w \in WakeTasks /\ w \in Tasks
  BY <1>0, <1>3 DEF WakeTasks, Tasks
<1>5. /\ \A r : Has(micro, r) <=> r = t \/ Has(Tail(micro), r)
      /\ \A r, s : Precedes(Tail(micro), r, s) => Precedes(micro, r, s)
      /\ \A r : Has(micro', r) <=> Has(Tail(micro), r) \/ r = w
      /\ \A r, s : Precedes(micro', r, s)
                   <=> Precedes(Tail(micro), r, s) \/ (Has(Tail(micro), r) /\ s = w)
  <2>1. /\ \A r : Has(micro, r) <=> r = t \/ Has(Tail(micro), r)
        /\ \A r, s : Precedes(Tail(micro), r, s) => Precedes(micro, r, s)
        /\ Tail(micro) \in Seq(Tasks)
    BY <1>0, <1>2, RestHas
  <2>2. /\ \A r : Has(Append(Tail(micro), w), r) <=> Has(Tail(micro), r) \/ r = w
        /\ \A r, s : Precedes(Append(Tail(micro), w), r, s)
                     <=> Precedes(Tail(micro), r, s) \/ (Has(Tail(micro), r) /\ s = w)
    BY <1>4, <2>1, AppendHas
  <2>. QED BY <1>1, <2>1, <2>2
<1>6. w \notin ResumeTasks /\ w \notin LoadTasks
  BY <1>4, TaskKinds
<1>7. StagesOK'
  <2>1. \A m : Resumes(m)' => Resumes(m)
    BY <1>5, <1>6 DEF Resumes
  <2>. QED BY <1>1, <2>1, StagesSame DEF OrderInv
<1>8. RowsOK'
  BY <1>1, <1>5, <1>6 DEF OrderInv, RowsOK
<1>9. needSession
  BY <1>2 DEF OrderInv, TurnsOK
<1>10. TaskOK(t)
  BY <1>2, <1>5 DEF OrderInv, VersionsOK
<1>11. \A v, c : Stored(v, c)' =>
          IF v = u THEN t.info # NoSession /\ c = CopyOf(t.load.sid, t.info) ELSE Stored(v, c)
  <2>1. CASE t.info = NoSession
    <3>1. \A v, c : Stored(v, c)' => Stored(v, c)
      BY <1>1, <2>1, StoredFewer
    <3>2. \A c : ~Stored(u, c)'
      <4>1. Cached' = Cached \ {u}
        BY <1>1, <2>1 DEF DelSession, Cached
      <4>. QED BY <4>1 DEF Stored
    <3>. QED BY <3>1, <3>2
  <2>2. CASE t.info # NoSession
    BY <1>1, <1>3, <2>2, StoredUpdated, StoredAdded
  <2>. QED BY <2>1, <2>2
<1>12. ASSUME t.info # NoSession PROVE CopyOK(CopyOf(t.load.sid, t.info), u)
  <2>1. PICK c : c = CopyOf(t.load.sid, t.info)
    OBVIOUS
  <2>2. /\ c.sid = t.load.sid /\ c.version = t.info.version
        /\ c.login = t.info.login /\ c.gen = t.info.gen
    BY <1>3, <2>1, SessionFields
  <2>3. InfoOK(t.info) /\ Reaches(t.info.version, t.load.sid, u)
    BY <1>0, <1>10, <1>12 DEF TaskOK, Known
  <2>4. CopyOK(c, u)
    BY <2>2, <2>3 DEF CopyOK, InfoOK
  <2>. QED BY <2>1, <2>4
<1>13. VersionsOK'
  <2>1. \A v, c : Stored(v, c)' => Stored(v, c) \/ CopyOK(c, v)
    BY <1>11, <1>12
  <2>2. \A r \in LoadTasks : Has(micro', r) => Has(micro, r)
    BY <1>5, <1>6
  <2>3. ASSUME NEW m, Waits(m)' PROVE Waits(m) /\ (Missed(m) => Missed(m)')
    <3>1. Waits(m)
      BY <1>1, <2>3 DEF Waits
    <3>2. CASE m.uid = u
      <4>1. Wakes(m.uid)'
        BY <1>0, <1>5, <3>2 DEF Wakes
      <4>. QED BY <3>1, <4>1 DEF Missed
    <3>3. CASE m.uid # u
      <4>1. [woken |-> m.uid] # t
        <5>1. m.uid \in Uids
          BY <3>1, StagedAre, MsgFields
        <5>2. [woken |-> m.uid] \in WakeTasks
          BY <5>1 DEF WakeTasks
        <5>. QED BY <1>2, <5>2, TaskKinds
      <4>2. Wakes(m.uid) => Wakes(m.uid)'
        BY <1>5, <4>1 DEF Wakes
      <4>. QED BY <1>11, <3>1, <3>3, <4>2 DEF Missed
    <3>. QED BY <3>2, <3>3
  <2>. QED BY <1>1, <2>1, <2>2, <2>3, VersionsKept DEF OrderInv
<1>14. TurnsOK'
  BY <1>1, <1>2, <1>9 DEF TurnsOK
<1>. QED BY <1>7, <1>8, <1>13, <1>14 DEF OrderInv

\* What a woken fetch resumes, in the order in which it waited.
LEMMA ResumedHas ==
    ASSUME SyncTypes, NEW u \in DOMAIN waiting
    PROVE  /\ \A t : Has(Resumed(u), t) => t \in ResumeTasks /\ Has(waiting[u], t.resume)
           /\ \A t, r : Precedes(Resumed(u), t, r) => Precedes(waiting[u], t.resume, r.resume)
<1> DEFINE q == Resumed(u)
           w == waiting[u]
<1>1. /\ w \in Seq(Msgs) /\ q \in Seq(ResumeTasks) /\ Len(q) = Len(w)
      /\ \A i \in 1..Len(w) : q[i].resume = w[i]
  BY ResumedAre
<1>2. DOMAIN q = 1..Len(w) /\ DOMAIN w = 1..Len(w) /\ \A i \in DOMAIN q : q[i] \in ResumeTasks
  BY <1>1
<1> HIDE DEF q, w
<1>3. /\ \A t : Has(q, t) => t \in ResumeTasks /\ Has(w, t.resume)
      /\ \A t, r : Precedes(q, t, r) => Precedes(w, t.resume, r.resume)
  BY <1>1, <1>2 DEF Has, Precedes
<1>. QED BY <1>3 DEF q, w

LEMMA WakeOrder ==
    ASSUME SyncTypes, SyncTypes', FetchInv, Flow, Grows, Arrivals, OrderInv, Wake
    PROVE  OrderInv'
<1>0. PICK t, u, q : t = Task /\ u = t.woken /\ q = Resumed(u)
  OBVIOUS
<1>1. /\ micro' = Tail(micro) \o q /\ Running("woken")
      /\ waiting' = [v \in DOMAIN waiting \ {u} |-> waiting[v]]
      /\ UNCHANGED cacheVars /\ UNCHANGED needSession /\ UNCHANGED chunk /\ UNCHANGED loads
      /\ UNCHANGED handled
  BY <1>0 DEF Wake
<1>2. micro # <<>> /\ t \in WakeTasks /\ chunk = <<>>
  <2>1. micro # <<>> /\ "woken" \in DOMAIN Task /\ chunk = <<>>
    BY <1>1 DEF Running
  <2>. QED BY <1>0, <2>1, TaskAtHead, TaskKinds DEF Tasks
<1>3. u \in DOMAIN waiting
  BY <1>0, WakeFetch
<1>4. /\ q \in Seq(ResumeTasks)
      /\ \A r : Has(q, r) => r \in ResumeTasks /\ Has(waiting[u], r.resume)
      /\ \A r, s : Precedes(q, r, s) => Precedes(waiting[u], r.resume, s.resume)
  BY <1>0, <1>3, ResumedAre, ResumedHas
<1>5. /\ \A r : Has(micro, r) <=> r = t \/ Has(Tail(micro), r)
      /\ \A r, s : Precedes(Tail(micro), r, s) => Precedes(micro, r, s)
      /\ Tail(micro) \in Seq(Tasks)
  BY <1>0, <1>2, RestHas
<1>6. /\ \A r : Has(micro', r) <=> Has(Tail(micro), r) \/ Has(q, r)
      /\ \A r, s : Precedes(micro', r, s) <=>
            Precedes(Tail(micro), r, s) \/ Precedes(q, r, s) \/ (Has(Tail(micro), r) /\ Has(q, s))
  <2>1. q \in Seq(Tasks)
    BY <1>4 DEF Tasks
  <2>. QED BY <1>1, <1>5, <2>1, ConcatHas
<1>7. \A m : Has(waiting[u], m) => m.uid = u /\ Waits(m)
  BY <1>3 DEF OrderInv, RowsOK, Waits
<1>8. /\ \A m : Passed(m)' => Passed(m)
      /\ \A m : Resumes(m)' => Resumes(m) \/ Has(waiting[u], m)
      /\ \A m : Waits(m)' => Waits(m) /\ m.uid # u
  <2>1. \A m : Passed(m)' => Passed(m)
    BY <1>1 DEF Passed
  <2>2. \A m : Resumes(m)' => Resumes(m) \/ Has(waiting[u], m)
    BY <1>4, <1>5, <1>6 DEF Resumes
  <2>3. ASSUME NEW m, Waits(m)' PROVE Waits(m) /\ m.uid # u
    <3>1. PICK v \in DOMAIN waiting \ {u} : Has(waiting[v], m)
      BY <1>1, <2>3 DEF Waits
    <3>. QED BY <3>1 DEF Waits, OrderInv, RowsOK
  <2>. QED BY <2>1, <2>2, <2>3
<1>9. ASSUME NEW o, Passed(o)' \/ Resumes(o)' \/ Waits(o)'
      PROVE  o \in Msgs /\ After(o.n, o.from, o.uid)'
  <2>1. o \in Msgs /\ After(o.n, o.from, o.uid)
    BY <1>7, <1>8, <1>9 DEF OrderInv, StagesOK
  <2>. QED BY <2>1, MsgKept
<1>10. \A m, o : /\ Passed(m)' /\ Resumes(o)' => Earlier(m, o)
                 /\ Passed(m)' /\ Waits(o)' => Earlier(m, o)
  BY <1>7, <1>8 DEF OrderInv, StagesOK
<1>11. ASSUME NEW m, NEW o, Resumes(m)', Waits(o)' PROVE Earlier(m, o)
  <2>1. CASE Resumes(m)
    BY <1>8, <1>11, <2>1 DEF OrderInv, StagesOK
  <2>2. CASE Has(waiting[u], m)
    BY <1>7, <1>8, <1>11, <2>2 DEF Earlier
  <2>. QED BY <1>8, <1>11, <2>1, <2>2
<1>12. StagesOK'
  BY <1>9, <1>10, <1>11 DEF StagesOK
<1>13. RowsOK'
  <2>1. \A h, k : Precedes(handled', h, k) => Earlier(h.msg, k.msg)
    BY <1>1 DEF OrderInv, RowsOK
  <2>2. ASSUME NEW r \in ResumeTasks, NEW s \in ResumeTasks, Precedes(micro', r, s)
        PROVE  Earlier(r.resume, s.resume)
    <3>1. CASE Precedes(Tail(micro), r, s)
      BY <1>5, <3>1 DEF OrderInv, RowsOK
    <3>2. CASE Precedes(q, r, s)
      BY <1>3, <1>4, <3>2 DEF OrderInv, RowsOK
    <3>3. CASE Has(Tail(micro), r) /\ Has(q, s)
      <4>1. Resumes(r.resume) /\ Waits(s.resume)
        BY <1>4, <1>5, <1>7, <3>3 DEF Resumes
      <4>. QED BY <4>1 DEF OrderInv, StagesOK
    <3>. QED BY <1>6, <2>2, <3>1, <3>2, <3>3
  <2>3. ASSUME NEW v \in DOMAIN waiting'
        PROVE  /\ \A m, o : Precedes(waiting'[v], m, o) => Earlier(m, o)
               /\ \A m : Has(waiting'[v], m) => m.uid = v
    <3>1. v \in DOMAIN waiting /\ waiting'[v] = waiting[v]
      BY <1>1
    <3>. QED BY <3>1 DEF OrderInv, RowsOK
  <2>. QED BY <2>1, <2>2, <2>3 DEF RowsOK
<1>14. VersionsOK'
  <2>1. \A v, c : Stored(v, c)' => Stored(v, c)
    BY <1>1, StoredFewer DEF cacheVars, mapVars
  <2>2. \A r \in LoadTasks : Has(micro', r) => Has(micro, r)
    BY <1>4, <1>5, <1>6, TaskKinds
  <2>3. ASSUME NEW m, Waits(m)' PROVE Waits(m) /\ (Missed(m) => Missed(m)')
    <3>1. Waits(m) /\ m.uid # u
      BY <1>8, <2>3
    <3>2. [woken |-> m.uid].woken = m.uid
      OBVIOUS
    <3>3. [woken |-> m.uid] # t
      BY <1>0, <3>1, <3>2
    <3>4. Wakes(m.uid) => Wakes(m.uid)'
      BY <1>5, <1>6, <3>3 DEF Wakes
    <3>. QED BY <2>1, <3>1, <3>4 DEF Missed
  <2>. QED BY <1>1, <2>1, <2>2, <2>3, VersionsKept DEF OrderInv
<1>15. TurnsOK'
  BY <1>1, <1>2 DEF OrderInv, TurnsOK
<1>. QED BY <1>12, <1>13, <1>14, <1>15 DEF OrderInv

LEMMA ResumeOrder ==
    ASSUME SyncTypes, SyncTypes', Flow, Grows, Arrivals, OrderInv, Resume
    PROVE  OrderInv'
<1>0. PICK t, m : t = Task /\ m = t.resume
  OBVIOUS
<1>1. /\ micro' = Tail(micro) /\ Running("resume")
      /\ UNCHANGED needSession /\ UNCHANGED chunk /\ UNCHANGED loads /\ UNCHANGED waiting
      /\ IF t.with # <<>> THEN Handle(m, t.how, t.with[1]) ELSE UNCHANGED handled
      /\ IF t.with # <<>> /\ m.uid \in Cached
         THEN UpdateSession(m.uid, Copy(m.uid)) ELSE UNCHANGED mapVars
  BY <1>0 DEF Resume
<1>2. micro # <<>> /\ t \in ResumeTasks /\ chunk = <<>>
  <2>1. micro # <<>> /\ "resume" \in DOMAIN Task /\ chunk = <<>>
    BY <1>1 DEF Running
  <2>. QED BY <1>0, <2>1, TaskAtHead, TaskKinds DEF Tasks
<1>3. /\ \A r : Has(micro, r) <=> r = t \/ Has(micro', r)
      /\ \A r, s : Precedes(micro, r, s) <=> Precedes(micro', r, s) \/ (r = t /\ Has(micro', s))
  BY <1>0, <1>1, <1>2, RestHas
<1>4. Resumes(m) /\ m \in Msgs
  BY <1>0, <1>2, <1>3, TaskKinds DEF Resumes
<1>5. \A o : Resumes(o)' => Resumes(o) /\ Earlier(m, o)
  BY <1>0, <1>2, <1>3 DEF Resumes, OrderInv, RowsOK
<1>6. /\ \A h : Has(handled', h) => Has(handled, h) \/ h.msg = m
      /\ \A h, k : Precedes(handled', h, k) =>
            Precedes(handled, h, k) \/ (Has(handled, h) /\ k.msg = m)
  <2>1. CASE t.with = <<>>
    BY <1>1, <2>1
  <2>2. CASE t.with # <<>>
    <3>1. PICK h : h = [msg |-> m, how |-> t.how, with |-> t.with[1]]
      OBVIOUS
    <3>2. handled' = Append(handled, h) /\ h.msg = m
      BY <1>1, <2>2, <3>1 DEF Handle
    <3>. QED BY <3>2, AppendsHandled
  <2>. QED BY <2>1, <2>2
<1>7. /\ \A o : Passed(o)' => Passed(o) \/ o = m
      /\ \A o : Waits(o)' => Waits(o)
  BY <1>1, <1>6 DEF Passed, Waits
<1>8. ASSUME NEW o, Passed(o)' \/ Resumes(o)' \/ Waits(o)'
      PROVE  o \in Msgs /\ After(o.n, o.from, o.uid)'
  <2>1. o \in Msgs /\ After(o.n, o.from, o.uid)
    BY <1>4, <1>5, <1>7, <1>8 DEF OrderInv, StagesOK
  <2>. QED BY <2>1, MsgKept
<1>9. \A x, o : /\ Passed(x)' /\ Resumes(o)' => Earlier(x, o)
                /\ Passed(x)' /\ Waits(o)' => Earlier(x, o)
                /\ Resumes(x)' /\ Waits(o)' => Earlier(x, o)
  BY <1>4, <1>5, <1>7 DEF OrderInv, StagesOK
<1>10. StagesOK'
  BY <1>8, <1>9 DEF StagesOK
<1>11. RowsOK'
  <2>1. ASSUME NEW h, NEW k, Precedes(handled', h, k) PROVE Earlier(h.msg, k.msg)
    <3>1. CASE Precedes(handled, h, k)
      BY <3>1 DEF OrderInv, RowsOK
    <3>2. CASE Has(handled, h) /\ k.msg = m
      <4>1. Passed(h.msg)
        BY <3>2 DEF Passed
      <4>. QED BY <1>4, <3>2, <4>1 DEF OrderInv, StagesOK
    <3>. QED BY <1>6, <2>1, <3>1, <3>2
  <2>2. \A r, s \in ResumeTasks : Precedes(micro', r, s) => Earlier(r.resume, s.resume)
    BY <1>3 DEF OrderInv, RowsOK
  <2>. QED BY <1>1, <2>1, <2>2 DEF OrderInv, RowsOK
<1>12. VersionsOK'
  <2>1. \A v, c : Stored(v, c)' => Stored(v, c)
    <3>1. CASE t.with # <<>> /\ m.uid \in Cached
      <4>1. PICK d : d = Copy(m.uid)
        OBVIOUS
      <4>2. UpdateSession(m.uid, d) /\ Stored(m.uid, d)
        BY <1>1, <3>1, <4>1 DEF Stored
      <4>. QED BY <4>2, StoredUpdated
    <3>2. CASE ~(t.with # <<>> /\ m.uid \in Cached)
      BY <1>1, <3>2, StoredFewer DEF mapVars
    <3>. QED BY <3>1, <3>2
  <2>2. \A r \in LoadTasks : Has(micro', r) => Has(micro, r)
    BY <1>3
  <2>3. ASSUME NEW o, Waits(o)' PROVE Waits(o) /\ (Missed(o) => Missed(o)')
    <3>1. Waits(o)
      BY <1>7, <2>3
    <3>2. [woken |-> o.uid] # t
      <4>1. o.uid \in Uids
        BY <3>1, StagedAre, MsgFields
      <4>2. [woken |-> o.uid] \in WakeTasks
        BY <4>1 DEF WakeTasks
      <4>. QED BY <1>2, <4>2, TaskKinds
    <3>3. Wakes(o.uid) => Wakes(o.uid)'
      BY <1>3, <3>2 DEF Wakes
    <3>. QED BY <2>1, <3>1, <3>3 DEF Missed
  <2>. QED BY <1>1, <2>1, <2>2, <2>3, VersionsKept DEF OrderInv
<1>13. TurnsOK'
  <2>1. ~needSession => FALSE
    BY <1>2 DEF OrderInv, TurnsOK
  <2>. QED BY <1>1, <1>2, <2>1 DEF TurnsOK
<1>. QED BY <1>10, <1>11, <1>12, <1>13 DEF OrderInv

LEMMA NextOrder ==
    ASSUME Bounded, SyncInv, SyncInv', Flow, OrderInv, [Next]_syncVars
    PROVE  OrderInv'
<1>0. SyncTypes /\ SyncTypes' /\ FetchInv /\ Flow' /\ Grows /\ Arrivals
  BY NextFlow DEF SyncInv
<1>1. ASSUME NEW f \in Fronts, NEW u \in Uids,
             Login(f, u) \/ Logout(f, u) \/ Set(f, u) \/ Forward(f, u)
      PROVE  OrderInv'
  <2>1. /\ UNCHANGED cacheVars /\ UNCHANGED needSession /\ UNCHANGED backVars /\ UNCHANGED handled
    BY <1>1 DEF Login, Logout, Set, Forward
  <2>. QED BY <1>0, <2>1, StoredFewer, OrderKept DEF cacheVars, mapVars, backVars
<1>2. ASSUME NEW f \in Fronts,
             GetSession(f) \/ Reply(f) \/ Connect(f) \/ Disconnect(f)
      PROVE  OrderInv'
  <2>1. /\ UNCHANGED cacheVars /\ UNCHANGED needSession /\ UNCHANGED backVars /\ UNCHANGED handled
    BY <1>2 DEF GetSession, Reply, Connect, Disconnect
  <2>. QED BY <1>0, <2>1, StoredFewer, OrderKept DEF cacheVars, mapVars, backVars
<1>3. ASSUME NEW f \in Fronts, Read(f) PROVE OrderInv'
  <2>1. /\ UNCHANGED cacheVars /\ UNCHANGED needSession /\ UNCHANGED handled /\ UNCHANGED micro
        /\ UNCHANGED loads /\ UNCHANGED waiting /\ micro = <<>>
    BY <1>3 DEF Read, Idle
  <2>. QED BY <1>0, <2>1, StoredFewer, OrderKept DEF cacheVars, mapVars
<1>4. ASSUME NEW l \in loads, LoadFails(l) PROVE OrderInv'
  BY <1>0, <1>4, LoadFailsOrder
<1>5. CASE BackStep
  BY <1>0, <1>5, DecodeReplyOrder, DecodeMsgOrder, LoadOrder, WakeOrder, ResumeOrder DEF BackStep
<1>6. CASE Tick \/ Time
  <2>1. /\ CheckExpire \/ Clock
        /\ UNCHANGED needSession /\ UNCHANGED backVars /\ UNCHANGED handled
    BY <1>6 DEF Tick, Time
  <2>. QED BY <1>0, <2>1, StoredFewer, OrderKept DEF backVars
<1>7. CASE UNCHANGED syncVars
  <2>1. /\ UNCHANGED cacheVars /\ UNCHANGED needSession /\ UNCHANGED backVars /\ UNCHANGED handled
    BY <1>7 DEF syncVars
  <2>. QED BY <1>0, <2>1, StoredFewer, OrderKept DEF cacheVars, mapVars, backVars
<1>. QED BY <1>1, <1>2, <1>3, <1>4, <1>5, <1>6, <1>7 DEF Next

LEMMA InitOrder == ASSUME Init PROVE OrderInv
<1>1. chunk = <<>> /\ micro = <<>> /\ loads = {} /\ waiting = <<>> /\ handled = <<>> /\ Cached = {}
  BY DEF Init, CacheInit, Cached
<1>2. DOMAIN waiting = {}
  BY <1>1
<1>3. \A m : ~Passed(m) /\ ~Resumes(m) /\ ~Waits(m)
  BY <1>1, <1>2, NothingHas DEF Passed, Resumes, Waits
<1>4. StagesOK
  BY <1>3 DEF StagesOK
<1>5. RowsOK
  BY <1>1, <1>2, NothingHas DEF RowsOK
<1>6. VersionsOK
  BY <1>1, <1>3, NothingHas DEF VersionsOK, Stored
<1>7. TurnsOK
  BY <1>1, <1>2 DEF TurnsOK
<1>. QED BY <1>4, <1>5, <1>6, <1>7 DEF OrderInv

\* As long as no player logs in twice at a front end and no version wraps, the
\* messages of a player from one front end are handled in the order in which they
\* were forwarded (handleMsg, fetchSession).  Both hypotheses are needed: an old
\* copy whose version a new session reaches lets a message pass those that wait.
THEOREM PlayersInOrder == ASSUME Bounded PROVE Spec => []HandledInOrder
<1>1. Init => SyncInv /\ Flow /\ OrderInv
  BY SyncInitInv, InitFlow, InitOrder
<1>2. SyncInv /\ Flow /\ OrderInv /\ [Next]_syncVars => (SyncInv /\ Flow /\ OrderInv)'
  <2> SUFFICES ASSUME SyncInv, Flow, OrderInv, [Next]_syncVars
               PROVE  SyncInv' /\ Flow' /\ OrderInv'
    OBVIOUS
  <2>1. SyncInv'
    BY SyncNextInv
  <2>. QED BY <2>1, NextFlow, NextOrder DEF SyncInv
<1>3. SyncInv /\ Flow /\ OrderInv => HandledInOrder
  <2> SUFFICES ASSUME SyncInv, OrderInv, NEW i \in DOMAIN handled, NEW j \in DOMAIN handled, i < j
               PROVE  Earlier(handled[i].msg, handled[j].msg)
    BY DEF HandledInOrder, Earlier
  <2>1. Precedes(handled, handled[i], handled[j])
    BY DEF Precedes
  <2>. QED BY <2>1 DEF OrderInv, RowsOK
<1>. QED BY <1>1, <1>2, <1>3, PTL DEF Spec

(***************************************************************************)
(* SessionSync: a fetch brings what its message needs.                     *)
(***************************************************************************)

\* The message that started the fetch of u.
Leads(u, m) == u \in DOMAIN waiting /\ waiting[u] # <<>> /\ waiting[u][1] = m

\* Settings that a front end has told, or is telling, in answer to call c.
Told(c, s) ==
    \/ \E f \in Fronts : \E x : Has(serving[f], x) /\ x.call = c /\ x.info = s
    \/ \E x \in Replies : /\ Has(chunk, x) \/ \E f \in Fronts : Has(chan[f], x)
                          /\ x.call = c /\ x.info = s

\* They are those the message was forwarded with, or newer; and of its front end.
LateFor(u, s) == \A m : Leads(u, m) => s = NoSession \/ s.gen >= m.session.gen
From(u, f) == \A m : Leads(u, m) => m.from = f
Suits(m, c) == c.sid = m.from /\ c.login = 1 /\ m.session.login = 1 /\ c.gen >= m.session.gen

FreshInv ==
    /\ \A u \in DOMAIN waiting : waiting[u] # <<>>
    /\ \A l \in loads : From(l.uid, l.sid) /\ \A s : Told(l.call, s) => LateFor(l.uid, s)
    /\ \A t \in LoadTasks : Has(micro, t) => From(t.load.uid, t.load.sid) /\ LateFor(t.load.uid, t.info)
    /\ \A u, c : Wakes(u) /\ Stored(u, c) => From(u, c.sid) /\ LateFor(u, c)
    /\ \A t \in ResumeTasks : Has(micro, t) /\ t.how # "joined" /\ t.with # <<>>
                                 => Suits(t.resume, t.with[1])
    /\ \A h : Has(handled, h) /\ h.how # "joined"
                 => h.with.sid = h.msg.from /\ (needSession => Suits(h.msg, h.with))

\* No fetch starts.
LEMMA FreshKept ==
    ASSUME FreshInv, UNCHANGED needSession, loads' \subseteq loads,
           \A u, m : Leads(u, m)' => Leads(u, m),
           \A u \in DOMAIN waiting' : waiting'[u] # <<>>,
           \A l \in loads' : \A s : Told(l.call, s)' => Told(l.call, s) \/ LateFor(l.uid, s),
           \A t \in LoadTasks : Has(micro', t) =>
               Has(micro, t) \/ (From(t.load.uid, t.load.sid) /\ LateFor(t.load.uid, t.info)),
           \A u, c : Wakes(u)' /\ Stored(u, c)' =>
               (Wakes(u) /\ Stored(u, c)) \/ (From(u, c.sid) /\ LateFor(u, c)),
           \A t \in ResumeTasks : Has(micro', t) =>
               Has(micro, t) \/ (t.how # "joined" /\ t.with # <<>> => Suits(t.resume, t.with[1])),
           \A h : Has(handled', h) /\ h.how # "joined" =>
               Has(handled, h) \/ (h.with.sid = h.msg.from /\ (needSession => Suits(h.msg, h.with)))
    PROVE  FreshInv'
<1>1. /\ \A u, f : From(u, f) => From(u, f)'
      /\ \A u, s : LateFor(u, s) => LateFor(u, s)'
  BY DEF From, LateFor
<1>2. ASSUME NEW l \in loads' PROVE From(l.uid, l.sid)' /\ \A s : Told(l.call, s)' => LateFor(l.uid, s)'
  <2>1. l \in loads
    BY <1>2
  <2>. QED BY <1>1, <2>1 DEF FreshInv
<1>3. ASSUME NEW t \in LoadTasks, Has(micro', t)
      PROVE  From(t.load.uid, t.load.sid)' /\ LateFor(t.load.uid, t.info)'
  BY <1>1, <1>3 DEF FreshInv
<1>4. ASSUME NEW u, NEW c, Wakes(u)', Stored(u, c)' PROVE From(u, c.sid)' /\ LateFor(u, c)'
  BY <1>1, <1>4 DEF FreshInv
<1>5. /\ \A t \in ResumeTasks : Has(micro', t) /\ t.how # "joined" /\ t.with # <<>>
                                 => Suits(t.resume, t.with[1])
      /\ \A h : Has(handled', h) /\ h.how # "joined"
                 => h.with.sid = h.msg.from /\ (needSession => Suits(h.msg, h.with))
  BY DEF FreshInv
<1>. QED BY <1>2, <1>3, <1>4, <1>5 DEF FreshInv

\* Nothing happens to what waits and what runs.
LEMMA FreshSame ==
    ASSUME FreshInv, UNCHANGED needSession, UNCHANGED loads, UNCHANGED micro,
           UNCHANGED waiting, UNCHANGED handled,
           \A u, c : Stored(u, c)' => Stored(u, c),
           \A l \in loads : \A s : Told(l.call, s)' => Told(l.call, s) \/ LateFor(l.uid, s)
    PROVE  FreshInv'
<1>1. \A u, m : Leads(u, m)' => Leads(u, m)
  BY DEF Leads
<1>2. \A u : Wakes(u)' => Wakes(u)
  BY DEF Wakes
<1>3. \A u \in DOMAIN waiting' : waiting'[u] # <<>>
  BY DEF FreshInv
<1>. QED BY <1>1, <1>2, <1>3, FreshKept

\* Nothing new is told.
LEMMA ToldLess ==
    ASSUME \A f \in Fronts : \A x : Has(serving'[f], x) => Has(serving[f], x),
           \A x \in Replies : Has(chunk', x) \/ (\E f \in Fronts : Has(chan'[f], x))
                                  => Has(chunk, x) \/ \E f \in Fronts : Has(chan[f], x)
    PROVE  \A c, s : Told(c, s)' => Told(c, s)
BY DEF Told

LEMMA ForwardTold ==
    ASSUME SyncTypes, NEW f \in Fronts, NEW u \in Uids, Forward(f, u)
    PROVE  \A c, s : Told(c, s)' => Told(c, s)
<1>0. PICK m : m = [n |-> sent', uid |-> u, from |-> f, session |-> clients[f][u]]
  OBVIOUS
<1>1. /\ chan' = [chan EXCEPT ![f] = Append(chan[f], m)] /\ sent' = sent + 1
      /\ UNCHANGED serving /\ UNCHANGED chunk /\ u \in DOMAIN clients[f]
  BY <1>0 DEF Forward, backVars
<1>2. m \in Msgs
  <2>1. sent' \in Nat
    BY <1>1 DEF SyncTypes, WiresOK
  <2>. QED BY <1>0, <1>1, <2>1, ClientsOf DEF Msgs
<1>3. \A x : Has(Append(chan[f], m), x) => Has(chan[f], x) \/ x = m
  BY <1>2, WiresOf, AppendHas
<1>4. \A g \in Fronts : chan'[g] = IF g = f THEN Append(chan[f], m) ELSE chan[g]
  BY <1>1, WiresOf
<1>5. m \notin Replies
  BY <1>2, ItemKinds
<1>. QED BY <1>1, <1>3, <1>4, <1>5, ToldLess

LEMMA ReplyTold ==
    ASSUME SyncTypes, NEW f \in Fronts, Reply(f)
    PROVE  \A c, s : Told(c, s)' => Told(c, s)
<1>0. PICK y, r : y = serving[f][1] /\ r = [call |-> y.call, info |-> y.info]
  OBVIOUS
<1>1. /\ chan' = [chan EXCEPT ![f] = Append(chan[f], r)]
      /\ serving' = [serving EXCEPT ![f] = <<>>] /\ serving[f] # <<>> /\ UNCHANGED chunk
  BY <1>0 DEF Reply, AtRest, backVars
<1>2. y \in Served /\ Has(serving[f], y)
  BY <1>0, <1>1, WiresOf, FirstAndRest DEF Has
<1>3. r \in Replies /\ r.call = y.call /\ r.info = y.info
  BY <1>0, <1>2, LaterFields DEF Replies
<1>4. \A x : Has(Append(chan[f], r), x) => Has(chan[f], x) \/ x = r
  BY <1>3, WiresOf, AppendHas
<1>5. \A g \in Fronts : /\ chan'[g] = IF g = f THEN Append(chan[f], r) ELSE chan[g]
                        /\ serving'[g] = IF g = f THEN <<>> ELSE serving[g]
  BY <1>1, WiresOf
<1>6. \A g \in Fronts : \A x : Has(serving'[g], x) => Has(serving[g], x)
  BY <1>5, NothingHas
<1>7. \A g \in Fronts : \A x : Has(chan'[g], x) => Has(chan[g], x) \/ x = r
  BY <1>4, <1>5
<1>. QED BY <1>1, <1>2, <1>3, <1>6, <1>7 DEF Told

LEMMA DisconnectTold ==
    ASSUME SyncTypes, NEW f \in Fronts, Disconnect(f)
    PROVE  \A c, s : Told(c, s)' => Told(c, s)
<1>1. chan' = [chan EXCEPT ![f] = <<>>] /\ UNCHANGED serving /\ UNCHANGED chunk
  BY DEF Disconnect, backVars
<1>2. \A g \in Fronts : \A x : Has(chan'[g], x) => Has(chan[g], x)
  BY <1>1, WiresOf, NothingHas
<1>. QED BY <1>1, <1>2, ToldLess

LEMMA ReadTold ==
    ASSUME SyncTypes, NEW f \in Fronts, Read(f)
    PROVE  \A c, s : Told(c, s)' => Told(c, s)
<1>0. PICK n \in 1..Len(chan[f]) :
         /\ chunk' = SubSeq(chan[f], 1, n)
         /\ chan' = [chan EXCEPT ![f] = SubSeq(chan[f], n + 1, Len(chan[f]))]
  BY DEF Read
<1>1. PICK a, b : /\ a = SubSeq(chan[f], 1, n) /\ b = SubSeq(chan[f], n + 1, Len(chan[f]))
                  /\ chunk' = a /\ chan' = [chan EXCEPT ![f] = b]
  BY <1>0
<1>2. \A x : Has(chan[f], x) <=> Has(a, x) \/ Has(b, x)
  <2>1. n \in 0..Len(chan[f]) /\ chan[f] \in Seq(Msgs \cup Replies)
    BY WiresOf
  <2>. QED BY <1>1, <2>1, CutHas
<1>3. \A g \in Fronts : chan'[g] = IF g = f THEN b ELSE chan[g]
  BY <1>1, WiresOf
<1>4. UNCHANGED serving
  BY DEF Read
<1>. QED BY <1>1, <1>2, <1>3, <1>4, ToldLess

\* A getSession that answers call a tells what the session of the player is now.
LEMMA GetSessionTold ==
    ASSUME Bounded, SyncTypes, Flow, OrderInv, FreshInv, NEW f \in Fronts, GetSession(f)
    PROVE  \A l \in loads : \A s : Told(l.call, s)' => Told(l.call, s) \/ LateFor(l.uid, s)
<1>0. PICK a, y :
         /\ a = Head(asks[f])
         /\ y = [call |-> a.call, uid |-> a.uid,
                 info |-> IF a.uid \in DOMAIN clients[f] THEN clients[f][a.uid] ELSE NoSession]
  OBVIOUS
<1>1. /\ serving' = [serving EXCEPT ![f] = <<y>>] /\ asks[f] # <<>>
      /\ UNCHANGED chunk /\ UNCHANGED chan
  BY <1>0 DEF GetSession, backVars
<1>2. Has(asks[f], a)
  BY <1>0, <1>1, WiresOf, HeadTailHas
<1>3. Matches(a.call, a.uid, f) /\ a.uid \in Uids
  <2>1. a \in Calls
    BY <1>2, LineHas
  <2>. QED BY <1>2, <2>1 DEF Flow, CallsOK, Calls
<1>4. y.call = a.call /\ y.info = IF a.uid \in DOMAIN clients[f] THEN clients[f][a.uid] ELSE NoSession
  BY <1>0
<1>5. \A g \in Fronts : \A x : Has(serving'[g], x) => Has(serving[g], x) \/ x = y
  <2>1. \A g \in Fronts : serving'[g] = IF g = f THEN <<y>> ELSE serving[g]
    BY <1>1, WiresOf
  <2>. QED BY <2>1, NothingHas
<1>6. ASSUME NEW l \in loads, l.call = a.call PROVE LateFor(l.uid, y.info)
  <2>1. l.uid = a.uid /\ l.sid = f
    BY <1>3, <1>6 DEF Matches
  <2> SUFFICES ASSUME NEW m, Leads(l.uid, m), a.uid \in DOMAIN clients[f]
               PROVE  y.info.gen >= m.session.gen
    BY <1>4 DEF LateFor
  <2>2. m.from = f
    BY <2>1 DEF FreshInv, From
  <2>3. Has(waiting[l.uid], m) /\ l.uid \in DOMAIN waiting
    <3>1. l.uid \in DOMAIN waiting /\ waiting[l.uid] # <<>> /\ waiting[l.uid][1] = m
      BY DEF Leads
    <3>2. waiting[l.uid] \in Seq(Msgs)
      BY <3>1, BackOf
    <3>. QED BY <3>1, <3>2, FirstAndRest DEF Has
  <2>4. WaiterOK(m) /\ m.uid = a.uid /\ m \in Msgs
    BY <2>1, <2>3, StagedAre DEF OrderInv, VersionsOK, RowsOK, Waits
  <2>5. m.session.version <= clients[f][a.uid].version /\ MsgOK(m.session)
    BY <2>2, <2>4 DEF WaiterOK, Reaches, Ceiling
  <2>6. MsgOK(clients[f][a.uid]) /\ clients[f][a.uid] \in Sessions
    BY <1>3, ClientsOf DEF Flow, LoginsOK
  <2>7. /\ m.session.version \in Nat /\ m.session.gen \in Nat
        /\ clients[f][a.uid].version \in Nat /\ clients[f][a.uid].gen \in Nat
    BY <2>4, <2>6, MsgVersion, SessionFields
  <2>. QED BY <1>4, <2>5, <2>6, <2>7 DEF MsgOK
<1>7. \A c, s : Told(c, s)' => Told(c, s) \/ (c = a.call /\ s = y.info)
  BY <1>1, <1>4, <1>5 DEF Told
<1>. QED BY <1>6, <1>7

\* A getSession being served tells of a change that is made meanwhile.
LEMMA SetTold ==
    ASSUME Bounded, SyncTypes, Flow, FreshInv, NEW f \in Fronts, NEW u \in Uids, Set(f, u)
    PROVE  \A l \in loads : \A s : Told(l.call, s)' => Told(l.call, s) \/ LateFor(l.uid, s)
<1>1. UNCHANGED chunk /\ UNCHANGED chan /\ u \in DOMAIN clients[f]
  BY DEF Set, linkVars, backVars
<1>2. CASE serving' = serving
  BY <1>1, <1>2 DEF Told
<1>3. CASE serving' # serving
  <2>1. PICK x : /\ serving[f] # <<>> /\ x = serving[f][1] /\ x \in Served /\ x.uid = u
                 /\ x.info.login = clients[f][u].login
                 /\ serving' = [serving EXCEPT ![f] = <<Later(x)>>]
    BY <1>3, SetServing
  <2>2. Has(serving[f], x)
    BY <2>1, WiresOf, FirstAndRest DEF Has
  <2>3. /\ Later(x).call = x.call /\ Later(x).info.gen = x.info.gen + 1 /\ x.info \in Sessions
    BY <2>1, LaterFields
  <2>4. \A g \in Fronts : \A y : Has(serving'[g], y) => Has(serving[g], y) \/ y = Later(x)
    <3>1. \A g \in Fronts : serving'[g] = IF g = f THEN <<Later(x)>> ELSE serving[g]
      BY <2>1, WiresOf
    <3>. QED BY <3>1, NothingHas
  <2>5. x.info # NoSession
    <3>1. clients[f][u].login = 1
      BY <1>1 DEF Flow, LoginsOK, MsgOK
    <3>. QED BY <2>1, <3>1 DEF NoSession
  <2>6. ASSUME NEW l \in loads, l.call = x.call PROVE LateFor(l.uid, Later(x).info)
    <3> SUFFICES ASSUME NEW m, Leads(l.uid, m) PROVE Later(x).info.gen >= m.session.gen
      BY DEF LateFor
    <3>1. Told(l.call, x.info)
      BY <2>2, <2>6 DEF Told
    <3>2. x.info.gen >= m.session.gen
      BY <2>5, <3>1 DEF FreshInv, LateFor
    <3>3. x.info.gen \in Nat /\ m.session.gen \in Nat
      <4>1. l.uid \in DOMAIN waiting /\ waiting[l.uid] # <<>> /\ waiting[l.uid][1] = m
        BY DEF Leads
      <4>2. m \in Msgs
        BY <4>1, BackOf, FirstAndRest
      <4>. QED BY <2>3, <4>2, MsgVersion, SessionFields
    <3>. QED BY <2>3, <3>2, <3>3
  <2>7. \A c, s : Told(c, s)' => Told(c, s) \/ (c = x.call /\ s = Later(x).info)
    BY <1>1, <2>3, <2>4 DEF Told
  <2>. QED BY <2>6, <2>7
<1>. QED BY <1>2, <1>3

LEMMA DecodedTold ==
    ASSUME SyncTypes, chunk # <<>>, chunk' = Tail(chunk), UNCHANGED chan, UNCHANGED serving
    PROVE  \A c, s : Told(c, s)' => Told(c, s)
<1>1. \A x : Has(chunk', x) => Has(chunk, x)
  BY BackOf, HeadTailHas
<1>. QED BY <1>1, ToldLess

LEMMA DecodeReplyFresh ==
    ASSUME SyncTypes, FreshInv, DecodeReply
    PROVE  FreshInv'
<1>0. PICK h, q : h = Head(chunk) /\ q = SetToSeq(ResumedLoads(h))
  OBVIOUS
<1>1. /\ h \in Replies /\ chunk # <<>> /\ loads' \subseteq loads
      /\ q \in Seq(LoadTasks) /\ micro' = micro \o q
      /\ \A t : Has(q, t) <=> t \in ResumedLoads(h) /\ h.info \in Sessions
  BY <1>0, DecodeReplyEffect
<1>2. /\ UNCHANGED cacheVars /\ UNCHANGED needSession /\ UNCHANGED chan /\ UNCHANGED waiting
      /\ UNCHANGED handled /\ chunk' = Tail(chunk) /\ UNCHANGED serving
  BY DEF DecodeReply, linkVars
<1>3. \A t : Has(micro', t) <=> Has(micro, t) \/ Has(q, t)
  <2>1. q \in Seq(Tasks) /\ micro \in Seq(Tasks)
    BY <1>1, BackOf DEF Tasks
  <2>. QED BY <1>1, <2>1, ConcatHas
<1>4. \A t : Has(q, t) => t \in LoadTasks /\ t \notin ResumeTasks /\ t \notin WakeTasks
  <2>1. \A t : Has(q, t) => t \in LoadTasks
    BY <1>1 DEF Has
  <2>. QED BY <2>1, TaskKinds
<1>5. \A u, c : Stored(u, c)' => Stored(u, c)
  BY <1>2, StoredFewer DEF cacheVars, mapVars
<1>6. \A u, c : Wakes(u)' /\ Stored(u, c)' => Wakes(u) /\ Stored(u, c)
  <2> SUFFICES ASSUME NEW u, NEW c, Wakes(u)', Stored(u, c)' PROVE Wakes(u)
    BY <1>5
  <2>1. u \in Uids
    BY <1>5, StagedAre
  <2>2. [woken |-> u] \in WakeTasks
    BY <2>1 DEF WakeTasks
  <2>. QED BY <1>3, <1>4, <2>2 DEF Wakes
<1>7. ASSUME NEW t \in LoadTasks, Has(q, t)
      PROVE  From(t.load.uid, t.load.sid) /\ LateFor(t.load.uid, t.info)
  <2>1. PICK l \in loads : l.call = h.call /\ t = Loaded(l, h.info)
    BY <1>1, <1>7 DEF ResumedLoads
  <2>2. t.load = l /\ t.info = h.info
    BY <1>1, <1>7, <2>1, BackOf, LoadFields
  <2>3. Has(chunk, h)
    BY <1>0, <1>1, BackOf, HeadTailHas
  <2>4. Told(l.call, h.info)
    BY <1>1, <2>1, <2>3 DEF Told
  <2>. QED BY <2>2, <2>4 DEF FreshInv
<1>8. \A u, m : Leads(u, m)' => Leads(u, m)
  BY <1>2 DEF Leads
<1>9. \A u \in DOMAIN waiting' : waiting'[u] # <<>>
  BY <1>2 DEF FreshInv
<1>10. \A c, s : Told(c, s)' => Told(c, s)
  BY <1>1, <1>2, DecodedTold
<1>. QED BY <1>1, <1>2, <1>3, <1>4, <1>6, <1>7, <1>8, <1>9, <1>10, FreshKept

LEMMA LoadFailsFresh ==
    ASSUME SyncTypes, FreshInv, NEW l \in loads, LoadFails(l)
    PROVE  FreshInv'
<1>0. PICK t : t = Loaded(l, NoSession)
  OBVIOUS
<1>1. /\ micro' = <<t>> /\ loads' \subseteq loads
      /\ UNCHANGED cacheVars /\ UNCHANGED needSession /\ UNCHANGED waiting /\ UNCHANGED handled
      /\ UNCHANGED chunk /\ UNCHANGED chan /\ UNCHANGED serving
  BY <1>0 DEF LoadFails, linkVars
<1>2. t \in LoadTasks /\ t.load = l /\ t.info = NoSession
  BY <1>0, BackOf, LoadFields, NoneIsSession
<1>3. \A r : Has(micro', r) <=> r = t
  BY <1>1, NothingHas
<1>4. t \notin ResumeTasks /\ t \notin WakeTasks
  BY <1>2, TaskKinds
<1>5. \A u, c : ~(Wakes(u)' /\ Stored(u, c)')
  <2> SUFFICES ASSUME NEW u, NEW c, Wakes(u)', Stored(u, c)' PROVE FALSE
    OBVIOUS
  <2>1. Stored(u, c)
    BY <1>1, StoredFewer DEF cacheVars, mapVars
  <2>2. [woken |-> u] \in WakeTasks
    BY <2>1, StagedAre DEF WakeTasks
  <2>. QED BY <1>3, <1>4, <2>2 DEF Wakes
<1>6. From(t.load.uid, t.load.sid) /\ LateFor(t.load.uid, t.info)
  BY <1>2 DEF FreshInv, LateFor
<1>7. /\ \A u, m : Leads(u, m)' => Leads(u, m)
      /\ \A u \in DOMAIN waiting' : waiting'[u] # <<>>
  BY <1>1 DEF Leads, FreshInv
<1>8. \A c, s : Told(c, s)' => Told(c, s)
  BY <1>1 DEF Told
<1>. QED BY <1>1, <1>3, <1>4, <1>5, <1>6, <1>7, <1>8, FreshKept

\* The message at the head of what is decoded is handled with copy.
LEMMA HandledFreshNow ==
    ASSUME SyncTypes, SyncTypes', FreshInv, DecodeMsg, NEW m, NEW how, NEW copy,
           Handle(m, how, copy), UNCHANGED waiting, UNCHANGED loads,
           copy.sid = m.from, needSession => Suits(m, copy),
           \A u, c : Wakes(u) /\ Stored(u, c)' => Stored(u, c)
    PROVE  FreshInv'
<1>1. /\ UNCHANGED micro /\ UNCHANGED needSession /\ chunk # <<>> /\ chunk' = Tail(chunk)
      /\ UNCHANGED chan /\ UNCHANGED serving
  BY DEF DecodeMsg
<1>2. PICK h : h = [msg |-> m, how |-> how, with |-> copy]
  OBVIOUS
<1>3. handled' = Append(handled, h) /\ h.msg = m /\ h.with = copy
  BY <1>2 DEF Handle
<1>4. \A x : Has(handled', x) => Has(handled, x) \/ x = h
  BY <1>3, AppendsHandled
<1>5. \A x : Has(handled', x) => Has(handled, x) \/
                (x.with.sid = x.msg.from /\ (needSession => Suits(x.msg, x.with)))
  BY <1>3, <1>4
<1>6. \A u, c : Wakes(u)' /\ Stored(u, c)' => Wakes(u) /\ Stored(u, c)
  BY <1>1 DEF Wakes
<1>7. /\ \A u, x : Leads(u, x)' => Leads(u, x)
      /\ \A u \in DOMAIN waiting' : waiting'[u] # <<>>
  BY DEF Leads, FreshInv
<1>8. \A c, s : Told(c, s)' => Told(c, s)
  BY <1>1, DecodedTold
<1>. QED BY <1>1, <1>5, <1>6, <1>7, <1>8, FreshKept

LEMMA JoinFresh ==
    ASSUME SyncTypes, FreshInv, DecodeMsg, NEW m \in Msgs, JoinFetch(m)
    PROVE  FreshInv'
<1>1. /\ UNCHANGED micro /\ UNCHANGED needSession /\ chunk # <<>> /\ chunk' = Tail(chunk)
      /\ UNCHANGED chan /\ UNCHANGED serving
  BY DEF DecodeMsg
<1>2. /\ m.uid \in DOMAIN waiting
      /\ waiting' = [waiting EXCEPT ![m.uid] = Append(waiting[m.uid], m)]
      /\ UNCHANGED sessionMap /\ UNCHANGED loads /\ UNCHANGED handled
  BY DEF JoinFetch, mapVars
<1>3. DOMAIN waiting' = DOMAIN waiting
      /\ \A u \in DOMAIN waiting : waiting'[u] = IF u = m.uid THEN Append(waiting[u], m) ELSE waiting[u]
  BY <1>2
<1>4. ASSUME NEW u \in DOMAIN waiting PROVE waiting'[u] # <<>> /\ waiting'[u][1] = waiting[u][1]
  <2>1. waiting[u] \in Seq(Msgs) /\ waiting[u] # <<>>
    BY BackOf DEF FreshInv
  <2>2. Append(waiting[u], m) # <<>> /\ Append(waiting[u], m)[1] = waiting[u][1]
    BY <2>1
  <2>. QED BY <1>3, <2>1, <2>2
<1>5. /\ \A u, x : Leads(u, x)' => Leads(u, x)
      /\ \A u \in DOMAIN waiting' : waiting'[u] # <<>>
  BY <1>3, <1>4 DEF Leads, FreshInv
<1>6. \A u, c : Wakes(u)' /\ Stored(u, c)' => Wakes(u) /\ Stored(u, c)
  BY <1>1, <1>2, StoredFewer DEF Wakes
<1>7. \A c, s : Told(c, s)' => Told(c, s)
  BY <1>1, DecodedTold
<1>. QED BY <1>1, <1>2, <1>5, <1>6, <1>7, FreshKept

\* A new fetch: nothing has been told about it.
LEMMA StartFresh ==
    ASSUME SyncTypes, FetchInv, Flow, FreshInv, DecodeMsg, NEW m \in Msgs, StartFetch(m)
    PROVE  FreshInv'
<1>1. /\ UNCHANGED micro /\ UNCHANGED needSession /\ chunk # <<>> /\ chunk' = Tail(chunk)
      /\ UNCHANGED chan /\ UNCHANGED serving
  BY DEF DecodeMsg
<1>2. PICK l : l = [call |-> calls', uid |-> m.uid, sid |-> m.from]
  OBVIOUS
<1>3. /\ m.uid \notin DOMAIN waiting /\ loads' = loads \cup {l} /\ calls' = calls + 1
      /\ DOMAIN waiting' = DOMAIN waiting \cup {m.uid} /\ waiting'[m.uid] = <<m>>
      /\ \A u \in DOMAIN waiting : waiting'[u] = waiting[u]
      /\ UNCHANGED sessionMap /\ UNCHANGED handled
  BY <1>2 DEF StartFetch, mapVars
<1>4. l.call = calls + 1 /\ l.uid = m.uid /\ l.sid = m.from
  BY <1>2, <1>3
<1>5. ~LoadsFor(m.uid) /\ ~HoldsIn(micro, m.uid)
  BY <1>3 DEF FetchInv
<1>6. /\ \A u : u # m.uid => \A x : Leads(u, x)' => Leads(u, x)
      /\ \A x : Leads(m.uid, x)' => x = m
  <2>1. \A u : u # m.uid => \A x : Leads(u, x)' => Leads(u, x)
    BY <1>3 DEF Leads
  <2>2. <<m>>[1] = m
    OBVIOUS
  <2>3. \A x : Leads(m.uid, x)' => x = m
    BY <1>3, <2>2 DEF Leads
  <2>. QED BY <2>1, <2>3
<1>7. \A u : u # m.uid => /\ \A f : From(u, f) => From(u, f)'
                          /\ \A s : LateFor(u, s) => LateFor(u, s)'
  BY <1>6 DEF From, LateFor
<1>8. \A c, s : Told(c, s)' => Told(c, s)
  BY <1>1, DecodedTold
<1>9. \A s : ~Told(calls + 1, s)
  <2> SUFFICES ASSUME NEW s, Told(calls + 1, s) PROVE FALSE
    OBVIOUS
  <2>1. calls \in Nat
    BY BackOf
  <2>2. CASE \E f \in Fronts : \E x : Has(serving[f], x) /\ x.call = calls + 1
    BY <2>1, <2>2 DEF Flow, CallsOK, ServedOK, Matches
  <2>3. CASE \E x \in Replies : /\ Has(chunk, x) \/ \E f \in Fronts : Has(chan[f], x)
                                /\ x.call = calls + 1
    <3>1. PICK x \in Replies : /\ Has(chunk, x) \/ \E f \in Fronts : Has(chan[f], x)
                               /\ x.call = calls + 1
      BY <2>3
    <3>2. PICK f \in Fronts : Has(Line(f), x)
      <4>1. m.from \in Fronts
        BY MsgFields
      <4>. QED BY <3>1, <4>1, LineHas
    <3>. QED BY <2>1, <3>1, <3>2 DEF Flow, LinesOK, ItemOK, ReplyOK
  <2>. QED BY <2>2, <2>3 DEF Told
<1>10. ASSUME NEW k \in loads' PROVE From(k.uid, k.sid)' /\ \A s : Told(k.call, s)' => LateFor(k.uid, s)'
  <2>1. CASE k = l
    <3>1. From(k.uid, k.sid)'
      BY <1>4, <1>6, <2>1 DEF From
    <3>. QED BY <1>4, <1>8, <1>9, <2>1, <3>1
  <2>2. CASE k # l
    <3>1. k \in loads /\ k.uid # m.uid
      BY <1>3, <1>5, <2>2 DEF LoadsFor
    <3>. QED BY <1>7, <1>8, <3>1 DEF FreshInv
  <2>. QED BY <2>1, <2>2
<1>11. ASSUME NEW t \in LoadTasks, Has(micro, t)
       PROVE  From(t.load.uid, t.load.sid)' /\ LateFor(t.load.uid, t.info)'
  <2>1. t.load.uid # m.uid
    BY <1>5, <1>11, HoldsKinds DEF Has, HoldsIn
  <2>. QED BY <1>7, <1>11, <2>1 DEF FreshInv
<1>12. ASSUME NEW u, NEW c, Wakes(u), Stored(u, c) PROVE From(u, c.sid)' /\ LateFor(u, c)'
  <2>1. [woken |-> u] \in WakeTasks /\ [woken |-> u].woken = u
    BY <1>12, StagedAre DEF WakeTasks
  <2>2. u # m.uid
    BY <1>5, <1>12, <2>1, HoldsKinds DEF Wakes, Has, HoldsIn
  <2>. QED BY <1>7, <1>12, <2>2 DEF FreshInv
<1>13. \A u, c : Wakes(u)' /\ Stored(u, c)' => Wakes(u) /\ Stored(u, c)
  BY <1>1, <1>3, StoredFewer DEF Wakes
<1>14. \A u \in DOMAIN waiting' : waiting'[u] # <<>>
  BY <1>3 DEF FreshInv
<1>15. /\ \A t \in ResumeTasks : Has(micro', t) /\ t.how # "joined" /\ t.with # <<>>
                                    => Suits(t.resume, t.with[1])
       /\ \A h : Has(handled', h) /\ h.how # "joined"
                    => h.with.sid = h.msg.from /\ (needSession' => Suits(h.msg, h.with))
  BY <1>1, <1>3 DEF FreshInv
<1>16. /\ \A t \in LoadTasks : Has(micro', t) => From(t.load.uid, t.load.sid)' /\ LateFor(t.load.uid, t.info)'
       /\ \A u, c : Wakes(u)' /\ Stored(u, c)' => From(u, c.sid)' /\ LateFor(u, c)'
  BY <1>1, <1>11, <1>12, <1>13
<1>. QED BY <1>10, <1>14, <1>15, <1>16 DEF FreshInv

LEMMA DecodeMsgFresh ==
    ASSUME SyncTypes, SyncTypes', FetchInv, Flow, Grows, Arrivals, OrderInv, FreshInv, DecodeMsg
    PROVE  FreshInv'
<1>0. PICK m : m = Head(chunk)
  OBVIOUS
<1>1. /\ HandleCached(m) \/ HandleNoNeed(m) \/ JoinFetch(m) \/ StartFetch(m)
      /\ m \in Msgs /\ MsgOK(m.session) /\ m.session.gen \in Nat /\ m.session.version \in Nat
  BY <1>0, HeadMsg, MsgVersion DEF DecodeMsg
<1>2. CASE HandleCached(m)
  <2>1. PICK c : c = Copy(m.uid)
    OBVIOUS
  <2>2. /\ Stored(m.uid, c) /\ c.sid = m.from /\ (needSession => c.version = m.session.version)
        /\ UpdateSession(m.uid, c) /\ Handle(m, "cached", c)
        /\ UNCHANGED waiting /\ UNCHANGED loads
    BY <1>2, <2>1 DEF HandleCached, Hit, Stored
  <2>3. ASSUME needSession PROVE Suits(m, c)
    <3>1. InfoOK(c) /\ c \in BackCopies
      BY <2>2, <2>3, StagedAre DEF OrderInv, VersionsOK, CopyOK
    <3>2. c.version \in Nat /\ c.gen \in Nat
      BY <3>1, CopyFields
    <3>3. c.gen >= m.session.gen
      BY <1>1, <2>2, <2>3, <3>1, <3>2 DEF InfoOK, MsgOK
    <3>. QED BY <1>1, <2>2, <3>1, <3>3 DEF InfoOK, MsgOK, Suits
  <2>4. \A u, x : Stored(u, x)' => Stored(u, x)
    BY <2>2, StoredUpdated
  <2>. QED BY <1>1, <2>2, <2>3, <2>4, HandledFreshNow
<1>3. CASE HandleNoNeed(m)
  <2>1. /\ ~needSession /\ Handle(m, "noNeed", Plain(m)) /\ UNCHANGED waiting /\ UNCHANGED loads
    BY <1>3 DEF HandleNoNeed, Plain
  <2>2. Plain(m).sid = m.from
    BY <1>1, PlainIs
  <2>3. \A u : ~Wakes(u)
    BY <2>1, NothingHas DEF OrderInv, TurnsOK, Wakes
  <2>. QED BY <1>1, <2>1, <2>2, <2>3, HandledFreshNow
<1>. QED BY <1>1, <1>2, <1>3, JoinFresh, StartFresh

\* The fetch is over: what it brought is what it has to bring.
LEMMA LoadFresh ==
    ASSUME SyncTypes, SyncTypes', FreshInv, Load
    PROVE  FreshInv'
<1>0. PICK t, u, w : t = Task /\ u = t.load.uid /\ w = [woken |-> u]
  OBVIOUS
<1>1. /\ micro' = Append(Tail(micro), w) /\ Running("load")
      /\ UNCHANGED needSession /\ UNCHANGED chunk /\ UNCHANGED loads /\ UNCHANGED linkVars
      /\ UNCHANGED waiting /\ UNCHANGED handled /\ UNCHANGED serving
      /\ IF t.info = NoSession THEN DelSession(u)
         ELSE IF u \in Cached THEN UpdateSession(u, CopyOf(t.load.sid, t.info))
         ELSE AddSession(u, CopyOf(t.load.sid, t.info))
  BY <1>0 DEF Load
<1>2. micro # <<>> /\ t \in LoadTasks
  <2>1. micro # <<>> /\ "load" \in DOMAIN Task
    BY <1>1 DEF Running
  <2>. QED BY <1>0, <2>1, TaskAtHead, TaskKinds DEF Tasks
<1>3. t.load \in Loads /\ t.info \in Sessions /\ u \in Uids /\ t.load.sid \in Fronts
  BY <1>0, <1>2, TaskKinds, LoadFields
<1>4. w \in WakeTasks /\ w \in Tasks /\ w.woken = u
  BY <1>0, <1>3 DEF WakeTasks, Tasks
<1>5. /\ \A r : Has(micro, r) <=> r = t \/ Has(Tail(micro), r)
      /\ \A r : Has(micro', r) <=> Has(Tail(micro), r) \/ r = w
  <2>1. /\ \A r : Has(micro, r) <=> r = t \/ Has(Tail(micro), r)
        /\ Tail(micro) \in Seq(Tasks)
    BY <1>0, <1>2, RestHas
  <2>2. \A r : Has(Append(Tail(micro), w), r) <=> Has(Tail(micro), r) \/ r = w
    BY <1>4, <2>1, AppendHas
  <2>. QED BY <1>1, <2>1, <2>2
<1>6. w \notin ResumeTasks /\ w \notin LoadTasks
  BY <1>4, TaskKinds
<1>7. \A v, c : Stored(v, c)' =>
          IF v = u THEN t.info # NoSession /\ c = CopyOf(t.load.sid, t.info) ELSE Stored(v, c)
  <2>1. CASE t.info = NoSession
    <3>1. \A v, c : Stored(v, c)' => Stored(v, c)
      BY <1>1, <2>1, StoredFewer
    <3>2. \A c : ~Stored(u, c)'
      <4>1. Cached' = Cached \ {u}
        BY <1>1, <2>1 DEF DelSession, Cached
      <4>. QED BY <4>1 DEF Stored
    <3>. QED BY <3>1, <3>2
  <2>2. CASE t.info # NoSession
    BY <1>1, <1>3, <2>2, StoredUpdated, StoredAdded
  <2>. QED BY <2>1, <2>2
<1>8. From(u, t.load.sid) /\ LateFor(u, t.info)
  BY <1>0, <1>2, <1>5 DEF FreshInv
<1>9. ASSUME NEW v, NEW c, Wakes(v)', Stored(v, c)'
      PROVE  (Wakes(v) /\ Stored(v, c)) \/ (From(v, c.sid) /\ LateFor(v, c))
  <2>1. CASE v = u
    <3>1. t.info # NoSession /\ c = CopyOf(t.load.sid, t.info)
      BY <1>7, <1>9, <2>1
    <3>2. c.sid = t.load.sid /\ c.gen = t.info.gen
      BY <1>3, <3>1, SessionFields
    <3>. QED BY <1>8, <2>1, <3>1, <3>2 DEF LateFor
  <2>2. CASE v # u
    <3>1. [woken |-> v].woken = v
      OBVIOUS
    <3>2. [woken |-> v] # w
      BY <1>4, <2>2, <3>1
    <3>. QED BY <1>5, <1>7, <1>9, <2>2, <3>2 DEF Wakes
  <2>. QED BY <2>1, <2>2
<1>10. /\ \A v, m : Leads(v, m)' => Leads(v, m)
       /\ \A v \in DOMAIN waiting' : waiting'[v] # <<>>
  BY <1>1 DEF Leads, FreshInv
<1>11. \A c, s : Told(c, s)' => Told(c, s)
  BY <1>1 DEF Told, linkVars
<1>12. /\ \A r \in LoadTasks : Has(micro', r) => Has(micro, r)
       /\ \A r \in ResumeTasks : Has(micro', r) => Has(micro, r)
  BY <1>5, <1>6
<1>. QED BY <1>1, <1>9, <1>10, <1>11, <1>12, FreshKept

\* The message that started the fetch finds what it brought.
LEMMA WakeFresh ==
    ASSUME SyncTypes, SyncTypes', FetchInv, OrderInv, FreshInv, Wake
    PROVE  FreshInv'
<1>0. PICK t, u, q, w : t = Task /\ u = t.woken /\ q = Resumed(u) /\ w = waiting[u]
  OBVIOUS
<1>1. /\ micro' = Tail(micro) \o q /\ Running("woken")
      /\ waiting' = [v \in DOMAIN waiting \ {u} |-> waiting[v]]
      /\ UNCHANGED cacheVars /\ UNCHANGED needSession /\ UNCHANGED chunk /\ UNCHANGED loads
      /\ UNCHANGED handled /\ UNCHANGED serving /\ UNCHANGED linkVars
  BY <1>0 DEF Wake
<1>2. micro # <<>> /\ t \in WakeTasks
  <2>1. micro # <<>> /\ "woken" \in DOMAIN Task
    BY <1>1 DEF Running
  <2>. QED BY <1>0, <2>1, TaskAtHead, TaskKinds DEF Tasks
<1>3. u \in DOMAIN waiting
  BY <1>0, WakeFetch
<1>4. /\ w \in Seq(Msgs) /\ q \in Seq(ResumeTasks) /\ w # <<>>
      /\ \A r : Has(q, r) => r \in ResumeTasks
  BY <1>0, <1>3, ResumedAre, ResumedHas DEF FreshInv
<1>5. /\ \A r : Has(micro, r) <=> r = t \/ Has(Tail(micro), r)
      /\ \A r : Has(micro', r) <=> Has(Tail(micro), r) \/ Has(q, r)
  <2>1. (\A r : Has(micro, r) <=> r = t \/ Has(Tail(micro), r)) /\ Tail(micro) \in Seq(Tasks)
    BY <1>0, <1>2, RestHas
  <2>2. q \in Seq(Tasks)
    BY <1>4 DEF Tasks
  <2>. QED BY <1>1, <2>1, <2>2, ConcatHas
<1>6. t = [woken |-> u]
  <2>1. t \in [woken : Uids]
    BY <1>2 DEF WakeTasks
  <2>. QED BY <1>0, <2>1
<1>7. Wakes(u)
  BY <1>5, <1>6 DEF Wakes
\* The first of them, and no other, counts as the one that fetched.
<1>8. \A r : Has(q, r) /\ r.how # "joined" =>
          /\ r.resume = w[1]
          /\ r.with = IF u \in Cached THEN <<Copy(u)>> ELSE <<>>
  <2> SUFFICES ASSUME NEW i \in DOMAIN q, q[i].how # "joined"
               PROVE  /\ q[i].resume = w[1]
                      /\ q[i].with = IF u \in Cached THEN <<Copy(u)>> ELSE <<>>
    BY DEF Has
  <2>1. q = [j \in DOMAIN w |->
               [resume |-> w[j], how |-> IF j = 1 THEN "fetched" ELSE "joined",
                with |-> IF u \in Cached THEN <<Copy(u)>> ELSE <<>>]]
    BY <1>0 DEF Resumed
  <2>2. /\ q[i].resume = w[i] /\ q[i].how = IF i = 1 THEN "fetched" ELSE "joined"
        /\ q[i].with = IF u \in Cached THEN <<Copy(u)>> ELSE <<>>
    BY <2>1
  <2>3. i = 1
    BY <2>2
  <2>. QED BY <2>2, <2>3
<1>9. ASSUME NEW r, Has(q, r), r.how # "joined", r.with # <<>> PROVE Suits(r.resume, r.with[1])
  <2>1. PICK c, m : c = Copy(u) /\ m = w[1]
    OBVIOUS
  <2>2. r.resume = m /\ u \in Cached /\ r.with = <<c>> /\ r.with[1] = c
    BY <1>8, <1>9, <2>1
  <2>3. Stored(u, c) /\ Leads(u, m) /\ Waits(m) /\ m \in Msgs
    <3>1. m \in Msgs /\ Has(w, m)
      BY <1>4, <2>1, FirstAndRest DEF Has
    <3>. QED BY <1>0, <1>3, <1>4, <2>1, <2>2, <3>1 DEF Stored, Leads, Waits
  <2>4. m.from = c.sid /\ (c = NoSession \/ c.gen >= m.session.gen)
    BY <1>7, <2>3 DEF FreshInv, From, LateFor
  <2>5. needSession
    BY <1>2 DEF OrderInv, TurnsOK
  <2>6. c.login = 1 /\ m.session.login = 1
    BY <2>3, <2>5 DEF OrderInv, VersionsOK, CopyOK, InfoOK, WaiterOK, MsgOK
  <2>7. c # NoSession
    BY <2>6 DEF NoSession
  <2>. QED BY <2>2, <2>4, <2>6, <2>7 DEF Suits
<1>10. \A r \in LoadTasks : Has(micro', r) => Has(micro, r)
  BY <1>4, <1>5, TaskKinds
<1>11. ASSUME NEW v, NEW c, Wakes(v)', Stored(v, c)' PROVE Wakes(v) /\ Stored(v, c)
  <2>1. Stored(v, c)
    BY <1>1, <1>11, StoredFewer DEF cacheVars, mapVars
  <2>2. [woken |-> v] \in WakeTasks
    BY <2>1, StagedAre DEF WakeTasks
  <2>3. ~Has(q, [woken |-> v])
    BY <1>4, <2>2, TaskKinds
  <2>. QED BY <1>5, <1>11, <2>1, <2>3 DEF Wakes
<1>12. /\ \A v, m : Leads(v, m)' => Leads(v, m)
       /\ \A v \in DOMAIN waiting' : waiting'[v] # <<>>
  BY <1>1 DEF Leads, FreshInv
<1>13. \A c, s : Told(c, s)' => Told(c, s)
  BY <1>1 DEF Told, linkVars
<1>. QED BY <1>1, <1>5, <1>9, <1>10, <1>11, <1>12, <1>13, FreshKept

LEMMA ResumeFresh ==
    ASSUME SyncTypes, SyncTypes', OrderInv, FreshInv, Resume
    PROVE  FreshInv'
<1>0. PICK t, m : t = Task /\ m = t.resume
  OBVIOUS
<1>1. /\ micro' = Tail(micro) /\ Running("resume")
      /\ UNCHANGED needSession /\ UNCHANGED chunk /\ UNCHANGED loads /\ UNCHANGED waiting
      /\ UNCHANGED serving /\ UNCHANGED linkVars
      /\ IF t.with # <<>> THEN Handle(m, t.how, t.with[1]) ELSE UNCHANGED handled
      /\ IF t.with # <<>> /\ m.uid \in Cached
         THEN UpdateSession(m.uid, Copy(m.uid)) ELSE UNCHANGED mapVars
  BY <1>0 DEF Resume
<1>2. micro # <<>> /\ t \in ResumeTasks
  <2>1. micro # <<>> /\ "resume" \in DOMAIN Task
    BY <1>1 DEF Running
  <2>. QED BY <1>0, <2>1, TaskAtHead, TaskKinds DEF Tasks
<1>3. \A r : Has(micro, r) <=> r = t \/ Has(micro', r)
  BY <1>0, <1>1, <1>2, RestHas
<1>4. \A h : Has(handled', h) =>
          Has(handled, h) \/ (t.with # <<>> /\ h.msg = m /\ h.how = t.how /\ h.with = t.with[1])
  <2>1. CASE t.with = <<>>
    BY <1>1, <2>1
  <2>2. CASE t.with # <<>>
    <3>1. PICK h : h = [msg |-> m, how |-> t.how, with |-> t.with[1]]
      OBVIOUS
    <3>2. handled' = Append(handled, h) /\ h.msg = m /\ h.how = t.how /\ h.with = t.with[1]
      BY <1>1, <2>2, <3>1 DEF Handle
    <3>. QED BY <2>2, <3>2, AppendsHandled
  <2>. QED BY <2>1, <2>2
<1>5. ASSUME NEW h, Has(handled', h), h.how # "joined"
      PROVE  Has(handled, h) \/ (h.with.sid = h.msg.from /\ (needSession => Suits(h.msg, h.with)))
  <2> SUFFICES ASSUME t.with # <<>>, h.msg = m, h.how = t.how, h.with = t.with[1]
               PROVE  h.with.sid = h.msg.from /\ Suits(h.msg, h.with)
    BY <1>4, <1>5
  <2>1. Suits(m, t.with[1])
    BY <1>0, <1>2, <1>3, <1>5 DEF FreshInv
  <2>. QED BY <2>1 DEF Suits
<1>6. \A v, c : Stored(v, c)' => Stored(v, c)
  <2>1. CASE t.with # <<>> /\ m.uid \in Cached
    <3>1. PICK d : d = Copy(m.uid)
      OBVIOUS
    <3>2. UpdateSession(m.uid, d) /\ Stored(m.uid, d)
      BY <1>1, <2>1, <3>1 DEF Stored
    <3>. QED BY <3>2, StoredUpdated
  <2>2. CASE ~(t.with # <<>> /\ m.uid \in Cached)
    BY <1>1, <2>2, StoredFewer DEF mapVars
  <2>. QED BY <2>1, <2>2
<1>7. \A v, c : Wakes(v)' /\ Stored(v, c)' => Wakes(v) /\ Stored(v, c)
  BY <1>3, <1>6 DEF Wakes
<1>8. /\ \A v, o : Leads(v, o)' => Leads(v, o)
      /\ \A v \in DOMAIN waiting' : waiting'[v] # <<>>
  BY <1>1 DEF Leads, FreshInv
<1>9. \A c, s : Told(c, s)' => Told(c, s)
  BY <1>1 DEF Told, linkVars
<1>. QED BY <1>1, <1>3, <1>5, <1>7, <1>8, <1>9, FreshKept

LEMMA NextFresh ==
    ASSUME Bounded, SyncInv, SyncInv', Flow, OrderInv, FreshInv, [Next]_syncVars
    PROVE  FreshInv'
<1>0. SyncTypes /\ SyncTypes' /\ FetchInv /\ Flow' /\ Grows /\ Arrivals
  BY NextFlow DEF SyncInv
\* The front ends and the connections leave what waits and what runs alone.
<1>1. ASSUME UNCHANGED cacheVars, UNCHANGED needSession, UNCHANGED loads, UNCHANGED micro,
             UNCHANGED waiting, UNCHANGED handled,
             \A l \in loads : \A s : Told(l.call, s)' => Told(l.call, s) \/ LateFor(l.uid, s)
      PROVE  FreshInv'
  <2>1. \A u, c : Stored(u, c)' => Stored(u, c)
    BY <1>0, <1>1, StoredFewer DEF cacheVars, mapVars
  <2>. QED BY <1>1, <2>1, FreshSame
<1>2. ASSUME NEW f \in Fronts, NEW u \in Uids,
             Login(f, u) \/ Logout(f, u) \/ Set(f, u) \/ Forward(f, u)
      PROVE  FreshInv'
  <2>1. /\ UNCHANGED cacheVars /\ UNCHANGED needSession /\ UNCHANGED backVars /\ UNCHANGED handled
    BY <1>2 DEF Login, Logout, Set, Forward
  <2>2. CASE Login(f, u) \/ Logout(f, u)
    <3>1. UNCHANGED serving /\ UNCHANGED linkVars /\ UNCHANGED backVars
      BY <2>2 DEF Login, Logout
    <3>2. \A c, s : Told(c, s)' => Told(c, s)
      BY <3>1 DEF Told, linkVars, backVars
    <3>. QED BY <1>1, <2>1, <3>2 DEF backVars
  <2>3. CASE Set(f, u)
    BY <1>0, <1>1, <2>1, <2>3, SetTold DEF backVars
  <2>4. CASE Forward(f, u)
    BY <1>0, <1>1, <2>1, <2>4, ForwardTold DEF backVars
  <2>. QED BY <1>2, <2>2, <2>3, <2>4
<1>3. ASSUME NEW f \in Fronts,
             GetSession(f) \/ Reply(f) \/ Connect(f) \/ Disconnect(f)
      PROVE  FreshInv'
  <2>1. /\ UNCHANGED cacheVars /\ UNCHANGED needSession /\ UNCHANGED backVars /\ UNCHANGED handled
    BY <1>3 DEF GetSession, Reply, Connect, Disconnect
  <2>2. CASE Connect(f)
    <3>1. UNCHANGED serving /\ UNCHANGED chan /\ UNCHANGED chunk
      BY <2>2 DEF Connect, backVars
    <3>2. \A c, s : Told(c, s)' => Told(c, s)
      BY <3>1 DEF Told
    <3>. QED BY <1>1, <2>1, <3>2 DEF backVars
  <2>3. CASE GetSession(f)
    BY <1>0, <1>1, <2>1, <2>3, GetSessionTold DEF backVars
  <2>4. CASE Reply(f) \/ Disconnect(f)
    BY <1>0, <1>1, <2>1, <2>4, ReplyTold, DisconnectTold DEF backVars
  <2>. QED BY <1>3, <2>2, <2>3, <2>4
<1>4. ASSUME NEW f \in Fronts, Read(f) PROVE FreshInv'
  <2>1. /\ UNCHANGED cacheVars /\ UNCHANGED needSession /\ UNCHANGED handled /\ UNCHANGED micro
        /\ UNCHANGED loads /\ UNCHANGED waiting
    BY <1>4 DEF Read
  <2>. QED BY <1>0, <1>1, <1>4, <2>1, ReadTold
<1>5. ASSUME NEW l \in loads, LoadFails(l) PROVE FreshInv'
  BY <1>0, <1>5, LoadFailsFresh
<1>6. CASE BackStep
  BY <1>0, <1>6, DecodeReplyFresh, DecodeMsgFresh, LoadFresh, WakeFresh, ResumeFresh DEF BackStep
<1>7. CASE Tick \/ Time
  <2>1. /\ CheckExpire \/ Clock
        /\ UNCHANGED needSession /\ UNCHANGED backVars /\ UNCHANGED handled
        /\ UNCHANGED serving /\ UNCHANGED linkVars
    BY <1>7 DEF Tick, Time
  <2>2. \A c, s : Told(c, s)' => Told(c, s)
    BY <2>1 DEF Told, linkVars, backVars
  <2>3. \A u, c : Stored(u, c)' => Stored(u, c)
    BY <1>0, <2>1, StoredFewer
  <2>. QED BY <2>1, <2>2, <2>3, FreshSame DEF backVars
<1>8. CASE UNCHANGED syncVars
  <2>1. /\ UNCHANGED cacheVars /\ UNCHANGED needSession /\ UNCHANGED backVars /\ UNCHANGED handled
        /\ UNCHANGED serving /\ UNCHANGED linkVars
    BY <1>8 DEF syncVars
  <2>2. \A c, s : Told(c, s)' => Told(c, s)
    BY <2>1 DEF Told, linkVars, backVars
  <2>. QED BY <1>1, <2>1, <2>2 DEF backVars
<1>. QED BY <1>2, <1>3, <1>4, <1>5, <1>6, <1>7, <1>8 DEF Next

LEMMA InitFresh == ASSUME Init PROVE FreshInv
<1>1. chunk = <<>> /\ micro = <<>> /\ loads = {} /\ waiting = <<>> /\ handled = <<>> /\ Cached = {}
  BY DEF Init, CacheInit, Cached
<1>2. DOMAIN waiting = {}
  BY <1>1
<1>. QED BY <1>1, <1>2, NothingHas DEF FreshInv, Wakes

\* As long as no player logs in twice at a front end and no version wraps, a message
\* that found its session cached, or fetched it, is handled with settings no older
\* than those it was forwarded with (handleMsg, loadSession).  One that joined the
\* fetch of another is not, and neither hypothesis can be dropped.
THEOREM SettingsUpToDate == ASSUME Bounded PROVE Spec => []FreshUnlessShared
<1>1. Init => SyncInv /\ Flow /\ OrderInv /\ FreshInv
  BY SyncInitInv, InitFlow, InitOrder, InitFresh
<1>2. SyncInv /\ Flow /\ OrderInv /\ FreshInv /\ [Next]_syncVars
         => (SyncInv /\ Flow /\ OrderInv /\ FreshInv)'
  <2> SUFFICES ASSUME SyncInv, Flow, OrderInv, FreshInv, [Next]_syncVars
               PROVE  SyncInv' /\ Flow' /\ OrderInv' /\ FreshInv'
    OBVIOUS
  <2>1. SyncInv'
    BY SyncNextInv
  <2>. QED BY <2>1, NextFlow, NextOrder, NextFresh DEF SyncInv
<1>3. FreshInv => FreshUnlessShared
  <2> SUFFICES ASSUME FreshInv, NEW i \in DOMAIN handled, handled[i].how # "joined"
               PROVE  Fresh(handled[i])
    BY DEF FreshUnlessShared
  <2>1. Has(handled, handled[i])
    BY DEF Has
  <2>. QED BY <2>1 DEF FreshInv, Suits, Fresh
<1>. QED BY <1>1, <1>2, <1>3, PTL DEF Spec
=============================================================================
