-------------------------- MODULE ConnectorProofs --------------------------
(***************************************************************************)
(* Proofs about Connector, for any clients, buckets and limits: no message *)
(* is lost, doubled or stuck, and the counters count.                      *)
(***************************************************************************)
EXTENDS Connector, DataTheorems, TLAPS

(***************************************************************************)
(* The inductive invariant, of a state s of the process.                   *)
(***************************************************************************)

Here(s) == DOMAIN s.sockets

\* Client c is in the bucket that its bucketIdx names, or in none.
Placed(s, c) ==
    \A b \in BucketIds : c \in s.buckets[b]
        <=> ~s.sockets[c].notInBucket /\ b = s.sockets[c].bucketIdx
Waits(s, c) == s.sockets[c].sendArr # <<>> => ~s.sockets[c].notInBucket

\* What it was sent is what was written, and then what is to be written.
Held(s, c) ==
    /\ s.written[c] <= s.sent[c]
    /\ s.sockets[c].state = "open" => s.sockets[c].sendArr =
          [i \in 1..s.sent[c] - s.written[c] |-> s.written[c] + i]
    /\ s.sockets[c].state = "closed" => s.written[c] = s.sent[c]

Unknown(s, c) == s.written[c] = s.sent[c] /\ \A b \in BucketIds : c \notin s.buckets[b]

ClientsOK(s) ==
    \A c \in Clients : IF c \in Here(s) THEN Placed(s, c) /\ Waits(s, c) /\ Held(s, c)
                       ELSE Unknown(s, c)

OpenOf(s) == {c \in Here(s) : s.sockets[c].state = "open"}
SessionsOf(s) == {c \in Here(s) : s.sockets[c].session}

CountersOK(s) ==
    /\ IsFiniteSet(Here(s))
    /\ s.nowConnectionNum = Cardinality(OpenOf(s)) /\ s.nowConnectionNum <= MaxConnectionNum
    /\ s.clientNum = Cardinality(SessionsOf(s))

\* A session is of an open client, and a uid of the session that bound it.
Bound(s, c, k) ==
    /\ k.session => k.state = "open"
    /\ k.session /\ k.uid # 0 => k.uid \in DOMAIN s.clients /\ s.clients[k.uid] = c
    /\ k.listener = "onRegister" => ~k.session /\ k.uid = 0
UidsOK(s) ==
    /\ \A c \in Here(s) : Bound(s, c, s.sockets[c])
    /\ \A u \in DOMAIN s.clients :
          /\ s.clients[u] \in Here(s)
          /\ s.sockets[s.clients[u]].session /\ s.sockets[s.clients[u]].uid = u

FrontOK(s) == s \in FrontType /\ ClientsOK(s) /\ CountersOK(s) /\ UidsOK(s)

\* Only the frames of a connected client are being read, and a client that has not
\* registered is not closed meanwhile.
ReadsOK ==
    chunk # <<>> =>
        /\ chunk \in [client : Clients, frames : Seq(Frames)]
        /\ chunk.frames # <<>> /\ chunk.client \in Here(front)
        /\ Socket(chunk.client).listener = "onRegister" => Open(chunk.client)

RestOK ==
    /\ \A m \in handling : m.client \in Here(front)
    /\ received \in [Clients -> Nat] /\ forwarded \in [Clients -> Uids \cup {0}]

ConnInv == FrontOK(front) /\ ReadsOK /\ RestOK

(***************************************************************************)
(* What a step that concerns one client leaves alone.                      *)
(***************************************************************************)

Alike(s, r, c) ==
    /\ c \in Here(s) => r.sockets[c] = s.sockets[c]
    /\ r.sent[c] = s.sent[c] /\ r.written[c] = s.written[c]
    /\ \A b \in BucketIds : c \in r.buckets[b] <=> c \in s.buckets[b]

\* What the counters and the uids depend on.
SameSelf(k, l) ==
    l.state = k.state /\ l.session = k.session /\ l.uid = k.uid /\ l.listener = k.listener
Still(s, r) ==
    /\ Here(r) = Here(s)
    /\ r.nowConnectionNum = s.nowConnectionNum /\ r.clientNum = s.clientNum
    /\ r.clients = s.clients
    /\ \A c \in Here(s) : SameSelf(s.sockets[c], r.sockets[c])

Kept(s, r, c) == r \in FrontType /\ Still(s, r) /\ \A d \in Clients \ {c} : Alike(s, r, d)

LEMMA FrontIs ==
    ASSUME NEW s \in FrontType
    PROVE  /\ s.nowConnectionNum \in Int /\ s.clientNum \in Int
           /\ s.bucketIdx \in BucketIds /\ s.flushIdx \in BucketIds
           /\ s.buckets \in [BucketIds -> SUBSET Clients]
           /\ s.clients \in MapsOf(Uids, Clients)
           /\ s.sent \in [Clients -> Nat] /\ s.written \in [Clients -> Nat]
           /\ s.sockets \in MapsOf(Clients, SocketType)
           /\ Here(s) \subseteq Clients
           /\ \A c \in Here(s) : s.sockets[c] \in SocketType
<1>1. s.sockets \in MapsOf(Clients, SocketType)
  BY DEF FrontType, MapsOf
<1>2. Here(s) \subseteq Clients /\ \A c \in Here(s) : s.sockets[c] \in SocketType
  BY <1>1, MapElim DEF Here
<1>. QED BY <1>1, <1>2 DEF FrontType, MapsOf

Put(s, K, B, S, W) == [s EXCEPT !.sockets = K, !.buckets = B, !.sent = S, !.written = W]

LEMMA FrontChanged ==
    ASSUME NEW s \in FrontType, NEW K \in MapsOf(Clients, SocketType),
           NEW B \in [BucketIds -> SUBSET Clients],
           NEW S \in [Clients -> Nat], NEW W \in [Clients -> Nat], NEW r,
           r = Put(s, K, B, S, W)
    PROVE  /\ r \in FrontType
           /\ r.sockets = K /\ r.buckets = B /\ r.sent = S /\ r.written = W
           /\ r.nowConnectionNum = s.nowConnectionNum /\ r.clientNum = s.clientNum
           /\ r.clients = s.clients /\ r.bucketIdx = s.bucketIdx /\ r.flushIdx = s.flushIdx
BY DEF Put, FrontType, MapsOf

Recount(s, C, n) == [s EXCEPT !.clients = C, !.clientNum = n]

LEMMA ClientsChanged ==
    ASSUME NEW s \in FrontType, NEW C \in MapsOf(Uids, Clients), NEW n \in Int, NEW r,
           r = Recount(s, C, n)
    PROVE  /\ r \in FrontType
           /\ r.clients = C /\ r.clientNum = n
           /\ r.sockets = s.sockets /\ r.buckets = s.buckets
           /\ r.sent = s.sent /\ r.written = s.written
           /\ r.nowConnectionNum = s.nowConnectionNum
BY DEF Recount, FrontType, MapsOf

LEMMA SocketPut ==
    ASSUME NEW s \in FrontType, NEW c \in Here(s), NEW k \in SocketType, NEW K,
           K = [s.sockets EXCEPT ![c] = k]
    PROVE  /\ K \in MapsOf(Clients, SocketType)
           /\ DOMAIN K = Here(s) /\ K[c] = k
           /\ \A d \in Here(s) \ {c} : K[d] = s.sockets[d]
<1>1. s.sockets \in [Here(s) -> SocketType] /\ Here(s) \in SUBSET Clients
  BY FrontIs, MapElim DEF Here
<1>2. K \in [Here(s) -> SocketType]
  BY <1>1
<1>. QED BY <1>1, <1>2, MapIntro

\* K, B, S and W differ from what s has for client c alone.
Near(s, c, k, K, B, S, W) ==
    /\ k \in SocketType /\ SameSelf(s.sockets[c], k) /\ K = [s.sockets EXCEPT ![c] = k]
    /\ B \in [BucketIds -> SUBSET Clients]
    /\ \A d \in Clients \ {c} : \A b \in BucketIds : d \in B[b] <=> d \in s.buckets[b]
    /\ S \in [Clients -> Nat] /\ \A d \in Clients \ {c} : S[d] = s.sent[d]
    /\ W \in [Clients -> Nat] /\ \A d \in Clients \ {c} : W[d] = s.written[d]

LEMMA PutKept ==
    ASSUME NEW s \in FrontType, NEW c \in Here(s), NEW k, NEW K, NEW B, NEW S, NEW W,
           Near(s, c, k, K, B, S, W), NEW r, r = Put(s, K, B, S, W)
    PROVE  /\ Kept(s, r, c) /\ c \in Here(r)
           /\ r.sockets[c] = k /\ r.buckets = B /\ r.sent = S /\ r.written = W
<1>1. /\ k \in SocketType /\ SameSelf(s.sockets[c], k) /\ K = [s.sockets EXCEPT ![c] = k]
      /\ B \in [BucketIds -> SUBSET Clients]
      /\ \A d \in Clients \ {c} : \A b \in BucketIds : d \in B[b] <=> d \in s.buckets[b]
      /\ S \in [Clients -> Nat] /\ \A d \in Clients \ {c} : S[d] = s.sent[d]
      /\ W \in [Clients -> Nat] /\ \A d \in Clients \ {c} : W[d] = s.written[d]
  BY DEF Near
<1>2. /\ K \in MapsOf(Clients, SocketType) /\ DOMAIN K = Here(s) /\ K[c] = k
      /\ \A d \in Here(s) \ {c} : K[d] = s.sockets[d]
  BY <1>1, SocketPut
<1>3. /\ r \in FrontType
      /\ r.sockets = K /\ r.buckets = B /\ r.sent = S /\ r.written = W
      /\ r.nowConnectionNum = s.nowConnectionNum /\ r.clientNum = s.clientNum
      /\ r.clients = s.clients
  BY <1>1, <1>2, FrontChanged
<1>4. Still(s, r)
  <2>1. \A d \in Here(s) : SameSelf(s.sockets[d], r.sockets[d])
    BY <1>1, <1>2, <1>3 DEF SameSelf
  <2>. QED BY <1>2, <1>3, <2>1 DEF Still, Here
<1>5. \A d \in Clients \ {c} : Alike(s, r, d)
  BY <1>1, <1>2, <1>3 DEF Alike, Here
<1>. QED BY <1>2, <1>3, <1>4, <1>5 DEF Kept, Here

LEMMA AddBucketIs ==
    ASSUME NEW s \in FrontType, NEW c \in Here(s), NEW r, r = AddBucket(s, c),
           NEW k, k = s.sockets[c]
    PROVE  /\ Kept(s, r, c) /\ c \in Here(r)
           /\ r.sockets[c] = [k EXCEPT !.notInBucket = FALSE]
           /\ r.sent = s.sent /\ r.written = s.written
           /\ \A b \in BucketIds : c \in r.buckets[b] <=> b = k.bucketIdx \/ c \in s.buckets[b]
<1>0. /\ k \in SocketType /\ c \in Clients /\ k.bucketIdx \in BucketIds
      /\ s.buckets \in [BucketIds -> SUBSET Clients]
      /\ s.sent \in [Clients -> Nat] /\ s.written \in [Clients -> Nat]
  BY FrontIs DEF SocketType
<1>1. PICK l, B, K :
                  /\ l = [k EXCEPT !.notInBucket = FALSE] /\ K = [s.sockets EXCEPT ![c] = l]
                  /\ B = [s.buckets EXCEPT ![k.bucketIdx] = s.buckets[k.bucketIdx] \cup {c}]
  OBVIOUS
<1>2. l \in SocketType /\ SameSelf(k, l)
  BY <1>0, <1>1 DEF SocketType, SameSelf
<1>3. /\ B \in [BucketIds -> SUBSET Clients]
      /\ \A d \in Clients \ {c} : \A b \in BucketIds : d \in B[b] <=> d \in s.buckets[b]
      /\ \A b \in BucketIds : c \in B[b] <=> b = k.bucketIdx \/ c \in s.buckets[b]
  BY <1>0, <1>1
<1>4. r = Put(s, K, B, s.sent, s.written)
  BY <1>1 DEF AddBucket, Put, FrontType
<1>5. Near(s, c, l, K, B, s.sent, s.written)
  BY <1>0, <1>1, <1>2, <1>3 DEF Near
<1>6. /\ Kept(s, r, c) /\ c \in Here(r)
      /\ r.sockets[c] = l /\ r.buckets = B /\ r.sent = s.sent /\ r.written = s.written
  BY <1>4, <1>5, PutKept
<1>. QED BY <1>1, <1>3, <1>6

LEMMA KeptTwice ==
    ASSUME NEW s, NEW r, NEW t, NEW c, Kept(s, r, c), Kept(r, t, c)
    PROVE  Kept(s, t, c)
<1>1. Still(s, t)
  BY DEF Kept, Still, SameSelf
<1>2. \A d \in Clients \ {c} : Alike(s, t, d)
  BY DEF Kept, Still, Alike
<1>. QED BY <1>1, <1>2 DEF Kept

LEMMA KeptSelf == ASSUME NEW s \in FrontType, NEW c PROVE Kept(s, s, c)
BY DEF Kept, Still, Alike, SameSelf

LEMMA RemoveBucketIs ==
    ASSUME NEW s \in FrontType, NEW c \in Here(s), NEW r, r = RemoveBucket(s, c),
           NEW k, k = s.sockets[c], Placed(s, c)
    PROVE  /\ Kept(s, r, c) /\ c \in Here(r)
           /\ r.sockets[c] = [k EXCEPT !.notInBucket = TRUE]
           /\ r.sent = s.sent /\ r.written = s.written
           /\ \A b \in BucketIds : c \notin r.buckets[b]
<1>0. /\ k \in SocketType /\ c \in Clients /\ k.bucketIdx \in BucketIds
      /\ s.buckets \in [BucketIds -> SUBSET Clients]
      /\ s.sent \in [Clients -> Nat] /\ s.written \in [Clients -> Nat]
  BY FrontIs DEF SocketType
<1>1. CASE k.notInBucket
  <2>1. r = s /\ [k EXCEPT !.notInBucket = TRUE] = k
    BY <1>0, <1>1 DEF RemoveBucket, SocketType
  <2>. QED BY <1>1, <2>1, KeptSelf DEF Placed
<1>2. CASE ~k.notInBucket
  <2>1. PICK l, B, K :
             /\ l = [k EXCEPT !.notInBucket = TRUE] /\ K = [s.sockets EXCEPT ![c] = l]
             /\ B = [s.buckets EXCEPT ![k.bucketIdx] = s.buckets[k.bucketIdx] \ {c}]
    OBVIOUS
  <2>2. l \in SocketType /\ SameSelf(k, l)
    BY <1>0, <2>1 DEF SocketType, SameSelf
  <2>3. /\ B \in [BucketIds -> SUBSET Clients]
        /\ \A d \in Clients \ {c} : \A b \in BucketIds : d \in B[b] <=> d \in s.buckets[b]
        /\ \A b \in BucketIds : c \notin B[b]
    BY <1>0, <2>1 DEF Placed
  <2>4. r = Put(s, K, B, s.sent, s.written)
    BY <1>2, <2>1 DEF RemoveBucket, Put, FrontType
  <2>5. Near(s, c, l, K, B, s.sent, s.written)
    BY <1>0, <2>1, <2>2, <2>3 DEF Near
  <2>6. /\ Kept(s, r, c) /\ c \in Here(r)
        /\ r.sockets[c] = l /\ r.buckets = B /\ r.sent = s.sent /\ r.written = s.written
    BY <2>4, <2>5, PutKept
  <2>. QED BY <2>1, <2>3, <2>6
<1>. QED BY <1>1, <1>2

LEMMA SendIntervalIs ==
    ASSUME NEW s \in FrontType, NEW c \in Here(s), NEW r, r = SendInterval(s, c),
           NEW k, k = s.sockets[c]
    PROVE  /\ Kept(s, r, c) /\ c \in Here(r)
           /\ r.sockets[c] = [k EXCEPT !.sendArr = <<>>]
           /\ r.sent = s.sent /\ r.buckets = s.buckets
           /\ r.written[c] = IF k.sendArr # <<>> /\ k.state = "open"
                             THEN k.sendArr[Len(k.sendArr)] ELSE s.written[c]
<1>0. /\ k \in SocketType /\ c \in Clients /\ k.sendArr \in Seq(Nat)
      /\ s.buckets \in [BucketIds -> SUBSET Clients]
      /\ s.sent \in [Clients -> Nat] /\ s.written \in [Clients -> Nat]
  BY FrontIs DEF SocketType
<1>1. PICK l, n, W, K :
           /\ l = [k EXCEPT !.sendArr = <<>>] /\ K = [s.sockets EXCEPT ![c] = l]
           /\ n = IF k.sendArr # <<>> /\ k.state = "open"
                  THEN k.sendArr[Len(k.sendArr)] ELSE s.written[c]
           /\ W = [s.written EXCEPT ![c] = n]
  OBVIOUS
<1>2. l \in SocketType /\ SameSelf(k, l)
  <2>1. <<>> \in Seq(Nat)
    OBVIOUS
  <2>. QED BY <1>0, <1>1, <2>1 DEF SocketType, SameSelf
<1>3. n \in Nat
  BY <1>0, <1>1
<1>4. W \in [Clients -> Nat] /\ W[c] = n /\ \A d \in Clients \ {c} : W[d] = s.written[d]
  BY <1>0, <1>1, <1>3
<1>5. r = Put(s, K, s.buckets, s.sent, W)
  BY <1>1 DEF SendInterval, Put, Last, FrontType
<1>6. Near(s, c, l, K, s.buckets, s.sent, W)
  BY <1>0, <1>1, <1>2, <1>4 DEF Near
<1>7. /\ Kept(s, r, c) /\ c \in Here(r)
      /\ r.sockets[c] = l /\ r.buckets = s.buckets /\ r.sent = s.sent /\ r.written = W
  BY <1>5, <1>6, PutKept
<1>. QED BY <1>1, <1>4, <1>7

LEMMA MovedIs ==
    ASSUME NEW s \in FrontType, NEW c \in Here(s), NEW r, r = Moved(s, c),
           NEW k, k = s.sockets[c]
    PROVE  /\ Kept(s, r, c) /\ c \in Here(r)
           /\ r.sockets[c].notInBucket = k.notInBucket
           /\ r.sockets[c].sendArr = k.sendArr
           /\ r.sent = s.sent /\ r.written = s.written /\ r.buckets = s.buckets
<1>0. /\ k \in SocketType /\ c \in Clients /\ k.willBucketIdx \in BucketIds \cup {NoBucket}
      /\ s.buckets \in [BucketIds -> SUBSET Clients]
      /\ s.sent \in [Clients -> Nat] /\ s.written \in [Clients -> Nat]
  BY FrontIs DEF SocketType
<1>1. CASE k.willBucketIdx = NoBucket
  BY <1>1, KeptSelf DEF Moved
<1>2. CASE k.willBucketIdx # NoBucket
  <2>1. PICK l, K :
             /\ l = [k EXCEPT !.bucketIdx = k.willBucketIdx, !.willBucketIdx = NoBucket]
             /\ K = [s.sockets EXCEPT ![c] = l]
    OBVIOUS
  <2>2. /\ l \in SocketType /\ SameSelf(k, l)
        /\ l.notInBucket = k.notInBucket /\ l.sendArr = k.sendArr
    BY <1>0, <1>2, <2>1 DEF SocketType, SameSelf
  <2>3. r = Put(s, K, s.buckets, s.sent, s.written)
    BY <1>2, <2>1 DEF Moved, Put, FrontType
  <2>4. Near(s, c, l, K, s.buckets, s.sent, s.written)
    BY <1>0, <2>1, <2>2 DEF Near
  <2>5. /\ Kept(s, r, c) /\ c \in Here(r)
        /\ r.sockets[c] = l /\ r.buckets = s.buckets /\ r.sent = s.sent /\ r.written = s.written
    BY <2>3, <2>4, PutKept
  <2>. QED BY <2>2, <2>5
<1>. QED BY <1>1, <1>2

\* A client in its bucket or in none, whatever it has to send, is in its bucket.
LEMMA WaitInBucketOK ==
    ASSUME NEW s \in FrontType, NEW c \in Here(s), NEW r, r = WaitInBucket(s, c),
           Placed(s, c), Held(s, c)
    PROVE  Kept(s, r, c) /\ Placed(r, c) /\ Waits(r, c) /\ Held(r, c)
<1>0. PICK k : k = s.sockets[c] /\ c \in Clients /\ k \in SocketType
  BY FrontIs
<1>1. CASE ~k.notInBucket
  BY <1>0, <1>1, KeptSelf DEF WaitInBucket, Waits
<1>2. CASE k.notInBucket
  <2>1. PICK m, l : m = Moved(s, c) /\ l = m.sockets[c]
    OBVIOUS
  <2>2. /\ Kept(s, m, c) /\ c \in Here(m) /\ m \in FrontType
        /\ l.notInBucket = k.notInBucket /\ l.sendArr = k.sendArr
        /\ m.sent = s.sent /\ m.written = s.written /\ m.buckets = s.buckets
    BY <1>0, <2>1, MovedIs DEF Kept
  <2>3. r = AddBucket(m, c)
    BY <1>0, <1>2, <2>1 DEF WaitInBucket
  <2>4. /\ Kept(m, r, c) /\ c \in Here(r)
        /\ r.sockets[c] = [l EXCEPT !.notInBucket = FALSE]
        /\ r.sent = m.sent /\ r.written = m.written
        /\ \A b \in BucketIds : c \in r.buckets[b] <=> b = l.bucketIdx \/ c \in m.buckets[b]
    BY <2>1, <2>2, <2>3, AddBucketIs
  <2>5. l \in SocketType
    BY <2>1, <2>2, FrontIs
  <2>6. /\ ~r.sockets[c].notInBucket /\ r.sockets[c].bucketIdx = l.bucketIdx
        /\ r.sockets[c].sendArr = k.sendArr
    BY <2>2, <2>4, <2>5 DEF SocketType
  <2>7. Placed(r, c) /\ Waits(r, c)
    BY <1>0, <1>2, <2>2, <2>4, <2>6 DEF Placed, Waits
  <2>8. Kept(s, r, c)
    BY <2>2, <2>4, KeptTwice
  <2>9. r.sockets[c].state = k.state
    BY <1>0, <2>8 DEF Kept, Still, SameSelf
  <2>10. Held(r, c)
    BY <1>0, <2>2, <2>4, <2>6, <2>9 DEF Held
  <2>. QED BY <2>7, <2>8, <2>10
<1>. QED BY <1>1, <1>2

\* What is held is written, if there is someone to write it to.
LEMMA SendIntervalOK ==
    ASSUME NEW s \in FrontType, NEW c \in Here(s), NEW r, r = SendInterval(s, c), Held(s, c)
    PROVE  /\ Kept(s, r, c) /\ Held(r, c) /\ r.buckets = s.buckets
           /\ r.sockets[c] = [s.sockets[c] EXCEPT !.sendArr = <<>>]
           /\ s.sockets[c].state \in {"open", "closed"} => r.written[c] = r.sent[c]
<1>0. PICK k : k = s.sockets[c]
  OBVIOUS
<1>1. k \in SocketType /\ c \in Clients
  BY <1>0, FrontIs
<1>2. /\ Kept(s, r, c) /\ r.sockets[c] = [k EXCEPT !.sendArr = <<>>]
      /\ r.sent = s.sent /\ r.buckets = s.buckets
      /\ r.written[c] = IF k.sendArr # <<>> /\ k.state = "open"
                        THEN k.sendArr[Len(k.sendArr)] ELSE s.written[c]
  BY <1>0, SendIntervalIs
<1>3. r.sockets[c].state = k.state /\ r.sockets[c].sendArr = <<>>
  BY <1>1, <1>2 DEF SocketType
<1>4. s.sent[c] \in Nat /\ s.written[c] \in Nat
  BY <1>1, FrontIs
<1>5. k.state = "open" => r.written[c] = s.sent[c]
  <2> SUFFICES ASSUME k.state = "open" PROVE r.written[c] = s.sent[c]
    OBVIOUS
  <2>1. PICK d : d = s.sent[c] - s.written[c] /\ d \in Nat
    BY <1>4 DEF Held
  <2>2. k.sendArr = [i \in 1..d |-> s.written[c] + i]
    BY <1>0, <2>1 DEF Held
  <2>3. CASE d = 0
    <3>1. k.sendArr = <<>>
      BY <2>2, <2>3
    <3>. QED BY <1>2, <1>4, <2>1, <2>3, <3>1
  <2>4. CASE d > 0
    <3>1. Len(k.sendArr) = d
      BY <2>1, <2>2
    <3>2. k.sendArr # <<>> /\ k.sendArr[d] = s.sent[c]
      BY <1>4, <2>1, <2>2, <2>4, <3>1
    <3>. QED BY <1>2, <3>1, <3>2
  <2>. QED BY <2>1, <2>3, <2>4
<1>6. k.state # "open" => r.written[c] = s.written[c]
  BY <1>2
<1>7. Held(r, c)
  <2>1. CASE k.state = "open"
    <3>1. [i \in 1..0 |-> r.written[c] + i] = <<>>
      OBVIOUS
    <3>. QED BY <1>2, <1>3, <1>4, <1>5, <2>1, <3>1 DEF Held
  <2>2. CASE k.state # "open"
    BY <1>0, <1>2, <1>3, <1>6, <2>2 DEF Held
  <2>. QED BY <2>1, <2>2
<1>8. k.state \in {"open", "closed"} => r.written[c] = r.sent[c]
  BY <1>0, <1>1, <1>2, <1>5, <1>6 DEF Held, SocketType
<1>. QED BY <1>0, <1>2, <1>7, <1>8

\* Out of its bucket and everything written.
LEMMA EmptiedOK ==
    ASSUME NEW s \in FrontType, NEW c \in Here(s), NEW r,
           r = SendInterval(RemoveBucket(s, c), c), Placed(s, c), Held(s, c)
    PROVE  /\ Kept(s, r, c) /\ Placed(r, c) /\ Waits(r, c) /\ Held(r, c)
           /\ s.sockets[c].state \in {"open", "closed"} => r.written[c] = r.sent[c]
<1>0. PICK k, m, l : k = s.sockets[c] /\ m = RemoveBucket(s, c) /\ l = m.sockets[c]
  OBVIOUS
<1>1. k \in SocketType /\ c \in Clients
  BY <1>0, FrontIs
<1>2. /\ Kept(s, m, c) /\ c \in Here(m) /\ m \in FrontType
      /\ l = [k EXCEPT !.notInBucket = TRUE]
      /\ m.sent = s.sent /\ m.written = s.written
      /\ \A b \in BucketIds : c \notin m.buckets[b]
  BY <1>0, RemoveBucketIs DEF Kept
<1>3. l \in SocketType /\ l.state = k.state /\ l.sendArr = k.sendArr /\ l.notInBucket
  BY <1>1, <1>2 DEF SocketType
<1>4. Held(m, c)
  BY <1>0, <1>2, <1>3 DEF Held
<1>5. /\ Kept(m, r, c) /\ Held(r, c) /\ r.buckets = m.buckets
      /\ r.sockets[c] = [l EXCEPT !.sendArr = <<>>]
      /\ l.state \in {"open", "closed"} => r.written[c] = r.sent[c]
  <2>1. r = SendInterval(m, c) /\ l = m.sockets[c] /\ m \in FrontType /\ c \in Here(m)
    BY <1>0, <1>2
  <2>. QED BY <1>4, <2>1, SendIntervalOK
<1>6. Placed(r, c) /\ Waits(r, c)
  BY <1>2, <1>3, <1>5 DEF Placed, Waits, SocketType
<1>. QED BY <1>0, <1>2, <1>3, <1>5, <1>6, KeptTwice

LEMMA SendOK ==
    ASSUME NEW s \in FrontType, NEW c \in Here(s), NEW r, r = Send(s, c),
           Placed(s, c), Held(s, c)
    PROVE  Kept(s, r, c) /\ Placed(r, c) /\ Waits(r, c) /\ Held(r, c)
<1>0. PICK k : k = s.sockets[c] /\ k \in SocketType /\ c \in Clients
  BY FrontIs
<1>1. PICK n, e, l, K, S, m :
           /\ n = IF k.state = "open" THEN s.sent[c] + 1 ELSE s.sent[c]
           /\ e = IF k.state = "open" THEN s.sent[c] + 1 ELSE Late
           /\ l = [k EXCEPT !.sendArr = Append(k.sendArr, e)]
           /\ K = [s.sockets EXCEPT ![c] = l] /\ S = [s.sent EXCEPT ![c] = n]
           /\ m = Put(s, K, s.buckets, S, s.written)
  OBVIOUS
<1>2. /\ s.buckets \in [BucketIds -> SUBSET Clients] /\ k.sendArr \in Seq(Nat)
      /\ s.sent \in [Clients -> Nat] /\ s.written \in [Clients -> Nat]
      /\ s.sent[c] \in Nat /\ s.written[c] \in Nat
  BY <1>0, FrontIs DEF SocketType
<1>3. /\ r = IF Len(m.sockets[c].sendArr) > IntervalCacheLen
             THEN SendInterval(RemoveBucket(m, c), c) ELSE WaitInBucket(m, c)
  <2>1. m = [s EXCEPT !.sent[c] = n, !.sockets[c].sendArr = Append(k.sendArr, e)]
    BY <1>0, <1>1 DEF Put, FrontType
  <2>2. m = [s EXCEPT !.sent[c] = IF s.sockets[c].state = "open" THEN @ + 1 ELSE @,
                      !.sockets[c].sendArr =
                          Append(@, IF s.sockets[c].state = "open" THEN s.sent[c] + 1 ELSE Late)]
    BY <1>0, <1>1, <2>1
  <2>. QED BY <2>2 DEF Send
<1>4. /\ n \in Nat /\ e \in Nat
      /\ Append(k.sendArr, e) \in Seq(Nat)
  BY <1>1, <1>2 DEF Late
<1>5. l \in SocketType /\ SameSelf(k, l) /\ l.notInBucket = k.notInBucket
      /\ l.bucketIdx = k.bucketIdx /\ l.sendArr = Append(k.sendArr, e)
  BY <1>0, <1>1, <1>4 DEF SocketType, SameSelf
<1>6. S \in [Clients -> Nat] /\ S[c] = n /\ \A d \in Clients \ {c} : S[d] = s.sent[d]
  BY <1>0, <1>1, <1>2, <1>4
<1>7. Near(s, c, l, K, s.buckets, S, s.written)
  BY <1>0, <1>1, <1>2, <1>5, <1>6 DEF Near
<1>8. /\ Kept(s, m, c) /\ c \in Here(m) /\ m \in FrontType
      /\ m.sockets[c] = l /\ m.buckets = s.buckets /\ m.sent = S /\ m.written = s.written
  <2>1. m = Put(s, K, s.buckets, S, s.written)
    BY <1>1
  <2>. QED BY <1>7, <2>1, PutKept DEF Kept
<1>9. Placed(m, c)
  BY <1>0, <1>5, <1>8 DEF Placed
<1>10. Held(m, c)
  <2>1. CASE k.state = "open"
    <3>1. PICK w, d : w = s.written[c] /\ d = s.sent[c] - w /\ d \in Nat
      BY <1>2 DEF Held
    <3>2. k.sendArr = [i \in 1..d |-> w + i]
      BY <1>0, <2>1, <3>1 DEF Held
    <3>3. e = w + (d + 1) /\ n = e /\ n - w = d + 1 /\ w <= n
      BY <1>1, <1>2, <2>1, <3>1
    <3>4. Append([i \in 1..d |-> w + i], w + (d + 1)) = [i \in 1..d + 1 |-> w + i]
      BY <1>2, <3>1
    <3>5. l.sendArr = [i \in 1..n - w |-> w + i]
      BY <1>5, <3>2, <3>3, <3>4
    <3>. QED BY <1>5, <1>6, <1>8, <2>1, <3>1, <3>3, <3>5 DEF Held, SameSelf
  <2>2. CASE k.state # "open"
    <3>1. s.written[c] <= s.sent[c] /\ (k.state = "closed" => s.written[c] = s.sent[c])
      BY <1>0 DEF Held
    <3>2. /\ m.written[c] = s.written[c] /\ m.sent[c] = s.sent[c]
          /\ m.sockets[c].state = k.state
      BY <1>1, <1>5, <1>6, <1>8, <2>2 DEF SameSelf
    <3>. QED BY <2>2, <3>1, <3>2 DEF Held
  <2>. QED BY <2>1, <2>2
<1>11. Kept(m, r, c) /\ Placed(r, c) /\ Waits(r, c) /\ Held(r, c)
  BY <1>3, <1>8, <1>9, <1>10, EmptiedOK, WaitInBucketOK
<1>. QED BY <1>8, <1>11, KeptTwice

(***************************************************************************)
(* The counters, and the end of a connection.                              *)
(***************************************************************************)

LEMMA StillOK ==
    ASSUME NEW s, NEW r, CountersOK(s), UidsOK(s), Still(s, r)
    PROVE  CountersOK(r) /\ UidsOK(r)
<1>1. OpenOf(r) = OpenOf(s) /\ SessionsOf(r) = SessionsOf(s)
  BY DEF Still, SameSelf, OpenOf, SessionsOf
<1>2. CountersOK(r)
  BY <1>1 DEF Still, CountersOK
<1>3. \A c \in Here(r) : Bound(r, c, r.sockets[c])
  BY DEF Still, SameSelf, UidsOK, Bound
<1>. QED BY <1>2, <1>3 DEF Still, SameSelf, UidsOK

LEMMA OthersOK ==
    ASSUME NEW s, NEW r, NEW c \in Here(s), ClientsOK(s), Here(r) = Here(s),
           \A d \in Clients \ {c} : Alike(s, r, d),
           Placed(r, c) /\ Waits(r, c) /\ Held(r, c)
    PROVE  ClientsOK(r)
<1> SUFFICES ASSUME NEW d \in Clients
             PROVE  IF d \in Here(r) THEN Placed(r, d) /\ Waits(r, d) /\ Held(r, d)
                    ELSE Unknown(r, d)
  BY DEF ClientsOK
<1>1. CASE d = c
  BY <1>1
<1>2. CASE d # c /\ d \in Here(s)
  <2>1. Placed(s, d) /\ Waits(s, d) /\ Held(s, d) /\ Alike(s, r, d)
    BY <1>2 DEF ClientsOK
  <2>. QED BY <1>2, <2>1 DEF Placed, Waits, Held, Alike
<1>3. CASE d # c /\ d \notin Here(s)
  <2>1. Unknown(s, d) /\ Alike(s, r, d)
    BY <1>3 DEF ClientsOK
  <2>. QED BY <1>3, <2>1 DEF Unknown, Alike
<1>. QED BY <1>1, <1>2, <1>3

LEMMA KeptOK ==
    ASSUME NEW s, NEW r, NEW c \in Here(s), FrontOK(s), Kept(s, r, c),
           Placed(r, c) /\ Waits(r, c) /\ Held(r, c)
    PROVE  FrontOK(r)
<1>1. CountersOK(r) /\ UidsOK(r)
  BY StillOK DEF FrontOK, Kept
<1>2. ClientsOK(r)
  BY OthersOK DEF FrontOK, Kept, Still
<1>. QED BY <1>1, <1>2 DEF FrontOK, Kept

LEMMA ClientIs ==
    ASSUME NEW s, FrontOK(s), NEW c \in Here(s)
    PROVE  /\ s \in FrontType /\ c \in Clients /\ s.sockets[c] \in SocketType
           /\ Placed(s, c) /\ Waits(s, c) /\ Held(s, c) /\ Bound(s, c, s.sockets[c])
BY FrontIs DEF FrontOK, ClientsOK, UidsOK

\* Client c of s has ended in state x.
Ended(s, t, c, x) ==
    /\ t \in FrontType /\ Here(t) = Here(s) /\ \A d \in Clients \ {c} : Alike(s, t, d)
    /\ t.sent[c] = s.sent[c] /\ t.written[c] = s.written[c]
    /\ \A b \in BucketIds : c \notin t.buckets[b]
    /\ t.sockets[c].state = x /\ ~t.sockets[c].session
    /\ t.sockets[c].uid = s.sockets[c].uid /\ t.sockets[c].listener = s.sockets[c].listener
    /\ t.sockets[c].sendArr = <<>> /\ t.sockets[c].notInBucket
    /\ t.nowConnectionNum = s.nowConnectionNum - 1
    /\ t.clientNum = IF s.sockets[c].session THEN s.clientNum - 1 ELSE s.clientNum
    /\ t.clients = IF s.sockets[c].session THEN Minus(s.clients, {s.sockets[c].uid}) ELSE s.clients

LEMMA OnCloseIs ==
    ASSUME NEW s \in FrontType, NEW c \in Here(s), NEW x \in {"closed", "refused", "gone"}, NEW t,
           t = OnClose(s, c, x), s.sockets[c].state = "open", Placed(s, c)
    PROVE  Ended(s, t, c, x)
<1>0. PICK k : k = s.sockets[c] /\ k \in SocketType /\ c \in Clients
  BY FrontIs
<1>1. PICK p, o, i, l, K, m :
         /\ p = [s EXCEPT !.nowConnectionNum = @ - 1] /\ o = RemoveBucket(p, c) /\ i = o.sockets[c]
         /\ l = [i EXCEPT !.state = x, !.registerTimer = FALSE, !.heartbeatTimer = FALSE,
                          !.sendArr = <<>>]
         /\ K = [o.sockets EXCEPT ![c] = l]
         /\ m = Put(o, K, o.buckets, o.sent, o.written)
  OBVIOUS
<1>2. /\ p \in FrontType /\ p.sockets = s.sockets /\ p.buckets = s.buckets
      /\ p.sent = s.sent /\ p.written = s.written /\ p.clients = s.clients
      /\ p.nowConnectionNum = s.nowConnectionNum - 1 /\ p.clientNum = s.clientNum
  BY <1>1 DEF FrontType
<1>3. Placed(p, c) /\ c \in Here(p) /\ Here(p) = Here(s)
  BY <1>2 DEF Placed, Here
<1>4. /\ Kept(p, o, c) /\ c \in Here(o) /\ o \in FrontType
      /\ i = [k EXCEPT !.notInBucket = TRUE]
      /\ o.sent = s.sent /\ o.written = s.written /\ \A b \in BucketIds : c \notin o.buckets[b]
  <2>1. k = p.sockets[c] /\ o = RemoveBucket(p, c)
    BY <1>0, <1>1, <1>2
  <2>2. /\ Kept(p, o, c) /\ c \in Here(o) /\ o.sockets[c] = [k EXCEPT !.notInBucket = TRUE]
        /\ o.sent = p.sent /\ o.written = p.written /\ \A b \in BucketIds : c \notin o.buckets[b]
    BY <1>2, <1>3, <2>1, RemoveBucketIs
  <2>. QED BY <1>1, <1>2, <2>2 DEF Kept
<1>5. /\ i \in SocketType /\ i.session = k.session /\ i.uid = k.uid /\ i.listener = k.listener
      /\ i.notInBucket
  BY <1>0, <1>4 DEF SocketType
<1>6. /\ l \in SocketType /\ l.state = x /\ l.session = k.session /\ l.uid = k.uid
      /\ l.listener = k.listener /\ l.sendArr = <<>> /\ l.notInBucket
  <2>1. <<>> \in Seq(Nat)
    OBVIOUS
  <2>. QED BY <1>1, <1>5, <2>1 DEF SocketType
<1>7. /\ K \in MapsOf(Clients, SocketType) /\ DOMAIN K = Here(o) /\ K[c] = l
      /\ \A d \in Here(o) \ {c} : K[d] = o.sockets[d]
  BY <1>1, <1>4, <1>6, SocketPut
<1>8. /\ m \in FrontType /\ m.sockets = K /\ m.buckets = o.buckets
      /\ m.sent = o.sent /\ m.written = o.written
      /\ m.nowConnectionNum = o.nowConnectionNum /\ m.clientNum = o.clientNum
      /\ m.clients = o.clients
  <2>1. /\ o.buckets \in [BucketIds -> SUBSET Clients]
        /\ o.sent \in [Clients -> Nat] /\ o.written \in [Clients -> Nat]
    BY <1>4, FrontIs
  <2>. QED BY <1>1, <1>4, <1>7, <2>1, FrontChanged
<1>9. /\ Here(m) = Here(s) /\ m.sockets[c] = l /\ \A d \in Clients \ {c} : Alike(s, m, d)
      /\ m.nowConnectionNum = s.nowConnectionNum - 1 /\ m.clientNum = s.clientNum
      /\ m.clients = s.clients
  <2>1. Here(o) = Here(p) /\ \A d \in Clients \ {c} : Alike(p, o, d)
    BY <1>4 DEF Kept, Still
  <2>2. /\ o.nowConnectionNum = p.nowConnectionNum /\ o.clientNum = p.clientNum
        /\ o.clients = p.clients
    BY <1>4 DEF Kept, Still
  <2>. QED BY <1>2, <1>3, <1>7, <1>8, <2>1, <2>2 DEF Alike, Here
<1>10. t = SessionRemoved(m, c)
  <2>1. m = [o EXCEPT !.sockets[c] =
                [@ EXCEPT !.state = x, !.registerTimer = FALSE, !.heartbeatTimer = FALSE,
                          !.sendArr = <<>>]]
    BY <1>1, <1>4 DEF Put, FrontType
  <2>. QED BY <1>1, <2>1 DEF OnClose
<1>11. CASE ~k.session
  <2>1. t = m
    BY <1>6, <1>9, <1>10, <1>11 DEF SessionRemoved
  <2>. QED BY <1>0, <1>4, <1>6, <1>8, <1>9, <1>11, <2>1 DEF Ended
<1>12. CASE k.session
  <2>1. PICK e, L, q, C : /\ e = [l EXCEPT !.session = FALSE] /\ L = [m.sockets EXCEPT ![c] = e]
                          /\ q = Put(m, L, m.buckets, m.sent, m.written)
                          /\ C = Minus(s.clients, {k.uid})
    OBVIOUS
  <2>2. /\ e \in SocketType /\ ~e.session /\ e.state = x /\ e.uid = k.uid
        /\ e.listener = k.listener /\ e.sendArr = <<>> /\ e.notInBucket
    BY <1>6, <2>1 DEF SocketType
  <2>3. c \in Here(m)
    BY <1>9
  <2>4. /\ L \in MapsOf(Clients, SocketType) /\ DOMAIN L = Here(m) /\ L[c] = e
        /\ \A d \in Here(m) \ {c} : L[d] = m.sockets[d]
    <3>1. m \in FrontType /\ L = [m.sockets EXCEPT ![c] = e]
      BY <1>8, <2>1
    <3>. QED BY <2>2, <2>3, <3>1, SocketPut
  <2>5. /\ q \in FrontType /\ q.sockets = L /\ q.buckets = m.buckets
        /\ q.sent = m.sent /\ q.written = m.written
        /\ q.nowConnectionNum = m.nowConnectionNum /\ q.clientNum = m.clientNum
        /\ q.clients = m.clients
    <3>1. /\ m.buckets \in [BucketIds -> SUBSET Clients]
          /\ m.sent \in [Clients -> Nat] /\ m.written \in [Clients -> Nat]
      BY <1>8, FrontIs
    <3>. QED BY <1>8, <2>1, <2>4, <3>1, FrontChanged
  <2>6. C \in MapsOf(Uids, Clients)
    BY <2>1, FrontIs, MinusMap
  <2>7. t = Recount(q, C, m.clientNum - 1)
    <3>1. m.sockets[c].session /\ m.sockets[c].uid = k.uid
      BY <1>6, <1>9, <1>12
    <3>2. t = [m EXCEPT !.clients = C, !.clientNum = @ - 1, !.sockets[c].session = FALSE]
      BY <1>9, <1>10, <2>1, <3>1 DEF SessionRemoved
    <3>3. t = [m EXCEPT !.clients = C, !.clientNum = m.clientNum - 1, !.sockets = L]
      BY <1>8, <1>9, <2>1, <3>2 DEF FrontType
    <3>4. q = [m EXCEPT !.sockets = L]
      BY <1>8, <2>1 DEF Put, FrontType
    <3>. QED BY <1>8, <3>3, <3>4 DEF Recount, FrontType
  <2>8. /\ t \in FrontType /\ t.sockets = L /\ t.buckets = m.buckets
        /\ t.sent = m.sent /\ t.written = m.written
        /\ t.nowConnectionNum = m.nowConnectionNum /\ t.clientNum = m.clientNum - 1
        /\ t.clients = C
    <3>1. m.clientNum - 1 \in Int
      BY <1>8, FrontIs
    <3>. QED BY <2>5, <2>6, <2>7, <3>1, ClientsChanged
  <2>9. Here(t) = Here(s) /\ \A d \in Clients \ {c} : Alike(s, t, d)
    BY <1>9, <2>4, <2>8 DEF Alike, Here
  <2>. QED BY <1>0, <1>4, <1>8, <1>9, <1>12, <2>1, <2>2, <2>4, <2>8, <2>9 DEF Ended
<1>. QED BY <1>11, <1>12

LEMMA EndedOK ==
    ASSUME NEW s, FrontOK(s), NEW c \in Here(s), s.sockets[c].state = "open",
           NEW x \in {"closed", "refused", "gone"}, NEW t, Ended(s, t, c, x),
           x = "closed" => s.written[c] = s.sent[c]
    PROVE  FrontOK(t)
<1>0. PICK k : /\ k = s.sockets[c] /\ c \in Clients /\ Held(s, c) /\ Bound(s, c, k)
               /\ k.session \in BOOLEAN
  BY ClientIs DEF SocketType
<1>1. /\ t \in FrontType /\ Here(t) = Here(s) /\ \A d \in Clients \ {c} : Alike(s, t, d)
      /\ t.sent[c] = s.sent[c] /\ t.written[c] = s.written[c]
      /\ \A b \in BucketIds : c \notin t.buckets[b]
      /\ t.sockets[c].state = x /\ ~t.sockets[c].session
      /\ t.sockets[c].uid = k.uid /\ t.sockets[c].listener = k.listener
      /\ t.sockets[c].sendArr = <<>> /\ t.sockets[c].notInBucket
  BY <1>0 DEF Ended
<1>2. /\ t.nowConnectionNum = s.nowConnectionNum - 1
      /\ t.clientNum = IF k.session THEN s.clientNum - 1 ELSE s.clientNum
      /\ t.clients = IF k.session THEN Minus(s.clients, {k.uid}) ELSE s.clients
  BY <1>0 DEF Ended
<1>3. \A d \in Here(s) \ {c} : t.sockets[d] = s.sockets[d]
  BY <1>1, ClientIs DEF Alike
<1>4. ClientsOK(t)
  <2>1. Placed(t, c) /\ Waits(t, c) /\ Held(t, c)
    BY <1>0, <1>1 DEF Placed, Waits, Held
  <2>. QED BY <1>1, <2>1, OthersOK DEF FrontOK
<1>5. CountersOK(t)
  <2>1. IsFiniteSet(OpenOf(s)) /\ IsFiniteSet(SessionsOf(s)) /\ IsFiniteSet(Here(s))
    BY FS_Subset DEF FrontOK, CountersOK, OpenOf, SessionsOf
  <2>2. OpenOf(t) = OpenOf(s) \ {c} /\ c \in OpenOf(s)
    BY <1>1, <1>3 DEF OpenOf
  <2>3. Cardinality(OpenOf(t)) = Cardinality(OpenOf(s)) - 1
    BY <2>1, <2>2, FS_RemoveElement
  <2>4. SessionsOf(t) = SessionsOf(s) \ {c} /\ (c \in SessionsOf(s) <=> k.session)
    BY <1>0, <1>1, <1>3 DEF SessionsOf
  <2>5. Cardinality(SessionsOf(t)) =
            IF k.session THEN Cardinality(SessionsOf(s)) - 1 ELSE Cardinality(SessionsOf(s))
    BY <2>1, <2>4, FS_RemoveElement
  <2>6. /\ s.nowConnectionNum = Cardinality(OpenOf(s)) /\ s.nowConnectionNum <= MaxConnectionNum
        /\ s.clientNum = Cardinality(SessionsOf(s)) /\ s.nowConnectionNum \in Int
    BY FrontIs DEF FrontOK, CountersOK
  <2>7. t.nowConnectionNum <= MaxConnectionNum
    BY <1>2, <2>6, ConnectorAssumption
  <2>. QED BY <1>1, <1>2, <2>1, <2>3, <2>5, <2>6, <2>7 DEF CountersOK
<1>6. UidsOK(t)
  <2>1. ASSUME NEW d \in Here(s), d # c PROVE Bound(t, d, t.sockets[d])
    <3>1. PICK l : l = s.sockets[d] /\ t.sockets[d] = l /\ Bound(s, d, l)
      BY <1>3, <2>1, ClientIs
    <3>2. ASSUME l.session, l.uid # 0 PROVE l.uid \in DOMAIN t.clients /\ t.clients[l.uid] = d
      <4>1. l.uid \in DOMAIN s.clients /\ s.clients[l.uid] = d
        BY <3>1, <3>2 DEF Bound
      <4>2. k.session => k.uid # l.uid
        BY <1>0, <2>1, <3>2, <4>1 DEF Bound
      <4>. QED BY <1>2, <4>1, <4>2 DEF Minus
    <3>. QED BY <3>1, <3>2 DEF Bound
  <2>2. Bound(t, c, t.sockets[c])
    BY <1>0, <1>1 DEF Bound
  <2>3. ASSUME NEW u \in DOMAIN t.clients
        PROVE  /\ t.clients[u] \in Here(t)
               /\ t.sockets[t.clients[u]].session /\ t.sockets[t.clients[u]].uid = u
    <3>1. u \in DOMAIN s.clients /\ t.clients[u] = s.clients[u] /\ (k.session => u # k.uid)
      BY <1>2 DEF Minus
    <3>2. /\ s.clients[u] \in Here(s)
          /\ s.sockets[s.clients[u]].session /\ s.sockets[s.clients[u]].uid = u
      BY <3>1 DEF FrontOK, UidsOK
    <3>3. s.clients[u] # c
      BY <1>0, <3>1, <3>2
    <3>. QED BY <1>1, <1>3, <3>1, <3>2, <3>3
  <2>. QED BY <1>1, <2>1, <2>2, <2>3 DEF UidsOK
<1>. QED BY <1>1, <1>4, <1>5, <1>6 DEF FrontOK

\* What a step of c that may end its connection keeps.
SameClients(s, t, c) == Here(t) = Here(s) /\ t.sockets[c].listener = s.sockets[c].listener

LEMMA OnCloseOK ==
    ASSUME NEW s, FrontOK(s), NEW c \in Here(s), NEW x \in {"closed", "refused", "gone"}, NEW t,
           t = OnClose(s, c, x),
           x = "closed" /\ s.sockets[c].state = "open" => s.written[c] = s.sent[c]
    PROVE  FrontOK(t) /\ SameClients(s, t, c)
<1>1. CASE s.sockets[c].state # "open"
  BY <1>1 DEF OnClose, SameClients
<1>2. CASE s.sockets[c].state = "open"
  <2>1. Ended(s, t, c, x)
    BY <1>2, ClientIs, OnCloseIs
  <2>. QED BY <1>2, <2>1, EndedOK DEF SameClients, Ended
<1>. QED BY <1>1, <1>2

LEMMA CloseOK ==
    ASSUME NEW s, FrontOK(s), NEW c \in Here(s), NEW t, t = Close(s, c)
    PROVE  FrontOK(t) /\ SameClients(s, t, c)
<1>1. PICK r : r = SendInterval(RemoveBucket(s, c), c)
  OBVIOUS
<1>2. s \in FrontType /\ Placed(s, c) /\ Held(s, c)
  BY ClientIs
<1>3. /\ Kept(s, r, c) /\ Placed(r, c) /\ Waits(r, c) /\ Held(r, c)
      /\ s.sockets[c].state \in {"open", "closed"} => r.written[c] = r.sent[c]
  BY <1>1, <1>2, EmptiedOK
<1>4. FrontOK(r)
  BY <1>3, KeptOK
<1>5. Here(r) = Here(s) /\ SameSelf(s.sockets[c], r.sockets[c])
  BY <1>3 DEF Kept, Still
<1>6. t = OnClose(r, c, "closed")
  BY <1>1 DEF Close
<1>7. FrontOK(t) /\ SameClients(r, t, c)
  BY <1>3, <1>4, <1>5, <1>6, OnCloseOK DEF SameSelf
<1>. QED BY <1>5, <1>7 DEF SameClients, SameSelf

(***************************************************************************)
(* Steps of several clients.                                               *)
(***************************************************************************)

\* What ForEach makes of s and of the states f[c], in each of which c has stepped.
Merge(s, f) ==
    Put(s, [c \in Here(s) |-> f[c].sockets[c]],
        [b \in BucketIds |-> {c \in Clients : c \in f[c].buckets[b]}],
        [c \in Clients |-> f[c].sent[c]], [c \in Clients |-> f[c].written[c]])

LEMMA MergeIs ==
    ASSUME NEW s \in FrontType, NEW f, \A c \in Clients : Kept(s, f[c], c),
           NEW r, r = Merge(s, f)
    PROVE  /\ r \in FrontType /\ Still(s, r)
           /\ \A c \in Clients : Alike(f[c], r, c)
<1>1. PICK K, B, S, W :
         /\ K = [c \in Here(s) |-> f[c].sockets[c]]
         /\ B = [b \in BucketIds |-> {c \in Clients : c \in f[c].buckets[b]}]
         /\ S = [c \in Clients |-> f[c].sent[c]] /\ W = [c \in Clients |-> f[c].written[c]]
         /\ r = Put(s, K, B, S, W)
  BY DEF Merge
<1>2. \A c \in Clients : /\ f[c].sent[c] \in Nat /\ f[c].written[c] \in Nat
                         /\ Here(f[c]) = Here(s)
                         /\ c \in Here(s) => f[c].sockets[c] \in SocketType
                                             /\ SameSelf(s.sockets[c], f[c].sockets[c])
  BY FrontIs DEF Kept, Still
<1>3. Here(s) \in SUBSET Clients
  BY FrontIs
<1>4. /\ S \in [Clients -> Nat] /\ W \in [Clients -> Nat] /\ B \in [BucketIds -> SUBSET Clients]
  BY <1>1, <1>2
<1>5. K \in MapsOf(Clients, SocketType) /\ DOMAIN K = Here(s)
  <2>1. K \in [Here(s) -> SocketType]
    BY <1>1, <1>2, <1>3
  <2>. QED BY <1>1, <1>3, <2>1, MapIntro
<1>6. /\ r \in FrontType
      /\ r.sockets = K /\ r.buckets = B /\ r.sent = S /\ r.written = W
      /\ r.nowConnectionNum = s.nowConnectionNum /\ r.clientNum = s.clientNum
      /\ r.clients = s.clients
  <2>1. r = Put(s, K, B, S, W)
    BY <1>1
  <2>. QED BY <1>4, <1>5, <2>1, FrontChanged
<1>7. Still(s, r)
  <2>1. \A c \in Here(s) : SameSelf(s.sockets[c], r.sockets[c])
    BY <1>1, <1>2, <1>3, <1>6
  <2>. QED BY <1>5, <1>6, <2>1 DEF Still, Here
<1>8. ASSUME NEW c \in Clients PROVE Alike(f[c], r, c)
  <2>1. c \in Here(f[c]) => r.sockets[c] = f[c].sockets[c]
    BY <1>1, <1>2, <1>6
  <2>2. \A b \in BucketIds : c \in r.buckets[b] <=> c \in f[c].buckets[b]
    BY <1>1, <1>6
  <2>3. r.sent[c] = f[c].sent[c] /\ r.written[c] = f[c].written[c]
    BY <1>1, <1>6
  <2>. QED BY <2>1, <2>2, <2>3 DEF Alike
<1>. QED BY <1>6, <1>7, <1>8

LEMMA SendEachOK ==
    ASSUME NEW s, FrontOK(s), NEW cs \in SUBSET Here(s), NEW r, r = ForEach(s, cs, Send)
    PROVE  FrontOK(r) /\ Here(r) = Here(s)
<1>1. PICK f : f = [c \in Clients |-> IF c \in cs THEN Send(s, c) ELSE s]
  OBVIOUS
<1>2. s \in FrontType /\ Here(s) \subseteq Clients
  BY FrontIs DEF FrontOK
<1>3. r = Merge(s, f)
  <2>1. r = Put(s, [c \in Here(s) |-> (IF c \in cs THEN Send(s, c) ELSE s).sockets[c]],
                [b \in BucketIds |-> {c \in Clients :
                    c \in (IF c \in cs THEN Send(s, c) ELSE s).buckets[b]}],
                [c \in Clients |-> (IF c \in cs THEN Send(s, c) ELSE s).sent[c]],
                [c \in Clients |-> (IF c \in cs THEN Send(s, c) ELSE s).written[c]])
    BY DEF ForEach, Put, Here
  <2>. QED BY <1>1, <1>2, <2>1 DEF Merge
<1>4. ASSUME NEW c \in Clients
      PROVE  /\ Kept(s, f[c], c)
             /\ IF c \in Here(s) THEN Placed(f[c], c) /\ Waits(f[c], c) /\ Held(f[c], c)
                ELSE Unknown(f[c], c)
  <2>1. CASE c \in cs
    <3>1. f[c] = Send(s, c) /\ Placed(s, c) /\ Held(s, c) /\ c \in Here(s)
      BY <1>1, <2>1, ClientIs
    <3>. QED BY <1>2, <3>1, SendOK
  <2>2. CASE c \notin cs
    <3>1. f[c] = s
      BY <1>1, <2>2
    <3>. QED BY <1>2, <3>1, KeptSelf DEF FrontOK, ClientsOK
  <2>. QED BY <2>1, <2>2
<1>5. r \in FrontType /\ Still(s, r) /\ \A c \in Clients : Alike(f[c], r, c)
  BY <1>2, <1>3, <1>4, MergeIs
<1>6. ClientsOK(r)
  <2> SUFFICES ASSUME NEW c \in Clients
               PROVE  IF c \in Here(s) THEN Placed(r, c) /\ Waits(r, c) /\ Held(r, c)
                      ELSE Unknown(r, c)
    BY <1>5 DEF ClientsOK, Still
  <2>1. Alike(f[c], r, c) /\ Here(f[c]) = Here(s)
    BY <1>4, <1>5 DEF Kept, Still
  <2>2. CASE c \in Here(s)
    BY <1>4, <2>1, <2>2 DEF Alike, Placed, Waits, Held
  <2>3. CASE c \notin Here(s)
    BY <1>4, <2>1, <2>3 DEF Alike, Unknown
  <2>. QED BY <2>2, <2>3
<1>. QED BY <1>5, <1>6, StillOK DEF FrontOK, Still

\* What the flush does with a client of its bucket.
LEMMA WriteOutIs ==
    ASSUME NEW s, FrontOK(s), NEW c \in Here(s), NEW r, r = WriteOut(s, c)
    PROVE  /\ Kept(s, r, c) /\ Held(r, c) /\ r.buckets = s.buckets
           /\ r.sockets[c].notInBucket /\ r.sockets[c].sendArr = <<>>
<1>0. PICK k : k = s.sockets[c] /\ s \in FrontType /\ c \in Clients /\ k \in SocketType /\ Held(s, c)
  BY ClientIs
<1>1. PICK l, K, m : /\ l = [k EXCEPT !.notInBucket = TRUE] /\ K = [s.sockets EXCEPT ![c] = l]
                     /\ m = Put(s, K, s.buckets, s.sent, s.written)
  OBVIOUS
<1>2. l \in SocketType /\ SameSelf(k, l) /\ l.sendArr = k.sendArr /\ l.notInBucket
  BY <1>0, <1>1 DEF SocketType, SameSelf
<1>3. Near(s, c, l, K, s.buckets, s.sent, s.written)
  BY <1>0, <1>1, <1>2, FrontIs DEF Near
<1>4. /\ Kept(s, m, c) /\ c \in Here(m) /\ m \in FrontType
      /\ m.sockets[c] = l /\ m.buckets = s.buckets /\ m.sent = s.sent /\ m.written = s.written
  <2>1. m = Put(s, K, s.buckets, s.sent, s.written)
    BY <1>1
  <2>. QED BY <1>0, <1>3, <2>1, PutKept DEF Kept
<1>5. r = SendInterval(m, c)
  <2>1. m = [s EXCEPT !.sockets[c].notInBucket = TRUE]
    BY <1>0, <1>1 DEF Put, FrontType
  <2>. QED BY <2>1 DEF WriteOut
<1>6. Held(m, c)
  BY <1>0, <1>2, <1>4 DEF Held, SameSelf
<1>7. /\ Kept(m, r, c) /\ Held(r, c) /\ r.buckets = m.buckets /\ r.sockets[c] = [m.sockets[c] EXCEPT !.sendArr = <<>>]
  BY <1>4, <1>5, <1>6, SendIntervalOK
<1>8. r.sockets[c].notInBucket /\ r.sockets[c].sendArr = <<>>
  BY <1>2, <1>4, <1>7 DEF SocketType
<1>. QED BY <1>4, <1>7, <1>8, KeptTwice

LEMMA FlushedOK ==
    ASSUME NEW s, FrontOK(s), NEW t, t = Flushed(s)
    PROVE  FrontOK(t) /\ Here(t) = Here(s)
<1>0. PICK i, cs, f, r :
         /\ i = (s.flushIdx + 1) % BucketCnt /\ cs = s.buckets[i]
         /\ f = [c \in Clients |-> IF c \in cs THEN WriteOut(s, c) ELSE s]
         /\ r = Merge(s, f)
  OBVIOUS
<1>1. s \in FrontType /\ Here(s) \subseteq Clients /\ i \in BucketIds
  BY <1>0, FrontIs, ConnectorAssumption DEF FrontOK, BucketIds
<1>2. \A c \in cs : c \in Here(s) /\ Placed(s, c)
  <2>1. cs \subseteq Clients
    BY <1>0, <1>1, FrontIs
  <2>. QED BY <1>0, <1>1, <2>1 DEF FrontOK, ClientsOK, Unknown
<1>3. t = [r EXCEPT !.flushIdx = i, !.buckets[i] = {}]
  <2>1. r = Put(s, [c \in Here(s) |-> (IF c \in cs THEN WriteOut(s, c) ELSE s).sockets[c]],
                [b \in BucketIds |-> {c \in Clients :
                    c \in (IF c \in cs THEN WriteOut(s, c) ELSE s).buckets[b]}],
                [c \in Clients |-> (IF c \in cs THEN WriteOut(s, c) ELSE s).sent[c]],
                [c \in Clients |-> (IF c \in cs THEN WriteOut(s, c) ELSE s).written[c]])
    BY <1>0, <1>1 DEF Merge
  <2>2. r = ForEach(s, cs, WriteOut)
    BY <2>1 DEF ForEach, Put, Here
  <2>. QED BY <1>0, <2>2 DEF Flushed
<1>4. ASSUME NEW c \in Clients
      PROVE  /\ Kept(s, f[c], c)
             /\ c \in cs => /\ Held(f[c], c) /\ f[c].buckets = s.buckets
                            /\ f[c].sockets[c].notInBucket /\ f[c].sockets[c].sendArr = <<>>
             /\ c \notin cs => f[c] = s
  <2>1. CASE c \in cs
    BY <1>0, <1>2, <2>1, WriteOutIs
  <2>2. CASE c \notin cs
    BY <1>0, <1>1, <2>2, KeptSelf
  <2>. QED BY <2>1, <2>2
<1>5. r \in FrontType /\ Still(s, r) /\ \A c \in Clients : Alike(f[c], r, c)
  BY <1>0, <1>1, <1>4, MergeIs
<1>6. /\ t \in FrontType /\ t.sockets = r.sockets /\ t.sent = r.sent /\ t.written = r.written
      /\ t.nowConnectionNum = r.nowConnectionNum /\ t.clientNum = r.clientNum
      /\ t.clients = r.clients
      /\ \A b \in BucketIds : t.buckets[b] = IF b = i THEN {} ELSE r.buckets[b]
  <2>1. PICK B : B = [r.buckets EXCEPT ![i] = {}]
    OBVIOUS
  <2>2. r.buckets \in [BucketIds -> SUBSET Clients]
    BY <1>5, FrontIs
  <2>3. /\ B \in [BucketIds -> SUBSET Clients]
        /\ \A b \in BucketIds : B[b] = IF b = i THEN {} ELSE r.buckets[b]
    BY <2>1, <2>2
  <2>4. t = [r EXCEPT !.flushIdx = i, !.buckets = B]
    BY <1>3, <1>5, <2>1 DEF FrontType
  <2>. QED BY <1>1, <1>5, <2>3, <2>4 DEF FrontType
<1>7. Still(s, t)
  BY <1>5, <1>6 DEF Still, Here
\* Those of the bucket are in none, and nothing of the others was in it.
<1>8. ASSUME NEW c \in Here(s), c \in cs PROVE Placed(t, c) /\ Waits(t, c) /\ Held(t, c)
  <2>1. /\ Kept(s, f[c], c) /\ Held(f[c], c) /\ f[c].buckets = s.buckets
        /\ f[c].sockets[c].notInBucket /\ f[c].sockets[c].sendArr = <<>> /\ Alike(f[c], r, c)
        /\ c \in Clients
    BY <1>1, <1>4, <1>5, <1>8
  <2>2. c \in Here(f[c]) /\ t.sockets[c] = f[c].sockets[c]
        /\ t.sent[c] = f[c].sent[c] /\ t.written[c] = f[c].written[c]
    BY <1>6, <2>1 DEF Alike, Kept, Still
  <2>3. \A b \in BucketIds : c \notin t.buckets[b]
    <3> SUFFICES ASSUME NEW b \in BucketIds, b # i PROVE c \notin r.buckets[b]
      BY <1>6
    <3>1. c \notin s.buckets[b]
      BY <1>0, <1>1, <1>2, <1>8 DEF Placed
    <3>. QED BY <2>1, <3>1 DEF Alike
  <2>. QED BY <2>1, <2>2, <2>3 DEF Placed, Waits, Held
<1>9. ASSUME NEW c \in Clients, c \notin cs PROVE Alike(s, t, c)
  <2>1. Alike(s, r, c)
    BY <1>4, <1>5, <1>9
  <2>2. c \notin s.buckets[i]
    BY <1>0, <1>9
  <2>. QED BY <1>1, <1>6, <2>1, <2>2 DEF Alike
<1>10. ClientsOK(t)
  <2> SUFFICES ASSUME NEW c \in Clients, c \notin cs
               PROVE  IF c \in Here(s) THEN Placed(t, c) /\ Waits(t, c) /\ Held(t, c)
                      ELSE Unknown(t, c)
    BY <1>2, <1>7, <1>8 DEF ClientsOK, Still
  <2>1. CASE c \in Here(s)
    BY <1>9, <2>1, ClientIs DEF Alike, Placed, Waits, Held
  <2>2. CASE c \notin Here(s)
    BY <1>9, <2>2 DEF Alike, Unknown, FrontOK, ClientsOK
  <2>. QED BY <2>1, <2>2
<1>. QED BY <1>6, <1>7, <1>10, StillOK DEF FrontOK, Still

LEMMA BalancedOK ==
    ASSUME NEW s, FrontOK(s), NEW t, t = Balanced(s)
    PROVE  FrontOK(t) /\ Here(t) = Here(s)
<1>0. s \in FrontType
  BY DEF FrontOK
<1>1. PICK w, K :
         /\ w = [c \in Here(s) |-> IF Given(s, c) = {} THEN s.sockets[c].willBucketIdx
                                   ELSE CHOOSE b \in Given(s, c) : TRUE]
         /\ K = [c \in Here(s) |-> [s.sockets[c] EXCEPT !.willBucketIdx = w[c]]]
  OBVIOUS
<1>2. t = Put(s, K, s.buckets, s.sent, s.written)
  <2>1. K = [c \in Here(s) |-> [s.sockets[c] EXCEPT !.willBucketIdx =
                 IF Given(s, c) = {} THEN s.sockets[c].willBucketIdx
                 ELSE CHOOSE b \in Given(s, c) : TRUE]]
    BY <1>1
  <2>. QED BY <1>0, <2>1 DEF Balanced, Put, FrontType, Here
<1>3. \A c \in Here(s) : w[c] \in BucketIds \cup {NoBucket}
  <2> SUFFICES ASSUME NEW c \in Here(s) PROVE w[c] \in BucketIds \cup {NoBucket}
    OBVIOUS
  <2>1. Given(s, c) \subseteq BucketIds
    BY DEF Given
  <2>2. s.sockets[c].willBucketIdx \in BucketIds \cup {NoBucket}
    BY <1>0, FrontIs DEF SocketType
  <2>. QED BY <1>1, <2>1, <2>2
<1>4. ASSUME NEW c \in Here(s)
      PROVE  /\ K[c] \in SocketType /\ SameSelf(s.sockets[c], K[c])
             /\ K[c].notInBucket = s.sockets[c].notInBucket
             /\ K[c].bucketIdx = s.sockets[c].bucketIdx /\ K[c].sendArr = s.sockets[c].sendArr
  <2>1. s.sockets[c] \in SocketType /\ K[c] = [s.sockets[c] EXCEPT !.willBucketIdx = w[c]]
    BY <1>0, <1>1, FrontIs
  <2>. QED BY <1>3, <2>1 DEF SocketType, SameSelf
<1>5. K \in MapsOf(Clients, SocketType) /\ DOMAIN K = Here(s)
  <2>1. Here(s) \in SUBSET Clients
    BY <1>0, FrontIs
  <2>2. K \in [Here(s) -> SocketType]
    BY <1>1, <1>4
  <2>. QED BY <2>1, <2>2, MapIntro
<1>6. /\ t \in FrontType
      /\ t.sockets = K /\ t.buckets = s.buckets /\ t.sent = s.sent /\ t.written = s.written
      /\ t.nowConnectionNum = s.nowConnectionNum /\ t.clientNum = s.clientNum
      /\ t.clients = s.clients
  <2>1. /\ s.buckets \in [BucketIds -> SUBSET Clients]
        /\ s.sent \in [Clients -> Nat] /\ s.written \in [Clients -> Nat]
    BY <1>0, FrontIs
  <2>. QED BY <1>0, <1>2, <1>5, <2>1, FrontChanged
<1>7. Still(s, t)
  BY <1>4, <1>5, <1>6 DEF Still, Here
<1>8. ClientsOK(t)
  <2> SUFFICES ASSUME NEW c \in Clients
               PROVE  IF c \in Here(s) THEN Placed(t, c) /\ Waits(t, c) /\ Held(t, c)
                      ELSE Unknown(t, c)
    BY <1>7 DEF ClientsOK, Still
  <2>1. CASE c \in Here(s)
    <3>1. Placed(s, c) /\ Waits(s, c) /\ Held(s, c)
      BY <2>1, ClientIs
    <3>. QED BY <1>4, <1>6, <2>1, <3>1 DEF Placed, Waits, Held, SameSelf
  <2>2. CASE c \notin Here(s)
    BY <1>6, <2>2 DEF Unknown, FrontOK, ClientsOK
  <2>. QED BY <2>1, <2>2
<1>. QED BY <1>6, <1>7, <1>8, StillOK DEF FrontOK, Still

(***************************************************************************)
(* Timers, sessions and new connections.                                   *)
(***************************************************************************)

\* What the bucket of a socket depends on.
SameWait(k, l) ==
    /\ l.state = k.state /\ l.sendArr = k.sendArr
    /\ l.notInBucket = k.notInBucket /\ l.bucketIdx = k.bucketIdx

\* s with another socket of c, other clients and another clientNum.
Reset(s, c, l, C, n) == [s EXCEPT !.sockets[c] = l, !.clients = C, !.clientNum = n]

LEMMA ResetIs ==
    ASSUME NEW s, FrontOK(s), NEW c \in Here(s), NEW l \in SocketType, SameWait(s.sockets[c], l),
           NEW C \in MapsOf(Uids, Clients), NEW n \in Int, NEW t, t = Reset(s, c, l, C, n)
    PROVE  /\ t \in FrontType /\ ClientsOK(t) /\ Here(t) = Here(s)
           /\ t.sockets[c] = l /\ \A d \in Here(s) \ {c} : t.sockets[d] = s.sockets[d]
           /\ t.clients = C /\ t.clientNum = n /\ t.nowConnectionNum = s.nowConnectionNum
<1>0. s \in FrontType /\ c \in Clients /\ Placed(s, c) /\ Waits(s, c) /\ Held(s, c)
  BY ClientIs
<1>1. PICK K, r : K = [s.sockets EXCEPT ![c] = l] /\ r = Put(s, K, s.buckets, s.sent, s.written)
  OBVIOUS
<1>2. /\ K \in MapsOf(Clients, SocketType) /\ DOMAIN K = Here(s) /\ K[c] = l
      /\ \A d \in Here(s) \ {c} : K[d] = s.sockets[d]
  BY <1>0, <1>1, SocketPut
<1>3. /\ r \in FrontType
      /\ r.sockets = K /\ r.buckets = s.buckets /\ r.sent = s.sent /\ r.written = s.written
      /\ r.nowConnectionNum = s.nowConnectionNum /\ r.clientNum = s.clientNum
      /\ r.clients = s.clients
  <2>1. /\ s.buckets \in [BucketIds -> SUBSET Clients]
        /\ s.sent \in [Clients -> Nat] /\ s.written \in [Clients -> Nat]
    BY <1>0, FrontIs
  <2>. QED BY <1>0, <1>1, <1>2, <2>1, FrontChanged
<1>4. t = Recount(r, C, n)
  BY <1>0, <1>1 DEF Reset, Put, Recount, FrontType
<1>5. /\ t \in FrontType /\ t.sockets = K /\ t.buckets = s.buckets
      /\ t.sent = s.sent /\ t.written = s.written
      /\ t.clients = C /\ t.clientNum = n /\ t.nowConnectionNum = s.nowConnectionNum
  BY <1>3, <1>4, ClientsChanged
<1>6. ClientsOK(t)
  <2>1. \A d \in Clients \ {c} : Alike(s, t, d)
    BY <1>2, <1>5 DEF Alike
  <2>2. Placed(t, c) /\ Waits(t, c) /\ Held(t, c)
    BY <1>0, <1>2, <1>5 DEF Placed, Waits, Held, SameWait
  <2>3. Here(t) = Here(s)
    BY <1>2, <1>5 DEF Here
  <2>. QED BY <2>1, <2>2, <2>3, OthersOK DEF FrontOK
<1>. QED BY <1>2, <1>5, <1>6 DEF Here

SetSocket(s, c, l) == [s EXCEPT !.sockets[c] = l]

\* A timer is set or has run, or nobody listens any more.
LEMMA TimerOK ==
    ASSUME NEW s, FrontOK(s), NEW c \in Here(s), NEW l \in SocketType, SameWait(s.sockets[c], l),
           l.session = s.sockets[c].session, l.uid = s.sockets[c].uid,
           l.listener \in {s.sockets[c].listener, "none"}, NEW t, t = SetSocket(s, c, l)
    PROVE  FrontOK(t) /\ Here(t) = Here(s) /\ t.sockets[c] = l
<1>0. s \in FrontType /\ Bound(s, c, s.sockets[c])
  BY ClientIs
<1>1. t = Reset(s, c, l, s.clients, s.clientNum)
  BY <1>0 DEF Reset, SetSocket, FrontType
<1>2. /\ t \in FrontType /\ ClientsOK(t) /\ Here(t) = Here(s)
      /\ t.sockets[c] = l /\ \A d \in Here(s) \ {c} : t.sockets[d] = s.sockets[d]
      /\ t.clients = s.clients /\ t.clientNum = s.clientNum
      /\ t.nowConnectionNum = s.nowConnectionNum
  <2>1. PICK C, n : /\ C = s.clients /\ n = s.clientNum
                    /\ C \in MapsOf(Uids, Clients) /\ n \in Int
    BY <1>0, FrontIs
  <2>2. PICK r : r = Reset(s, c, l, C, n)
    OBVIOUS
  <2>3. t = r
    BY <1>1, <2>1, <2>2
  <2>4. /\ r \in FrontType /\ ClientsOK(r) /\ Here(r) = Here(s)
        /\ r.sockets[c] = l /\ \A d \in Here(s) \ {c} : r.sockets[d] = s.sockets[d]
        /\ r.clients = C /\ r.clientNum = n /\ r.nowConnectionNum = s.nowConnectionNum
    BY <2>1, <2>2, ResetIs
  <2>. QED BY <2>1, <2>3, <2>4
<1>3. CountersOK(t)
  <2>1. OpenOf(t) = OpenOf(s) /\ SessionsOf(t) = SessionsOf(s)
    BY <1>2 DEF OpenOf, SessionsOf, SameWait
  <2>. QED BY <1>2, <2>1 DEF FrontOK, CountersOK
<1>4. UidsOK(t)
  <2>1. Bound(t, c, l)
    BY <1>0, <1>2 DEF Bound, SameWait
  <2>2. \A d \in Here(s) \ {c} : Bound(t, d, t.sockets[d])
    BY <1>2, ClientIs DEF Bound
  <2>3. \A u \in DOMAIN s.clients :
           /\ s.clients[u] \in Here(s)
           /\ s.sockets[s.clients[u]].session /\ s.sockets[s.clients[u]].uid = u
    BY DEF FrontOK, UidsOK
  <2>4. \A u \in DOMAIN s.clients :
           /\ t.sockets[s.clients[u]].session = s.sockets[s.clients[u]].session
           /\ t.sockets[s.clients[u]].uid = s.sockets[s.clients[u]].uid
    BY <1>2, <2>3
  <2>. QED BY <1>2, <2>1, <2>2, <2>3, <2>4 DEF UidsOK
<1>. QED BY <1>2, <1>3, <1>4 DEF FrontOK

\* addClient.
LEMMA ShakenOK ==
    ASSUME NEW s, FrontOK(s), NEW c \in Here(s), NEW k, k = s.sockets[c],
           k.state = "open", k.listener = "onRegister", NEW t,
           t = [s EXCEPT !.clientNum = @ + 1, !.sockets[c] =
                   [@ EXCEPT !.registerTimer = FALSE, !.heartbeatTimer = HeartbeatOn,
                             !.listener = "onData", !.session = TRUE]]
    PROVE  FrontOK(t) /\ Here(t) = Here(s) /\ t.sockets[c].listener = "onData"
<1>0. s \in FrontType /\ k \in SocketType /\ ~k.session /\ k.uid = 0
  BY ClientIs DEF Bound
<1>1. PICK l : l = [k EXCEPT !.registerTimer = FALSE, !.heartbeatTimer = HeartbeatOn,
                             !.listener = "onData", !.session = TRUE]
  OBVIOUS
<1>2. /\ l \in SocketType /\ SameWait(k, l)
      /\ l.state = "open" /\ l.session /\ l.uid = 0 /\ l.listener = "onData"
  BY <1>0, <1>1, ConnectorAssumption DEF SocketType, SameWait
<1>3. t = Reset(s, c, l, s.clients, s.clientNum + 1)
  BY <1>0, <1>1 DEF Reset, FrontType
<1>4. /\ t \in FrontType /\ ClientsOK(t) /\ Here(t) = Here(s)
      /\ t.sockets[c] = l /\ \A d \in Here(s) \ {c} : t.sockets[d] = s.sockets[d]
      /\ t.clients = s.clients /\ t.clientNum = s.clientNum + 1
      /\ t.nowConnectionNum = s.nowConnectionNum
  <2>1. PICK C, n : /\ C = s.clients /\ n = s.clientNum + 1
                    /\ C \in MapsOf(Uids, Clients) /\ n \in Int
    BY <1>0, FrontIs
  <2>2. PICK r : r = Reset(s, c, l, C, n) /\ SameWait(s.sockets[c], l)
    BY <1>2
  <2>3. t = r
    BY <1>3, <2>1, <2>2
  <2>4. /\ r \in FrontType /\ ClientsOK(r) /\ Here(r) = Here(s)
        /\ r.sockets[c] = l /\ \A d \in Here(s) \ {c} : r.sockets[d] = s.sockets[d]
        /\ r.clients = C /\ r.clientNum = n /\ r.nowConnectionNum = s.nowConnectionNum
    BY <1>2, <2>1, <2>2, ResetIs
  <2>. QED BY <2>1, <2>3, <2>4
<1>5. CountersOK(t)
  <2>1. OpenOf(t) = OpenOf(s) /\ SessionsOf(t) = SessionsOf(s) \cup {c} /\ c \notin SessionsOf(s)
    BY <1>0, <1>2, <1>4 DEF OpenOf, SessionsOf
  <2>2. IsFiniteSet(SessionsOf(s))
    BY FS_Subset DEF FrontOK, CountersOK, SessionsOf
  <2>3. Cardinality(SessionsOf(t)) = Cardinality(SessionsOf(s)) + 1
    BY <2>1, <2>2, FS_AddElement
  <2>. QED BY <1>4, <2>1, <2>3 DEF FrontOK, CountersOK
<1>6. UidsOK(t)
  <2>1. Bound(t, c, l)
    BY <1>2 DEF Bound
  <2>2. \A d \in Here(s) \ {c} : Bound(t, d, t.sockets[d])
    BY <1>4, ClientIs DEF Bound
  <2>3. ASSUME NEW u \in DOMAIN s.clients
        PROVE  /\ s.clients[u] \in Here(s)
               /\ t.sockets[s.clients[u]].session /\ t.sockets[s.clients[u]].uid = u
    <3>1. /\ s.clients[u] \in Here(s) /\ s.sockets[s.clients[u]].session
          /\ s.sockets[s.clients[u]].uid = u
      BY DEF FrontOK, UidsOK
    <3>. QED BY <1>0, <1>4, <3>1
  <2>. QED BY <1>4, <2>1, <2>2, <2>3 DEF UidsOK
<1>. QED BY <1>2, <1>4, <1>5, <1>6 DEF FrontOK

\* A session takes a uid that nobody has.
LEMMA BindOK ==
    ASSUME NEW s, FrontOK(s), NEW c \in Here(s), NEW u \in Uids, u \notin DOMAIN s.clients,
           s.sockets[c].session, s.sockets[c].uid = 0, NEW t,
           t = [s EXCEPT !.clients = With(@, u, c), !.sockets[c].uid = u]
    PROVE  FrontOK(t) /\ Here(t) = Here(s)
<1>0. PICK k : k = s.sockets[c] /\ s \in FrontType /\ k \in SocketType /\ c \in Clients /\ Bound(s, c, k)
  BY ClientIs
<1>1. PICK l, C : l = [k EXCEPT !.uid = u] /\ C = With(s.clients, u, c)
  OBVIOUS
<1>2. /\ l \in SocketType /\ SameWait(k, l) /\ l.session /\ l.uid = u
      /\ l.state = k.state /\ l.listener = k.listener
  BY <1>0, <1>1 DEF SocketType, SameWait
<1>3. t = Reset(s, c, l, C, s.clientNum)
  BY <1>0, <1>1 DEF Reset, FrontType
<1>4. /\ C \in MapsOf(Uids, Clients) /\ s.clientNum \in Int
      /\ DOMAIN C = DOMAIN s.clients \cup {u} /\ C[u] = c
      /\ \A v \in DOMAIN s.clients : C[v] = s.clients[v]
  <2>1. s.clients \in MapsOf(Uids, Clients) /\ s.clientNum \in Int
    BY <1>0, FrontIs
  <2>2. C \in MapsOf(Uids, Clients)
    BY <1>0, <1>1, <2>1, WithMap
  <2>3. DOMAIN C = DOMAIN s.clients \cup {u} /\ C[u] = c
        /\ \A v \in DOMAIN s.clients \ {u} : C[v] = s.clients[v]
    BY <1>1 DEF With
  <2>. QED BY <2>1, <2>2, <2>3
<1>5. /\ t \in FrontType /\ ClientsOK(t) /\ Here(t) = Here(s)
      /\ t.sockets[c] = l /\ \A d \in Here(s) \ {c} : t.sockets[d] = s.sockets[d]
      /\ t.clients = C /\ t.clientNum = s.clientNum
      /\ t.nowConnectionNum = s.nowConnectionNum
  <2>1. PICK n : n = s.clientNum /\ n \in Int
    BY <1>4
  <2>2. PICK r : r = Reset(s, c, l, C, n) /\ SameWait(s.sockets[c], l) /\ l \in SocketType
    BY <1>0, <1>2
  <2>3. t = r
    BY <1>3, <2>1, <2>2
  <2>4. /\ r \in FrontType /\ ClientsOK(r) /\ Here(r) = Here(s)
        /\ r.sockets[c] = l /\ \A d \in Here(s) \ {c} : r.sockets[d] = s.sockets[d]
        /\ r.clients = C /\ r.clientNum = n /\ r.nowConnectionNum = s.nowConnectionNum
    BY <1>4, <2>1, <2>2, ResetIs
  <2>. QED BY <2>1, <2>3, <2>4
<1>6. CountersOK(t)
  <2>1. OpenOf(t) = OpenOf(s) /\ SessionsOf(t) = SessionsOf(s)
    BY <1>0, <1>2, <1>5 DEF OpenOf, SessionsOf
  <2>. QED BY <1>5, <2>1 DEF FrontOK, CountersOK
<1>7. UidsOK(t)
  <2>1. Bound(t, c, l)
    BY <1>0, <1>2, <1>4, <1>5 DEF Bound
  <2>2. ASSUME NEW d \in Here(s) \ {c} PROVE Bound(t, d, t.sockets[d])
    <3>1. t.sockets[d] = s.sockets[d] /\ Bound(s, d, s.sockets[d])
      BY <1>5, ClientIs
    <3>. QED BY <1>4, <1>5, <3>1 DEF Bound
  <2>3. ASSUME NEW v \in DOMAIN C
        PROVE  C[v] \in Here(s) /\ t.sockets[C[v]].session /\ t.sockets[C[v]].uid = v
    <3>1. CASE v = u
      BY <1>2, <1>4, <1>5, <3>1
    <3>2. CASE v # u
      <4>1. v \in DOMAIN s.clients /\ C[v] = s.clients[v]
        BY <1>4, <3>2, <2>3
      <4>2. C[v] \in Here(s) /\ s.sockets[C[v]].session /\ s.sockets[C[v]].uid = v
        BY <4>1 DEF FrontOK, UidsOK
      <4>3. v # 0
        BY <4>1, <1>0, FrontIs, MapElim, ConnectorAssumption
      <4>4. C[v] # c
        BY <4>2, <4>3
      <4>. QED BY <1>5, <4>2, <4>4
    <3>. QED BY <3>1, <3>2
  <2>. QED BY <1>5, <2>1, <2>2, <2>3 DEF UidsOK
<1>. QED BY <1>5, <1>6, <1>7 DEF FrontOK

\* newClientCb and the constructor of ClientSocket.
LEMMA ConnectedOK ==
    ASSUME NEW s, FrontOK(s), NEW c \in Clients \ Here(s), NEW i \in BucketIds,
           s.nowConnectionNum < MaxConnectionNum, NEW t,
           t = [s EXCEPT !.nowConnectionNum = @ + 1, !.bucketIdx = i, !.sockets = With(@, c,
                  [state |-> "open", listener |-> "onRegister", session |-> FALSE, uid |-> 0,
                   registerTimer |-> TRUE, heartbeatTimer |-> FALSE, sendArr |-> <<>>,
                   bucketIdx |-> i, notInBucket |-> TRUE, willBucketIdx |-> NoBucket])]
    PROVE  FrontOK(t) /\ Here(t) = Here(s) \cup {c} /\ \A d \in Here(s) : t.sockets[d] = s.sockets[d]
<1>0. s \in FrontType
  BY DEF FrontOK
<1>1. PICK l, K :
         /\ l = [state |-> "open", listener |-> "onRegister", session |-> FALSE, uid |-> 0,
                 registerTimer |-> TRUE, heartbeatTimer |-> FALSE, sendArr |-> <<>>,
                 bucketIdx |-> i, notInBucket |-> TRUE, willBucketIdx |-> NoBucket]
         /\ K = With(s.sockets, c, l)
  OBVIOUS
<1>2. /\ l \in SocketType /\ l.state = "open" /\ ~l.session /\ l.uid = 0
      /\ l.sendArr = <<>> /\ l.notInBucket
  <2>1. <<>> \in Seq(Nat)
    OBVIOUS
  <2>. QED BY <1>1, <2>1 DEF SocketType
<1>3. /\ K \in MapsOf(Clients, SocketType) /\ DOMAIN K = Here(s) \cup {c} /\ K[c] = l
      /\ \A d \in Here(s) : K[d] = s.sockets[d]
  <2>1. PICK f : f = s.sockets /\ f \in MapsOf(Clients, SocketType)
    BY <1>0, FrontIs
  <2>2. K \in MapsOf(Clients, SocketType)
    BY <1>1, <1>2, <2>1, WithMap
  <2>. QED BY <1>1, <2>1, <2>2 DEF With, Here
<1>4. /\ t \in FrontType /\ t.sockets = K /\ t.buckets = s.buckets
      /\ t.sent = s.sent /\ t.written = s.written /\ t.clients = s.clients
      /\ t.nowConnectionNum = s.nowConnectionNum + 1 /\ t.clientNum = s.clientNum
  <2>1. PICK r : r = Put(s, K, s.buckets, s.sent, s.written)
    OBVIOUS
  <2>2. /\ r \in FrontType /\ r.sockets = K /\ r.buckets = s.buckets
        /\ r.sent = s.sent /\ r.written = s.written /\ r.clients = s.clients
        /\ r.nowConnectionNum = s.nowConnectionNum /\ r.clientNum = s.clientNum
    <3>1. /\ s.buckets \in [BucketIds -> SUBSET Clients]
          /\ s.sent \in [Clients -> Nat] /\ s.written \in [Clients -> Nat]
      BY <1>0, FrontIs
    <3>. QED BY <1>0, <1>3, <2>1, <3>1, FrontChanged
  <2>3. t = [r EXCEPT !.nowConnectionNum = s.nowConnectionNum + 1, !.bucketIdx = i]
    BY <1>0, <1>1, <2>1 DEF Put, FrontType
  <2>4. s.nowConnectionNum + 1 \in Int
    BY <1>0, FrontIs
  <2>. QED BY <2>2, <2>3, <2>4 DEF FrontType
<1>5. Here(t) = Here(s) \cup {c} /\ \A d \in Here(s) : t.sockets[d] = s.sockets[d]
  BY <1>3, <1>4 DEF Here
<1>6. Placed(t, c) /\ Waits(t, c) /\ Held(t, c)
  <2>1. /\ Unknown(s, c) /\ s.sent[c] \in Nat /\ s.written[c] \in Nat
    BY <1>0, FrontIs DEF FrontOK, ClientsOK
  <2>2. [j \in 1..s.sent[c] - s.written[c] |-> s.written[c] + j] = <<>>
    BY <2>1 DEF Unknown
  <2>. QED BY <1>2, <1>3, <1>4, <2>1, <2>2 DEF Unknown, Placed, Waits, Held
<1>7. ClientsOK(t)
  <2> SUFFICES ASSUME NEW d \in Clients, d # c
               PROVE  IF d \in Here(s) THEN Placed(t, d) /\ Waits(t, d) /\ Held(t, d)
                      ELSE Unknown(t, d)
    BY <1>5, <1>6 DEF ClientsOK
  <2>1. CASE d \in Here(s)
    <3>1. Placed(s, d) /\ Waits(s, d) /\ Held(s, d)
      BY <2>1, ClientIs
    <3>. QED BY <1>4, <1>5, <2>1, <3>1 DEF Placed, Waits, Held
  <2>2. CASE d \notin Here(s)
    BY <1>4, <2>2 DEF Unknown, FrontOK, ClientsOK
  <2>. QED BY <2>1, <2>2
<1>8. CountersOK(t)
  <2>1. IsFiniteSet(OpenOf(s)) /\ IsFiniteSet(Here(s))
    BY FS_Subset DEF FrontOK, CountersOK, OpenOf
  <2>2. IsFiniteSet(Here(t))
    BY <1>5, <2>1, FS_AddElement
  <2>3. OpenOf(t) = OpenOf(s) \cup {c} /\ c \notin OpenOf(s) /\ SessionsOf(t) = SessionsOf(s)
    <3>1. t.sockets[c].state = "open" /\ ~t.sockets[c].session
      BY <1>2, <1>3, <1>4
    <3>. QED BY <1>5, <3>1 DEF OpenOf, SessionsOf
  <2>4. Cardinality(OpenOf(t)) = Cardinality(OpenOf(s)) + 1
    BY <2>1, <2>3, FS_AddElement
  <2>5. t.nowConnectionNum <= MaxConnectionNum
    BY <1>0, <1>4, FrontIs, ConnectorAssumption
  <2>. QED BY <1>4, <2>2, <2>3, <2>4, <2>5 DEF FrontOK, CountersOK
<1>9. UidsOK(t)
  <2>1. Bound(t, c, t.sockets[c])
    BY <1>2, <1>3, <1>4 DEF Bound
  <2>2. ASSUME NEW d \in Here(s) PROVE Bound(t, d, t.sockets[d])
    <3>1. t.sockets[d] = s.sockets[d] /\ Bound(s, d, s.sockets[d])
      BY <1>5, ClientIs
    <3>. QED BY <1>4, <3>1 DEF Bound
  <2>3. ASSUME NEW u \in DOMAIN s.clients
        PROVE  /\ s.clients[u] \in Here(t)
               /\ t.sockets[s.clients[u]].session /\ t.sockets[s.clients[u]].uid = u
    <3>1. /\ s.clients[u] \in Here(s) /\ s.sockets[s.clients[u]].session
          /\ s.sockets[s.clients[u]].uid = u
      BY DEF FrontOK, UidsOK
    <3>. QED BY <1>5, <3>1
  <2>. QED BY <1>4, <1>5, <2>1, <2>2, <2>3 DEF UidsOK
<1>. QED BY <1>4, <1>5, <1>7, <1>8, <1>9 DEF FrontOK

\* Sending to one client, and the handshake.
LEMMA SentOK ==
    ASSUME NEW s, FrontOK(s), NEW c \in Here(s), NEW r, r = Send(s, c)
    PROVE  FrontOK(r) /\ Here(r) = Here(s) /\ SameSelf(s.sockets[c], r.sockets[c])
<1>1. s \in FrontType /\ Placed(s, c) /\ Held(s, c)
  BY ClientIs
<1>2. Kept(s, r, c) /\ Placed(r, c) /\ Waits(r, c) /\ Held(r, c)
  BY <1>1, SendOK
<1>. QED BY <1>2, KeptOK DEF Kept, Still

LEMMA HandshakeOK ==
    ASSUME NEW s, FrontOK(s), NEW c \in Here(s), s.sockets[c].state = "open",
           s.sockets[c].listener = "onRegister", NEW r, r = Shaken(s, c),
           NEW t \in {r, Close(r, c)}
    PROVE  FrontOK(t) /\ Here(t) = Here(s) /\ t.sockets[c].listener = "onData"
<1>1. PICK q : q = Send(s, c)
  OBVIOUS
<1>2. FrontOK(q) /\ Here(q) = Here(s) /\ SameSelf(s.sockets[c], q.sockets[c])
  BY <1>1, SentOK
<1>3. PICK p : p = [q EXCEPT !.clientNum = @ + 1, !.sockets[c] =
                       [@ EXCEPT !.registerTimer = FALSE, !.heartbeatTimer = HeartbeatOn,
                                 !.listener = "onData", !.session = TRUE]]
  OBVIOUS
<1>4. FrontOK(p) /\ Here(p) = Here(q) /\ p.sockets[c].listener = "onData"
  BY <1>2, <1>3, ShakenOK DEF SameSelf
<1>5. p = r
  BY <1>1, <1>3 DEF Shaken
<1>6. CASE t = r
  BY <1>2, <1>4, <1>5, <1>6
<1>7. CASE t = Close(r, c)
  <2>1. t = Close(p, c) /\ c \in Here(p)
    BY <1>2, <1>4, <1>5, <1>7
  <2>2. FrontOK(t) /\ SameClients(p, t, c)
    BY <1>4, <2>1, CloseOK
  <2>. QED BY <1>2, <1>4, <2>2 DEF SameClients
<1>. QED BY <1>6, <1>7

(***************************************************************************)
(* The steps.                                                              *)
(***************************************************************************)

LEMMA RegisteredOK ==
    ASSUME NEW c, NEW f, FrontOK(front), c \in Here(front), Open(c), OnRegister(c, f)
    PROVE  /\ FrontOK(front') /\ Here(front') = Here(front)
           /\ front'.sockets[c].listener # "onRegister"
<1>1. Socket(c).listener = "onRegister" /\ Socket(c).state = "open"
  BY DEF OnRegister, Open
<1>2. CASE f = "handshake"
  <2>1. PICK s, r, t :
           s = front /\ t = front' /\ r = Shaken(s, c)
    OBVIOUS
  <2>2. t \in {r, Close(r, c)}
    BY <1>2, <2>1 DEF OnRegister, Handshake
  <2>3. FrontOK(s) /\ c \in Here(s) /\ s.sockets[c].state = "open"
        /\ s.sockets[c].listener = "onRegister"
    BY <1>1, <2>1 DEF Socket
  <2>4. FrontOK(t) /\ Here(t) = Here(s) /\ t.sockets[c].listener = "onData"
    BY <2>1, <2>2, <2>3, HandshakeOK
  <2>. QED BY <2>1, <2>4
<1>3. CASE f # "handshake"
  <2>1. PICK s, l, t : /\ s = front /\ t = front'
                       /\ l = [s.sockets[c] EXCEPT !.listener = "none"]
    OBVIOUS
  <2>2. FrontOK(s) /\ c \in Here(s) /\ s.sockets[c] \in SocketType
    BY <2>1, ClientIs
  <2>3. /\ l \in SocketType /\ SameWait(s.sockets[c], l) /\ l.listener = "none"
        /\ l.session = s.sockets[c].session /\ l.uid = s.sockets[c].uid
    BY <2>1, <2>2 DEF SocketType, SameWait
  <2>4. PICK r : /\ r = SetSocket(s, c, l)
                 /\ FrontOK(r) /\ Here(r) = Here(s) /\ r.sockets[c] = l
    BY <2>2, <2>3, TimerOK
  <2>5. t = Close(r, c)
    <3>1. front' = Close([front EXCEPT !.sockets[c].listener = "none"], c)
      BY <1>3 DEF OnRegister
    <3>2. r = [front EXCEPT !.sockets[c].listener = "none"]
      BY <2>1, <2>2, <2>4 DEF SetSocket, FrontOK, FrontType
    <3>. QED BY <2>1, <3>1, <3>2
  <2>6. FrontOK(t) /\ SameClients(r, t, c)
    BY <2>2, <2>4, <2>5, CloseOK
  <2>. QED BY <2>1, <2>3, <2>4, <2>6 DEF SameClients
<1>. QED BY <1>2, <1>3

LEMMA DataOK ==
    ASSUME NEW c, NEW f, FrontOK(front), c \in Here(front), OnData(c, f),
           \A m \in handling : m.client \in Here(front)
    PROVE  /\ FrontOK(front') /\ Here(front') = Here(front)
           /\ front'.sockets[c].listener # "onRegister"
           /\ \A m \in handling' : m.client \in Here(front)
<1>1. Socket(c).listener = "onData"
  BY DEF OnData
<1>2. CASE front' = Close(front, c) /\ UNCHANGED handling
  <2>1. FrontOK(front') /\ SameClients(front, front', c)
    BY <1>2, CloseOK
  <2>. QED BY <1>1, <1>2, <2>1 DEF SameClients, Socket
<1>3. CASE f = "msg" /\ OnMsg(c)
  <2>1. CASE Socket(c).session
    <3>1. front' = front /\ handling' =
              handling \cup {[client |-> c, n |-> received[c] - Len(chunk.frames)]}
      BY <1>3, <2>1 DEF OnMsg
    <3>. QED BY <1>1, <3>1 DEF Socket
  <2>2. CASE ~Socket(c).session
    BY <1>2, <1>3, <2>2 DEF OnMsg
  <2>. QED BY <2>1, <2>2
<1>4. CASE f = "heartbeat" /\ OnHeartbeat(c)
  <2>1. PICK s, l, t : /\ s = front /\ t = front'
                       /\ l = [s.sockets[c] EXCEPT !.heartbeatTimer = @ \/ HeartbeatOn]
    OBVIOUS
  <2>2. FrontOK(s) /\ c \in Here(s) /\ s.sockets[c] \in SocketType
    BY <2>1, ClientIs
  <2>3. /\ l \in SocketType /\ SameWait(s.sockets[c], l) /\ l.listener = s.sockets[c].listener
        /\ l.session = s.sockets[c].session /\ l.uid = s.sockets[c].uid
    BY <2>1, <2>2, ConnectorAssumption DEF SocketType, SameWait
  <2>4. PICK r : /\ r = SetSocket(s, c, l)
                 /\ FrontOK(r) /\ Here(r) = Here(s) /\ r.sockets[c] = l
    BY <2>2, <2>3, TimerOK
  <2>5. t = Send(r, c)
    <3>1. front' = Send([front EXCEPT !.sockets[c].heartbeatTimer = @ \/ HeartbeatOn], c)
      BY <1>4 DEF OnHeartbeat
    <3>2. r = [front EXCEPT !.sockets[c].heartbeatTimer = @ \/ HeartbeatOn]
      BY <2>1, <2>2, <2>4 DEF SetSocket, FrontOK, FrontType
    <3>. QED BY <2>1, <3>1, <3>2
  <2>6. FrontOK(t) /\ Here(t) = Here(r) /\ SameSelf(r.sockets[c], t.sockets[c])
    BY <2>2, <2>4, <2>5, SentOK
  <2>7. handling' = handling
    BY <1>4 DEF OnHeartbeat
  <2>. QED BY <1>1, <2>1, <2>3, <2>4, <2>6, <2>7 DEF SameSelf, Socket
<1>. QED BY <1>2, <1>3, <1>4 DEF OnData

LEMMA EmitOK == ASSUME ConnInv, Emit PROVE ConnInv'
<1>1. /\ FrontOK(front) /\ chunk # <<>> /\ chunk \in [client : Clients, frames : Seq(Frames)]
      /\ chunk.frames # <<>> /\ chunk.client \in Here(front)
      /\ Socket(chunk.client).listener = "onRegister" => Open(chunk.client)
      /\ \A m \in handling : m.client \in Here(front)
  BY DEF ConnInv, ReadsOK, RestOK, Emit, Idle
<1>2. /\ FrontOK(front') /\ Here(front') = Here(front)
      /\ Head(chunk.frames) # "bad" =>
            front'.sockets[chunk.client].listener # "onRegister"
      /\ \A m \in handling' : m.client \in Here(front)
  <2>1. PICK c, f : c = chunk.client /\ f = Head(chunk.frames)
    OBVIOUS
  <2>2. CASE f = "bad"
    <3>1. front' = OnClose(front, c, "refused") /\ handling' = handling
      BY <2>2, <2>1 DEF Emit, BadLength
    <3>2. FrontOK(front') /\ Here(front') = Here(front)
      BY <1>1, <2>1, <3>1, OnCloseOK DEF SameClients
    <3>. QED BY <1>1, <2>2, <2>1, <3>1, <3>2
  <2>3. CASE OnRegister(c, f)
    <3>1. Open(c) /\ handling' = handling
      BY <1>1, <2>1, <2>3 DEF OnRegister
    <3>. QED BY <1>1, <2>1, <2>3, <3>1, RegisteredOK
  <2>4. CASE OnData(c, f)
    BY <1>1, <2>1, <2>4, DataOK
  <2>5. CASE Socket(c).listener = "none" /\ UNCHANGED <<front, handling>>
    BY <1>1, <2>1, <2>5 DEF Socket
  <2>. QED BY <2>1, <2>2, <2>3, <2>4, <2>5 DEF Emit
<1>3. ReadsOK'
  <2>1. CASE Head(chunk.frames) = "bad" \/ Len(chunk.frames) = 1
    BY <2>1 DEF Emit, ReadsOK
  <2>2. CASE ~(Head(chunk.frames) = "bad" \/ Len(chunk.frames) = 1)
    <3>1. PICK fs : fs = chunk.frames /\ fs \in Seq(Frames) /\ fs # <<>> /\ Len(fs) # 1
      BY <1>1, <2>2
    <3>2. Tail(fs) \in Seq(Frames) /\ Tail(fs) # <<>>
      <4>1. Len(fs) \in Nat /\ Len(fs) # 0
        BY <3>1
      <4>2. Tail(fs) \in Seq(Frames) /\ Len(Tail(fs)) = Len(fs) - 1
        BY <3>1
      <4>3. Len(<<>>) = 0
        OBVIOUS
      <4>4. Len(Tail(fs)) # 0
        BY <3>1, <4>1, <4>2
      <4>5. Tail(fs) # <<>>
        BY <4>3, <4>4, Zenon
      <4>. QED BY <4>2, <4>5
    <3>3. chunk' = [chunk EXCEPT !.frames = Tail(fs)]
      BY <2>2, <3>1 DEF Emit
    <3>4. chunk' \in [client : Clients, frames : Seq(Frames)] /\ chunk'.frames # <<>>
          /\ chunk'.client = chunk.client
      BY <1>1, <3>2, <3>3
    <3>. QED BY <1>1, <1>2, <2>2, <3>4 DEF ReadsOK, Socket
  <2>. QED BY <2>1, <2>2
<1>4. RestOK'
  BY <1>2 DEF ConnInv, RestOK, Emit
<1>. QED BY <1>2, <1>3, <1>4 DEF ConnInv

\* A step between two reads.
LEMMA StepOK ==
    ASSUME ConnInv, Idle, chunk' = chunk, received' = received, FrontOK(front'),
           Here(front) \subseteq Here(front'), handling' \subseteq handling,
           forwarded' \in [Clients -> Uids \cup {0}]
    PROVE  ConnInv'
<1>1. ReadsOK' /\ RestOK'
  BY DEF ConnInv, Idle, ReadsOK, RestOK
<1>. QED BY <1>1 DEF ConnInv

LEMMA InitInv == Init => ConnInv
<1> SUFFICES ASSUME Init PROVE ConnInv
  OBVIOUS
<1>1. PICK s, B, z : /\ s = front /\ B = [b \in BucketIds |-> {}] /\ z = [c \in Clients |-> 0]
  OBVIOUS
<1>2. /\ s.nowConnectionNum = 0 /\ s.clientNum = 0 /\ s.bucketIdx = 0 /\ s.flushIdx = 0
      /\ s.buckets = B /\ s.clients = <<>> /\ s.sockets = <<>> /\ s.sent = z /\ s.written = z
  BY <1>1 DEF Init
<1>3. s \in FrontType
  <2>1. 0 \in BucketIds
    BY ConnectorAssumption DEF BucketIds
  <2>2. /\ <<>> \in MapsOf(Uids, Clients) /\ <<>> \in MapsOf(Clients, SocketType)
        /\ B \in [BucketIds -> SUBSET Clients] /\ z \in [Clients -> Nat]
    BY <1>1, EmptyMap
  <2>3. s = [nowConnectionNum |-> 0, clientNum |-> 0, bucketIdx |-> 0, flushIdx |-> 0,
             buckets |-> B, clients |-> <<>>, sockets |-> <<>>, sent |-> z, written |-> z]
    BY <1>1 DEF Init
  <2>. QED BY <2>1, <2>2, <2>3 DEF FrontType, MapsOf
<1>4. Here(s) = {} /\ DOMAIN s.clients = {}
  BY <1>2 DEF Here
<1>5. ClientsOK(s)
  BY <1>1, <1>2, <1>4 DEF ClientsOK, Unknown
<1>6. CountersOK(s)
  <2>1. OpenOf(s) = {} /\ SessionsOf(s) = {}
    BY <1>4 DEF OpenOf, SessionsOf
  <2>. QED BY <1>2, <1>4, <2>1, FS_EmptySet, ConnectorAssumption DEF CountersOK
<1>7. UidsOK(s)
  BY <1>4 DEF UidsOK
<1>8. FrontOK(front)
  BY <1>1, <1>3, <1>5, <1>6, <1>7 DEF FrontOK
<1>. QED BY <1>8 DEF Init, ConnInv, ReadsOK, RestOK

LEMMA NewClientInv == ASSUME ConnInv, NEW c \in Clients, NewClient(c) PROVE ConnInv'
<1>1. PICK s, i, t : s = front /\ i = (front.bucketIdx + 1) % BucketCnt /\ t = front'
  OBVIOUS
<1>2. FrontOK(s) /\ s \in FrontType /\ c \in Clients \ Here(s)
      /\ s.nowConnectionNum < MaxConnectionNum
  BY <1>1 DEF ConnInv, FrontOK, NewClient, Here
<1>3. i \in BucketIds
  <2>1. front.bucketIdx \in BucketIds
    BY <1>1, <1>2, FrontIs
  <2>. QED BY <1>1, <2>1, ConnectorAssumption DEF BucketIds
<1>4. FrontOK(t) /\ Here(t) = Here(s) \cup {c}
  <2>1. t = [s EXCEPT !.nowConnectionNum = @ + 1, !.bucketIdx = i, !.sockets = With(@, c,
               [state |-> "open", listener |-> "onRegister", session |-> FALSE, uid |-> 0,
                registerTimer |-> TRUE, heartbeatTimer |-> FALSE, sendArr |-> <<>>,
                bucketIdx |-> i, notInBucket |-> TRUE, willBucketIdx |-> NoBucket])]
    BY <1>1 DEF NewClient
  <2>. QED BY <1>2, <1>3, <2>1, ConnectedOK
<1>. QED BY <1>1, <1>4, StepOK DEF NewClient, ConnInv, RestOK

LEMMA ReadInv == ASSUME ConnInv, NEW c \in Clients, Read(c) PROVE ConnInv'
<1>1. PICK n, fs :
         /\ n \in 1..ChunkMax /\ fs \in [1..n -> Frames]
         /\ received' = [received EXCEPT ![c] = @ + n] /\ chunk' = [client |-> c, frames |-> fs]
  BY DEF Read
<1>2. /\ n \in Nat /\ fs \in Seq(Frames) /\ fs # <<>>
  <2>1. n \in Nat /\ 1 \in DOMAIN fs
    BY <1>1, ConnectorAssumption
  <2>2. DOMAIN <<>> = {}
    OBVIOUS
  <2>3. fs # <<>>
    BY <2>1, <2>2, Zenon
  <2>4. fs \in Seq(Frames)
    BY <1>1, <2>1
  <2>. QED BY <2>1, <2>3, <2>4
<1>3. Open(c) /\ front' = front /\ handling' = handling /\ forwarded' = forwarded
  BY DEF Read
<1>4. ReadsOK'
  <2>1. chunk'.client = c /\ chunk'.frames = fs /\ chunk' \in [client : Clients, frames : Seq(Frames)]
    BY <1>1, <1>2
  <2>2. Open(c)' /\ c \in Here(front')
    BY <1>3 DEF Open, Socket, Here
  <2>. QED BY <1>2, <2>1, <2>2 DEF ReadsOK, Open, Socket
<1>5. RestOK'
  <2>1. received' \in [Clients -> Nat]
    BY <1>1, <1>2 DEF ConnInv, RestOK
  <2>. QED BY <1>3, <2>1 DEF ConnInv, RestOK
<1>. QED BY <1>3, <1>4, <1>5 DEF ConnInv

\* A timer of c runs: the socket is closed with the timer gone.
LEMMA TimeoutInv ==
    ASSUME ConnInv, NEW c \in Clients, RegisterTimeout(c) \/ HeartbeatTimeout(c)
    PROVE  ConnInv'
<1>1. PICK s, l, t :
         /\ s = front /\ t = front'
         /\ \/ RegisterTimeout(c) /\ l = [s.sockets[c] EXCEPT !.registerTimer = FALSE]
            \/ HeartbeatTimeout(c) /\ l = [s.sockets[c] EXCEPT !.heartbeatTimer = FALSE]
  OBVIOUS
<1>2. /\ Idle /\ UNCHANGED <<chunk, handling, received, forwarded>> /\ c \in Here(s)
  BY <1>1 DEF RegisterTimeout, HeartbeatTimeout, Here
<1>3. FrontOK(s) /\ s.sockets[c] \in SocketType
  BY <1>1, <1>2, ClientIs DEF ConnInv
<1>4. /\ l \in SocketType /\ SameWait(s.sockets[c], l) /\ l.listener = s.sockets[c].listener
      /\ l.session = s.sockets[c].session /\ l.uid = s.sockets[c].uid
  BY <1>1, <1>3 DEF SocketType, SameWait
<1>5. PICK r : r = SetSocket(s, c, l) /\ FrontOK(r) /\ Here(r) = Here(s) /\ r.sockets[c] = l
  BY <1>2, <1>3, <1>4, TimerOK
<1>6. t = Close(r, c)
  <2>1. CASE RegisterTimeout(c) /\ l = [s.sockets[c] EXCEPT !.registerTimer = FALSE]
    <3>1. r = [front EXCEPT !.sockets[c].registerTimer = FALSE]
      BY <1>1, <1>3, <1>5, <2>1 DEF SetSocket, FrontOK, FrontType
    <3>. QED BY <1>1, <2>1, <3>1 DEF RegisterTimeout
  <2>2. CASE HeartbeatTimeout(c) /\ l = [s.sockets[c] EXCEPT !.heartbeatTimer = FALSE]
    <3>1. r = [front EXCEPT !.sockets[c].heartbeatTimer = FALSE]
      BY <1>1, <1>3, <1>5, <2>2 DEF SetSocket, FrontOK, FrontType
    <3>. QED BY <1>1, <2>2, <3>1 DEF HeartbeatTimeout
  <2>. QED BY <1>1, <2>1, <2>2
<1>7. FrontOK(t) /\ Here(t) = Here(r)
  BY <1>2, <1>5, <1>6, CloseOK DEF SameClients
<1>. QED BY <1>1, <1>2, <1>5, <1>7, StepOK DEF ConnInv, RestOK

LEMMA NextInv == ConnInv /\ [Next]_vars => ConnInv'
<1> SUFFICES ASSUME ConnInv, [Next]_vars PROVE ConnInv'
  OBVIOUS
<1>0. FrontOK(front) /\ forwarded \in [Clients -> Uids \cup {0}]
  BY DEF ConnInv, RestOK
<1>1. CASE Emit
  BY <1>1, EmitOK
<1>2. CASE Flush
  <2>1. FrontOK(front') /\ Here(front') = Here(front)
    BY <1>0, <1>2, FlushedOK DEF Flush
  <2>. QED BY <1>0, <1>2, <2>1, StepOK DEF Flush
<1>3. CASE CheckBucketsBalance
  <2>1. FrontOK(front') /\ Here(front') = Here(front)
    BY <1>0, <1>3, BalancedOK DEF CheckBucketsBalance
  <2>. QED BY <1>0, <1>3, <2>1, StepOK DEF CheckBucketsBalance
<1>4. ASSUME NEW c \in Clients, NewClient(c) PROVE ConnInv'
  BY <1>4, NewClientInv
<1>5. ASSUME NEW c \in Clients, Read(c) PROVE ConnInv'
  BY <1>5, ReadInv
<1>6. ASSUME NEW c \in Clients, PeerGone(c) PROVE ConnInv'
  <2>1. FrontOK(front') /\ Here(front') = Here(front)
    BY <1>0, <1>6, OnCloseOK DEF PeerGone, Open, Here, SameClients
  <2>. QED BY <1>0, <1>6, <2>1, StepOK DEF PeerGone
<1>7. ASSUME NEW c \in Clients, SessionClose(c) PROVE ConnInv'
  <2>1. FrontOK(front') /\ Here(front') = Here(front)
    BY <1>0, <1>7, CloseOK DEF SessionClose, Open, Here, SameClients
  <2>. QED BY <1>0, <1>7, <2>1, StepOK DEF SessionClose
<1>8. ASSUME NEW c \in Clients, RegisterTimeout(c) \/ HeartbeatTimeout(c) PROVE ConnInv'
  BY <1>8, TimeoutInv
<1>9. ASSUME NEW c \in Clients, NEW u \in Uids, Bind(c, u) PROVE ConnInv'
  <2>1. PICK s, t : s = front /\ t = front'
    OBVIOUS
  <2>2. /\ FrontOK(s) /\ c \in Here(s) /\ u \notin DOMAIN s.clients
        /\ s.sockets[c].session /\ s.sockets[c].uid = 0
        /\ t = [s EXCEPT !.clients = With(@, u, c), !.sockets[c].uid = u]
    BY <1>0, <1>9, <2>1 DEF Bind, Open, Socket, Here
  <2>3. FrontOK(t) /\ Here(t) = Here(s)
    BY <2>2, BindOK
  <2>. QED BY <1>0, <1>9, <2>1, <2>3, StepOK DEF Bind
<1>10. ASSUME NEW us \in SUBSET Uids, SendMsgByUids(us) PROVE ConnInv'
  <2>1. PICK s, t, cs : /\ s = front /\ t = front'
                        /\ cs = {s.clients[u] : u \in us \cap DOMAIN s.clients}
    OBVIOUS
  <2>2. cs \in SUBSET Here(s)
    BY <1>0, <2>1 DEF FrontOK, UidsOK
  <2>3. t = ForEach(s, cs, Send)
    BY <1>10, <2>1 DEF SendMsgByUids
  <2>4. FrontOK(t) /\ Here(t) = Here(s)
    BY <1>0, <2>1, <2>2, <2>3, SendEachOK
  <2>. QED BY <1>0, <1>10, <2>1, <2>4, StepOK DEF SendMsgByUids
<1>11. ASSUME NEW m \in handling, Drop(m) PROVE ConnInv'
  BY <1>0, <1>11, StepOK DEF Drop
<1>12. ASSUME NEW m \in handling, Answer(m) PROVE ConnInv'
  <2>1. m.client \in Here(front)
    BY DEF ConnInv, RestOK
  <2>2. FrontOK(front') /\ Here(front') = Here(front)
    BY <1>0, <1>12, <2>1, SentOK DEF Answer
  <2>. QED BY <1>0, <1>12, <2>2, StepOK DEF Answer
<1>13. ASSUME NEW m \in handling, Forward(m) PROVE ConnInv'
  <2>1. m.client \in Here(front)
    BY DEF ConnInv, RestOK
  <2>2. Socket(m.client).uid \in Uids \cup {0}
    BY <1>0, <2>1, ClientIs DEF SocketType, Socket
  <2>3. forwarded' \in [Clients -> Uids \cup {0}]
    BY <1>0, <1>13, <2>2 DEF Forward
  <2>. QED BY <1>0, <1>13, <2>3, StepOK DEF Forward
<1>14. CASE UNCHANGED vars
  BY <1>14 DEF vars, ConnInv, ReadsOK, RestOK, Open, Socket
<1>. QED BY <1>1, <1>2, <1>3, <1>4, <1>5, <1>6, <1>7, <1>8, <1>9, <1>10, <1>11, <1>12, <1>13,
            <1>14 DEF Next

(***************************************************************************)
(* The theorems.                                                           *)
(***************************************************************************)

\* The inductive invariant, of every run: nothing here assumes a limit on what
\* clients send or on how many there are.
THEOREM ConnInvariance == Spec => []ConnInv
BY InitInv, NextInv, PTL DEF Spec

\* The record of the process keeps the type that the code gives it: in particular
\* a bucket index is always one of the buckets, and a bucket holds clients only.
THEOREM FrontTyped == Spec => [](front \in FrontType)
<1>1. ConnInv => front \in FrontType
  BY DEF ConnInv, FrontOK
<1>. QED BY <1>1, ConnInvariance, PTL

\* A client with something to send is in the one bucket its bucketIdx names, so
\* that a flush reaches it, though send, flush, the balance and the close each
\* change the two in their own order.
THEOREM FlushReachesAll == Spec => []FlushReaches
<1>1. ConnInv => FlushReaches
  <2> SUFFICES ASSUME ConnInv, NEW c \in Here(front)
               PROVE  /\ {b \in BucketIds : c \in front.buckets[b]}
                            = IF Socket(c).notInBucket THEN {} ELSE {Socket(c).bucketIdx}
                      /\ Socket(c).sendArr # <<>> => ~Socket(c).notInBucket
    BY DEF FlushReaches, Here
  <2>1. /\ Placed(front, c) /\ Waits(front, c) /\ Socket(c).bucketIdx \in BucketIds
        /\ Socket(c).notInBucket \in BOOLEAN
    BY ClientIs DEF ConnInv, SocketType, Socket
  <2>2. \A b \in BucketIds : c \in front.buckets[b]
           <=> ~Socket(c).notInBucket /\ b = Socket(c).bucketIdx
    BY <2>1 DEF Placed, Socket
  <2>. QED BY <2>1, <2>2 DEF Waits, Socket
<1>. QED BY <1>1, ConnInvariance, PTL

\* nowConnectionNum and clientNum count, whichever way connections and sessions
\* end (close, timeout, lost connection, refused frame), and never pass the limit.
THEOREM CountersCount == Spec => []CountsAgree
<1>1. ConnInv => CountsAgree
  <2> SUFFICES ASSUME ConnInv PROVE CountsAgree
    OBVIOUS
  <2>1. /\ OpenOf(front) = {c \in DOMAIN front.sockets : Open(c)}
        /\ SessionsOf(front) = {c \in DOMAIN front.sockets : Socket(c).session}
    BY DEF OpenOf, SessionsOf, Open, Socket, Here
  <2>2. /\ front.nowConnectionNum = Cardinality(OpenOf(front))
        /\ front.nowConnectionNum <= MaxConnectionNum
        /\ front.clientNum = Cardinality(SessionsOf(front))
    BY DEF ConnInv, FrontOK, CountersOK
  <2>3. \A c \in DOMAIN front.sockets : Socket(c).session => Open(c)
    BY DEF ConnInv, FrontOK, UidsOK, Bound, Open, Socket, Here
  <2>4. \A u \in DOMAIN front.clients :
           Open(front.clients[u]) /\ Socket(front.clients[u]).uid = u
    BY <2>3 DEF ConnInv, FrontOK, UidsOK, Socket, Here
  <2>. QED BY <2>1, <2>2, <2>3, <2>4 DEF CountsAgree
<1>. QED BY <1>1, ConnInvariance, PTL

\* No message to a client is lost, doubled or overtaken while it is connected,
\* whatever mixture of buckets, full caches, flushes and balances it meets; and
\* whoever ClientSocket.close closes has been written everything, though that
\* call may come from a frame of a read that goes on, a timer or a handler.
THEOREM AllDelivered == Spec => []Delivered
<1>1. ConnInv => Delivered
  <2> SUFFICES ASSUME ConnInv, NEW c \in Here(front)
               PROVE  /\ Open(c) => Socket(c).sendArr =
                            [i \in 1..front.sent[c] - front.written[c] |-> front.written[c] + i]
                      /\ Socket(c).state = "closed" => front.written[c] = front.sent[c]
    BY DEF Delivered, Here
  <2>1. Held(front, c)
    BY ClientIs DEF ConnInv
  <2>. QED BY <2>1 DEF Held, Open, Socket
<1>. QED BY <1>1, ConnInvariance, PTL

\* A message is forwarded under the uid its client has at that moment.
ForwardsOwn ==
    \A c \in Clients : forwarded'[c] # forwarded[c] =>
        forwarded'[c] \in DOMAIN front.clients /\ front.clients[forwarded'[c]] = c

\* handleMsg reads the session again after its awaits: what it forwards goes out
\* under a uid that is bound, at that moment, to the very client that sent it.
THEOREM ForwardedUnderOwnUid == Spec => ForwardedOwn
<1>1. ConnInv /\ [Next]_vars => [ForwardsOwn]_vars
  <2> SUFFICES ASSUME ConnInv, Next PROVE ForwardsOwn
    BY DEF vars
  <2>1. ASSUME NEW m \in handling, Forward(m) PROVE ForwardsOwn
    <3>1. m.client \in Here(front) /\ forwarded \in [Clients -> Uids \cup {0}]
      BY DEF ConnInv, RestOK
    <3>2. Bound(front, m.client, Socket(m.client)) /\ m.client \in Clients
      BY <3>1, ClientIs DEF ConnInv, Socket
    <3>3. Socket(m.client).uid \in DOMAIN front.clients
          /\ front.clients[Socket(m.client).uid] = m.client
      BY <2>1, <3>2 DEF Forward, MayForward, Bound
    <3>4. forwarded' = [forwarded EXCEPT ![m.client] = Socket(m.client).uid]
      BY <2>1 DEF Forward
    <3>. QED BY <3>1, <3>2, <3>3, <3>4 DEF ForwardsOwn
  <2>2. ASSUME forwarded' = forwarded PROVE ForwardsOwn
    BY <2>2 DEF ForwardsOwn
  <2>. QED BY <2>1, <2>2 DEF Next, Emit, Flush, CheckBucketsBalance, NewClient, Read, PeerGone,
                            SessionClose, RegisterTimeout, HeartbeatTimeout, Bind, SendMsgByUids,
                            Drop, Answer
<1>2. [][ForwardsOwn]_vars <=> ForwardedOwn
  BY DEF ForwardsOwn, ForwardedOwn
<1>. QED BY <1>1, <1>2, InitInv, NextInv, PTL DEF Spec

=============================================================================
