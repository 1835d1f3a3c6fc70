------------------------- MODULE RpcServiceProofs -------------------------
(***************************************************************************)
(* Proofs about RpcService, for every value of its constants: its          *)
(* invariants, and at the end that it implements RpcPromise.               *)
(***************************************************************************)
EXTENDS RpcService, DataTheorems, TLAPS

(* The invariants as predicates of the maps, to speak of their values      *)
(* between the steps of one handler.                                       *)

Typed(req, buckets, ms, log) ==
    /\ DOMAIN req \subseteq 1..RpcIdMax
    /\ \A id \in DOMAIN req : req[id] \in 1..Len(ms)
    /\ DOMAIN buckets \subseteq Int
    /\ \A t \in DOMAIN buckets : buckets[t] \subseteq 1..RpcIdMax
    /\ log \in [1..Len(ms) -> Seq(Outcomes)]

Exact(req, buckets, ms) ==
    /\ \A id \in DOMAIN req :
          /\ ms[req[id]].id = id
          /\ ms[req[id]].time \in DOMAIN buckets
          /\ id \in buckets[ms[req[id]].time]
    /\ \A t \in DOMAIN buckets : \A id \in buckets[t] :
          id \in DOMAIN req /\ ms[req[id]].time = t

OnceIn(log, req, ms) ==
    \A m \in 1..Len(ms) :
        IF ms[m].id # NoId /\ ~(\E id \in DOMAIN req : req[id] = m)
        THEN Len(log[m]) = 1 ELSE log[m] = <<>>

WaitsIn(req, ms, m) == ms[m].id \in DOMAIN req /\ req[ms[m].id] = m

\* Deleting ids keeps the two maps in step, whatever the ids are.
LEMMA DropExact ==
    ASSUME NEW req, NEW buckets, NEW ms \in Seq(Messages), NEW log,
           NEW S, NEW ids, NEW o \in Outcomes,
           Typed(req, buckets, ms, log),
           Exact(req, buckets, ms)
    PROVE  LET req2 == RequestWithout(req, ids)
               buckets2 == BucketsWithout(req, buckets, ms, ids)
           IN  /\ Typed(req2, buckets2, ms, Settle(log, S, o))
               /\ Exact(req2, buckets2, ms)
<1> DEFINE req2 == RequestWithout(req, ids)
           buckets2 == BucketsWithout(req, buckets, ms, ids)
           log2 == Settle(log, S, o)
<1>1. /\ DOMAIN req2 = DOMAIN req \ ids
      /\ \A id \in DOMAIN req \ ids : req2[id] = req[id]
  BY DEF RequestWithout
<1>2. /\ DOMAIN buckets2 = DOMAIN buckets
      /\ \A t \in DOMAIN buckets :
            buckets2[t] = buckets[t] \ {i \in ids \cap DOMAIN req : ms[req[i]].time = t}
  BY DEF BucketsWithout
<1>3. log2 \in [1..Len(ms) -> Seq(Outcomes)]
  BY DEF Settle, Typed
<1> HIDE DEF req2, buckets2, log2
<1>4. Typed(req2, buckets2, ms, log2)
  BY <1>1, <1>2, <1>3 DEF Typed
<1>5. Exact(req2, buckets2, ms)
  <2>1. ASSUME NEW id \in DOMAIN req2
        PROVE  /\ ms[req2[id]].id = id
               /\ ms[req2[id]].time \in DOMAIN buckets2
               /\ id \in buckets2[ms[req2[id]].time]
    BY <1>1, <1>2 DEF Exact
  <2>2. ASSUME NEW t \in DOMAIN buckets2, NEW id \in buckets2[t]
        PROVE  id \in DOMAIN req2 /\ ms[req2[id]].time = t
    BY <1>1, <1>2 DEF Exact
  <2>. QED BY <2>1, <2>2 DEF Exact
<1>. QED BY <1>4, <1>5 DEF req2, buckets2, log2

\* Giving up a set of waiting calls with their ids keeps the promises in step:
\* the heart of every handler that settles calls.
LEMMA DropCalls ==
    ASSUME NEW req, NEW buckets, NEW ms \in Seq(Messages), NEW log,
           NEW S \in SUBSET (1..Len(ms)), NEW ids, NEW o \in Outcomes,
           Typed(req, buckets, ms, log),
           Exact(req, buckets, ms),
           OnceIn(log, req, ms),
           \A m \in S : WaitsIn(req, ms, m),
           ids \cap DOMAIN req = {ms[m].id : m \in S}
    PROVE  LET req2 == RequestWithout(req, ids)
               log2 == Settle(log, S, o)
           IN  /\ OnceIn(log2, req2, ms)
               /\ \A m \in 1..Len(ms) \ S : WaitsIn(req, ms, m) => WaitsIn(req2, ms, m)
<1> DEFINE req2 == RequestWithout(req, ids)
           log2 == Settle(log, S, o)
<1>1. /\ DOMAIN req2 = DOMAIN req \ ids
      /\ \A id \in DOMAIN req \ ids : req2[id] = req[id]
  BY DEF RequestWithout
<1>3. /\ log2 \in [1..Len(ms) -> Seq(Outcomes)]
      /\ \A m \in 1..Len(ms) :
            log2[m] = IF m \in S THEN Append(log[m], o) ELSE log[m]
  BY DEF Settle, Typed
<1> HIDE DEF req2, log2
<1>6. \A m \in 1..Len(ms) :
        (\E id \in DOMAIN req2 : req2[id] = m)
           <=> (m \notin S /\ \E id \in DOMAIN req : req[id] = m)
  BY <1>1 DEF Exact, WaitsIn
<1>7. OnceIn(log2, req2, ms)
  <2> SUFFICES ASSUME NEW m \in 1..Len(ms)
               PROVE  IF ms[m].id # NoId /\ ~(\E id \in DOMAIN req2 : req2[id] = m)
                      THEN Len(log2[m]) = 1 ELSE log2[m] = <<>>
    BY DEF OnceIn
  <2>1. CASE m \in S
    <3>1. ms[m].id \in 1..RpcIdMax /\ \E id \in DOMAIN req : req[id] = m
      BY <2>1 DEF WaitsIn, Typed
    <3>2. log[m] = <<>>
      BY <3>1 DEF OnceIn
    <3>3. log2[m] = Append(<<>>, o)
      BY <3>2, <2>1, <1>3
    <3>4. Len(log2[m]) = 1
      BY <3>3
    <3>. QED BY <3>1, <3>4, <2>1, <1>6 DEF NoId
  <2>2. CASE m \notin S
    BY <2>2, <1>3, <1>6 DEF OnceIn
  <2>. QED BY <2>1, <2>2
<1>8. ASSUME NEW m \in 1..Len(ms) \ S, WaitsIn(req, ms, m)
      PROVE  WaitsIn(req2, ms, m)
  <2>1. ASSUME ms[m].id \in ids PROVE FALSE
    <3>1. PICK k \in S : ms[m].id = ms[k].id
      BY <1>8, <2>1 DEF WaitsIn
    <3>. QED BY <3>1, <1>8 DEF WaitsIn
  <2>. QED BY <2>1, <1>8, <1>1 DEF WaitsIn
<1>. QED BY <1>7, <1>8 DEF req2, log2

\* The parts of the inductive invariant in the terms of the lemmas.
LEMMA InvParts ==
    ASSUME TypeOK
    PROVE  /\ Typed(rpcRequest, rpcRequestBySeconds, msgs, settled)
           /\ BucketsExact <=> Exact(rpcRequest, rpcRequestBySeconds, msgs)
           /\ SettledOnce <=> (IdsDistinct => OnceIn(settled, rpcRequest, msgs))
           /\ CachedPending <=> (IdsDistinct =>
                \A m \in msgCacheList \cup resend :
                    IsCall(m) => WaitsIn(rpcRequest, msgs, m))
<1>1. Typed(rpcRequest, rpcRequestBySeconds, msgs, settled)
  BY DEF TypeOK, Typed, Numbers
<1>2. BucketsExact <=> Exact(rpcRequest, rpcRequestBySeconds, msgs)
  BY DEF BucketsExact, Exact, Bucket
<1>3. SettledOnce <=> (IdsDistinct => OnceIn(settled, rpcRequest, msgs))
  <2>1. \A m \in Numbers : settled[m] \in Seq(Outcomes)
    BY DEF TypeOK
  <2>2. \A m \in Numbers : Len(settled[m]) = 0 <=> settled[m] = <<>>
    BY <2>1
  <2>. QED BY <2>2 DEF SettledOnce, OnceIn, Numbers, IsCall, Pending
<1>4. CachedPending <=> (IdsDistinct =>
          \A m \in msgCacheList \cup resend :
              IsCall(m) => WaitsIn(rpcRequest, msgs, m))
  BY DEF CachedPending, WaitsIn
<1>. QED BY <1>1, <1>2, <1>3, <1>4

\* The same of the state after a step.
LEMMA InvPartsNext ==
    ASSUME TypeOK',
           Exact(rpcRequest', rpcRequestBySeconds', msgs'),
           IdsDistinct' =>
              /\ OnceIn(settled', rpcRequest', msgs')
              /\ \A m \in msgCacheList' \cup resend' :
                    msgs'[m].id # NoId => WaitsIn(rpcRequest', msgs', m)
    PROVE  BucketsExact' /\ SettledOnce' /\ CachedPending'
<1>1. BucketsExact'
  BY DEF BucketsExact, Exact, Bucket
<1>2. SettledOnce'
  <2>1. \A m \in Numbers' : settled'[m] \in Seq(Outcomes)
    BY DEF TypeOK
  <2>2. \A m \in Numbers' : Len(settled'[m]) = 0 <=> settled'[m] = <<>>
    BY <2>1
  <2>. QED BY <2>2 DEF SettledOnce, OnceIn, Numbers, IsCall, Pending
<1>3. CachedPending'
  BY DEF CachedPending, WaitsIn, IsCall
<1>. QED BY <1>1, <1>2, <1>3

\* The fields of a message have the types sendTo relies on.
LEMMA MessageTyped ==
    ASSUME TypeOK, NEW m \in Numbers
    PROVE  /\ msgs[m].sid \in Sids \cup {Self} /\ msgs[m].id \in 0..RpcIdMax
           /\ msgs[m].time \in Int
<1>1. msgs[m] \in Messages
  BY DEF TypeOK, Numbers
<1>. QED BY <1>1 DEF Messages

\* The engine as RpcTimeoutUtil's constructor leaves it satisfies the invariant.
THEOREM InitInv == Init => IInv
<1> SUFFICES ASSUME Init PROVE IInv
  OBVIOUS
<1> USE RpcTimeMaxAssumption, IdAssumption, LagAssumption DEF Init
<1>1. TypeOK
  BY DEF TypeOK, Phases, Numbers
<1>2. DeadlinesOrdered /\ TickFresh /\ CacheChecked /\ ResendInPhase
  BY DEF DeadlinesOrdered, TickFresh, CacheChecked, ResendInPhase, Numbers
<1>3. BucketsExact /\ CachedPending /\ SettledOnce
  BY DEF BucketsExact, CachedPending, SettledOnce, Numbers
<1>. QED BY <1>1, <1>2, <1>3 DEF IInv

-----------------------------------------------------------------------------
(* Sending.                                                                *)

NewLog == [k \in 1..(Len(msgs) + 1) |->
              IF k = Len(msgs) + 1 THEN <<>> ELSE settled[k]]

\* What a send makes of the message list.
LEMMA NewMessage ==
    ASSUME TypeOK, DeadlinesOrdered,
           NEW r \in Messages, r.time = outTime
    PROVE  LET m == Len(msgs) + 1
               ms == Append(msgs, r)
           IN  /\ m \in Nat /\ m \notin Numbers /\ Len(ms) = m
               /\ ms \in Seq(Messages) /\ ms[m] = r
               /\ \A k \in Numbers : ms[k] = msgs[k]
               /\ Numbers \subseteq 1..m /\ 1..m = Numbers \cup {m}
               /\ NewLog \in [1..m -> Seq(Outcomes)]
               /\ NewLog[m] = <<>> /\ \A k \in Numbers : NewLog[k] = settled[k]
               /\ \A k \in 1..m : ms[k].time \in Int /\ ms[k].time <= outTime
               /\ \A k, n \in 1..m : k < n => ms[k].time <= ms[n].time
               /\ (msgs' = ms /\ IdsDistinct') => IdsDistinct
<1> DEFINE m == Len(msgs) + 1
           ms == Append(msgs, r)
<1>1. /\ m \in Nat /\ m \notin Numbers /\ Len(ms) = m
      /\ ms \in Seq(Messages) /\ ms[m] = r
      /\ \A k \in Numbers : ms[k] = msgs[k]
      /\ Numbers \subseteq 1..m /\ 1..m = Numbers \cup {m}
  BY DEF TypeOK, Numbers
<1>2. /\ NewLog \in [1..m -> Seq(Outcomes)]
      /\ NewLog[m] = <<>> /\ \A k \in Numbers : NewLog[k] = settled[k]
  <2>1. \A k \in Numbers : settled[k] \in Seq(Outcomes)
    BY DEF TypeOK
  <2>. QED BY <2>1, <1>1 DEF NewLog
<1>3. \A k \in 1..m : ms[k].time \in Int /\ ms[k].time <= outTime
  <2>1. \A k \in Numbers : msgs[k] \in Messages
    BY DEF TypeOK, Numbers
  <2>2. \A k \in Numbers : msgs[k].time \in Int
    BY <2>1 DEF Messages
  <2>3. outTime \in Int /\ outTime <= outTime
    BY DEF TypeOK
  <2>. QED BY <2>2, <2>3, <1>1 DEF DeadlinesOrdered
<1>4. \A k, n \in 1..m : k < n => ms[k].time <= ms[n].time
  BY <1>1, <1>3 DEF DeadlinesOrdered, Numbers
<1>5. (msgs' = ms /\ IdsDistinct') => IdsDistinct
  BY <1>1 DEF IdsDistinct, IsCall, Numbers
<1>. QED BY <1>1, <1>2, <1>3, <1>4, <1>5

\* Registering a call under an id not in use.
LEMMA RegisterCall ==
    ASSUME IInv,
           NEW r \in Messages, r.time = outTime,
           r.id \in 1..RpcIdMax, r.id \notin DOMAIN rpcRequest
    PROVE  LET m == Len(msgs) + 1
               ms == Append(msgs, r)
               req == RequestWith(r.id, m)
               buckets == BucketsWith(r.id)
           IN  /\ Typed(req, buckets, ms, NewLog)
               /\ Exact(req, buckets, ms)
               /\ OnceIn(settled, rpcRequest, msgs) => OnceIn(NewLog, req, ms)
               /\ WaitsIn(req, ms, m)
               /\ \A k \in Numbers :
                    WaitsIn(rpcRequest, msgs, k) => WaitsIn(req, ms, k)
<1> DEFINE m == Len(msgs) + 1
           ms == Append(msgs, r)
           req == RequestWith(r.id, m)
           buckets == BucketsWith(r.id)
<1>0. /\ Typed(rpcRequest, rpcRequestBySeconds, msgs, settled)
      /\ Exact(rpcRequest, rpcRequestBySeconds, msgs)
  BY InvParts DEF IInv
<1>1. /\ m \in Nat /\ m \notin Numbers /\ Len(ms) = m
      /\ ms[m] = r /\ \A k \in Numbers : ms[k] = msgs[k]
      /\ 1..m = Numbers \cup {m}
      /\ NewLog \in [1..m -> Seq(Outcomes)]
      /\ NewLog[m] = <<>> /\ \A k \in Numbers : NewLog[k] = settled[k]
      /\ outTime \in Int
  BY NewMessage DEF IInv, TypeOK
<1>2. /\ DOMAIN req = DOMAIN rpcRequest \cup {r.id}
      /\ req[r.id] = m
      /\ \A i \in DOMAIN rpcRequest : req[i] = rpcRequest[i]
  BY DEF RequestWith
<1>3. /\ DOMAIN buckets = DOMAIN rpcRequestBySeconds \cup {outTime}
      /\ r.id \in buckets[outTime]
      /\ \A t \in DOMAIN rpcRequestBySeconds :
            /\ rpcRequestBySeconds[t] \subseteq buckets[t]
            /\ buckets[t] \subseteq rpcRequestBySeconds[t] \cup {r.id}
            /\ t # outTime => buckets[t] = rpcRequestBySeconds[t]
      /\ outTime \notin DOMAIN rpcRequestBySeconds => buckets[outTime] = {r.id}
  BY DEF BucketsWith, Bucket
<1>4. \A i \in DOMAIN rpcRequest : rpcRequest[i] \in Numbers
  BY <1>0 DEF Typed, Numbers
<1> HIDE DEF m, ms, req, buckets
<1>4a. \A i \in DOMAIN rpcRequest : ms[req[i]] = msgs[rpcRequest[i]]
  BY <1>1, <1>2, <1>4
<1>5. Typed(req, buckets, ms, NewLog)
  <2>1. \A id \in DOMAIN req : req[id] \in 1..Len(ms)
    BY <1>1, <1>2, <1>4
  <2>2. \A t \in DOMAIN buckets : buckets[t] \subseteq 1..RpcIdMax
    BY <1>0, <1>3 DEF Typed
  <2>. QED BY <2>1, <2>2, <1>0, <1>1, <1>2, <1>3 DEF Typed
<1>6. Exact(req, buckets, ms)
  <2>1. ASSUME NEW id \in DOMAIN req
        PROVE  /\ ms[req[id]].id = id
               /\ ms[req[id]].time \in DOMAIN buckets
               /\ id \in buckets[ms[req[id]].time]
    <3>1. CASE id = r.id
      BY <3>1, <1>1, <1>2, <1>3
    <3>2. CASE id # r.id
      <4>1. /\ id \in DOMAIN rpcRequest
            /\ msgs[rpcRequest[id]].id = id
            /\ msgs[rpcRequest[id]].time \in DOMAIN rpcRequestBySeconds
            /\ id \in rpcRequestBySeconds[msgs[rpcRequest[id]].time]
        BY <3>2, <1>0, <1>2 DEF Exact
      <4>. QED BY <4>1, <1>3, <1>4a
    <3>. QED BY <3>1, <3>2
  <2>2. ASSUME NEW t \in DOMAIN buckets, NEW id \in buckets[t]
        PROVE  id \in DOMAIN req /\ ms[req[id]].time = t
    <3>1. CASE id = r.id
      BY <3>1, <1>0, <1>1, <1>2, <1>3 DEF Exact
    <3>2. CASE id # r.id
      <4>1. t \in DOMAIN rpcRequestBySeconds /\ id \in rpcRequestBySeconds[t]
        BY <3>2, <1>3
      <4>2. id \in DOMAIN rpcRequest /\ msgs[rpcRequest[id]].time = t
        BY <4>1, <1>0 DEF Exact
      <4>. QED BY <4>2, <1>2, <1>4a
    <3>. QED BY <3>1, <3>2
  <2>. QED BY <2>1, <2>2 DEF Exact
<1>7. OnceIn(settled, rpcRequest, msgs) => OnceIn(NewLog, req, ms)
  <2> SUFFICES ASSUME OnceIn(settled, rpcRequest, msgs), NEW k \in 1..m
               PROVE  IF ms[k].id # NoId /\ ~(\E id \in DOMAIN req : req[id] = k)
                      THEN Len(NewLog[k]) = 1 ELSE NewLog[k] = <<>>
    BY <1>1 DEF OnceIn
  <2>1. CASE k = m
    BY <2>1, <1>1, <1>2
  <2>2. CASE k \in Numbers
    <3>1. (\E id \in DOMAIN req : req[id] = k)
             <=> (\E id \in DOMAIN rpcRequest : rpcRequest[id] = k)
      BY <2>2, <1>1, <1>2
    <3>. QED BY <3>1, <2>2, <1>0, <1>1 DEF OnceIn, Numbers
  <2>. QED BY <2>1, <2>2, <1>1
<1>8. WaitsIn(req, ms, m)
  BY <1>1, <1>2 DEF WaitsIn
<1>9. \A k \in Numbers : WaitsIn(rpcRequest, msgs, k) => WaitsIn(req, ms, k)
  BY <1>1, <1>2 DEF WaitsIn
<1>. QED BY <1>5, <1>6, <1>7, <1>8, <1>9 DEF m, ms, req, buckets

\* A message nobody waits for leaves the maps alone.
LEMMA RegisterNothing ==
    ASSUME IInv,
           NEW r \in Messages, r.time = outTime, r.id = NoId
    PROVE  LET ms == Append(msgs, r)
           IN  /\ Typed(rpcRequest, rpcRequestBySeconds, ms, NewLog)
               /\ Exact(rpcRequest, rpcRequestBySeconds, ms)
               /\ OnceIn(settled, rpcRequest, msgs) => OnceIn(NewLog, rpcRequest, ms)
               /\ \A k \in Numbers :
                    WaitsIn(rpcRequest, msgs, k) => WaitsIn(rpcRequest, ms, k)
<1> DEFINE m == Len(msgs) + 1
           ms == Append(msgs, r)
<1>0. /\ Typed(rpcRequest, rpcRequestBySeconds, msgs, settled)
      /\ Exact(rpcRequest, rpcRequestBySeconds, msgs)
  BY InvParts DEF IInv
<1>1. /\ m \in Nat /\ m \notin Numbers /\ Len(ms) = m
      /\ ms[m] = r /\ \A k \in Numbers : ms[k] = msgs[k]
      /\ 1..m = Numbers \cup {m}
      /\ NewLog \in [1..m -> Seq(Outcomes)]
      /\ NewLog[m] = <<>> /\ \A k \in Numbers : NewLog[k] = settled[k]
  BY NewMessage DEF IInv
<1>4. \A i \in DOMAIN rpcRequest : rpcRequest[i] \in Numbers
  BY <1>0 DEF Typed, Numbers
<1> HIDE DEF m, ms
<1>2. \A i \in DOMAIN rpcRequest : ms[rpcRequest[i]] = msgs[rpcRequest[i]]
  BY <1>1, <1>4
<1>5. Typed(rpcRequest, rpcRequestBySeconds, ms, NewLog)
  BY <1>0, <1>1, <1>4 DEF Typed
<1>6. Exact(rpcRequest, rpcRequestBySeconds, ms)
  BY <1>0, <1>2 DEF Exact
<1>7. OnceIn(settled, rpcRequest, msgs) => OnceIn(NewLog, rpcRequest, ms)
  <2> SUFFICES ASSUME OnceIn(settled, rpcRequest, msgs), NEW k \in 1..m
               PROVE  IF ms[k].id # NoId
                           /\ ~(\E id \in DOMAIN rpcRequest : rpcRequest[id] = k)
                      THEN Len(NewLog[k]) = 1 ELSE NewLog[k] = <<>>
    BY <1>1 DEF OnceIn
  <2>1. CASE k = m
    BY <2>1, <1>1
  <2>2. CASE k \in Numbers
    BY <2>2, <1>0, <1>1 DEF OnceIn, Numbers
  <2>. QED BY <2>1, <2>2, <1>1
<1>9. \A k \in Numbers :
         WaitsIn(rpcRequest, msgs, k) => WaitsIn(rpcRequest, ms, k)
  BY <1>1 DEF WaitsIn
<1>. QED BY <1>5, <1>6, <1>7, <1>9 DEF ms

\* Only cached messages are evicted.
LEMMA EvictedCached == \A c, size, total : Evicted(c, size, total) \subseteq c
BY DEF Evicted, Oldest

\* sendTo preserves the invariant, for a call just registered and for a message
\* nobody waits for.
LEMMA SendToInv ==
    ASSUME IInv,
           NEW r \in Messages, r.time = outTime, r.sid \in Sids,
           NEW req, NEW buckets,
           \/ r.id = NoId /\ req = rpcRequest /\ buckets = rpcRequestBySeconds
           \/ /\ r.id \in 1..RpcIdMax /\ r.id \notin DOMAIN rpcRequest
              /\ req = RequestWith(r.id, Len(msgs) + 1)
              /\ buckets = BucketsWith(r.id),
           SendTo(r, req, buckets),
           phase \in {"idle", "cast"}, phase' \in {"idle", "cast"},
           rpcId' \in 1..RpcIdMax, cast' \subseteq Sids \X Sizes,
           UNCHANGED <<now, outTime, resend, pool, peerVars>>
    PROVE  IInv'
<1> DEFINE m == Len(msgs) + 1
           ms == Append(msgs, r)
           c == msgCacheList \cup {m}
           size == [k \in 1..m |-> ms[k].size]
           out == Evicted(c, size, nowCacheSize + r.size)
           calls == {k \in out : ms[k].id # NoId}
           ids == {ms[k].id : k \in calls}
<1>1. /\ m \in Nat /\ m \notin Numbers /\ Len(ms) = m
      /\ ms \in Seq(Messages) /\ ms[m] = r
      /\ \A k \in Numbers : ms[k] = msgs[k]
      /\ Numbers \subseteq 1..m /\ 1..m = Numbers \cup {m}
      /\ \A k \in 1..m : ms[k].time \in Int /\ ms[k].time <= outTime
      /\ \A k, n \in 1..m : k < n => ms[k].time <= ms[n].time
  BY NewMessage DEF IInv
<1>2. /\ Typed(req, buckets, ms, NewLog)
      /\ Exact(req, buckets, ms)
      /\ OnceIn(settled, rpcRequest, msgs) => OnceIn(NewLog, req, ms)
      /\ r.id # NoId => WaitsIn(req, ms, m)
      /\ \A k \in Numbers : WaitsIn(rpcRequest, msgs, k) => WaitsIn(req, ms, k)
  BY RegisterCall, RegisterNothing, IdAssumption DEF NoId
<1>6. msgs' = ms
  BY DEF SendTo
<1>3. /\ msgCacheList \subseteq Numbers /\ resend = {}
      /\ IdsDistinct' => \A k \in c : ms[k].id # NoId => WaitsIn(req, ms, k)
      /\ IdsDistinct' => OnceIn(NewLog, req, ms)
  <2>1. msgCacheList \subseteq Numbers /\ resend = {}
    BY DEF IInv, TypeOK, ResendInPhase
  <2>2. IdsDistinct' => IdsDistinct
    BY <1>6, NewMessage DEF IInv
  <2>3. IdsDistinct =>
          \A k \in msgCacheList : msgs[k].id # NoId => WaitsIn(rpcRequest, msgs, k)
    BY DEF IInv, CachedPending, WaitsIn, IsCall
  <2>4. IdsDistinct => OnceIn(settled, rpcRequest, msgs)
    BY InvParts DEF IInv
  <2>. QED BY <2>1, <2>2, <2>3, <2>4, <1>1, <1>2
<1>4. out \subseteq c /\ calls \in SUBSET (1..Len(ms))
  BY EvictedCached, <1>1, <1>3
<1>5. /\ Typed(rpcRequest', rpcRequestBySeconds', ms, settled')
      /\ Exact(rpcRequest', rpcRequestBySeconds', ms)
      /\ IdsDistinct' =>
            /\ OnceIn(settled', rpcRequest', ms)
            /\ \A k \in msgCacheList' : ms[k].id # NoId => WaitsIn(rpcRequest', ms, k)
      /\ msgCacheList' \subseteq c
  <2>1. CASE r.sid \in pool
    BY <2>1, <1>2, <1>3 DEF SendTo, NewLog, cacheVars
  <2>2. CASE r.sid \notin pool
    <3>1. /\ msgCacheList' = c \ out
          /\ rpcRequest' = RequestWithout(req, ids)
          /\ rpcRequestBySeconds' = BucketsWithout(req, buckets, ms, ids)
          /\ settled' = Settle(NewLog, calls, "timeout")
      BY <2>2 DEF SendTo, NewLog
    <3>2. /\ "timeout" \in Outcomes
          /\ IdsDistinct' => /\ \A k \in calls : WaitsIn(req, ms, k)
                             /\ ids \cap DOMAIN req = {ms[k].id : k \in calls}
      BY <1>3, <1>4 DEF Outcomes, WaitsIn
    <3> HIDE DEF m, ms, c, out, calls, ids
    <3>3. /\ Typed(rpcRequest', rpcRequestBySeconds', ms, settled')
          /\ Exact(rpcRequest', rpcRequestBySeconds', ms)
      BY <3>1, <3>2, <1>1, <1>2, DropExact
    <3>4. IdsDistinct' =>
            /\ OnceIn(settled', rpcRequest', ms)
            /\ \A k \in 1..Len(ms) \ calls :
                  WaitsIn(req, ms, k) => WaitsIn(rpcRequest', ms, k)
      BY <3>1, <3>2, <1>1, <1>2, <1>3, <1>4, DropCalls
    <3>5. \A k \in msgCacheList' : ms[k].id # NoId => k \in 1..Len(ms) \ calls
      BY <3>1, <1>1, <1>3 DEF c, calls
    <3>. QED BY <3>1, <3>3, <3>4, <3>5, <1>3
  <2>. QED BY <2>1, <2>2
<1>7. wire' \in [Sids -> Seq(1..m)]
  <2>1. wire \in [Sids -> Seq(1..m)]
    BY <1>1, SeqMonotonic DEF IInv, TypeOK
  <2>2. m \in 1..m
    BY <1>1
  <2>3. \/ wire' = wire
        \/ wire' = [wire EXCEPT ![r.sid] = Append(@, m)]
    BY DEF SendTo
  <2> HIDE DEF m
  <2>4. Append(wire[r.sid], m) \in Seq(1..m)
    BY <2>1, <2>2, AppendProperties
  <2>. QED BY <2>1, <2>3, <2>4
<1> HIDE DEF m, ms, c
<1>8. TypeOK'
  <2>1. Numbers' = 1..m
    BY <1>1, <1>6 DEF Numbers
  <2>2. /\ DOMAIN rpcRequest' \subseteq 1..RpcIdMax
        /\ \A id \in DOMAIN rpcRequest' : rpcRequest'[id] \in Numbers'
        /\ DOMAIN rpcRequestBySeconds' \subseteq Int
        /\ \A t \in DOMAIN rpcRequestBySeconds' :
              rpcRequestBySeconds'[t] \subseteq 1..RpcIdMax
        /\ settled' \in [Numbers' -> Seq(Outcomes)]
    BY <2>1, <1>1, <1>5 DEF Typed
  <2>3. msgCacheList' \subseteq Numbers' /\ resend' \subseteq Numbers'
    BY <2>1, <1>1, <1>3, <1>5 DEF c
  <2>4. handled' \subseteq Numbers' /\ serving' \subseteq Numbers'
          /\ replies' \subseteq Numbers' \X BOOLEAN
    BY <2>1, <1>1 DEF IInv, TypeOK, peerVars
  <2>5. msgs' \in Seq(Messages) /\ wire' \in [Sids -> Seq(Numbers')]
    BY <2>1, <1>1, <1>6, <1>7
  <2>6. now' \in Int /\ outTime' \in Int /\ phase' \in Phases /\ pool' \subseteq Sids
    BY DEF IInv, TypeOK, Phases
  <2>. QED BY <2>2, <2>3, <2>4, <2>5, <2>6 DEF TypeOK
<1>9. BucketsExact' /\ SettledOnce' /\ CachedPending'
  BY <1>3, <1>5, <1>6, <1>8, InvPartsNext
<1>10. DeadlinesOrdered' /\ TickFresh' /\ CacheChecked' /\ ResendInPhase'
  BY <1>1, <1>3, <1>6
     DEF IInv, DeadlinesOrdered, TickFresh, CacheChecked, ResendInPhase, Numbers
<1>. QED BY <1>8, <1>9, <1>10 DEF IInv

-----------------------------------------------------------------------------
(* One lemma per action, or per group of actions that leave the maps alone. *)

\* getRpcId stays in 1..RpcIdMax: the wrap goes to 1, never to 0.
LEMMA IdTyped == ASSUME rpcId \in 1..RpcIdMax, NEW k \in Nat
                 PROVE  IdAfter(k) \in 1..RpcIdMax
<1>1. RpcIdMax \in Nat /\ RpcIdMax > 0
  BY IdAssumption
<1>2. rpcId + k - 1 \in Nat
  OBVIOUS
<1>3. (rpcId + k - 1) % RpcIdMax \in 0..(RpcIdMax - 1)
  BY <1>1, <1>2
<1>. QED BY <1>1, <1>3 DEF IdAfter

\* sendAwait: the id is fresh, the call is registered, then sent or cached.
LEMMA SendAwaitInv ==
    ASSUME IInv, NEW sid \in Sids, NEW size \in Sizes, SendAwait(sid, size)
    PROVE  IInv'
<1>1. PICK k \in 1..FindMax :
        LET id == IdAfter(k)
            r  == [sid |-> sid, id |-> id, time |-> outTime, size |-> size]
        IN  /\ FreshId(k) /\ rpcId' = id
            /\ SendTo(r, RequestWith(id, Len(msgs) + 1), BucketsWith(id))
  BY DEF SendAwait
<1> DEFINE id == IdAfter(k)
           r  == [sid |-> sid, id |-> id, time |-> outTime, size |-> size]
<1>2. id \in 1..RpcIdMax
  BY IdTyped, IdAssumption DEF IInv, TypeOK
<1>3. id \notin DOMAIN rpcRequest
  BY <1>1 DEF FreshId
<1>4. /\ phase = "idle" /\ phase' = phase
      /\ UNCHANGED <<now, outTime, resend, cast, pool, peerVars>>
  BY DEF SendAwait, CanSend, loopVars
<1>5. cast' \subseteq Sids \X Sizes /\ outTime \in Int
  BY <1>4 DEF IInv, TypeOK
<1>6. SendTo(r, RequestWith(id, Len(msgs) + 1), BucketsWith(id)) /\ rpcId' = id
  BY <1>1
<1> HIDE DEF id
<1>7. r \in Messages
  BY <1>2, <1>5 DEF Messages
<1>. QED BY <1>2, <1>3, <1>4, <1>5, <1>6, <1>7, SendToInv

\* A notification or a reply.
LEMMA NoCallbackTyped ==
    ASSUME IInv, NEW sid \in Sids, NEW size \in Sizes
    PROVE  [sid |-> sid, id |-> NoId, time |-> outTime, size |-> size] \in Messages
BY IdAssumption DEF IInv, TypeOK, Messages, NoId

\* A notification or a reply registers nothing, but may evict older calls.
LEMMA SendNoCallbackInv ==
    ASSUME IInv, NEW sid \in Sids, NEW size \in Sizes, SendNoCallback(sid, size)
    PROVE  IInv'
<1> DEFINE r == [sid |-> sid, id |-> NoId, time |-> outTime, size |-> size]
<1>1. r \in Messages
  BY NoCallbackTyped
<1>2. /\ phase = "idle" /\ phase' = phase /\ rpcId' = rpcId
      /\ UNCHANGED <<now, outTime, resend, cast, pool, peerVars>>
      /\ SendTo(r, rpcRequest, rpcRequestBySeconds)
  BY DEF SendNoCallback, CanSend, loopVars
<1>3. cast' \subseteq Sids \X Sizes /\ rpcId' \in 1..RpcIdMax
  BY <1>2 DEF IInv, TypeOK
<1>. QED BY <1>1, <1>2, <1>3, SendToInv

\* Each sendTo of sendT is a send nobody waits for.
LEMMA SendTNextInv ==
    ASSUME IInv, SendTNext
    PROVE  IInv'
<1>1. PICK one \in cast :
        /\ SendTo([sid |-> one[1], id |-> NoId, time |-> outTime, size |-> one[2]],
                  rpcRequest, rpcRequestBySeconds)
        /\ cast' = cast \ {one}
        /\ phase' = IF cast = {one} THEN "idle" ELSE "cast"
  BY DEF SendTNext
<1>2. one[1] \in Sids /\ one[2] \in Sizes /\ cast' \subseteq Sids \X Sizes
  BY <1>1 DEF IInv, TypeOK
<1> DEFINE r == [sid |-> one[1], id |-> NoId, time |-> outTime, size |-> one[2]]
<1>3. r \in Messages
  BY <1>2, NoCallbackTyped
<1>4. /\ phase = "cast" /\ phase' \in {"idle", "cast"} /\ rpcId' = rpcId
      /\ UNCHANGED <<now, outTime, resend, pool, peerVars>>
  BY <1>1 DEF SendTNext
<1>5. rpcId' \in 1..RpcIdMax
  BY <1>4 DEF IInv, TypeOK
<1>. QED BY <1>1, <1>2, <1>3, <1>4, <1>5, SendToInv

\* A step that changes neither the messages, the maps, the cache nor outTime.
LEMMA MapsUnchanged ==
    ASSUME IInv, UNCHANGED <<msgs, callVars, cacheVars, outTime, resend>>
    PROVE  /\ DeadlinesOrdered' /\ BucketsExact' /\ CachedPending' /\ SettledOnce'
           /\ Numbers' = Numbers
           /\ outTime' \in Int /\ msgs' \in Seq(Messages)
           /\ DOMAIN rpcRequest' \subseteq 1..RpcIdMax
           /\ \A id \in DOMAIN rpcRequest' : rpcRequest'[id] \in Numbers'
           /\ DOMAIN rpcRequestBySeconds' \subseteq Int
           /\ \A t \in DOMAIN rpcRequestBySeconds' :
                 rpcRequestBySeconds'[t] \subseteq 1..RpcIdMax
           /\ msgCacheList' \subseteq Numbers' /\ resend' \subseteq Numbers'
           /\ settled' \in [Numbers' -> Seq(Outcomes)]
<1> USE DEF callVars, cacheVars
<1>1. Numbers' = Numbers /\ DeadlinesOrdered'
  BY DEF IInv, DeadlinesOrdered, Numbers
<1>2. BucketsExact'
  BY DEF IInv, BucketsExact, Bucket
<1>3. CachedPending' /\ SettledOnce'
  BY <1>1 DEF IInv, CachedPending, SettledOnce, IdsDistinct, IsCall, Pending
<1>. QED BY <1>1, <1>2, <1>3 DEF IInv, TypeOK

\* A send that throws takes an id and nothing else.
LEMMA IdOnlyInv ==
    ASSUME IInv, SendAwaitThrows \/ IdsExhausted
    PROVE  IInv'
<1>1. /\ UNCHANGED <<now, outTime, phase, msgs, callVars, cacheVars, resend, cast,
                     pool, wire, handled, serving, replies>>
  BY DEF SendAwaitThrows, IdsExhausted, loopVars, peerVars
<1>2. rpcId' \in 1..RpcIdMax
  <2>1. \E k \in Nat : rpcId' = IdAfter(k)
    BY IdAssumption DEF SendAwaitThrows, IdsExhausted
  <2>. QED BY <2>1, IdTyped DEF IInv, TypeOK
<1>3. TypeOK'
  BY <1>1, <1>2, MapsUnchanged DEF IInv, TypeOK
<1>4. TickFresh' /\ CacheChecked' /\ ResendInPhase'
  BY <1>1 DEF IInv, TickFresh, CacheChecked, ResendInPhase, CacheTime, cacheVars
<1>. QED BY <1>1, <1>3, <1>4, MapsUnchanged DEF IInv

\* sendT begins: nothing is sent yet.
LEMMA SendTInv ==
    ASSUME IInv, NEW S \in SUBSET Sids, NEW size \in Sizes, SendT(S, size)
    PROVE  IInv'
<1>1. /\ UNCHANGED <<now, outTime, rpcId, msgs, callVars, cacheVars, resend,
                     pool, wire, handled, serving, replies>>
      /\ phase = "idle" /\ phase' = "cast" /\ cast' = S \X {size}
  BY DEF SendT, CanSend, peerVars
<1>2. cast' \subseteq Sids \X Sizes
  BY <1>1
<1>3. TypeOK'
  BY <1>1, <1>2, MapsUnchanged DEF IInv, TypeOK, Phases
<1>4. TickFresh' /\ CacheChecked' /\ ResendInPhase'
  BY <1>1 DEF IInv, TickFresh, CacheChecked, ResendInPhase
<1>. QED BY <1>1, <1>3, <1>4, MapsUnchanged DEF IInv

\* The other servers, the connections going down, and the clock.
LEMMA EnvironmentInv ==
    ASSUME IInv,
           \/ \E m \in Numbers : SelfHandlerStarts(m)
           \/ \E sid \in Sids : PoolRemove(sid) \/ PeerReceives(sid)
           \/ \E m \in Numbers, err \in BOOLEAN : PeerAnswers(m, err)
           \/ Clock
    PROVE  IInv'
<1>1. /\ UNCHANGED <<outTime, phase, rpcId, msgs, callVars, cacheVars, resend, cast>>
      /\ now \in Int /\ phase \in Phases /\ rpcId \in 1..RpcIdMax
      /\ cast \subseteq Sids \X Sizes
  BY DEF IInv, TypeOK, SelfHandlerStarts, PoolRemove, PeerReceives, PeerAnswers,
         Clock, loopVars
<1>2. now' \in Int /\ TickFresh'
  <2>1. CASE Clock
    BY <2>1, RpcTimeMaxAssumption, LagAssumption DEF IInv, TypeOK, TickFresh, Clock
  <2>2. CASE ~Clock
    BY <2>2, <1>1
       DEF IInv, TickFresh, SelfHandlerStarts, PoolRemove, PeerReceives, PeerAnswers
  <2>. QED BY <2>1, <2>2
<1>3. CacheChecked' /\ ResendInPhase'
  BY <1>1 DEF IInv, CacheChecked, ResendInPhase, CacheTime, cacheVars
<1>4. /\ pool' \subseteq Sids /\ wire' \in [Sids -> Seq(Numbers)]
      /\ handled' \subseteq Numbers /\ serving' \subseteq Numbers
      /\ replies' \subseteq Numbers \X BOOLEAN
  <2> USE DEF IInv, TypeOK, peerVars
  <2>1. CASE \E m \in Numbers : SelfHandlerStarts(m)
    BY <2>1 DEF SelfHandlerStarts
  <2>2. ASSUME NEW sid \in Sids, PoolRemove(sid)
        PROVE  <1>4
    <3>1. PICK n \in 0..Len(wire[sid]) :
             wire' = [wire EXCEPT ![sid] = SubSeq(@, 1, n)]
      BY <2>2 DEF PoolRemove
    <3>2. SubSeq(wire[sid], 1, n) \in Seq(Numbers)
      BY <3>1, SubSeqProperties
    <3>. QED BY <2>2, <3>1, <3>2 DEF PoolRemove
  <2>3. ASSUME NEW sid \in Sids, PeerReceives(sid)
        PROVE  <1>4
    <3>1. Head(wire[sid]) \in Numbers /\ Tail(wire[sid]) \in Seq(Numbers)
      BY <2>3, HeadTailProperties DEF PeerReceives
    <3>. QED BY <2>3, <3>1 DEF PeerReceives
  <2>4. CASE \E m \in Numbers, err \in BOOLEAN : PeerAnswers(m, err)
    BY <2>4 DEF PeerAnswers
  <2>5. CASE Clock
    BY <2>5 DEF Clock
  <2>. QED BY <2>1, <2>2, <2>3, <2>4, <2>5
<1>5. TypeOK'
  BY <1>1, <1>2, <1>4, MapsUnchanged DEF TypeOK
<1>. QED BY <1>1, <1>2, <1>3, <1>5, MapsUnchanged DEF IInv

\* A call to this server itself is registered and never cached.
LEMMA SendToSelfInv ==
    ASSUME IInv, NEW size \in Sizes, SendToSelf(size)
    PROVE  IInv'
<1>1. PICK k \in 1..FindMax :
        LET id == IdAfter(k)
            m  == Len(msgs) + 1
        IN  /\ FreshId(k)
            /\ rpcId' = id
            /\ msgs' = Append(msgs, [sid |-> Self, id |-> id, time |-> outTime,
                                     size |-> size])
            /\ settled' = [n \in 1..m |-> IF n = m THEN <<>> ELSE settled[n]]
            /\ rpcRequest' = RequestWith(id, m)
            /\ rpcRequestBySeconds' = BucketsWith(id)
  BY DEF SendToSelf
<1> DEFINE id == IdAfter(k)
           m  == Len(msgs) + 1
           r  == [sid |-> Self, id |-> id, time |-> outTime, size |-> size]
           ms == Append(msgs, r)
<1>2. id \in 1..RpcIdMax /\ id \notin DOMAIN rpcRequest
  BY <1>1, IdTyped, IdAssumption DEF IInv, TypeOK, FreshId
<1>3. /\ phase = "idle" /\ phase' = phase /\ rpcId' = id
      /\ UNCHANGED <<now, outTime, cacheVars, resend, cast, pool, wire, handled,
                     serving, replies>>
      /\ msgs' = ms /\ settled' = NewLog
      /\ rpcRequest' = RequestWith(id, m) /\ rpcRequestBySeconds' = BucketsWith(id)
  BY <1>1 DEF SendToSelf, CanSend, loopVars, peerVars, NewLog
<1> HIDE DEF id
<1>4. r \in Messages /\ r.time = outTime
  BY <1>2 DEF IInv, TypeOK, Messages
<1> HIDE DEF r
<1>5. /\ m \in Nat /\ Len(ms) = m /\ ms \in Seq(Messages)
      /\ \A n \in Numbers : ms[n] = msgs[n]
      /\ Numbers \subseteq 1..m
      /\ \A n \in 1..m : ms[n].time \in Int /\ ms[n].time <= outTime
      /\ \A n, l \in 1..m : n < l => ms[n].time <= ms[l].time
  BY <1>4, NewMessage DEF IInv
<1>6. /\ Typed(rpcRequest', rpcRequestBySeconds', ms, settled')
      /\ Exact(rpcRequest', rpcRequestBySeconds', ms)
      /\ OnceIn(settled, rpcRequest, msgs) => OnceIn(settled', rpcRequest', ms)
      /\ \A n \in Numbers :
            WaitsIn(rpcRequest, msgs, n) => WaitsIn(rpcRequest', ms, n)
      /\ IdsDistinct' => IdsDistinct
  BY <1>2, <1>3, <1>4, RegisterCall, NewMessage DEF r, IInv
<1> HIDE DEF m, ms
<1>7. Numbers' = 1..m
  BY <1>3, <1>5 DEF Numbers
<1>8. TypeOK'
  <2>1. /\ DOMAIN rpcRequest' \subseteq 1..RpcIdMax
        /\ \A i \in DOMAIN rpcRequest' : rpcRequest'[i] \in Numbers'
        /\ DOMAIN rpcRequestBySeconds' \subseteq Int
        /\ \A t \in DOMAIN rpcRequestBySeconds' :
              rpcRequestBySeconds'[t] \subseteq 1..RpcIdMax
        /\ settled' \in [Numbers' -> Seq(Outcomes)]
    BY <1>5, <1>6, <1>7 DEF Typed
  <2>2. wire' \in [Sids -> Seq(Numbers')]
    BY <1>3, <1>5, <1>7, SeqMonotonic DEF IInv, TypeOK
  <2>3. /\ msgCacheList' \subseteq Numbers' /\ resend' \subseteq Numbers'
        /\ handled' \subseteq Numbers' /\ serving' \subseteq Numbers'
        /\ replies' \subseteq Numbers' \X BOOLEAN
    BY <1>3, <1>5, <1>7 DEF IInv, TypeOK, cacheVars
  <2>. QED BY <2>1, <2>2, <2>3, <1>2, <1>3, <1>5 DEF IInv, TypeOK
<1>9. BucketsExact' /\ SettledOnce' /\ CachedPending'
  <2>1. IdsDistinct' =>
          \A n \in msgCacheList' \cup resend' :
            msgs'[n].id # NoId => WaitsIn(rpcRequest', msgs', n)
    BY <1>3, <1>5, <1>6
       DEF IInv, TypeOK, CachedPending, WaitsIn, IsCall, cacheVars
  <2>2. IdsDistinct' => OnceIn(settled', rpcRequest', msgs')
    BY <1>3, <1>6, InvParts DEF IInv
  <2>. QED BY <2>1, <2>2, <1>3, <1>6, <1>8, InvPartsNext
<1>10. DeadlinesOrdered' /\ TickFresh' /\ CacheChecked' /\ ResendInPhase'
  BY <1>3, <1>5, <1>7
     DEF IInv, DeadlinesOrdered, TickFresh, CacheChecked, ResendInPhase
<1>. QED BY <1>8, <1>9, <1>10 DEF IInv

\* A step that gives up or answers a set S of calls, deleting ids from the maps;
\* when no id was used twice, these are waiting calls and their ids, and none of
\* them stays in the cache.
LEMMA SettleInv ==
    ASSUME IInv,
           NEW S \in SUBSET Numbers, NEW ids, NEW o \in Outcomes,
           IdsDistinct =>
              /\ \A m \in S : WaitsIn(rpcRequest, msgs, m)
              /\ ids \cap DOMAIN rpcRequest = {msgs[m].id : m \in S}
              /\ \A m \in msgCacheList' \cup resend' :
                    msgs[m].id # NoId => m \notin S,
           rpcRequest' = RequestWithout(rpcRequest, ids),
           rpcRequestBySeconds' =
              BucketsWithout(rpcRequest, rpcRequestBySeconds, msgs, ids),
           settled' = Settle(settled, S, o),
           msgCacheList' \subseteq msgCacheList,
           UNCHANGED <<now, outTime, rpcId, msgs, resend, cast, pool, wire, handled>>,
           serving' \subseteq serving, replies' \subseteq replies,
           phase' \in Phases
    PROVE  /\ TypeOK' /\ DeadlinesOrdered'
           /\ BucketsExact' /\ CachedPending' /\ SettledOnce'
<1>1. /\ Typed(rpcRequest, rpcRequestBySeconds, msgs, settled)
      /\ Exact(rpcRequest, rpcRequestBySeconds, msgs)
      /\ IdsDistinct => OnceIn(settled, rpcRequest, msgs)
      /\ msgs \in Seq(Messages)
      /\ Numbers = 1..Len(msgs) /\ Numbers' = Numbers
      /\ IdsDistinct' => IdsDistinct
  BY InvParts DEF IInv, TypeOK, Numbers, IdsDistinct, IsCall
<1>2. /\ Typed(rpcRequest', rpcRequestBySeconds', msgs, settled')
      /\ Exact(rpcRequest', rpcRequestBySeconds', msgs)
  BY <1>1, DropExact
<1>3. TypeOK'
  <2>1. /\ DOMAIN rpcRequest' \subseteq 1..RpcIdMax
        /\ \A i \in DOMAIN rpcRequest' : rpcRequest'[i] \in Numbers'
        /\ DOMAIN rpcRequestBySeconds' \subseteq Int
        /\ \A t \in DOMAIN rpcRequestBySeconds' :
              rpcRequestBySeconds'[t] \subseteq 1..RpcIdMax
        /\ settled' \in [Numbers' -> Seq(Outcomes)]
    BY <1>1, <1>2 DEF Typed
  <2>. QED BY <2>1, <1>1 DEF IInv, TypeOK
<1>4. ASSUME IdsDistinct
      PROVE  /\ OnceIn(settled', rpcRequest', msgs)
             /\ \A m \in Numbers \ S :
                   WaitsIn(rpcRequest, msgs, m) => WaitsIn(rpcRequest', msgs, m)
  BY <1>4, <1>1, DropCalls
<1>5. IdsDistinct =>
        \A m \in msgCacheList' \cup resend' :
            msgs'[m].id # NoId => WaitsIn(rpcRequest', msgs', m)
  BY <1>4 DEF IInv, TypeOK, CachedPending, WaitsIn, IsCall
<1>6. BucketsExact' /\ SettledOnce' /\ CachedPending'
  BY <1>1, <1>2, <1>3, <1>4, <1>5, InvPartsNext
<1>7. DeadlinesOrdered'
  BY <1>1 DEF IInv, DeadlinesOrdered
<1>. QED BY <1>1, <1>3, <1>6, <1>7

-----------------------------------------------------------------------------
(* Answers, timer and resending.                                           *)

\* An answer is to a message that was handled, so one that is not cached.
LEMMA AnswerInv ==
    ASSUME IInv, OrderInv, phase = "idle",
           NEW m \in handled, NEW err \in BOOLEAN, m \in Numbers,
           Answer(m, err),
           UNCHANGED <<now, outTime, phase, rpcId, msgs, msgCacheList, resend, cast,
                       pool, wire, handled>>,
           serving' \subseteq serving, replies' \subseteq replies
    PROVE  IInv'
<1> DEFINE ids == {msgs[m].id} \cap DOMAIN rpcRequest
           S == {rpcRequest[i] : i \in ids}
           o == IF err THEN "error" ELSE "resolved"
<1>1. /\ rpcRequest' = RequestWithout(rpcRequest, {msgs[m].id})
      /\ rpcRequestBySeconds' =
            BucketsWithout(rpcRequest, rpcRequestBySeconds, msgs, {msgs[m].id})
      /\ settled' = Settle(settled, S, o)
  BY DEF Answer
<1>2. S \in SUBSET Numbers /\ o \in Outcomes
  BY DEF IInv, TypeOK, Outcomes
<1>3. ASSUME NEW i \in ids
      PROVE  msgs[rpcRequest[i]].id = i /\ IsCall(rpcRequest[i])
  BY DEF IInv, TypeOK, BucketsExact, IsCall, NoId
<1>4. \A k \in S : WaitsIn(rpcRequest, msgs, k)
  BY <1>3 DEF WaitsIn
<1>5. {msgs[m].id} \cap DOMAIN rpcRequest = {msgs[k].id : k \in S}
  BY <1>3
<1>6. IdsDistinct => S \subseteq {m}
  BY <1>2, <1>3 DEF IdsDistinct
<1>7. m \notin msgCacheList' \cup resend'
  <2>1. resend' = {}
    BY DEF IInv, ResendInPhase
  <2>2. ASSUME m \in msgCacheList PROVE FALSE
    <3>1. msgs[m].sid \in Sids
      BY <2>2 DEF OrderInv, Placement
    <3>2. m < m
      BY <2>2, <3>1 DEF OrderInv, InOrderOnce
    <3>. QED BY <3>2 DEF Numbers
  <2>. QED BY <2>1, <2>2
<1> HIDE DEF S, ids, o
<1>8. /\ TypeOK' /\ DeadlinesOrdered'
      /\ BucketsExact' /\ CachedPending' /\ SettledOnce'
  <2>1. phase' \in Phases
    BY DEF IInv, TypeOK
  <2>2. IdsDistinct => \A k \in msgCacheList' \cup resend' : msgs[k].id # NoId => k \notin S
    BY <1>6, <1>7
  <2>. QED BY <1>1, <1>2, <1>4, <1>5, <2>1, <2>2, SettleInv
<1>9. TickFresh' /\ CacheChecked' /\ ResendInPhase'
  BY DEF IInv, TickFresh, CacheChecked, ResendInPhase
<1>. QED BY <1>8, <1>9 DEF IInv

\* Answers of other servers and of this server's own handlers.
LEMMA SettlingInv ==
    ASSUME IInv, OrderInv, NEW m \in Numbers, NEW err \in BOOLEAN,
           ReceiveReply(m, err) \/ SelfHandlerDone(m, err)
    PROVE  IInv'
<1>1. phase = "idle" /\ Answer(m, err)
  BY DEF ReceiveReply, SelfHandlerDone
<1>2. m \in handled
  BY DEF ReceiveReply, SelfHandlerDone, OrderInv, Placement
<1>3. /\ UNCHANGED <<now, outTime, phase, rpcId, msgs, msgCacheList, resend, cast,
                     pool, wire, handled>>
      /\ serving' \subseteq serving /\ replies' \subseteq replies
  BY DEF ReceiveReply, SelfHandlerDone, cacheVars, loopVars
<1>. QED BY <1>1, <1>2, <1>3, AnswerInv

\* A tick refreshes outTime, which never moves back while the clock does not.
LEMMA TickInv ==
    ASSUME IInv, Tick
    PROVE  IInv'
<1>1. /\ UNCHANGED <<now, rpcId, msgs, callVars, cacheVars, resend, cast, pool,
                     wire, handled, serving, replies>>
      /\ phase = "idle" /\ phase' = "checkCache" /\ outTime' = now + RpcTimeMax
  BY DEF Tick, loopVars, peerVars
<1>2. Numbers' = Numbers /\ outTime' \in Int /\ outTime <= outTime'
  BY <1>1, RpcTimeMaxAssumption DEF IInv, TypeOK, TickFresh, Numbers
<1>3. TypeOK'
  BY <1>1, <1>2 DEF IInv, TypeOK, Phases, callVars, cacheVars
<1>4. DeadlinesOrdered'
  <2>1. \A m \in Numbers : msgs[m].time \in Int
    BY MessageTyped DEF IInv
  <2>. QED BY <1>1, <1>2, <2>1 DEF IInv, TypeOK, DeadlinesOrdered
<1>5. TickFresh' /\ CacheChecked' /\ ResendInPhase'
  BY <1>1, RpcTimeMaxAssumption, LagAssumption
     DEF IInv, TypeOK, TickFresh, CacheChecked, ResendInPhase
<1>6. BucketsExact'
  BY <1>1 DEF IInv, BucketsExact, Bucket, callVars
<1>7. CachedPending' /\ SettledOnce'
  BY <1>1, <1>2 DEF IInv, CachedPending, SettledOnce, IdsDistinct, IsCall, Pending,
                    callVars, cacheVars
<1>. QED BY <1>3, <1>4, <1>5, <1>6, <1>7 DEF IInv

\* The cache check gives up the expired head, and leaves nothing that had
\* expired when the tick began.
LEMMA CheckMsgCacheTimeoutInv ==
    ASSUME IInv, CheckMsgCacheTimeout
    PROVE  IInv'
<1> DEFINE S == {m \in ExpiredHead : IsCall(m)}
           ids == {msgs[m].id : m \in S}
<1>1. /\ phase = "checkCache" /\ phase' = "checkRpc"
      /\ msgCacheList' = msgCacheList \ ExpiredHead
      /\ rpcRequest' = RequestWithout(rpcRequest, ids)
      /\ rpcRequestBySeconds' =
            BucketsWithout(rpcRequest, rpcRequestBySeconds, msgs, ids)
      /\ settled' = Settle(settled, S, "timeout")
      /\ UNCHANGED <<now, outTime, rpcId, msgs, resend, cast, pool, wire, handled>>
      /\ UNCHANGED <<serving, replies>>
  BY DEF CheckMsgCacheTimeout, loopVars, peerVars
<1>2. ExpiredHead \subseteq msgCacheList /\ msgCacheList \subseteq Numbers /\ resend = {}
  BY <1>1 DEF ExpiredHead, IInv, TypeOK, ResendInPhase
<1>3. IdsDistinct =>
         /\ \A m \in S : WaitsIn(rpcRequest, msgs, m)
         /\ ids \cap DOMAIN rpcRequest = {msgs[m].id : m \in S}
         /\ \A m \in msgCacheList' \cup resend' : msgs[m].id # NoId => m \notin S
  <2> SUFFICES ASSUME IdsDistinct
               PROVE  /\ \A m \in S : WaitsIn(rpcRequest, msgs, m)
                      /\ ids \cap DOMAIN rpcRequest = {msgs[m].id : m \in S}
                      /\ \A m \in msgCacheList' \cup resend' :
                            msgs[m].id # NoId => m \notin S
    OBVIOUS
  <2>1. \A m \in S : WaitsIn(rpcRequest, msgs, m)
    BY <1>2 DEF IInv, CachedPending, WaitsIn
  <2>2. ids \subseteq DOMAIN rpcRequest
    BY <2>1 DEF WaitsIn
  <2>. QED BY <2>1, <2>2, <1>1, <1>2
<1>4. S \in SUBSET Numbers /\ "timeout" \in Outcomes /\ phase' \in Phases
  BY <1>1, <1>2 DEF Outcomes, Phases
<1>5. CacheChecked'
  <2> SUFFICES ASSUME NEW m \in msgCacheList'
               PROVE  msgs[m].time - CacheMargin > outTime - RpcTimeMax
    BY <1>1 DEF CacheChecked, CacheTime
  <2>1. m \in msgCacheList /\ m \notin ExpiredHead
    BY <1>1
  <2>2. PICK k \in msgCacheList : k <= m /\ ~(now >= msgs[k].time - CacheMargin)
    BY <2>1 DEF ExpiredHead, CacheTime
  <2>3. msgs[k].time \in Int /\ msgs[m].time \in Int
    BY <1>2, <2>1, MessageTyped DEF IInv
  <2>4. msgs[k].time <= msgs[m].time
    BY <1>2, <2>1, <2>2, <2>3 DEF IInv, DeadlinesOrdered, Numbers
  <2>. QED BY <2>2, <2>3, <2>4, RpcTimeMaxAssumption
           DEF IInv, TypeOK, TickFresh, CacheMargin
<1> HIDE DEF S, ids
<1>6. /\ TypeOK' /\ DeadlinesOrdered'
      /\ BucketsExact' /\ CachedPending' /\ SettledOnce'
  BY <1>1, <1>3, <1>4, SettleInv
<1>7. TickFresh' /\ ResendInPhase'
  BY <1>1, <1>2 DEF IInv, TickFresh, ResendInPhase
<1>. QED BY <1>5, <1>6, <1>7 DEF IInv

\* The cache was checked before: no call in it is due.
LEMMA CheckRpcTimeoutInv ==
    ASSUME IInv, CheckRpcTimeout
    PROVE  IInv'
<1> DEFINE due == {t \in DOMAIN rpcRequestBySeconds : now >= t}
           ids == (UNION {rpcRequestBySeconds[t] : t \in due}) \cap DOMAIN rpcRequest
           S == {rpcRequest[i] : i \in ids}
<1>1. /\ phase = "checkRpc" /\ phase' = "idle"
      /\ rpcRequest' = RequestWithout(rpcRequest, ids)
      /\ rpcRequestBySeconds' =
            [t \in DOMAIN rpcRequestBySeconds \ due |-> rpcRequestBySeconds[t]]
      /\ settled' = Settle(settled, S, "timeout")
      /\ UNCHANGED <<now, outTime, rpcId, msgs, msgCacheList, resend, cast, pool,
                     wire, handled, serving, replies>>
  BY DEF CheckRpcTimeout, cacheVars, loopVars, peerVars
<1>2. /\ Typed(rpcRequest, rpcRequestBySeconds, msgs, settled)
      /\ Exact(rpcRequest, rpcRequestBySeconds, msgs)
      /\ IdsDistinct => OnceIn(settled, rpcRequest, msgs)
      /\ msgs \in Seq(Messages) /\ resend = {}
      /\ Numbers = 1..Len(msgs) /\ Numbers' = Numbers
      /\ IdsDistinct' => IdsDistinct
  BY <1>1, InvParts DEF IInv, TypeOK, ResendInPhase, Numbers, IdsDistinct, IsCall
<1>3. \A i \in DOMAIN rpcRequest :
         i \in ids <=> now >= msgs[rpcRequest[i]].time
  BY <1>2 DEF Exact
<1>4. /\ DOMAIN rpcRequest' = DOMAIN rpcRequest \ ids
      /\ \A i \in DOMAIN rpcRequest' : rpcRequest'[i] = rpcRequest[i]
      /\ DOMAIN rpcRequestBySeconds' = DOMAIN rpcRequestBySeconds \ due
      /\ \A t \in DOMAIN rpcRequestBySeconds' :
            rpcRequestBySeconds'[t] = rpcRequestBySeconds[t]
  BY <1>1 DEF RequestWithout
<1>5. Exact(rpcRequest', rpcRequestBySeconds', msgs)
  <2>1. ASSUME NEW i \in DOMAIN rpcRequest'
        PROVE  /\ msgs[rpcRequest'[i]].id = i
               /\ msgs[rpcRequest'[i]].time \in DOMAIN rpcRequestBySeconds'
               /\ i \in rpcRequestBySeconds'[msgs[rpcRequest'[i]].time]
    <3>1. /\ msgs[rpcRequest[i]].id = i
          /\ msgs[rpcRequest[i]].time \in DOMAIN rpcRequestBySeconds
          /\ i \in rpcRequestBySeconds[msgs[rpcRequest[i]].time]
      BY <2>1, <1>2, <1>4 DEF Exact
    <3>2. msgs[rpcRequest[i]].time \notin due
      BY <2>1, <1>3, <1>4
    <3>. QED BY <3>1, <3>2, <2>1, <1>4
  <2>2. ASSUME NEW t \in DOMAIN rpcRequestBySeconds', NEW i \in rpcRequestBySeconds'[t]
        PROVE  i \in DOMAIN rpcRequest' /\ msgs[rpcRequest'[i]].time = t
    <3>1. i \in DOMAIN rpcRequest /\ msgs[rpcRequest[i]].time = t /\ t \notin due
      BY <2>2, <1>2, <1>4 DEF Exact
    <3>. QED BY <3>1, <2>2, <1>3, <1>4
  <2>. QED BY <2>1, <2>2 DEF Exact
<1>6. \A m \in msgCacheList : IsCall(m) => ~(now >= msgs[m].time)
  <2> SUFFICES ASSUME NEW m \in msgCacheList
               PROVE  ~(now >= msgs[m].time)
    OBVIOUS
  <2>1. msgs[m].time \in Int /\ msgs[m].time - 3 > outTime - RpcTimeMax
    BY <1>1, MessageTyped DEF IInv, TypeOK, CacheChecked, CacheTime, CacheMargin
  <2>2. now <= outTime - RpcTimeMax + TickSpan
    BY <1>1 DEF IInv, TickFresh
  <2>. QED BY <2>1, <2>2, LagAssumption, RpcTimeMaxAssumption DEF IInv, TypeOK
<1>7. S \in SUBSET Numbers
  BY <1>2 DEF Typed
<1> HIDE DEF S, ids, due
<1>8. ASSUME IdsDistinct
      PROVE  /\ OnceIn(settled', rpcRequest', msgs)
             /\ \A m \in Numbers \ S :
                   WaitsIn(rpcRequest, msgs, m) => WaitsIn(rpcRequest', msgs, m)
  <2>1. \A m \in S : WaitsIn(rpcRequest, msgs, m)
    BY <1>2 DEF S, ids, Exact, WaitsIn
  <2>2. ids \cap DOMAIN rpcRequest = {msgs[m].id : m \in S}
    BY <1>2 DEF S, ids, Exact
  <2>. QED BY <1>8, <2>1, <2>2, <1>1, <1>2, <1>7, DropCalls DEF Outcomes
<1>9. IdsDistinct' => \A m \in msgCacheList' \cup resend' :
          msgs'[m].id # NoId => WaitsIn(rpcRequest', msgs', m)
  <2> SUFFICES ASSUME IdsDistinct, NEW m \in msgCacheList, IsCall(m)
               PROVE  WaitsIn(rpcRequest', msgs, m)
    BY <1>1, <1>2 DEF IsCall
  <2>1. m \in Numbers /\ WaitsIn(rpcRequest, msgs, m)
    BY DEF IInv, TypeOK, CachedPending, WaitsIn
  <2>2. m \notin S
    BY <1>3, <1>6 DEF S, ids
  <2>. QED BY <2>1, <2>2, <1>8
<1>10. TypeOK'
  <2>1. /\ DOMAIN rpcRequest' \subseteq 1..RpcIdMax
        /\ \A i \in DOMAIN rpcRequest' : rpcRequest'[i] \in Numbers'
        /\ DOMAIN rpcRequestBySeconds' \subseteq Int
        /\ \A t \in DOMAIN rpcRequestBySeconds' :
              rpcRequestBySeconds'[t] \subseteq 1..RpcIdMax
    BY <1>2, <1>4 DEF Typed
  <2>2. settled' \in [Numbers' -> Seq(Outcomes)]
    BY <1>1, <1>2 DEF Settle, Typed, Outcomes
  <2>. QED BY <2>1, <2>2, <1>1, <1>2 DEF IInv, TypeOK, Phases
<1>11. BucketsExact' /\ SettledOnce' /\ CachedPending'
  BY <1>1, <1>2, <1>5, <1>8, <1>9, <1>10, InvPartsNext
<1>12. DeadlinesOrdered' /\ TickFresh' /\ CacheChecked' /\ ResendInPhase'
  BY <1>1, <1>2 DEF IInv, DeadlinesOrdered, TickFresh, CacheChecked, ResendInPhase
<1>. QED BY <1>10, <1>11, <1>12 DEF IInv

\* Moving messages from the cache to sendList, and from there to the wire.
LEMMA ResendInv ==
    ASSUME IInv, (\E sid \in Sids : PoolAdd(sid)) \/ ResendNext
    PROVE  IInv'
<1>1. /\ UNCHANGED <<now, outTime, rpcId, msgs, callVars, cast, handled, serving,
                     replies>>
      /\ phase \in {"idle", "resend"} /\ phase' \in {"idle", "resend"}
      /\ msgCacheList' \cup resend' \subseteq msgCacheList \cup resend
      /\ Numbers' = Numbers
  BY DEF PoolAdd, ResendNext, peerVars, cacheVars, Numbers, IInv, ResendInPhase
<1>2. ResendInPhase'
  BY DEF PoolAdd, ResendNext, IInv, ResendInPhase
<1>3. pool' \subseteq Sids
  BY DEF PoolAdd, ResendNext, IInv, TypeOK
<1>4. wire' \in [Sids -> Seq(Numbers)]
  <2>1. CASE \E sid \in Sids : PoolAdd(sid)
    BY <2>1 DEF PoolAdd, IInv, TypeOK
  <2>2. CASE ResendNext
    <3>1. PICK m \in resend : wire' = [wire EXCEPT ![msgs[m].sid] = Append(@, m)]
      BY <2>2 DEF ResendNext
    <3>2. m \in Numbers
      BY <3>1 DEF IInv, TypeOK
    <3>3. \A w \in Seq(Numbers) : Append(w, m) \in Seq(Numbers)
      BY <3>2, AppendProperties
    <3>. QED BY <3>1, <3>3 DEF IInv, TypeOK
  <2>. QED BY <2>1, <2>2
<1>5. TypeOK'
  BY <1>1, <1>3, <1>4 DEF IInv, TypeOK, Phases, callVars
<1>6. BucketsExact' /\ CachedPending' /\ SettledOnce'
  BY <1>1 DEF IInv, BucketsExact, CachedPending, SettledOnce, IdsDistinct, IsCall,
              Pending, Bucket, callVars
<1>7. DeadlinesOrdered' /\ TickFresh' /\ CacheChecked'
  BY <1>1 DEF IInv, DeadlinesOrdered, TickFresh, CacheChecked
<1>. QED BY <1>2, <1>5, <1>6, <1>7 DEF IInv

-----------------------------------------------------------------------------
(* Order: where messages are, and that they are handled in order, once.    *)

\* Nothing is cached, sent or handled at the start.
LEMMA InitOrder == Init => OrderInv
<1> SUFFICES ASSUME Init PROVE OrderInv
  OBVIOUS
<1>. QED BY DEF Init, OrderInv, Placement, CachedOnlyWithoutSocket, InOrderOnce

\* Steps that move no message, or only give up cached ones.
LEMMA OrderUnchanged ==
    ASSUME OrderInv,
           UNCHANGED <<msgs, resend, pool, wire, handled>>,
           msgCacheList' \subseteq msgCacheList,
           serving' \subseteq handled,
           \A answer \in replies' : answer[1] \in handled
    PROVE  OrderInv'
<1>1. Placement' /\ CachedOnlyWithoutSocket'
  BY DEF OrderInv, Placement, CachedOnlyWithoutSocket
<1>2. InOrderOnce'
  BY DEF OrderInv, InOrderOnce
<1>. QED BY <1>1, <1>2 DEF OrderInv

\* sendTo appends the newest message to its wire or to the cache.
LEMMA SendToOrder ==
    ASSUME IInv, OrderInv,
           NEW r \in Messages, r.sid \in Sids, r.time = outTime, NEW req, NEW buckets,
           SendTo(r, req, buckets), resend = {},
           UNCHANGED <<resend, pool, handled, serving, replies>>
    PROVE  OrderInv'
<1> DEFINE m == Len(msgs) + 1
           ms == Append(msgs, r)
<1>1. /\ m \in Nat /\ m \notin Numbers /\ ms[m] = r
      /\ \A k \in Numbers : k \in Nat /\ k < m /\ ms[k] = msgs[k]
      /\ msgs' = ms
  BY NewMessage DEF IInv, SendTo, Numbers
<1>2. /\ msgCacheList \subseteq Numbers /\ handled \subseteq Numbers
      /\ serving \subseteq Numbers
      /\ \A sid \in Sids : wire[sid] \in Seq(Numbers)
      /\ wire \in [Sids -> Seq(Numbers)]
  BY DEF IInv, TypeOK
<1>3. \A sid \in Sids : \A i \in DOMAIN wire[sid] : wire[sid][i] \in Numbers
  BY <1>2
<1>4. CASE r.sid \in pool
  <2>1. /\ wire' = [wire EXCEPT ![r.sid] = Append(@, m)]
        /\ msgCacheList' = msgCacheList
    BY <1>4 DEF SendTo, cacheVars
  <2> HIDE DEF m, ms
  <2>2. /\ \A sid \in Sids : sid # r.sid => wire'[sid] = wire[sid]
        /\ Len(wire[r.sid]) \in Nat
        /\ DOMAIN wire[r.sid] = 1..Len(wire[r.sid])
        /\ DOMAIN wire'[r.sid] = 1..(Len(wire[r.sid]) + 1)
        /\ \A i \in DOMAIN wire[r.sid] : wire'[r.sid][i] = wire[r.sid][i]
        /\ wire'[r.sid][Len(wire[r.sid]) + 1] = m
    BY <1>2, <2>1
  <2>3. Placement'
    <3>1. ASSUME NEW sid \in Sids, NEW i \in DOMAIN wire'[sid]
          PROVE  msgs'[wire'[sid][i]].sid = sid
      <4>1. CASE sid = r.sid /\ i = Len(wire[r.sid]) + 1
        BY <4>1, <2>2, <1>1
      <4>2. CASE ~(sid = r.sid /\ i = Len(wire[r.sid]) + 1)
        <5>1. i \in DOMAIN wire[sid] /\ wire'[sid][i] = wire[sid][i]
          BY <4>2, <2>2, <3>1
        <5>. QED BY <5>1, <1>1, <1>3 DEF OrderInv, Placement
      <4>. QED BY <4>1, <4>2
    <3>. QED BY <3>1, <2>1, <1>1, <1>2 DEF OrderInv, Placement
  <2>4. CachedOnlyWithoutSocket'
    BY <2>1, <1>1, <1>2 DEF OrderInv, CachedOnlyWithoutSocket
  <2>5. ASSUME NEW sid \in Sids
        PROVE  /\ \A i, j \in DOMAIN wire'[sid] : i < j => wire'[sid][i] < wire'[sid][j]
               /\ \A i \in DOMAIN wire'[sid], k \in handled' :
                     msgs'[k].sid = sid => k < wire'[sid][i]
               /\ \A k \in msgCacheList' \cup resend' : msgs'[k].sid = sid =>
                     /\ \A i \in DOMAIN wire'[sid] : wire'[sid][i] < k
                     /\ \A l \in handled' : msgs'[l].sid = sid => l < k
    <3>1. CASE sid # r.sid
      <4>1. \A k \in handled \cup msgCacheList : msgs'[k] = msgs[k]
        BY <1>1, <1>2
      <4>2. wire'[sid] = wire[sid]
        BY <3>1, <2>2
      <4>3. /\ \A i, j \in DOMAIN wire[sid] : i < j => wire[sid][i] < wire[sid][j]
            /\ \A i \in DOMAIN wire[sid], k \in handled :
                  msgs'[k].sid = sid => k < wire[sid][i]
        BY <4>1 DEF OrderInv, InOrderOnce
      <4>4. \A k \in msgCacheList : msgs'[k].sid = sid =>
               /\ \A i \in DOMAIN wire[sid] : wire[sid][i] < k
               /\ \A l \in handled : msgs'[l].sid = sid => l < k
        BY <4>1 DEF OrderInv, InOrderOnce
      <4>. QED BY <4>2, <4>3, <4>4, <2>1
    <3>2. CASE sid = r.sid
      <4>1. \A k \in msgCacheList' \cup resend' : msgs'[k].sid # sid
        BY <3>2, <1>4, <2>1, <1>1, <1>2 DEF OrderInv, CachedOnlyWithoutSocket
      <4>2. ASSUME NEW i \in DOMAIN wire'[sid], NEW j \in DOMAIN wire'[sid], i < j
            PROVE  wire'[sid][i] < wire'[sid][j]
        <5>1. i \in DOMAIN wire[sid] /\ wire'[sid][i] = wire[sid][i]
          BY <4>2, <3>2, <2>2
        <5>2. CASE j \in DOMAIN wire[sid]
          BY <5>1, <5>2, <4>2, <3>2, <2>2 DEF OrderInv, InOrderOnce
        <5>3. CASE j = Len(wire[sid]) + 1
          BY <5>1, <5>3, <3>2, <2>2, <1>1, <1>3
        <5>. QED BY <5>2, <5>3, <3>2, <2>2
      <4>3. ASSUME NEW i \in DOMAIN wire'[sid], NEW k \in handled', msgs'[k].sid = sid
            PROVE  k < wire'[sid][i]
        <5>1. k \in handled /\ k \in Numbers /\ msgs[k].sid = sid
          BY <4>3, <1>1, <1>2
        <5>2. CASE i \in DOMAIN wire[sid]
          BY <5>1, <5>2, <3>2, <2>2 DEF OrderInv, InOrderOnce
        <5>3. CASE i = Len(wire[sid]) + 1
          BY <5>1, <5>3, <3>2, <2>2, <1>1
        <5>. QED BY <5>2, <5>3, <3>2, <2>2
      <4>. QED BY <4>1, <4>2, <4>3
    <3>. QED BY <3>1, <3>2
  <2>6. InOrderOnce'
    BY <2>5 DEF InOrderOnce
  <2>. QED BY <2>3, <2>4, <2>6 DEF OrderInv
<1>5. CASE r.sid \notin pool
  <2>1. wire' = wire /\ msgCacheList' \subseteq msgCacheList \cup {m}
    BY <1>5 DEF SendTo
  <2> HIDE DEF m, ms
  <2>2. Placement'
    BY <2>1, <1>1, <1>2, <1>3 DEF OrderInv, Placement
  <2>3. CachedOnlyWithoutSocket'
    BY <2>1, <1>1, <1>2, <1>5 DEF OrderInv, CachedOnlyWithoutSocket
  <2>4. ASSUME NEW sid \in Sids
        PROVE  /\ \A i, j \in DOMAIN wire'[sid] : i < j => wire'[sid][i] < wire'[sid][j]
               /\ \A i \in DOMAIN wire'[sid], k \in handled' :
                     msgs'[k].sid = sid => k < wire'[sid][i]
               /\ \A k \in msgCacheList' \cup resend' : msgs'[k].sid = sid =>
                     /\ \A i \in DOMAIN wire'[sid] : wire'[sid][i] < k
                     /\ \A l \in handled' : msgs'[l].sid = sid => l < k
    <3>0. \A k \in handled : msgs'[k] = msgs[k]
      BY <1>1, <1>2
    <3>1. /\ \A i, j \in DOMAIN wire[sid] : i < j => wire[sid][i] < wire[sid][j]
          /\ \A i \in DOMAIN wire[sid], k \in handled :
                msgs'[k].sid = sid => k < wire[sid][i]
      BY <3>0 DEF OrderInv, InOrderOnce
    <3>2. ASSUME NEW k \in msgCacheList', msgs'[k].sid = sid
          PROVE  /\ \A i \in DOMAIN wire'[sid] : wire'[sid][i] < k
                 /\ \A l \in handled' : msgs'[l].sid = sid => l < k
      <4>1. CASE k = m
        BY <4>1, <2>1, <1>1, <1>2, <1>3
      <4>2. CASE k \in msgCacheList
        BY <4>2, <3>2, <2>1, <1>1, <1>2 DEF OrderInv, InOrderOnce
      <4>. QED BY <4>1, <4>2, <2>1, <3>2
    <3>. QED BY <3>1, <3>2, <2>1
  <2>5. InOrderOnce'
    BY <2>4 DEF InOrderOnce
  <2>. QED BY <2>2, <2>3, <2>5 DEF OrderInv
<1>. QED BY <1>4, <1>5

\* rpcOnNewSocket takes the cached messages of the server out, oldest first.
LEMMA ResendOrder ==
    ASSUME IInv, OrderInv, (\E sid \in Sids : PoolAdd(sid)) \/ ResendNext
    PROVE  OrderInv'
<1>0. /\ msgCacheList \subseteq Numbers /\ resend \subseteq Numbers
      /\ wire \in [Sids -> Seq(Numbers)] /\ pool \subseteq Sids
      /\ msgs' = msgs /\ UNCHANGED <<handled, serving, replies>>
  BY DEF IInv, TypeOK, PoolAdd, ResendNext, peerVars
<1>1. ASSUME NEW sid \in Sids, PoolAdd(sid)
      PROVE  OrderInv'
  <2>1. /\ resend = {} /\ wire' = wire /\ pool' = pool \cup {sid}
        /\ resend' = {m \in msgCacheList : msgs[m].sid = sid}
        /\ msgCacheList' = msgCacheList \ resend'
    BY <1>1 DEF PoolAdd, IInv, ResendInPhase
  <2>2. Placement' /\ CachedOnlyWithoutSocket'
    BY <2>1, <1>0 DEF OrderInv, Placement, CachedOnlyWithoutSocket
  <2>3. InOrderOnce'
    BY <2>1, <1>0 DEF OrderInv, InOrderOnce
  <2>. QED BY <2>2, <2>3 DEF OrderInv
<1>2. ASSUME ResendNext
      PROVE  OrderInv'
  <2>1. PICK m \in resend :
          /\ \A k \in resend : m <= k
          /\ wire' = [wire EXCEPT ![msgs[m].sid] = Append(@, m)]
          /\ resend' = resend \ {m}
    BY <1>2 DEF ResendNext
  <2>2. pool' = pool /\ msgCacheList' = msgCacheList
    BY <1>2 DEF ResendNext, cacheVars
  <2> DEFINE sid == msgs[m].sid
             n == Len(wire[sid])
  <2>3. sid \in pool /\ sid \in Sids /\ m \in Numbers
    BY <2>1, <1>0 DEF OrderInv, Placement
  <2>4. \A k \in msgCacheList : msgs[k].sid # sid
    BY <2>3 DEF OrderInv, CachedOnlyWithoutSocket
  <2>5. /\ \A s \in Sids : s # sid => wire'[s] = wire[s]
        /\ n \in Nat /\ DOMAIN wire[sid] = 1..n /\ DOMAIN wire'[sid] = 1..(n + 1)
        /\ \A i \in DOMAIN wire[sid] :
              wire'[sid][i] = wire[sid][i] /\ wire[sid][i] \in Numbers
        /\ wire'[sid][n + 1] = m
    BY <1>0, <2>1, <2>3
  <2>6. /\ \A i \in DOMAIN wire[sid] : wire[sid][i] < m
        /\ \A k \in handled : msgs[k].sid = sid => k < m
    BY <2>1, <2>3 DEF OrderInv, InOrderOnce
  <2>7. \A k \in resend' : m < k
    BY <2>1, <1>0 DEF Numbers
  <2> HIDE DEF n, sid
  <2>8. Placement'
    <3>1. ASSUME NEW s \in Sids, NEW i \in DOMAIN wire'[s]
          PROVE  msgs'[wire'[s][i]].sid = s
      <4>1. CASE s = sid /\ i = n + 1
        BY <4>1, <2>5, <1>0 DEF sid
      <4>2. CASE ~(s = sid /\ i = n + 1)
        <5>1. i \in DOMAIN wire[s] /\ wire'[s][i] = wire[s][i]
          <6>1. CASE s # sid
            BY <6>1, <3>1, <2>5
          <6>2. CASE s = sid
            <7>1. i \in 1..(n + 1) /\ i # n + 1
              BY <6>2, <4>2, <3>1, <2>5
            <7>2. i \in DOMAIN wire[sid]
              BY <7>1, <2>5
            <7>. QED BY <7>2, <6>2, <2>5
          <6>. QED BY <6>1, <6>2
        <5>. QED BY <5>1, <1>0 DEF OrderInv, Placement
      <4>. QED BY <4>1, <4>2
    <3>. QED BY <3>1, <2>1, <2>2, <1>0 DEF OrderInv, Placement
  <2>9. CachedOnlyWithoutSocket'
    BY <2>2, <1>0 DEF OrderInv, CachedOnlyWithoutSocket
  <2>10. ASSUME NEW s \in Sids
         PROVE  /\ \A i, j \in DOMAIN wire'[s] : i < j => wire'[s][i] < wire'[s][j]
                /\ \A i \in DOMAIN wire'[s], k \in handled' :
                      msgs'[k].sid = s => k < wire'[s][i]
                /\ \A k \in msgCacheList' \cup resend' : msgs'[k].sid = s =>
                      /\ \A i \in DOMAIN wire'[s] : wire'[s][i] < k
                      /\ \A l \in handled' : msgs'[l].sid = s => l < k
    <3>0. resend' \subseteq resend
      BY <2>1
    <3>1. CASE s # sid
      <4>1. wire'[s] = wire[s] /\ handled' = handled /\ msgs' = msgs
        BY <3>1, <2>5, <1>0
      <4>2. msgCacheList' \cup resend' \subseteq msgCacheList \cup resend
        BY <3>0, <2>2
      <4>. QED BY <4>1, <4>2 DEF OrderInv, InOrderOnce
    <3>2. CASE s = sid
      <4>1. ASSUME NEW i \in DOMAIN wire'[s], NEW j \in DOMAIN wire'[s], i < j
            PROVE  wire'[s][i] < wire'[s][j]
        <5>1. i \in DOMAIN wire[s] /\ wire'[s][i] = wire[s][i]
          BY <4>1, <3>2, <2>5
        <5>2. CASE j \in DOMAIN wire[s]
          BY <5>1, <5>2, <4>1, <3>2, <2>5 DEF OrderInv, InOrderOnce
        <5>3. CASE j = n + 1
          BY <5>1, <5>3, <3>2, <2>5, <2>6
        <5>. QED BY <5>2, <5>3, <3>2, <2>5
      <4>2. ASSUME NEW i \in DOMAIN wire'[s], NEW k \in handled', msgs'[k].sid = s
            PROVE  k < wire'[s][i]
        <5>1. CASE i \in DOMAIN wire[s]
          <6>1. k \in handled /\ msgs[k].sid = s /\ wire'[s][i] = wire[s][i]
            BY <5>1, <4>2, <3>2, <2>5, <1>0
          <6>. QED BY <6>1, <5>1 DEF OrderInv, InOrderOnce
        <5>2. CASE i = n + 1
          BY <5>2, <4>2, <3>2, <2>5, <2>6, <1>0
        <5>. QED BY <5>1, <5>2, <3>2, <2>5
      <4>3. ASSUME NEW k \in msgCacheList' \cup resend', msgs'[k].sid = s
            PROVE  /\ \A i \in DOMAIN wire'[s] : wire'[s][i] < k
                   /\ \A l \in handled' : msgs'[l].sid = s => l < k
        <5>1. k \in resend /\ k \in resend' /\ msgs[k].sid = s
          BY <4>3, <3>0, <3>2, <2>2, <2>4, <1>0
        <5>2. \A i \in DOMAIN wire[s] : wire[s][i] < k
          BY <5>1 DEF OrderInv, InOrderOnce
        <5>3. \A i \in DOMAIN wire'[s] : wire'[s][i] < k
          BY <5>1, <5>2, <3>2, <2>5, <2>7
        <5>4. \A l \in handled' : msgs'[l].sid = s => l < k
          BY <5>1, <1>0 DEF OrderInv, InOrderOnce
        <5>. QED BY <5>3, <5>4
      <4>. QED BY <4>1, <4>2, <4>3
    <3>. QED BY <3>1, <3>2
  <2>11. InOrderOnce'
    BY <2>10 DEF InOrderOnce
  <2>. QED BY <2>8, <2>9, <2>11 DEF OrderInv
<1>. QED BY <1>1, <1>2

\* Losing a connection loses a suffix of its wire.
LEMMA PoolRemoveOrder ==
    ASSUME IInv, OrderInv, NEW sid \in Sids, PoolRemove(sid)
    PROVE  OrderInv'
<1>1. PICK n \in 0..Len(wire[sid]) :
         wire' = [wire EXCEPT ![sid] = SubSeq(@, 1, n)]
  BY DEF PoolRemove
<1>2. /\ resend = {} /\ resend' = {} /\ pool' = pool \ {sid}
      /\ UNCHANGED <<msgs, msgCacheList, handled, serving, replies>>
  BY DEF PoolRemove, IInv, ResendInPhase, cacheVars, loopVars, peerVars
<1>3. /\ wire[sid] \in Seq(Numbers) /\ wire \in [Sids -> Seq(Numbers)]
      /\ msgCacheList \subseteq Numbers
  BY DEF IInv, TypeOK
<1>4. /\ \A s \in Sids : DOMAIN wire'[s] \subseteq DOMAIN wire[s]
      /\ \A s \in Sids : \A i \in DOMAIN wire'[s] : wire'[s][i] = wire[s][i]
  <2>1. /\ DOMAIN wire[sid] = 1..Len(wire[sid])
        /\ DOMAIN SubSeq(wire[sid], 1, n) = 1..n
        /\ \A i \in 1..n : SubSeq(wire[sid], 1, n)[i] = wire[sid][i]
    BY <1>3
  <2>. QED BY <2>1, <1>1, <1>3
<1>5. Placement' /\ CachedOnlyWithoutSocket'
  BY <1>2, <1>4 DEF OrderInv, Placement, CachedOnlyWithoutSocket
<1>6. InOrderOnce'
  BY <1>2, <1>4 DEF OrderInv, InOrderOnce
<1>. QED BY <1>5, <1>6 DEF OrderInv

\* The other server handles the head of its wire.
LEMMA PeerReceivesOrder ==
    ASSUME IInv, OrderInv, NEW sid \in Sids, PeerReceives(sid)
    PROVE  OrderInv'
<1> DEFINE w == wire[sid]
           h == Head(w)
<1>1. /\ w \in Seq(Numbers) /\ w # <<>> /\ wire \in [Sids -> Seq(Numbers)]
      /\ wire' = [wire EXCEPT ![sid] = Tail(@)]
      /\ handled' = handled \cup {h} /\ serving' \subseteq serving \cup {h}
      /\ UNCHANGED <<msgs, msgCacheList, resend, pool, replies>>
  BY DEF PeerReceives, IInv, TypeOK, cacheVars, loopVars
<1>2. /\ h = w[1] /\ Len(w) \in Nat /\ Len(w) >= 1 /\ DOMAIN w = 1..Len(w)
      /\ DOMAIN wire'[sid] = 1..(Len(w) - 1)
      /\ \A i \in 1..(Len(w) - 1) : wire'[sid][i] = w[i + 1]
      /\ \A s \in Sids : s # sid => wire'[s] = wire[s]
  BY <1>1
<1>3. /\ msgs[h].sid = sid
      /\ \A i \in 2..Len(w) : h < w[i]
      /\ \A k \in msgCacheList \cup resend : msgs[k].sid = sid => h < k
  BY <1>2 DEF OrderInv, Placement, InOrderOnce
<1> HIDE DEF h, w
<1>4. /\ \A s \in Sids : \A i \in DOMAIN wire'[s] :
            \E j \in DOMAIN wire[s] : wire'[s][i] = wire[s][j] /\ (s = sid => j = i + 1)
                                         /\ (s # sid => j = i)
  BY <1>2 DEF w
<1>5. Placement' /\ CachedOnlyWithoutSocket'
  BY <1>1, <1>4 DEF OrderInv, Placement, CachedOnlyWithoutSocket
<1>6. ASSUME NEW s \in Sids
      PROVE  /\ \A i, j \in DOMAIN wire'[s] : i < j => wire'[s][i] < wire'[s][j]
             /\ \A i \in DOMAIN wire'[s], k \in handled' :
                   msgs'[k].sid = s => k < wire'[s][i]
             /\ \A k \in msgCacheList' \cup resend' : msgs'[k].sid = s =>
                   /\ \A i \in DOMAIN wire'[s] : wire'[s][i] < k
                   /\ \A l \in handled' : msgs'[l].sid = s => l < k
  <2>1. CASE s # sid
    BY <2>1, <1>1, <1>2, <1>3 DEF OrderInv, InOrderOnce
  <2>2. CASE s = sid
    <3>1. ASSUME NEW i \in DOMAIN wire'[s], NEW j \in DOMAIN wire'[s], i < j
          PROVE  wire'[s][i] < wire'[s][j]
      <4>1. i \in 1..(Len(w) - 1) /\ j \in 1..(Len(w) - 1) /\ wire'[s] = wire'[sid]
        BY <3>1, <2>2, <1>2
      <4>2. /\ i + 1 \in DOMAIN w /\ j + 1 \in DOMAIN w /\ i + 1 < j + 1
            /\ wire'[s][i] = w[i + 1] /\ wire'[s][j] = w[j + 1]
        BY <4>1, <3>1, <1>2
      <4>. QED BY <4>2 DEF w, OrderInv, InOrderOnce
    <3>2. ASSUME NEW i \in DOMAIN wire'[s], NEW k \in handled', msgs'[k].sid = s
          PROVE  k < wire'[s][i]
      <4>0. i \in 1..(Len(w) - 1) /\ wire'[s] = wire'[sid]
        BY <3>2, <2>2, <1>2
      <4>1. i + 1 \in 2..Len(w) /\ i + 1 \in DOMAIN w /\ wire'[s][i] = w[i + 1]
        BY <4>0, <1>2
      <4>2. CASE k = h
        BY <4>1, <4>2, <1>3
      <4>3. CASE k \in handled
        <5>1. msgs[k].sid = sid
          BY <3>2, <2>2, <1>1
        <5>2. k < w[i + 1]
          BY <4>1, <4>3, <5>1 DEF w, OrderInv, InOrderOnce
        <5>. QED BY <5>2, <4>1
      <4>. QED BY <4>2, <4>3, <1>1
    <3>3. ASSUME NEW k \in msgCacheList' \cup resend', msgs'[k].sid = s
          PROVE  /\ \A i \in DOMAIN wire'[s] : wire'[s][i] < k
                 /\ \A l \in handled' : msgs'[l].sid = s => l < k
      <4>1. \A i \in DOMAIN wire'[s] : wire'[s][i] < k
        BY <3>3, <2>2, <1>1, <1>4 DEF OrderInv, InOrderOnce
      <4>2. \A l \in handled' : msgs'[l].sid = s => l < k
        BY <3>3, <2>2, <1>1, <1>3 DEF OrderInv, InOrderOnce
      <4>. QED BY <4>1, <4>2
    <3>. QED BY <3>1, <3>2, <3>3
  <2>. QED BY <2>1, <2>2
<1>7. InOrderOnce'
  BY <1>6 DEF InOrderOnce
<1>. QED BY <1>5, <1>7 DEF OrderInv

\* Every kind of send keeps the messages in place and in order.
LEMMA SendOrder ==
    ASSUME IInv, OrderInv, Send \/ SendTNext
    PROVE  OrderInv'
<1>0. phase \in {"idle", "cast"} => resend = {}
  BY DEF IInv, ResendInPhase
<1>1. ASSUME NEW sid \in Sids, NEW size \in Sizes, SendAwait(sid, size)
      PROVE  OrderInv'
  <2>1. PICK k \in 1..FindMax :
          SendTo([sid |-> sid, id |-> IdAfter(k), time |-> outTime, size |-> size],
                 RequestWith(IdAfter(k), Len(msgs) + 1), BucketsWith(IdAfter(k)))
    BY <1>1 DEF SendAwait
  <2>2. [sid |-> sid, id |-> IdAfter(k), time |-> outTime, size |-> size] \in Messages
    BY IdTyped, IdAssumption DEF Messages, IInv, TypeOK
  <2>3. resend = {} /\ UNCHANGED <<resend, pool, handled, serving, replies>>
    BY <1>0, <1>1 DEF SendAwait, CanSend, loopVars, peerVars
  <2> HIDE DEF IInv, OrderInv
  <2>. QED BY <2>1, <2>2, <2>3, SendToOrder
<1>2. ASSUME NEW sid \in Sids, NEW size \in Sizes, SendNoCallback(sid, size)
      PROVE  OrderInv'
  <2>1. resend = {} /\ UNCHANGED <<resend, pool, handled, serving, replies>>
    BY <1>0, <1>2 DEF SendNoCallback, CanSend, loopVars, peerVars
  <2>2. SendTo([sid |-> sid, id |-> NoId, time |-> outTime, size |-> size],
               rpcRequest, rpcRequestBySeconds)
    BY <1>2 DEF SendNoCallback
  <2>. QED BY <2>1, <2>2, NoCallbackTyped, SendToOrder
<1>3. ASSUME SendTNext
      PROVE  OrderInv'
  <2>1. PICK one \in cast :
          SendTo([sid |-> one[1], id |-> NoId, time |-> outTime, size |-> one[2]],
                 rpcRequest, rpcRequestBySeconds)
    BY <1>3 DEF SendTNext
  <2>2. one[1] \in Sids /\ one[2] \in Sizes
    BY <2>1 DEF IInv, TypeOK
  <2>3. resend = {} /\ UNCHANGED <<resend, pool, handled, serving, replies>>
    BY <1>0, <1>3 DEF SendTNext, peerVars
  <2>. QED BY <2>1, <2>2, <2>3, NoCallbackTyped, SendToOrder
<1>4. ASSUME NEW size \in Sizes, SendToSelf(size)
      PROVE  OrderInv'
  <2>1. PICK k \in 1..FindMax :
          msgs' = Append(msgs, [sid |-> Self, id |-> IdAfter(k), time |-> outTime,
                                size |-> size])
    BY <1>4 DEF SendToSelf
  <2>2. /\ \A n \in Numbers : msgs'[n] = msgs[n]
        /\ UNCHANGED <<msgCacheList, resend, pool, wire, handled, serving, replies>>
    BY <1>4, <2>1 DEF SendToSelf, cacheVars, loopVars, peerVars, IInv, TypeOK, Numbers
  <2>3. /\ msgCacheList \subseteq Numbers /\ resend \subseteq Numbers
        /\ handled \subseteq Numbers /\ wire \in [Sids -> Seq(Numbers)]
    BY DEF IInv, TypeOK
  <2>4. \A s \in Sids : \A i \in DOMAIN wire[s] : wire[s][i] \in Numbers
    BY <2>3
  <2>5. Placement' /\ CachedOnlyWithoutSocket'
    BY <2>2, <2>3, <2>4 DEF OrderInv, Placement, CachedOnlyWithoutSocket
  <2>6. \A n \in handled \cup msgCacheList \cup resend : msgs'[n] = msgs[n]
    BY <2>2, <2>3
  <2>7. InOrderOnce'
    BY <2>2, <2>6 DEF OrderInv, InOrderOnce
  <2>. QED BY <2>5, <2>7 DEF OrderInv
<1>5. ASSUME \/ SendAwaitThrows \/ IdsExhausted
             \/ \E S \in SUBSET Sids \ {{}}, size \in Sizes : SendT(S, size)
      PROVE  OrderInv'
  <2>1. UNCHANGED <<msgs, msgCacheList, resend, pool, wire, handled, serving, replies>>
    BY <1>5 DEF SendAwaitThrows, IdsExhausted, SendT, cacheVars, loopVars, peerVars
  <2>. QED BY <2>1, OrderUnchanged DEF OrderInv, Placement
<1>. QED BY <1>1, <1>2, <1>3, <1>4, <1>5 DEF Send

\* Every step of the program and of its surroundings preserves both invariants.
THEOREM StepInv == IInv /\ OrderInv /\ [Next]_vars => IInv' /\ OrderInv'
<1> SUFFICES ASSUME IInv, OrderInv, [Next]_vars PROVE IInv' /\ OrderInv'
  OBVIOUS
<1>0. handled \subseteq Numbers /\ serving \subseteq Numbers
  BY DEF IInv, TypeOK
<1>1. CASE Send
  <2>1. IInv'
    BY <1>1, SendAwaitInv, SendNoCallbackInv, SendToSelfInv, SendTInv, IdOnlyInv
       DEF Send
  <2>. QED BY <1>1, <2>1, SendOrder
<1>2. CASE LoopStep
  BY <1>2, SendTNextInv, SendOrder, ResendInv, ResendOrder DEF LoopStep
<1>3. CASE TimerStep
  <2>1. IInv'
    BY <1>3, TickInv, CheckMsgCacheTimeoutInv, CheckRpcTimeoutInv DEF TimerStep
  <2>2. /\ UNCHANGED <<msgs, resend, pool, wire, handled, serving, replies>>
        /\ msgCacheList' \subseteq msgCacheList
    BY <1>3 DEF TimerStep, Tick, CheckMsgCacheTimeout, CheckRpcTimeout, cacheVars,
                loopVars, peerVars
  <2>3. OrderInv'
    BY <2>2, OrderUnchanged DEF OrderInv, Placement
  <2>. QED BY <2>1, <2>3
<1>4. ASSUME NEW m \in Numbers, SelfHandlerStarts(m)
      PROVE  IInv' /\ OrderInv'
  <2>1. IInv'
    BY <1>4, EnvironmentInv
  <2>2. /\ UNCHANGED <<msgs, msgCacheList, resend, pool, wire, replies>>
        /\ handled' = handled \cup {m} /\ serving' = serving \cup {m}
        /\ msgs[m].sid \notin Sids
    BY <1>4, SidsAssumption DEF SelfHandlerStarts, cacheVars, loopVars
  <2>3. Placement' /\ CachedOnlyWithoutSocket'
    BY <2>2 DEF OrderInv, Placement, CachedOnlyWithoutSocket
  <2>4. InOrderOnce'
    BY <2>2 DEF OrderInv, InOrderOnce
  <2>. QED BY <2>1, <2>3, <2>4 DEF OrderInv
<1>5. ASSUME NEW m \in Numbers, NEW err \in BOOLEAN,
             ReceiveReply(m, err) \/ SelfHandlerDone(m, err)
      PROVE  IInv' /\ OrderInv'
  <2>1. IInv'
    BY <1>5, SettlingInv
  <2>2. /\ UNCHANGED <<msgs, msgCacheList, resend, pool, wire, handled>>
        /\ serving' \subseteq serving /\ replies' \subseteq replies
    BY <1>5 DEF ReceiveReply, SelfHandlerDone, cacheVars, loopVars
  <2>3. OrderInv'
    BY <2>2, OrderUnchanged DEF OrderInv, Placement
  <2>. QED BY <2>1, <2>3
<1>6. CASE Link
  BY <1>6, ResendInv, ResendOrder, EnvironmentInv, PoolRemoveOrder DEF Link
<1>7. ASSUME NEW sid \in Sids, PeerReceives(sid)
      PROVE  IInv' /\ OrderInv'
  BY <1>7, EnvironmentInv, PeerReceivesOrder
<1>8. ASSUME NEW m \in Numbers, NEW err \in BOOLEAN, PeerAnswers(m, err)
      PROVE  IInv' /\ OrderInv'
  <2>1. IInv'
    BY <1>8, EnvironmentInv
  <2>2. /\ UNCHANGED <<msgs, msgCacheList, resend, pool, wire, handled>>
        /\ m \in serving /\ serving' \subseteq serving
        /\ replies' = replies \cup {<<m, err>>}
    BY <1>8 DEF PeerAnswers, cacheVars, loopVars
  <2>3. OrderInv'
    BY <2>2, OrderUnchanged DEF OrderInv, Placement
  <2>. QED BY <2>1, <2>3
<1>9. CASE Clock
  <2>1. IInv'
    BY <1>9, EnvironmentInv
  <2>2. UNCHANGED <<msgs, msgCacheList, resend, pool, wire, handled, serving, replies>>
    BY <1>9 DEF Clock, cacheVars, loopVars, peerVars
  <2>3. OrderInv'
    BY <2>2, OrderUnchanged DEF OrderInv, Placement
  <2>. QED BY <2>1, <2>3
<1>10. CASE UNCHANGED vars
  <2>1. UNCHANGED <<now, outTime, phase, rpcId, msgs, callVars, cacheVars, resend,
                    cast, pool, wire, handled, serving, replies>>
    BY <1>10 DEF vars, loopVars, peerVars
  <2>2. OrderInv'
    BY <2>1, OrderUnchanged DEF OrderInv, Placement, cacheVars
  <2>3. TypeOK'
    BY <2>1, MapsUnchanged DEF IInv, TypeOK
  <2>4. TickFresh' /\ CacheChecked' /\ ResendInPhase'
    BY <2>1 DEF IInv, TickFresh, CacheChecked, ResendInPhase, CacheTime, cacheVars
  <2>. QED BY <2>1, <2>2, <2>3, <2>4, MapsUnchanged DEF IInv
<1>. QED BY <1>1, <1>2, <1>3, <1>4, <1>5, <1>6, <1>7, <1>8, <1>9, <1>10
         DEF Next, Settling, Peers

\* Both invariants hold in every reachable state, for any number of servers,
\* any configuration and any workload, under a clock that is not set back.
THEOREM Invariance == Spec => [](IInv /\ OrderInv)
<1>1. Init => IInv /\ OrderInv
  BY InitInv, InitOrder
<1>. QED BY <1>1, StepInv, PTL DEF Spec

\* The maps and promises of the engine are well-formed in every reachable state.
THEOREM TypeCorrect == Spec => []TypeOK
<1>1. IInv => TypeOK
  BY DEF IInv
<1>. QED BY <1>1, Invariance, PTL

\* rpcRequest and rpcRequestBySeconds never disagree: whatever the ids, sizes,
\* deadlines and evictions, checkRpcTimeout finds every waiting call.
THEOREM BucketsAgree == Spec => []BucketsExact
<1>1. IInv => BucketsExact
  BY DEF IInv
<1>. QED BY <1>1, Invariance, PTL

\* A cached call is still awaited, for any rpcTimeMax of at least 5 s and any
\* tick shorter than the 3 s margin of the cache.
THEOREM CachedAwaited == Spec => []CachedPending
<1>1. IInv => CachedPending
  BY DEF IInv
<1>. QED BY <1>1, Invariance, PTL

\* No promise is settled twice, and none is forgotten without being settled.
THEOREM SettledExactlyOnce == Spec => []SettledOnce
<1>1. IInv => SettledOnce
  BY DEF IInv
<1>. QED BY <1>1, Invariance, PTL

\* Messages to one server are handled in the order they were sent and at most
\* once, across caching, reconnections and lost connections.
THEOREM HandledInOrder == Spec => []InOrderOnce
<1>1. OrderInv => InOrderOnce
  BY DEF OrderInv
<1>. QED BY <1>1, Invariance, PTL

\* rpcOnNewSocket leaves nothing of that server in the cache, and sendTo adds
\* nothing to it while the socket is there.
THEOREM NothingStuck == Spec => []CachedOnlyWithoutSocket
<1>1. OrderInv => CachedOnlyWithoutSocket
  BY DEF OrderInv
<1>. QED BY <1>1, Invariance, PTL

-----------------------------------------------------------------------------
(* The account of the cache.  Weight is a fold over a set in an order that *)
(* CHOOSE picks; it is shown to be the cardinality of a set of units, from *)
(* which all that is needed of it follows without the order.               *)

\* Weight is a recursion over the subsets of S, defined by its equation.
LEMMA WeightDef ==
  ASSUME NEW f, NEW S
  PROVE Weight(f, S) = (CHOOSE g : g = [s \in SUBSET S |-> IF s = {} THEN 0 ELSE
           f[CHOOSE x \in s : TRUE] + g[s \ {CHOOSE x \in s : TRUE}]])[S]
BY DEF Weight, MapThenSumSet, MapThenFoldSet

\* What the recursion of MapThenSumSet computes.
LEMMA WeightIs ==
    ASSUME NEW D, NEW f \in [D -> Nat], NEW S \in SUBSET D, IsFiniteSet(S)
    PROVE  Weight(f, S) = Cardinality(Units(f, S))
<1>1. PICK w, g :
         /\ w = [s \in SUBSET S |-> Cardinality(Units(f, s))]
         /\ g = CHOOSE h : h = [s \in SUBSET S |-> IF s = {} THEN 0 ELSE
                    f[CHOOSE x \in s : TRUE] + h[s \ {CHOOSE x \in s : TRUE}]]
  OBVIOUS
<1>2. Weight(f, S) = g[S]
  BY <1>1, WeightDef
<1>3. ASSUME NEW s \in SUBSET S, s # {}, NEW x \in s
      PROVE  w[s] = f[x] + w[s \ {x}]
  <2>1. IsFiniteSet(s \ {x}) /\ s \in SUBSET D /\ s \ {x} \in SUBSET D
    BY FS_Subset
  <2>2. IsFiniteSet(Units(f, s \ {x}))
    BY <2>1, UnitsFinite
  <2>3. Cardinality(Units(f, s)) = f[x] + Cardinality(Units(f, s \ {x}))
    BY <2>1, <2>2, UnitsStep
  <2>. QED BY <1>1, <2>3
<1>4. w[{}] = 0
  <2>1. Units(f, {}) = {}
    BY DEF Units
  <2>. QED BY <1>1, <2>1, FS_EmptySet
<1>5. w = [s \in SUBSET S |-> IF s = {} THEN 0 ELSE
               f[CHOOSE x \in s : TRUE] + w[s \ {CHOOSE x \in s : TRUE}]]
  <2>1. ASSUME NEW s \in SUBSET S
        PROVE  w[s] = IF s = {} THEN 0 ELSE
                   f[CHOOSE x \in s : TRUE] + w[s \ {CHOOSE x \in s : TRUE}]
    <3>1. CASE s = {}
      BY <1>4, <3>1
    <3>2. CASE s # {}
      <4>1. PICK x : x = CHOOSE y \in s : TRUE
        OBVIOUS
      <4>2. x \in s
        BY <3>2, <4>1
      <4>. QED BY <1>3, <3>2, <4>1, <4>2
    <3>. QED BY <3>1, <3>2
  <2>. QED BY <1>1, <2>1
<1>6. g = [s \in SUBSET S |-> IF s = {} THEN 0 ELSE
               f[CHOOSE x \in s : TRUE] + g[s \ {CHOOSE x \in s : TRUE}]]
  <2>1. \E h : h = [s \in SUBSET S |-> IF s = {} THEN 0 ELSE
               f[CHOOSE x \in s : TRUE] + h[s \ {CHOOSE x \in s : TRUE}]]
    BY <1>5
  <2>2. LET R(h) == h = [s \in SUBSET S |-> IF s = {} THEN 0 ELSE
               f[CHOOSE x \in s : TRUE] + h[s \ {CHOOSE x \in s : TRUE}]]
        IN  (\E h : R(h)) => R(CHOOSE h : R(h))
    BY Zenon
  <2>. QED BY <1>1, <2>1, <2>2
<1>7. PICK Bad : Bad = {n \in Nat : \E T \in SUBSET S : Cardinality(T) = n /\ g[T] # w[T]}
  OBVIOUS
<1>8. Bad = {}
  <2> SUFFICES ASSUME Bad # {} PROVE FALSE
    OBVIOUS
  <2>1. PICK n : n \in Bad /\ \A k \in Bad : n <= k
    BY <1>7, Least
  <2>2. PICK T \in SUBSET S : Cardinality(T) = n /\ g[T] # w[T] /\ n \in Nat
    BY <1>7, <2>1
  <2>3. T # {}
    <3>1. g[{}] = 0
      BY <1>6
    <3>. QED BY <1>4, <2>2, <3>1
  <2>4. PICK x : x = (CHOOSE y \in T : TRUE) /\ x \in T
    BY <2>3
  <2>5. Cardinality(T \ {x}) = n - 1 /\ Cardinality(T \ {x}) \in Nat
    <3>1. IsFiniteSet(T)
      BY FS_Subset
    <3>. QED BY <2>2, <2>4, <3>1, FS_RemoveElement, FS_CardinalityType
  <2>6. g[T \ {x}] = w[T \ {x}]
    <3>1. n - 1 \notin Bad /\ n - 1 \in Nat
      BY <2>1, <2>2, <2>5
    <3>. QED BY <1>7, <2>5, <3>1
  <2>7. g[T] = f[x] + g[T \ {x}]
    BY <1>6, <2>3, <2>4
  <2>. QED BY <1>3, <2>2, <2>3, <2>4, <2>6, <2>7
<1>9. g[S] = w[S]
  <2>1. Cardinality(S) \in Nat
    BY FS_CardinalityType
  <2>. QED BY <1>7, <1>8, <2>1
<1>. QED BY <1>1, <1>2, <1>9

\* A weight is a number.
LEMMA WeightNat ==
    ASSUME NEW D, NEW f \in [D -> Nat], NEW S \in SUBSET D, IsFiniteSet(S)
    PROVE  Weight(f, S) \in Nat
BY WeightIs, UnitsFinite, FS_CardinalityType

\* What is taken out of a set takes its weight along.
LEMMA WeightMinus ==
    ASSUME NEW D, NEW f \in [D -> Nat], NEW S \in SUBSET D, IsFiniteSet(S),
           NEW T \in SUBSET S
    PROVE  Weight(f, S \ T) = Weight(f, S) - Weight(f, T)
<1>1. /\ S \ T \in SUBSET D /\ T \in SUBSET D
      /\ IsFiniteSet(T) /\ IsFiniteSet(S \ T)
  BY FS_Subset
<1>2. PICK A, B, C : A = Units(f, S) /\ B = Units(f, T) /\ C = Units(f, S \ T)
  OBVIOUS
<1>3. IsFiniteSet(A)
  BY <1>2, UnitsFinite
<1>4. C = A \ B /\ A \cap B = B
  BY <1>2 DEF Units
<1>5. Cardinality(A \ B) = Cardinality(A) - Cardinality(A \cap B)
  BY <1>3, FS_Difference
<1>6. Weight(f, S) = Cardinality(A) /\ Weight(f, T) = Cardinality(B)
      /\ Weight(f, S \ T) = Cardinality(C)
  BY <1>1, <1>2, WeightIs
<1>. QED BY <1>4, <1>5, <1>6

\* One element more weighs its size more.
LEMMA WeightAdd ==
    ASSUME NEW D, NEW f \in [D -> Nat], NEW S \in SUBSET D, IsFiniteSet(S),
           NEW x \in D \ S
    PROVE  /\ IsFiniteSet(S \cup {x})
           /\ Weight(f, S \cup {x}) = Weight(f, S) + f[x]
<1>1. PICK R : R = S \cup {x}
  OBVIOUS
<1>2. R \in SUBSET D /\ x \in R /\ R \ {x} = S
  BY <1>1
<1>3. IsFiniteSet(R)
  BY <1>1, FS_AddElement
<1>4. IsFiniteSet(Units(f, S))
  BY UnitsFinite
<1>5. Cardinality(Units(f, R)) = f[x] + Cardinality(Units(f, S))
  BY <1>2, <1>4, UnitsStep
<1>6. Weight(f, R) = Cardinality(Units(f, R)) /\ Weight(f, S) = Cardinality(Units(f, S))
  BY <1>2, <1>3, WeightIs
<1>7. Cardinality(Units(f, S)) \in Nat /\ f[x] \in Nat
  BY <1>4, FS_CardinalityType
<1>. QED BY <1>1, <1>3, <1>5, <1>6, <1>7

\* Only the sizes of what is weighed matter.
LEMMA WeightAgree ==
    ASSUME NEW D, NEW f \in [D -> Nat], NEW E, NEW g \in [E -> Nat],
           NEW S, S \subseteq D, S \subseteq E, IsFiniteSet(S),
           \A x \in S : f[x] = g[x]
    PROVE  Weight(f, S) = Weight(g, S)
<1>1. Units(f, S) = Units(g, S)
  <2>1. ASSUME NEW p \in S \X Nat PROVE p[2] < f[p[1]] <=> p[2] < g[p[1]]
    OBVIOUS
  <2>. QED BY <2>1 DEF Units
<1>2. S \in SUBSET D /\ S \in SUBSET E
  OBVIOUS
<1>. QED BY <1>1, <1>2, WeightIs

\* A part weighs no more than the whole.
LEMMA WeightLess ==
    ASSUME NEW D, NEW f \in [D -> Nat], NEW S \in SUBSET D, IsFiniteSet(S),
           NEW T \in SUBSET S
    PROVE  Weight(f, T) <= Weight(f, S)
<1>1. IsFiniteSet(S \ T) /\ IsFiniteSet(T) /\ S \ T \in SUBSET D /\ T \in SUBSET D
  BY FS_Subset
<1>2. Weight(f, S \ T) = Weight(f, S) - Weight(f, T)
  BY WeightMinus
<1>3. Weight(f, S \ T) \in Nat /\ Weight(f, T) \in Nat /\ Weight(f, S) \in Nat
  BY <1>1, WeightNat
<1>. QED BY <1>2, <1>3

\* How many messages eviction of the n oldest leaves.
LEMMA OldestCount ==
    ASSUME NEW k \in Nat, NEW c \in SUBSET (1..k), NEW n \in Int
    PROVE  /\ IsFiniteSet(c) /\ Cardinality(c) \in Nat
           /\ IsFiniteSet(c \ Oldest(c, n))
           /\ Cardinality(c \ Oldest(c, n)) \in Nat
           /\ n \in 0..Cardinality(c) => Cardinality(c \ Oldest(c, n)) <= Cardinality(c) - n
           /\ n >= Cardinality(c) => c \ Oldest(c, n) = {}
<1>1. PICK C, f, R : /\ C = Cardinality(c)
                     /\ f = [i \in c |-> Cardinality({j \in c : j <= i})]
                     /\ R = c \ Oldest(c, n)
  OBVIOUS
<1>2. /\ IsFiniteSet(c) /\ C \in Nat
      /\ \A i \in c : f[i] \in 1..C
      /\ \A i, l \in c : f[i] = f[l] => i = l
  <2>1. /\ IsFiniteSet(c) /\ Cardinality(c) \in Nat
        /\ \A i \in c : Cardinality({j \in c : j <= i}) \in 1..Cardinality(c)
        /\ \A i, l \in c : Cardinality({j \in c : j <= i}) = Cardinality({j \in c : j <= l}) => i = l
    BY PlaceIn
  <2>2. \A i \in c : f[i] = Cardinality({j \in c : j <= i})
    BY <1>1
  <2>. QED BY <1>1, <2>1, <2>2
<1>3. R = {i \in c : f[i] > n}
  <2>1. ASSUME NEW i \in c PROVE i \in R <=> f[i] > n
    <3>1. i \in R <=> ~(f[i] <= n)
      BY <1>1 DEF Oldest
    <3>2. f[i] \in Int
      BY <1>2
    <3>. QED BY <3>1, <3>2
  <2>2. R \subseteq c
    BY <1>1
  <2>. QED BY <2>1, <2>2
<1>4. IsFiniteSet(R) /\ Cardinality(R) \in Nat
  <2>1. R \in SUBSET c
    BY <1>3
  <2>. QED BY <1>2, <2>1, FS_Subset, FS_CardinalityType
<1>5. ASSUME n \in 0..C PROVE Cardinality(R) <= C - n
  <2>1. PICK g : g = [i \in R |-> f[i]]
    OBVIOUS
  <2>2. IsFiniteSet(n + 1..C) /\ Cardinality(n + 1..C) = C - n
    <3>1. n + 1 \in Int /\ C \in Int
      BY <1>2
    <3>2. IsFiniteSet(n + 1..C)
          /\ Cardinality(n + 1..C) = IF n + 1 > C THEN 0 ELSE C - (n + 1) + 1
      BY <3>1, FS_Interval
    <3>. QED BY <1>2, <1>5, <3>2
  <2>3. g \in [R -> n + 1..C]
    <3>1. ASSUME NEW i \in R PROVE f[i] \in n + 1..C
      BY <1>2, <1>3
    <3>. QED BY <2>1, <3>1
  <2>4. \A i, l \in R : g[i] = g[l] => i = l
    BY <1>2, <1>3, <2>1
  <2>5. g \in Injection(R, n + 1..C)
    BY <2>3, <2>4 DEF Injection, IsInjective
  <2>6. Cardinality(R) <= Cardinality(n + 1..C)
    BY <2>2, <2>5, FS_Injection
  <2>. QED BY <2>2, <2>6
<1>6. ASSUME n >= C PROVE R = {}
  <2>1. ASSUME NEW i \in c PROVE ~(f[i] > n)
    <3>1. f[i] \in 1..C
      BY <1>2
    <3>. QED BY <1>2, <1>6, <3>1
  <2>. QED BY <1>3, <2>1
<1>. QED BY <1>1, <1>2, <1>4, <1>5, <1>6

\* checkMsgCacheCountSize brings both limits back, whatever the sizes: what it
\* splices off is enough.
LEMMA EvictedEnough ==
    ASSUME NEW k \in Nat, NEW c \in SUBSET (1..k), NEW size \in [1..k -> Nat],
           NEW total, total = Weight(size, c)
    PROVE  LET out == Evicted(c, size, total)
           IN  /\ out \subseteq c
               /\ Weight(size, c \ out) = total - Weight(size, out)
               /\ Weight(size, c \ out) <= CacheSizeMax
               /\ Cardinality(c \ out) <= CacheCountMax
<1>1. PICK C, n, out, old, B :
         /\ C = Cardinality(c) /\ n = C - CacheCountMax + CountSlack
         /\ out = Evicted(c, size, total) /\ old = Oldest(c, n)
         /\ B = {m \in c : Weight(size, {j \in c : j < m}) < total - CacheSizeMax + SizeSlack}
  OBVIOUS
<1>2. /\ CacheCountMax \in Nat /\ CacheSizeMax \in Nat
      /\ CountSlack \in Nat \ {0} /\ SizeSlack \in Nat \ {0}
  BY CacheAssumption
<1>3. IsFiniteSet(c) /\ C \in Nat /\ total \in Nat /\ n \in Int
  <2>1. IsFiniteSet(1..k)
    BY FS_Interval
  <2>2. IsFiniteSet(c)
    BY <2>1, FS_Subset
  <2>3. total \in Nat
    BY <2>2, WeightNat
  <2>. QED BY <1>1, <1>2, <2>2, <2>3, FS_CardinalityType
<1>4. \A T \in SUBSET c : /\ IsFiniteSet(T) /\ T \in SUBSET (1..k)
                          /\ Cardinality(T) \in Nat /\ Cardinality(T) <= C
                          /\ Weight(size, T) \in Nat /\ Weight(size, T) <= total
                          /\ Weight(size, c \ T) = total - Weight(size, T)
  <2> SUFFICES ASSUME NEW T \in SUBSET c
               PROVE  /\ IsFiniteSet(T) /\ T \in SUBSET (1..k)
                      /\ Cardinality(T) \in Nat /\ Cardinality(T) <= C
                      /\ Weight(size, T) \in Nat /\ Weight(size, T) <= total
                      /\ Weight(size, c \ T) = total - Weight(size, T)
    OBVIOUS
  <2>1. /\ IsFiniteSet(T) /\ T \in SUBSET (1..k)
        /\ Cardinality(T) \in Nat /\ Cardinality(T) <= C
    BY <1>1, <1>3, FS_Subset, FS_CardinalityType
  <2>2. Weight(size, T) \in Nat
    BY <2>1, WeightNat
  <2>3. Weight(size, T) <= total
    BY <1>3, WeightLess
  <2>4. Weight(size, c \ T) = total - Weight(size, T)
    BY <1>3, WeightMinus
  <2>. QED BY <2>1, <2>2, <2>3, <2>4
<1>5. CASE C <= CacheCountMax /\ total <= CacheSizeMax
  <2>1. out = {} /\ c \ out = c
    BY <1>1, <1>5 DEF Evicted
  <2>2. {} \in SUBSET c /\ c \in SUBSET c
    OBVIOUS
  <2>. QED BY <1>1, <1>4, <1>5, <2>1, <2>2
<1>6. CASE ~(C <= CacheCountMax /\ total <= CacheSizeMax)
  <2>1. out = old \cup (IF total > CacheSizeMax THEN B ELSE {})
    BY <1>1, <1>6 DEF Evicted
  <2>2. out \in SUBSET c /\ old \subseteq out /\ c \ out \in SUBSET c
    BY <1>1, <2>1 DEF Oldest
  <2>3. Cardinality(c \ out) <= CacheCountMax
    <3>1. PICK R : R = c \ old
      OBVIOUS
    <3>2. /\ IsFiniteSet(R) /\ Cardinality(R) \in Nat
          /\ n \in 0..C => Cardinality(R) <= C - n
          /\ n >= C => R = {}
      BY <1>1, <1>3, <3>1, OldestCount
    <3>3. Cardinality(c \ out) <= Cardinality(R) /\ Cardinality(c \ out) \in Nat
          /\ Cardinality(c \ out) <= C
      <4>1. c \ out \in SUBSET R
        BY <2>2, <3>1
      <4>. QED BY <1>4, <2>2, <3>2, <4>1, FS_Subset
    <3>4. CASE C <= CacheCountMax
      BY <1>2, <1>3, <3>3, <3>4
    <3>5. CASE C > CacheCountMax /\ n <= C
      <4>1. n \in 0..C /\ C - n <= CacheCountMax
        BY <1>1, <1>2, <1>3, <3>5
      <4>. QED BY <1>2, <1>3, <3>2, <3>3, <4>1
    <3>6. CASE n > C
      <4>1. R = {}
        BY <1>3, <3>2, <3>6
      <4>2. Cardinality(R) = 0
        BY <4>1, FS_EmptySet
      <4>. QED BY <1>2, <3>3, <4>2
    <3>. QED BY <1>2, <1>3, <3>4, <3>5, <3>6
  <2>4. Weight(size, c \ out) <= CacheSizeMax
    <3>1. CASE total <= CacheSizeMax
      <4>1. Weight(size, c \ out) \in Nat /\ Weight(size, c \ out) <= total
        BY <1>4, <2>2
      <4>. QED BY <1>2, <1>3, <3>1, <4>1
    <3>2. CASE total > CacheSizeMax /\ B = c
      <4>1. c \ out = {} /\ {} = c \ c
        BY <2>1, <3>2
      <4>2. Weight(size, c \ c) = total - total
        <5>1. Weight(size, c \ c) = total - Weight(size, c)
          BY <1>4
        <5>. QED BY <5>1
      <4>3. Weight(size, c \ out) = 0
        <5>1. Weight(size, c \ out) = Weight(size, c \ c)
          BY <4>1
        <5>2. total - total = 0
          BY <1>3
        <5>. QED BY <4>2, <5>1, <5>2
      <4>. QED BY <1>2, <4>3
    <3>3. CASE total > CacheSizeMax /\ B # c
      <4>1. PICK x \in c \ B : \A y \in c \ B : x <= y
        <5>1. c \ B # {}
          <6>1. B \subseteq c
            BY <1>1
          <6>. QED BY <3>3, <6>1
        <5>2. c \ B \in SUBSET Nat
          <6>1. ASSUME NEW j \in c PROVE j \in Nat
            OBVIOUS
          <6>. QED BY <6>1
        <5>. QED BY <5>1, <5>2, Least
      <4>2. PICK H : H = {j \in c : j < x}
        OBVIOUS
      <4>3. H \in SUBSET c /\ H \subseteq B
        <5>1. \A j \in c : j \in Int
          OBVIOUS
        <5>2. ASSUME NEW j \in H PROVE j \in c /\ j \in B
          <6>1. j \in c /\ j < x /\ j \in Int /\ x \in Int
            BY <4>1, <4>2, <5>1
          <6>2. ~(x <= j)
            BY <6>1
          <6>. QED BY <4>1, <6>1, <6>2
        <5>. QED BY <5>2
      <4>4. Weight(size, H) \in Nat
            /\ ~(Weight(size, H) < total - CacheSizeMax + SizeSlack)
        BY <1>1, <1>4, <4>1, <4>2, <4>3
      <4>5. Weight(size, c \ H) = total - Weight(size, H)
        BY <1>4, <4>3
      <4>6. Weight(size, c \ out) <= Weight(size, c \ H)
            /\ Weight(size, c \ out) \in Nat
        <5>1. c \ out \in SUBSET (c \ H) /\ c \ H \in SUBSET (1..k) /\ IsFiniteSet(c \ H)
          <6>1. B \subseteq out
            BY <2>1, <3>3
          <6>2. c \ H \in SUBSET c
            OBVIOUS
          <6>. QED BY <1>4, <4>3, <6>1, <6>2
        <5>. QED BY <1>4, <2>2, <5>1, WeightLess
      <4>. QED BY <1>2, <1>3, <4>4, <4>5, <4>6
    <3>. QED BY <1>2, <1>3, <3>1, <3>2, <3>3
  <2>. QED BY <1>1, <1>4, <2>2, <2>3, <2>4
<1>. QED BY <1>5, <1>6

\* The sizes of the messages, as the function SumOfSizes weighs with.
LEMMA SizesTyped ==
    ASSUME NEW ms \in Seq(Messages), NEW c, c \subseteq 1..Len(ms)
    PROVE  /\ [m \in 1..Len(ms) |-> ms[m].size] \in [1..Len(ms) -> Nat]
           /\ Len(ms) \in Nat /\ IsFiniteSet(c)
<1>1. \A m \in 1..Len(ms) : ms[m] \in Messages
  OBVIOUS
<1>2. \A m \in 1..Len(ms) : ms[m].size \in Nat
  BY <1>1, CacheAssumption DEF Messages
<1>3. Len(ms) \in Nat
  OBVIOUS
<1>4. IsFiniteSet(1..Len(ms))
  BY <1>3, FS_Interval
<1>5. IsFiniteSet(c)
  BY <1>4, FS_Subset
<1>. QED BY <1>2, <1>3, <1>5

\* New messages that go past the cache do not change its account.
LEMMA AccountKept ==
    ASSUME TypeOK, TypeOK', CacheAccount, UNCHANGED cacheVars,
           \A m \in Numbers : m \in Numbers' /\ msgs'[m] = msgs[m]
    PROVE  CacheAccount'
<1>1. PICK f, g : /\ f = [m \in Numbers |-> msgs[m].size]
                  /\ g = [m \in Numbers' |-> msgs'[m].size]
  OBVIOUS
<1>2. /\ f \in [Numbers -> Nat] /\ g \in [Numbers' -> Nat]
      /\ msgCacheList \subseteq Numbers /\ msgCacheList \subseteq Numbers'
      /\ IsFiniteSet(msgCacheList)
  <2>1. /\ msgs \in Seq(Messages) /\ msgs' \in Seq(Messages)
        /\ Numbers = 1..Len(msgs) /\ Numbers' = 1..Len(msgs')
        /\ msgCacheList \subseteq Numbers /\ msgCacheList \subseteq Numbers'
    BY DEF TypeOK, Numbers, cacheVars
  <2>2. f \in [Numbers -> Nat] /\ IsFiniteSet(msgCacheList)
    BY <1>1, <2>1, SizesTyped
  <2>3. g \in [Numbers' -> Nat]
    BY <1>1, <2>1, SizesTyped
  <2>. QED BY <2>1, <2>2, <2>3
<1>3. \A m \in msgCacheList : f[m] = g[m]
  BY <1>1, <1>2
<1>4. Weight(f, msgCacheList) = Weight(g, msgCacheList)
  BY <1>2, <1>3, WeightAgree
<1>5. SumOfSizes(msgCacheList) = Weight(f, msgCacheList)
      /\ SumOfSizes(msgCacheList)' = Weight(g, msgCacheList')
  BY <1>1 DEF SumOfSizes
<1>. QED BY <1>4, <1>5 DEF CacheAccount, cacheVars

\* What checkMsgCacheTimeout and rpcOnNewSocket take out of the cache they take
\* off the account.
LEMMA AccountTaken ==
    ASSUME TypeOK, CacheAccount, NEW S \in SUBSET msgCacheList, UNCHANGED msgs,
           msgCacheList' = msgCacheList \ S,
           nowCacheSize' = nowCacheSize - SumOfSizes(S)
    PROVE  CacheAccount'
<1>1. PICK f : f = [m \in Numbers |-> msgs[m].size]
  OBVIOUS
<1>2. /\ msgs \in Seq(Messages) /\ Numbers = 1..Len(msgs)
      /\ msgCacheList \subseteq Numbers
  BY DEF TypeOK, Numbers
<1>3. f \in [Numbers -> Nat] /\ IsFiniteSet(msgCacheList)
  BY <1>1, <1>2, SizesTyped
<1>4. /\ SumOfSizes(S) = Weight(f, S)
      /\ SumOfSizes(msgCacheList) = Weight(f, msgCacheList)
      /\ SumOfSizes(msgCacheList)' = Weight(f, msgCacheList \ S)
  BY <1>1 DEF SumOfSizes, Numbers
<1>5. Weight(f, msgCacheList \ S) = Weight(f, msgCacheList) - Weight(f, S)
  <2>1. msgCacheList \in SUBSET Numbers /\ S \in SUBSET msgCacheList
    BY <1>2
  <2>. QED BY <1>3, <2>1, WeightMinus
<1>6. /\ IsFiniteSet(S) /\ S \in SUBSET Numbers
      /\ IsFiniteSet(msgCacheList \ S) /\ msgCacheList \ S \in SUBSET msgCacheList
  BY <1>2, <1>3, FS_Subset
<1>7. Weight(f, S) \in Nat /\ Weight(f, msgCacheList) \in Nat
  BY <1>2, <1>3, <1>6, WeightNat
<1>8. /\ Cardinality(msgCacheList') <= Cardinality(msgCacheList)
      /\ Cardinality(msgCacheList') \in Nat /\ Cardinality(msgCacheList) \in Nat
  BY <1>3, <1>6, FS_Subset, FS_CardinalityType
<1>9. CacheSizeMax \in Nat /\ CacheCountMax \in Nat
  BY CacheAssumption
<1>10. nowCacheSize' = SumOfSizes(msgCacheList)' /\ nowCacheSize' <= CacheSizeMax
  BY <1>4, <1>5, <1>7, <1>9 DEF CacheAccount
<1>11. Cardinality(msgCacheList') <= CacheCountMax
  BY <1>8, <1>9 DEF CacheAccount
<1>. QED BY <1>10, <1>11 DEF CacheAccount

\* sendTo keeps the account: what it caches is added before the limits are
\* checked, what it evicts is taken off.
LEMMA SendToAccount ==
    ASSUME TypeOK, TypeOK', CacheAccount, NEW r \in Messages, NEW req, NEW buckets,
           SendTo(r, req, buckets)
    PROVE  CacheAccount'
<1>1. PICK m, ms, c, size, out :
         /\ m = Len(msgs) + 1 /\ ms = Append(msgs, r) /\ c = msgCacheList \cup {m}
         /\ size = [k \in 1..m |-> ms[k].size]
         /\ out = Evicted(c, size, nowCacheSize + r.size)
  OBVIOUS
<1>2. /\ m \in Nat /\ Len(ms) = m /\ ms \in Seq(Messages) /\ ms[m] = r
      /\ msgs' = ms /\ Numbers' = 1..m /\ m \in 1..m
      /\ \A k \in Numbers : k \in 1..m /\ k # m /\ msgs'[k] = msgs[k]
      /\ msgCacheList \subseteq Numbers /\ c \subseteq 1..m
  <2>1. /\ Len(msgs) \in Nat /\ msgs \in Seq(Messages) /\ Numbers = 1..Len(msgs)
        /\ msgCacheList \subseteq Numbers
    BY DEF TypeOK, Numbers
  <2>2. msgs' = ms
    BY <1>1 DEF SendTo
  <2>3. /\ m \in Nat /\ Len(ms) = m /\ ms \in Seq(Messages) /\ ms[m] = r
        /\ \A k \in 1..Len(msgs) : ms[k] = msgs[k]
    BY <1>1, <2>1
  <2>4. Numbers' = 1..m
    BY <2>2, <2>3 DEF Numbers
  <2>5. \A k \in 1..Len(msgs) : k \in 1..m /\ k # m
    BY <1>1, <2>1
  <2>6. m \in 1..m
    BY <1>1, <2>1
  <2>. QED BY <1>1, <2>1, <2>2, <2>3, <2>4, <2>5, <2>6
<1>3. CASE r.sid \in pool
  <2>1. UNCHANGED cacheVars
    BY <1>3 DEF SendTo
  <2>. QED BY <1>2, <2>1, AccountKept
<1>4. CASE r.sid \notin pool
  <2>0. PICK kept : kept = c \ out
    OBVIOUS
  <2>1. /\ msgCacheList' = kept
        /\ nowCacheSize' = (nowCacheSize + r.size) - Weight(size, out)
    BY <1>1, <1>4, <2>0 DEF SendTo
  <2>2. size \in [1..m -> Nat] /\ IsFiniteSet(c) /\ IsFiniteSet(msgCacheList)
    <3>1. [k \in 1..Len(ms) |-> ms[k].size] \in [1..Len(ms) -> Nat]
          /\ IsFiniteSet(c)
      BY <1>2, SizesTyped
    <3>2. msgCacheList \in SUBSET c
      BY <1>1
    <3>. QED BY <1>1, <1>2, <3>1, <3>2, FS_Subset
  <2>3. Weight(size, msgCacheList) = nowCacheSize
    <3>1. PICK f : f = [k \in Numbers |-> msgs[k].size]
      OBVIOUS
    <3>2. f \in [Numbers -> Nat]
      <4>1. msgs \in Seq(Messages) /\ Numbers = 1..Len(msgs)
        BY DEF TypeOK, Numbers
      <4>. QED BY <1>2, <3>1, <4>1, SizesTyped
    <3>3. \A k \in msgCacheList : f[k] = size[k]
      BY <1>1, <1>2, <3>1
    <3>4. PICK D : D = 1..m
      OBVIOUS
    <3>5. /\ msgCacheList \subseteq D /\ msgCacheList \subseteq Numbers
          /\ size \in [D -> Nat] /\ IsFiniteSet(msgCacheList)
      BY <1>2, <2>2, <3>4
    <3>6. Weight(f, msgCacheList) = Weight(size, msgCacheList)
      BY <3>2, <3>3, <3>5, WeightAgree
    <3>. QED BY <3>1, <3>6 DEF CacheAccount, SumOfSizes
  <2>4. Weight(size, c) = nowCacheSize + r.size
    <3>1. msgCacheList \in SUBSET (1..m) /\ m \in (1..m) \ msgCacheList
      BY <1>2
    <3>2. Weight(size, msgCacheList \cup {m}) = Weight(size, msgCacheList) + size[m]
      BY <2>2, <3>1, WeightAdd
    <3>3. size[m] = r.size
      BY <1>1, <1>2
    <3>. QED BY <1>1, <2>3, <3>2, <3>3
  <2>5. /\ Weight(size, kept) = (nowCacheSize + r.size) - Weight(size, out)
        /\ Weight(size, kept) <= CacheSizeMax
        /\ Cardinality(kept) <= CacheCountMax
    <3>1. m \in Nat /\ c \in SUBSET (1..m) /\ size \in [1..m -> Nat]
      BY <1>2, <2>2
    <3>2. PICK total : total = nowCacheSize + r.size /\ total = Weight(size, c)
      BY <2>4
    <3>3. /\ Weight(size, c \ Evicted(c, size, total))
               = total - Weight(size, Evicted(c, size, total))
          /\ Weight(size, c \ Evicted(c, size, total)) <= CacheSizeMax
          /\ Cardinality(c \ Evicted(c, size, total)) <= CacheCountMax
      BY <3>1, <3>2, EvictedEnough
    <3>4. out = Evicted(c, size, total)
      BY <1>1, <3>2
    <3>. QED BY <2>0, <3>2, <3>3, <3>4
  <2>6. SumOfSizes(msgCacheList)' = Weight(size, kept)
    BY <1>1, <1>2, <2>1 DEF SumOfSizes
  <2>7. nowCacheSize' = SumOfSizes(msgCacheList)'
    BY <2>1, <2>5, <2>6
  <2>8. nowCacheSize' <= CacheSizeMax /\ Cardinality(msgCacheList') <= CacheCountMax
    BY <2>1, <2>5
  <2>. QED BY <2>7, <2>8 DEF CacheAccount
<1>. QED BY <1>3, <1>4

\* Every step of the program keeps the account.
LEMMA StepAccount ==
    ASSUME IInv, TypeOK', CacheAccount, [Next]_vars
    PROVE  CacheAccount'
<1>0. TypeOK
  BY DEF IInv
<1>1. ASSUME NEW sid \in Sids, NEW size \in Sizes, SendAwait(sid, size)
      PROVE  CacheAccount'
  <2>1. PICK k \in 1..FindMax :
          SendTo([sid |-> sid, id |-> IdAfter(k), time |-> outTime, size |-> size],
                 RequestWith(IdAfter(k), Len(msgs) + 1), BucketsWith(IdAfter(k)))
    BY <1>1 DEF SendAwait
  <2>2. [sid |-> sid, id |-> IdAfter(k), time |-> outTime, size |-> size] \in Messages
    <3>1. IdAfter(k) \in 1..RpcIdMax /\ outTime \in Int
      BY <1>0, IdTyped DEF TypeOK
    <3>. QED BY <3>1, IdAssumption DEF Messages
  <2>. QED BY <1>0, <2>1, <2>2, SendToAccount
<1>2. ASSUME NEW sid \in Sids, NEW size \in Sizes, SendNoCallback(sid, size)
      PROVE  CacheAccount'
  <2>1. SendTo([sid |-> sid, id |-> NoId, time |-> outTime, size |-> size],
               rpcRequest, rpcRequestBySeconds)
    BY <1>2 DEF SendNoCallback
  <2>. QED BY <1>0, <2>1, NoCallbackTyped, SendToAccount
<1>3. ASSUME SendTNext
      PROVE  CacheAccount'
  <2>1. PICK one \in cast :
          SendTo([sid |-> one[1], id |-> NoId, time |-> outTime, size |-> one[2]],
                 rpcRequest, rpcRequestBySeconds)
    BY <1>3 DEF SendTNext
  <2>2. one[1] \in Sids /\ one[2] \in Sizes
    BY <1>0, <2>1 DEF TypeOK
  <2>. QED BY <1>0, <2>1, <2>2, NoCallbackTyped, SendToAccount
<1>4. ASSUME NEW size \in Sizes, SendToSelf(size)
      PROVE  CacheAccount'
  <2>1. PICK k \in 1..FindMax :
          msgs' = Append(msgs, [sid |-> Self, id |-> IdAfter(k), time |-> outTime,
                                size |-> size])
    BY <1>4 DEF SendToSelf
  <2>2. UNCHANGED cacheVars
    BY <1>4 DEF SendToSelf
  <2>3. \A n \in Numbers : n \in Numbers' /\ msgs'[n] = msgs[n]
    BY <1>0, <2>1 DEF TypeOK, Numbers
  <2>. QED BY <1>0, <2>2, <2>3, AccountKept
<1>5. ASSUME CheckMsgCacheTimeout
      PROVE  CacheAccount'
  <2>1. /\ msgCacheList' = msgCacheList \ ExpiredHead
        /\ nowCacheSize' = nowCacheSize - SumOfSizes(ExpiredHead)
        /\ UNCHANGED msgs
    BY <1>5 DEF CheckMsgCacheTimeout
  <2>2. ExpiredHead \in SUBSET msgCacheList
    BY DEF ExpiredHead
  <2>. QED BY <1>0, <2>1, <2>2, AccountTaken
<1>6. ASSUME NEW sid \in Sids, PoolAdd(sid)
      PROVE  CacheAccount'
  <2>1. PICK mine \in SUBSET msgCacheList :
          /\ msgCacheList' = msgCacheList \ mine
          /\ nowCacheSize' = nowCacheSize - SumOfSizes(mine)
          /\ UNCHANGED msgs
    BY <1>6 DEF PoolAdd
  <2>. QED BY <1>0, <2>1, AccountTaken
<1>7. ASSUME UNCHANGED <<msgs, cacheVars>>
      PROVE  CacheAccount'
  BY <1>0, <1>7, AccountKept DEF Numbers
<1>8. CASE Send
  <2>1. ASSUME \/ SendAwaitThrows \/ IdsExhausted
               \/ \E S \in SUBSET Sids \ {{}}, size \in Sizes : SendT(S, size)
        PROVE  UNCHANGED <<msgs, cacheVars>>
    BY <2>1 DEF SendAwaitThrows, IdsExhausted, SendT
  <2>. QED BY <1>1, <1>2, <1>4, <1>7, <1>8, <2>1 DEF Send
<1>9. CASE LoopStep
  <2>1. ResendNext => UNCHANGED <<msgs, cacheVars>>
    BY DEF ResendNext
  <2>. QED BY <1>3, <1>7, <1>9, <2>1 DEF LoopStep
<1>10. CASE TimerStep
  <2>1. Tick \/ CheckRpcTimeout => UNCHANGED <<msgs, cacheVars>>
    BY DEF Tick, CheckRpcTimeout
  <2>. QED BY <1>5, <1>7, <1>10, <2>1 DEF TimerStep
<1>11. CASE Settling
  <2>1. UNCHANGED <<msgs, cacheVars>>
    BY <1>11 DEF Settling, SelfHandlerStarts, ReceiveReply, SelfHandlerDone
  <2>. QED BY <1>7, <2>1
<1>12. CASE Link
  <2>1. \A sid \in Sids : PoolRemove(sid) => UNCHANGED <<msgs, cacheVars>>
    BY DEF PoolRemove
  <2>. QED BY <1>6, <1>7, <1>12, <2>1 DEF Link
<1>13. CASE Peers \/ Clock \/ UNCHANGED vars
  <2>1. UNCHANGED <<msgs, cacheVars>>
    BY <1>13 DEF Peers, PeerReceives, PeerAnswers, Clock, vars
  <2>. QED BY <1>7, <2>1
<1>. QED BY <1>8, <1>9, <1>10, <1>11, <1>12, <1>13 DEF Next

\* nowCacheSize is what the cached messages weigh, and neither limit of the
\* cache is exceeded between two messages: for any limits, slacks and sizes.
THEOREM CacheAccounted == Spec => []CacheAccount
<1>1. Init => CacheAccount
  <2> SUFFICES ASSUME Init PROVE CacheAccount
    OBVIOUS
  <2>1. msgCacheList = {} /\ nowCacheSize = 0
    BY DEF Init
  <2>2. TypeOK
    BY InitInv DEF IInv
  <2>3. PICK f : f = [m \in Numbers |-> msgs[m].size]
    OBVIOUS
  <2>4. Weight(f, {}) = 0
    <3>1. f \in [Numbers -> Nat]
      BY <2>2, <2>3, SizesTyped DEF TypeOK, Numbers
    <3>2. {} \in SUBSET Numbers /\ IsFiniteSet({})
      BY FS_EmptySet
    <3>3. Weight(f, {}) = Cardinality(Units(f, {}))
      BY <3>1, <3>2, WeightIs
    <3>4. Units(f, {}) = {}
      BY DEF Units
    <3>. QED BY <3>3, <3>4, FS_EmptySet
  <2>5. SumOfSizes(msgCacheList) = 0 /\ Cardinality(msgCacheList) = 0
    BY <2>1, <2>3, <2>4, FS_EmptySet DEF SumOfSizes
  <2>. QED BY <2>1, <2>5, CacheAssumption DEF CacheAccount
<1>2. IInv /\ IInv' /\ CacheAccount /\ [Next]_vars => CacheAccount'
  <2>1. IInv' => TypeOK'
    BY DEF IInv
  <2>. QED BY <2>1, StepAccount
<1>. QED BY <1>1, <1>2, Invariance, PTL DEF Spec

(***************************************************************************)
(* RpcService keeps the promise of RpcPromise, settles calls by their own  *)
(* answers only, and sends requests while there is time for an answer, as  *)
(* long as no id is used twice.                                            *)
(***************************************************************************)

(***************************************************************************)
(* What a step does to the outcomes.                                       *)
(***************************************************************************)

\* The states before and after a step satisfy the invariants.
Context ==
    /\ IInv /\ OrderInv /\ IdsDistinct
    /\ IInv' /\ IdsDistinct'

\* Old messages stay, and those of S are settled with o.
SettlesOnly(S, o) ==
    /\ Numbers \subseteq Numbers' /\ \A m \in Numbers : msgs'[m] = msgs[m]
    /\ \A m \in Numbers : settled'[m] = IF m \in S THEN Append(settled[m], o) ELSE settled[m]

LEMMA LogTyped ==
    ASSUME TypeOK
    PROVE  \A m \in Numbers : settled[m] \in Seq(Outcomes)
BY DEF TypeOK

\* A promise is settled at most once: one that is settled now was waiting.
LEMMA OutcomeOf ==
    ASSUME Context, NEW S, NEW o \in Outcomes, SettlesOnly(S, o), NEW m \in Calls
    PROVE  /\ m \in Calls'
           /\ m \in S => Outcome[m] = "waiting" /\ Outcome'[m] = o
           /\ m \notin S => Outcome'[m] = Outcome[m]
<1>1. m \in Numbers /\ m \in Numbers' /\ m \in Calls'
  BY DEF SettlesOnly, Calls, IsCall
<1>2. settled[m] \in Seq(Outcomes)
  BY <1>1, LogTyped DEF Context, IInv
<1>3. settled'[m] = IF m \in S THEN Append(settled[m], o) ELSE settled[m]
  BY <1>1 DEF SettlesOnly
<1>4. Len(settled'[m]) \in {0, 1}
  BY <1>1 DEF Context, IInv, SettledOnce
<1>5. Outcome[m] = IF settled[m] = <<>> THEN "waiting" ELSE settled[m][1]
  BY DEF Outcome
<1>6. Outcome'[m] = IF settled'[m] = <<>> THEN "waiting" ELSE settled'[m][1]
  BY <1>1 DEF Outcome
<1>7. CASE m \in S
  <2>1. Len(settled'[m]) = Len(settled[m]) + 1 /\ Len(settled[m]) \in Nat
    BY <1>2, <1>3, <1>7
  <2>2. settled[m] = <<>>
    BY <1>2, <1>4, <2>1
  <2>3. settled'[m] = <<o>>
    BY <1>3, <1>7, <2>2
  <2>. QED BY <1>1, <1>5, <1>6, <1>7, <2>2, <2>3
<1>8. CASE m \notin S
  BY <1>1, <1>3, <1>5, <1>6, <1>8
<1>. QED BY <1>7, <1>8

LEMMA OutcomeDomain == DOMAIN Outcome = Calls /\ DOMAIN Outcome' = Calls'
BY DEF Outcome

\* Nothing is settled.
LEMMA NothingSettled ==
    ASSUME UNCHANGED <<msgs, settled>>
    PROVE  Outcome' = Outcome /\ Calls' = Calls /\ Numbers' = Numbers
BY DEF Outcome, Calls, Numbers, IsCall

\* Calls time out.
LEMMA ExpireStep ==
    ASSUME Context, NEW S, SettlesOnly(S, "timeout"), Calls' = Calls, UNCHANGED handled
    PROVE  Promise!Expire(S \cap Calls) /\ S \cap Calls \in SUBSET Promise!Waiting
<1>1. "timeout" \in Outcomes
  BY DEF Outcomes
<1>2. S \cap Calls \subseteq Promise!Waiting
  BY <1>1, OutcomeOf, OutcomeDomain DEF Promise!Waiting, Promise!Made
<1>3. Outcome' = [c \in Calls |-> IF c \in S \cap Calls THEN "timeout" ELSE Outcome[c]]
  <2>1. Outcome' = [c \in Calls |-> Outcome'[c]]
    BY DEF Outcome
  <2>2. \A c \in Calls : Outcome'[c] = IF c \in S \cap Calls THEN "timeout" ELSE Outcome[c]
    BY <1>1, OutcomeOf
  <2>. QED BY <2>1, <2>2
<1>4. Outcome' = Promise!TimedOut(S \cap Calls)
  BY <1>3, OutcomeDomain DEF Promise!TimedOut, Promise!Made
<1>. QED BY <1>2, <1>4 DEF Promise!Expire

\* A message is new, and perhaps older ones are given up for it.
NewNumber == Len(msgs) + 1
SettlesNew(S) ==
    /\ SettlesOnly(S, "timeout")
    /\ Numbers' = Numbers \cup {NewNumber}
    /\ settled'[NewNumber] = IF NewNumber \in S THEN <<"timeout">> ELSE <<>>

LEMMA AppendNumbers ==
    ASSUME TypeOK, NEW r, msgs' = Append(msgs, r)
    PROVE  /\ Numbers' = Numbers \cup {NewNumber} /\ NewNumber \notin Numbers
           /\ msgs'[NewNumber] = r /\ Len(msgs') = NewNumber
           /\ \A k \in Numbers : msgs'[k] = msgs[k]
<1>1. msgs \in Seq(Messages) /\ Len(msgs) \in Nat
  BY DEF TypeOK
<1>2. Len(msgs') = Len(msgs) + 1
  BY <1>1
<1>3. \A k \in 1..Len(msgs) : msgs'[k] = msgs[k]
  BY <1>1
<1>4. msgs'[Len(msgs) + 1] = r
  BY <1>1
<1>5. Numbers' = Numbers \cup {NewNumber} /\ NewNumber \notin Numbers
  BY <1>1, <1>2 DEF Numbers, NewNumber
<1>. QED BY <1>2, <1>3, <1>4, <1>5 DEF Numbers, NewNumber

LEMMA SendToSettles ==
    ASSUME TypeOK, NEW r, NEW req, NEW buckets, SendTo(r, req, buckets)
    PROVE  /\ msgs' = Append(msgs, r)
           /\ \E S : SettlesNew(S)
<1> DEFINE m == Len(msgs) + 1
           log == [k \in 1..m |-> IF k = m THEN <<>> ELSE settled[k]]
<1>1. msgs' = Append(msgs, r)
  BY DEF SendTo
<1>2. PICK S : settled' = Settle(log, S, "timeout") \/ (S = {} /\ settled' = log)
  BY DEF SendTo
<1>3. 1..m = Numbers \cup {m} /\ m \notin Numbers
  BY <1>1, AppendNumbers DEF TypeOK, Numbers, NewNumber
<1>4. settled' = [k \in 1..m |-> IF k \in S THEN Append(log[k], "timeout") ELSE log[k]]
  BY <1>2 DEF Settle
<1>5. \A k \in Numbers :
         settled'[k] = IF k \in S THEN Append(settled[k], "timeout") ELSE settled[k]
  BY <1>3, <1>4
<1>6. settled'[m] = IF m \in S THEN <<"timeout">> ELSE <<>>
  BY <1>3, <1>4
<1>7. SettlesNew(S)
  BY <1>1, <1>5, <1>6, AppendNumbers DEF SettlesNew, SettlesOnly, NewNumber
<1>. QED BY <1>1, <1>7

\* A message that is not a call.
LEMMA NoCallStep ==
    ASSUME Context, NEW r, r.id = NoId, msgs' = Append(msgs, r), NEW S, SettlesNew(S),
           UNCHANGED handled
    PROVE  Promise!Expire(S \cap Calls) /\ S \cap Calls \in SUBSET Promise!Waiting
<1>1. Calls' = Calls
  BY AppendNumbers DEF Context, IInv, Calls, IsCall
<1>. QED BY <1>1, ExpireStep DEF SettlesNew

\* A call.
LEMMA MakeStep ==
    ASSUME Context, NEW r, r.id # NoId, msgs' = Append(msgs, r), NEW S, SettlesNew(S),
           UNCHANGED handled, handled \subseteq Numbers
    PROVE  Promise!Make(NewNumber)
<1> DEFINE n == NewNumber
<1>1. Calls' = Calls \cup {n} /\ n \notin Numbers /\ n \notin Calls
  BY AppendNumbers DEF Context, IInv, Calls, IsCall
<1>2. "timeout" \in Outcomes /\ SettlesOnly(S, "timeout")
  BY DEF Outcomes, SettlesNew
<1>3. \A c \in Calls : /\ c \in S => Outcome[c] = "waiting" /\ Outcome'[c] = "timeout"
                       /\ c \notin S => Outcome'[c] = Outcome[c]
  BY <1>2, OutcomeOf
<1>4. Outcome'[n] = IF n \in S THEN "timeout" ELSE "waiting"
  BY <1>1 DEF Outcome, SettlesNew
<1> DEFINE T == S \cap (Calls \cup {n})
<1>5. Outcome' = [d \in Calls \cup {n} |-> IF d \in T THEN "timeout"
                                           ELSE IF d = n THEN "waiting" ELSE Outcome[d]]
  <2>1. Outcome' = [d \in Calls \cup {n} |-> Outcome'[d]]
    BY <1>1 DEF Outcome
  <2>2. \A d \in Calls \cup {n} : Outcome'[d] = IF d \in T THEN "timeout"
                                    ELSE IF d = n THEN "waiting" ELSE Outcome[d]
    BY <1>1, <1>3, <1>4
  <2>. HIDE DEF n, T
  <2>. QED BY <2>1, <2>2
<1>6. T \in SUBSET (Promise!Waiting \cup {n})
  BY <1>3, OutcomeDomain DEF Promise!Waiting, Promise!Made
<1>7. handled' \cap Calls' = handled \cap Calls
  BY <1>1
<1>. QED BY <1>1, <1>5, <1>6, <1>7, OutcomeDomain DEF Promise!Make, Promise!Made

\* The call that an answer to message m settles is m, if it still waits.
LEMMA AnswersOwn ==
    ASSUME IInv, IdsDistinct, NEW m \in Numbers
    PROVE  {rpcRequest[i] : i \in {msgs[m].id} \cap DOMAIN rpcRequest} \in {{}, {m}}
<1> DEFINE id == msgs[m].id
<1>1. CASE id \notin DOMAIN rpcRequest
  BY <1>1
<1>2. CASE id \in DOMAIN rpcRequest
  <2>1. rpcRequest[id] \in Numbers /\ id \in 1..RpcIdMax /\ msgs[rpcRequest[id]].id = id
    BY <1>2 DEF IInv, TypeOK, BucketsExact
  <2>2. rpcRequest[id] = m
    BY <2>1, IdAssumption DEF IdsDistinct, IsCall, NoId
  <2>. QED BY <1>2, <2>2
<1>. QED BY <1>1, <1>2

\* An answer.
LEMMA FulfilStep ==
    ASSUME Context, NEW m \in handled, NEW err \in BOOLEAN, Answer(m, err),
           UNCHANGED <<msgs, handled>>
    PROVE  \/ m \in Calls /\ Promise!Fulfil(m, IF err THEN "error" ELSE "resolved")
           \/ Outcome' = Outcome /\ Calls' = Calls
<1> DEFINE S == {rpcRequest[i] : i \in {msgs[m].id} \cap DOMAIN rpcRequest}
           o == IF err THEN "error" ELSE "resolved"
<1>1. settled' = Settle(settled, S, o)
  BY DEF Answer
<1>2. m \in Numbers
  BY DEF Context, IInv, TypeOK
<1>3. S \in {{}, {m}}
  BY <1>2, AnswersOwn DEF Context
<1>4. DOMAIN settled = Numbers
  BY DEF Context, IInv, TypeOK
<1>5. o \in Outcomes /\ Numbers' = Numbers /\ Calls' = Calls
  BY DEF Outcomes, Numbers, Calls, IsCall
<1> HIDE DEF S, o
<1>6. SettlesOnly(S, o)
  BY <1>1, <1>4, <1>5 DEF SettlesOnly, Settle
<1>7. \A c \in Calls : /\ c \in S => Outcome[c] = "waiting" /\ Outcome'[c] = o
                       /\ c \notin S => Outcome'[c] = Outcome[c]
  BY <1>5, <1>6, OutcomeOf
<1>8. Outcome' = [c \in Calls |-> Outcome'[c]] /\ Outcome = [c \in Calls |-> Outcome[c]]
  BY <1>5 DEF Outcome
<1>9. CASE S = {m} /\ m \in Calls
  <2>1. Outcome' = [Outcome EXCEPT ![m] = o]
    BY <1>7, <1>8, <1>9
  <2>2. m \in Promise!Waiting \cap (handled \cap Calls)
    BY <1>7, <1>9, OutcomeDomain DEF Promise!Waiting, Promise!Made
  <2>3. Promise!Fulfil(m, o)
    BY <2>1, <2>2, <1>5 DEF Promise!Fulfil
  <2>. QED BY <1>9, <2>3 DEF o
<1>10. CASE S = {} \/ m \notin Calls
  <2>1. \A c \in Calls : Outcome'[c] = Outcome[c]
    BY <1>3, <1>7, <1>10
  <2>. QED BY <1>5, <1>8, <2>1
<1>. QED BY <1>3, <1>9, <1>10

(***************************************************************************)
(* The refinement.                                                         *)
(***************************************************************************)

\* The bound on messages holds of calls.
CallsBounded == \A m \in Calls : m \in 1..MaxMsgs

LEMMA CallsBoundedStep ==
    ASSUME TypeOK, CallsBounded, [Next]_vars
    PROVE  CallsBounded'
<1>1. CASE UNCHANGED msgs
  BY <1>1 DEF CallsBounded, Calls, Numbers, IsCall
<1>2. ASSUME NEW r, msgs' = Append(msgs, r), r.id = NoId \/ Len(msgs) < MaxMsgs
      PROVE  CallsBounded'
  <2>1. /\ Numbers' = Numbers \cup {NewNumber} /\ msgs'[NewNumber] = r
        /\ \A k \in Numbers : msgs'[k] = msgs[k]
    BY <1>2, AppendNumbers
  <2>2. r.id # NoId => NewNumber \in 1..MaxMsgs
    BY <1>2, BoundAssumption DEF NewNumber, TypeOK
  <2>. QED BY <2>1, <2>2 DEF CallsBounded, Calls, IsCall
<1>3. ASSUME NEW sid \in Sids, NEW size \in Sizes, SendAwait(sid, size)
      PROVE  CallsBounded'
  BY <1>2, <1>3, SendToSettles DEF SendAwait, CanSend
<1>4. ASSUME NEW sid \in Sids, NEW size \in Sizes, SendNoCallback(sid, size)
      PROVE  CallsBounded'
  BY <1>2, <1>4, SendToSettles DEF SendNoCallback, CanSend
<1>5. CASE SendTNext
  <2>1. PICK one \in cast :
           SendTo([sid |-> one[1], id |-> NoId, time |-> outTime, size |-> one[2]],
                  rpcRequest, rpcRequestBySeconds)
    BY <1>5 DEF SendTNext
  <2>. QED BY <1>2, <2>1, SendToSettles
<1>6. ASSUME NEW size \in Sizes, SendToSelf(size)
      PROVE  CallsBounded'
  BY <1>2, <1>6 DEF SendToSelf, CanSend
<1>7. CASE \/ \E S \in SUBSET Sids \ {{}}, size \in Sizes : SendT(S, size)
           \/ SendAwaitThrows \/ IdsExhausted \/ ResendNext \/ TimerStep \/ Settling
           \/ Link \/ Peers \/ Clock \/ UNCHANGED vars
  BY <1>1, <1>7 DEF SendT, SendAwaitThrows, IdsExhausted, ResendNext, TimerStep, Tick,
       CheckMsgCacheTimeout, CheckRpcTimeout, Settling, SelfHandlerStarts, ReceiveReply,
       SelfHandlerDone, Link, PoolAdd, PoolRemove, Peers, PeerReceives, PeerAnswers, Clock, vars
<1>. QED BY <1>3, <1>4, <1>5, <1>6, <1>7 DEF Next, Send, LoopStep

\* A message goes through sendTo for the first time.
LEMMA PromiseSend ==
    ASSUME Context, CallsBounded', NEW r, NEW req, NEW buckets, SendTo(r, req, buckets),
           UNCHANGED handled
    PROVE  Promise!Next
<1>1. msgs' = Append(msgs, r) /\ TypeOK /\ handled \subseteq Numbers
  BY SendToSettles DEF Context, IInv, TypeOK
<1>2. PICK S : SettlesNew(S)
  BY <1>1, SendToSettles
<1>3. CASE r.id = NoId
  BY <1>1, <1>2, <1>3, NoCallStep DEF Promise!Next
<1>4. CASE r.id # NoId
  <2>1. Promise!Make(NewNumber)
    BY <1>1, <1>2, <1>4, MakeStep
  <2>2. NewNumber \in 1..MaxMsgs
    BY <1>1, <1>4, AppendNumbers DEF CallsBounded, Calls, IsCall
  <2>. QED BY <2>1, <2>2 DEF Promise!Next
<1>. QED BY <1>3, <1>4

LEMMA PromiseSelf ==
    ASSUME Context, CallsBounded', NEW size \in Sizes, SendToSelf(size)
    PROVE  Promise!Next
<1>1. PICK k \in 1..FindMax :
        /\ msgs' = Append(msgs, [sid |-> Self, id |-> IdAfter(k), time |-> outTime,
                                 size |-> size])
        /\ settled' = [n \in 1..(Len(msgs) + 1) |->
                          IF n = Len(msgs) + 1 THEN <<>> ELSE settled[n]]
  BY DEF SendToSelf
<1> DEFINE r == [sid |-> Self, id |-> IdAfter(k), time |-> outTime, size |-> size]
<1>2. /\ TypeOK /\ handled \subseteq Numbers /\ UNCHANGED handled
      /\ k \in Nat /\ rpcId \in 1..RpcIdMax
  BY DEF Context, IInv, TypeOK, SendToSelf, peerVars
<1>3. r.id \in 1..RpcIdMax
  BY <1>2, IdTyped
<1> HIDE DEF r
<1>4. msgs' = Append(msgs, r)
  BY <1>1 DEF r
<1>5. /\ Numbers' = Numbers \cup {NewNumber} /\ NewNumber \notin Numbers
      /\ \A n \in Numbers : msgs'[n] = msgs[n]
      /\ msgs'[NewNumber] = r
  BY <1>2, <1>4, AppendNumbers
<1>6. 1..(Len(msgs) + 1) = Numbers \cup {NewNumber}
  <2>1. Len(msgs) \in Nat
    BY <1>2 DEF TypeOK
  <2>. QED BY <2>1 DEF Numbers, NewNumber
<1>7. SettlesNew({})
  BY <1>1, <1>5, <1>6 DEF SettlesNew, SettlesOnly, NewNumber
<1>8. r.id # NoId
  BY <1>3 DEF NoId
<1>9. Promise!Make(NewNumber)
  BY <1>2, <1>4, <1>7, <1>8, MakeStep
<1>10. NewNumber \in 1..MaxMsgs
  BY <1>5, <1>8 DEF CallsBounded, Calls, IsCall
<1>. QED BY <1>9, <1>10 DEF Promise!Next

\* Calls are given up by the timer.
LEMMA PromiseTimeout ==
    ASSUME Context, CheckMsgCacheTimeout \/ CheckRpcTimeout
    PROVE  Promise!Next
<1>1. PICK S : settled' = Settle(settled, S, "timeout")
  BY DEF CheckMsgCacheTimeout, CheckRpcTimeout
<1>2. UNCHANGED <<msgs, handled>>
  BY DEF CheckMsgCacheTimeout, CheckRpcTimeout, peerVars
<1>3. DOMAIN settled = Numbers
  BY DEF Context, IInv, TypeOK
<1>4. Numbers' = Numbers /\ Calls' = Calls
  BY <1>2 DEF Numbers, Calls, IsCall
<1>5. SettlesOnly(S, "timeout")
  BY <1>1, <1>2, <1>3, <1>4 DEF SettlesOnly, Settle
<1>. QED BY <1>2, <1>4, <1>5, ExpireStep DEF Promise!Next

\* An answer settles its call or nothing.
LEMMA PromiseAnswer ==
    ASSUME Context, CallsBounded, NEW m \in Numbers, NEW err \in BOOLEAN,
           ReceiveReply(m, err) \/ SelfHandlerDone(m, err)
    PROVE  [Promise!Next]_(Promise!vars)
<1>1. Answer(m, err) /\ UNCHANGED <<msgs, handled>>
  BY DEF ReceiveReply, SelfHandlerDone
<1>2. m \in handled
  BY DEF ReceiveReply, SelfHandlerDone, Context, OrderInv, Placement
<1>3. CASE m \in Calls /\ Promise!Fulfil(m, IF err THEN "error" ELSE "resolved")
  <2>1. m \in 1..MaxMsgs
    BY <1>3 DEF CallsBounded
  <2>2. (IF err THEN "error" ELSE "resolved") \in Promise!Results
    BY DEF Promise!Results
  <2>. QED BY <1>3, <2>1, <2>2 DEF Promise!Next
<1>4. CASE Outcome' = Outcome /\ Calls' = Calls
  BY <1>1, <1>4 DEF Promise!vars
<1>. QED BY <1>1, <1>2, <1>3, <1>4, FulfilStep

\* A handler starts: that of a call, or of a message nobody waits for.
LEMMA PromiseStart ==
    ASSUME CallsBounded, NEW m \in Numbers \ handled, UNCHANGED <<msgs, settled>>,
           handled' = handled \cup {m}
    PROVE  [Promise!Next]_(Promise!vars)
<1>1. Outcome' = Outcome /\ Calls' = Calls
  BY NothingSettled
<1>2. CASE m \in Calls
  <2>1. (handled \cap Calls)' = (handled \cap Calls) \cup {m}
    BY <1>1, <1>2
  <2>2. Promise!Start(m)
    BY <1>1, <1>2, <2>1, OutcomeDomain DEF Promise!Start, Promise!Made
  <2>. QED BY <1>2, <2>2 DEF Promise!Next, CallsBounded
<1>3. CASE m \notin Calls
  BY <1>1, <1>3 DEF Promise!vars
<1>. QED BY <1>2, <1>3

\* The head of the wire has not been handled before.
LEMMA PromiseReceive ==
    ASSUME Context, CallsBounded, NEW sid \in Sids, PeerReceives(sid)
    PROVE  [Promise!Next]_(Promise!vars)
<1> DEFINE m == Head(wire[sid])
<1>1. wire[sid] \in Seq(Numbers) /\ wire[sid] # <<>> /\ handled \subseteq Numbers
  BY DEF PeerReceives, Context, IInv, TypeOK
<1>2. 1 \in DOMAIN wire[sid] /\ m = wire[sid][1] /\ m \in Numbers
  BY <1>1
<1>3. msgs[m].sid = sid
  BY <1>2 DEF Context, OrderInv, Placement
<1>4. m \in handled => m < m
  BY <1>2, <1>3 DEF Context, OrderInv, InOrderOnce
<1>5. m \notin handled
  BY <1>2, <1>4 DEF Numbers
<1>6. UNCHANGED <<msgs, settled>> /\ handled' = handled \cup {m}
  BY DEF PeerReceives, callVars
<1>. QED BY <1>2, <1>5, <1>6, PromiseStart

\* Every step of the engine is a step of the promise, or none.
LEMMA PromiseStep ==
    ASSUME Context, CallsBounded, CallsBounded', [Next]_vars
    PROVE  [Promise!Next]_(Promise!vars)
<1>1. CASE UNCHANGED <<msgs, settled, handled>>
  BY <1>1, NothingSettled DEF Promise!vars
<1>2. ASSUME NEW sid \in Sids, NEW size \in Sizes,
             SendAwait(sid, size) \/ SendNoCallback(sid, size)
      PROVE  Promise!Next
  <2>1. UNCHANGED handled
    BY <1>2 DEF SendAwait, SendNoCallback, peerVars
  <2>2. PICK r, req, buckets : SendTo(r, req, buckets)
    BY <1>2 DEF SendAwait, SendNoCallback
  <2>. QED BY <2>1, <2>2, PromiseSend
<1>3. CASE SendTNext
  <2>1. UNCHANGED handled
    BY <1>3 DEF SendTNext, peerVars
  <2>2. PICK r, req, buckets : SendTo(r, req, buckets)
    BY <1>3 DEF SendTNext
  <2>. QED BY <2>1, <2>2, PromiseSend
<1>4. ASSUME NEW size \in Sizes, SendToSelf(size)
      PROVE  Promise!Next
  BY <1>4, PromiseSelf
<1>5. CASE CheckMsgCacheTimeout \/ CheckRpcTimeout
  BY <1>5, PromiseTimeout
<1>6. CASE Settling
  <2>1. ASSUME NEW m \in Numbers, SelfHandlerStarts(m)
        PROVE  [Promise!Next]_(Promise!vars)
    BY <2>1, PromiseStart DEF SelfHandlerStarts, callVars
  <2>. QED BY <1>6, <2>1, PromiseAnswer DEF Settling
<1>7. CASE Peers
  <2>1. ASSUME NEW m \in Numbers, NEW err \in BOOLEAN, PeerAnswers(m, err)
        PROVE  UNCHANGED <<msgs, settled, handled>>
    BY <2>1 DEF PeerAnswers, callVars
  <2>. QED BY <1>1, <1>7, <2>1, PromiseReceive DEF Peers
<1>8. CASE \/ \E S \in SUBSET Sids \ {{}}, size \in Sizes : SendT(S, size)
           \/ SendAwaitThrows \/ IdsExhausted \/ ResendNext \/ Tick
           \/ Link \/ Clock \/ UNCHANGED vars
  <2>1. UNCHANGED <<msgs, settled, handled>>
    BY <1>8 DEF SendT, SendAwaitThrows, IdsExhausted, ResendNext, Tick, Link, PoolAdd,
         PoolRemove, Clock, vars, callVars, peerVars
  <2>. QED BY <1>1, <2>1
<1>. QED BY <1>2, <1>3, <1>4, <1>5, <1>6, <1>7, <1>8 DEF Next, Send, LoopStep, TimerStep

LEMMA PromiseInit == Init => Promise!Init /\ CallsBounded
<1> SUFFICES ASSUME Init PROVE Promise!Init /\ CallsBounded
  OBVIOUS
<1>1. Numbers = {}
  BY DEF Init, Numbers
<1>2. Calls = {}
  BY <1>1 DEF Calls
<1>. QED BY <1>2 DEF Promise!Init, CallsBounded, Outcome

\* While no id is used twice the engine keeps the promise of RpcPromise to its
\* callers: each call is settled at most once and keeps its outcome, its handler
\* runs at most once, and a result comes only from a handler that ran.
THEOREM EnginePromises == Spec /\ []IdsDistinct => PromiseKept
<1>1. Init => Promise!Init /\ CallsBounded
  BY PromiseInit
<1>2. IInv /\ CallsBounded /\ [Next]_vars => CallsBounded'
  BY CallsBoundedStep DEF IInv
<1>3. /\ IInv /\ OrderInv /\ IdsDistinct /\ CallsBounded /\ [Next]_vars
      /\ IInv' /\ IdsDistinct' /\ CallsBounded'
      => [Promise!Next]_(Promise!vars)
  BY PromiseStep DEF Context
<1>. QED BY <1>1, <1>2, <1>3, Invariance, PTL DEF Spec, PromiseKept, Promise!Spec

(***************************************************************************)
(* A result comes from the call's own answer.                              *)
(***************************************************************************)

\* What was appended to the outcomes of a message is the last of them.
LEMMA LastSettled ==
    ASSUME TypeOK, NEW S, NEW o \in Outcomes, SettlesOnly(S, o), NEW m \in Numbers,
           settled'[m] # settled[m]
    PROVE  m \in S /\ settled'[m][Len(settled'[m])] = o
<1>1. m \in S /\ settled'[m] = Append(settled[m], o)
  BY DEF SettlesOnly
<1>2. settled[m] \in Seq(Outcomes)
  BY LogTyped
<1>. QED BY <1>1, <1>2

LEMMA TimeoutsOnly ==
    ASSUME TypeOK, NEW S, SettlesOnly(S, "timeout")
    PROVE  SettlesByOwnAnswer
<1>1. "timeout" \in Outcomes
  BY DEF Outcomes
<1>. QED BY <1>1, LastSettled DEF SettlesByOwnAnswer

LEMMA OwnAnswerStep ==
    ASSUME Context, NEW m \in Numbers, NEW err \in BOOLEAN,
           ReceiveReply(m, err) \/ SelfHandlerDone(m, err)
    PROVE  SettlesByOwnAnswer
<1> DEFINE S == {rpcRequest[i] : i \in {msgs[m].id} \cap DOMAIN rpcRequest}
           o == IF err THEN "error" ELSE "resolved"
<1>1. settled' = Settle(settled, S, o) /\ UNCHANGED msgs
  BY DEF Answer, ReceiveReply, SelfHandlerDone
<1>2. S \in {{}, {m}}
  BY AnswersOwn DEF Context
<1>3. DOMAIN settled = Numbers /\ Numbers' = Numbers /\ TypeOK
  BY <1>1 DEF Context, IInv, TypeOK, Numbers
<1>4. o \in Outcomes /\ (o = "error") = err
  BY DEF Outcomes
<1> HIDE DEF S, o
<1>5. SettlesOnly(S, o)
  BY <1>1, <1>3 DEF SettlesOnly, Settle
<1> SUFFICES ASSUME NEW k \in Numbers, settled'[k] # settled[k]
             PROVE  \/ /\ msgs[k].sid = Self
                       /\ k \in serving \ serving'
                    \/ <<k, settled'[k][Len(settled'[k])] = "error">>
                          \in replies \ replies'
  BY DEF SettlesByOwnAnswer
<1>6. k = m /\ settled'[k][Len(settled'[k])] = o
  BY <1>2, <1>3, <1>4, <1>5, LastSettled
<1>7. CASE SelfHandlerDone(m, err)
  BY <1>6, <1>7 DEF SelfHandlerDone
<1>8. CASE ReceiveReply(m, err)
  <2>1. <<m, err>> \in replies \ replies'
    BY <1>8 DEF ReceiveReply
  <2>. QED BY <1>4, <1>6, <2>1
<1>. QED BY <1>7, <1>8

LEMMA OwnStep ==
    ASSUME Context, [Next]_vars
    PROVE  SettlesByOwnAnswer
<1>0. TypeOK
  BY DEF Context, IInv
<1>1. CASE UNCHANGED settled
  BY <1>1 DEF SettlesByOwnAnswer
<1>2. ASSUME NEW r, NEW req, NEW buckets, SendTo(r, req, buckets)
      PROVE  SettlesByOwnAnswer
  BY <1>0, <1>2, SendToSettles, TimeoutsOnly DEF SettlesNew
<1>3. ASSUME NEW size \in Sizes, SendToSelf(size)
      PROVE  SettlesByOwnAnswer
  <2>1. settled' = [n \in 1..(Len(msgs) + 1) |->
                       IF n = Len(msgs) + 1 THEN <<>> ELSE settled[n]]
    BY <1>3 DEF SendToSelf
  <2>2. Len(msgs) \in Nat
    BY <1>0 DEF TypeOK
  <2>3. \A n \in Numbers : settled'[n] = settled[n]
    BY <2>1, <2>2 DEF Numbers
  <2>. QED BY <2>3 DEF SettlesByOwnAnswer
<1>4. CASE CheckMsgCacheTimeout \/ CheckRpcTimeout
  <2>1. PICK S : settled' = Settle(settled, S, "timeout")
    BY <1>4 DEF CheckMsgCacheTimeout, CheckRpcTimeout
  <2>2. UNCHANGED msgs /\ DOMAIN settled = Numbers
    BY <1>0, <1>4 DEF CheckMsgCacheTimeout, CheckRpcTimeout, TypeOK
  <2>3. SettlesOnly(S, "timeout")
    BY <2>1, <2>2 DEF SettlesOnly, Settle, Numbers
  <2>. QED BY <1>0, <2>3, TimeoutsOnly
<1>5. ASSUME NEW m \in Numbers, NEW err \in BOOLEAN,
             ReceiveReply(m, err) \/ SelfHandlerDone(m, err)
      PROVE  SettlesByOwnAnswer
  BY <1>5, OwnAnswerStep
<1>6. CASE \/ \E S \in SUBSET Sids \ {{}}, size \in Sizes : SendT(S, size)
           \/ SendAwaitThrows \/ IdsExhausted \/ ResendNext \/ Tick
           \/ Link \/ Peers \/ Clock \/ (\E m \in Numbers : SelfHandlerStarts(m))
           \/ UNCHANGED vars
  BY <1>1, <1>6 DEF SendT, SendAwaitThrows, IdsExhausted, ResendNext, Tick, Link, PoolAdd,
         PoolRemove, Peers, PeerReceives, PeerAnswers, Clock, SelfHandlerStarts, vars, callVars
<1>7. ASSUME NEW sid \in Sids, NEW size \in Sizes,
             SendAwait(sid, size) \/ SendNoCallback(sid, size)
      PROVE  SettlesByOwnAnswer
  BY <1>2, <1>7 DEF SendAwait, SendNoCallback
<1>8. CASE SendTNext
  BY <1>2, <1>8 DEF SendTNext
<1>. QED BY <1>3, <1>4, <1>5, <1>6, <1>7, <1>8 DEF Next, Send, LoopStep, TimerStep, Settling

\* While no id is used twice, a call is resolved or rejected by the answer to that
\* very call and with the result it carries, however late, reordered and mixed
\* with the answers to other calls it arrives; everything else is a timeout.
THEOREM AnswersMatch == Spec /\ []IdsDistinct => OwnAnswer
<1>1. /\ IInv /\ OrderInv /\ IdsDistinct /\ [Next]_vars /\ IInv' /\ IdsDistinct'
      => [SettlesByOwnAnswer]_vars
  BY OwnStep DEF Context
<1>. QED BY <1>1, Invariance, PTL DEF Spec, OwnAnswer

(***************************************************************************)
(* A request is sent while there is time for its answer.                   *)
(***************************************************************************)

\* How old the last tick can be.
MaxLag == Max({TickLag, TickSpan})

LEMMA MaxLagBounds == MaxLag \in Int /\ TickLag <= MaxLag /\ TickSpan <= MaxLag
<1>1. TickLag \in Int /\ TickSpan \in Int
  BY LagAssumption
<1>2. \E x \in {TickLag, TickSpan} : \A y \in {TickLag, TickSpan} : x >= y
  BY <1>1
<1>3. /\ MaxLag \in {TickLag, TickSpan}
      /\ \A y \in {TickLag, TickSpan} : MaxLag >= y
  BY <1>2 DEF MaxLag, Max
<1>. QED BY <1>1, <1>3

TickRecent == now - (outTime - RpcTimeMax) <= MaxLag

\* Outside the beginning of a tick, a cached message has at least CacheMargin
\* seconds to go, counted from that tick.
CacheFresh ==
    phase # "checkCache" =>
        \A m \in msgCacheList \cup resend : CacheTime(m) > outTime - RpcTimeMax

TimeInv == TickRecent /\ CacheFresh

LEMMA TimeInit == Init => TimeInv
<1>1. ASSUME Init PROVE TickRecent /\ CacheFresh
  BY <1>1, MaxLagBounds, LagAssumption, RpcTimeMaxAssumption
     DEF Init, TickRecent, CacheFresh
<1>. QED BY <1>1 DEF TimeInv

LEMMA TickRecentStep ==
    ASSUME TypeOK, TickRecent, [Next]_vars
    PROVE  TickRecent'
<1>0. now \in Int /\ outTime \in Int /\ RpcTimeMax \in Int
  BY RpcTimeMaxAssumption DEF TypeOK
<1>1. CASE UNCHANGED <<now, outTime>>
  BY <1>1 DEF TickRecent
<1>2. CASE Clock
  <2>1. now' = now + 1 /\ outTime' = outTime
    BY <1>2 DEF Clock
  <2>2. now - (outTime - RpcTimeMax) < TickSpan \/ now - (outTime - RpcTimeMax) < TickLag
    BY <1>2 DEF Clock
  <2>3. TickLag \in Int /\ TickSpan \in Int
    BY LagAssumption
  <2>. QED BY <1>0, <2>1, <2>2, <2>3, MaxLagBounds DEF TickRecent
<1>3. CASE Tick
  <2>1. now' = now /\ outTime' = now + RpcTimeMax
    BY <1>3 DEF Tick
  <2>. QED BY <1>0, <2>1, MaxLagBounds, LagAssumption DEF TickRecent
<1>. QED BY <1>1, <1>2, <1>3
         DEF Next, Send, SendAwait, SendNoCallback, SendToSelf, SendT, SendAwaitThrows,
             IdsExhausted, LoopStep, SendTNext, ResendNext, TimerStep, CheckMsgCacheTimeout,
             CheckRpcTimeout, Settling, SelfHandlerStarts, ReceiveReply, SelfHandlerDone,
             Link, PoolAdd, PoolRemove, Peers, PeerReceives, PeerAnswers, vars

\* A message that is cached now has the deadline of the last tick.
LEMMA FreshSend ==
    ASSUME IInv, CacheFresh, NEW r, r.time = outTime, NEW req, NEW buckets,
           SendTo(r, req, buckets), phase # "checkCache",
           UNCHANGED <<outTime, resend>>
    PROVE  CacheFresh'
<1>1. msgs' = Append(msgs, r) /\ TypeOK
  BY SendToSettles DEF IInv
<1>2. /\ msgs'[NewNumber] = r /\ \A k \in Numbers : msgs'[k] = msgs[k]
  BY <1>1, AppendNumbers
<1>3. msgCacheList' \subseteq msgCacheList \cup {NewNumber}
  BY DEF SendTo, NewNumber, cacheVars
<1>4. msgCacheList \subseteq Numbers /\ resend \subseteq Numbers
  BY <1>1 DEF TypeOK
<1>5. outTime - CacheMargin > outTime - RpcTimeMax
  BY <1>1, RpcTimeMaxAssumption DEF TypeOK, CacheMargin
<1>. QED BY <1>2, <1>3, <1>4, <1>5 DEF CacheFresh, CacheTime

LEMMA CacheFreshStep ==
    ASSUME IInv, IInv', CacheFresh, [Next]_vars
    PROVE  CacheFresh'
<1>0. msgCacheList \subseteq Numbers /\ resend \subseteq Numbers /\ TypeOK
  BY DEF IInv, TypeOK
<1>1. ASSUME phase' = "checkCache" \/ phase # "checkCache",
             UNCHANGED <<outTime, msgs>>,
             msgCacheList' \cup resend' \subseteq msgCacheList \cup resend
      PROVE  CacheFresh'
  BY <1>1 DEF CacheFresh, CacheTime
<1>2. ASSUME NEW sid \in Sids, NEW size \in Sizes,
             SendAwait(sid, size) \/ SendNoCallback(sid, size)
      PROVE  CacheFresh'
  <2>1. PICK r, req, buckets : SendTo(r, req, buckets) /\ r.time = outTime
    <3>1. CASE SendAwait(sid, size)
      <4>1. PICK k \in 1..FindMax :
               SendTo([sid |-> sid, id |-> IdAfter(k), time |-> outTime, size |-> size],
                      RequestWith(IdAfter(k), Len(msgs) + 1), BucketsWith(IdAfter(k)))
        BY <3>1 DEF SendAwait
      <4> DEFINE r == [sid |-> sid, id |-> IdAfter(k), time |-> outTime, size |-> size]
      <4>2. r.time = outTime
        OBVIOUS
      <4> HIDE DEF r
      <4>. QED BY <4>1, <4>2 DEF r
    <3>2. CASE SendNoCallback(sid, size)
      <4> DEFINE r == [sid |-> sid, id |-> NoId, time |-> outTime, size |-> size]
      <4>1. SendTo(r, rpcRequest, rpcRequestBySeconds)
        BY <3>2 DEF SendNoCallback
      <4>2. r.time = outTime
        OBVIOUS
      <4> HIDE DEF r
      <4>. QED BY <4>1, <4>2
    <3>. QED BY <1>2, <3>1, <3>2
  <2>2. phase # "checkCache" /\ UNCHANGED <<outTime, resend>>
    BY <1>2 DEF SendAwait, SendNoCallback, CanSend, loopVars
  <2>. QED BY <2>1, <2>2, FreshSend
<1>3. CASE SendTNext
  <2>1. PICK one \in cast :
           SendTo([sid |-> one[1], id |-> NoId, time |-> outTime, size |-> one[2]],
                  rpcRequest, rpcRequestBySeconds)
    BY <1>3 DEF SendTNext
  <2>2. phase # "checkCache" /\ UNCHANGED <<outTime, resend>>
    BY <1>3 DEF SendTNext
  <2>. QED BY <2>1, <2>2, FreshSend
<1>4. ASSUME NEW size \in Sizes, SendToSelf(size)
      PROVE  CacheFresh'
  <2>1. PICK r : msgs' = Append(msgs, r)
    BY <1>4 DEF SendToSelf
  <2>2. phase # "checkCache" /\ UNCHANGED <<outTime, resend, msgCacheList>>
    BY <1>4 DEF SendToSelf, CanSend, loopVars, cacheVars
  <2>3. \A k \in Numbers : msgs'[k] = msgs[k]
    BY <1>0, <2>1, AppendNumbers
  <2>. QED BY <1>0, <2>2, <2>3 DEF CacheFresh, CacheTime
<1>5. CASE Tick
  BY <1>5 DEF Tick, CacheFresh
<1>6. CASE CheckMsgCacheTimeout
  <2>1. phase' = "checkRpc"
    BY <1>6 DEF CheckMsgCacheTimeout
  <2>2. CacheChecked' /\ ResendInPhase'
    BY DEF IInv
  <2>. QED BY <2>1, <2>2 DEF CacheChecked, ResendInPhase, CacheFresh, CacheTime
<1>7. CASE LoopStep
  <2>1. ASSUME ResendNext PROVE CacheFresh'
    BY <1>1, <2>1 DEF ResendNext, cacheVars
  <2>. QED BY <1>3, <1>7, <2>1 DEF LoopStep
<1>8. CASE Link
  <2>1. ASSUME NEW sid \in Sids, PoolAdd(sid) PROVE CacheFresh'
    BY <1>1, <2>1 DEF PoolAdd
  <2>2. ASSUME NEW sid \in Sids, PoolRemove(sid) PROVE CacheFresh'
    BY <1>1, <2>2 DEF PoolRemove, cacheVars, loopVars
  <2>. QED BY <1>8, <2>1, <2>2 DEF Link
<1>9. CASE \/ \E S \in SUBSET Sids \ {{}}, size \in Sizes : SendT(S, size)
           \/ SendAwaitThrows \/ IdsExhausted \/ CheckRpcTimeout
           \/ Settling \/ Peers \/ Clock \/ UNCHANGED vars
  <2>1. UNCHANGED <<outTime, msgs, msgCacheList, resend>>
    BY <1>9 DEF SendT, SendAwaitThrows, IdsExhausted, CheckRpcTimeout, Settling,
         SelfHandlerStarts, ReceiveReply, SelfHandlerDone, Peers, PeerReceives,
         PeerAnswers, Clock, vars, cacheVars, loopVars
  <2>2. phase' = "checkCache" \/ phase # "checkCache"
    BY <1>9 DEF SendT, SendAwaitThrows, IdsExhausted, CheckRpcTimeout, CanSend, Settling,
         SelfHandlerStarts, ReceiveReply, SelfHandlerDone, Peers, PeerReceives,
         PeerAnswers, Clock, vars
  <2>. QED BY <1>1, <2>1, <2>2
<1>. QED BY <1>2, <1>3, <1>4, <1>5, <1>6, <1>7, <1>8, <1>9
         DEF Next, Send, LoopStep, TimerStep

\* A call that goes to its socket at once.
LEMMA SendInTime ==
    ASSUME IInv, IInv', TickRecent, NEW r, r.time = outTime, NEW req, NEW buckets,
           r.id # NoId => r.id \in DOMAIN req /\ req[r.id] = Len(msgs) + 1,
           SendTo(r, req, buckets), UNCHANGED now
    PROVE  SendsInTime
<1> SUFFICES ASSUME NEW m \in 1..Len(msgs'), Transmits(m), msgs'[m].id # NoId
             PROVE  Pending(m)' /\ outTime = msgs'[m].time
  <2>1. now \in Int /\ outTime \in Int /\ RpcTimeMax \in Int /\ RpcTimeMax >= 5
    BY RpcTimeMaxAssumption DEF IInv, TypeOK
  <2>2. outTime - now >= CacheMargin + 1 - MaxLag
    BY <2>1, MaxLagBounds DEF TickRecent, CacheMargin
  <2>. QED BY <2>2 DEF SendsInTime, MaxLag
<1>1. msgs' = Append(msgs, r) /\ TypeOK
  BY SendToSettles DEF IInv
<1>2. msgs'[NewNumber] = r
  BY <1>1, AppendNumbers
<1>3. wire' # wire
  BY DEF Transmits
<1>4. /\ wire' = [wire EXCEPT ![r.sid] = Append(@, NewNumber)]
      /\ rpcRequest' = req
  BY <1>3 DEF SendTo, NewNumber
<1>5. msgs'[m].sid \in Sids /\ wire \in [Sids -> Seq(Numbers)]
  BY <1>1 DEF Transmits, TypeOK
<1> DEFINE w == wire[msgs'[m].sid]
<1>6. wire'[msgs'[m].sid] \in {w, Append(w, NewNumber)}
  BY <1>4, <1>5
<1>7. m = NewNumber
  <2>1. w \in Seq(Numbers)
    BY <1>5
  <2>2. PICK i \in DOMAIN wire'[msgs'[m].sid] : wire'[msgs'[m].sid][i] = m
    BY DEF Transmits
  <2>3. ~ \E j \in DOMAIN w : w[j] = m
    BY DEF Transmits
  <2>4. wire'[msgs'[m].sid] = Append(w, NewNumber)
    BY <1>6, <2>2, <2>3
  <2> HIDE DEF w
  <2>5. i \in 1..(Len(w) + 1) /\ Append(w, NewNumber)[i] = m
    BY <2>1, <2>2, <2>4
  <2>6. i # Len(w) + 1 => i \in DOMAIN w /\ w[i] = m
    BY <2>1, <2>5
  <2>. QED BY <2>1, <2>3, <2>5, <2>6
<1>8. r.id \in DOMAIN rpcRequest' /\ rpcRequest'[r.id] = m
  BY <1>2, <1>4, <1>7 DEF NewNumber
<1>. QED BY <1>2, <1>7, <1>8 DEF Pending

\* A cached call that goes to its new socket.
LEMMA ResendInTime ==
    ASSUME IInv, IdsDistinct, TimeInv, ResendNext
    PROVE  SendsInTime
<1>1. PICK n \in resend : wire' = [wire EXCEPT ![msgs[n].sid] = Append(@, n)]
  BY DEF ResendNext
<1>2. UNCHANGED <<msgs, rpcRequest, now>> /\ phase = "resend"
  BY DEF ResendNext, callVars
<1> SUFFICES ASSUME NEW m \in 1..Len(msgs), Transmits(m), msgs[m].id # NoId
             PROVE  /\ Pending(m)'
                    /\ msgs[m].time - now >= CacheMargin + 1 - MaxLag
  BY <1>2 DEF SendsInTime, MaxLag
<1>3. msgs[m].sid \in Sids /\ wire \in [Sids -> Seq(Numbers)]
  BY <1>2 DEF Transmits, IInv, TypeOK
<1> DEFINE w == wire[msgs[m].sid]
<1>4. wire'[msgs[m].sid] \in {w, Append(w, n)}
  BY <1>1, <1>3
<1>5. m = n
  <2>1. w \in Seq(Numbers)
    BY <1>3
  <2>2. PICK i \in DOMAIN wire'[msgs[m].sid] : wire'[msgs[m].sid][i] = m
    BY <1>2 DEF Transmits
  <2>3. ~ \E j \in DOMAIN w : w[j] = m
    BY <1>2 DEF Transmits
  <2>4. wire'[msgs[m].sid] = Append(w, n)
    BY <1>4, <2>2, <2>3
  <2> HIDE DEF w
  <2>5. i \in 1..(Len(w) + 1) /\ Append(w, n)[i] = m
    BY <2>1, <2>2, <2>4
  <2>6. i # Len(w) + 1 => i \in DOMAIN w /\ w[i] = m
    BY <2>1, <2>5
  <2>. QED BY <2>1, <2>3, <2>5, <2>6
<1>6. Pending(m)
  BY <1>5 DEF IInv, CachedPending, IsCall, Pending
<1>7. msgs[m].time - CacheMargin > outTime - RpcTimeMax
  BY <1>2, <1>5 DEF TimeInv, CacheFresh, CacheTime
<1>8. /\ now \in Int /\ outTime \in Int /\ RpcTimeMax \in Int /\ msgs[m].time \in Int
  BY RpcTimeMaxAssumption, MessageTyped DEF IInv, TypeOK, Numbers
<1>9. now - (outTime - RpcTimeMax) <= MaxLag
  BY DEF TimeInv, TickRecent
<1>10. msgs[m].time - now >= CacheMargin + 1 - MaxLag
  BY <1>7, <1>8, <1>9, MaxLagBounds DEF CacheMargin
<1>. QED BY <1>2, <1>6, <1>10 DEF Pending

LEMMA InTimeStep ==
    ASSUME Context, TimeInv, [Next]_vars
    PROVE  SendsInTime
<1>0. IInv /\ IInv' /\ TickRecent /\ wire \in [Sids -> Seq(Numbers)]
  BY DEF Context, TimeInv, IInv, TypeOK
<1>1. ASSUME \A sid \in Sids : \A i \in DOMAIN wire'[sid] :
                \E j \in DOMAIN wire[sid] : wire[sid][j] = wire'[sid][i]
      PROVE  SendsInTime
  BY <1>1 DEF SendsInTime, Transmits
<1>2. CASE UNCHANGED wire
  BY <1>1, <1>2
<1>3. ASSUME NEW sid \in Sids, NEW size \in Sizes, SendAwait(sid, size)
      PROVE  SendsInTime
  <2>1. PICK k \in 1..FindMax :
           SendTo([sid |-> sid, id |-> IdAfter(k), time |-> outTime, size |-> size],
                  RequestWith(IdAfter(k), Len(msgs) + 1), BucketsWith(IdAfter(k)))
    BY <1>3 DEF SendAwait
  <2>2. UNCHANGED now
    BY <1>3 DEF SendAwait
  <2>3. LET req == RequestWith(IdAfter(k), Len(msgs) + 1)
        IN  IdAfter(k) \in DOMAIN req /\ req[IdAfter(k)] = Len(msgs) + 1
    BY DEF RequestWith
  <2>. QED BY <1>0, <2>1, <2>2, <2>3, SendInTime
<1>4. ASSUME NEW sid \in Sids, NEW size \in Sizes, SendNoCallback(sid, size)
      PROVE  SendsInTime
  BY <1>0, <1>4, SendInTime DEF SendNoCallback
<1>5. CASE SendTNext
  <2>1. PICK one \in cast :
           SendTo([sid |-> one[1], id |-> NoId, time |-> outTime, size |-> one[2]],
                  rpcRequest, rpcRequestBySeconds)
    BY <1>5 DEF SendTNext
  <2>2. UNCHANGED now
    BY <1>5 DEF SendTNext
  <2>. QED BY <1>0, <2>1, <2>2, SendInTime
<1>6. CASE ResendNext
  BY <1>6, ResendInTime DEF Context
<1>7. ASSUME NEW sid \in Sids, PoolRemove(sid)
      PROVE  SendsInTime
  <2>1. PICK n \in 0..Len(wire[sid]) : wire' = [wire EXCEPT ![sid] = SubSeq(@, 1, n)]
    BY <1>7 DEF PoolRemove
  <2>2. wire[sid] \in Seq(Numbers)
    BY <1>0
  <2>3. \A i \in DOMAIN SubSeq(wire[sid], 1, n) :
           i \in DOMAIN wire[sid] /\ SubSeq(wire[sid], 1, n)[i] = wire[sid][i]
    BY <2>1, <2>2
  <2>. QED BY <1>0, <1>1, <2>1, <2>3
<1>8. ASSUME NEW sid \in Sids, PeerReceives(sid)
      PROVE  SendsInTime
  <2>1. wire' = [wire EXCEPT ![sid] = Tail(@)] /\ wire[sid] # <<>>
    BY <1>8 DEF PeerReceives
  <2>2. wire[sid] \in Seq(Numbers)
    BY <1>0
  <2>3. \A i \in DOMAIN Tail(wire[sid]) :
           i + 1 \in DOMAIN wire[sid] /\ Tail(wire[sid])[i] = wire[sid][i + 1]
    BY <2>1, <2>2
  <2>. QED BY <1>0, <1>1, <2>1, <2>3
<1>9. CASE \/ \E size \in Sizes : SendToSelf(size)
           \/ \E S \in SUBSET Sids \ {{}}, size \in Sizes : SendT(S, size)
           \/ SendAwaitThrows \/ IdsExhausted \/ TimerStep \/ Settling
           \/ (\E sid \in Sids : PoolAdd(sid))
           \/ (\E m \in Numbers, err \in BOOLEAN : PeerAnswers(m, err))
           \/ Clock \/ UNCHANGED vars
  BY <1>2, <1>9 DEF SendToSelf, SendT, SendAwaitThrows, IdsExhausted, TimerStep, Tick,
       CheckMsgCacheTimeout, CheckRpcTimeout, Settling, SelfHandlerStarts, ReceiveReply,
       SelfHandlerDone, PoolAdd, PeerAnswers, Clock, vars
<1>. QED BY <1>3, <1>4, <1>5, <1>6, <1>7, <1>8, <1>9
         DEF Next, Send, LoopStep, Link, Peers

\* For any rpcTimeMax of at least 5 s, and while no id is used twice, a request
\* handed to a socket - at once, or from the cache when its server comes back -
\* is still awaited, and will be for CacheMargin + 1 s less the age of the last tick.
THEOREM RequestsInTime == Spec /\ []IdsDistinct => SentInTime
<1>1. IInv /\ IInv' /\ TimeInv /\ [Next]_vars => TimeInv'
  BY TickRecentStep, CacheFreshStep DEF TimeInv, IInv
<1>2. /\ IInv /\ OrderInv /\ IdsDistinct /\ TimeInv /\ [Next]_vars /\ IInv' /\ IdsDistinct'
      => [SendsInTime]_vars
  BY InTimeStep DEF Context
<1>. QED BY <1>1, <1>2, TimeInit, Invariance, PTL DEF Spec, SentInTime
===========================================================================
