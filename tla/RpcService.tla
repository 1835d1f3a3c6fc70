---------------------------- MODULE RpcService ----------------------------
(***************************************************************************)
(* The rpc engine of one server process (src/src/components/rpcService.ts):*)
(* class RpcTimeoutUtil, handleMsgAwait and the send paths of rpc_create.  *)
(* The process calls methods of other servers, waits for their answers,    *)
(* caches what it cannot send yet, and times both out from one 1 s timer.  *)
(*                                                                         *)
(* Every message handed to sendTo gets a number, 1, 2, ... in the order of *)
(* the sends: msgs[m] is what the process keeps of it, and the cached list *)
(* is the set of the numbers waiting, in the order of the numbers.  The    *)
(* process is single-threaded: "phase" is the handler whose loop is        *)
(* running, and only the wall clock moves while it is not "idle".          *)
(***************************************************************************)
EXTENDS Integers, Sequences, FiniteSets, FiniteSetsExt

CONSTANTS
    Sids,           \* the other servers (app.servers)
    Self,           \* app.serverId
    RpcTimeMax,     \* rpcTimeMax: seconds a call may wait (config, at least 5)
    RpcIdMax,       \* 999999999: the last id before the wrap to 1
    FindMax,        \* 1000000: how many ids getRpcId tries
    CacheCountMax,  \* msgCacheCountMax
    CacheSizeMax,   \* msgCacheSizeMax
    CountSlack,     \* 500: evicted beyond the excess when there are too many
    SizeSlack,      \* 1 MB: evicted beyond the excess when they are too large
    Sizes,          \* the sizes of encoded messages
    Workload,       \* bound: the kinds of sends the process makes
    TickLag,        \* wall seconds from one tick to the next, at most
    TickSpan,       \* wall seconds one tick may take, at most
    MaxTime,        \* bound: the clock stops here
    LastSend,       \* bound: no message is created after this second
    MaxMsgs         \* bound: messages created

ASSUME SidsAssumption == Self \notin Sids /\ IsFiniteSet(Sids)
ASSUME RpcTimeMaxAssumption == RpcTimeMax \in Nat /\ RpcTimeMax >= 5
ASSUME IdAssumption == RpcIdMax \in Nat \ {0} /\ FindMax \in Nat \ {0}
ASSUME CacheAssumption ==
    /\ CacheCountMax \in Nat /\ CacheSizeMax \in Nat
    /\ CountSlack \in Nat \ {0} /\ SizeSlack \in Nat \ {0}
    /\ Sizes \subseteq Nat
ASSUME BoundAssumption == MaxTime \in Nat /\ LastSend \in Nat /\ MaxMsgs \in Nat
\* The timer runs every second; a tick itself takes less than the margin of
\* the cache (CacheMargin) unless the process is suspended inside it.
ASSUME LagAssumption == TickLag \in Nat /\ TickSpan \in 0..3

VARIABLES
    now,                    \* Date.now() / 1000, rounded down
    outTime,                \* this.outTime
    phase,                  \* the handler that is running
    rpcId,                  \* this.rpcId
    msgs,                   \* every message passed to sendTo, in order
    rpcRequest,             \* this.rpcRequest: id -> the call waiting under it
    rpcRequestBySeconds,    \* this.rpcRequestBySeconds: second -> ids
    msgCacheList,           \* this.msgCacheList: numbers of cached messages
    nowCacheSize,           \* this.nowCacheSize
    settled,                \* for each message, the resolve/reject calls made
    resend,                 \* sendList of a running rpcOnNewSocket
    cast,                   \* what a running sendT has still to send
    pool,                   \* ids with a socket in app.rpcPool
    wire,                   \* sent to a server and not yet handled, in order
    handled,                \* messages whose handler has been started
    serving,                \* calls whose handler is running
    replies                 \* answers on their way back

callVars == <<rpcRequest, rpcRequestBySeconds, settled>>
cacheVars == <<msgCacheList, nowCacheSize>>
loopVars == <<resend, cast>>
peerVars == <<handled, serving, replies>>
vars == <<now, outTime, phase, rpcId, msgs, callVars, cacheVars, loopVars,
          pool, wire, peerVars>>

CacheMargin == 3        \* the cached copy expires this much before the call
NoId == 0               \* a notification, or a reply to a server's call

Phases == {"idle", "checkCache", "checkRpc", "resend", "cast"}
Outcomes == {"resolved", "error", "timeout"}
Messages == [sid : Sids \cup {Self}, id : 0..RpcIdMax, time : Int, size : Sizes]

Numbers == 1..Len(msgs)
IsCall(m) == msgs[m].id # NoId
\* Slip: a margin of one second.
CacheTimeTooLate(m) == msgs[m].time - 1
CacheTime(m) == msgs[m].time - CacheMargin     \* IRpcMsgCache.time
Pending(m) == \E id \in DOMAIN rpcRequest : rpcRequest[id] = m
\* What the messages of S weigh when message m has the size size[m].
Weight(size, S) == MapThenSumSet(LAMBDA m : size[m], S)
SumOfSizes(S) == Weight([m \in Numbers |-> msgs[m].size], S)

TypeOK ==
    /\ now \in Int /\ outTime \in Int
    /\ phase \in Phases
    /\ rpcId \in 1..RpcIdMax
    /\ msgs \in Seq(Messages)
    /\ DOMAIN rpcRequest \subseteq 1..RpcIdMax
    /\ \A id \in DOMAIN rpcRequest : rpcRequest[id] \in Numbers
    /\ DOMAIN rpcRequestBySeconds \subseteq Int
    /\ \A t \in DOMAIN rpcRequestBySeconds :
          rpcRequestBySeconds[t] \subseteq 1..RpcIdMax
    /\ msgCacheList \subseteq Numbers
    /\ settled \in [Numbers -> Seq(Outcomes)]
    /\ resend \subseteq Numbers
    /\ cast \subseteq Sids \X Sizes
    /\ pool \subseteq Sids
    /\ wire \in [Sids -> Seq(Numbers)]
    /\ handled \subseteq Numbers
    /\ serving \subseteq Numbers
    /\ replies \subseteq Numbers \X BOOLEAN

Init ==
    /\ now = 0 /\ outTime = RpcTimeMax          \* the constructor ticks once
    /\ phase = "idle"
    /\ rpcId = 1
    /\ msgs = <<>>
    /\ rpcRequest = <<>> /\ rpcRequestBySeconds = <<>>
    /\ msgCacheList = {} /\ nowCacheSize = 0
    /\ settled = <<>>
    /\ resend = {} /\ cast = {}
    /\ pool = {}
    /\ wire = [s \in Sids |-> <<>>]
    /\ handled = {} /\ serving = {} /\ replies = {}

-----------------------------------------------------------------------------
(* The two maps of waiting calls, and the promises behind them.            *)

\* Slip: the counter is incremented after the id is taken, so that the last id
\* is handed out again as soon as it is free.
IdAfterReuse(k) == ((rpcId + k - 2) % RpcIdMax) + 1
\* Ids are handed out cyclically in 1..RpcIdMax.
IdAfter(k) == ((rpcId + k - 1) % RpcIdMax) + 1

\* getRpcId tries ids in turn and stops at the k-th, the first not in use.
FreshId(k) ==
    /\ IdAfter(k) \notin DOMAIN rpcRequest
    /\ \A j \in 1..(k - 1) : IdAfter(j) \in DOMAIN rpcRequest

\* addRpcTimeTimeout for message m with id, at the current outTime.
RequestWith(id, m) ==
    [i \in DOMAIN rpcRequest \cup {id} |-> IF i = id THEN m ELSE rpcRequest[i]]
Bucket(t) ==
    IF t \in DOMAIN rpcRequestBySeconds THEN rpcRequestBySeconds[t] ELSE {}
\* Slip: the id is added only to a bucket that is new.
BucketsWithFirst(id) ==
    IF outTime \in DOMAIN rpcRequestBySeconds THEN rpcRequestBySeconds
    ELSE [t \in DOMAIN rpcRequestBySeconds \cup {outTime} |->
             IF t = outTime THEN {id} ELSE rpcRequestBySeconds[t]]
BucketsWith(id) ==
    [t \in DOMAIN rpcRequestBySeconds \cup {outTime} |->
        IF t = outTime THEN Bucket(t) \cup {id} ELSE rpcRequestBySeconds[t]]

\* Slips: one of the two deletes of delRpcTimeout is missing.
RequestKept(req, ids) == req
BucketsKept(req, buckets, ms, ids) == buckets
\* delRpcTimeout for each of ids: an unknown id changes nothing, a known one
\* leaves rpcRequest and the bucket of its own time.
RequestWithout(req, ids) == [i \in DOMAIN req \ ids |-> req[i]]
BucketsWithout(req, buckets, ms, ids) ==
    [t \in DOMAIN buckets |->
        buckets[t] \ {i \in ids \cap DOMAIN req : ms[req[i]].time = t}]

\* Slip: a call that is given up is resolved with nothing.
SettleResolving(log, S, o) ==
    [m \in DOMAIN log |-> IF m \in S THEN Append(log[m], "resolved") ELSE log[m]]
\* One more resolve or reject call, with outcome o, on the promise of every m in S.
Settle(log, S, o) ==
    [m \in DOMAIN log |-> IF m \in S THEN Append(log[m], o) ELSE log[m]]

-----------------------------------------------------------------------------
(* sendTo: hand the message to the socket, or cache it and evict the       *)
(* oldest when the cache is over its limits (checkMsgCacheCountSize).      *)

\* The first n messages of the cached list c.
Oldest(c, n) == {m \in c : Cardinality({k \in c : k <= m}) <= n}

\* Slip: only the number of messages is limited.
EvictedByCount(c, size, total) ==
    IF Cardinality(c) <= CacheCountMax THEN {}
    ELSE Oldest(c, Cardinality(c) - CacheCountMax + CountSlack)
\* What checkMsgCacheCountSize splices off the cached list c, whose messages
\* have the sizes size[m] and weigh total.
Evicted(c, size, total) ==
    LET byCount == Oldest(c, Cardinality(c) - CacheCountMax + CountSlack)
        bySize  == {m \in c : Weight(size, {k \in c : k < m})
                                 < total - CacheSizeMax + SizeSlack}
    IN  IF Cardinality(c) <= CacheCountMax /\ total <= CacheSizeMax THEN {}
        ELSE byCount \cup (IF total > CacheSizeMax THEN bySize ELSE {})

\* A message with record r, whose id is registered in req and buckets when it
\* is a call, goes through sendTo for the first time.
SendTo(r, req, buckets) ==
    LET m     == Len(msgs) + 1
        ms    == Append(msgs, r)
        log   == [k \in 1..m |-> IF k = m THEN <<>> ELSE settled[k]]
        c     == msgCacheList \cup {m}
        size  == [k \in 1..m |-> ms[k].size]
        out   == Evicted(c, size, nowCacheSize + r.size)
        calls == {k \in out : ms[k].id # NoId}
        ids   == {ms[k].id : k \in calls}
    IN  /\ msgs' = ms
        /\ IF r.sid \in pool
           THEN /\ wire' = [wire EXCEPT ![r.sid] = Append(@, m)]
                /\ rpcRequest' = req
                /\ rpcRequestBySeconds' = buckets
                /\ settled' = log
                /\ UNCHANGED cacheVars
           ELSE /\ msgCacheList' = c \ out
                /\ nowCacheSize' = (nowCacheSize + r.size) - Weight(size, out)
                /\ rpcRequest' = RequestWithout(req, ids)
                /\ rpcRequestBySeconds' = BucketsWithout(req, buckets, ms, ids)
                /\ settled' = Settle(log, calls, "timeout")
                /\ UNCHANGED wire

CanSend(kind) ==
    /\ kind \in Workload
    /\ phase = "idle"
    /\ Len(msgs) < MaxMsgs
    /\ now <= LastSend

\* sendAwait to another server, notify = false.
SendAwait(sid, size) ==
    /\ CanSend("await")
    /\ \E k \in 1..FindMax :
        LET id == IdAfter(k)
            m  == Len(msgs) + 1
            r  == [sid |-> sid, id |-> id, time |-> outTime, size |-> size]
        IN  /\ FreshId(k)
            /\ rpcId' = id
            /\ SendTo(r, RequestWith(id, m), BucketsWith(id))
    /\ UNCHANGED <<now, outTime, phase, loopVars, pool, peerVars>>

\* getRpcMsg throws after the id was taken and before it was registered:
\* the caller gets the exception, the id is skipped.
SendAwaitThrows ==
    /\ CanSend("throw")
    /\ \E k \in 1..FindMax : FreshId(k) /\ rpcId' = IdAfter(k)
    /\ UNCHANGED <<now, outTime, phase, msgs, callVars, cacheVars, loopVars,
                   pool, wire, peerVars>>

\* getRpcId gives up after FindMax ids in use and throws.
IdsExhausted ==
    /\ CanSend("await")
    /\ \A k \in 1..FindMax : IdAfter(k) \in DOMAIN rpcRequest
    /\ rpcId' = IdAfter(FindMax)
    /\ UNCHANGED <<now, outTime, phase, msgs, callVars, cacheVars, loopVars,
                   pool, wire, peerVars>>

\* A message no answer is awaited for: a notification, or the reply to a call
\* of another server (the last lines of handleMsgAwait).
SendNoCallback(sid, size) ==
    /\ CanSend("notify")
    /\ SendTo([sid |-> sid, id |-> NoId, time |-> outTime, size |-> size],
              rpcRequest, rpcRequestBySeconds)
    /\ UNCHANGED <<now, outTime, phase, rpcId, loopVars, pool, peerVars>>

\* sendT: the same notification to every server of a type, one sendTo each.
SendT(S, size) ==
    /\ CanSend("cast")
    /\ Len(msgs) + Cardinality(S) <= MaxMsgs
    /\ phase' = "cast"
    /\ cast' = S \X {size}
    /\ UNCHANGED <<now, outTime, rpcId, msgs, callVars, cacheVars, resend,
                   pool, wire, peerVars>>

SendTNext ==
    /\ phase = "cast"
    /\ \E one \in cast :
        /\ SendTo([sid |-> one[1], id |-> NoId, time |-> outTime, size |-> one[2]],
                  rpcRequest, rpcRequestBySeconds)
        /\ cast' = cast \ {one}
        /\ phase' = IF cast = {one} THEN "idle" ELSE "cast"
    /\ UNCHANGED <<now, outTime, rpcId, resend, pool, peerVars>>

\* sendRpcMsgToSelfAwait: the call is registered and its handler is started by
\* setImmediate; it is neither cached nor sent.
SendToSelf(size) ==
    /\ CanSend("self")
    /\ \E k \in 1..FindMax :
        LET id == IdAfter(k)
            m  == Len(msgs) + 1
        IN  /\ FreshId(k)
            /\ rpcId' = id
            /\ msgs' = Append(msgs, [sid |-> Self, id |-> id, time |-> outTime,
                                     size |-> size])
            /\ settled' = [n \in 1..m |-> IF n = m THEN <<>> ELSE settled[n]]
            /\ rpcRequest' = RequestWith(id, m)
            /\ rpcRequestBySeconds' = BucketsWith(id)
    /\ UNCHANGED <<now, outTime, phase, cacheVars, loopVars, pool, wire, peerVars>>

-----------------------------------------------------------------------------
(* Answers.                                                                *)

\* An answer to message m settles whatever call waits under m's id.
Answer(m, err) ==
    LET id == msgs[m].id
        ids == {id} \cap DOMAIN rpcRequest
    IN  /\ rpcRequest' = RequestWithout(rpcRequest, {id})
        /\ rpcRequestBySeconds' =
              BucketsWithout(rpcRequest, rpcRequestBySeconds, msgs, {id})
        /\ settled' = Settle(settled, {rpcRequest[i] : i \in ids},
                             IF err THEN "error" ELSE "resolved")

\* handleMsgAwait, reply branch: the answer arrives over a live socket.
ReceiveReply(m, err) ==
    /\ phase = "idle"
    /\ <<m, err>> \in replies
    /\ msgs[m].sid \in pool
    /\ replies' = replies \ {<<m, err>>}
    /\ Answer(m, err)
    /\ UNCHANGED <<now, outTime, phase, rpcId, msgs, cacheVars, loopVars, pool,
                   wire, handled, serving>>

\* setImmediate starts the handler of a call to this server itself.
SelfHandlerStarts(m) ==
    /\ phase = "idle"
    /\ msgs[m].sid = Self /\ m \notin handled
    /\ handled' = handled \cup {m}
    /\ serving' = serving \cup {m}
    /\ UNCHANGED <<now, outTime, phase, rpcId, msgs, callVars, cacheVars,
                   loopVars, pool, wire, replies>>

\* The handler of a call to this server itself ends.
SelfHandlerDone(m, err) ==
    /\ phase = "idle"
    /\ m \in serving /\ msgs[m].sid = Self
    /\ serving' = serving \ {m}
    /\ Answer(m, err)
    /\ UNCHANGED <<now, outTime, phase, rpcId, msgs, cacheVars, loopVars, pool,
                   wire, handled, replies>>

-----------------------------------------------------------------------------
(* The timer: tick() refreshes outTime, then checks the cache, then the    *)
(* calls.  Each check reads the clock again.                               *)

Tick ==
    /\ phase = "idle"
    /\ outTime' = now + RpcTimeMax
    /\ phase' = "checkCache"
    /\ UNCHANGED <<now, rpcId, msgs, callVars, cacheVars, loopVars, pool, wire,
                   peerVars>>

\* Slip: one message too few is given up.
ExpiredHeadButLast ==
    {m \in msgCacheList : \E n \in msgCacheList : m < n /\
        \A k \in msgCacheList : k <= n => now >= CacheTime(k)}
\* The expired messages at the head of the list, up to the first unexpired.
ExpiredHead ==
    {m \in msgCacheList :
        \A k \in msgCacheList : k <= m => now >= CacheTime(k)}

CheckMsgCacheTimeout ==
    LET calls == {m \in ExpiredHead : IsCall(m)}
        ids   == {msgs[m].id : m \in calls}
    IN  /\ phase = "checkCache"
        /\ msgCacheList' = msgCacheList \ ExpiredHead
        /\ nowCacheSize' = nowCacheSize - SumOfSizes(ExpiredHead)
        /\ rpcRequest' = RequestWithout(rpcRequest, ids)
        /\ rpcRequestBySeconds' =
              BucketsWithout(rpcRequest, rpcRequestBySeconds, msgs, ids)
        /\ settled' = Settle(settled, calls, "timeout")
        /\ phase' = "checkRpc"
        /\ UNCHANGED <<now, outTime, rpcId, msgs, loopVars, pool, wire, peerVars>>

CheckRpcTimeout ==
    LET due == {t \in DOMAIN rpcRequestBySeconds : now >= t}
        ids == (UNION {rpcRequestBySeconds[t] : t \in due}) \cap DOMAIN rpcRequest
    IN  /\ phase = "checkRpc"
        /\ rpcRequestBySeconds' =
              [t \in DOMAIN rpcRequestBySeconds \ due |-> rpcRequestBySeconds[t]]
        /\ rpcRequest' = RequestWithout(rpcRequest, ids)
        /\ settled' = Settle(settled, {rpcRequest[i] : i \in ids}, "timeout")
        /\ phase' = "idle"
        /\ UNCHANGED <<now, outTime, rpcId, msgs, cacheVars, loopVars, pool,
                       wire, peerVars>>

-----------------------------------------------------------------------------
(* Sockets: rpcPool.addSocket calls rpcOnNewSocket, which takes the        *)
(* messages of that server out of the cache and sends them again in order. *)

\* Slip: the messages are sent and stay in the cache.
PoolAddKeeping(sid) ==
    LET mine == {m \in msgCacheList : msgs[m].sid = sid}
    IN  /\ phase = "idle"
        /\ sid \notin pool
        /\ pool' = pool \cup {sid}
        /\ resend' = mine
        /\ phase' = IF mine = {} THEN "idle" ELSE "resend"
        /\ UNCHANGED <<now, outTime, rpcId, msgs, callVars, cacheVars, cast, wire,
                       peerVars>>

PoolAdd(sid) ==
    LET mine == {m \in msgCacheList : msgs[m].sid = sid}
    IN  /\ phase = "idle"
        /\ sid \notin pool
        /\ pool' = pool \cup {sid}
        /\ msgCacheList' = msgCacheList \ mine
        /\ nowCacheSize' = nowCacheSize - SumOfSizes(mine)
        /\ resend' = mine
        /\ phase' = IF mine = {} THEN "idle" ELSE "resend"
        /\ UNCHANGED <<now, outTime, rpcId, msgs, callVars, cast, wire, peerVars>>

\* Slip: the newest message is sent first.
ResendNewestFirst ==
    /\ phase = "resend"
    /\ \E m \in resend :
        /\ \A k \in resend : k <= m
        /\ wire' = [wire EXCEPT ![msgs[m].sid] = Append(@, m)]
        /\ resend' = resend \ {m}
        /\ phase' = IF resend = {m} THEN "idle" ELSE "resend"
    /\ UNCHANGED <<now, outTime, rpcId, msgs, callVars, cacheVars, cast, pool,
                   peerVars>>

\* sendTo of the next message of sendList; its socket is in the pool.
ResendNext ==
    /\ phase = "resend"
    /\ \E m \in resend :
        /\ \A k \in resend : m <= k
        /\ wire' = [wire EXCEPT ![msgs[m].sid] = Append(@, m)]
        /\ resend' = resend \ {m}
        /\ phase' = IF resend = {m} THEN "idle" ELSE "resend"
    /\ UNCHANGED <<now, outTime, rpcId, msgs, callVars, cacheVars, cast, pool,
                   peerVars>>

\* The connection is lost: what the other side had not yet read past the first
\* n messages never arrives.
PoolRemove(sid) ==
    /\ phase = "idle"
    /\ sid \in pool
    /\ pool' = pool \ {sid}
    /\ \E n \in 0..Len(wire[sid]) :
          wire' = [wire EXCEPT ![sid] = SubSeq(@, 1, n)]
    /\ UNCHANGED <<now, outTime, phase, rpcId, msgs, callVars, cacheVars,
                   loopVars, peerVars>>

-----------------------------------------------------------------------------
(* The other servers run handleMsgAwait, call branch: messages of one      *)
(* connection are handled in order, the handlers end in any order or never.*)

PeerReceives(sid) ==
    /\ wire[sid] # <<>>
    /\ LET m == Head(wire[sid])
       IN  /\ handled' = handled \cup {m}
           /\ serving' = IF IsCall(m) THEN serving \cup {m} ELSE serving
    /\ wire' = [wire EXCEPT ![sid] = Tail(@)]
    /\ UNCHANGED <<now, outTime, phase, rpcId, msgs, callVars, cacheVars,
                   loopVars, pool, replies>>

PeerAnswers(m, err) ==
    /\ m \in serving /\ msgs[m].sid # Self
    /\ serving' = serving \ {m}
    /\ replies' = replies \cup {<<m, err>>}
    /\ UNCHANGED <<now, outTime, phase, rpcId, msgs, callVars, cacheVars,
                   loopVars, pool, wire, handled>>

\* The wall clock, which is assumed not to be set back.  Its guard bounds how late the timer and how long a tick is.
Clock ==
    /\ now < MaxTime
    /\ now - (outTime - RpcTimeMax)
          < IF phase \in {"checkCache", "checkRpc"} THEN TickSpan ELSE TickLag
    /\ now' = now + 1
    /\ UNCHANGED <<outTime, phase, rpcId, msgs, callVars, cacheVars, loopVars,
                   pool, wire, peerVars>>

-----------------------------------------------------------------------------
Send ==
    \/ \E sid \in Sids, size \in Sizes :
          SendAwait(sid, size) \/ SendNoCallback(sid, size)
    \/ \E size \in Sizes : SendToSelf(size)
    \/ \E S \in SUBSET Sids \ {{}}, size \in Sizes : SendT(S, size)
    \/ SendAwaitThrows \/ IdsExhausted

TimerStep == Tick \/ CheckMsgCacheTimeout \/ CheckRpcTimeout
LoopStep == SendTNext \/ ResendNext

Settling ==
    \/ \E m \in Numbers : SelfHandlerStarts(m)
    \/ \E m \in Numbers, err \in BOOLEAN :
          ReceiveReply(m, err) \/ SelfHandlerDone(m, err)

Link == \E sid \in Sids : PoolAdd(sid) \/ PoolRemove(sid)

Peers ==
    \/ \E sid \in Sids : PeerReceives(sid)
    \/ \E m \in Numbers, err \in BOOLEAN : PeerAnswers(m, err)

Next == Send \/ LoopStep \/ TimerStep \/ Settling \/ Link \/ Peers \/ Clock

Spec == Init /\ [][Next]_vars

\* The timer is re-armed in a finally block, synchronous loops run to their
\* end, and time passes.  Nothing is assumed of the links or the other servers.
Fairness == WF_vars(TimerStep) /\ WF_vars(LoopStep) /\ WF_vars(Clock)

FairSpec == Spec /\ Fairness

-----------------------------------------------------------------------------
(* What has to hold.                                                       *)

\* The two maps describe the same calls: a waiting call is in the bucket of its
\* own deadline, where checkRpcTimeout will find it, and a bucket holds nothing
\* but waiting calls with that deadline.
BucketsExact ==
    /\ \A id \in DOMAIN rpcRequest :
          /\ msgs[rpcRequest[id]].id = id
          /\ id \in Bucket(msgs[rpcRequest[id]].time)
    /\ \A t \in DOMAIN rpcRequestBySeconds : \A id \in rpcRequestBySeconds[t] :
          id \in DOMAIN rpcRequest /\ msgs[rpcRequest[id]].time = t

\* No id has been used twice: fewer than 10^9 calls so far.  Past that, an answer
\* that is still on its way when its id comes round again settles another call.
IdsDistinct ==
    \A m, n \in Numbers : IsCall(m) /\ m # n => msgs[m].id # msgs[n].id

\* A call that is still in the cache (or being taken out of it to be sent) is
\* still waiting: the cached copy is always given up before the call is, as the
\* comment in sendTo demands, so a request is never sent after its caller was
\* told it timed out.
CachedPending ==
    IdsDistinct =>
        \A m \in msgCacheList \cup resend : IsCall(m) =>
            msgs[m].id \in DOMAIN rpcRequest /\ rpcRequest[msgs[m].id] = m

\* Each promise is resolved or rejected exactly once, at the moment its call
\* leaves rpcRequest, whichever of the answer, the eviction, the cache timeout
\* and the rpc timeout comes first.
SettledOnce ==
    IdsDistinct =>
        \A m \in Numbers :
            Len(settled[m]) = IF IsCall(m) /\ ~Pending(m) THEN 1 ELSE 0

\* nowCacheSize, adjusted at five places, is the size of what is cached, and
\* neither limit of the cache is exceeded between two messages.
CacheAccount ==
    /\ nowCacheSize = SumOfSizes(msgCacheList)
    /\ nowCacheSize <= CacheSizeMax
    /\ Cardinality(msgCacheList) <= CacheCountMax

\* Messages to one server are handled at most once and in the order they were
\* sent, through caching, resending and reconnecting: what is on the wire is in
\* order, after all that was handled and before all that still waits.
InOrderOnce ==
    \A sid \in Sids : LET w == wire[sid] IN
        /\ \A i, j \in DOMAIN w : i < j => w[i] < w[j]
        /\ \A i \in DOMAIN w, m \in handled : msgs[m].sid = sid => m < w[i]
        /\ \A m \in msgCacheList \cup resend : msgs[m].sid = sid =>
              /\ \A i \in DOMAIN w : w[i] < m
              /\ \A k \in handled : msgs[k].sid = sid => k < m

\* Nothing waits in the cache for a server whose socket is in the pool.
CachedOnlyWithoutSocket ==
    \A m \in msgCacheList : msgs[m].sid \notin pool

\* m is handed to a socket in this step.
Transmits(m) ==
    LET sid == msgs'[m].sid
        on(w) == \E i \in DOMAIN w : w[i] = m
    IN  sid \in Sids /\ on(wire'[sid]) /\ ~on(wire[sid])

\* What a step may hand to a socket.
SendsInTime ==
    \A m \in 1..Len(msgs') : Transmits(m) /\ msgs'[m].id # NoId =>
        /\ Pending(m)'
        /\ msgs'[m].time - now >= CacheMargin + 1 - Max({TickLag, TickSpan})

\* A call handed to a socket is still waiting, and its answer has time to
\* arrive: cached or not, it waits for CacheMargin + 1 seconds less the age of
\* the last tick ("the timeout has to be shorter here").
SentInTime == [][SendsInTime]_vars

\* How a step may settle a call.
SettlesByOwnAnswer ==
    \A m \in Numbers : settled'[m] # settled[m] =>
        LET o == settled'[m][Len(settled'[m])]
        IN  \/ o = "timeout"
            \/ /\ msgs[m].sid = Self
               /\ m \in serving \ serving'
            \/ <<m, o = "error">> \in replies \ replies'

\* A call is only ever settled with a result by the answer to that very call,
\* and with the result that answer carries.
OwnAnswer == [][SettlesByOwnAnswer]_vars

\* Every awaited call is settled in the end, whatever becomes of its server.
EveryCallSettles ==
    \A m \in 1..MaxMsgs :
        (m \in Numbers /\ Pending(m)) ~> (m \in Numbers /\ settled[m] # <<>>)

\* Every cached message is sent or given up in the end.
CacheDrains ==
    \A m \in 1..MaxMsgs : m \in msgCacheList ~> m \notin msgCacheList

-----------------------------------------------------------------------------
(* The inductive invariant behind BucketsExact, CachedPending, SettledOnce. *)

\* Deadlines never decrease along the messages, nor beyond the current outTime:
\* this is why the cache may be checked from its head only.
DeadlinesOrdered ==
    /\ \A m \in Numbers : msgs[m].time <= outTime
    /\ \A m, n \in Numbers : m < n => msgs[m].time <= msgs[n].time

\* outTime is not ahead of the clock, and within a tick not far behind it.
TickFresh ==
    /\ outTime - RpcTimeMax <= now
    /\ phase \in {"checkCache", "checkRpc"} =>
          now <= outTime - RpcTimeMax + TickSpan

\* Between the two checks of a tick the cache holds nothing that had expired
\* when the tick began.
CacheChecked ==
    phase = "checkRpc" =>
        \A m \in msgCacheList : CacheTime(m) > outTime - RpcTimeMax

\* Messages are between the cache and the wire only while rpcOnNewSocket runs.
ResendInPhase == phase # "resend" => resend = {}

\* The inductive invariant: it holds initially, and every step preserves it.
IInv ==
    /\ TypeOK
    /\ DeadlinesOrdered
    /\ TickFresh
    /\ CacheChecked
    /\ ResendInPhase
    /\ BucketsExact
    /\ CachedPending
    /\ SettledOnce

\* Where a message can be: the other half of the invariant, for InOrderOnce.
Placement ==
    /\ \A sid \in Sids : \A i \in DOMAIN wire[sid] : msgs[wire[sid][i]].sid = sid
    /\ \A m \in msgCacheList : msgs[m].sid \in Sids
    /\ \A m \in resend : msgs[m].sid \in pool
    /\ serving \subseteq handled
    /\ \A answer \in replies : answer[1] \in handled

OrderInv == Placement /\ CachedOnlyWithoutSocket /\ InOrderOnce

-----------------------------------------------------------------------------
(* What the caller sees of a call: the refinement of RpcPromise.           *)
Calls == {m \in Numbers : IsCall(m)}
Outcome ==
    [m \in Calls |-> IF settled[m] = <<>> THEN "waiting" ELSE settled[m][1]]

Promise == INSTANCE RpcPromise WITH
    Call <- 1..MaxMsgs, outcome <- Outcome, started <- handled \cap Calls

\* The engine gives its callers what RpcPromise promises.
PromiseKept == Promise!Spec
=============================================================================
