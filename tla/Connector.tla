----------------------------- MODULE Connector -----------------------------
(***************************************************************************)
(* The clients of a front-end server: their connections and sessions       *)
(* (connectorProxyTcp.ts, frontendServer.ts, session.ts).                  *)
(*                                                                         *)
(* What is sent to a client is kept until the bucket the client is in is   *)
(* flushed.  Closing a socket runs its close handler at once.  A read      *)
(* emits several frames (Framing) before anything else happens, also after *)
(* a handler has closed the socket; a message is handled across awaits.    *)
(* A bad length ends the read, and closes the socket without writing what  *)
(* is kept.                                                                *)
(*                                                                         *)
(* The process is one record, front, so that a handler is the composition  *)
(* of the functions it calls.  connectorProxyWs.ts is the same code but    *)
(* for the framing, and for a handler attached one call earlier.           *)
(***************************************************************************)
EXTENDS Integers, Sequences, FiniteSets, SequencesExt, Maps

CONSTANTS
    Clients,            \* connections, each made at most once
    Uids,               \* players
    BucketCnt,          \* 4
    MaxConnectionNum,
    IntervalCacheLen,   \* in messages
    HeartbeatOn,        \* heartbeatTime is not 0, its default
    MaxSends,           \* bound: messages the application sends to each client
    MaxFrames,          \* bound: frames each client sends
    ChunkMax            \* bound: frames of one read

ASSUME ConnectorAssumption ==
    /\ Uids \subseteq Nat \ {0} /\ IsFiniteSet(Uids)
    /\ BucketCnt \in Nat \ {0} /\ MaxConnectionNum \in Nat /\ IntervalCacheLen \in Nat
    /\ HeartbeatOn \in BOOLEAN
    /\ MaxSends \in Nat /\ MaxFrames \in [Clients -> Nat] /\ ChunkMax \in Nat \ {0}

VARIABLES
    front,      \* the process, see FrontType
    chunk,      \* the read being emitted: its client and its frames, or none
    handling,   \* messages between the awaits of handleMsg
    received,   \* frames read from each client so far
    forwarded   \* history: of each client, the uid its messages were forwarded under

vars == <<front, chunk, handling, received, forwarded>>

BucketIds == 0..BucketCnt - 1
NoBucket == -1
Late == 0           \* a message to a closed client; the others count from 1
Frames == {"handshake", "heartbeat", "msg", "other", "bad"}     \* bad: its length is

Socket(c) == front.sockets[c]
Open(c) == c \in DOMAIN front.sockets /\ Socket(c).state = "open"
Idle == chunk = <<>>

SocketType ==
    [state : {"open", "closed", "refused", "gone"},     \* by close, decode, or the client
     listener : {"onRegister", "none", "onData"},
     session : BOOLEAN, uid : Uids \cup {0},
     registerTimer : BOOLEAN, heartbeatTimer : BOOLEAN, sendArr : Seq(Nat),
     bucketIdx : BucketIds, notInBucket : BOOLEAN,
     willBucketIdx : BucketIds \cup {NoBucket}]

FrontType ==
    [nowConnectionNum : Int, clientNum : Int,   \* open sockets, sessions
     bucketIdx : BucketIds, flushIdx : BucketIds,
     buckets : [BucketIds -> SUBSET Clients],
     clients : UNION {[us -> Clients] : us \in SUBSET Uids},
     sent : [Clients -> Nat],       \* history: the last message sent to an open client
     written : [Clients -> Nat],    \* history: the last one written to its socket
     sockets : UNION {[cs -> SocketType] : cs \in SUBSET Clients}]

Init ==
    /\ front = [nowConnectionNum |-> 0, clientNum |-> 0, bucketIdx |-> 0, flushIdx |-> 0,
                buckets |-> [b \in BucketIds |-> {}], clients |-> <<>>, sockets |-> <<>>,
                sent |-> [c \in Clients |-> 0], written |-> [c \in Clients |-> 0]]
    /\ chunk = <<>> /\ handling = {}
    /\ received = [c \in Clients |-> 0] /\ forwarded = [c \in Clients |-> 0]

-----------------------------------------------------------------------------
(* Sending: what a client is sent, the bucket it waits in, and the flush.  *)

AddBucket(s, c) ==
    [s EXCEPT !.sockets[c].notInBucket = FALSE, !.buckets[s.sockets[c].bucketIdx] = @ \cup {c}]

RemoveBucket(s, c) ==
    IF s.sockets[c].notInBucket THEN s
    ELSE [s EXCEPT !.sockets[c].notInBucket = TRUE,
                   !.buckets[s.sockets[c].bucketIdx] = @ \ {c}]

\* Writes everything at once; what is written to a closed socket is lost.
SendInterval(s, c) ==
    LET arr == s.sockets[c].sendArr
    IN  [s EXCEPT !.sockets[c].sendArr = <<>>,
                  !.written[c] = IF arr # <<>> /\ s.sockets[c].state = "open" THEN Last(arr) ELSE @]

Moved(s, c) ==
    IF s.sockets[c].willBucketIdx = NoBucket THEN s
    ELSE [s EXCEPT !.sockets[c].bucketIdx = s.sockets[c].willBucketIdx,
                   !.sockets[c].willBucketIdx = NoBucket]

\* Slip: a client moves to its new bucket while it is in the old one.
WaitInBucketMoved(s, c) == AddBucket(Moved(s, c), c)
\* A client in no bucket goes to its own, or to the one the balance gave it.
WaitInBucket(s, c) == IF s.sockets[c].notInBucket THEN AddBucket(Moved(s, c), c) ELSE s

\* send: wait in the bucket, unless there is too much.
Send(s, c) ==
    LET open == s.sockets[c].state = "open"
        more == [s EXCEPT !.sent[c] = IF open THEN @ + 1 ELSE @,
                          !.sockets[c].sendArr = Append(@, IF open THEN s.sent[c] + 1 ELSE Late)]
    IN  IF Len(more.sockets[c].sendArr) > IntervalCacheLen
        THEN SendInterval(RemoveBucket(more, c), c)
        ELSE WaitInBucket(more, c)

\* A step for each of cs, in any order: it concerns that client alone.
ForEach(s, cs, step(_, _)) ==
    LET of(c) == IF c \in cs THEN step(s, c) ELSE s
    IN  [s EXCEPT !.sockets = [c \in DOMAIN @ |-> of(c).sockets[c]],
                  !.buckets = [b \in BucketIds |-> {c \in Clients : c \in of(c).buckets[b]}],
                  !.sent = [c \in Clients |-> of(c).sent[c]],
                  !.written = [c \in Clients |-> of(c).written[c]]]

WriteOut(s, c) == SendInterval([s EXCEPT !.sockets[c].notInBucket = TRUE], c)

\* Slip: a lap of the buckets leaves out the first.
FlushedShort(s) ==
    LET idx == 1 + (s.flushIdx % (BucketCnt - 1))
    IN  [ForEach(s, s.buckets[idx], WriteOut) EXCEPT !.flushIdx = idx, !.buckets[idx] = {}]
\* flush: the next bucket.
Flushed(s) ==
    LET idx == (s.flushIdx + 1) % BucketCnt
    IN  [ForEach(s, s.buckets[idx], WriteOut) EXCEPT !.flushIdx = idx, !.buckets[idx] = {}]

\* checkBucketsBalance: in each bucket the bound clients beyond the average, in
\* the order of their uids, are given to the buckets below it, in turn.
Given(s, c) ==
    LET avg == (Cardinality(DOMAIN s.clients) + BucketCnt - 1) \div BucketCnt
        idx(u) == s.sockets[s.clients[u]].bucketIdx
        list(b) == {u \in DOMAIN s.clients : idx(u) = b}
        waiting == {u \in DOMAIN s.clients : Cardinality({v \in list(idx(u)) : v < u}) >= avg}
        before(u) == Cardinality({v \in waiting : idx(v) < idx(u) \/ (idx(v) = idx(u) /\ v < u)})
        placesBelow(b) == Cardinality({p \in BucketIds \X (1..avg) :
                              p[1] < b /\ p[2] > Cardinality(list(p[1]))})
    IN  {b \in BucketIds : \E u \in waiting :
            s.clients[u] = c /\ before(u) \in placesBelow(b)..placesBelow(b + 1) - 1}

Balanced(s) ==
    LET will(c) == IF Given(s, c) = {} THEN s.sockets[c].willBucketIdx
                   ELSE CHOOSE b \in Given(s, c) : TRUE
    IN  [s EXCEPT !.sockets = [c \in DOMAIN @ |-> [@[c] EXCEPT !.willBucketIdx = will(c)]]]

-----------------------------------------------------------------------------
(* Sessions and the end of a connection.                                   *)

\* Slip: the uid stays taken.
SessionRemovedBound(s, c) ==
    IF ~s.sockets[c].session THEN s
    ELSE [s EXCEPT !.clientNum = @ - 1, !.sockets[c].session = FALSE]
\* removeClient.
SessionRemoved(s, c) ==
    IF ~s.sockets[c].session THEN s
    ELSE [s EXCEPT !.clients = Minus(@, {s.sockets[c].uid}), !.clientNum = @ - 1,
                   !.sockets[c].session = FALSE]

\* onClose, once for a socket.
OnClose(s, c, state) ==
    IF s.sockets[c].state # "open" THEN s
    ELSE LET out == RemoveBucket([s EXCEPT !.nowConnectionNum = @ - 1], c)
         IN  SessionRemoved([out EXCEPT !.sockets[c] =
                 [@ EXCEPT !.state = state, !.registerTimer = FALSE, !.heartbeatTimer = FALSE,
                           !.sendArr = <<>>]], c)

\* Slip: the socket is closed before the last messages are written.
CloseFirst(s, c) == SendInterval(RemoveBucket(OnClose(s, c, "closed"), c), c)
\* close: write what there is, then close the socket.
Close(s, c) == OnClose(SendInterval(RemoveBucket(s, c), c), c, "closed")

-----------------------------------------------------------------------------
(* Connecting and receiving.                                               *)

\* newClientCb and the constructor of ClientSocket; a connection too many is
\* closed and leaves no trace.
NewClient(c) ==
    /\ Idle /\ c \notin DOMAIN front.sockets
    /\ front.nowConnectionNum < MaxConnectionNum
    /\ LET idx == (front.bucketIdx + 1) % BucketCnt
       IN  front' = [front EXCEPT !.nowConnectionNum = @ + 1, !.bucketIdx = idx,
              !.sockets = With(@, c,
                 [state |-> "open", listener |-> "onRegister", session |-> FALSE, uid |-> 0,
                  registerTimer |-> TRUE, heartbeatTimer |-> FALSE, sendArr |-> <<>>,
                  bucketIdx |-> idx, notInBucket |-> TRUE, willBucketIdx |-> NoBucket])]
    /\ UNCHANGED <<chunk, handling, received, forwarded>>

\* A read finds frames.
Read(c) ==
    /\ Idle /\ Open(c)
    /\ \E n \in 1..ChunkMax : \E frames \in [1..n -> Frames] :
          /\ received' = [received EXCEPT ![c] = @ + n]
          /\ chunk' = [client |-> c, frames |-> frames]
    /\ received'[c] <= MaxFrames[c]
    /\ UNCHANGED <<front, handling, forwarded>>

\* handshake: the answer, the timers, and addClient, where the application may
\* close the client; onData listens afterwards all the same.
Shaken(s, c) ==
    [Send(s, c) EXCEPT !.clientNum = @ + 1, !.sockets[c] =
        [@ EXCEPT !.registerTimer = FALSE, !.heartbeatTimer = HeartbeatOn, !.listener = "onData",
                  !.session = TRUE]]
Handshake(c) == front' \in {Shaken(front, c), Close(Shaken(front, c), c)}

\* onRegister listens once.
OnRegister(c, f) ==
    /\ Socket(c).listener = "onRegister"
    /\ IF f = "handshake" THEN Handshake(c)
       ELSE front' = Close([front EXCEPT !.sockets[c].listener = "none"], c)
    /\ UNCHANGED handling

\* handleMsg up to its first await: only with a session.
OnMsg(c) ==
    IF Socket(c).session
    THEN /\ handling' = handling \cup {[client |-> c, n |-> received[c] - Len(chunk.frames)]}
         /\ UNCHANGED front
    ELSE front' = Close(front, c) /\ UNCHANGED handling

\* A heartbeat sets the timer again, even of a closed socket.
OnHeartbeat(c) ==
    /\ front' = Send([front EXCEPT !.sockets[c].heartbeatTimer = @ \/ HeartbeatOn], c)
    /\ UNCHANGED handling

OnData(c, f) ==
    /\ Socket(c).listener = "onData"
    /\ \/ f = "msg" /\ OnMsg(c)
       \/ f = "heartbeat" /\ OnHeartbeat(c)
       \/ f \in {"handshake", "other"} /\ front' = Close(front, c)
          /\ UNCHANGED handling

\* decode closes the socket itself, whoever listens: what is kept is lost.
BadLength(c) == front' = OnClose(front, c, "refused") /\ UNCHANGED handling

\* The next frame of the read, for whoever listens; a bad length is the last.
Emit ==
    /\ ~Idle
    /\ LET c == chunk.client
           f == Head(chunk.frames)
       IN  /\ IF f = "bad" THEN BadLength(c)
              ELSE \/ OnRegister(c, f) \/ OnData(c, f)
                   \/ Socket(c).listener = "none" /\ UNCHANGED <<front, handling>>
           /\ chunk' = IF f = "bad" \/ Len(chunk.frames) = 1 THEN <<>>
                       ELSE [chunk EXCEPT !.frames = Tail(@)]
    /\ UNCHANGED <<received, forwarded>>

\* A filter refuses the message, the player has no uid, or there is no answer.
Drop(m) ==
    /\ Idle
    /\ handling' = handling \ {m}
    /\ UNCHANGED <<front, chunk, received, forwarded>>

\* A handler of this server has an answer, whoever is there to receive it.
Answer(m) ==
    /\ Idle
    /\ handling' = handling \ {m}
    /\ front' = Send(front, m.client)
    /\ UNCHANGED <<chunk, received, forwarded>>

\* Slip: the session handleMsg read before the await is as good.
MayForwardOld(c) == Socket(c).uid # 0
\* client.session.uid: of a client that is gone it throws, and handleMsg catches.
MayForward(c) == Socket(c).session /\ Socket(c).uid # 0

\* doRemote.
Forward(m) ==
    /\ Idle /\ MayForward(m.client)
    /\ handling' = handling \ {m}
    /\ forwarded' = [forwarded EXCEPT ![m.client] = Socket(m.client).uid]
    /\ UNCHANGED <<front, chunk, received>>

-----------------------------------------------------------------------------
(* What else happens.                                                      *)

\* Handler and session of the application: bind, close, and messages to players.
Bind(c, u) ==
    /\ Idle /\ Open(c) /\ Socket(c).session /\ Socket(c).uid = 0
    /\ u \notin DOMAIN front.clients
    /\ front' = [front EXCEPT !.clients = With(@, u, c), !.sockets[c].uid = u]
    /\ UNCHANGED <<chunk, handling, received, forwarded>>

SessionClose(c) ==
    /\ Idle /\ Open(c) /\ Socket(c).session
    /\ front' = Close(front, c)
    /\ UNCHANGED <<chunk, handling, received, forwarded>>

\* sendMsgByUids: those of us that are here.
SendMsgByUids(us) ==
    LET here == {front.clients[u] : u \in us \cap DOMAIN front.clients}
    IN  /\ Idle /\ \A c \in here : front.sent[c] < MaxSends
        /\ front' = ForEach(front, here, Send)
        /\ UNCHANGED <<chunk, handling, received, forwarded>>

Flush == Idle /\ front' = Flushed(front) /\ UNCHANGED <<chunk, handling, received, forwarded>>
CheckBucketsBalance ==
    Idle /\ front' = Balanced(front) /\ UNCHANGED <<chunk, handling, received, forwarded>>

RegisterTimeout(c) ==
    /\ Idle /\ c \in DOMAIN front.sockets /\ Socket(c).registerTimer
    /\ front' = Close([front EXCEPT !.sockets[c].registerTimer = FALSE], c)
    /\ UNCHANGED <<chunk, handling, received, forwarded>>

HeartbeatTimeout(c) ==
    /\ Idle /\ c \in DOMAIN front.sockets /\ Socket(c).heartbeatTimer
    /\ front' = Close([front EXCEPT !.sockets[c].heartbeatTimer = FALSE], c)
    /\ UNCHANGED <<chunk, handling, received, forwarded>>

\* The client closes the connection, or it breaks.
PeerGone(c) ==
    /\ Idle /\ Open(c)
    /\ front' = OnClose(front, c, "gone")
    /\ UNCHANGED <<chunk, handling, received, forwarded>>

Next ==
    \/ Emit \/ Flush \/ CheckBucketsBalance
    \/ \E c \in Clients :
          \/ NewClient(c) \/ Read(c) \/ PeerGone(c)
          \/ SessionClose(c) \/ RegisterTimeout(c) \/ HeartbeatTimeout(c)
          \/ \E u \in Uids : Bind(c, u)
    \/ \E us \in SUBSET Uids : SendMsgByUids(us)
    \/ \E m \in handling : Drop(m) \/ Answer(m) \/ Forward(m)

Spec == Init /\ [][Next]_vars

\* The timers of the process run, but a connected client may set its heartbeat
\* timer again for ever; clients and handlers may do nothing.
FairSpec ==
    /\ Spec
    /\ WF_vars(Emit) /\ WF_vars(Flush)
    /\ \A c \in Clients :
          WF_vars(RegisterTimeout(c)) /\ WF_vars(~Open(c) /\ HeartbeatTimeout(c))

-----------------------------------------------------------------------------
(* Properties.                                                             *)

\* A client with something to send is in one bucket, the one its bucketIdx names
\* and a later flush reaches; a client that believes it is in none is in none,
\* through sends, flushes, moves and closes in any order.
FlushReaches ==
    \A c \in DOMAIN front.sockets :
        /\ {b \in BucketIds : c \in front.buckets[b]}
              = IF Socket(c).notInBucket THEN {} ELSE {Socket(c).bucketIdx}
        /\ Socket(c).sendArr # <<>> => ~Socket(c).notInBucket

\* nowConnectionNum and clientNum count open sockets and sessions, whichever way
\* they end; a drift would refuse clients for ever or admit too many.  A uid
\* belongs to the one open client that bound it.
CountsAgree ==
    LET with(P(_)) == Cardinality({c \in DOMAIN front.sockets : P(c)})
        session(c) == Socket(c).session
    IN  /\ front.nowConnectionNum = with(Open) /\ with(Open) <= MaxConnectionNum
        /\ front.clientNum = with(session)
        /\ \A c \in DOMAIN front.sockets : Socket(c).session => Open(c)
        /\ \A u \in DOMAIN front.clients : Open(front.clients[u]) /\ Socket(front.clients[u]).uid = u

\* A connected client is written the messages it was sent, in order, each once; a
\* client that ClientSocket.close closes (the application, a timer, a frame that
\* is not expected) was written all of them.  One that decode refuses loses the rest.
Delivered ==
    \A c \in DOMAIN front.sockets :
        /\ Open(c) => Socket(c).sendArr =
              [i \in 1..front.sent[c] - front.written[c] |-> front.written[c] + i]
        /\ Socket(c).state = "closed" => front.written[c] = front.sent[c]

\* A message is forwarded for the client that has the uid at that moment, though
\* its handling began when that client may have had none (handleMsg).
ForwardedOwn ==
    [][\A c \in Clients : forwarded'[c] # forwarded[c] =>
          forwarded'[c] \in DOMAIN front.clients /\ front.clients[forwarded'[c]] = c]_vars

\* Nothing waits for ever to be written, also to a client that stays, and nothing
\* is left of a closed one: no timer, no place in a bucket, whatever answers and
\* frames came after the close.
AtRest(c) ==
    /\ Socket(c).sendArr = <<>> /\ Socket(c).notInBucket
    /\ \A b \in BucketIds : c \notin front.buckets[b]
    /\ ~Socket(c).registerTimer /\ (~Open(c) => ~Socket(c).heartbeatTimer)
ComesToRest == \A c \in Clients : []<>(c \in DOMAIN front.sockets => AtRest(c))
=============================================================================
