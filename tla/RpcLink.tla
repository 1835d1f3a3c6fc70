------------------------------ MODULE RpcLink ------------------------------
(***************************************************************************)
(* The connections between servers (rpcClient.ts, rpcServer.ts, tcpClient  *)
(* .ts, tcpServer.ts, execLineUpUtil.ts).  Of two servers the one with the *)
(* smaller id connects: here one server connects to Peers.  RpcService     *)
(* takes the result, a pool entry and an in-order wire, for granted.       *)
(*                                                                         *)
(* Both ends of a connection learn separately that it is gone; closing it  *)
(* runs the close handler of that end at once, before anything else.  A    *)
(* connection can be given up while it is being made; if it is made after  *)
(* all, an exception ends the process, unless the application handles      *)
(* uncaughtException, as the skeleton of `mydog init` does.  Timers fire   *)
(* when they will; a heartbeat times out when the network has failed.      *)
(* Tokens and packets are right.                                           *)
(***************************************************************************)
EXTENDS Naturals, Sequences, FiniteSets, SequencesExt, Maps

CONSTANTS
    Peers,              \* the servers with a greater id
    Addrs,              \* addresses a peer may be started on
    Conns,              \* bound: connections that exist at one time
    SocketPerSecond,    \* connections begun in a second
    Frame,              \* 5: checks of the queue in a second
    BufMax,             \* intervalCacheLen, in messages
    MaxMsgs,            \* bound: messages sent to and by each peer
    MaxFaults           \* bound: failures, restarts and removals of each peer, by peer

NoConn == "none"

ASSUME LinkAssumption ==
    /\ NoConn \notin Conns /\ Addrs # {}
    /\ SocketPerSecond \in Nat \ {0} /\ Frame \in Nat \ {0}
    /\ BufMax \in Nat /\ MaxMsgs \in [Peers -> [out : Nat, back : Nat]] /\ MaxFaults \in [Peers -> Nat]

VARIABLES
    clients,    \* rpcClientSockets: peer -> its RpcClientSocket
    pool,       \* the connecting server's rpcPool: peer -> connection
    list,       \* the queue for new connections: peers
    tmpCntList, \* how many of them the next checks may begin
    recent,     \* history: how many the last Frame - 1 checks began
    conns,      \* connections, with what is under way on them
    peerPool,   \* of each peer: its rpcPool's entry for the connecting server
    addr,       \* of each peer: where it listens
    sent, got,  \* history: the last message sent and received, to and from each peer
    crashed,    \* the connecting process died of an exception
    faults      \* of each peer: failures, restarts and removals so far

clientVars == <<clients, pool, crashed>>
queueVars == <<list, tmpCntList, recent>>
peerVars == <<peerPool, addr>>
msgVars == <<sent, got>>
vars == <<clientVars, queueVars, conns, peerVars, msgVars, faults>>

Register == 0   \* messages are numbered from 1
Free == [client |-> "closed", server |-> "closed"]
FreeConns == {c \in Conns : conns[c] = Free}

\* A new RpcClientSocket waits for its connectTimer.
NewClient(a) == [addr |-> a, phase |-> "timer", conn |-> NoConn, sendArr |-> <<>>]

\* Slip: every check may begin the number rounded up.
CntListRoundedUp == [i \in 1..Frame |-> (SocketPerSecond + Frame - 1) \div Frame]
\* The numbers of callbacks a second is made of: the remainder goes to the first.
CntList ==
    [i \in 1..Frame |-> SocketPerSecond \div Frame
                        + (IF i <= SocketPerSecond % Frame THEN 1 ELSE 0)]

Init ==
    /\ clients = <<>> /\ pool = <<>> /\ crashed = FALSE
    /\ list = <<>> /\ tmpCntList = <<>> /\ recent = <<>>
    /\ conns = [c \in Conns |-> Free]
    /\ peerPool = [p \in Peers |-> NoConn]
    /\ addr = [p \in Peers |-> CHOOSE a \in Addrs : TRUE]
    /\ sent = [p \in Peers |-> [out |-> 0, back |-> 0]]
    /\ got = [p \in Peers |-> [out |-> 0, back |-> 0]]
    /\ faults = [p \in Peers |-> 0]

\* The connections cs, with an end of c closed: what has arrived there and
\* was not read is gone.  Free when both ends are closed.
Closed(cs, c, end) ==
    LET n == IF end = "client" THEN [cs[c] EXCEPT !.client = "closed", !.toClient = <<>>]
             ELSE [cs[c] EXCEPT !.server = "closed", !.toServer = <<>>]
    IN  [cs EXCEPT ![c] = IF n.client = "closed" /\ n.server = "closed" THEN Free ELSE n]

-----------------------------------------------------------------------------
(* The connecting server.                                                  *)

\* Bounds what happens to peer p.
Fault(p) == faults[p] < MaxFaults[p] /\ faults' = [faults EXCEPT ![p] = @ + 1]

\* remove(): the RpcClientSocket of p, if any, closes its socket, whose
\* onClose runs at once and does not reconnect; it leaves the queue.  A
\* connection still being made is not stopped by that.
RemovedConns(p) ==
    IF p \notin DOMAIN clients THEN conns
    ELSE LET c == clients[p].conn
         IN  IF c = NoConn THEN conns
             ELSE IF conns[c].client = "connecting" THEN [conns EXCEPT ![c].client = "orphan"]
             ELSE Closed(conns, c, "client")
Unqueued(p) == RemoveFirst(list, p)
RemoveOld(p) ==
    /\ conns' = RemovedConns(p)
    /\ pool' = Minus(pool, {p})
    /\ list' = Unqueued(p)

\* addRpcClient, told of p at address a.
AddRpcClient(p, a) ==
    /\ ~crashed
    /\ p \in DOMAIN clients => clients[p].addr # a
    /\ RemoveOld(p)
    /\ clients' = With(clients, p, NewClient(a))
    /\ UNCHANGED <<tmpCntList, recent, peerVars, msgVars, crashed>>

\* The server is told where p is, or was (that counts as a failure).
Learn(p) == AddRpcClient(p, addr[p]) /\ UNCHANGED faults
LearnStale(p, a) == a # addr[p] /\ Fault(p) /\ AddRpcClient(p, a)

\* removeRpcClient.
RemoveRpcClient(p) ==
    /\ ~crashed /\ p \in DOMAIN clients /\ Fault(p)
    /\ RemoveOld(p)
    /\ clients' = Minus(clients, {p})
    /\ UNCHANGED <<tmpCntList, recent, peerVars, msgVars, crashed>>

\* connectTimer fires: wait for a turn.
LineUp(p) ==
    /\ ~crashed /\ p \in DOMAIN clients /\ clients[p].phase = "timer"
    /\ clients' = [clients EXCEPT ![p].phase = "queued"]
    /\ list' = Append(list, p)
    /\ UNCHANGED <<pool, crashed, tmpCntList, recent, conns, peerVars, msgVars, faults>>

\* connectFunc for the peers of batch, which the queue's check has taken out.
Check ==
    LET cnts == IF tmpCntList = <<>> THEN CntList ELSE tmpCntList
        n == IF Last(cnts) < Len(list) THEN Last(cnts) ELSE Len(list)
        batch == {list[i] : i \in 1..n}
    IN  /\ ~crashed /\ list # <<>>
        /\ tmpCntList' = Front(cnts)
        /\ list' = SubSeq(list, n + 1, Len(list))
        /\ recent' = LET r == Append(recent, n) IN IF Len(r) < Frame THEN r ELSE Tail(r)
        /\ \E conn \in [batch -> FreeConns] :
              /\ IsInjective(conn)
              /\ clients' = [p \in DOMAIN clients |->
                    IF p \in batch THEN [clients[p] EXCEPT !.phase = "connecting", !.conn = conn[p]]
                    ELSE clients[p]]
              /\ conns' = [c \in Conns |->
                    IF \E p \in batch : conn[p] = c
                    THEN [peer |-> CHOOSE p \in batch : conn[p] = c, cut |-> FALSE,
                          addr |-> clients[CHOOSE p \in batch : conn[p] = c].addr,
                          client |-> "connecting", server |-> "closed",
                          toServer |-> <<>>, toClient |-> <<>>, sendArr |-> <<>>]
                    ELSE conns[c]]
        /\ UNCHANGED <<pool, crashed, peerVars, msgVars, faults>>

\* Slip: a connection that was refused is not tried again.
ClientClosedForGood(c) ==
    LET p == conns[c].peer
    IN  /\ clients' = [clients EXCEPT ![p].phase = IF @ = "registered" THEN "timer" ELSE @,
                                      ![p].conn = NoConn, ![p].sendArr = <<>>]
        /\ pool' = Minus(pool, {p})
        /\ conns' = Closed(conns, c, "client")
\* onClose of the client socket on c: doConnect again later.
ClientClosed(c) ==
    LET p == conns[c].peer
    IN  /\ clients' = [clients EXCEPT ![p].phase = "timer", ![p].conn = NoConn, ![p].sendArr = <<>>]
        /\ pool' = Minus(pool, {p})
        /\ conns' = Closed(conns, c, "client")

Reachable(c) == addr[conns[c].peer] = conns[c].addr /\ ~conns[c].cut

\* The connection is made: connectCb sends register, and the peer has a new
\* RpcServerSocket.
Connected(c) ==
    /\ ~crashed /\ conns[c].client = "connecting" /\ Reachable(c)
    /\ conns' = [conns EXCEPT ![c].client = "open", ![c].server = "new",
                              ![c].toServer = <<Register>>]
    /\ clients' = [clients EXCEPT ![conns[c].peer].phase = "open"]
    /\ UNCHANGED <<pool, crashed, queueVars, peerVars, msgVars, faults>>

\* The exception is nobody's: the process ends.
Crash ==
    /\ crashed' = TRUE
    /\ clients' = <<>> /\ pool' = <<>> /\ list' = <<>>
    /\ conns' = [d \in Conns |-> IF conns[d].server = "closed" THEN Free
                                 ELSE [conns[d] EXCEPT !.client = "closed", !.toClient = <<>>]]
\* The application has a handler for it: c is left, connected, with nobody to read
\* it or to register on it.
LeftOver(c) ==
    /\ conns' = [conns EXCEPT ![c].client = "closed", ![c].server = "new"]
    /\ UNCHANGED <<clients, pool, list, crashed>>

\* The connection is made after remove(): connectCb throws, as it uses the socket
\* that onClose has set to null.
ConnectedOrphan(c) ==
    /\ ~crashed /\ conns[c].client = "orphan" /\ Reachable(c)
    /\ Crash \/ LeftOver(c)
    /\ UNCHANGED <<tmpCntList, recent, peerVars, msgVars, faults>>

\* The connection is refused or not answered.
ConnectFails(c) ==
    /\ ~crashed /\ conns[c].client \in {"connecting", "orphan"} /\ ~Reachable(c)
    /\ \/ conns[c].client = "connecting" /\ ClientClosed(c)
       \/ conns[c].client = "orphan" /\ conns' = [conns EXCEPT ![c] = Free]
          /\ UNCHANGED <<clients, pool>>
    /\ UNCHANGED <<crashed, queueVars, peerVars, msgVars, faults>>

\* The client's end of c closes: the peer's end has, or a heartbeat times out.
ClientOnClose(c) ==
    /\ ~crashed /\ conns[c].client = "open"
    /\ conns[c].cut \/ conns[c].server = "closed"
    /\ ClientClosed(c)
    /\ UNCHANGED <<crashed, queueVars, peerVars, msgVars, faults>>

\* onData: registered, or a message.
ClientOnData(c) ==
    /\ ~crashed /\ conns[c].client = "open" /\ ~conns[c].cut /\ conns[c].toClient # <<>>
    /\ conns' = [conns EXCEPT ![c].toClient = Tail(@)]
    /\ LET m == Head(conns[c].toClient)
           p == conns[c].peer
       IN  IF m = Register
           THEN /\ clients' = [clients EXCEPT ![p].phase = "registered"]
                /\ pool' = With(pool, p, c)
                /\ UNCHANGED got
           ELSE /\ got' = [got EXCEPT ![p].back = m]
                /\ UNCHANGED <<clients, pool>>
    /\ UNCHANGED <<crashed, queueVars, peerVars, sent, faults>>

\* What is written to a connection whose other end is closed goes nowhere.
ToServer(cs, c, ms) ==
    IF cs[c].server = "closed" \/ cs[c].cut THEN cs ELSE [cs EXCEPT ![c].toServer = @ \o ms]
ToClient(cs, c, ms) ==
    IF cs[c].client # "open" \/ cs[c].cut THEN cs ELSE [cs EXCEPT ![c].toClient = @ \o ms]

\* Slip: a message that does not fit is sent past the buffer.
SendPast(p) ==
    /\ p \in DOMAIN pool /\ sent[p].out < MaxMsgs[p].out
    /\ sent' = [sent EXCEPT ![p].out = @ + 1]
    /\ IF Len(clients[p].sendArr) + 1 > BufMax
       THEN conns' = ToServer(conns, pool[p], <<sent[p].out + 1>>) /\ UNCHANGED clients
       ELSE clients' = [clients EXCEPT ![p].sendArr = Append(@, sent[p].out + 1)] /\ UNCHANGED conns
    /\ UNCHANGED <<pool, crashed, queueVars, peerVars, got, faults>>
\* send: buffered until sendInterval, unless there is too much.
Send(p) ==
    /\ p \in DOMAIN pool /\ sent[p].out < MaxMsgs[p].out
    /\ sent' = [sent EXCEPT ![p].out = @ + 1]
    /\ LET buf == Append(clients[p].sendArr, sent[p].out + 1)
           full == Len(buf) > BufMax
       IN  /\ clients' = [clients EXCEPT ![p].sendArr = IF full THEN <<>> ELSE buf]
           /\ conns' = IF full THEN ToServer(conns, pool[p], buf) ELSE conns
    /\ UNCHANGED <<pool, crashed, queueVars, peerVars, got, faults>>

SendInterval(p) ==
    /\ p \in DOMAIN pool /\ clients[p].sendArr # <<>>
    /\ clients' = [clients EXCEPT ![p].sendArr = <<>>]
    /\ conns' = ToServer(conns, pool[p], clients[p].sendArr)
    /\ UNCHANGED <<pool, crashed, queueVars, peerVars, msgVars, faults>>

-----------------------------------------------------------------------------
(* The peers.                                                              *)

\* onClose of the server socket on c.
PeerClosed(c) ==
    /\ peerPool' = [peerPool EXCEPT ![conns[c].peer] =
          IF conns[c].server = "registered" THEN NoConn ELSE @]
    /\ conns' = Closed([conns EXCEPT ![c].sendArr = <<>>], c, "server")

\* Slip: a second connection may register.
NameTakenNever(p) == FALSE
\* The rpcPool has a connection of that name.
NameTaken(p) == peerPool[p] # NoConn

\* registerHandle: refused while another connection is registered.
PeerRegister(c) ==
    /\ conns[c].server = "new" /\ ~conns[c].cut /\ conns[c].toServer # <<>>
    /\ LET p == conns[c].peer
       IN  IF NameTaken(p) THEN PeerClosed(c)
           ELSE /\ peerPool' = [peerPool EXCEPT ![p] = c]
                /\ conns' = ToClient([conns EXCEPT ![c].server = "registered",
                                                   ![c].toServer = Tail(@)], c, <<Register>>)
    /\ UNCHANGED <<clientVars, queueVars, addr, msgVars, faults>>

\* onData of a registered connection.
PeerOnData(c) ==
    /\ conns[c].server = "registered" /\ ~conns[c].cut /\ conns[c].toServer # <<>>
    /\ conns' = [conns EXCEPT ![c].toServer = Tail(@)]
    /\ got' = [got EXCEPT ![conns[c].peer].out = Head(conns[c].toServer)]
    /\ UNCHANGED <<clientVars, queueVars, peerVars, sent, faults>>

\* The peer's end of c closes: the other end has, or a timer of its own fires.
PeerOnClose(c) ==
    /\ conns[c].server # "closed"
    /\ conns[c].client = "closed" \/ conns[c].cut
    /\ PeerClosed(c)
    /\ UNCHANGED <<clientVars, queueVars, addr, msgVars, faults>>

PeerSend(p) ==
    LET c == peerPool[p]
    IN  /\ c # NoConn /\ sent[p].back < MaxMsgs[p].back
        /\ sent' = [sent EXCEPT ![p].back = @ + 1]
        /\ LET buf == Append(conns[c].sendArr, sent[p].back + 1)
               full == Len(buf) > BufMax
               kept == [conns EXCEPT ![c].sendArr = IF full THEN <<>> ELSE buf]
           IN  conns' = IF full THEN ToClient(kept, c, buf) ELSE kept
        /\ UNCHANGED <<clientVars, queueVars, peerVars, got, faults>>

PeerSendInterval(p) ==
    LET c == peerPool[p]
    IN  /\ c # NoConn /\ conns[c].sendArr # <<>>
        /\ conns' = ToClient([conns EXCEPT ![c].sendArr = <<>>], c, conns[c].sendArr)
        /\ UNCHANGED <<clientVars, queueVars, peerVars, msgVars, faults>>

-----------------------------------------------------------------------------
(* Failures.                                                               *)

\* The network between the ends of c fails silently.
Cut(c) ==
    /\ conns[c] # Free /\ ~conns[c].cut /\ Fault(conns[c].peer)
    /\ conns' = [conns EXCEPT ![c].cut = TRUE, ![c].toServer = <<>>, ![c].toClient = <<>>]
    /\ UNCHANGED <<clientVars, queueVars, peerVars, msgVars>>

\* A peer dies and is started again, perhaps on another address.
PeerRestart(p, a) ==
    /\ Fault(p)
    /\ addr' = [addr EXCEPT ![p] = a]
    /\ peerPool' = [peerPool EXCEPT ![p] = NoConn]
    /\ conns' = [c \in Conns |->
          IF conns[c] # Free /\ conns[c].peer = p
          THEN Closed([conns EXCEPT ![c].sendArr = <<>>], c, "server")[c] ELSE conns[c]]
    /\ UNCHANGED <<clientVars, queueVars, msgVars>>

Next ==
    \/ Check
    \/ \E p \in Peers :
          \/ Learn(p) \/ RemoveRpcClient(p) \/ LineUp(p)
          \/ Send(p) \/ SendInterval(p) \/ PeerSend(p) \/ PeerSendInterval(p)
          \/ \E a \in Addrs : LearnStale(p, a) \/ PeerRestart(p, a)
    \/ \E c \in Conns :
          \/ Connected(c) \/ ConnectedOrphan(c) \/ ConnectFails(c)
          \/ ClientOnClose(c) \/ ClientOnData(c)
          \/ PeerRegister(c) \/ PeerOnData(c) \/ PeerOnClose(c) \/ Cut(c)

Spec == Init /\ [][Next]_vars

\* Timers fire, the network delivers or reports its end, and the connecting
\* server comes to know where a peer is; nothing need fail or be sent.
Fairness ==
    /\ WF_vars(Check)
    /\ \A p \in Peers : /\ WF_vars(Learn(p)) /\ WF_vars(LineUp(p))
                        /\ WF_vars(SendInterval(p)) /\ WF_vars(PeerSendInterval(p))
    /\ \A c \in Conns :
          /\ WF_vars(Connected(c) \/ ConnectedOrphan(c) \/ ConnectFails(c))
          /\ WF_vars(ClientOnClose(c)) /\ WF_vars(ClientOnData(c))
          /\ WF_vars(PeerRegister(c) \/ PeerOnData(c)) /\ WF_vars(PeerOnClose(c))

FairSpec == Spec /\ Fairness

-----------------------------------------------------------------------------
(* Properties.                                                             *)

\* Every variable has its type.
TypeOK ==
    /\ DOMAIN clients \subseteq Peers /\ DOMAIN pool \subseteq Peers
    /\ \A p \in DOMAIN clients :
          /\ clients[p].addr \in Addrs /\ clients[p].sendArr \in Seq(1..MaxMsgs[p].out)
          /\ clients[p].phase \in {"timer", "queued", "connecting", "open", "registered"}
          /\ clients[p].conn \in Conns \cup {NoConn}
    /\ \A p \in DOMAIN pool : pool[p] \in Conns
    /\ list \in Seq(Peers) /\ tmpCntList \in Seq(0..SocketPerSecond)
    /\ recent \in Seq(0..SocketPerSecond) /\ Len(recent) < Frame
    /\ peerPool \in [Peers -> Conns \cup {NoConn}] /\ addr \in [Peers -> Addrs]
    /\ DOMAIN conns = Conns
    /\ crashed \in BOOLEAN /\ \A p \in Peers : faults[p] \in 0..MaxFaults[p]

\* Each end has at most one connection in use with the other and its pool
\* names it, whatever is removed, replaced, restarted or half open; a client
\* socket is never left behind with nobody to close it, and a peer waits for a
\* turn exactly when its RpcClientSocket believes it does (rpcClient.ts
\* remove, onClose; rpcServer.ts registerHandle, onClose).
OneLink ==
    /\ \A p \in DOMAIN pool :
          /\ p \in DOMAIN clients /\ clients[p].phase = "registered" /\ clients[p].conn = pool[p]
          /\ conns[pool[p]].client = "open" /\ conns[pool[p]].addr = clients[p].addr
    /\ \A c \in Conns :
          /\ conns[c].client \in {"connecting", "open"} =>
                conns[c].peer \in DOMAIN clients /\ clients[conns[c].peer].conn = c
          /\ conns[c].server = "registered" => peerPool[conns[c].peer] = c
    /\ \A p \in Peers :
          /\ peerPool[p] # NoConn => conns[peerPool[p]].server = "registered"
          /\ Cardinality({i \in DOMAIN list : list[i] = p})
                = IF p \in DOMAIN clients /\ clients[p].phase = "queued" THEN 1 ELSE 0

\* What RpcService assumes of the wire: messages of either direction arrive at
\* most once and in order, across every reconnection.
InOrder ==
    [][\A p \in Peers : /\ got'[p].out # got[p].out => got'[p].out > got[p].out
                        /\ got'[p].back # got[p].back => got'[p].back > got[p].back]_vars

\* In any second no more connections are begun than socketPerSecond allows,
\* however the remainder is spread and wherever the second starts
\* (ExecLineUpUtil).
RateKept ==
    [][LET begun == {p \in DOMAIN clients : clients[p].phase = "queued" /\ p \in DOMAIN clients'
                                            /\ clients'[p].phase = "connecting"}
       IN  begun # {} =>
              FoldLeft(LAMBDA x, y : x + y, Cardinality(begun), recent) <= SocketPerSecond]_vars

\* When the failures are over, each peer is linked for good: the pools of both
\* ends hold the same connection, also in a process that lives on after an
\* exception (the others died of it: ConnectedOrphan).
Linked ==
    <>[](crashed \/ \A p \in Peers : p \in DOMAIN pool /\ peerPool[p] = pool[p])

\* Removing a client only removes the connection: it ends no process.
NeverCrashes == ~crashed
=============================================================================
