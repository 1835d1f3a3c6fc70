--------------------------- MODULE RpcLinkProofs ---------------------------
(***************************************************************************)
(* Proofs about RpcLink, for any peers, addresses, connections and faults: *)
(* each end has at most one connection in use with the other and its pool  *)
(* names it, what is sent over them arrives in order, and connections are  *)
(* begun at the rate allowed.                                              *)
(***************************************************************************)
EXTENDS RpcLink, DataTheorems, TLAPS

Phases == {"timer", "queued", "connecting", "open", "registered"}
Sockets == [addr : Addrs, phase : Phases, conn : Conns \cup {NoConn}, sendArr : Seq(Nat)]
ClientEnds == {"connecting", "orphan", "open", "closed"}
ServerEnds == {"closed", "new", "registered"}
Links == {r \in [peer : Peers, cut : BOOLEAN, addr : Addrs,
                 client : ClientEnds, server : ServerEnds,
                 toServer : Seq(Nat), toClient : Seq(Nat), sendArr : Seq(Nat)] :
            r.client # "closed" \/ r.server # "closed"}

(***************************************************************************)
(* The inductive invariant.                                                *)
(***************************************************************************)

ClientsOK == clients \in MapsOf(Peers, Sockets) /\ pool \in MapsOf(Peers, Conns)
QueueOK == list \in Seq(Peers) /\ tmpCntList \in Seq(Nat)
ConnsOK == conns \in [Conns -> Links \cup {Free}]
PeersOK == peerPool \in [Peers -> Conns \cup {NoConn}] /\ addr \in [Peers -> Addrs]
CountsOK == /\ sent \in [Peers -> [out : Nat, back : Nat]]
            /\ got \in [Peers -> [out : Nat, back : Nat]]
Types == ClientsOK /\ QueueOK /\ ConnsOK /\ PeersOK /\ CountsOK

\* The RpcClientSocket of a peer and the one connection it has, or is making,
\* name each other.
InUse(ph) == ph \in {"connecting", "open", "registered"}
ClientSide ==
    /\ \A p \in DOMAIN clients :
          /\ ~InUse(clients[p].phase) => clients[p].conn = NoConn
          /\ clients[p].phase # "registered" => clients[p].sendArr = <<>>
          /\ InUse(clients[p].phase) =>
                /\ clients[p].conn \in Conns /\ conns[clients[p].conn] # Free
                /\ conns[clients[p].conn].peer = p
                /\ conns[clients[p].conn].addr = clients[p].addr
                /\ conns[clients[p].conn].client =
                      IF clients[p].phase = "connecting" THEN "connecting" ELSE "open"
    /\ \A c \in Conns : conns[c].client \in {"connecting", "open"} =>
          conns[c].peer \in DOMAIN clients /\ clients[conns[c].peer].conn = c

\* What is in the pool is registered, at the peer too if it is still there.
PoolSide ==
    \A p \in DOMAIN pool :
       /\ p \in DOMAIN clients /\ clients[p].phase = "registered" /\ clients[p].conn = pool[p]
       /\ conns[pool[p]].server # "new"

PeerSide ==
    /\ \A c \in Conns : conns[c].server = "registered" => peerPool[conns[c].peer] = c
    /\ \A p \in Peers : peerPool[p] # NoConn =>
          conns[peerPool[p]].server = "registered" /\ conns[peerPool[p]].peer = p

\* The queue holds each waiting peer once.
QueueSide ==
    /\ Once(list)
    /\ \A p \in Peers : Has(list, p) <=>
          p \in DOMAIN clients /\ clients[p].phase = "queued"

\* What may be under way on a connection.
WireOf(r) ==
    /\ r.client \in {"connecting", "orphan"} => r.server = "closed"
    /\ r.server = "new" => r.toServer \in {<<>>, <<Register>>} /\ r.toClient = <<>>
    /\ r.server = "registered" => \A i \in DOMAIN r.toServer : r.toServer[i] # Register
    /\ r.server = "closed" => r.toServer = <<>>
    /\ r.server # "registered" => r.sendArr = <<>>
    /\ r.client # "open" => r.toClient = <<>>
WireSide == \A c \in Conns : conns[c] # Free => WireOf(conns[c])

Structure == ClientSide /\ PoolSide /\ PeerSide /\ QueueSide /\ WireSide

\* Messages in q rise, were sent and have not been received; those of q are
\* older than those of r.
Rising(q, lo, hi) ==
    /\ \A i, j \in DOMAIN q : i < j => q[i] < q[j]
    /\ \A i \in DOMAIN q : q[i] <= hi /\ (q[i] # Register => lo < q[i])
After(q, lo) == \A i \in DOMAIN q : lo < q[i]
Before(q, r) == \A i \in DOMAIN q, j \in DOMAIN r : q[i] < r[j]

OutOrder ==
    /\ \A p \in Peers : got[p].out <= sent[p].out
    /\ \A c \in Conns : conns[c] # Free =>
          /\ Rising(conns[c].toServer, got[conns[c].peer].out, sent[conns[c].peer].out)
          /\ conns[c].peer \in DOMAIN clients =>
                Before(conns[c].toServer, clients[conns[c].peer].sendArr)
    /\ \A p \in DOMAIN clients :
          /\ Rising(clients[p].sendArr, got[p].out, sent[p].out)
          /\ After(clients[p].sendArr, got[p].out)
BackOrder ==
    /\ \A p \in Peers : got[p].back <= sent[p].back
    /\ \A c \in Conns : conns[c] # Free =>
          /\ Rising(conns[c].toClient, got[conns[c].peer].back, sent[conns[c].peer].back)
          /\ Rising(conns[c].sendArr, got[conns[c].peer].back, sent[conns[c].peer].back)
          /\ After(conns[c].sendArr, got[conns[c].peer].back)
          /\ \A d \in Conns : conns[d] # Free /\ conns[d].peer = conns[c].peer =>
                Before(conns[c].toClient, conns[d].sendArr)

LInv == Types /\ Structure /\ OutOrder /\ BackOrder

(***************************************************************************)
(* Sequences of messages.                                                  *)
(***************************************************************************)

LEMMA TailRising ==
    ASSUME NEW q \in Seq(Nat), q # <<>>, NEW lo \in Nat, NEW hi \in Nat, Rising(q, lo, hi)
    PROVE  /\ Tail(q) \in Seq(Nat) /\ Head(q) \in Nat
           /\ Rising(Tail(q), lo, hi) /\ After(Tail(q), Head(q)) /\ Rising(Tail(q), Head(q), hi)
           /\ Head(q) <= hi /\ (Head(q) # Register => lo < Head(q))
           /\ \A r : Before(q, r) => Before(Tail(q), r) /\ After(r, Head(q))
<1>1. /\ Tail(q) \in Seq(Nat) /\ Len(Tail(q)) = Len(q) - 1 /\ Len(q) \in Nat /\ Len(q) > 0
      /\ \A i \in 1..Len(q) - 1 : Tail(q)[i] = q[i + 1]
      /\ Head(q) = q[1] /\ q[1] \in Nat /\ \A i \in 1..Len(q) : q[i] \in Nat
  OBVIOUS
<1>2. DOMAIN q = 1..Len(q) /\ DOMAIN Tail(q) = 1..Len(q) - 1
  BY <1>1
<1>3. \A i \in DOMAIN Tail(q) : i \in Nat /\ i >= 1 /\ i + 1 \in DOMAIN q /\ 1 \in DOMAIN q
                                /\ Tail(q)[i] = q[i + 1] /\ q[1] < q[i + 1]
  BY <1>1, <1>2 DEF Rising
<1>4. 1 \in DOMAIN q
  BY <1>1, <1>2
<1>. QED BY <1>1, <1>2, <1>3, <1>4 DEF Rising, After, Before

LEMMA ConcatRising ==
    ASSUME NEW q \in Seq(Nat), NEW r \in Seq(Nat), NEW lo \in Nat, NEW hi \in Nat,
           Rising(q, lo, hi), Rising(r, lo, hi), Before(q, r)
    PROVE  /\ q \o r \in Seq(Nat) /\ Rising(q \o r, lo, hi)
           /\ \A i \in DOMAIN (q \o r) :
                 (i \in DOMAIN q /\ (q \o r)[i] = q[i])
                 \/ \E j \in DOMAIN r : (q \o r)[i] = r[j]
<1> DEFINE s == q \o r
<1>1. /\ s \in Seq(Nat) /\ Len(s) = Len(q) + Len(r) /\ Len(q) \in Nat /\ Len(r) \in Nat
      /\ \A i \in 1..Len(s) : s[i] = IF i <= Len(q) THEN q[i] ELSE r[i - Len(q)]
      /\ DOMAIN s = 1..Len(s) /\ DOMAIN q = 1..Len(q) /\ DOMAIN r = 1..Len(r)
      /\ \A i \in DOMAIN q : q[i] \in Nat
      /\ \A i \in DOMAIN r : r[i] \in Nat
  OBVIOUS
<1> HIDE DEF s
<1>2. ASSUME NEW i \in DOMAIN s
      PROVE  \/ i \in DOMAIN q /\ s[i] = q[i]
             \/ i > Len(q) /\ i - Len(q) \in DOMAIN r /\ s[i] = r[i - Len(q)]
  BY <1>1
<1>3. ASSUME NEW i \in DOMAIN s, NEW j \in DOMAIN s, i < j
      PROVE  s[i] < s[j]
  <2>1. i \in Nat /\ j \in Nat
    BY <1>1
  <2>2. CASE j \in DOMAIN q /\ s[j] = q[j]
    <3>1. i \in DOMAIN q /\ s[i] = q[i]
      BY <2>1, <2>2, <1>1, <1>3
    <3>. QED BY <2>2, <3>1, <1>3 DEF Rising
  <2>3. CASE j > Len(q) /\ j - Len(q) \in DOMAIN r /\ s[j] = r[j - Len(q)]
    <3>1. CASE i \in DOMAIN q /\ s[i] = q[i]
      BY <2>3, <3>1 DEF Before
    <3>2. CASE i > Len(q) /\ i - Len(q) \in DOMAIN r /\ s[i] = r[i - Len(q)]
      <4>1. i - Len(q) < j - Len(q)
        BY <2>1, <1>1, <1>3
      <4>. QED BY <2>3, <3>2, <4>1 DEF Rising
    <3>. QED BY <1>2, <3>1, <3>2
  <2>. QED BY <1>2, <2>2, <2>3
<1>4. \A i \in DOMAIN s : s[i] <= hi /\ (s[i] # Register => lo < s[i])
  BY <1>2 DEF Rising
<1>. QED BY <1>1, <1>2, <1>3, <1>4 DEF Rising, s

LEMMA AppendRising ==
    ASSUME NEW q \in Seq(Nat), NEW lo \in Nat, NEW hi \in Nat, Rising(q, lo, hi), lo <= hi
    PROVE  /\ Append(q, hi + 1) \in Seq(Nat)
           /\ Rising(q, lo, hi + 1) /\ Rising(Append(q, hi + 1), lo, hi + 1)
           /\ After(q, lo) => After(Append(q, hi + 1), lo)
<1>1. /\ Append(q, hi + 1) \in Seq(Nat) /\ Len(q) \in Nat
      /\ DOMAIN q = 1..Len(q) /\ DOMAIN Append(q, hi + 1) = 1..Len(q) + 1
      /\ \A i \in 1..Len(q) : Append(q, hi + 1)[i] = q[i] /\ q[i] \in Nat
      /\ Append(q, hi + 1)[Len(q) + 1] = hi + 1
  OBVIOUS
<1>2. \A i \in 1..Len(q) : q[i] <= hi /\ (q[i] # Register => lo < q[i])
  BY <1>1 DEF Rising
<1>3. \A i \in 1..Len(q) + 1 : i \in 1..Len(q) \/ i = Len(q) + 1
  BY <1>1
<1>. QED BY <1>1, <1>2, <1>3 DEF Rising, After

\* Nothing, and what registers, is in order with anything.
LEMMA ShortRising ==
    ASSUME NEW lo \in Nat, NEW hi \in Nat
    PROVE  /\ Rising(<<>>, lo, hi) /\ Rising(<<Register>>, lo, hi) /\ After(<<>>, lo)
           /\ \A r : Before(<<>>, r) /\ Before(r, <<>>)
           /\ \A r \in Seq(Nat) : After(r, lo) => Before(<<Register>>, r)
BY DEF Rising, After, Before, Register

(***************************************************************************)
(* Connections.                                                            *)
(***************************************************************************)

LEMMA LinkElim ==
    ASSUME ConnsOK, NEW c \in Conns
    PROVE  /\ conns[c].client \in ClientEnds /\ conns[c].server \in ServerEnds
           /\ conns[c] = Free <=> conns[c].client = "closed" /\ conns[c].server = "closed"
           /\ conns[c] # Free => conns[c] \in Links
<1>1. conns[c] \in Links \cup {Free}
  BY DEF ConnsOK
<1>2. CASE conns[c] = Free
  BY <1>2 DEF Free, ClientEnds, ServerEnds
<1>3. CASE conns[c] \in Links
  BY <1>3 DEF Links, Free
<1>. QED BY <1>1, <1>2, <1>3

LEMMA LinkFields ==
    ASSUME NEW r \in Links
    PROVE  /\ r # Free /\ r.peer \in Peers /\ r.addr \in Addrs
           /\ r.client \in ClientEnds /\ r.server \in ServerEnds
           /\ r.toServer \in Seq(Nat) /\ r.toClient \in Seq(Nat) /\ r.sendArr \in Seq(Nat)
BY DEF Links, Free

\* A link with other queues, or other ends.
LEMMA LinkQueues ==
    ASSUME NEW r \in Links, NEW q \in Seq(Nat)
    PROVE  /\ LET n == [r EXCEPT !.toServer = q]
              IN  n \in Links /\ n.peer = r.peer /\ n.addr = r.addr /\ n.client = r.client
                  /\ n.server = r.server /\ n.cut = r.cut
                  /\ n.toServer = q /\ n.toClient = r.toClient /\ n.sendArr = r.sendArr
           /\ LET n == [r EXCEPT !.toClient = q]
              IN  n \in Links /\ n.peer = r.peer /\ n.addr = r.addr /\ n.client = r.client
                  /\ n.server = r.server /\ n.cut = r.cut
                  /\ n.toServer = r.toServer /\ n.toClient = q /\ n.sendArr = r.sendArr
           /\ LET n == [r EXCEPT !.sendArr = q]
              IN  n \in Links /\ n.peer = r.peer /\ n.addr = r.addr /\ n.client = r.client
                  /\ n.server = r.server /\ n.cut = r.cut
                  /\ n.toServer = r.toServer /\ n.toClient = r.toClient /\ n.sendArr = q
BY DEF Links

LEMMA LinkEnds ==
    ASSUME NEW r \in Links
    PROVE  /\ \A x \in ClientEnds :
              LET n == [r EXCEPT !.client = x]
              IN  (x # "closed" \/ r.server # "closed" => n \in Links)
                  /\ n.peer = r.peer /\ n.addr = r.addr /\ n.client = x
                  /\ n.server = r.server /\ n.cut = r.cut
                  /\ n.toServer = r.toServer /\ n.toClient = r.toClient /\ n.sendArr = r.sendArr
           /\ \A x \in ServerEnds :
              LET n == [r EXCEPT !.server = x]
              IN  (x # "closed" \/ r.client # "closed" => n \in Links)
                  /\ n.peer = r.peer /\ n.addr = r.addr /\ n.client = r.client
                  /\ n.server = x /\ n.cut = r.cut
                  /\ n.toServer = r.toServer /\ n.toClient = r.toClient /\ n.sendArr = r.sendArr
           /\ \A x \in BOOLEAN :
              LET n == [r EXCEPT !.cut = x]
              IN  n \in Links /\ n.peer = r.peer /\ n.addr = r.addr /\ n.client = r.client
                  /\ n.server = r.server
                  /\ n.toServer = r.toServer /\ n.toClient = r.toClient /\ n.sendArr = r.sendArr
BY DEF Links

ClientEndClosed(c) == Closed(conns, c, "client")
PeerEndClosed(c) == Closed([conns EXCEPT ![c].sendArr = <<>>], c, "server")

\* Closing an end of c leaves the other end, and what is on its way there.
LEMMA ClosedClient ==
    ASSUME ConnsOK, NEW c \in Conns, conns[c] \in Links
    PROVE  LET ds == ClientEndClosed(c)
           IN  /\ ds \in [Conns -> Links \cup {Free}]
               /\ \A d \in Conns \ {c} : ds[d] = conns[d]
               /\ ds[c].client = "closed" /\ ds[c].server = conns[c].server
               /\ ds[c] # Free => /\ ds[c].peer = conns[c].peer /\ ds[c].toServer = conns[c].toServer
                                  /\ ds[c].toClient = <<>> /\ ds[c].sendArr = conns[c].sendArr
<1> DEFINE ds == ClientEndClosed(c)
           r == conns[c]
           m == [r EXCEPT !.client = "closed"]
           n == [m EXCEPT !.toClient = <<>>]
<1>1. <<>> \in Seq(Nat) /\ "closed" \in ClientEnds
  BY DEF ClientEnds
<1>2. ds = [conns EXCEPT ![c] = IF n.client = "closed" /\ n.server = "closed" THEN Free ELSE n]
  BY DEF Closed, ClientEndClosed
<1>0. conns \in [Conns -> Links \cup {Free}] /\ conns[c] \in Links
  BY DEF ConnsOK
<1> HIDE DEF ds
<1>3. /\ m.client = "closed" /\ m.server = r.server /\ m.peer = r.peer /\ m.toServer = r.toServer
      /\ m.sendArr = r.sendArr
      /\ r.server # "closed" => m \in Links
  BY <1>0, <1>1, LinkEnds
<1>4. CASE r.server = "closed"
  <2>1. n.client = "closed" /\ n.server = "closed"
    BY <1>0, <1>3, <1>4 DEF Links
  <2>2. ds = [conns EXCEPT ![c] = Free]
    BY <1>0, <1>2, <2>1
  <2>. QED BY <1>0, <2>2, <1>4 DEF Free, ds
<1>5. CASE r.server # "closed"
  <2> HIDE DEF m
  <2>1. /\ n \in Links /\ n.client = "closed" /\ n.server = r.server /\ n.peer = r.peer
        /\ n.toServer = r.toServer /\ n.toClient = <<>> /\ n.sendArr = r.sendArr
    BY <1>1, <1>3, <1>5, LinkQueues
  <2> HIDE DEF n
  <2>2. ds = [conns EXCEPT ![c] = n]
    BY <1>2, <1>5, <2>1
  <2>. QED BY <1>0, <2>1, <2>2 DEF ds
<1>. QED BY <1>4, <1>5 DEF ds

LEMMA ClosedServer ==
    ASSUME ConnsOK, NEW c \in Conns, conns[c] \in Links
    PROVE  LET ds == PeerEndClosed(c)
           IN  /\ ds \in [Conns -> Links \cup {Free}]
               /\ \A d \in Conns \ {c} : ds[d] = conns[d]
               /\ ds[c].server = "closed" /\ ds[c].client = conns[c].client
               /\ ds[c] # Free => /\ ds[c].peer = conns[c].peer /\ ds[c].addr = conns[c].addr
                                  /\ ds[c].toServer = <<>> /\ ds[c].toClient = conns[c].toClient
                                  /\ ds[c].sendArr = <<>>
<1> DEFINE ds == PeerEndClosed(c)
           es == [conns EXCEPT ![c].sendArr = <<>>]
           l == [conns[c] EXCEPT !.sendArr = <<>>]
           r == es[c]
           m == [r EXCEPT !.server = "closed"]
           n == [m EXCEPT !.toServer = <<>>]
<1>1. <<>> \in Seq(Nat) /\ "closed" \in ServerEnds
  BY DEF ServerEnds
<1>2. ds = [es EXCEPT ![c] = IF n.client = "closed" /\ n.server = "closed" THEN Free ELSE n]
  BY DEF Closed, PeerEndClosed
<1>0. conns \in [Conns -> Links \cup {Free}] /\ conns[c] \in Links
  BY DEF ConnsOK
<1> HIDE DEF ds
<1>3. /\ l \in Links /\ l.client = conns[c].client /\ l.peer = conns[c].peer /\ l.addr = conns[c].addr
      /\ l.toClient = conns[c].toClient /\ l.sendArr = <<>>
  BY <1>0, <1>1, LinkQueues
<1>4. r = l /\ r \in Links /\ es \in [Conns -> Links \cup {Free}] /\ \A d \in Conns \ {c} : es[d] = conns[d]
  BY <1>0, <1>3
<1> HIDE DEF l, es
<1>5. /\ m.server = "closed" /\ m.client = r.client /\ m.peer = r.peer /\ m.addr = r.addr
      /\ m.toClient = r.toClient /\ m.sendArr = r.sendArr
      /\ r.client # "closed" => m \in Links
  BY <1>1, <1>3, <1>4, LinkEnds
<1>6. CASE r.client = "closed"
  <2>1. n.client = "closed" /\ n.server = "closed"
    BY <1>3, <1>4, <1>5, <1>6 DEF Links
  <2>2. ds = [es EXCEPT ![c] = Free]
    BY <1>0, <1>2, <2>1
  <2> HIDE DEF n, m
  <2>3. ds[c] = Free /\ \A d \in Conns \ {c} : ds[d] = conns[d]
    BY <1>4, <2>2
  <2>4. ds \in [Conns -> Links \cup {Free}]
    BY <1>4, <2>2
  <2>5. conns[c].client = "closed"
    BY <1>3, <1>4, <1>6
  <2>6. Free.client = "closed" /\ Free.server = "closed"
    BY DEF Free
  <2>. QED BY <2>3, <2>4, <2>5, <2>6 DEF ds
<1>7. CASE r.client # "closed"
  <2> HIDE DEF m
  <2>1. /\ n \in Links /\ n.server = "closed" /\ n.client = r.client /\ n.peer = r.peer
        /\ n.addr = r.addr /\ n.toServer = <<>> /\ n.toClient = r.toClient /\ n.sendArr = r.sendArr
    BY <1>1, <1>5, <1>7, LinkQueues
  <2> HIDE DEF n
  <2>2. ds = [es EXCEPT ![c] = n]
    BY <1>2, <1>7, <2>1
  <2>. QED BY <1>3, <1>4, <2>1, <2>2 DEF ds
<1>. QED BY <1>6, <1>7 DEF ds

(***************************************************************************)
(* Steps that add no message, and steps that change nothing else.          *)
(***************************************************************************)

\* Every queue is what it was, or empty, or begins with register.
LinkAddsNone(c) ==
    /\ conns[c] # Free /\ conns[c].peer = conns'[c].peer
    /\ conns'[c].toServer \in {conns[c].toServer, <<>>, <<Register>>}
    /\ conns'[c].toClient \in {conns[c].toClient, <<>>, <<Register>>}
    /\ conns'[c].sendArr \in {conns[c].sendArr, <<>>}
LinkEmpty(c) == conns'[c].toServer = <<>> /\ conns'[c].toClient = <<>> /\ conns'[c].sendArr = <<>>
NoneAdded ==
    /\ UNCHANGED msgVars
    /\ \A c \in Conns : conns'[c] # Free => LinkAddsNone(c) \/ LinkEmpty(c)
    /\ \A p \in DOMAIN clients' :
          \/ clients'[p].sendArr = <<>>
          \/ p \in DOMAIN clients /\ clients'[p].sendArr = clients[p].sendArr

LEMMA NoneAddedOrder ==
    ASSUME LInv, Types', NoneAdded
    PROVE  OutOrder' /\ BackOrder'
<1>1. \A p \in Peers : /\ got[p].out \in Nat /\ sent[p].out \in Nat
                       /\ got[p].back \in Nat /\ sent[p].back \in Nat
  BY DEF LInv, Types, CountsOK
<1>2. got' = got /\ sent' = sent
  BY DEF NoneAdded, msgVars
<1>3. ASSUME NEW c \in Conns, conns'[c] # Free
      PROVE  /\ conns'[c].peer \in Peers
             /\ conns'[c].toServer \in Seq(Nat) /\ conns'[c].toClient \in Seq(Nat)
             /\ conns'[c].sendArr \in Seq(Nat)
  BY <1>3, LinkFields DEF Types, ConnsOK
<1>4. ASSUME NEW p \in DOMAIN clients'
      PROVE  /\ p \in Peers
             /\ Rising(clients'[p].sendArr, got[p].out, sent[p].out)
             /\ After(clients'[p].sendArr, got[p].out) /\ clients'[p].sendArr \in Seq(Nat)
  <2>1. p \in Peers /\ clients'[p] \in Sockets
    BY <1>4, MapElim DEF Types, ClientsOK
  <2>2. clients'[p].sendArr \in Seq(Nat)
    BY <2>1 DEF Sockets
  <2>. QED BY <1>1, <1>4, <2>1, <2>2, ShortRising DEF NoneAdded, LInv, OutOrder
<1>5. ASSUME NEW c \in Conns, conns'[c] # Free
      PROVE  LET p == conns'[c].peer
             IN  /\ Rising(conns'[c].toServer, got[p].out, sent[p].out)
                 /\ Rising(conns'[c].toClient, got[p].back, sent[p].back)
                 /\ Rising(conns'[c].sendArr, got[p].back, sent[p].back)
                 /\ After(conns'[c].sendArr, got[p].back)
  <2> DEFINE p == conns'[c].peer
  <2>1. p \in Peers
    BY <1>3, <1>5
  <2>2. CASE LinkAddsNone(c)
    <3>1. conns[c] # Free /\ conns[c].peer = p
      BY <2>2 DEF LinkAddsNone
    <3>. QED BY <1>1, <2>1, <2>2, <3>1, ShortRising DEF LinkAddsNone, LInv, OutOrder, BackOrder
  <2>3. CASE LinkEmpty(c)
    BY <1>1, <2>1, <2>3, ShortRising DEF LinkEmpty
  <2>. QED BY <1>5, <2>2, <2>3 DEF NoneAdded
<1>6. ASSUME NEW c \in Conns, conns'[c] # Free, conns'[c].peer \in DOMAIN clients'
      PROVE  Before(conns'[c].toServer, clients'[conns'[c].peer].sendArr)
  <2> DEFINE p == conns'[c].peer
  <2>1. /\ p \in Peers /\ After(clients'[p].sendArr, got[p].out)
        /\ clients'[p].sendArr \in Seq(Nat)
    BY <1>4, <1>6
  <2>2. CASE clients'[p].sendArr = <<>> \/ conns'[c].toServer \in {<<>>, <<Register>>}
    BY <1>1, <2>1, <2>2, ShortRising
  <2>3. CASE ~(clients'[p].sendArr = <<>> \/ conns'[c].toServer \in {<<>>, <<Register>>})
    <3>1. p \in DOMAIN clients /\ clients'[p].sendArr = clients[p].sendArr
      BY <1>6, <2>3 DEF NoneAdded
    <3>2. conns[c] # Free /\ conns[c].peer = p /\ conns'[c].toServer = conns[c].toServer
      BY <1>6, <2>3 DEF NoneAdded, LinkAddsNone, LinkEmpty
    <3>. QED BY <3>1, <3>2 DEF LInv, OutOrder
  <2>. QED BY <2>2, <2>3
<1>7. ASSUME NEW c \in Conns, conns'[c] # Free, NEW d \in Conns, conns'[d] # Free,
             conns'[d].peer = conns'[c].peer
      PROVE  Before(conns'[c].toClient, conns'[d].sendArr)
  <2> DEFINE p == conns'[c].peer
  <2>1. p \in Peers /\ After(conns'[d].sendArr, got[p].back) /\ conns'[d].sendArr \in Seq(Nat)
    BY <1>3, <1>5, <1>7
  <2>2. CASE conns'[d].sendArr = <<>> \/ conns'[c].toClient \in {<<>>, <<Register>>}
    BY <1>1, <2>1, <2>2, ShortRising
  <2>3. CASE ~(conns'[d].sendArr = <<>> \/ conns'[c].toClient \in {<<>>, <<Register>>})
    <3>1. conns[d] # Free /\ conns[d].peer = p /\ conns'[d].sendArr = conns[d].sendArr
      BY <1>7, <2>3 DEF NoneAdded, LinkAddsNone, LinkEmpty
    <3>2. conns[c] # Free /\ conns[c].peer = p /\ conns'[c].toClient = conns[c].toClient
      BY <1>7, <2>3 DEF NoneAdded, LinkAddsNone, LinkEmpty
    <3>. QED BY <3>1, <3>2 DEF LInv, BackOrder
  <2>. QED BY <2>2, <2>3
<1>8. OutOrder'
  BY <1>2, <1>4, <1>5, <1>6 DEF LInv, OutOrder
<1>9. BackOrder'
  BY <1>2, <1>5, <1>7 DEF LInv, BackOrder
<1>. QED BY <1>8, <1>9

\* Only queues and what the sockets buffer change.
SameEnds ==
    \A c \in Conns :
       /\ conns'[c].client = conns[c].client /\ conns'[c].server = conns[c].server
       /\ conns'[c] # Free => conns'[c].peer = conns[c].peer /\ conns'[c].addr = conns[c].addr
SameSockets ==
    /\ DOMAIN clients' = DOMAIN clients
    /\ \A p \in DOMAIN clients :
          /\ clients'[p].phase = clients[p].phase /\ clients'[p].conn = clients[p].conn
          /\ clients'[p].addr = clients[p].addr
          /\ clients[p].phase # "registered" => clients'[p].sendArr = <<>>

LEMMA SameFree ==
    ASSUME ConnsOK, ConnsOK', SameEnds, NEW c \in Conns
    PROVE  conns'[c] = Free <=> conns[c] = Free
<1>1. conns'[c] = Free <=> conns'[c].client = "closed" /\ conns'[c].server = "closed"
  <2>1. conns'[c] \in Links \cup {Free}
    BY DEF ConnsOK
  <2>. QED BY <2>1 DEF Links, Free
<1>. QED BY <1>1, LinkElim DEF SameEnds

LEMMA SameStructure ==
    ASSUME LInv, Types', SameEnds, SameSockets, UNCHANGED <<pool, list, peerPool>>, WireSide'
    PROVE  Structure'
<1>1. \A c \in Conns : conns'[c] = Free <=> conns[c] = Free
  BY SameFree DEF LInv, Types
<1>2. ClientSide'
  <2>1. ASSUME NEW p \in DOMAIN clients'
        PROVE  /\ ~InUse(clients'[p].phase) => clients'[p].conn = NoConn
               /\ clients'[p].phase # "registered" => clients'[p].sendArr = <<>>
               /\ InUse(clients'[p].phase) =>
                     /\ clients'[p].conn \in Conns /\ conns'[clients'[p].conn] # Free
                     /\ conns'[clients'[p].conn].peer = p
                     /\ conns'[clients'[p].conn].addr = clients'[p].addr
                     /\ conns'[clients'[p].conn].client =
                           IF clients'[p].phase = "connecting" THEN "connecting" ELSE "open"
    BY <1>1, <2>1 DEF LInv, Structure, ClientSide, SameEnds, SameSockets
  <2>2. ASSUME NEW c \in Conns, conns'[c].client \in {"connecting", "open"}
        PROVE  conns'[c].peer \in DOMAIN clients' /\ clients'[conns'[c].peer].conn = c
    <3>1. conns'[c] # Free
      BY <2>2 DEF Free
    <3>. QED BY <2>2, <3>1 DEF LInv, Structure, ClientSide, SameEnds, SameSockets
  <2>. QED BY <2>1, <2>2 DEF ClientSide
<1>3. PoolSide'
  <2>1. \A p \in DOMAIN pool : pool[p] \in Conns
    BY MapElim DEF LInv, Types, ClientsOK
  <2>. QED BY <2>1 DEF LInv, Structure, PoolSide, SameEnds, SameSockets
<1>4. PeerSide'
  <2>1. \A c \in Conns : conns'[c].server = "registered" => conns'[c] # Free
    BY DEF Free
  <2>2. \A p \in Peers : peerPool[p] # NoConn => peerPool[p] \in Conns
    BY DEF LInv, Types, PeersOK
  <2>3. \A c \in Conns : conns'[c].server = "registered" => peerPool'[conns'[c].peer] = c
    BY <2>1 DEF LInv, Structure, PeerSide, SameEnds
  <2>4. \A p \in Peers : peerPool'[p] # NoConn =>
            conns'[peerPool'[p]].server = "registered" /\ conns'[peerPool'[p]].peer = p
    BY <2>1, <2>2 DEF LInv, Structure, PeerSide, SameEnds
  <2>. QED BY <2>3, <2>4 DEF PeerSide
<1>5. QueueSide'
  BY DEF LInv, Structure, QueueSide, SameSockets
<1>. QED BY <1>2, <1>3, <1>4, <1>5 DEF Structure

\* Messages in the other direction are not touched.
LEMMA SameOut ==
    ASSUME LInv, Types', SameEnds, DOMAIN clients' = DOMAIN clients,
           \A p \in DOMAIN clients : clients'[p].sendArr = clients[p].sendArr,
           \A c \in Conns : conns'[c] # Free => conns'[c].toServer = conns[c].toServer,
           \A p \in Peers : got'[p].out = got[p].out /\ sent'[p].out = sent[p].out
    PROVE  OutOrder'
<1>1. \A c \in Conns : conns'[c] = Free <=> conns[c] = Free
  BY SameFree DEF LInv, Types
<1>2. \A c \in Conns : conns[c] # Free => conns[c].peer \in Peers
  BY LinkElim, LinkFields DEF LInv, Types
<1>3. \A p \in DOMAIN clients : p \in Peers
  BY MapElim DEF LInv, Types, ClientsOK
<1>4. \A p \in Peers : (got[p].out <= sent[p].out)'
  BY DEF LInv, OutOrder
<1>5. \A p \in DOMAIN clients' : /\ Rising(clients[p].sendArr, got[p].out, sent[p].out)'
                                 /\ After(clients[p].sendArr, got[p].out)'
  BY <1>3 DEF LInv, OutOrder
<1>6. ASSUME NEW c \in Conns, conns'[c] # Free
      PROVE  /\ Rising(conns'[c].toServer, got'[conns'[c].peer].out, sent'[conns'[c].peer].out)
             /\ conns'[c].peer \in DOMAIN clients' =>
                   Before(conns'[c].toServer, clients'[conns'[c].peer].sendArr)
  <2>1. /\ conns[c] # Free /\ conns'[c].peer = conns[c].peer /\ conns[c].peer \in Peers
        /\ conns'[c].toServer = conns[c].toServer
    BY <1>1, <1>2, <1>6 DEF SameEnds
  <2>. QED BY <2>1 DEF LInv, OutOrder
<1>. QED BY <1>4, <1>5, <1>6 DEF OutOrder

LEMMA SameBack ==
    ASSUME LInv, Types', SameEnds,
           \A c \in Conns : conns'[c] # Free => /\ conns'[c].toClient = conns[c].toClient
                                                /\ conns'[c].sendArr = conns[c].sendArr,
           \A p \in Peers : got'[p].back = got[p].back /\ sent'[p].back = sent[p].back
    PROVE  BackOrder'
<1>1. \A c \in Conns : conns'[c] = Free <=> conns[c] = Free
  BY SameFree DEF LInv, Types
<1>2. \A c \in Conns : conns[c] # Free => conns[c].peer \in Peers
  BY LinkElim, LinkFields DEF LInv, Types
<1>3. \A p \in Peers : (got[p].back <= sent[p].back)'
  BY DEF LInv, BackOrder
<1>4. ASSUME NEW c \in Conns, conns'[c] # Free
      PROVE  /\ conns[c] # Free /\ conns'[c].peer = conns[c].peer /\ conns[c].peer \in Peers
             /\ conns'[c].toClient = conns[c].toClient /\ conns'[c].sendArr = conns[c].sendArr
  BY <1>1, <1>2, <1>4 DEF SameEnds
<1>5. ASSUME NEW c \in Conns, conns'[c] # Free
      PROVE  LET p == conns'[c].peer
             IN  /\ Rising(conns'[c].toClient, got'[p].back, sent'[p].back)
                 /\ Rising(conns'[c].sendArr, got'[p].back, sent'[p].back)
                 /\ After(conns'[c].sendArr, got'[p].back)
  BY <1>4, <1>5 DEF LInv, BackOrder
<1>6. ASSUME NEW c \in Conns, conns'[c] # Free, NEW d \in Conns, conns'[d] # Free,
             conns'[d].peer = conns'[c].peer
      PROVE  Before(conns'[c].toClient, conns'[d].sendArr)
  BY <1>4, <1>6 DEF LInv, BackOrder
<1>. QED BY <1>3, <1>5, <1>6 DEF BackOrder

(***************************************************************************)
(* Messages to a peer.                                                     *)
(***************************************************************************)

LEMMA CountsSet ==
    ASSUME NEW f \in [Peers -> [out : Nat, back : Nat]], NEW p \in Peers, NEW n \in Nat
    PROVE  /\ LET g == [f EXCEPT ![p].out = n]
              IN  /\ g \in [Peers -> [out : Nat, back : Nat]]
                  /\ \A x \in Peers : g[x].back = f[x].back
                  /\ \A x \in Peers : g[x].out = IF x = p THEN n ELSE f[x].out
           /\ LET g == [f EXCEPT ![p].back = n]
              IN  /\ g \in [Peers -> [out : Nat, back : Nat]]
                  /\ \A x \in Peers : g[x].out = f[x].out
                  /\ \A x \in Peers : g[x].back = IF x = p THEN n ELSE f[x].back
OBVIOUS

\* What the pools hold.
LEMMA InPool ==
    ASSUME LInv, NEW p \in DOMAIN pool
    PROVE  /\ p \in Peers /\ p \in DOMAIN clients /\ clients[p] \in Sockets
           /\ clients[p].phase = "registered" /\ clients[p].conn = pool[p]
           /\ clients[p].sendArr \in Seq(Nat)
           /\ pool[p] \in Conns /\ conns[pool[p]] \in Links /\ conns[pool[p]].peer = p
           /\ conns[pool[p]].client = "open" /\ conns[pool[p]].server # "new"
<1>1. p \in Peers /\ pool[p] \in Conns
  BY MapElim DEF LInv, Types, ClientsOK
<1>2. /\ p \in DOMAIN clients /\ clients[p].phase = "registered" /\ clients[p].conn = pool[p]
      /\ conns[pool[p]].server # "new"
  BY DEF LInv, Structure, PoolSide
<1>3. clients[p] \in Sockets
  BY <1>2, MapElim DEF LInv, Types, ClientsOK
<1>4. conns[pool[p]] # Free /\ conns[pool[p]].peer = p /\ conns[pool[p]].client = "open"
  BY <1>2 DEF LInv, Structure, ClientSide, InUse
<1>. QED BY <1>1, <1>2, <1>3, <1>4, LinkElim DEF LInv, Types, Sockets

\* A socket with another buffer.
LEMMA BufferSet ==
    ASSUME LInv, NEW p \in DOMAIN pool, NEW q \in Seq(Nat),
           clients' = [clients EXCEPT ![p].sendArr = q], pool' = pool
    PROVE  /\ ClientsOK' /\ SameSockets /\ DOMAIN clients' = DOMAIN clients
           /\ clients'[p].sendArr = q
           /\ \A x \in DOMAIN clients \ {p} : clients'[x] = clients[x]
<1> DEFINE v == [clients[p] EXCEPT !.sendArr = q]
<1>1. p \in DOMAIN clients /\ clients[p] \in Sockets /\ clients[p].phase = "registered"
  BY InPool
<1>2. /\ v \in Sockets /\ v.phase = clients[p].phase /\ v.conn = clients[p].conn
      /\ v.addr = clients[p].addr /\ v.sendArr = q
  BY <1>1 DEF Sockets
<1>3. clients' = [clients EXCEPT ![p] = v]
  OBVIOUS
<1> HIDE DEF v
<1>4. /\ DOMAIN clients \in SUBSET Peers /\ clients \in [DOMAIN clients -> Sockets]
      /\ pool \in MapsOf(Peers, Conns)
  BY MapElim DEF LInv, Types, ClientsOK
<1>5. clients' \in [DOMAIN clients -> Sockets]
  BY <1>1, <1>2, <1>3, <1>4
<1>6. ClientsOK'
  BY <1>4, <1>5, MapIntro DEF ClientsOK
<1>7. \A x \in DOMAIN clients : clients[x].phase # "registered" => clients[x].sendArr = <<>>
  BY DEF LInv, Structure, ClientSide
<1>8. DOMAIN clients' = DOMAIN clients /\ clients'[p] = v
      /\ \A x \in DOMAIN clients \ {p} : clients'[x] = clients[x]
  BY <1>1, <1>3, <1>4
<1>9. SameSockets
  BY <1>1, <1>2, <1>7, <1>8 DEF SameSockets
<1>. QED BY <1>2, <1>6, <1>8, <1>9

\* What ToServer writes.
LEMMA Written ==
    ASSUME LInv, NEW c \in Conns, conns[c] \in Links, NEW q \in Seq(Nat),
           conns[c].server # "new", \A i \in DOMAIN q : q[i] # Register,
           conns' = ToServer(conns, c, q)
    PROVE  /\ ConnsOK' /\ SameEnds /\ WireSide'
           /\ \A d \in Conns \ {c} : conns'[d] = conns[d]
           /\ \/ conns'[c].toServer = conns[c].toServer
              \/ conns'[c].toServer = conns[c].toServer \o q
           /\ conns'[c].toClient = conns[c].toClient /\ conns'[c].sendArr = conns[c].sendArr
<1>1. CASE conns' = conns
  BY <1>1 DEF LInv, Types, Structure, ConnsOK, SameEnds, WireSide
<1>2. CASE conns' # conns
  <2> DEFINE s == conns[c].toServer \o q
             v == [conns[c] EXCEPT !.toServer = s]
  <2>1. conns[c].server = "registered" /\ conns' = [conns EXCEPT ![c] = v]
    BY <1>2, LinkFields DEF ToServer, ServerEnds
  <2>2. conns[c].toServer \in Seq(Nat) /\ conns[c] # Free
    BY LinkFields
  <2>3. s \in Seq(Nat)
    BY <2>2
  <2>4. \A i \in DOMAIN s : s[i] # Register
    <3>1. \A i \in DOMAIN conns[c].toServer : conns[c].toServer[i] # Register
      BY <2>1, <2>2 DEF LInv, Structure, WireSide, WireOf
    <3>. QED BY <2>2, <3>1
  <2> HIDE DEF s
  <2>5. /\ v \in Links /\ v.peer = conns[c].peer /\ v.addr = conns[c].addr
        /\ v.client = conns[c].client /\ v.server = conns[c].server /\ v.toServer = s
        /\ v.toClient = conns[c].toClient /\ v.sendArr = conns[c].sendArr
    BY <2>3, LinkQueues
  <2> HIDE DEF v
  <2>6. conns \in [Conns -> Links \cup {Free}]
    BY DEF LInv, Types, ConnsOK
  <2>7. ConnsOK' /\ conns'[c] = v /\ \A d \in Conns \ {c} : conns'[d] = conns[d]
    BY <2>1, <2>5, <2>6 DEF ConnsOK
  <2>8. SameEnds
    BY <2>5, <2>7 DEF SameEnds
  <2>9. WireOf(v)
    BY <2>1, <2>2, <2>4, <2>5 DEF LInv, Structure, WireSide, WireOf
  <2>10. WireSide'
    BY <2>7, <2>9 DEF LInv, Structure, WireSide
  <2>. QED BY <2>5, <2>7, <2>8, <2>10 DEF s
<1>. QED BY <1>1, <1>2

LEMMA Unwritten == ASSUME LInv, conns' = conns PROVE ConnsOK' /\ SameEnds /\ WireSide'
BY DEF LInv, Types, Structure, ConnsOK, SameEnds, WireSide

\* The buffer of p, written or with one more message.
LEMMA Flushed ==
    ASSUME LInv, NEW p \in DOMAIN pool, NEW n \in Nat, sent[p].out <= n, NEW q \in Seq(Nat),
           Rising(q, got[p].out, n), After(q, got[p].out),
           \A c \in Conns : conns[c] # Free /\ conns[c].peer = p => Before(conns[c].toServer, q),
           sent' = [sent EXCEPT ![p].out = n],
           \/ /\ clients' = [clients EXCEPT ![p].sendArr = q] /\ conns' = conns
           \/ /\ clients' = [clients EXCEPT ![p].sendArr = <<>>]
              /\ conns' = ToServer(conns, pool[p], q),
           UNCHANGED <<pool, queueVars, peerVars, got>>
    PROVE  LInv'
<1> DEFINE c == pool[p]
<1>1. /\ p \in Peers /\ p \in DOMAIN clients /\ clients[p].sendArr \in Seq(Nat)
      /\ c \in Conns /\ conns[c] \in Links /\ conns[c].peer = p
      /\ conns[c].client = "open" /\ conns[c].server # "new" /\ conns[c] # Free
  BY InPool, LinkFields
<1>2. /\ \A x \in Peers : /\ got[x].out \in Nat /\ sent[x].out \in Nat
                          /\ got[x].back \in Nat /\ sent[x].back \in Nat
      /\ conns \in [Conns -> Links \cup {Free}] /\ got' = got
  BY DEF LInv, Types, CountsOK, ConnsOK
<1>3. /\ CountsOK' /\ \A x \in Peers : sent'[x].back = sent[x].back
      /\ \A x \in Peers : sent'[x].out = IF x = p THEN n ELSE sent[x].out
  BY <1>1, CountsSet DEF LInv, Types, CountsOK
<1>4. QueueOK' /\ PeersOK'
  BY DEF LInv, Types, QueueOK, PeersOK, queueVars, peerVars
<1>5. \A i \in DOMAIN q : q[i] # Register
  BY <1>1, <1>2 DEF After, Register
<1>6. PICK b \in Seq(Nat) :
         /\ clients' = [clients EXCEPT ![p].sendArr = b]
         /\ \/ b = q /\ conns' = conns
            \/ b = <<>> /\ conns' = ToServer(conns, c, q)
  <2>1. <<>> \in Seq(Nat)
    OBVIOUS
  <2>2. CASE clients' = [clients EXCEPT ![p].sendArr = q] /\ conns' = conns
    BY <2>2
  <2>3. CASE clients' = [clients EXCEPT ![p].sendArr = <<>>] /\ conns' = ToServer(conns, pool[p], q)
    BY <2>1, <2>3
  <2>. QED BY <2>2, <2>3
<1> HIDE DEF c
<1>7. /\ ClientsOK' /\ SameSockets /\ DOMAIN clients' = DOMAIN clients /\ clients'[p].sendArr = b
      /\ \A x \in DOMAIN clients \ {p} : clients'[x] = clients[x]
  BY <1>6, BufferSet
<1>8. /\ ConnsOK' /\ SameEnds /\ WireSide'
      /\ \A d \in Conns \ {c} : conns'[d] = conns[d]
      /\ \/ conns'[c].toServer = conns[c].toServer
         \/ b = <<>> /\ conns'[c].toServer = conns[c].toServer \o q
      /\ conns'[c].toClient = conns[c].toClient /\ conns'[c].sendArr = conns[c].sendArr
  <2>1. CASE conns' = conns
    BY <2>1, Unwritten
  <2>2. CASE conns' = ToServer(conns, c, q) /\ b = <<>>
    BY <1>1, <1>5, <2>2, Written
  <2>. QED BY <1>6, <2>1, <2>2
<1>9. Types'
  BY <1>3, <1>4, <1>7, <1>8 DEF Types
<1>10. Structure'
  BY <1>7, <1>8, <1>9, SameStructure DEF queueVars, peerVars
<1>11. BackOrder'
  BY <1>2, <1>3, <1>8, <1>9, SameBack
<1>12. Rising(b, got[p].out, n) /\ After(b, got[p].out)
  BY <1>1, <1>2, <1>6, ShortRising
<1>13. ASSUME NEW m \in Seq(Nat), NEW x \in Peers, Rising(m, got[x].out, sent[x].out)
       PROVE  Rising(m, got[x].out, sent'[x].out)
  <2>1. \A i \in DOMAIN m : m[i] \in Nat
    OBVIOUS
  <2>2. sent[x].out <= sent'[x].out /\ sent'[x].out \in Nat
    BY <1>2, <1>3
  <2>. QED BY <1>2, <1>13, <2>1, <2>2 DEF Rising
<1>14. OutOrder'
  <2>1. \A x \in Peers : got'[x].out <= sent'[x].out
    <3>1. \A x \in Peers : got[x].out <= sent[x].out
      BY DEF LInv, OutOrder
    <3>. QED BY <1>1, <1>2, <1>3, <3>1
  <2>2. ASSUME NEW x \in DOMAIN clients'
        PROVE  /\ Rising(clients'[x].sendArr, got'[x].out, sent'[x].out)
               /\ After(clients'[x].sendArr, got'[x].out)
    <3>1. CASE x = p
      BY <1>1, <1>2, <1>3, <1>7, <1>12, <3>1
    <3>2. CASE x # p
      <4>1. x \in Peers /\ x \in DOMAIN clients /\ clients[x].sendArr \in Seq(Nat)
        <5>1. x \in DOMAIN clients
          BY <1>7, <2>2
        <5>2. x \in Peers /\ clients[x] \in Sockets
          BY <5>1, MapElim DEF LInv, Types, ClientsOK
        <5>. QED BY <5>1, <5>2 DEF Sockets
      <4>2. Rising(clients[x].sendArr, got[x].out, sent[x].out) /\ After(clients[x].sendArr, got[x].out)
        BY <4>1 DEF LInv, OutOrder
      <4>. QED BY <1>2, <1>7, <1>13, <3>2, <4>1, <4>2
    <3>. QED BY <3>1, <3>2
  <2>3. ASSUME NEW d \in Conns, conns'[d] # Free
        PROVE  LET x == conns'[d].peer
               IN  /\ Rising(conns'[d].toServer, got'[x].out, sent'[x].out)
                   /\ x \in DOMAIN clients' => Before(conns'[d].toServer, clients'[x].sendArr)
    <3> DEFINE x == conns[d].peer
               t == conns[d].toServer
    <3>1. conns[d] # Free /\ conns'[d].peer = x
      BY <1>8, <1>9, <2>3, SameFree DEF LInv, Types, SameEnds
    <3>2. x \in Peers /\ t \in Seq(Nat)
      BY <3>1, LinkElim, LinkFields DEF LInv, Types
    <3>3. /\ Rising(t, got[x].out, sent[x].out)
          /\ x \in DOMAIN clients => Before(t, clients[x].sendArr)
          /\ x = p => Before(t, q)
      BY <3>1 DEF LInv, OutOrder
    <3>4. Rising(t, got[x].out, sent'[x].out)
      BY <3>2, <3>3, <1>13
    <3>5. CASE conns'[d].toServer = t
      <4>1. x \in DOMAIN clients' => Before(t, clients'[x].sendArr)
        <5>1. CASE x = p
          <6>1. b = q \/ b = <<>>
            BY <1>6
          <6>2. Before(t, <<>>)
            BY DEF Before
          <6>3. Before(t, q)
            BY <3>3, <5>1
          <6>. QED BY <1>7, <5>1, <6>1, <6>2, <6>3
        <5>2. CASE x # p
          BY <1>7, <3>3, <5>2
        <5>. QED BY <5>1, <5>2
      <4>. QED BY <1>2, <3>1, <3>4, <3>5, <4>1
    <3>6. CASE d = c /\ b = <<>> /\ conns'[d].toServer = t \o q
      <4>1. x = p
        BY <1>1, <3>6
      <4>2. Rising(t \o q, got[p].out, n)
        BY <1>1, <1>2, <1>3, <3>2, <3>3, <3>4, <4>1, ConcatRising
      <4>3. Before(t \o q, clients'[p].sendArr)
        BY <1>1, <1>2, <1>7, <3>6, ShortRising
      <4>. QED BY <1>1, <1>2, <1>3, <3>1, <3>6, <4>1, <4>2, <4>3
    <3>. QED BY <1>8, <3>5, <3>6
  <2>. QED BY <2>1, <2>2, <2>3 DEF OutOrder
<1>. QED BY <1>9, <1>10, <1>11, <1>14 DEF LInv

LEMMA BeforeAppended ==
    ASSUME NEW q \in Seq(Nat), NEW r \in Seq(Nat), NEW lo \in Nat, NEW hi \in Nat,
           Rising(q, lo, hi), Before(q, r)
    PROVE  Before(q, Append(r, hi + 1))
<1>1. \A j \in DOMAIN Append(r, hi + 1) :
         (j \in DOMAIN r /\ Append(r, hi + 1)[j] = r[j]) \/ Append(r, hi + 1)[j] = hi + 1
  OBVIOUS
<1>2. \A i \in DOMAIN q : q[i] \in Nat /\ q[i] <= hi
  BY DEF Rising
<1>. QED BY <1>1, <1>2 DEF Before

LEMMA SendStep == ASSUME LInv, NEW p \in Peers, Send(p) PROVE LInv'
<1> DEFINE n == sent[p].out + 1
           q == Append(clients[p].sendArr, n)
<1>1. /\ p \in DOMAIN pool /\ sent' = [sent EXCEPT ![p].out = n]
      /\ clients' = [clients EXCEPT ![p].sendArr = IF Len(q) > BufMax THEN <<>> ELSE q]
      /\ conns' = IF Len(q) > BufMax THEN ToServer(conns, pool[p], q) ELSE conns
      /\ UNCHANGED <<pool, queueVars, peerVars, got>>
  BY DEF Send
<1>2. /\ p \in DOMAIN clients /\ clients[p].sendArr \in Seq(Nat)
      /\ sent[p].out \in Nat /\ got[p].out \in Nat /\ got[p].out <= sent[p].out
  BY <1>1, InPool DEF LInv, Types, CountsOK, OutOrder
<1>3. Rising(clients[p].sendArr, got[p].out, sent[p].out) /\ After(clients[p].sendArr, got[p].out)
  BY <1>2 DEF LInv, OutOrder
<1>4. q \in Seq(Nat) /\ Rising(q, got[p].out, n) /\ After(q, got[p].out)
  BY <1>2, <1>3, AppendRising
<1>5. ASSUME NEW c \in Conns, conns[c] # Free, conns[c].peer = p
      PROVE  Before(conns[c].toServer, q)
  <2>1. conns[c].toServer \in Seq(Nat)
    BY <1>5, LinkElim, LinkFields DEF LInv, Types
  <2>2. /\ Rising(conns[c].toServer, got[p].out, sent[p].out)
        /\ Before(conns[c].toServer, clients[p].sendArr)
    BY <1>2, <1>5 DEF LInv, OutOrder
  <2>. QED BY <1>2, <2>1, <2>2, BeforeAppended
<1>6. \/ clients' = [clients EXCEPT ![p].sendArr = q] /\ conns' = conns
      \/ clients' = [clients EXCEPT ![p].sendArr = <<>>] /\ conns' = ToServer(conns, pool[p], q)
  <2> HIDE DEF q
  <2>. QED BY <1>1
<1>7. n \in Nat /\ sent[p].out <= n
  BY <1>2
<1> HIDE DEF n, q
<1>. QED BY <1>1, <1>4, <1>5, <1>6, <1>7, Flushed

LEMMA SendIntervalStep == ASSUME LInv, NEW p \in Peers, SendInterval(p) PROVE LInv'
<1> DEFINE n == sent[p].out
           q == clients[p].sendArr
<1>1. /\ p \in DOMAIN pool /\ clients' = [clients EXCEPT ![p].sendArr = <<>>]
      /\ conns' = ToServer(conns, pool[p], q)
      /\ UNCHANGED <<pool, queueVars, peerVars, got>> /\ sent' = sent
  BY DEF SendInterval, msgVars
<1>2. p \in DOMAIN clients /\ q \in Seq(Nat) /\ n \in Nat /\ n <= n
  BY <1>1, InPool DEF LInv, Types, CountsOK
<1>3. sent' = [sent EXCEPT ![p].out = n]
  BY <1>1 DEF LInv, Types, CountsOK
<1>4. Rising(q, got[p].out, n) /\ After(q, got[p].out)
  BY <1>2 DEF LInv, OutOrder
<1>5. \A c \in Conns : conns[c] # Free /\ conns[c].peer = p => Before(conns[c].toServer, q)
  BY <1>2 DEF LInv, OutOrder
<1> HIDE DEF n, q
<1>. QED BY <1>1, <1>2, <1>3, <1>4, <1>5, Flushed DEF n

\* A connection with another queue, on the way or buffered.
LEMMA QueueSet ==
    ASSUME LInv, NEW c \in Conns, NEW v \in Links, conns[c] # Free,
           v.peer = conns[c].peer, v.addr = conns[c].addr,
           v.client = conns[c].client, v.server = conns[c].server, WireOf(v),
           conns' = [conns EXCEPT ![c] = v]
    PROVE  /\ ConnsOK' /\ SameEnds /\ WireSide' /\ conns'[c] = v
           /\ \A d \in Conns \ {c} : conns'[d] = conns[d]
<1>1. conns \in [Conns -> Links \cup {Free}]
  BY DEF LInv, Types, ConnsOK
<1>2. ConnsOK' /\ conns'[c] = v /\ \A d \in Conns \ {c} : conns'[d] = conns[d]
  BY <1>1 DEF ConnsOK
<1>3. SameEnds
  BY <1>2 DEF SameEnds
<1>4. WireSide'
  BY <1>2 DEF LInv, Structure, WireSide
<1>. QED BY <1>2, <1>3, <1>4

LEMMA SameSocketsKept ==
    ASSUME LInv, UNCHANGED <<clients, pool>>
    PROVE  ClientsOK' /\ SameSockets
BY DEF LInv, Types, Structure, ClientsOK, ClientSide, SameSockets

LEMMA PeerOnDataStep ==
    ASSUME LInv, NEW c \in Conns, PeerOnData(c)
    PROVE  LInv' /\ \A x \in Peers : /\ got'[x].back = got[x].back
                                     /\ got'[x].out # got[x].out => got'[x].out > got[x].out
<1> DEFINE r == conns[c]
           p == r.peer
           q == r.toServer
           m == Head(q)
           v == [r EXCEPT !.toServer = Tail(q)]
<1>1. /\ r.server = "registered" /\ q # <<>> /\ conns' = [conns EXCEPT ![c] = v]
      /\ got' = [got EXCEPT ![p].out = m]
      /\ UNCHANGED <<clients, pool, list, tmpCntList, peerPool, addr, sent>>
  BY DEF PeerOnData, clientVars, queueVars, peerVars
<1>2. r # Free /\ r \in Links /\ p \in Peers /\ q \in Seq(Nat)
  <2>1. r # Free
    BY <1>1 DEF Free
  <2>. QED BY <2>1, LinkElim, LinkFields DEF LInv, Types
<1>3. /\ \A x \in Peers : /\ got[x].out \in Nat /\ sent[x].out \in Nat
                          /\ got[x].out <= sent[x].out
      /\ got \in [Peers -> [out : Nat, back : Nat]]
  BY DEF LInv, Types, CountsOK, OutOrder
<1>5. q[1] # Register
  <2>1. 1 \in DOMAIN q
    BY <1>1, <1>2
  <2>. QED BY <1>1, <1>2, <2>1 DEF LInv, Structure, WireSide, WireOf
<1>6. m # Register /\ 1 \in DOMAIN q /\ DOMAIN Tail(q) = 1..Len(q) - 1 /\ Len(q) \in Nat
      /\ DOMAIN q = 1..Len(q) /\ \A i \in 1..Len(q) - 1 : Tail(q)[i] = q[i + 1]
  BY <1>1, <1>2, <1>5
<1>7. Rising(q, got[p].out, sent[p].out)
  BY <1>2 DEF LInv, OutOrder
<1>8. /\ Tail(q) \in Seq(Nat) /\ m \in Nat /\ got[p].out < m /\ m <= sent[p].out
      /\ Rising(Tail(q), m, sent[p].out)
      /\ \A t : Before(q, t) => Before(Tail(q), t) /\ After(t, m)
  BY <1>1, <1>2, <1>3, <1>6, <1>7, TailRising
<1>9. /\ v \in Links /\ v.peer = p /\ v.addr = r.addr /\ v.client = r.client
      /\ v.server = r.server /\ v.toServer = Tail(q)
      /\ v.toClient = r.toClient /\ v.sendArr = r.sendArr
  BY <1>2, <1>8, LinkQueues
<1>10. WireOf(v)
  <2>1. \A i \in DOMAIN q : q[i] # Register
    BY <1>1, <1>2 DEF LInv, Structure, WireSide, WireOf
  <2>2. \A i \in DOMAIN Tail(q) : Tail(q)[i] # Register
    BY <1>6, <2>1
  <2>3. r.client \in {"connecting", "orphan"} => FALSE
    BY <1>1, <1>2 DEF LInv, Structure, WireSide, WireOf
  <2>4. r.client # "open" => r.toClient = <<>>
    BY <1>2 DEF LInv, Structure, WireSide, WireOf
  <2>. QED BY <1>1, <1>9, <2>2, <2>3, <2>4 DEF WireOf
<1> HIDE DEF v, m, q
<1>11. /\ ConnsOK' /\ SameEnds /\ WireSide' /\ conns'[c] = v
       /\ \A d \in Conns \ {c} : conns'[d] = conns[d]
  BY <1>1, <1>2, <1>9, <1>10, QueueSet
<1>12. ClientsOK' /\ SameSockets
  BY <1>1, SameSocketsKept
<1>13. /\ got' \in [Peers -> [out : Nat, back : Nat]]
       /\ \A x \in Peers : got'[x].back = got[x].back
       /\ \A x \in Peers : got'[x].out = IF x = p THEN m ELSE got[x].out
  BY <1>1, <1>2, <1>3, <1>8, CountsSet
<1>14. Types'
  BY <1>1, <1>11, <1>12, <1>13 DEF LInv, Types, QueueOK, PeersOK, CountsOK
<1>15. Structure'
  BY <1>1, <1>11, <1>12, <1>14, SameStructure
<1>16. BackOrder'
  <2>1. \A d \in Conns : conns'[d].toClient = conns[d].toClient /\ conns'[d].sendArr = conns[d].sendArr
    BY <1>9, <1>11
  <2>. QED BY <1>1, <1>11, <1>13, <1>14, <2>1, SameBack
\* Nothing else is on its way to p but register.
<1>17. ASSUME NEW d \in Conns, d # c, conns[d] # Free, conns[d].peer = p
       PROVE  conns[d].toServer \in {<<>>, <<Register>>}
  <2>1. conns[d].server # "registered"
    BY <1>1, <1>17 DEF LInv, Structure, PeerSide
  <2>2. conns[d].server \in ServerEnds
    BY LinkElim DEF LInv, Types
  <2>3. WireOf(conns[d])
    BY <1>17 DEF LInv, Structure, WireSide
  <2>. QED BY <2>1, <2>2, <2>3 DEF WireOf, ServerEnds
<1>18. OutOrder'
  <2>1. \A x \in Peers : got'[x].out <= sent'[x].out
    BY <1>1, <1>3, <1>8, <1>13
  <2>2. ASSUME NEW x \in DOMAIN clients'
        PROVE  /\ Rising(clients'[x].sendArr, got'[x].out, sent'[x].out)
               /\ After(clients'[x].sendArr, got'[x].out)
    <3>1. /\ clients'[x] = clients[x] /\ x \in DOMAIN clients /\ sent' = sent
          /\ Rising(clients[x].sendArr, got[x].out, sent[x].out)
          /\ After(clients[x].sendArr, got[x].out)
      BY <1>1, <2>2 DEF LInv, OutOrder
    <3>2. x \in Peers
      BY <3>1, MapElim DEF LInv, Types, ClientsOK
    <3>3. CASE x # p
      BY <1>13, <3>1, <3>2, <3>3
    <3>4. CASE x = p
      <4>1. Before(q, clients[p].sendArr)
        BY <1>2, <3>1, <3>4 DEF LInv, OutOrder, q
      <4>2. After(clients[p].sendArr, m)
        BY <1>8, <4>1
      <4>. QED BY <1>13, <3>1, <3>2, <3>4, <4>2 DEF Rising, After
    <3>. QED BY <3>3, <3>4
  <2>3. ASSUME NEW d \in Conns, conns'[d] # Free
        PROVE  LET x == conns'[d].peer
               IN  /\ Rising(conns'[d].toServer, got'[x].out, sent'[x].out)
                   /\ x \in DOMAIN clients' => Before(conns'[d].toServer, clients'[x].sendArr)
    <3> DEFINE x == conns[d].peer
    <3>1. conns[d] # Free /\ conns'[d].peer = x /\ x \in Peers
      BY <1>11, <1>14, <2>3, SameFree, LinkElim, LinkFields DEF LInv, Types, SameEnds
    <3>2. /\ Rising(conns[d].toServer, got[x].out, sent[x].out)
          /\ x \in DOMAIN clients => Before(conns[d].toServer, clients[x].sendArr)
      BY <3>1 DEF LInv, OutOrder
    <3>3. CASE d = c
      <4>1. conns'[d].toServer = Tail(q) /\ x = p
        BY <1>9, <1>11, <3>3
      <4>2. p \in DOMAIN clients => Before(Tail(q), clients[p].sendArr)
        BY <1>8, <3>2, <3>3 DEF q
      <4>3. sent' = sent /\ clients' = clients /\ got'[p].out = m
        BY <1>1, <1>2, <1>13
      <4> HIDE DEF x
      <4>. QED BY <1>8, <3>1, <4>1, <4>2, <4>3
    <3>4. CASE d # c
      <4>1. conns'[d] = conns[d]
        BY <1>11, <3>4
      <4>2. CASE x # p
        BY <1>1, <1>13, <3>1, <3>2, <4>1, <4>2
      <4>3. CASE x = p
        <5>1. conns[d].toServer \in {<<>>, <<Register>>}
          BY <1>17, <3>1, <3>4, <4>3
        <5>2. Rising(conns[d].toServer, m, sent[p].out)
          BY <1>2, <1>3, <1>8, <5>1, ShortRising
        <5>. QED BY <1>1, <1>2, <1>13, <3>1, <3>2, <4>1, <4>3, <5>2
      <4>. QED BY <4>2, <4>3
    <3>. QED BY <3>3, <3>4
  <2>. QED BY <2>1, <2>2, <2>3 DEF OutOrder
<1>19. \A x \in Peers : got'[x].out # got[x].out => got'[x].out > got[x].out
  BY <1>3, <1>8, <1>13
<1>. QED BY <1>13, <1>14, <1>15, <1>16, <1>18, <1>19 DEF LInv

(***************************************************************************)
(* Messages from a peer.                                                   *)
(***************************************************************************)

\* What the peer writes goes nowhere once the client's end is closed.
LEMMA PeerQueueSet ==
    ASSUME LInv, NEW c \in Conns, conns[c] \in Links, conns[c].server = "registered",
           NEW q \in Seq(Nat), NEW b \in Seq(Nat),
           \/ conns' = ToClient([conns EXCEPT ![c].sendArr = b], c, q)
           \/ conns' = [conns EXCEPT ![c].sendArr = b]
    PROVE  /\ ConnsOK' /\ SameEnds /\ WireSide'
           /\ \A d \in Conns \ {c} : conns'[d] = conns[d]
           /\ conns'[c].toServer = conns[c].toServer /\ conns'[c].sendArr = b
           /\ \/ conns'[c].toClient = conns[c].toClient
              \/ /\ conns'[c].toClient = conns[c].toClient \o q
                 /\ conns' # [conns EXCEPT ![c].sendArr = b]
<1> DEFINE es == [conns EXCEPT ![c].sendArr = b]
           u == [conns[c] EXCEPT !.sendArr = b]
           s == conns[c].toClient \o q
           v == [u EXCEPT !.toClient = s]
<1>1. conns[c].toClient \in Seq(Nat) /\ s \in Seq(Nat) /\ conns[c] # Free
  BY LinkFields
<1>2. conns \in [Conns -> Links \cup {Free}]
  BY DEF LInv, Types, ConnsOK
<1>3. /\ u \in Links /\ u.peer = conns[c].peer /\ u.addr = conns[c].addr
      /\ u.client = conns[c].client /\ u.server = conns[c].server /\ u.cut = conns[c].cut
      /\ u.toServer = conns[c].toServer
      /\ u.toClient = conns[c].toClient /\ u.sendArr = b
  BY LinkQueues
<1>4. es = [conns EXCEPT ![c] = u] /\ es[c] = u
  BY <1>2
<1> HIDE DEF u
<1>5. WireOf(conns[c])
  BY <1>1 DEF LInv, Structure, WireSide
<1>6. WireOf(u)
  BY <1>3, <1>5 DEF WireOf
<1>7. CASE conns' = es
  <2>1. conns' = [conns EXCEPT ![c] = u]
    BY <1>4, <1>7
  <2>. QED BY <1>1, <1>3, <1>6, <2>1, QueueSet
<1>8. CASE conns' # es
  <2>1. u.client = "open" /\ conns' = [es EXCEPT ![c].toClient = @ \o q]
    BY <1>4, <1>8 DEF ToClient
  <2>2. conns' = [es EXCEPT ![c] = v]
    BY <1>3, <1>4, <2>1
  <2>3. conns' = [conns EXCEPT ![c] = v]
    <3> HIDE DEF v
    <3>. QED BY <1>2, <1>4, <2>2
  <2> HIDE DEF s
  <2>4. /\ v \in Links /\ v.peer = u.peer /\ v.addr = u.addr
        /\ v.client = u.client /\ v.server = u.server
        /\ v.toServer = u.toServer /\ v.toClient = s /\ v.sendArr = u.sendArr
    BY <1>1, <1>3, LinkQueues
  <2> HIDE DEF v
  <2>5. WireOf(v)
    BY <1>3, <1>6, <2>1, <2>4 DEF WireOf
  <2>6. /\ ConnsOK' /\ SameEnds /\ WireSide' /\ conns'[c] = v
        /\ \A d \in Conns \ {c} : conns'[d] = conns[d]
    BY <1>1, <1>3, <2>3, <2>4, <2>5, QueueSet
  <2>. QED BY <1>3, <1>8, <2>4, <2>6 DEF s
<1>. QED BY <1>7, <1>8

\* What a peer buffers, written or with one more message.
LEMMA PeerFlushed ==
    ASSUME LInv, NEW p \in Peers, peerPool[p] # NoConn,
           NEW n \in Nat, sent[p].back <= n, NEW q \in Seq(Nat),
           Rising(q, got[p].back, n), After(q, got[p].back),
           \A c \in Conns : conns[c] # Free /\ conns[c].peer = p => Before(conns[c].toClient, q),
           sent' = [sent EXCEPT ![p].back = n],
           \/ conns' = [conns EXCEPT ![peerPool[p]].sendArr = q]
           \/ conns' = ToClient([conns EXCEPT ![peerPool[p]].sendArr = <<>>], peerPool[p], q),
           UNCHANGED <<clientVars, queueVars, peerVars, got>>
    PROVE  LInv'
<1> DEFINE c == peerPool[p]
<1>1. /\ c \in Conns /\ conns[c].server = "registered" /\ conns[c].peer = p
      /\ conns[c] # Free /\ conns[c] \in Links
  <2>1. c \in Conns /\ conns[c].server = "registered" /\ conns[c].peer = p
    BY DEF LInv, Types, Structure, PeersOK, PeerSide
  <2>2. conns[c] # Free
    BY <2>1 DEF Free
  <2>. QED BY <2>1, <2>2, LinkElim DEF LInv, Types
<1> HIDE DEF c
<1>2. /\ \A x \in Peers : /\ got[x].out \in Nat /\ sent[x].out \in Nat
                          /\ got[x].back \in Nat /\ sent[x].back \in Nat
      /\ got' = got
  BY DEF LInv, Types, CountsOK
<1>3. /\ CountsOK' /\ \A x \in Peers : sent'[x].out = sent[x].out
      /\ \A x \in Peers : sent'[x].back = IF x = p THEN n ELSE sent[x].back
  BY CountsSet DEF LInv, Types, CountsOK
<1>4. QueueOK' /\ PeersOK' /\ ClientsOK' /\ SameSockets /\ clients' = clients
  BY SameSocketsKept DEF LInv, Types, QueueOK, PeersOK, queueVars, peerVars, clientVars
<1>5. PICK b \in Seq(Nat) :
         \/ b = q /\ conns' = [conns EXCEPT ![c].sendArr = b]
         \/ b = <<>> /\ conns' = ToClient([conns EXCEPT ![c].sendArr = b], c, q)
  <2>1. CASE conns' = [conns EXCEPT ![c].sendArr = q]
    BY <2>1
  <2>2. CASE conns' = ToClient([conns EXCEPT ![c].sendArr = <<>>], c, q)
    <3>1. <<>> \in Seq(Nat)
      OBVIOUS
    <3>. QED BY <2>2, <3>1
  <2>. QED BY <2>1, <2>2 DEF c
<1>6. /\ ConnsOK' /\ SameEnds /\ WireSide'
      /\ \A d \in Conns \ {c} : conns'[d] = conns[d]
      /\ conns'[c].toServer = conns[c].toServer /\ conns'[c].sendArr = b
      /\ \/ conns'[c].toClient = conns[c].toClient
         \/ b = <<>> /\ conns'[c].toClient = conns[c].toClient \o q
  <2>1. /\ ConnsOK' /\ SameEnds /\ WireSide'
        /\ \A d \in Conns \ {c} : conns'[d] = conns[d]
        /\ conns'[c].toServer = conns[c].toServer /\ conns'[c].sendArr = b
        /\ \/ conns'[c].toClient = conns[c].toClient
           \/ /\ conns'[c].toClient = conns[c].toClient \o q
              /\ conns' # [conns EXCEPT ![c].sendArr = b]
    BY <1>1, <1>5, PeerQueueSet
  <2>. QED BY <1>5, <2>1
<1>7. Types'
  BY <1>3, <1>4, <1>6 DEF Types
<1>8. Structure'
  BY <1>4, <1>6, <1>7, SameStructure DEF queueVars, peerVars, clientVars
<1>9. OutOrder'
  <2>1. \A d \in Conns : conns'[d].toServer = conns[d].toServer
    BY <1>6
  <2>. QED BY <1>2, <1>3, <1>4, <1>6, <1>7, <2>1, SameOut
<1>10. Rising(b, got[p].back, n) /\ After(b, got[p].back)
  BY <1>2, <1>5, ShortRising
<1>11. ASSUME NEW m \in Seq(Nat), NEW x \in Peers, Rising(m, got[x].back, sent[x].back)
       PROVE  Rising(m, got[x].back, sent'[x].back)
  <2>1. \A i \in DOMAIN m : m[i] \in Nat
    OBVIOUS
  <2>2. sent[x].back <= sent'[x].back /\ sent'[x].back \in Nat
    BY <1>2, <1>3
  <2>. QED BY <1>2, <1>11, <2>1, <2>2 DEF Rising
\* Only c has anything in its buffer.
<1>12. ASSUME NEW d \in Conns, d # c, conns[d] # Free, conns[d].peer = p
       PROVE  conns[d].sendArr = <<>>
  <2>1. conns[d].server # "registered"
    BY <1>12 DEF LInv, Structure, PeerSide, c
  <2>. QED BY <1>12, <2>1 DEF LInv, Structure, WireSide, WireOf
<1>13. ASSUME NEW d \in Conns, conns'[d] # Free
       PROVE  /\ conns[d] # Free /\ conns'[d].peer = conns[d].peer /\ conns[d].peer \in Peers
              /\ conns[d].toClient \in Seq(Nat) /\ conns[d].sendArr \in Seq(Nat)
              /\ Rising(conns[d].toClient, got[conns[d].peer].back, sent[conns[d].peer].back)
              /\ Rising(conns[d].sendArr, got[conns[d].peer].back, sent[conns[d].peer].back)
              /\ After(conns[d].sendArr, got[conns[d].peer].back)
  <2>1. conns[d] # Free /\ conns'[d].peer = conns[d].peer
    BY <1>6, <1>13, SameFree DEF LInv, Types, SameEnds
  <2>2. conns[d] \in Links
    BY <2>1, LinkElim DEF LInv, Types
  <2>3. /\ Rising(conns[d].toClient, got[conns[d].peer].back, sent[conns[d].peer].back)
        /\ Rising(conns[d].sendArr, got[conns[d].peer].back, sent[conns[d].peer].back)
        /\ After(conns[d].sendArr, got[conns[d].peer].back)
    BY <2>1 DEF LInv, BackOrder
  <2>. QED BY <2>1, <2>2, <2>3, LinkFields
<1>14. BackOrder'
  <2>1. \A x \in Peers : got'[x].back <= sent'[x].back
    <3>1. \A x \in Peers : got[x].back <= sent[x].back
      BY DEF LInv, BackOrder
    <3>. QED BY <1>2, <1>3, <3>1
  <2>2. ASSUME NEW d \in Conns, conns'[d] # Free
        PROVE  LET x == conns'[d].peer
               IN  /\ Rising(conns'[d].toClient, got'[x].back, sent'[x].back)
                   /\ Rising(conns'[d].sendArr, got'[x].back, sent'[x].back)
                   /\ After(conns'[d].sendArr, got'[x].back)
    <3> DEFINE x == conns[d].peer
    <3>1. /\ conns'[d].peer = x /\ x \in Peers
          /\ conns[d].toClient \in Seq(Nat) /\ conns[d].sendArr \in Seq(Nat)
          /\ Rising(conns[d].toClient, got[x].back, sent[x].back)
          /\ Rising(conns[d].sendArr, got[x].back, sent[x].back)
          /\ After(conns[d].sendArr, got[x].back)
      BY <1>13, <2>2
    <3> HIDE DEF x
    <3>2. /\ Rising(conns[d].toClient, got[x].back, sent'[x].back)
          /\ Rising(conns[d].sendArr, got[x].back, sent'[x].back)
      BY <1>11, <3>1
    <3>3. CASE d # c
      BY <1>2, <1>6, <3>1, <3>2, <3>3
    <3>4. CASE d = c
      <4>1. x = p
        BY <1>1, <3>4 DEF x
      <4>2. sent'[p].back = n
        BY <1>3
      <4>3. Before(conns[c].toClient, q)
        BY <1>1
      <4>4. Rising(conns'[c].toClient, got[p].back, n)
        <5>1. conns[c].toClient \in Seq(Nat) /\ Rising(conns[c].toClient, got[p].back, n)
          BY <3>1, <3>2, <3>4, <4>1, <4>2
        <5>2. Rising(conns[c].toClient \o q, got[p].back, n)
          BY <1>2, <4>3, <5>1, ConcatRising
        <5>. QED BY <1>6, <5>1, <5>2
      <4>. QED BY <1>2, <1>6, <1>10, <3>1, <3>4, <4>1, <4>2, <4>4
    <3>. QED BY <3>3, <3>4
  <2>3. ASSUME NEW d \in Conns, conns'[d] # Free, NEW e \in Conns, conns'[e] # Free,
               conns'[e].peer = conns'[d].peer
        PROVE  Before(conns'[d].toClient, conns'[e].sendArr)
    <3>1. /\ conns[d] # Free /\ conns'[d].peer = conns[d].peer
          /\ conns[e] # Free /\ conns'[e].peer = conns[e].peer
          /\ conns[d].peer = conns[e].peer
      BY <1>13, <2>3
    <3>2. Before(conns[d].toClient, conns[e].sendArr)
      BY <3>1 DEF LInv, BackOrder
    <3>3. \A t : Before(t, <<>>)
      BY DEF Before
    <3>4. CASE e = c
      <4>1. CASE b = <<>>
        BY <1>6, <3>3, <3>4, <4>1
      <4>2. CASE b # <<>>
        <5>1. conns'[d].toClient = conns[d].toClient /\ conns'[e].sendArr = b /\ b = q
          BY <1>5, <1>6, <3>4, <4>2
        <5>2. Before(conns[d].toClient, q)
          BY <1>1, <3>1, <3>4
        <5>. QED BY <5>1, <5>2
      <4>. QED BY <4>1, <4>2
    <3>5. CASE e # c
      <4>1. conns'[e].sendArr = conns[e].sendArr
        BY <1>6, <3>5
      <4>2. CASE conns[d].peer = p
        <5>1. conns[e].sendArr = <<>>
          BY <1>12, <3>1, <3>5, <4>2
        <5>. QED BY <3>3, <4>1, <5>1
      <4>3. CASE conns[d].peer # p
        <5>1. conns'[d] = conns[d]
          BY <1>1, <1>6, <4>3
        <5>. QED BY <3>2, <4>1, <5>1
      <4>. QED BY <4>2, <4>3
    <3>. QED BY <3>4, <3>5
  <2>. QED BY <2>1, <2>2, <2>3 DEF BackOrder
<1>. QED BY <1>7, <1>8, <1>9, <1>14 DEF LInv

LEMMA PeerSendStep == ASSUME LInv, NEW p \in Peers, PeerSend(p) PROVE LInv'
<1> DEFINE c == peerPool[p]
           n == sent[p].back + 1
           q == Append(conns[c].sendArr, n)
<1>1. /\ c # NoConn /\ sent' = [sent EXCEPT ![p].back = n]
      /\ \/ conns' = [conns EXCEPT ![c].sendArr = q]
         \/ conns' = ToClient([conns EXCEPT ![c].sendArr = <<>>], c, q)
      /\ UNCHANGED <<clientVars, queueVars, peerVars, got>>
  <2>1. CASE Len(q) > BufMax
    BY <2>1 DEF PeerSend
  <2>2. CASE ~(Len(q) > BufMax)
    BY <2>2 DEF PeerSend
  <2>. QED BY <2>1, <2>2
<1>2. /\ c \in Conns /\ conns[c].server = "registered" /\ conns[c].peer = p
  BY <1>1 DEF LInv, Types, Structure, PeersOK, PeerSide
<1>3. conns[c] # Free
  BY <1>2 DEF Free
<1>4. conns[c].sendArr \in Seq(Nat)
  BY <1>2, <1>3, LinkElim, LinkFields DEF LInv, Types
<1>5. sent[p].back \in Nat /\ got[p].back \in Nat /\ got[p].back <= sent[p].back
  BY DEF LInv, Types, CountsOK, BackOrder
<1>6. Rising(conns[c].sendArr, got[p].back, sent[p].back) /\ After(conns[c].sendArr, got[p].back)
  BY <1>2, <1>3 DEF LInv, BackOrder
<1>7. q \in Seq(Nat) /\ Rising(q, got[p].back, n) /\ After(q, got[p].back)
  BY <1>4, <1>5, <1>6, AppendRising
<1>8. ASSUME NEW d \in Conns, conns[d] # Free, conns[d].peer = p
      PROVE  Before(conns[d].toClient, q)
  <2>1. conns[d].toClient \in Seq(Nat)
    BY <1>8, LinkElim, LinkFields DEF LInv, Types
  <2>2. /\ Rising(conns[d].toClient, got[p].back, sent[p].back)
        /\ Before(conns[d].toClient, conns[c].sendArr)
    BY <1>2, <1>3, <1>8 DEF LInv, BackOrder
  <2>. QED BY <1>4, <1>5, <2>1, <2>2, BeforeAppended
<1>9. n \in Nat /\ sent[p].back <= n
  BY <1>5
<1> HIDE DEF n, q
<1>. QED BY <1>1, <1>7, <1>8, <1>9, PeerFlushed

LEMMA PeerSendIntervalStep == ASSUME LInv, NEW p \in Peers, PeerSendInterval(p) PROVE LInv'
<1> DEFINE c == peerPool[p]
           n == sent[p].back
           q == conns[c].sendArr
<1>1. /\ c # NoConn
      /\ conns' = ToClient([conns EXCEPT ![c].sendArr = <<>>], c, q)
      /\ UNCHANGED <<clientVars, queueVars, peerVars, got>> /\ sent' = sent
  BY DEF PeerSendInterval, msgVars
<1>2. /\ c \in Conns /\ conns[c].server = "registered" /\ conns[c].peer = p
  BY <1>1 DEF LInv, Types, Structure, PeersOK, PeerSide
<1>3. conns[c] # Free
  BY <1>2 DEF Free
<1>4. q \in Seq(Nat)
  BY <1>2, <1>3, LinkElim, LinkFields DEF LInv, Types
<1>5. n \in Nat /\ n <= n /\ sent' = [sent EXCEPT ![p].back = n]
  BY <1>1 DEF LInv, Types, CountsOK
<1>6. /\ Rising(q, got[p].back, n) /\ After(q, got[p].back)
      /\ \A d \in Conns : conns[d] # Free /\ conns[d].peer = p => Before(conns[d].toClient, q)
  BY <1>2, <1>3 DEF LInv, BackOrder
<1> HIDE DEF n, q
<1>. QED BY <1>1, <1>4, <1>5, <1>6, PeerFlushed DEF n

\* The connections a peer's socket has: one.
LEMMA OneClientEnd ==
    ASSUME LInv, NEW c \in Conns, conns[c].client \in {"connecting", "open"}
    PROVE  /\ conns[c] # Free /\ conns[c] \in Links /\ conns[c].peer \in Peers
           /\ conns[c].peer \in DOMAIN clients /\ clients[conns[c].peer].conn = c
           /\ clients[conns[c].peer] \in Sockets
           /\ clients[conns[c].peer].phase \in
                 IF conns[c].client = "open" THEN {"open", "registered"} ELSE {"connecting"}
           /\ conns[c].addr = clients[conns[c].peer].addr
           /\ \A d \in Conns \ {c} :
                 conns[d].client \in {"connecting", "open"} => conns[d].peer # conns[c].peer
<1> DEFINE p == conns[c].peer
<1>1. conns[c] # Free
  BY DEF Free
<1>2. conns[c] \in Links /\ p \in Peers
  BY <1>1, LinkElim, LinkFields DEF LInv, Types
<1>3. p \in DOMAIN clients /\ clients[p].conn = c
  BY DEF LInv, Structure, ClientSide
<1>4. clients[p] \in Sockets
  BY <1>3, MapElim DEF LInv, Types, ClientsOK
<1>5. clients[p].phase \in Phases
  BY <1>4 DEF Sockets, Phases
<1>6. c # NoConn
  BY LinkAssumption DEF LinkAssumption
<1>7. InUse(clients[p].phase)
  BY <1>3, <1>6 DEF LInv, Structure, ClientSide
<1>8. /\ conns[c].addr = clients[p].addr
      /\ conns[c].client = IF clients[p].phase = "connecting" THEN "connecting" ELSE "open"
  BY <1>3, <1>7 DEF LInv, Structure, ClientSide
<1>9. \A d \in Conns \ {c} : conns[d].client \in {"connecting", "open"} => conns[d].peer # p
  BY <1>3 DEF LInv, Structure, ClientSide
<1>. QED BY <1>1, <1>2, <1>3, <1>4, <1>7, <1>8, <1>9 DEF InUse

\* What c brings for p is taken; the rest is younger.
LEMMA TakenBack ==
    ASSUME LInv, Types', NEW c \in Conns, conns[c].client = "open", conns[c].toClient # <<>>,
           SameEnds, \A d \in Conns \ {c} : conns'[d] = conns[d],
           conns'[c].toClient = Tail(conns[c].toClient), conns'[c].sendArr = conns[c].sendArr,
           NEW m, m = Head(conns[c].toClient),
           NEW g, g = IF m = Register THEN got[conns[c].peer].back ELSE m,
           sent' = sent, \A x \in Peers \ {conns[c].peer} : got'[x].back = got[x].back,
           got'[conns[c].peer].back = g
    PROVE  BackOrder' /\ g \in Nat /\ (m # Register => g > got[conns[c].peer].back)
<1> DEFINE p == conns[c].peer
           q == conns[c].toClient
<1>1. /\ conns[c] # Free /\ conns[c] \in Links /\ p \in Peers /\ q \in Seq(Nat)
      /\ \A d \in Conns \ {c} : conns[d].client = "open" => conns[d].peer # p
  BY OneClientEnd, LinkFields
<1>2. /\ \A x \in Peers : /\ got[x].back \in Nat /\ sent[x].back \in Nat
                          /\ got[x].back <= sent[x].back
  BY DEF LInv, Types, CountsOK, BackOrder
<1>3. Rising(q, got[p].back, sent[p].back)
  BY <1>1 DEF LInv, BackOrder
<1>4. /\ Tail(q) \in Seq(Nat) /\ m \in Nat /\ m <= sent[p].back
      /\ (m # Register => got[p].back < m)
      /\ Rising(Tail(q), got[p].back, sent[p].back) /\ Rising(Tail(q), m, sent[p].back)
      /\ \A t : Before(q, t) => Before(Tail(q), t) /\ After(t, m)
  BY <1>1, <1>2, <1>3, TailRising
<1>5. /\ g \in Nat /\ g <= sent[p].back /\ got[p].back <= g /\ (m # Register => got[p].back < g)
      /\ Rising(Tail(q), g, sent[p].back)
  BY <1>1, <1>2, <1>4
<1>6. \A d \in Conns : (conns[d] # Free)' =>
         /\ conns[d] # Free /\ conns'[d].peer = conns[d].peer
         /\ conns[d].peer \in Peers /\ conns[d].sendArr \in Seq(Nat)
         /\ conns'[d].sendArr = conns[d].sendArr
  BY SameFree, LinkElim, LinkFields DEF LInv, Types, SameEnds
<1>7. ASSUME NEW d \in Conns, conns[d] # Free, conns[d].peer = p
      PROVE  Rising(conns[d].sendArr, g, sent[p].back) /\ After(conns[d].sendArr, g)
  <2>1. /\ Rising(conns[d].sendArr, got[p].back, sent[p].back)
        /\ After(conns[d].sendArr, got[p].back) /\ Before(q, conns[d].sendArr)
    BY <1>1, <1>7 DEF LInv, BackOrder
  <2>2. After(conns[d].sendArr, m)
    BY <1>4, <2>1
  <2>. QED BY <2>1, <2>2 DEF Rising, After
<1>8. ASSUME NEW d \in Conns, d # c, conns[d] # Free, conns[d].peer = p
      PROVE  conns[d].toClient = <<>>
  BY <1>1, <1>8 DEF LInv, Structure, WireSide, WireOf
<1>9. \A x \in Peers : got'[x].back <= sent'[x].back
  BY <1>1, <1>2, <1>5
<1>10. ASSUME NEW d \in Conns, conns'[d] # Free
       PROVE  LET x == conns'[d].peer
              IN  /\ Rising(conns'[d].toClient, got'[x].back, sent'[x].back)
                  /\ Rising(conns'[d].sendArr, got'[x].back, sent'[x].back)
                  /\ After(conns'[d].sendArr, got'[x].back)
  <2> DEFINE x == conns[d].peer
  <2>1. /\ conns[d] # Free /\ conns'[d].peer = x /\ x \in Peers
        /\ conns'[d].sendArr = conns[d].sendArr
    BY <1>6, <1>10
  <2>2. CASE x # p
    <3>1. conns'[d] = conns[d]
      BY <2>2
    <3>. QED BY <2>1, <2>2, <3>1 DEF LInv, BackOrder
  <2>3. CASE x = p
    <3>1. Rising(conns[d].sendArr, g, sent[p].back) /\ After(conns[d].sendArr, g)
      BY <1>7, <2>1, <2>3
    <3>2. Rising(conns'[d].toClient, g, sent[p].back)
      <4>1. CASE d = c
        BY <1>5, <4>1
      <4>2. CASE d # c
        BY <1>1, <1>2, <1>5, <1>8, <2>1, <2>3, <4>2, ShortRising
      <4>. QED BY <4>1, <4>2
    <3>. QED BY <2>1, <2>3, <3>1, <3>2
  <2>. QED BY <2>2, <2>3
<1>11. ASSUME NEW d \in Conns, conns'[d] # Free, NEW e \in Conns, conns'[e] # Free,
             conns'[e].peer = conns'[d].peer
       PROVE  Before(conns'[d].toClient, conns'[e].sendArr)
  <2>1. Before(conns[d].toClient, conns[e].sendArr) /\ conns'[e].sendArr = conns[e].sendArr
    BY <1>6, <1>11 DEF LInv, BackOrder
  <2>. QED BY <1>4, <2>1
<1>12. BackOrder'
  BY <1>9, <1>10, <1>11 DEF BackOrder
<1>. QED BY <1>5, <1>12

LEMMA ClientOnDataStep ==
    ASSUME LInv, NEW c \in Conns, ClientOnData(c)
    PROVE  LInv' /\ \A x \in Peers : /\ got'[x].out = got[x].out
                                     /\ got'[x].back # got[x].back => got'[x].back > got[x].back
<1> DEFINE r == conns[c]
           p == r.peer
           m == Head(r.toClient)
           v == [r EXCEPT !.toClient = Tail(r.toClient)]
           s == [clients[p] EXCEPT !.phase = "registered"]
<1>1. /\ r.client = "open" /\ r.toClient # <<>> /\ conns' = [conns EXCEPT ![c] = v]
      /\ \/ /\ m = Register /\ clients' = [clients EXCEPT ![p] = s] /\ pool' = With(pool, p, c)
            /\ got' = got
         \/ /\ m # Register /\ got' = [got EXCEPT ![p].back = m] /\ UNCHANGED <<clients, pool>>
      /\ UNCHANGED <<list, tmpCntList, peerPool, addr, sent>>
  BY DEF ClientOnData, queueVars, peerVars
<1>2. /\ r # Free /\ r \in Links /\ p \in Peers /\ r.toClient \in Seq(Nat)
      /\ p \in DOMAIN clients /\ clients[p] \in Sockets /\ clients[p].conn = c
      /\ clients[p].phase \in {"open", "registered"} /\ r.addr = clients[p].addr
  BY <1>1, OneClientEnd, LinkFields
<1>3. /\ got \in [Peers -> [out : Nat, back : Nat]] /\ sent \in [Peers -> [out : Nat, back : Nat]]
      /\ \A x \in Peers : got[x].back \in Nat
  BY DEF LInv, Types, CountsOK
<1>4. m \in Nat /\ Tail(r.toClient) \in Seq(Nat)
  BY <1>1, <1>2
<1>5. /\ v \in Links /\ v.peer = p /\ v.addr = r.addr /\ v.client = r.client
      /\ v.server = r.server /\ v.toServer = r.toServer
      /\ v.toClient = Tail(r.toClient) /\ v.sendArr = r.sendArr
  BY <1>2, <1>4, LinkQueues
<1>6. WireOf(r)
  BY <1>2 DEF LInv, Structure, WireSide
<1>7. r.server # "new" /\ WireOf(v)
  BY <1>1, <1>5, <1>6 DEF WireOf
<1> HIDE DEF v
<1>8. /\ ConnsOK' /\ SameEnds /\ WireSide' /\ conns'[c] = v
      /\ \A d \in Conns \ {c} : conns'[d] = conns[d]
  BY <1>1, <1>2, <1>5, <1>7, QueueSet
<1>9. /\ got' \in [Peers -> [out : Nat, back : Nat]]
      /\ \A x \in Peers : got'[x].out = got[x].out
      /\ \A x \in Peers : got'[x].back = IF x = p /\ m # Register THEN m ELSE got[x].back
  <2>1. CASE m = Register
    BY <1>1, <1>3, <2>1
  <2>2. CASE m # Register
    <3>1. got' = [got EXCEPT ![p].back = m]
      BY <1>1, <2>2
    <3> HIDE DEF m, p
    <3>2. p \in Peers /\ m \in Nat
      BY <1>2, <1>4
    <3>3. LET g == [got EXCEPT ![p].back = m]
          IN  /\ g \in [Peers -> [out : Nat, back : Nat]]
              /\ \A x \in Peers : g[x].out = got[x].out
              /\ \A x \in Peers : g[x].back = IF x = p THEN m ELSE got[x].back
      BY <1>3, <3>2, CountsSet
    <3>. QED BY <2>2, <3>1, <3>3
  <2>. QED BY <2>1, <2>2
<1>10. /\ s \in Sockets /\ s.phase = "registered" /\ s.conn = clients[p].conn
       /\ s.addr = clients[p].addr /\ s.sendArr = clients[p].sendArr
  BY <1>2 DEF Sockets, Phases
<1> HIDE DEF s
<1>11. /\ ClientsOK' /\ DOMAIN clients' = DOMAIN clients
       /\ \A x \in DOMAIN clients : clients'[x] = clients[x] \/ (x = p /\ clients'[x] = s)
       /\ \A x \in DOMAIN pool' : \/ x \in DOMAIN pool /\ pool'[x] = pool[x]
                                  \/ x = p /\ pool'[x] = c /\ clients'[x] = s
  <2>1. /\ clients \in MapsOf(Peers, Sockets) /\ pool \in MapsOf(Peers, Conns)
        /\ DOMAIN clients \in SUBSET Peers /\ clients \in [DOMAIN clients -> Sockets]
    BY MapElim DEF LInv, Types, ClientsOK
  <2>2. CASE m = Register
    <3>1. clients' = [clients EXCEPT ![p] = s] /\ pool' = With(pool, p, c)
      BY <1>1, <2>2
    <3>2. clients' \in [DOMAIN clients -> Sockets]
      BY <1>10, <2>1, <3>1
    <3>3. ClientsOK'
      <4>1. pool' \in MapsOf(Peers, Conns)
        BY <1>2, <2>1, <3>1, WithMap
      <4>. QED BY <2>1, <3>2, <4>1, MapIntro DEF ClientsOK
    <3>4. /\ DOMAIN pool' = DOMAIN pool \cup {p} /\ pool'[p] = c
          /\ \A x \in DOMAIN pool \ {p} : pool'[x] = pool[x]
      BY <3>1 DEF With
    <3>. QED BY <1>2, <2>1, <3>1, <3>2, <3>3, <3>4
  <2>3. CASE m # Register
    BY <1>1, <2>1, <2>3 DEF ClientsOK
  <2>. QED BY <2>2, <2>3
<1>12. Types'
  BY <1>1, <1>3, <1>8, <1>9, <1>11 DEF LInv, Types, QueueOK, PeersOK, CountsOK
<1>13. BackOrder' /\ \A x \in Peers : got'[x].back # got[x].back => got'[x].back > got[x].back
  <2> DEFINE g == IF m = Register THEN got[p].back ELSE m
  <2>1. got'[p].back = g /\ \A x \in Peers \ {p} : got'[x].back = got[x].back
    BY <1>2, <1>9
  <2>2. BackOrder' /\ g \in Nat /\ (m # Register => g > got[p].back)
    BY <1>1, <1>2, <1>5, <1>8, <1>12, <2>1, TakenBack
  <2>. QED BY <1>2, <1>9, <2>1, <2>2
<1>14. OutOrder'
  <2>1. \A d \in Conns : conns'[d].toServer = conns[d].toServer
    BY <1>5, <1>8
  <2>2. \A x \in DOMAIN clients : clients'[x].sendArr = clients[x].sendArr
    BY <1>10, <1>11
  <2>. QED BY <1>1, <1>8, <1>9, <1>11, <1>12, <2>1, <2>2, SameOut
<1>15. Structure'
  <2>1. \A d \in Conns : conns'[d] = Free <=> conns[d] = Free
    BY <1>8, <1>12, SameFree DEF LInv, Types
  <2>2. \A d \in Conns : /\ conns'[d].client = conns[d].client /\ conns'[d].server = conns[d].server
                         /\ conns'[d].peer = conns[d].peer /\ conns'[d].addr = conns[d].addr
    BY <1>5, <1>8
  <2>3. \A x \in DOMAIN clients :
           /\ clients'[x].conn = clients[x].conn /\ clients'[x].addr = clients[x].addr
           /\ clients'[x].sendArr = clients[x].sendArr
           /\ \/ clients'[x].phase = clients[x].phase
              \/ clients[x].phase = "open" /\ clients'[x].phase = "registered"
    BY <1>2, <1>10, <1>11
  <2>4. ClientSide'
    <3>1. ASSUME NEW x \in DOMAIN clients'
          PROVE  /\ ~InUse(clients'[x].phase) => clients'[x].conn = NoConn
                 /\ clients'[x].phase # "registered" => clients'[x].sendArr = <<>>
                 /\ InUse(clients'[x].phase) =>
                       /\ clients'[x].conn \in Conns /\ conns'[clients'[x].conn] # Free
                       /\ conns'[clients'[x].conn].peer = x
                       /\ conns'[clients'[x].conn].addr = clients'[x].addr
                       /\ conns'[clients'[x].conn].client =
                             IF clients'[x].phase = "connecting" THEN "connecting" ELSE "open"
      <4>1. x \in DOMAIN clients
        BY <1>11, <3>1
      <4>2. CASE clients'[x].phase = clients[x].phase
        BY <2>1, <2>2, <2>3, <4>1, <4>2 DEF LInv, Structure, ClientSide
      <4>3. CASE clients[x].phase = "open" /\ clients'[x].phase = "registered"
        BY <2>1, <2>2, <2>3, <4>1, <4>3 DEF LInv, Structure, ClientSide, InUse
      <4>. QED BY <2>3, <4>1, <4>2, <4>3
    <3>2. \A d \in Conns : conns'[d].client \in {"connecting", "open"} =>
             conns'[d].peer \in DOMAIN clients' /\ clients'[conns'[d].peer].conn = d
      BY <1>11, <2>2, <2>3 DEF LInv, Structure, ClientSide
    <3>. QED BY <3>1, <3>2 DEF ClientSide
  <2>5. PoolSide'
    <3>1. \A x \in DOMAIN pool : x \in DOMAIN clients /\ pool[x] \in Conns
      BY InPool
    <3>2. ASSUME NEW x \in DOMAIN pool'
          PROVE  /\ x \in DOMAIN clients' /\ clients'[x].phase = "registered"
                 /\ clients'[x].conn = pool'[x] /\ conns'[pool'[x]].server # "new"
      <4>1. CASE x \in DOMAIN pool /\ pool'[x] = pool[x]
        BY <1>11, <2>2, <2>3, <3>1, <4>1 DEF LInv, Structure, PoolSide
      <4>2. CASE x = p /\ pool'[x] = c /\ clients'[x] = s
        BY <1>2, <1>7, <1>10, <1>11, <2>2, <4>2
      <4>. QED BY <1>11, <4>1, <4>2
    <3>. QED BY <3>2 DEF PoolSide
  <2>6. PeerSide'
    <3>1. \A x \in Peers : peerPool[x] # NoConn => peerPool[x] \in Conns
      BY DEF LInv, Types, PeersOK
    <3>. QED BY <1>1, <2>2, <3>1 DEF LInv, Structure, PeerSide
  <2>7. QueueSide'
    <3>1. \A x \in Peers : /\ x \in DOMAIN clients' <=> x \in DOMAIN clients
                           /\ x \in DOMAIN clients =>
                                 (clients'[x].phase = "queued" <=> clients[x].phase = "queued")
      BY <1>11, <2>3
    <3>. QED BY <1>1, <3>1 DEF LInv, Structure, QueueSide
  <2>. QED BY <1>8, <2>4, <2>5, <2>6, <2>7 DEF Structure
<1>. QED BY <1>9, <1>12, <1>13, <1>14, <1>15 DEF LInv

(***************************************************************************)
(* What a peer does to its end.                                            *)
(***************************************************************************)

\* The connecting server notices nothing.
LEMMA SameClientSide ==
    ASSUME LInv, ConnsOK', UNCHANGED <<clients, pool, list, tmpCntList>>,
           \A d \in Conns :
              /\ conns'[d].client = conns[d].client
              /\ conns[d].client \in {"connecting", "open"} =>
                    conns'[d].peer = conns[d].peer /\ conns'[d].addr = conns[d].addr
              /\ conns'[d].server = "new" => conns[d].server = "new"
    PROVE  ClientsOK' /\ QueueOK' /\ ClientSide' /\ PoolSide' /\ QueueSide'
<1>1. ClientsOK' /\ QueueOK' /\ QueueSide'
  BY DEF LInv, Types, Structure, ClientsOK, QueueOK, QueueSide
<1>2. \A d \in Conns : conns'[d].client \in {"connecting", "open"} => conns'[d] # Free
  BY DEF Free
<1>3. ASSUME NEW p \in DOMAIN clients
      PROVE  /\ ~InUse(clients[p].phase) => clients[p].conn = NoConn
             /\ clients[p].phase # "registered" => clients[p].sendArr = <<>>
             /\ InUse(clients[p].phase) =>
                   /\ clients[p].conn \in Conns /\ conns'[clients[p].conn] # Free
                   /\ conns'[clients[p].conn].peer = p
                   /\ conns'[clients[p].conn].addr = clients[p].addr
                   /\ conns'[clients[p].conn].client =
                         IF clients[p].phase = "connecting" THEN "connecting" ELSE "open"
  BY <1>2 DEF LInv, Structure, ClientSide
<1>4. \A d \in Conns : conns'[d].client \in {"connecting", "open"} =>
         conns'[d].peer \in DOMAIN clients /\ clients[conns'[d].peer].conn = d
  BY DEF LInv, Structure, ClientSide
<1>5. ClientSide'
  BY <1>3, <1>4 DEF ClientSide
<1>6. PoolSide'
  <2>1. \A p \in DOMAIN pool : pool[p] \in Conns
    BY InPool
  <2>. QED BY <2>1 DEF LInv, Structure, PoolSide
<1>. QED BY <1>1, <1>5, <1>6

LEMMA SocketsAddNone ==
    ASSUME UNCHANGED <<clients, msgVars>>,
           \A c \in Conns : conns'[c] # Free => LinkAddsNone(c) \/ LinkEmpty(c)
    PROVE  NoneAdded
BY DEF NoneAdded

\* A connection none of whose ends closes.
LEMMA LinkSet ==
    ASSUME LInv, NEW c \in Conns, conns[c] # Free, NEW v \in Links, v.peer = conns[c].peer,
           WireOf(v), conns' = [conns EXCEPT ![c] = v],
           v.toServer \in {conns[c].toServer, <<>>, <<Register>>},
           v.toClient \in {conns[c].toClient, <<>>, <<Register>>},
           v.sendArr \in {conns[c].sendArr, <<>>}
    PROVE  /\ ConnsOK' /\ WireSide' /\ conns'[c] = v /\ \A d \in Conns \ {c} : conns'[d] = conns[d]
           /\ \A d \in Conns : conns'[d] # Free => LinkAddsNone(d) \/ LinkEmpty(d)
<1>1. conns \in [Conns -> Links \cup {Free}]
  BY DEF LInv, Types, ConnsOK
<1>2. ConnsOK' /\ conns'[c] = v /\ \A d \in Conns \ {c} : conns'[d] = conns[d]
  BY <1>1 DEF ConnsOK
<1>3. WireSide'
  BY <1>2 DEF LInv, Structure, WireSide
<1>4. ASSUME NEW d \in Conns, conns'[d] # Free
      PROVE  LinkAddsNone(d)
  <2>1. CASE d = c
    BY <1>2, <2>1 DEF LinkAddsNone
  <2>2. CASE d # c
    BY <1>2, <1>4, <2>2 DEF LinkAddsNone
  <2>. QED BY <2>1, <2>2
<1>. QED BY <1>2, <1>3, <1>4

LEMMA PeerClosedStep ==
    ASSUME LInv, NEW c \in Conns, conns[c].server # "closed", PeerClosed(c),
           UNCHANGED <<clientVars, queueVars, addr, msgVars>>
    PROVE  LInv'
<1> DEFINE p == conns[c].peer
<1>1. conns[c] # Free
  BY DEF Free
<1>2. conns[c] \in Links /\ p \in Peers
  BY <1>1, LinkElim, LinkFields DEF LInv, Types
<1>3. conns \in [Conns -> Links \cup {Free}] /\ peerPool \in [Peers -> Conns \cup {NoConn}]
  BY DEF LInv, Types, ConnsOK, PeersOK
<1>4. conns' = PeerEndClosed(c) /\ ConnsOK
  BY DEF PeerClosed, PeerEndClosed, LInv, Types
<1>5. /\ ConnsOK' /\ \A d \in Conns \ {c} : conns'[d] = conns[d]
      /\ conns'[c].server = "closed" /\ conns'[c].client = conns[c].client
      /\ conns'[c] # Free => /\ conns'[c].peer = p /\ conns'[c].addr = conns[c].addr
                             /\ conns'[c].toServer = <<>>
                             /\ conns'[c].toClient = conns[c].toClient
                             /\ conns'[c].sendArr = <<>>
  <2>1. conns' \in [Conns -> Links \cup {Free}]
    BY <1>2, <1>3, <1>4, ClosedServer
  <2>2. /\ \A d \in Conns \ {c} : conns'[d] = conns[d]
        /\ conns'[c].server = "closed" /\ conns'[c].client = conns[c].client
    BY <1>2, <1>3, <1>4, ClosedServer
  <2>3. conns'[c] # Free => /\ conns'[c].peer = p /\ conns'[c].addr = conns[c].addr
                            /\ conns'[c].toServer = <<>>
                            /\ conns'[c].toClient = conns[c].toClient
                            /\ conns'[c].sendArr = <<>>
    BY <1>2, <1>3, <1>4, ClosedServer
  <2>. QED BY <2>1, <2>2, <2>3 DEF ConnsOK
<1>6. /\ \A x \in Peers \ {p} : peerPool'[x] = peerPool[x]
      /\ peerPool'[p] = IF conns[c].server = "registered" THEN NoConn ELSE peerPool[p]
      /\ peerPool' \in [Peers -> Conns \cup {NoConn}]
  BY <1>2, <1>3 DEF PeerClosed
<1>7. ClientsOK' /\ QueueOK' /\ ClientSide' /\ PoolSide' /\ QueueSide'
  <2>1. conns'[c].client \in {"connecting", "open"} => conns'[c] # Free
    BY DEF Free
  <2>2. \A d \in Conns :
           /\ conns'[d].client = conns[d].client
           /\ conns[d].client \in {"connecting", "open"} =>
                 conns'[d].peer = conns[d].peer /\ conns'[d].addr = conns[d].addr
           /\ conns'[d].server = "new" => conns[d].server = "new"
    BY <1>5, <2>1
  <2>. QED BY <1>5, <2>2, SameClientSide DEF clientVars, queueVars
<1>8. Types'
  BY <1>5, <1>6, <1>7 DEF LInv, Types, PeersOK, CountsOK, msgVars
<1>9. PeerSide'
  <2>1. ASSUME NEW d \in Conns, conns'[d].server = "registered"
        PROVE  peerPool'[conns'[d].peer] = d
    <3>1. d # c /\ conns'[d] = conns[d] /\ peerPool[conns[d].peer] = d
      BY <1>5, <2>1 DEF LInv, Structure, PeerSide
    <3>2. conns[d] # Free
      BY <2>1, <3>1 DEF Free
    <3>3. conns[d].peer \in Peers
      BY <3>2, LinkElim, LinkFields DEF LInv, Types
    <3>4. conns[c].server = "registered" => peerPool[p] = c
      BY DEF LInv, Structure, PeerSide
    <3>. QED BY <1>6, <3>1, <3>3, <3>4
  <2>2. ASSUME NEW x \in Peers, peerPool'[x] # NoConn
        PROVE  conns'[peerPool'[x]].server = "registered" /\ conns'[peerPool'[x]].peer = x
    <3>1. /\ peerPool'[x] = peerPool[x] /\ peerPool[x] \in Conns
          /\ conns[peerPool[x]].server = "registered" /\ conns[peerPool[x]].peer = x
      BY <1>3, <1>6, <2>2 DEF LInv, Structure, PeerSide
    <3>2. peerPool[x] # c
      BY <1>6, <2>2, <3>1
    <3>. QED BY <1>5, <3>1, <3>2
  <2>. QED BY <2>1, <2>2 DEF PeerSide
<1>10. WireSide'
  <2>1. ASSUME conns'[c] # Free PROVE WireOf(conns'[c])
    <3>1. WireOf(conns[c])
      BY <1>1 DEF LInv, Structure, WireSide
    <3>. QED BY <1>5, <2>1, <3>1 DEF WireOf
  <2>. QED BY <1>5, <2>1 DEF LInv, Structure, WireSide
<1>11. ASSUME NEW d \in Conns, conns'[d] # Free PROVE LinkAddsNone(d)
  <2>1. CASE d = c
    BY <1>1, <1>5, <1>11, <2>1 DEF LinkAddsNone
  <2>2. CASE d # c
    BY <1>5, <1>11, <2>2 DEF LinkAddsNone
  <2>. QED BY <2>1, <2>2
<1>12. OutOrder' /\ BackOrder'
  <2>1. NoneAdded
    BY <1>11, SocketsAddNone DEF clientVars
  <2>. QED BY <1>8, <2>1, NoneAddedOrder
<1>. QED BY <1>7, <1>8, <1>9, <1>10, <1>12 DEF LInv, Structure

LEMMA PeerRegisterStep == ASSUME LInv, NEW c \in Conns, PeerRegister(c) PROVE LInv'
<1> DEFINE r == conns[c]
           p == r.peer
           u == [r EXCEPT !.server = "registered"]
           t == [u EXCEPT !.toServer = <<>>]
           v == [t EXCEPT !.toClient = <<Register>>]
           es == [conns EXCEPT ![c].server = "registered", ![c].toServer = Tail(@)]
<1>1. /\ r.server = "new" /\ ~r.cut /\ r.toServer # <<>>
      /\ UNCHANGED <<clientVars, queueVars, addr, msgVars>>
  BY DEF PeerRegister
<1>2. r # Free
  BY <1>1 DEF Free
<1>3. r \in Links /\ p \in Peers /\ r.toServer \in Seq(Nat) /\ r.toClient \in Seq(Nat)
  BY <1>2, LinkElim, LinkFields DEF LInv, Types
<1>4. CASE NameTaken(p)
  <2>1. PeerClosed(c)
    BY <1>4 DEF PeerRegister
  <2>. QED BY <1>1, <2>1, PeerClosedStep
<1>5. CASE ~NameTaken(p)
  <2>1. /\ peerPool' = [peerPool EXCEPT ![p] = c] /\ peerPool[p] = NoConn
        /\ conns' = ToClient(es, c, <<Register>>)
    BY <1>5 DEF PeerRegister, NameTaken
  <2>2. /\ conns \in [Conns -> Links \cup {Free}] /\ peerPool \in [Peers -> Conns \cup {NoConn}]
    BY DEF LInv, Types, ConnsOK, PeersOK
  <2>4. WireOf(r)
    BY <1>2 DEF LInv, Structure, WireSide
  <2>5. /\ r.toServer = <<Register>> /\ r.toClient = <<>>
        /\ r.sendArr = <<>> /\ r.client \notin {"connecting", "orphan"}
    BY <1>1, <2>4 DEF WireOf
  <2>6. Tail(r.toServer) = <<>> /\ r.toClient \o <<Register>> = <<Register>>
        /\ <<>> \in Seq(Nat) /\ <<Register>> \in Seq(Nat)
    BY <2>5 DEF Register
  <2>3. es = [conns EXCEPT ![c] = t] /\ es[c] = t
    BY <1>3, <2>2, <2>6
  <2>7. /\ u \in Links /\ u.peer = p /\ u.addr = r.addr /\ u.client = r.client
        /\ u.server = "registered" /\ u.toServer = r.toServer /\ u.toClient = r.toClient
        /\ u.sendArr = r.sendArr
    BY <1>3, LinkEnds DEF ServerEnds
  <2> HIDE DEF u
  <2>8. /\ t \in Links /\ t.peer = p /\ t.addr = r.addr /\ t.client = r.client
        /\ t.server = "registered" /\ t.toServer = <<>> /\ t.toClient = <<>>
        /\ t.sendArr = <<>>
    BY <2>5, <2>6, <2>7, LinkQueues
  <2> HIDE DEF t
  <2>9. /\ v \in Links /\ v.peer = p /\ v.addr = r.addr /\ v.client = r.client
        /\ v.server = "registered" /\ v.toServer = <<>> /\ v.toClient = <<Register>>
        /\ v.sendArr = <<>>
    BY <2>6, <2>8, LinkQueues
  <2> DEFINE w == IF es[c].client # "open" \/ es[c].cut THEN t ELSE v
  <2>10. conns' = [conns EXCEPT ![c] = w]
    <3>1. CASE es[c].client # "open" \/ es[c].cut
      BY <2>1, <2>3, <3>1 DEF ToClient
    <3>2. CASE ~(es[c].client # "open" \/ es[c].cut)
      <4>1. conns' = [es EXCEPT ![c].toClient = @ \o <<Register>>]
        BY <2>1, <3>2 DEF ToClient
      <4>2. es[c].toClient \o <<Register>> = <<Register>>
        BY <2>3, <2>5, <2>6, <2>8
      <4>3. conns' = [es EXCEPT ![c] = v]
        BY <2>3, <4>1, <4>2
      <4> HIDE DEF v, es
      <4>. QED BY <2>2, <2>3, <4>3, <3>2
    <3>. QED BY <3>1, <3>2
  <2>11. /\ w \in Links /\ w.peer = p /\ w.addr = r.addr /\ w.client = r.client
         /\ w.server = "registered" /\ w.toServer = <<>> /\ w.toClient \in {<<>>, <<Register>>}
         /\ w.sendArr = <<>> /\ (w.client # "open" => w.toClient = <<>>)
    BY <2>3, <2>8, <2>9
  <2> HIDE DEF w
  <2>12. WireOf(w)
    BY <2>5, <2>11 DEF WireOf
  <2>13. /\ ConnsOK' /\ WireSide' /\ conns'[c] = w
         /\ \A d \in Conns \ {c} : conns'[d] = conns[d]
         /\ \A d \in Conns : conns'[d] # Free => LinkAddsNone(d) \/ LinkEmpty(d)
    BY <1>2, <2>10, <2>11, <2>12, LinkSet
  <2>14. ClientsOK' /\ QueueOK' /\ ClientSide' /\ PoolSide' /\ QueueSide'
    BY <1>1, <2>11, <2>13, SameClientSide DEF clientVars, queueVars
  <2>15. /\ peerPool' \in [Peers -> Conns \cup {NoConn}] /\ peerPool'[p] = c
         /\ \A x \in Peers \ {p} : peerPool'[x] = peerPool[x]
    BY <1>3, <2>1, <2>2
  <2>16. Types'
    BY <1>1, <2>13, <2>14, <2>15 DEF LInv, Types, PeersOK, CountsOK, msgVars
  <2>17. PeerSide'
    <3>1. ASSUME NEW d \in Conns, conns'[d].server = "registered"
          PROVE  peerPool'[conns'[d].peer] = d
      <4>1. CASE d = c
        BY <2>11, <2>13, <2>15, <4>1
      <4>2. CASE d # c
        <5>1. conns'[d] = conns[d] /\ peerPool[conns[d].peer] = d
          BY <2>13, <3>1, <4>2 DEF LInv, Structure, PeerSide
        <5>2. conns[d] # Free
          BY <3>1, <5>1 DEF Free
        <5>3. conns[d].peer \in Peers
          BY <5>2, LinkElim, LinkFields DEF LInv, Types
        <5>4. d # NoConn
          BY LinkAssumption DEF LinkAssumption
        <5>. QED BY <2>1, <2>15, <5>1, <5>3, <5>4
      <4>. QED BY <4>1, <4>2
    <3>2. ASSUME NEW x \in Peers, peerPool'[x] # NoConn
          PROVE  conns'[peerPool'[x]].server = "registered" /\ conns'[peerPool'[x]].peer = x
      <4>1. CASE x = p
        BY <2>11, <2>13, <2>15, <4>1
      <4>2. CASE x # p
        <5>1. /\ peerPool'[x] = peerPool[x] /\ peerPool[x] \in Conns
              /\ conns[peerPool[x]].server = "registered" /\ conns[peerPool[x]].peer = x
          BY <2>2, <2>15, <3>2, <4>2 DEF LInv, Structure, PeerSide
        <5>. QED BY <2>13, <4>2, <5>1
      <4>. QED BY <4>1, <4>2
    <3>. QED BY <3>1, <3>2 DEF PeerSide
  <2>18. OutOrder' /\ BackOrder'
    <3>1. NoneAdded
      BY <1>1, <2>13, SocketsAddNone DEF clientVars
    <3>. QED BY <2>16, <3>1, NoneAddedOrder
  <2>. QED BY <2>13, <2>14, <2>16, <2>17, <2>18 DEF LInv, Structure
<1>. QED BY <1>4, <1>5

LEMMA CutStep == ASSUME LInv, NEW c \in Conns, Cut(c) PROVE LInv'
<1> DEFINE r == conns[c]
           u == [r EXCEPT !.cut = TRUE]
           t == [u EXCEPT !.toServer = <<>>]
           v == [t EXCEPT !.toClient = <<>>]
<1>1. r # Free /\ UNCHANGED <<clientVars, queueVars, peerVars, msgVars>>
  BY DEF Cut
<1>2. r \in Links
  BY <1>1, LinkElim DEF LInv, Types
<1>3. conns' = [conns EXCEPT ![c] = v]
  BY DEF Cut
<1>4. /\ u \in Links /\ u.peer = r.peer /\ u.addr = r.addr /\ u.client = r.client
      /\ u.server = r.server /\ u.toServer = r.toServer /\ u.toClient = r.toClient
      /\ u.sendArr = r.sendArr
  BY <1>2, LinkEnds
<1> HIDE DEF u
<1>5. <<>> \in Seq(Nat)
  OBVIOUS
<1>6. /\ t \in Links /\ t.peer = r.peer /\ t.addr = r.addr /\ t.client = r.client
      /\ t.server = r.server /\ t.toServer = <<>> /\ t.toClient = r.toClient
      /\ t.sendArr = r.sendArr
  BY <1>4, <1>5, LinkQueues
<1> HIDE DEF t
<1>7. /\ v \in Links /\ v.peer = r.peer /\ v.addr = r.addr /\ v.client = r.client
      /\ v.server = r.server /\ v.toServer = <<>> /\ v.toClient = <<>>
      /\ v.sendArr = r.sendArr
  BY <1>5, <1>6, LinkQueues
<1> HIDE DEF v
<1>8. WireOf(v)
  <2>1. WireOf(r)
    BY <1>1 DEF LInv, Structure, WireSide
  <2>. QED BY <1>7, <2>1 DEF WireOf
<1>9. /\ ConnsOK' /\ WireSide' /\ conns'[c] = v
      /\ \A d \in Conns \ {c} : conns'[d] = conns[d]
      /\ \A d \in Conns : conns'[d] # Free => LinkAddsNone(d) \/ LinkEmpty(d)
  BY <1>1, <1>3, <1>7, <1>8, LinkSet
<1>10. ClientsOK' /\ QueueOK' /\ ClientSide' /\ PoolSide' /\ QueueSide'
  BY <1>1, <1>7, <1>9, SameClientSide DEF clientVars, queueVars
<1>11. Types'
  BY <1>1, <1>9, <1>10 DEF LInv, Types, PeersOK, CountsOK, msgVars, peerVars
<1>12. PeerSide'
  <2>1. \A d \in Conns : conns'[d].server = conns[d].server /\ conns'[d].peer = conns[d].peer
    BY <1>7, <1>9
  <2>2. \A x \in Peers : peerPool[x] # NoConn => peerPool[x] \in Conns
    BY DEF LInv, Types, PeersOK
  <2>. QED BY <1>1, <2>1, <2>2 DEF LInv, Structure, PeerSide, peerVars
<1>13. OutOrder' /\ BackOrder'
  <2>1. NoneAdded
    BY <1>1, <1>9, SocketsAddNone DEF clientVars
  <2>. QED BY <1>11, <2>1, NoneAddedOrder
<1>. QED BY <1>9, <1>10, <1>11, <1>12, <1>13 DEF LInv, Structure

\* The connections of a peer that dies are closed at its end.
LEMMA PeerRestartStep == ASSUME LInv, NEW p \in Peers, NEW a \in Addrs, PeerRestart(p, a) PROVE LInv'
<1> DEFINE Dies(d) == conns[d] # Free /\ conns[d].peer = p
<1>1. /\ addr' = [addr EXCEPT ![p] = a] /\ peerPool' = [peerPool EXCEPT ![p] = NoConn]
      /\ UNCHANGED <<clientVars, queueVars, msgVars>>
      /\ conns' = [d \in Conns |-> IF Dies(d) THEN PeerEndClosed(d)[d] ELSE conns[d]]
  BY DEF PeerRestart, PeerEndClosed
<1>2. /\ addr' \in [Peers -> Addrs] /\ peerPool' \in [Peers -> Conns \cup {NoConn}]
      /\ peerPool'[p] = NoConn /\ \A x \in Peers \ {p} : peerPool'[x] = peerPool[x]
  BY <1>1 DEF LInv, Types, PeersOK
<1>3. ASSUME NEW d \in Conns, Dies(d)
      PROVE  /\ conns'[d] \in Links \cup {Free}
             /\ conns'[d].server = "closed" /\ conns'[d].client = conns[d].client
             /\ conns'[d] # Free =>
                   /\ conns'[d].peer = p /\ conns'[d].addr = conns[d].addr
                   /\ conns'[d].toServer = <<>>
                   /\ conns'[d].toClient = conns[d].toClient
                   /\ conns'[d].sendArr = <<>>
  <2>1. ConnsOK /\ conns[d] \in Links
    BY <1>3, LinkElim DEF LInv, Types
  <2>2. conns'[d] = PeerEndClosed(d)[d]
    BY <1>1, <1>3
  <2> HIDE DEF Dies
  <2>3. /\ PeerEndClosed(d)[d] \in Links \cup {Free}
        /\ PeerEndClosed(d)[d].server = "closed" /\ PeerEndClosed(d)[d].client = conns[d].client
        /\ PeerEndClosed(d)[d] # Free =>
              /\ PeerEndClosed(d)[d].peer = conns[d].peer /\ PeerEndClosed(d)[d].addr = conns[d].addr
              /\ PeerEndClosed(d)[d].toServer = <<>>
              /\ PeerEndClosed(d)[d].toClient = conns[d].toClient
              /\ PeerEndClosed(d)[d].sendArr = <<>>
    BY <2>1, ClosedServer
  <2>. QED BY <1>3, <2>2, <2>3 DEF Dies
<1>4. \A d \in Conns : ~Dies(d) => conns'[d] = conns[d]
  BY <1>1
<1>5. ConnsOK'
  <2>1. \A d \in Conns : conns'[d] \in Links \cup {Free}
    BY <1>3, <1>4 DEF LInv, Types, ConnsOK
  <2>. QED BY <1>1, <2>1 DEF ConnsOK
<1>6. ClientsOK' /\ QueueOK' /\ ClientSide' /\ PoolSide' /\ QueueSide'
  <2>1. ASSUME NEW d \in Conns
        PROVE  /\ conns'[d].client = conns[d].client
               /\ conns[d].client \in {"connecting", "open"} =>
                     conns'[d].peer = conns[d].peer /\ conns'[d].addr = conns[d].addr
               /\ conns'[d].server = "new" => conns[d].server = "new"
    <3>1. conns'[d].client \in {"connecting", "open"} => conns'[d] # Free
      BY DEF Free
    <3>. QED BY <1>3, <1>4, <3>1
  <2>. QED BY <1>1, <1>5, <2>1, SameClientSide DEF clientVars, queueVars
<1>7. Types'
  BY <1>1, <1>2, <1>5, <1>6 DEF LInv, Types, PeersOK, CountsOK, msgVars
<1>8. PeerSide'
  <2>1. ASSUME NEW d \in Conns, conns'[d].server = "registered"
        PROVE  peerPool'[conns'[d].peer] = d
    <3>1. ~Dies(d) /\ conns'[d] = conns[d] /\ peerPool[conns[d].peer] = d
      BY <1>3, <1>4, <2>1 DEF LInv, Structure, PeerSide
    <3>2. conns[d] # Free
      BY <2>1, <3>1 DEF Free
    <3>3. conns[d].peer \in Peers \ {p}
      BY <3>1, <3>2, LinkElim, LinkFields DEF LInv, Types
    <3>. QED BY <1>2, <3>1, <3>3
  <2>2. ASSUME NEW x \in Peers, peerPool'[x] # NoConn
        PROVE  conns'[peerPool'[x]].server = "registered" /\ conns'[peerPool'[x]].peer = x
    <3>1. /\ x # p /\ peerPool'[x] = peerPool[x] /\ peerPool[x] \in Conns
          /\ conns[peerPool[x]].server = "registered" /\ conns[peerPool[x]].peer = x
      BY <1>2, <2>2 DEF LInv, Types, Structure, PeersOK, PeerSide
    <3>. QED BY <1>4, <3>1
  <2>. QED BY <2>1, <2>2 DEF PeerSide
<1>9. WireSide'
  <2>1. ASSUME NEW d \in Conns, conns'[d] # Free PROVE WireOf(conns'[d])
    <3>1. CASE Dies(d)
      <4>1. WireOf(conns[d])
        BY <3>1 DEF LInv, Structure, WireSide
      <4>. QED BY <1>3, <2>1, <3>1, <4>1 DEF WireOf
    <3>2. CASE ~Dies(d)
      BY <1>4, <2>1, <3>2 DEF LInv, Structure, WireSide
    <3>. QED BY <3>1, <3>2
  <2>. QED BY <2>1 DEF WireSide
<1>10. ASSUME NEW d \in Conns, conns'[d] # Free PROVE LinkAddsNone(d)
  <2>1. CASE Dies(d)
    BY <1>3, <1>10, <2>1 DEF LinkAddsNone
  <2>2. CASE ~Dies(d)
    BY <1>4, <1>10, <2>2 DEF LinkAddsNone
  <2>. QED BY <2>1, <2>2
<1>11. OutOrder' /\ BackOrder'
  <2>1. NoneAdded
    BY <1>1, <1>10, SocketsAddNone DEF clientVars
  <2>. QED BY <1>7, <2>1, NoneAddedOrder
<1>. QED BY <1>6, <1>7, <1>8, <1>9, <1>11 DEF LInv, Structure

(***************************************************************************)
(* What the connecting server does to its end.                             *)
(***************************************************************************)

\* The peers notice nothing.
LEMMA SamePeerSide ==
    ASSUME LInv, UNCHANGED peerVars,
           \A d \in Conns :
              /\ conns'[d].server = "registered" <=> conns[d].server = "registered"
              /\ conns[d].server = "registered" => conns'[d].peer = conns[d].peer
    PROVE  PeersOK' /\ PeerSide'
<1>1. PeersOK' /\ \A x \in Peers : peerPool[x] # NoConn => peerPool[x] \in Conns
  BY DEF LInv, Types, PeersOK, peerVars
<1>2. PeerSide'
  BY <1>1 DEF LInv, Structure, PeerSide, peerVars
<1>. QED BY <1>1, <1>2

\* A socket in another phase.
LEMMA SocketSet ==
    ASSUME LInv, NEW p \in DOMAIN clients, NEW v \in Sockets,
           clients' = [clients EXCEPT ![p] = v]
    PROVE  /\ clients' \in MapsOf(Peers, Sockets) /\ DOMAIN clients' = DOMAIN clients
           /\ clients'[p] = v /\ \A x \in DOMAIN clients \ {p} : clients'[x] = clients[x]
<1>1. DOMAIN clients \in SUBSET Peers /\ clients \in [DOMAIN clients -> Sockets]
  BY MapElim DEF LInv, Types, ClientsOK
<1>2. clients' \in [DOMAIN clients -> Sockets]
  BY <1>1
<1>3. clients' \in MapsOf(Peers, Sockets)
  BY <1>1, <1>2, MapIntro
<1>. QED BY <1>1, <1>3

\* The socket of a peer, as it is.
LEMMA SocketElim ==
    ASSUME LInv, NEW p \in DOMAIN clients
    PROVE  /\ p \in Peers /\ clients[p] \in Sockets /\ clients[p].phase \in Phases
           /\ clients[p].addr \in Addrs /\ clients[p].sendArr \in Seq(Nat)
<1>1. p \in Peers /\ clients[p] \in Sockets
  BY MapElim DEF LInv, Types, ClientsOK
<1>. QED BY <1>1 DEF Sockets, Phases

LEMMA LineUpStep == ASSUME LInv, NEW p \in Peers, LineUp(p) PROVE LInv'
<1> DEFINE v == [clients[p] EXCEPT !.phase = "queued"]
<1>1. /\ p \in DOMAIN clients /\ clients[p].phase = "timer"
      /\ clients' = [clients EXCEPT ![p] = v] /\ list' = Append(list, p)
      /\ UNCHANGED <<pool, crashed, tmpCntList, conns, peerVars, msgVars>>
  BY DEF LineUp
<1>2. clients[p] \in Sockets
  BY <1>1, SocketElim
<1>3. /\ v \in Sockets /\ v.phase = "queued" /\ v.conn = clients[p].conn
      /\ v.addr = clients[p].addr /\ v.sendArr = clients[p].sendArr
  BY <1>2 DEF Sockets, Phases
<1> HIDE DEF v
<1>4. /\ clients' \in MapsOf(Peers, Sockets) /\ DOMAIN clients' = DOMAIN clients
      /\ clients'[p] = v /\ \A x \in DOMAIN clients \ {p} : clients'[x] = clients[x]
  BY <1>1, <1>3, SocketSet
<1>5. list \in Seq(Peers) /\ Once(list) /\ ~Has(list, p)
  BY <1>1 DEF LInv, Types, QueueOK, Structure, QueueSide
<1>6. /\ list' \in Seq(Peers) /\ Once(list)'
      /\ \A x : Has(list', x) <=> (x = p \/ Has(list, x))
  <2> DEFINE t == Append(list, p)
  <2>1. /\ t \in Seq(Peers) /\ Once(t)
        /\ \A x : Has(t, x) <=> (x = p \/ Has(list, x))
    BY <1>5, AppendOnce
  <2>2. list' = t
    BY <1>1
  <2> HIDE DEF t
  <2>. QED BY <2>1, <2>2
<1>7. ClientsOK' /\ QueueOK' /\ ConnsOK' /\ WireSide'
  BY <1>1, <1>4, <1>6 DEF LInv, Types, ClientsOK, QueueOK, ConnsOK, Structure, WireSide
<1>8. PeersOK' /\ PeerSide'
  BY <1>1, SamePeerSide
<1>9. Types'
  BY <1>1, <1>7, <1>8 DEF LInv, Types, CountsOK, msgVars
<1>10. ClientSide'
  <2>1. ASSUME NEW x \in DOMAIN clients'
        PROVE  /\ ~InUse(clients'[x].phase) => clients'[x].conn = NoConn
               /\ clients'[x].phase # "registered" => clients'[x].sendArr = <<>>
               /\ InUse(clients'[x].phase) =>
                     /\ clients'[x].conn \in Conns /\ conns'[clients'[x].conn] # Free
                     /\ conns'[clients'[x].conn].peer = x
                     /\ conns'[clients'[x].conn].addr = clients'[x].addr
                     /\ conns'[clients'[x].conn].client =
                           IF clients'[x].phase = "connecting" THEN "connecting" ELSE "open"
    BY <1>1, <1>3, <1>4 DEF LInv, Structure, ClientSide, InUse
  <2>2. \A d \in Conns : conns'[d].client \in {"connecting", "open"} =>
           conns'[d].peer \in DOMAIN clients' /\ clients'[conns'[d].peer].conn = d
    BY <1>1, <1>3, <1>4 DEF LInv, Structure, ClientSide
  <2>. QED BY <2>1, <2>2 DEF ClientSide
<1>11. PoolSide'
  BY <1>1, <1>3, <1>4 DEF LInv, Structure, PoolSide
<1>12. QueueSide'
  <2>1. ASSUME NEW x \in Peers
        PROVE  Has(list', x) <=>
                  (x \in DOMAIN clients' /\ clients'[x].phase = "queued")
    BY <1>1, <1>3, <1>4, <1>6 DEF LInv, Structure, QueueSide
  <2>. QED BY <1>6, <2>1 DEF QueueSide
<1>13. OutOrder' /\ BackOrder'
  <2>1. ASSUME NEW d \in Conns, conns'[d] # Free PROVE LinkAddsNone(d)
    BY <1>1, <2>1 DEF LinkAddsNone
  <2>2. NoneAdded
    BY <1>1, <1>3, <1>4, <2>1 DEF NoneAdded
  <2>. QED BY <1>9, <2>2, NoneAddedOrder
<1>. QED BY <1>7, <1>8, <1>9, <1>10, <1>11, <1>12, <1>13 DEF LInv, Structure

LEMMA ConnectedStep == ASSUME LInv, NEW c \in Conns, Connected(c) PROVE LInv'
<1> DEFINE r == conns[c]
           p == r.peer
           s == [clients[p] EXCEPT !.phase = "open"]
           u == [r EXCEPT !.client = "open"]
           t == [u EXCEPT !.server = "new"]
           v == [t EXCEPT !.toServer = <<Register>>]
<1>1. /\ r.client = "connecting" /\ conns' = [conns EXCEPT ![c] = v]
      /\ clients' = [clients EXCEPT ![p] = s]
      /\ UNCHANGED <<pool, crashed, queueVars, peerVars, msgVars>>
  BY DEF Connected
<1>2. /\ r # Free /\ r \in Links /\ p \in Peers
      /\ p \in DOMAIN clients /\ clients[p] \in Sockets /\ clients[p].conn = c
      /\ clients[p].phase = "connecting" /\ r.addr = clients[p].addr
      /\ \A d \in Conns \ {c} : conns[d].client \in {"connecting", "open"} => conns[d].peer # p
  BY <1>1, OneClientEnd
<1>3. /\ s \in Sockets /\ s.phase = "open" /\ s.conn = c
      /\ s.addr = clients[p].addr /\ s.sendArr = clients[p].sendArr
  BY <1>2 DEF Sockets, Phases
<1> HIDE DEF s
<1>4. /\ clients' \in MapsOf(Peers, Sockets) /\ DOMAIN clients' = DOMAIN clients
      /\ clients'[p] = s /\ \A x \in DOMAIN clients \ {p} : clients'[x] = clients[x]
  BY <1>1, <1>2, <1>3, SocketSet
<1>5. /\ u \in Links /\ u.peer = p /\ u.addr = r.addr /\ u.client = "open" /\ u.server = r.server
      /\ u.toServer = r.toServer /\ u.toClient = r.toClient /\ u.sendArr = r.sendArr
  BY <1>2, LinkEnds DEF ClientEnds
<1> HIDE DEF u
<1>6. /\ t \in Links /\ t.peer = p /\ t.addr = r.addr /\ t.client = "open" /\ t.server = "new"
      /\ t.toServer = r.toServer /\ t.toClient = r.toClient /\ t.sendArr = r.sendArr
  BY <1>5, LinkEnds DEF ServerEnds
<1> HIDE DEF t
<1>7. <<Register>> \in Seq(Nat)
  BY DEF Register
<1>8. /\ v \in Links /\ v.peer = p /\ v.addr = r.addr /\ v.client = "open" /\ v.server = "new"
      /\ v.toServer = <<Register>> /\ v.toClient = r.toClient /\ v.sendArr = r.sendArr
  BY <1>6, <1>7, LinkQueues
<1> HIDE DEF v
<1>9. WireOf(r) /\ r.server = "closed" /\ r.toClient = <<>> /\ r.sendArr = <<>>
  <2>1. WireOf(r)
    BY <1>2 DEF LInv, Structure, WireSide
  <2>. QED BY <1>1, <2>1 DEF WireOf
<1>10. WireOf(v)
  BY <1>8, <1>9 DEF WireOf
<1>11. /\ ConnsOK' /\ WireSide' /\ conns'[c] = v
       /\ \A d \in Conns \ {c} : conns'[d] = conns[d]
       /\ \A d \in Conns : conns'[d] # Free => LinkAddsNone(d) \/ LinkEmpty(d)
  BY <1>1, <1>2, <1>8, <1>10, LinkSet
<1>12. PeersOK' /\ PeerSide'
  BY <1>1, <1>8, <1>9, <1>11, SamePeerSide
<1>13. Types'
  BY <1>1, <1>4, <1>11, <1>12
     DEF LInv, Types, ClientsOK, QueueOK, CountsOK, msgVars, queueVars
<1>14. ClientSide'
  <2>1. ASSUME NEW x \in DOMAIN clients'
        PROVE  /\ ~InUse(clients'[x].phase) => clients'[x].conn = NoConn
               /\ clients'[x].phase # "registered" => clients'[x].sendArr = <<>>
               /\ InUse(clients'[x].phase) =>
                     /\ clients'[x].conn \in Conns /\ conns'[clients'[x].conn] # Free
                     /\ conns'[clients'[x].conn].peer = x
                     /\ conns'[clients'[x].conn].addr = clients'[x].addr
                     /\ conns'[clients'[x].conn].client =
                           IF clients'[x].phase = "connecting" THEN "connecting" ELSE "open"
    <3>1. CASE x = p
      <4>1. clients[p].sendArr = <<>>
        BY <1>2 DEF LInv, Structure, ClientSide
      <4>2. v # Free
        BY <1>8, LinkFields
      <4>. QED BY <1>2, <1>3, <1>4, <1>8, <1>11, <3>1, <4>1, <4>2 DEF InUse
    <3>2. CASE x # p
      <4>1. x \in DOMAIN clients /\ clients'[x] = clients[x]
        BY <1>4, <2>1, <3>2
      <4>2. InUse(clients[x].phase) => clients[x].conn # c
        BY <3>2, <4>1 DEF LInv, Structure, ClientSide
      <4>. QED BY <1>11, <4>1, <4>2 DEF LInv, Structure, ClientSide
    <3>. QED BY <3>1, <3>2
  <2>2. ASSUME NEW d \in Conns, conns'[d].client \in {"connecting", "open"}
        PROVE  conns'[d].peer \in DOMAIN clients' /\ clients'[conns'[d].peer].conn = d
    <3>1. CASE d = c
      BY <1>2, <1>3, <1>4, <1>8, <1>11, <3>1
    <3>2. CASE d # c
      BY <1>2, <1>4, <1>11, <2>2, <3>2 DEF LInv, Structure, ClientSide
    <3>. QED BY <3>1, <3>2
  <2>. QED BY <2>1, <2>2 DEF ClientSide
<1>15. PoolSide'
  <2>1. ASSUME NEW x \in DOMAIN pool
        PROVE  /\ x \in DOMAIN clients' /\ clients'[x].phase = "registered"
               /\ clients'[x].conn = pool[x] /\ conns'[pool[x]].server # "new"
    <3>1. /\ x \in DOMAIN clients /\ clients[x].phase = "registered" /\ clients[x].conn = pool[x]
          /\ pool[x] \in Conns /\ conns[pool[x]].server # "new" /\ conns[pool[x]].client = "open"
      BY <2>1, InPool
    <3>2. x # p /\ pool[x] # c
      BY <1>1, <1>2, <3>1
    <3>. QED BY <1>4, <1>11, <3>1, <3>2
  <2>. QED BY <1>1, <2>1 DEF PoolSide
<1>16. QueueSide'
  BY <1>1, <1>2, <1>3, <1>4 DEF LInv, Structure, QueueSide, queueVars
<1>17. OutOrder' /\ BackOrder'
  <2>1. NoneAdded
    BY <1>1, <1>3, <1>4, <1>11 DEF NoneAdded
  <2>. QED BY <1>13, <2>1, NoneAddedOrder
<1>. QED BY <1>11, <1>12, <1>13, <1>14, <1>15, <1>16, <1>17 DEF LInv, Structure

\* The process dies: its end of every connection closes.
LEMMA CrashStep ==
    ASSUME LInv, Crash, UNCHANGED <<tmpCntList, peerVars, msgVars>>
    PROVE  LInv'
<1>1. /\ clients' = <<>> /\ pool' = <<>> /\ list' = <<>>
      /\ conns' = [d \in Conns |-> IF conns[d].server = "closed" THEN Free
                                   ELSE [conns[d] EXCEPT !.client = "closed", !.toClient = <<>>]]
      /\ UNCHANGED <<tmpCntList, peerVars, msgVars>>
  BY DEF Crash
<1>2. ASSUME NEW d \in Conns
      PROVE  /\ conns'[d] \in Links \cup {Free}
             /\ conns'[d].client = "closed" /\ conns'[d].server = conns[d].server
             /\ conns'[d] # Free =>
                   /\ conns[d] # Free
                   /\ conns'[d].peer = conns[d].peer /\ conns'[d].toServer = conns[d].toServer
                   /\ conns'[d].toClient = <<>> /\ conns'[d].sendArr = conns[d].sendArr
  <2>1. CASE conns[d].server = "closed"
    <3>1. conns'[d] = Free
      BY <1>1, <2>1
    <3>. QED BY <2>1, <3>1 DEF Free
  <2>2. CASE conns[d].server # "closed"
    <3> DEFINE u == [conns[d] EXCEPT !.client = "closed"]
               v == [u EXCEPT !.toClient = <<>>]
    <3>1. conns[d] # Free
      BY <2>2 DEF Free
    <3>2. conns[d] \in Links
      BY <3>1, LinkElim DEF LInv, Types
    <3>3. conns'[d] = v
      BY <1>1, <2>2
    <3>4. <<>> \in Seq(Nat) /\ "closed" \in ClientEnds
      BY DEF ClientEnds
    <3>5. /\ u \in Links /\ u.peer = conns[d].peer /\ u.client = "closed"
          /\ u.server = conns[d].server /\ u.toServer = conns[d].toServer
          /\ u.sendArr = conns[d].sendArr
      BY <2>2, <3>2, <3>4, LinkEnds
    <3> HIDE DEF u
    <3>6. /\ v \in Links /\ v.peer = u.peer /\ v.client = u.client
          /\ v.server = u.server /\ v.toServer = u.toServer
          /\ v.toClient = <<>> /\ v.sendArr = u.sendArr
      BY <3>4, <3>5, LinkQueues
    <3> HIDE DEF v
    <3>. QED BY <3>1, <3>3, <3>5, <3>6
  <2>. QED BY <2>1, <2>2
<1>3. ConnsOK'
  BY <1>1, <1>2 DEF ConnsOK
<1>4. ClientsOK' /\ QueueOK' /\ DOMAIN clients' = {} /\ DOMAIN pool' = {} /\ DOMAIN list' = {}
  <2>1. <<>> \in MapsOf(Peers, Sockets) /\ <<>> \in MapsOf(Peers, Conns) /\ DOMAIN <<>> = {}
    BY EmptyMap
  <2>2. <<>> \in Seq(Peers)
    OBVIOUS
  <2>. QED BY <1>1, <2>1, <2>2 DEF LInv, Types, ClientsOK, QueueOK
<1>5. PeersOK' /\ PeerSide'
  <2>1. \A d \in Conns : conns[d].server = "registered" => conns'[d] # Free
    BY <1>2 DEF Free
  <2>. QED BY <1>1, <1>2, <2>1, SamePeerSide
<1>6. Types'
  BY <1>1, <1>3, <1>4, <1>5 DEF LInv, Types, CountsOK, msgVars
<1>7. ClientSide' /\ PoolSide' /\ QueueSide'
  BY <1>2, <1>4 DEF ClientSide, PoolSide, QueueSide, Once, Has
<1>8. WireSide'
  <2>1. ASSUME NEW d \in Conns, conns'[d] # Free PROVE WireOf(conns'[d])
    <3>1. WireOf(conns[d])
      BY <1>2, <2>1 DEF LInv, Structure, WireSide
    <3>. QED BY <1>2, <2>1, <3>1 DEF WireOf
  <2>. QED BY <2>1 DEF WireSide
<1>9. OutOrder' /\ BackOrder'
  <2>1. ASSUME NEW d \in Conns, conns'[d] # Free PROVE LinkAddsNone(d)
    BY <1>2, <2>1 DEF LinkAddsNone
  <2>2. NoneAdded
    BY <1>1, <1>4, <2>1 DEF NoneAdded
  <2>. QED BY <1>6, <2>2, NoneAddedOrder
<1>. QED BY <1>5, <1>6, <1>7, <1>8, <1>9 DEF LInv, Structure

\* A connection whose socket was removed is nobody's here, whatever becomes of it.
LEMMA OrphanEnds ==
    ASSUME LInv, NEW c \in Conns, conns[c].client = "orphan", conns'[c].client = "closed",
           \A d \in Conns \ {c} : conns'[d] = conns[d], UNCHANGED <<clients, pool>>
    PROVE  ClientSide' /\ PoolSide'
<1>1. ClientSide'
  <2>1. ASSUME NEW x \in DOMAIN clients
        PROVE  /\ ~InUse(clients[x].phase) => clients[x].conn = NoConn
               /\ clients[x].phase # "registered" => clients[x].sendArr = <<>>
               /\ InUse(clients[x].phase) =>
                     /\ clients[x].conn \in Conns /\ conns'[clients[x].conn] # Free
                     /\ conns'[clients[x].conn].peer = x
                     /\ conns'[clients[x].conn].addr = clients[x].addr
                     /\ conns'[clients[x].conn].client =
                           IF clients[x].phase = "connecting" THEN "connecting" ELSE "open"
    <3>1. InUse(clients[x].phase) => clients[x].conn \in Conns \ {c}
      BY DEF LInv, Structure, ClientSide
    <3>. QED BY <3>1 DEF LInv, Structure, ClientSide
  <2>2. \A d \in Conns : conns'[d].client \in {"connecting", "open"} =>
           conns'[d].peer \in DOMAIN clients /\ clients[conns'[d].peer].conn = d
    BY DEF LInv, Structure, ClientSide
  <2>. QED BY <2>1, <2>2 DEF ClientSide
<1>2. PoolSide'
  <2>1. \A x \in DOMAIN pool : pool[x] \in Conns /\ pool[x] # c
    BY InPool
  <2>. QED BY <2>1 DEF LInv, Structure, PoolSide
<1>. QED BY <1>1, <1>2

\* A connection that was made after remove(), in a process that lives on.
LEMMA LeftOverStep ==
    ASSUME LInv, NEW c \in Conns, conns[c].client = "orphan", LeftOver(c),
           UNCHANGED <<tmpCntList, peerVars, msgVars>>
    PROVE  LInv'
<1>1. conns[c] # Free /\ conns[c] \in Links
  <2>1. conns[c] # Free
    BY DEF Free
  <2>. QED BY <2>1, LinkElim DEF LInv, Types
<1>2. /\ conns[c].server = "closed" /\ conns[c].toServer = <<>> /\ conns[c].toClient = <<>>
      /\ conns[c].sendArr = <<>>
  BY <1>1 DEF LInv, Structure, WireSide, WireOf
<1>3. PICK u, v : /\ u = [conns[c] EXCEPT !.server = "new"] /\ v = [u EXCEPT !.client = "closed"]
                  /\ conns' = [conns EXCEPT ![c] = v]
  <2> DEFINE w == [conns[c] EXCEPT !.client = "closed", !.server = "new"]
  <2>1. conns' = [conns EXCEPT ![c] = w]
    BY DEF LeftOver
  <2>2. w = [[conns[c] EXCEPT !.server = "new"] EXCEPT !.client = "closed"]
    BY <1>1 DEF Links
  <2> HIDE DEF w
  <2>. QED BY <2>1, <2>2
<1>4. "new" \in ServerEnds /\ "closed" \in ClientEnds
  BY DEF ServerEnds, ClientEnds
<1>5. /\ u \in Links /\ u.peer = conns[c].peer /\ u.server = "new"
      /\ u.toServer = <<>> /\ u.toClient = <<>> /\ u.sendArr = <<>>
  BY <1>1, <1>2, <1>3, <1>4, LinkEnds
<1>6. /\ v \in Links /\ v.peer = conns[c].peer /\ v.client = "closed" /\ v.server = "new"
      /\ v.toServer = <<>> /\ v.toClient = <<>> /\ v.sendArr = <<>>
  BY <1>3, <1>4, <1>5, LinkEnds
<1>7. WireOf(v)
  BY <1>6 DEF WireOf
<1>8. /\ ConnsOK' /\ WireSide' /\ conns'[c] = v /\ \A d \in Conns \ {c} : conns'[d] = conns[d]
      /\ \A d \in Conns : conns'[d] # Free => LinkAddsNone(d) \/ LinkEmpty(d)
  BY <1>1, <1>2, <1>3, <1>6, <1>7, LinkSet
<1>9. PeersOK' /\ PeerSide'
  BY <1>2, <1>6, <1>8, SamePeerSide
<1>10. ClientsOK' /\ QueueOK' /\ QueueSide' /\ CountsOK'
  BY DEF LeftOver, LInv, Types, Structure, ClientsOK, QueueOK, QueueSide, CountsOK, msgVars
<1>11. Types'
  BY <1>8, <1>9, <1>10 DEF Types
<1>12. ClientSide' /\ PoolSide'
  BY <1>6, <1>8, OrphanEnds DEF LeftOver
<1>13. OutOrder' /\ BackOrder'
  <2>1. NoneAdded
    BY <1>8, SocketsAddNone DEF LeftOver
  <2>. QED BY <1>11, <2>1, NoneAddedOrder
<1>. QED BY <1>8, <1>9, <1>10, <1>11, <1>12, <1>13 DEF LInv, Structure

LEMMA ConnectedOrphanStep == ASSUME LInv, NEW c \in Conns, ConnectedOrphan(c) PROVE LInv'
BY CrashStep, LeftOverStep DEF ConnectedOrphan

\* A connection whose socket was removed was not made.
LEMMA OrphanFailsStep ==
    ASSUME LInv, NEW c \in Conns, conns[c].client = "orphan", conns' = [conns EXCEPT ![c] = Free],
           UNCHANGED <<clientVars, queueVars, peerVars, msgVars>>
    PROVE  LInv'
<1>1. conns[c] # Free
  BY DEF Free
<1>2. conns \in [Conns -> Links \cup {Free}] /\ conns[c].server = "closed"
  BY <1>1 DEF LInv, Types, ConnsOK, Structure, WireSide, WireOf
<1>3. ConnsOK' /\ conns'[c] = Free /\ \A d \in Conns \ {c} : conns'[d] = conns[d]
  BY <1>2 DEF ConnsOK
<1>4. Free.client = "closed" /\ Free.server = "closed"
  BY DEF Free
<1>5. PeersOK' /\ PeerSide'
  BY <1>2, <1>3, <1>4, SamePeerSide
<1>6. ClientsOK' /\ QueueOK' /\ QueueSide' /\ CountsOK'
  BY DEF LInv, Types, Structure, ClientsOK, QueueOK, QueueSide, CountsOK,
         clientVars, queueVars, msgVars
<1>7. Types'
  BY <1>3, <1>5, <1>6 DEF Types
<1>8. ClientSide' /\ PoolSide'
  BY <1>3, <1>4, OrphanEnds DEF clientVars
<1>9. WireSide'
  BY <1>3 DEF LInv, Structure, WireSide
<1>10. OutOrder' /\ BackOrder'
  <2>1. ASSUME NEW d \in Conns, conns'[d] # Free PROVE LinkAddsNone(d)
    BY <1>3, <2>1 DEF LinkAddsNone
  <2>2. NoneAdded
    BY <2>1, SocketsAddNone DEF clientVars
  <2>. QED BY <1>7, <2>2, NoneAddedOrder
<1>. QED BY <1>5, <1>6, <1>7, <1>8, <1>9, <1>10 DEF LInv, Structure

\* The socket of c is closed, by itself or by remove(): its connection is
\* closed at this end, or left to itself while it is being made.
Gone(c) ==
    /\ ConnsOK' /\ WireSide'
    /\ conns'[c].client \in {"closed", "orphan"}
    /\ \A d \in Conns \ {c} : conns'[d] = conns[d]
    /\ \A d \in Conns : conns'[d].server = conns[d].server
    /\ \A d \in Conns : conns'[d] # Free => LinkAddsNone(d)

LEMMA ClosedGone ==
    ASSUME LInv, NEW c \in Conns, conns[c] # Free, conns' = Closed(conns, c, "client")
    PROVE  Gone(c)
<1>1. ConnsOK /\ conns[c] \in Links /\ conns' = ClientEndClosed(c)
  BY LinkElim DEF LInv, Types, ClientEndClosed
<1>2. conns' \in [Conns -> Links \cup {Free}] /\ \A d \in Conns \ {c} : conns'[d] = conns[d]
  BY <1>1, ClosedClient
<1>3. /\ conns'[c].client = "closed" /\ conns'[c].server = conns[c].server
      /\ conns'[c] # Free =>
            /\ conns'[c].peer = conns[c].peer /\ conns'[c].toServer = conns[c].toServer
            /\ conns'[c].toClient = <<>> /\ conns'[c].sendArr = conns[c].sendArr
  BY <1>1, ClosedClient
<1>4. WireSide'
  <2>1. ASSUME conns'[c] # Free PROVE WireOf(conns'[c])
    <3>1. WireOf(conns[c])
      BY DEF LInv, Structure, WireSide
    <3>. QED BY <1>3, <2>1, <3>1 DEF WireOf
  <2>. QED BY <1>2, <2>1 DEF LInv, Structure, WireSide
<1>5. ASSUME NEW d \in Conns, conns'[d] # Free PROVE LinkAddsNone(d)
  <2>1. CASE d = c
    BY <1>3, <1>5, <2>1 DEF LinkAddsNone
  <2>2. CASE d # c
    BY <1>2, <1>5, <2>2 DEF LinkAddsNone
  <2>. QED BY <2>1, <2>2
<1>. QED BY <1>2, <1>3, <1>4, <1>5 DEF Gone, ConnsOK

LEMMA OrphanGone ==
    ASSUME LInv, NEW c \in Conns, conns[c].client = "connecting",
           conns' = [conns EXCEPT ![c].client = "orphan"]
    PROVE  Gone(c)
<1> DEFINE v == [conns[c] EXCEPT !.client = "orphan"]
<1>1. conns[c] # Free
  BY DEF Free
<1>2. conns[c] \in Links
  BY <1>1, LinkElim DEF LInv, Types
<1>3. /\ v \in Links /\ v.peer = conns[c].peer /\ v.client = "orphan"
      /\ v.server = conns[c].server /\ v.toServer = conns[c].toServer
      /\ v.toClient = conns[c].toClient /\ v.sendArr = conns[c].sendArr
  BY <1>2, LinkEnds DEF ClientEnds
<1>4. conns' = [conns EXCEPT ![c] = v] /\ conns \in [Conns -> Links \cup {Free}]
  BY DEF LInv, Types, ConnsOK
<1> HIDE DEF v
<1>5. ConnsOK' /\ conns'[c] = v /\ \A d \in Conns \ {c} : conns'[d] = conns[d]
  BY <1>3, <1>4 DEF ConnsOK
<1>6. WireOf(v)
  <2>1. WireOf(conns[c])
    BY <1>1 DEF LInv, Structure, WireSide
  <2>. QED BY <1>3, <2>1 DEF WireOf
<1>7. WireSide'
  BY <1>5, <1>6 DEF LInv, Structure, WireSide
<1>8. ASSUME NEW d \in Conns, conns'[d] # Free PROVE LinkAddsNone(d)
  <2>1. CASE d = c
    BY <1>1, <1>3, <1>5, <2>1 DEF LinkAddsNone
  <2>2. CASE d # c
    BY <1>5, <1>8, <2>2 DEF LinkAddsNone
  <2>. QED BY <2>1, <2>2
<1>. QED BY <1>3, <1>5, <1>7, <1>8 DEF Gone

\* The socket of p no longer has a connection; perhaps p is forgotten.
LEMMA SocketGone ==
    ASSUME LInv, NEW p \in Peers, UNCHANGED <<tmpCntList, peerVars, msgVars>>,
           \/ /\ p \in DOMAIN clients /\ clients[p].conn \in Conns /\ Gone(clients[p].conn)
           \/ /\ p \in DOMAIN clients => ~InUse(clients[p].phase)
              /\ conns' = conns,
           pool' = Minus(pool, {p}),
           clients' \in MapsOf(Peers, Sockets),
           \A x \in Peers \ {p} : x \in DOMAIN clients' <=> x \in DOMAIN clients,
           \A x \in DOMAIN clients \ {p} : clients'[x] = clients[x],
           p \in DOMAIN clients' =>
              clients'[p].phase = "timer" /\ clients'[p].conn = NoConn /\ clients'[p].sendArr = <<>>,
           list' \in Seq(Peers), Once(list'),
           \A x : Has(list', x) <=> (x # p /\ Has(list, x))
    PROVE  LInv'
<1>1. /\ ConnsOK' /\ WireSide'
      /\ \A d \in Conns : conns'[d].server = conns[d].server
      /\ \A d \in Conns : conns'[d] # Free => LinkAddsNone(d)
      /\ \A d \in Conns : conns'[d].client \in {"connecting", "open"} =>
            conns'[d] = conns[d] /\ conns[d].peer # p
      /\ \A d \in Conns : conns'[d] # conns[d] => conns[d].peer = p
  <2>1. CASE p \in DOMAIN clients /\ clients[p].conn \in Conns /\ Gone(clients[p].conn)
    <3> DEFINE c == clients[p].conn
    <3>1. /\ c \in Conns /\ c # NoConn
      BY <2>1, LinkAssumption DEF LinkAssumption
    <3>2. InUse(clients[p].phase)
      BY <2>1, <3>1 DEF LInv, Structure, ClientSide
    <3>3. conns[c].peer = p
      BY <2>1, <3>2 DEF LInv, Structure, ClientSide
    <3>4. ASSUME NEW d \in Conns, conns'[d].client \in {"connecting", "open"}
          PROVE  conns'[d] = conns[d] /\ conns[d].peer # p
      <4>1. d # c /\ conns'[d] = conns[d]
        BY <2>1, <3>4 DEF Gone
      <4>2. clients[conns[d].peer].conn = d
        BY <3>4, <4>1 DEF LInv, Structure, ClientSide
      <4>. QED BY <4>1, <4>2
    <3>. QED BY <2>1, <3>1, <3>3, <3>4 DEF Gone
  <2>2. CASE (p \in DOMAIN clients => ~InUse(clients[p].phase)) /\ conns' = conns
    <3>1. ASSUME NEW d \in Conns, conns[d].client \in {"connecting", "open"}
          PROVE  conns[d].peer # p
      BY <2>2, <3>1, OneClientEnd DEF InUse
    <3>2. \A d \in Conns : conns[d] # Free => LinkAddsNone(d)
      BY <2>2 DEF LinkAddsNone
    <3>. QED BY <2>2, <3>1, <3>2 DEF LInv, Types, ConnsOK, Structure, WireSide
  <2>. QED BY <2>1, <2>2
<1>2. PeersOK' /\ PeerSide'
  <2>1. \A d \in Conns : conns'[d].server = "registered" => conns'[d].peer = conns[d].peer
    <3>1. \A d \in Conns : conns'[d].server = "registered" => conns'[d] # Free
      BY DEF Free
    <3>. QED BY <1>1, <3>1 DEF LinkAddsNone
  <2>. QED BY <1>1, <2>1, SamePeerSide
<1>3. pool' \in MapsOf(Peers, Conns)
  BY MinusMap DEF LInv, Types, ClientsOK
<1>4. DOMAIN pool' = DOMAIN pool \ {p} /\ \A x \in DOMAIN pool' : pool'[x] = pool[x]
  BY DEF Minus
<1>5. Types'
  BY <1>1, <1>2, <1>3 DEF LInv, Types, ClientsOK, QueueOK, CountsOK, msgVars
<1>6. DOMAIN clients' \subseteq Peers
  BY MapElim
<1>7. ASSUME NEW x \in DOMAIN clients, x # p
      PROVE  InUse(clients[x].phase) => conns'[clients[x].conn] = conns[clients[x].conn]
  BY <1>1, <1>7 DEF LInv, Structure, ClientSide
<1>8. ClientSide'
  <2>1. ASSUME NEW x \in DOMAIN clients'
        PROVE  /\ ~InUse(clients'[x].phase) => clients'[x].conn = NoConn
               /\ clients'[x].phase # "registered" => clients'[x].sendArr = <<>>
               /\ InUse(clients'[x].phase) =>
                     /\ clients'[x].conn \in Conns /\ conns'[clients'[x].conn] # Free
                     /\ conns'[clients'[x].conn].peer = x
                     /\ conns'[clients'[x].conn].addr = clients'[x].addr
                     /\ conns'[clients'[x].conn].client =
                           IF clients'[x].phase = "connecting" THEN "connecting" ELSE "open"
    <3>1. CASE x = p
      BY <2>1, <3>1 DEF InUse
    <3>2. CASE x # p
      <4>1. x \in DOMAIN clients /\ clients'[x] = clients[x]
        BY <1>6, <2>1, <3>2
      <4>. QED BY <1>7, <3>2, <4>1 DEF LInv, Structure, ClientSide
    <3>. QED BY <3>1, <3>2
  <2>2. ASSUME NEW d \in Conns, conns'[d].client \in {"connecting", "open"}
        PROVE  conns'[d].peer \in DOMAIN clients' /\ clients'[conns'[d].peer].conn = d
    <3>1. conns'[d] = conns[d] /\ conns[d].peer # p
      BY <1>1, <2>2
    <3>2. /\ conns[d].peer \in Peers /\ conns[d].peer \in DOMAIN clients
          /\ clients[conns[d].peer].conn = d
      BY <2>2, <3>1, OneClientEnd
    <3>. QED BY <3>1, <3>2
  <2>. QED BY <2>1, <2>2 DEF ClientSide
<1>9. PoolSide'
  <2>1. ASSUME NEW x \in DOMAIN pool'
        PROVE  /\ x \in DOMAIN clients' /\ clients'[x].phase = "registered"
               /\ clients'[x].conn = pool'[x] /\ conns'[pool'[x]].server # "new"
    <3>1. x \in DOMAIN pool /\ x # p /\ pool'[x] = pool[x]
      BY <1>4, <2>1
    <3>2. /\ x \in Peers /\ x \in DOMAIN clients /\ clients[x].phase = "registered"
          /\ clients[x].conn = pool[x] /\ pool[x] \in Conns /\ conns[pool[x]].server # "new"
      BY <3>1, InPool
    <3>. QED BY <1>1, <3>1, <3>2
  <2>. QED BY <2>1 DEF PoolSide
<1>10. QueueSide'
  <2>1. ASSUME NEW x \in Peers
        PROVE  Has(list', x) <=>
                  (x \in DOMAIN clients' /\ clients'[x].phase = "queued")
    <3>1. CASE x = p
      BY <3>1
    <3>2. CASE x # p
      BY <2>1, <3>2 DEF LInv, Structure, QueueSide
    <3>. QED BY <3>1, <3>2
  <2>. QED BY <2>1 DEF QueueSide
<1>11. OutOrder' /\ BackOrder'
  <2>1. ASSUME NEW x \in DOMAIN clients'
        PROVE  \/ clients'[x].sendArr = <<>>
               \/ x \in DOMAIN clients /\ clients'[x].sendArr = clients[x].sendArr
    BY <1>6, <2>1
  <2>2. NoneAdded
    BY <1>1, <2>1 DEF NoneAdded
  <2>. QED BY <1>5, <2>2, NoneAddedOrder
<1>. QED BY <1>1, <1>2, <1>5, <1>8, <1>9, <1>10, <1>11 DEF LInv, Structure

\* Nothing of p is in the queue but itself, once, when it waits.
LEMMA NotQueued ==
    ASSUME LInv, NEW p \in Peers, p \in DOMAIN clients => clients[p].phase # "queued"
    PROVE  /\ list \in Seq(Peers) /\ Once(list)
           /\ \A x : Has(list, x) <=> (x # p /\ Has(list, x))
BY DEF LInv, Types, QueueOK, Structure, QueueSide

LEMMA ClientClosedStep ==
    ASSUME LInv, NEW c \in Conns, conns[c].client \in {"connecting", "open"}, ClientClosed(c),
           UNCHANGED <<queueVars, peerVars, msgVars>>
    PROVE  LInv'
<1> DEFINE p == conns[c].peer
           s == [clients[p] EXCEPT !.phase = "timer"]
           t == [s EXCEPT !.conn = NoConn]
           v == [t EXCEPT !.sendArr = <<>>]
<1>1. /\ conns[c] # Free /\ p \in Peers /\ p \in DOMAIN clients /\ clients[p].conn = c
      /\ clients[p] \in Sockets /\ clients[p].phase \in {"connecting", "open", "registered"}
  BY OneClientEnd
<1>2. /\ clients' = [clients EXCEPT ![p] = v] /\ pool' = Minus(pool, {p})
      /\ conns' = Closed(conns, c, "client")
  BY DEF ClientClosed
<1>3. s \in Sockets /\ s.phase = "timer"
  BY <1>1 DEF Sockets, Phases
<1> HIDE DEF s
<1>4. t \in Sockets /\ t.phase = "timer" /\ t.conn = NoConn
  BY <1>3 DEF Sockets
<1> HIDE DEF t
<1>5. v \in Sockets /\ v.phase = "timer" /\ v.conn = NoConn /\ v.sendArr = <<>>
  <2>1. <<>> \in Seq(Nat)
    OBVIOUS
  <2>. QED BY <1>4, <2>1 DEF Sockets
<1> HIDE DEF v
<1>6. /\ clients' \in MapsOf(Peers, Sockets) /\ DOMAIN clients' = DOMAIN clients
      /\ clients'[p] = v /\ \A x \in DOMAIN clients \ {p} : clients'[x] = clients[x]
  BY <1>1, <1>2, <1>5, SocketSet
<1>7. Gone(c)
  BY <1>1, <1>2, ClosedGone
<1>8. list' = list /\ tmpCntList' = tmpCntList
  BY DEF queueVars
<1>9. /\ list' \in Seq(Peers) /\ Once(list')
      /\ \A x : Has(list', x) <=> (x # p /\ Has(list, x))
  BY <1>1, <1>8, NotQueued
<1> HIDE DEF p
<1>10. p \in DOMAIN clients /\ clients[p].conn \in Conns /\ Gone(clients[p].conn)
  BY <1>1, <1>7
<1>11. /\ \A x \in Peers \ {p} : x \in DOMAIN clients' <=> x \in DOMAIN clients
       /\ p \in DOMAIN clients' =>
             clients'[p].phase = "timer" /\ clients'[p].conn = NoConn /\ clients'[p].sendArr = <<>>
  BY <1>5, <1>6
<1>. QED BY <1>1, <1>2, <1>6, <1>8, <1>9, <1>10, <1>11, SocketGone

\* remove(), and what is told of p then.
LEMMA RemoveOldStep ==
    ASSUME LInv, NEW p \in Peers, RemoveOld(p), UNCHANGED <<tmpCntList, peerVars, msgVars>>,
           clients' \in MapsOf(Peers, Sockets),
           \A x \in Peers \ {p} : x \in DOMAIN clients' <=> x \in DOMAIN clients,
           \A x \in DOMAIN clients \ {p} : clients'[x] = clients[x],
           p \in DOMAIN clients' =>
              clients'[p].phase = "timer" /\ clients'[p].conn = NoConn /\ clients'[p].sendArr = <<>>
    PROVE  LInv'
<1>1. /\ list' \in Seq(Peers) /\ Once(list')
      /\ \A x : Has(list', x) <=> (x # p /\ Has(list, x))
  <2> DEFINE t == RemoveFirst(list, p)
  <2>1. list \in Seq(Peers) /\ Once(list)
    BY DEF LInv, Types, QueueOK, Structure, QueueSide
  <2>2. /\ t \in Seq(Peers) /\ Once(t)
        /\ \A x : Has(t, x) <=> (x # p /\ Has(list, x))
    BY <2>1, RemoveFirstOnce
  <2>3. list' = t
    BY DEF RemoveOld, Unqueued
  <2> HIDE DEF t
  <2>. QED BY <2>2, <2>3
<1>2. \/ /\ p \in DOMAIN clients /\ clients[p].conn \in Conns /\ Gone(clients[p].conn)
      \/ /\ p \in DOMAIN clients => ~InUse(clients[p].phase)
         /\ conns' = conns
  <2>1. conns' = RemovedConns(p)
    BY DEF RemoveOld
  <2>2. CASE p \notin DOMAIN clients
    BY <2>1, <2>2 DEF RemovedConns
  <2>3. CASE p \in DOMAIN clients
    <3> DEFINE c == clients[p].conn
    <3>1. clients[p].phase \in Phases
      BY <2>3, SocketElim
    <3>2. CASE ~InUse(clients[p].phase)
      <4>1. c = NoConn
        BY <2>3, <3>2 DEF LInv, Structure, ClientSide
      <4>. QED BY <2>1, <2>3, <3>2, <4>1 DEF RemovedConns
    <3>3. CASE InUse(clients[p].phase)
      <4>1. /\ c \in Conns /\ conns[c] # Free
            /\ conns[c].client \in {"connecting", "open"}
        BY <2>3, <3>3 DEF LInv, Structure, ClientSide
      <4>2. c # NoConn
        BY <4>1, LinkAssumption DEF LinkAssumption
      <4> HIDE DEF c
      <4>3. CASE conns[c].client = "connecting"
        <5>1. conns' = [conns EXCEPT ![c].client = "orphan"]
          BY <2>1, <2>3, <4>2, <4>3 DEF RemovedConns, c
        <5>2. Gone(c)
          BY <4>1, <4>3, <5>1, OrphanGone
        <5>. QED BY <2>3, <4>1, <5>2 DEF c
      <4>4. CASE conns[c].client = "open"
        <5>1. conns' = Closed(conns, c, "client")
          BY <2>1, <2>3, <4>2, <4>4 DEF RemovedConns, c
        <5>2. Gone(c)
          BY <4>1, <5>1, ClosedGone
        <5>. QED BY <2>3, <4>1, <5>2 DEF c
      <4>. QED BY <4>1, <4>3, <4>4
    <3>. QED BY <3>2, <3>3
  <2>. QED BY <2>2, <2>3
<1>3. pool' = Minus(pool, {p})
  BY DEF RemoveOld
<1>. QED BY <1>1, <1>2, <1>3, SocketGone

LEMMA AddRpcClientStep ==
    ASSUME LInv, NEW p \in Peers, NEW a \in Addrs, AddRpcClient(p, a) PROVE LInv'
<1> DEFINE v == NewClient(a)
<1>1. RemoveOld(p) /\ clients' = With(clients, p, v) /\ UNCHANGED <<tmpCntList, peerVars, msgVars>>
  BY DEF AddRpcClient
<1>2. v \in Sockets /\ v.phase = "timer" /\ v.conn = NoConn /\ v.sendArr = <<>>
  BY DEF NewClient, Sockets, Phases
<1> HIDE DEF v
<1>3. clients \in MapsOf(Peers, Sockets)
  BY DEF LInv, Types, ClientsOK
<1>4. With(clients, p, v) \in MapsOf(Peers, Sockets)
  BY <1>2, <1>3, WithMap
<1>5. /\ DOMAIN clients' = DOMAIN clients \cup {p} /\ clients'[p] = v
      /\ \A x \in DOMAIN clients \ {p} : clients'[x] = clients[x]
  BY <1>1 DEF With
<1>. QED BY <1>1, <1>2, <1>4, <1>5, RemoveOldStep

LEMMA RemoveRpcClientStep ==
    ASSUME LInv, NEW p \in Peers, RemoveRpcClient(p) PROVE LInv'
<1>1. RemoveOld(p) /\ clients' = Minus(clients, {p}) /\ UNCHANGED <<tmpCntList, peerVars, msgVars>>
  BY DEF RemoveRpcClient
<1>2. Minus(clients, {p}) \in MapsOf(Peers, Sockets)
  BY MinusMap DEF LInv, Types, ClientsOK
<1>3. /\ DOMAIN clients' = DOMAIN clients \ {p}
      /\ \A x \in DOMAIN clients \ {p} : clients'[x] = clients[x]
  BY <1>1 DEF Minus
<1>. QED BY <1>1, <1>2, <1>3, RemoveOldStep

\* The numbers of connections that the checks of a second may begin.
LEMMA CntListType == CntList \in Seq(Nat) /\ CntList # <<>> /\ CntList \in [1..Frame -> Nat]
<1> DEFINE q == SocketPerSecond \div Frame
           m == SocketPerSecond % Frame
<1>1. SocketPerSecond \in Nat /\ Frame \in Nat /\ Frame >= 1
  BY LinkAssumption DEF LinkAssumption
<1>2. q \in Nat /\ m \in Nat
  BY <1>1
<1>3. CntList = [i \in 1..Frame |-> q + (IF i <= m THEN 1 ELSE 0)]
  BY DEF CntList
<1> HIDE DEF q, m
<1>4. \A i \in 1..Frame : q + (IF i <= m THEN 1 ELSE 0) \in Nat
  BY <1>1, <1>2
<1>5. CntList \in [1..Frame -> Nat]
  BY <1>3, <1>4
<1>6. CntList \in Seq(Nat)
  BY <1>1, <1>5
<1>. QED BY <1>1, <1>5, <1>6

LEMMA CheckStep == ASSUME LInv, Check PROVE LInv'
<1> DEFINE cnts == IF tmpCntList = <<>> THEN CntList ELSE tmpCntList
           n == IF Last(cnts) < Len(list) THEN Last(cnts) ELSE Len(list)
           batch == {list[i] : i \in 1..n}
           Begun(p, c) == [peer |-> p, cut |-> FALSE, addr |-> clients[p].addr,
                           client |-> "connecting", server |-> "closed",
                           toServer |-> <<>>, toClient |-> <<>>, sendArr |-> <<>>]
<1>1. /\ tmpCntList' = Front(cnts) /\ list' = SubSeq(list, n + 1, Len(list))
      /\ UNCHANGED <<pool, crashed, peerVars, msgVars>>
  BY DEF Check
<1>2. PICK conn \in [batch -> FreeConns] :
         /\ IsInjective(conn)
         /\ clients' = [p \in DOMAIN clients |->
               IF p \in batch THEN [clients[p] EXCEPT !.phase = "connecting", !.conn = conn[p]]
               ELSE clients[p]]
         /\ conns' = [c \in Conns |->
               IF \E p \in batch : conn[p] = c
               THEN [peer |-> CHOOSE p \in batch : conn[p] = c, cut |-> FALSE,
                     addr |-> clients[CHOOSE p \in batch : conn[p] = c].addr,
                     client |-> "connecting", server |-> "closed",
                     toServer |-> <<>>, toClient |-> <<>>, sendArr |-> <<>>]
               ELSE conns[c]]
  BY DEF Check
<1>3. cnts \in Seq(Nat) /\ cnts # <<>>
  BY CntListType DEF LInv, Types, QueueOK
<1> HIDE DEF cnts
<1>4. Last(cnts) \in Nat /\ Front(cnts) \in Seq(Nat)
  BY <1>3 DEF Last, Front
<1>5. list \in Seq(Peers) /\ Once(list) /\ Len(list) \in Nat
  BY DEF LInv, Types, QueueOK, Structure, QueueSide
<1>6. n \in 0..Len(list)
  BY <1>4, <1>5
<1> HIDE DEF n
<1>7. /\ list' \in Seq(Peers) /\ Once(list')
      /\ \A x : Has(list', x) <=> (Has(list, x) /\ x \notin batch)
  <2> DEFINE t == SubSeq(list, n + 1, Len(list))
  <2>1. /\ t \in Seq(Peers) /\ Once(t)
        /\ \A x : Has(t, x) <=> (Has(list, x) /\ x \notin batch)
    BY <1>5, <1>6, RestOnce
  <2>2. list' = t
    BY <1>1
  <2> HIDE DEF t, batch
  <2>. QED BY <2>1, <2>2
\* Those of the batch waited.
<1>8. ASSUME NEW p \in batch
      PROVE  p \in Peers /\ p \in DOMAIN clients /\ clients[p].phase = "queued" /\ Has(list, p)
  <2>1. PICK i \in 1..n : list[i] = p
    BY <1>8
  <2>2. i \in DOMAIN list
    BY <1>5, <1>6
  <2>3. Has(list, p) /\ p \in Peers
    BY <1>5, <2>1, <2>2 DEF Has
  <2>. QED BY <2>3 DEF LInv, Structure, QueueSide
<1> HIDE DEF batch
<1>9. /\ \A p \in batch : conn[p] \in Conns /\ conns[conn[p]] = Free
      /\ \A p, x \in batch : conn[p] = conn[x] => p = x
  BY <1>2 DEF FreeConns, IsInjective
<1>10. ASSUME NEW p \in batch
       PROVE  conns'[conn[p]] = Begun(p, conn[p])
  <2>1. (CHOOSE x \in batch : conn[x] = conn[p]) = p
    BY <1>9
  <2>2. conn[p] \in Conns
    BY <1>9
  <2> DEFINE c == conn[p]
  <2>3. conns'[c] = [peer |-> CHOOSE x \in batch : conn[x] = c, cut |-> FALSE,
                     addr |-> clients[CHOOSE x \in batch : conn[x] = c].addr,
                     client |-> "connecting", server |-> "closed",
                     toServer |-> <<>>, toClient |-> <<>>, sendArr |-> <<>>]
    BY <1>2, <2>2
  <2>. QED BY <2>1, <2>3
<1>11. \A c \in Conns : (\A p \in batch : conn[p] # c) => conns'[c] = conns[c]
  BY <1>2
<1>12. ASSUME NEW p \in batch
       PROVE  LET b == Begun(p, conn[p])
              IN  /\ b \in Links /\ b # Free /\ b.peer = p /\ b.addr = clients[p].addr
                  /\ b.client = "connecting" /\ b.server = "closed"
                  /\ b.toServer = <<>> /\ b.toClient = <<>> /\ b.sendArr = <<>>
                  /\ WireOf(b)
  <2>1. p \in Peers /\ clients[p].addr \in Addrs
    BY <1>8, SocketElim
  <2>2. <<>> \in Seq(Nat)
    OBVIOUS
  <2>3. Begun(p, conn[p]) \in Links
    BY <2>1, <2>2 DEF Links, ClientEnds, ServerEnds
  <2>4. Begun(p, conn[p]) # Free
    BY <2>3, LinkFields
  <2>. QED BY <2>3, <2>4 DEF WireOf
<1> HIDE DEF Begun
<1>13. ASSUME NEW p \in batch
       PROVE  LET v == [clients[p] EXCEPT !.phase = "connecting", !.conn = conn[p]]
              IN  /\ v \in Sockets /\ v.phase = "connecting" /\ v.conn = conn[p]
                  /\ v.addr = clients[p].addr /\ v.sendArr = clients[p].sendArr
  <2> DEFINE u == [clients[p] EXCEPT !.phase = "connecting"]
             v == [u EXCEPT !.conn = conn[p]]
  <2>1. clients[p] \in Sockets /\ conn[p] \in Conns
    BY <1>8, <1>9, SocketElim
  <2>2. u \in Sockets /\ u.phase = "connecting" /\ u.addr = clients[p].addr
        /\ u.sendArr = clients[p].sendArr
    BY <2>1 DEF Sockets, Phases
  <2> HIDE DEF u
  <2>3. v \in Sockets /\ v.phase = u.phase /\ v.conn = conn[p] /\ v.addr = u.addr
        /\ v.sendArr = u.sendArr
    BY <2>1, <2>2 DEF Sockets
  <2>. QED BY <2>2, <2>3 DEF u
<1>14. /\ DOMAIN clients' = DOMAIN clients
       /\ \A p \in DOMAIN clients : p \notin batch => clients'[p] = clients[p]
       /\ \A p \in batch : /\ clients'[p] \in Sockets /\ clients'[p].phase = "connecting"
                           /\ clients'[p].conn = conn[p] /\ clients'[p].addr = clients[p].addr
                           /\ clients'[p].sendArr = clients[p].sendArr
  BY <1>2, <1>8, <1>13
<1>15. ClientsOK'
  <2>1. /\ clients \in MapsOf(Peers, Sockets) /\ pool \in MapsOf(Peers, Conns)
        /\ DOMAIN clients \in SUBSET Peers
    BY MapElim DEF LInv, Types, ClientsOK
  <2>2. \A p \in DOMAIN clients : clients'[p] \in Sockets
    BY <1>14, SocketElim
  <2>3. clients' \in [DOMAIN clients -> Sockets]
    BY <1>2, <1>14, <2>2
  <2>4. clients' \in MapsOf(Peers, Sockets)
    BY <2>1, <2>3, MapIntro
  <2>. QED BY <1>1, <2>1, <2>4 DEF ClientsOK
<1>16. ASSUME NEW c \in Conns
       PROVE  \/ conns'[c] = conns[c] /\ \A p \in batch : conn[p] # c
              \/ \E p \in batch : conn[p] = c /\ conns'[c] = Begun(p, c)
  BY <1>10, <1>11
<1>17. ConnsOK'
  <2>1. \A c \in Conns : conns'[c] \in Links \cup {Free}
    BY <1>12, <1>16 DEF LInv, Types, ConnsOK
  <2>. QED BY <1>2, <2>1 DEF ConnsOK
<1>18. WireSide'
  BY <1>12, <1>16 DEF LInv, Structure, WireSide
<1>19. PeersOK' /\ PeerSide'
  <2>1. Free.server = "closed"
    BY DEF Free
  <2>2. \A d \in Conns : /\ conns'[d].server = "registered" <=> conns[d].server = "registered"
                         /\ conns[d].server = "registered" => conns'[d].peer = conns[d].peer
    BY <1>9, <1>12, <1>16, <2>1
  <2>. QED BY <1>1, <2>2, SamePeerSide
<1>20. Types'
  BY <1>1, <1>4, <1>7, <1>15, <1>17, <1>19 DEF LInv, Types, QueueOK, CountsOK, msgVars
<1>21. ClientSide'
  <2>1. ASSUME NEW x \in DOMAIN clients'
        PROVE  /\ ~InUse(clients'[x].phase) => clients'[x].conn = NoConn
               /\ clients'[x].phase # "registered" => clients'[x].sendArr = <<>>
               /\ InUse(clients'[x].phase) =>
                     /\ clients'[x].conn \in Conns /\ conns'[clients'[x].conn] # Free
                     /\ conns'[clients'[x].conn].peer = x
                     /\ conns'[clients'[x].conn].addr = clients'[x].addr
                     /\ conns'[clients'[x].conn].client =
                           IF clients'[x].phase = "connecting" THEN "connecting" ELSE "open"
    <3>1. CASE x \in batch
      <4>1. clients[x].sendArr = <<>>
        BY <1>8, <3>1 DEF LInv, Structure, ClientSide
      <4>. QED BY <1>9, <1>10, <1>12, <1>14, <3>1, <4>1 DEF InUse
    <3>2. CASE x \notin batch
      <4>1. x \in DOMAIN clients /\ clients'[x] = clients[x]
        BY <1>14, <2>1, <3>2
      <4>2. InUse(clients[x].phase) => clients[x].conn \in Conns /\ conns[clients[x].conn] # Free
        BY <4>1 DEF LInv, Structure, ClientSide
      <4>3. InUse(clients[x].phase) => conns'[clients[x].conn] = conns[clients[x].conn]
        BY <1>9, <1>11, <4>2
      <4>. QED BY <4>1, <4>3 DEF LInv, Structure, ClientSide
    <3>. QED BY <3>1, <3>2
  <2>2. ASSUME NEW d \in Conns, conns'[d].client \in {"connecting", "open"}
        PROVE  conns'[d].peer \in DOMAIN clients' /\ clients'[conns'[d].peer].conn = d
    <3>1. CASE conns'[d] = conns[d] /\ \A p \in batch : conn[p] # d
      <4>1. /\ conns[d].peer \in DOMAIN clients /\ clients[conns[d].peer].conn = d
            /\ clients[conns[d].peer].phase # "queued"
        BY <2>2, <3>1, OneClientEnd
      <4>2. conns[d].peer \notin batch
        BY <1>8, <4>1
      <4>. QED BY <1>14, <3>1, <4>1, <4>2
    <3>2. CASE \E p \in batch : conn[p] = d /\ conns'[d] = Begun(p, d)
      BY <1>8, <1>12, <1>14, <3>2
    <3>. QED BY <1>16, <3>1, <3>2
  <2>. QED BY <2>1, <2>2 DEF ClientSide
<1>22. PoolSide'
  <2>1. ASSUME NEW x \in DOMAIN pool
        PROVE  /\ x \in DOMAIN clients' /\ clients'[x].phase = "registered"
               /\ clients'[x].conn = pool[x] /\ conns'[pool[x]].server # "new"
    <3>1. /\ x \in DOMAIN clients /\ clients[x].phase = "registered" /\ clients[x].conn = pool[x]
          /\ pool[x] \in Conns /\ conns[pool[x]].server # "new" /\ conns[pool[x]] # Free
      BY <2>1, InPool, LinkFields
    <3>2. x \notin batch
      BY <1>8, <3>1
    <3>3. conns'[pool[x]] = conns[pool[x]]
      BY <1>9, <1>11, <3>1
    <3>. QED BY <1>14, <3>1, <3>2, <3>3
  <2>. QED BY <1>1, <2>1 DEF PoolSide
<1>23. QueueSide'
  <2>1. ASSUME NEW x \in Peers
        PROVE  Has(list', x) <=> (x \in DOMAIN clients' /\ clients'[x].phase = "queued")
    <3>1. CASE x \in batch
      BY <1>7, <1>14, <3>1
    <3>2. CASE x \notin batch
      BY <1>7, <1>14, <3>2 DEF LInv, Structure, QueueSide
    <3>. QED BY <3>1, <3>2
  <2>. QED BY <1>7, <2>1 DEF QueueSide
<1>24. OutOrder' /\ BackOrder'
  <2>1. ASSUME NEW d \in Conns, conns'[d] # Free PROVE LinkAddsNone(d) \/ LinkEmpty(d)
    <3>1. CASE conns'[d] = conns[d]
      BY <2>1, <3>1 DEF LinkAddsNone
    <3>2. CASE \E p \in batch : conn[p] = d /\ conns'[d] = Begun(p, d)
      BY <1>12, <3>2 DEF LinkEmpty
    <3>. QED BY <1>16, <3>1, <3>2
  <2>2. \A x \in DOMAIN clients' : x \in DOMAIN clients /\ clients'[x].sendArr = clients[x].sendArr
    BY <1>14
  <2>3. NoneAdded
    BY <1>1, <2>1, <2>2 DEF NoneAdded
  <2>. QED BY <1>20, <2>3, NoneAddedOrder
<1>. QED BY <1>18, <1>19, <1>20, <1>21, <1>22, <1>23, <1>24 DEF LInv, Structure

(***************************************************************************)
(* The invariant holds.                                                    *)
(***************************************************************************)

LEMMA InitInv == Init => LInv
<1> SUFFICES ASSUME Init PROVE LInv
  OBVIOUS
<1>1. /\ clients = <<>> /\ pool = <<>> /\ list = <<>> /\ tmpCntList = <<>>
      /\ \A c \in Conns : conns[c] = Free
      /\ \A p \in Peers : peerPool[p] = NoConn
      /\ conns = [c \in Conns |-> Free] /\ peerPool = [p \in Peers |-> NoConn]
      /\ addr = [p \in Peers |-> CHOOSE a \in Addrs : TRUE]
      /\ sent = [p \in Peers |-> [out |-> 0, back |-> 0]]
      /\ got = [p \in Peers |-> [out |-> 0, back |-> 0]]
  BY DEF Init
<1>2. (CHOOSE a \in Addrs : TRUE) \in Addrs
  BY LinkAssumption DEF LinkAssumption
<1>3. Types
  <2>1. ClientsOK
    BY <1>1, EmptyMap DEF ClientsOK
  <2>2. ConnsOK
    BY <1>1 DEF ConnsOK
  <2>3. PeersOK
    BY <1>1, <1>2 DEF PeersOK
  <2>4. CountsOK /\ QueueOK
    BY <1>1 DEF CountsOK, QueueOK
  <2>. QED BY <2>1, <2>2, <2>3, <2>4 DEF Types
<1>4. DOMAIN clients = {} /\ DOMAIN pool = {} /\ \A x : ~Has(list, x)
  <2>1. DOMAIN clients = {} /\ DOMAIN pool = {} /\ DOMAIN list = {}
    BY <1>1
  <2>. QED BY <2>1 DEF Has
<1>5. Free.client = "closed" /\ Free.server = "closed"
  BY DEF Free
<1>6. Structure
  <2>1. ClientSide /\ PoolSide
    BY <1>1, <1>4, <1>5 DEF ClientSide, PoolSide
  <2>2. PeerSide /\ WireSide
    BY <1>1, <1>5 DEF PeerSide, WireSide
  <2>3. QueueSide
    BY <1>1, <1>4 DEF QueueSide, Once
  <2>. QED BY <2>1, <2>2, <2>3 DEF Structure
<1>7. OutOrder /\ BackOrder
  BY <1>1, <1>4 DEF OutOrder, BackOrder
<1>. QED BY <1>3, <1>6, <1>7 DEF LInv

LEMMA StutterStep == ASSUME LInv, UNCHANGED vars PROVE LInv'
<1>1. UNCHANGED <<clients, pool, list, tmpCntList, conns, peerPool, addr, sent, got>>
  BY DEF vars, clientVars, queueVars, peerVars, msgVars
<1>2. Types'
  BY <1>1 DEF LInv, Types, ClientsOK, QueueOK, ConnsOK, PeersOK, CountsOK
<1>3. Structure'
  BY <1>1 DEF LInv, Structure, ClientSide, PoolSide, PeerSide, QueueSide, WireSide
<1>4. OutOrder' /\ BackOrder'
  BY <1>1 DEF LInv, OutOrder, BackOrder
<1>. QED BY <1>2, <1>3, <1>4 DEF LInv

LEMMA ConnectFailsStep == ASSUME LInv, NEW c \in Conns, ConnectFails(c) PROVE LInv'
<1>1. UNCHANGED <<crashed, queueVars, peerVars, msgVars>>
  BY DEF ConnectFails
<1>2. CASE conns[c].client = "connecting" /\ ClientClosed(c)
  BY <1>1, <1>2, ClientClosedStep
<1>3. CASE /\ conns[c].client = "orphan" /\ conns' = [conns EXCEPT ![c] = Free]
           /\ UNCHANGED <<clients, pool>>
  BY <1>1, <1>3, OrphanFailsStep DEF clientVars
<1>. QED BY <1>2, <1>3 DEF ConnectFails

LEMMA NextInv == ASSUME LInv, [Next]_vars PROVE LInv'
<1>1. CASE UNCHANGED vars
  BY <1>1, StutterStep
<1>2. CASE Check
  BY <1>2, CheckStep
<1>3. ASSUME NEW p \in Peers, Learn(p) PROVE LInv'
  <2>1. addr[p] \in Addrs
    BY DEF LInv, Types, PeersOK
  <2>. QED BY <1>3, <2>1, AddRpcClientStep DEF Learn
<1>4. ASSUME NEW p \in Peers, NEW a \in Addrs, LearnStale(p, a) PROVE LInv'
  BY <1>4, AddRpcClientStep DEF LearnStale
<1>5. ASSUME NEW p \in Peers,
             \/ RemoveRpcClient(p) \/ LineUp(p)
             \/ Send(p) \/ SendInterval(p) \/ PeerSend(p) \/ PeerSendInterval(p)
      PROVE  LInv'
  BY <1>5, RemoveRpcClientStep, LineUpStep, SendStep, SendIntervalStep, PeerSendStep,
     PeerSendIntervalStep
<1>6. ASSUME NEW p \in Peers, NEW a \in Addrs, PeerRestart(p, a) PROVE LInv'
  BY <1>6, PeerRestartStep
<1>7. ASSUME NEW c \in Conns, ClientOnClose(c) PROVE LInv'
  BY <1>7, ClientClosedStep DEF ClientOnClose
<1>8. ASSUME NEW c \in Conns, PeerOnClose(c) PROVE LInv'
  BY <1>8, PeerClosedStep DEF PeerOnClose
<1>9. ASSUME NEW c \in Conns,
             \/ Connected(c) \/ ConnectedOrphan(c) \/ ConnectFails(c) \/ ClientOnData(c)
             \/ PeerRegister(c) \/ PeerOnData(c) \/ Cut(c)
      PROVE  LInv'
  BY <1>9, ConnectedStep, ConnectedOrphanStep, ConnectFailsStep, ClientOnDataStep,
     PeerRegisterStep, PeerOnDataStep, CutStep
<1>. QED BY <1>1, <1>2, <1>3, <1>4, <1>5, <1>6, <1>7, <1>8, <1>9 DEF Next

\* The queues, the sockets, the pools and the wires agree, always.
THEOREM LinkInvariance == Spec => []LInv
<1>1. LinkAssumption
  BY LinkAssumption
<1>. QED BY <1>1, InitInv, NextInv, PTL DEF Spec

(***************************************************************************)
(* What follows from it.                                                   *)
(***************************************************************************)

\* The places of a peer in a sequence that has each once.
LEMMA PlacesOnce ==
    ASSUME NEW s, Once(s), NEW x
    PROVE  Cardinality({i \in DOMAIN s : s[i] = x}) = IF Has(s, x) THEN 1 ELSE 0
<1>1. CASE Has(s, x)
  <2>1. PICK i \in DOMAIN s : s[i] = x
    BY <1>1 DEF Has
  <2>2. {j \in DOMAIN s : s[j] = x} = {i}
    BY <2>1 DEF Once
  <2>. QED BY <1>1, <2>2, FS_Singleton
<1>2. CASE ~Has(s, x)
  <2>1. {j \in DOMAIN s : s[j] = x} = {}
    BY <1>2 DEF Has
  <2>. QED BY <1>2, <2>1, FS_EmptySet
<1>. QED BY <1>1, <1>2

LEMMA InvOneLink == LInv => OneLink
<1> SUFFICES ASSUME LInv PROVE OneLink
  OBVIOUS
<1>1. ASSUME NEW p \in DOMAIN pool
      PROVE  /\ p \in DOMAIN clients /\ clients[p].phase = "registered"
             /\ clients[p].conn = pool[p]
             /\ conns[pool[p]].client = "open" /\ conns[pool[p]].addr = clients[p].addr
  <2>1. /\ p \in DOMAIN clients /\ clients[p].phase = "registered"
        /\ clients[p].conn = pool[p]
    BY <1>1 DEF LInv, Structure, PoolSide
  <2>2. InUse(clients[p].phase) /\ clients[p].phase # "connecting"
    BY <2>1 DEF InUse
  <2>. QED BY <2>1, <2>2 DEF LInv, Structure, ClientSide
<1>2. ASSUME NEW c \in Conns
      PROVE  /\ conns[c].client \in {"connecting", "open"} =>
                   conns[c].peer \in DOMAIN clients /\ clients[conns[c].peer].conn = c
             /\ conns[c].server = "registered" => peerPool[conns[c].peer] = c
  BY DEF LInv, Structure, ClientSide, PeerSide
<1>3. ASSUME NEW p \in Peers
      PROVE  /\ peerPool[p] # NoConn => conns[peerPool[p]].server = "registered"
             /\ Cardinality({i \in DOMAIN list : list[i] = p})
                   = IF p \in DOMAIN clients /\ clients[p].phase = "queued" THEN 1 ELSE 0
  <2>1. Once(list)
        /\ (Has(list, p) <=> p \in DOMAIN clients /\ clients[p].phase = "queued")
    BY DEF LInv, Structure, QueueSide
  <2>2. peerPool[p] # NoConn => conns[peerPool[p]].server = "registered"
    BY DEF LInv, Structure, PeerSide
  <2>. QED BY <2>1, <2>2, PlacesOnce
<1>. QED BY <1>1, <1>2, <1>3 DEF OneLink

\* Each end has at most one connection in use with the other, whatever is
\* removed, replaced, restarted or half open (rpcClient.ts remove, onClose;
\* rpcServer.ts registerHandle, onClose).
THEOREM OneLinkAlways == Spec => []OneLink
<1>1. LInv => OneLink
  BY InvOneLink
<1>. QED BY <1>1, LinkInvariance, PTL

\* What a step does to the messages received.
Onward ==
    \A p \in Peers : /\ got'[p].out # got[p].out => got'[p].out > got[p].out
                     /\ got'[p].back # got[p].back => got'[p].back > got[p].back

LEMMA StepOnward == ASSUME LInv, [Next]_vars PROVE Onward
<1>1. CASE got' = got
  BY <1>1 DEF Onward
<1>2. ASSUME NEW c \in Conns, ClientOnData(c) PROVE Onward
  BY <1>2, ClientOnDataStep DEF Onward
<1>3. ASSUME NEW c \in Conns, PeerOnData(c) PROVE Onward
  BY <1>3, PeerOnDataStep DEF Onward
<1>4. CASE UNCHANGED vars
  BY <1>1, <1>4 DEF vars, msgVars
<1>5. CASE Check
  BY <1>1, <1>5 DEF Check, msgVars
<1>6. ASSUME NEW p \in Peers,
             \/ Learn(p) \/ RemoveRpcClient(p) \/ LineUp(p)
             \/ Send(p) \/ SendInterval(p) \/ PeerSend(p) \/ PeerSendInterval(p)
             \/ \E a \in Addrs : LearnStale(p, a) \/ PeerRestart(p, a)
      PROVE  Onward
  <2>1. got' = got
    BY <1>6 DEF Learn, LearnStale, AddRpcClient, RemoveRpcClient, LineUp, Send, SendInterval,
       PeerSend, PeerSendInterval, PeerRestart, msgVars
  <2>. QED BY <1>1, <2>1
<1>7. ASSUME NEW c \in Conns,
             \/ Connected(c) \/ ConnectedOrphan(c) \/ ConnectFails(c) \/ ClientOnClose(c)
             \/ PeerRegister(c) \/ PeerOnClose(c) \/ Cut(c)
      PROVE  Onward
  <2>1. got' = got
    BY <1>7 DEF Connected, ConnectedOrphan, ConnectFails, ClientOnClose, PeerRegister,
       PeerOnClose, Cut, msgVars
  <2>. QED BY <1>1, <2>1
<1>. QED BY <1>2, <1>3, <1>4, <1>5, <1>6, <1>7 DEF Next

\* What RpcService assumes of the wire: messages of either direction arrive at
\* most once and in order, across every reconnection (rpcClient.ts sendArr,
\* onClose; rpcServer.ts).
THEOREM ArrivesInOrder == Spec => InOrder
<1>1. LInv /\ [Next]_vars => [Onward]_vars
  BY StepOnward
<1>2. [][Onward]_vars <=> InOrder
  BY DEF Onward, InOrder
<1>. QED BY <1>1, <1>2, LinkInvariance, PTL DEF Spec

(***************************************************************************)
(* The rate at which connections are begun.                                *)
(***************************************************************************)

Total(b, s) == FoldLeft(LAMBDA x, y : x + y, b, s)

\* FoldLeft is a recursion over the sets of positions, defined by its equation.
LEMMA TotalDef ==
  ASSUME NEW b, NEW s
  PROVE Total(b, s) = (CHOOSE g : g = [S \in SUBSET DOMAIN s |-> IF S = {} THEN b ELSE
           g[S \ {Max(S)}] + s[Max(S)]])[DOMAIN s]
BY DEF Total, FoldLeft, MapThenFoldSet

\* What it computes: the terms in units.
LEMMA TotalIs ==
    ASSUME NEW b \in Nat, NEW s \in Seq(Nat)
    PROVE  /\ Total(b, s) = b + Cardinality(Units(s, DOMAIN s))
           /\ IsFiniteSet(Units(s, DOMAIN s))
<1>1. PICK n, D : n = Len(s) /\ D = DOMAIN s /\ D = 1..n /\ n \in Nat
  OBVIOUS
<1>2. IsFiniteSet(D) /\ s \in [D -> Nat]
  <2>1. IsFiniteSet(1..n)
    BY <1>1, FS_Interval
  <2>2. s \in [DOMAIN s -> Nat]
    OBVIOUS
  <2>. QED BY <1>1, <2>1, <2>2
<1>3. PICK w, g :
         /\ w = [S \in SUBSET D |-> b + Cardinality(Units(s, S))]
         /\ g = CHOOSE h : h = [S \in SUBSET D |-> IF S = {} THEN b ELSE
                    h[S \ {Max(S)}] + s[Max(S)]]
  OBVIOUS
<1>4. Total(b, s) = g[D]
  BY <1>1, <1>3, TotalDef
<1>5. ASSUME NEW S \in SUBSET D
      PROVE  IsFiniteSet(Units(s, S)) /\ Cardinality(Units(s, S)) \in Nat
  <2>1. IsFiniteSet(S)
    BY <1>2, FS_Subset
  <2>. QED BY <1>2, <2>1, UnitsFinite, FS_CardinalityType
<1>6. ASSUME NEW S \in SUBSET D
      PROVE  w[S] = IF S = {} THEN b ELSE w[S \ {Max(S)}] + s[Max(S)]
  <2>1. CASE S = {}
    <3>1. Units(s, {}) = {}
      BY DEF Units
    <3>2. w[{}] = b
      <4>1. w[{}] = b + Cardinality(Units(s, {}))
        BY <1>3
      <4>2. Cardinality({}) = 0
        BY FS_EmptySet
      <4>3. Cardinality(Units(s, {})) = 0
        BY <3>1, <4>2
      <4>4. \A x : x = 0 => b + x = b
        OBVIOUS
      <4>. QED BY <4>1, <4>3, <4>4
    <3>. QED BY <2>1, <3>2
  <2>2. CASE S # {}
    <3>1. PICK m : m = Max(S) /\ m \in S
      BY <1>1, <2>2, Largest
    <3>2. PICK T : T = S \ {m} /\ T \in SUBSET D
      OBVIOUS
    <3>3. Cardinality(Units(s, S)) = s[m] + Cardinality(Units(s, T))
      BY <1>2, <1>5, <3>1, <3>2, UnitsStep
    <3>4. w[S] = b + Cardinality(Units(s, S)) /\ w[T] = b + Cardinality(Units(s, T))
      BY <1>3, <3>2
    <3>5. s[m] \in Nat /\ Cardinality(Units(s, T)) \in Nat
      BY <1>2, <1>5, <3>1, <3>2
    <3>6. w[S] = w[T] + s[m]
      BY <3>3, <3>4, <3>5
    <3>. QED BY <2>2, <3>1, <3>2, <3>6
  <2>. QED BY <2>1, <2>2
<1>7. w = [S \in SUBSET D |-> IF S = {} THEN b ELSE w[S \ {Max(S)}] + s[Max(S)]]
  BY <1>3, <1>6
<1>8. g = [S \in SUBSET D |-> IF S = {} THEN b ELSE g[S \ {Max(S)}] + s[Max(S)]]
  <2>1. \E h : h = [S \in SUBSET D |-> IF S = {} THEN b ELSE h[S \ {Max(S)}] + s[Max(S)]]
    BY <1>7
  <2>2. LET R(h) == h = [S \in SUBSET D |-> IF S = {} THEN b ELSE h[S \ {Max(S)}] + s[Max(S)]]
        IN  (\E h : R(h)) => R(CHOOSE h : R(h))
    BY Zenon
  <2>. QED BY <1>3, <2>1, <2>2
<1>9. PICK Bad : Bad = {k \in Nat : \E S \in SUBSET D : Cardinality(S) = k /\ g[S] # w[S]}
  OBVIOUS
<1>10. Bad = {}
  <2> SUFFICES ASSUME Bad # {} PROVE FALSE
    OBVIOUS
  <2>1. PICK k : k \in Bad /\ \A l \in Bad : k <= l
    BY <1>9, Least
  <2>2. PICK S \in SUBSET D : Cardinality(S) = k /\ g[S] # w[S] /\ k \in Nat
    BY <1>9, <2>1
  <2>3. S # {}
    <3>1. g[{}] = b /\ w[{}] = b
      BY <1>6, <1>8
    <3>. QED BY <2>2, <3>1
  <2>4. PICK m : m = Max(S) /\ m \in S
    BY <1>1, <2>3, Largest
  <2>5. Cardinality(S \ {m}) = k - 1 /\ Cardinality(S \ {m}) \in Nat
    <3>1. IsFiniteSet(S)
      BY <1>2, FS_Subset
    <3>. QED BY <2>2, <2>4, <3>1, FS_RemoveElement, FS_CardinalityType
  <2>6. g[S \ {m}] = w[S \ {m}]
    <3>1. k - 1 \notin Bad /\ k - 1 \in Nat
      BY <2>1, <2>2, <2>5
    <3>. QED BY <1>9, <2>5, <3>1
  <2>7. g[S] = g[S \ {m}] + s[m]
    BY <1>8, <2>3, <2>4
  <2>8. w[S] = w[S \ {m}] + s[m]
    BY <1>6, <2>3, <2>4
  <2>. QED BY <2>2, <2>6, <2>7, <2>8
<1>11. g[D] = w[D]
  <2>1. Cardinality(D) \in Nat
    BY <1>2, FS_CardinalityType
  <2>. QED BY <1>9, <1>10, <2>1
<1>12. w[D] = b + Cardinality(Units(s, D)) /\ IsFiniteSet(Units(s, D))
  BY <1>3, <1>5
<1>. QED BY <1>1, <1>4, <1>11, <1>12

\* The place in CntList of the check z, counted down from the place of the
\* next one to be.
Place(z) == IF z <= Frame THEN z ELSE z - Frame
NextPlace == IF Len(tmpCntList) = 0 THEN Frame ELSE Len(tmpCntList)

\* What the last checks began is within the places of CntList that they used,
\* those that follow the next one's, one round at most.
RateInv ==
    /\ Len(tmpCntList) <= Frame /\ \A i \in 1..Len(tmpCntList) : tmpCntList[i] = CntList[i]
    /\ recent \in Seq(Nat) /\ Len(recent) < Frame
    /\ \A i \in 1..Len(recent) : recent[i] <= CntList[Place((NextPlace + (Len(recent) + 1)) - i)]

\* The units of CntList, numbered row by row.
LEMMA SlotIn ==
    ASSUME NEW z \in 1..Frame, NEW j \in Nat, j < CntList[z]
    PROVE  j * Frame + z \in 1..SocketPerSecond
<1>1. PICK f, s, q, m : /\ f = Frame /\ s = SocketPerSecond /\ q = s \div f /\ m = s % f
  OBVIOUS
<1>2. f \in Nat /\ f >= 1 /\ s \in Nat
  BY <1>1, LinkAssumption
<1>3. q \in Nat /\ m \in 0..f - 1 /\ s = q * f + m
  BY <1>1, <1>2
<1>4. CntList[z] = q + (IF z <= m THEN 1 ELSE 0)
  BY <1>1 DEF CntList
<1>5. j * f \in Nat /\ q * f \in Nat
  BY <1>2, <1>3
<1>6. CASE j < q
  <2>1. PICK d \in Nat : q = (j + 1) + d
    <3>1. q - (j + 1) \in Nat
      BY <1>3, <1>6
    <3>. QED BY <1>3, <3>1
  <2>2. q * f = (j * f + f) + d * f /\ d * f \in Nat
    BY <1>2, <2>1
  <2>. QED BY <1>1, <1>2, <1>3, <1>5, <2>2
<1>7. CASE ~(j < q)
  <2>1. j = q /\ z <= m
    BY <1>3, <1>4, <1>7
  <2>. QED BY <1>1, <1>2, <1>3, <1>5, <2>1
<1>. QED BY <1>6, <1>7

LEMMA SlotOne ==
    ASSUME NEW f \in Nat, NEW j \in Nat, NEW k \in Nat, NEW z \in 1..f, NEW y \in 1..f,
           j * f + z = k * f + y
    PROVE  j = k /\ z = y
<1>1. ASSUME NEW a \in Nat, NEW b \in Nat, NEW v \in 1..f, NEW w \in 1..f, a < b
      PROVE  a * f + v < b * f + w
  <2>1. PICK d \in Nat : b = (a + 1) + d
    <3>1. b - (a + 1) \in Nat
      BY <1>1
    <3>. QED BY <3>1
  <2>2. b * f = (a * f + f) + d * f /\ d * f \in Nat /\ a * f \in Nat
    BY <2>1
  <2>3. a * f + v <= a * f + f
    BY <2>2
  <2>. QED BY <2>2, <2>3
<1>2. j = k
  <2>1. ~(j < k) /\ ~(k < j)
    <3>1. j * f + z \in Nat
      OBVIOUS
    <3>. QED BY <1>1, <3>1
  <2>. QED BY <2>1
<1>3. j * f \in Nat
  OBVIOUS
<1>. QED BY <1>2, <1>3

\* What is begun in one round fits.
LEMMA RoundFits ==
    ASSUME NEW e \in Seq(Nat), Len(e) <= Frame, NEW p \in 1..Frame,
           \A i \in 1..Len(e) : e[i] <= CntList[Place((p + Len(e)) - i)]
    PROVE  Cardinality(Units(e, DOMAIN e)) <= SocketPerSecond
<1>1. PICK f, s, l, U : /\ f = Frame /\ s = SocketPerSecond /\ l = Len(e)
                        /\ U = Units(e, DOMAIN e)
  OBVIOUS
<1>2. /\ f \in Nat /\ f >= 1 /\ s \in Nat /\ l \in Nat /\ l <= f
      /\ DOMAIN e = 1..l /\ p \in 1..f
  BY <1>1, LinkAssumption
<1>3. PICK h : h = [u \in U |-> u[2] * f + Place((p + l) - u[1])]
  OBVIOUS
<1>4. ASSUME NEW u \in U
      PROVE  /\ u = <<u[1], u[2]>> /\ u[1] \in 1..l /\ u[2] \in Nat
             /\ Place((p + l) - u[1]) \in 1..f
             /\ h[u] \in 1..s /\ h[u] = u[2] * f + Place((p + l) - u[1])
  <2>1. PICK i, j : u = <<i, j>> /\ i \in 1..l /\ j \in Nat /\ j < e[i]
    BY <1>1, <1>2 DEF Units
  <2>2. PICK z : z = Place((p + l) - i)
    OBVIOUS
  <2>3. z \in 1..f
    BY <1>1, <1>2, <2>1, <2>2 DEF Place
  <2>4. e[i] \in Nat /\ e[i] <= CntList[z]
    BY <1>1, <1>2, <2>1, <2>2
  <2>5. CntList[z] \in Nat
    BY <1>1, <2>3, CntListType
  <2>6. j < CntList[z]
    BY <2>1, <2>4, <2>5
  <2>7. j * f + z \in 1..s
    BY <1>1, <2>1, <2>3, <2>6, SlotIn
  <2>. QED BY <1>3, <2>1, <2>2, <2>3, <2>7
<1>5. ASSUME NEW u \in U, NEW v \in U, h[u] = h[v]
      PROVE  u = v
  <2>1. PICK z, y : z = Place((p + l) - u[1]) /\ y = Place((p + l) - v[1])
    OBVIOUS
  <2>2. u[2] * f + z = v[2] * f + y /\ z \in 1..f /\ y \in 1..f
    BY <1>4, <1>5, <2>1
  <2>3. u[2] \in Nat /\ v[2] \in Nat
    BY <1>4
  <2>4. u[2] = v[2] /\ z = y
    <3>1. PICK j, k : j = u[2] /\ k = v[2]
      OBVIOUS
    <3>2. j \in Nat /\ k \in Nat /\ j * f + z = k * f + y /\ z \in 1..f /\ y \in 1..f
      BY <2>2, <2>3, <3>1
    <3>3. j = k /\ z = y
      BY ONLY <1>2, <3>2, SlotOne
    <3>. QED BY <3>1, <3>3
  <2>5. u[1] = v[1]
    <3>1. PICK i, k : i = u[1] /\ k = v[1] /\ i \in 1..l /\ k \in 1..l
      BY <1>4
    <3>2. Place((p + l) - i) = Place((p + l) - k)
      BY <2>1, <2>4, <3>1
    <3>3. i = k
      BY ONLY <1>1, <1>2, <3>1, <3>2 DEF Place
    <3>. QED BY <3>1, <3>3
  <2>. QED BY <1>4, <2>4, <2>5
<1>6. h \in Injection(U, 1..s)
  <2>1. h \in [U -> 1..s]
    BY <1>3, <1>4
  <2>. QED BY <1>5, <2>1 DEF Injection, IsInjective
<1>7. IsFiniteSet(1..s) /\ Cardinality(1..s) = s
  <2>1. s \in Int /\ (IF 1 > s THEN 0 ELSE s - 1 + 1) = s
    BY <1>2
  <2>2. IsFiniteSet(1..s) /\ Cardinality(1..s) = IF 1 > s THEN 0 ELSE s - 1 + 1
    BY <2>1, FS_Interval
  <2>. QED BY <2>1, <2>2
<1>8. Cardinality(U) <= Cardinality(1..s)
  BY <1>6, <1>7, FS_Injection
<1>. QED BY <1>1, <1>7, <1>8

\* The number that a check begins, and what it leaves of the queue of numbers.
LEMMA CheckCounts ==
    ASSUME LInv, RateInv, Check
    PROVE  \E n, batch :
              /\ n \in Nat /\ n <= CntList[NextPlace]
              /\ recent' = IF Len(Append(recent, n)) < Frame THEN Append(recent, n)
                           ELSE Tail(Append(recent, n))
              /\ IsFiniteSet(batch) /\ Cardinality(batch) <= n
              /\ \A p \in DOMAIN clients \ batch : clients'[p] = clients[p]
              /\ DOMAIN clients' = DOMAIN clients
              /\ Len(tmpCntList') = NextPlace - 1
              /\ \A i \in 1..NextPlace - 1 : tmpCntList'[i] = CntList[i]
<1> DEFINE cnts == IF tmpCntList = <<>> THEN CntList ELSE tmpCntList
           n == IF Last(cnts) < Len(list) THEN Last(cnts) ELSE Len(list)
           batch == {list[i] : i \in 1..n}
<1>1. /\ cnts = (IF tmpCntList = <<>> THEN CntList ELSE tmpCntList)
      /\ n = (IF Last(cnts) < Len(list) THEN Last(cnts) ELSE Len(list))
      /\ batch = {list[i] : i \in 1..n}
  OBVIOUS
<1>2. /\ tmpCntList' = Front(cnts)
      /\ recent' = IF Len(Append(recent, n)) < Frame THEN Append(recent, n)
                   ELSE Tail(Append(recent, n))
      /\ \E conn \in [batch -> FreeConns] :
            clients' = [p \in DOMAIN clients |->
               IF p \in batch THEN [clients[p] EXCEPT !.phase = "connecting", !.conn = conn[p]]
               ELSE clients[p]]
  BY DEF Check
<1> HIDE DEF cnts, n, batch
<1>3. PICK k : k = NextPlace
  OBVIOUS
<1>4. /\ cnts \in Seq(Nat) /\ Len(cnts) = k /\ k \in 1..Frame
      /\ \A i \in 1..k : cnts[i] = CntList[i]
  <2>1. tmpCntList \in Seq(Nat) /\ CntList \in Seq(Nat) /\ CntList \in [1..Frame -> Nat]
    BY CntListType DEF LInv, Types, QueueOK
  <2>2. Frame \in Nat /\ Frame >= 1
    BY LinkAssumption
  <2>3. CASE tmpCntList = <<>>
    <3>1. Len(CntList) = Frame
      BY <2>1, <2>2
    <3>2. Len(tmpCntList) = 0
      BY <2>3
    <3>. QED BY <1>1, <1>3, <2>1, <2>2, <2>3, <3>1, <3>2 DEF NextPlace
  <2>4. CASE tmpCntList # <<>>
    <3>1. Len(tmpCntList) # 0 /\ Len(tmpCntList) \in Nat
      BY <2>1, <2>4
    <3>2. cnts = tmpCntList /\ k = Len(tmpCntList)
      BY <1>1, <1>3, <2>4, <3>1 DEF NextPlace
    <3>3. Len(tmpCntList) <= Frame /\ \A i \in 1..Len(tmpCntList) : tmpCntList[i] = CntList[i]
      BY DEF RateInv
    <3>. QED BY <2>1, <2>2, <3>1, <3>2, <3>3
  <2>. QED BY <2>3, <2>4
<1>5. Last(cnts) = CntList[k] /\ Last(cnts) \in Nat
  BY <1>4 DEF Last
<1>6. Len(list) \in Nat
  BY DEF LInv, Types, QueueOK
<1>7. n \in Nat /\ n <= CntList[k]
  BY <1>1, <1>5, <1>6
<1>8. IsFiniteSet(batch) /\ Cardinality(batch) <= n
  <2>1. PICK g : g = [i \in 1..n |-> list[i]]
    OBVIOUS
  <2>2. IsFiniteSet(1..n) /\ Cardinality(1..n) = n
    <3>1. n \in Int /\ (IF 1 > n THEN 0 ELSE n - 1 + 1) = n
      BY <1>7
    <3>2. IsFiniteSet(1..n) /\ Cardinality(1..n) = IF 1 > n THEN 0 ELSE n - 1 + 1
      BY <3>1, FS_Interval
    <3>. QED BY <3>1, <3>2
  <2>3. g \in Surjection(1..n, batch)
    BY <1>1, <2>1 DEF Surjection
  <2>. QED BY <2>2, <2>3, FS_Surjection
<1>9. Len(tmpCntList') = k - 1 /\ \A i \in 1..k - 1 : tmpCntList'[i] = CntList[i]
  <2>1. Front(cnts) = SubSeq(cnts, 1, k - 1)
    BY <1>4 DEF Front
  <2>2. k \in Nat /\ k >= 1
    BY <1>4, LinkAssumption
  <2>3. PICK t : t = SubSeq(cnts, 1, k - 1)
    OBVIOUS
  <2>4. Len(t) = k - 1 /\ \A i \in 1..k - 1 : t[i] = cnts[i]
    BY <1>4, <2>2, <2>3
  <2>5. \A i \in 1..k - 1 : cnts[i] = CntList[i]
    BY <1>4, <2>2
  <2>. QED BY <1>2, <2>1, <2>3, <2>4, <2>5
<1>10. /\ \A p \in DOMAIN clients \ batch : clients'[p] = clients[p]
       /\ DOMAIN clients' = DOMAIN clients
  BY <1>2
<1>. QED BY <1>2, <1>3, <1>7, <1>8, <1>9, <1>10

\* The number of a check takes its place in the round.
LEMMA WithinRound ==
    ASSUME RateInv, NEW n \in Nat, n <= CntList[NextPlace]
    PROVE  LET e == Append(recent, n)
           IN  /\ e \in Seq(Nat) /\ Len(e) <= Frame /\ NextPlace \in 1..Frame
               /\ \A i \in 1..Len(e) : e[i] <= CntList[Place((NextPlace + Len(e)) - i)]
<1>1. PICK e, l, k, f : e = Append(recent, n) /\ l = Len(recent) /\ k = NextPlace /\ f = Frame
  OBVIOUS
<1>2. f \in Nat /\ f >= 1 /\ l \in Nat /\ l < f /\ k \in 1..f
  <2>1. Len(tmpCntList) \in Nat
    BY LenProperties DEF RateInv
  <2>. QED BY <1>1, <2>1, LinkAssumption DEF RateInv, NextPlace
<1>3. /\ e \in Seq(Nat) /\ Len(e) = l + 1 /\ e[l + 1] = n
      /\ \A i \in 1..l : e[i] = recent[i]
  BY <1>1, <1>2 DEF RateInv
<1>4. ASSUME NEW i \in 1..l + 1
      PROVE  e[i] <= CntList[Place((k + (l + 1)) - i)]
  <2>1. CASE i = l + 1
    <3>1. Place((k + (l + 1)) - i) = k
      BY <1>1, <1>2, <2>1 DEF Place
    <3>. QED BY <1>1, <1>3, <2>1, <3>1
  <2>2. CASE i # l + 1
    <3>1. i \in 1..l
      BY <1>2, <2>2
    <3>. QED BY <1>1, <1>3, <3>1 DEF RateInv
  <2>. QED BY <2>1, <2>2
<1>. QED BY <1>1, <1>2, <1>3, <1>4

LEMMA RateCheckStep ==
    ASSUME LInv, RateInv, Check
    PROVE  RateInv'
<1>1. PICK n \in Nat :
         /\ n <= CntList[NextPlace]
         /\ recent' = IF Len(Append(recent, n)) < Frame THEN Append(recent, n)
                      ELSE Tail(Append(recent, n))
         /\ Len(tmpCntList') = NextPlace - 1
         /\ \A i \in 1..NextPlace - 1 : tmpCntList'[i] = CntList[i]
  BY CheckCounts
<1>2. PICK e, l, k, f, r : /\ e = Append(recent, n) /\ l = Len(e) /\ k = NextPlace /\ f = Frame
                           /\ r = recent'
  OBVIOUS
<1>3. /\ e \in Seq(Nat) /\ l \in Nat /\ l <= f /\ k \in 1..f /\ f \in Nat /\ f >= 1
      /\ \A i \in 1..l : e[i] <= CntList[Place((k + l) - i)]
  BY <1>1, <1>2, WithinRound, LenProperties, LinkAssumption
<1>4. e # <<>> /\ r = IF l < f THEN e ELSE Tail(e)
  BY <1>1, <1>2
<1>5. PICK m : m = NextPlace' /\ m = IF k = 1 THEN f ELSE k - 1
  BY <1>1, <1>2, <1>3 DEF NextPlace
<1>6. \A x \in 1..f : Place(m + x) = Place((k + x) - 1)
  BY <1>2, <1>3, <1>5 DEF Place
<1>7. /\ r \in Seq(Nat) /\ Len(r) < f
      /\ \A i \in 1..Len(r) : r[i] <= CntList[Place((m + (Len(r) + 1)) - i)]
  <2>1. CASE l < f
    <3>1. ASSUME NEW i \in 1..l
          PROVE  Place((m + (l + 1)) - i) = Place((k + l) - i)
      <4>1. PICK x \in 1..f : x = (l + 1) - i
        BY <1>3, <2>1, <3>1
      <4>2. /\ (m + (l + 1)) - i = m + x /\ (k + l) - i = (k + x) - 1
        BY <1>3, <1>5, <4>1
      <4>. QED BY <1>6, <4>1, <4>2
    <3>. QED BY <1>2, <1>3, <1>4, <2>1, <3>1
  <2>2. CASE ~(l < f)
    <3>1. l = f /\ r = Tail(e)
      BY <1>3, <1>4, <2>2
    <3>2. /\ r \in Seq(Nat) /\ Len(r) = l - 1
          /\ \A i \in 1..l - 1 : r[i] = e[i + 1] /\ i + 1 \in 1..l
      <4>1. e \in Seq(Nat) /\ e # <<>> /\ r = Tail(e) /\ l = Len(e) /\ l \in Nat
        BY <1>2, <1>3, <1>4, <3>1
      <4>2. r \in Seq(Nat) /\ Len(r) = l - 1
        BY ONLY <4>1
      <4>3. \A i \in 1..l - 1 : i + 1 \in 1..l
        BY <4>1
      <4>4. \A i \in 1..l - 1 : r[i] = e[i + 1]
        BY ONLY <4>1
      <4>. QED BY <4>2, <4>3, <4>4
    <3>3. ASSUME NEW i \in 1..l - 1
          PROVE  Place((m + l) - i) = Place((k + l) - (i + 1))
      <4>1. PICK x \in 1..f : x = l - i
        BY <1>3, <3>1, <3>3
      <4>2. /\ (m + l) - i = m + x /\ (k + l) - (i + 1) = (k + x) - 1
        BY <1>3, <1>5, <4>1
      <4>. QED BY <1>6, <4>1, <4>2
    <3>. QED BY <1>3, <3>1, <3>2, <3>3
  <2>. QED BY <2>1, <2>2
<1>8. Len(tmpCntList') <= f /\ \A i \in 1..Len(tmpCntList') : tmpCntList'[i] = CntList[i]
  BY <1>1, <1>2, <1>3
<1>. QED BY <1>2, <1>5, <1>7, <1>8 DEF RateInv

\* The connections that a step begins.
Begun == {p \in DOMAIN clients : clients[p].phase = "queued" /\ p \in DOMAIN clients'
                                 /\ clients'[p].phase = "connecting"}
WithinRate == Begun # {} => Total(Cardinality(Begun), recent) <= SocketPerSecond

LEMMA RateCheck ==
    ASSUME LInv, RateInv, Check
    PROVE  WithinRate
<1>1. PICK n, batch :
         /\ n \in Nat /\ n <= CntList[NextPlace]
         /\ IsFiniteSet(batch) /\ Cardinality(batch) <= n
         /\ \A p \in DOMAIN clients \ batch : clients'[p] = clients[p]
         /\ DOMAIN clients' = DOMAIN clients
  BY CheckCounts
<1>2. Begun \subseteq batch
  BY <1>1 DEF Begun
<1>3. Cardinality(Begun) \in Nat /\ Cardinality(Begun) <= n
  BY <1>1, <1>2, FS_Subset, FS_CardinalityType
<1>4. PICK e, l, b, u : /\ e = Append(recent, n) /\ l = Len(recent) /\ b = Cardinality(Begun)
                        /\ u = Cardinality(Units(recent, DOMAIN recent))
  OBVIOUS
<1>5. recent \in Seq(Nat) /\ l \in Nat /\ DOMAIN recent = 1..l
  BY <1>4 DEF RateInv
<1>6. /\ e \in Seq(Nat) /\ DOMAIN e = 1..l + 1 /\ e[l + 1] = n
      /\ \A i \in 1..l : e[i] = recent[i]
  <2>1. PICK r : r = recent /\ r \in Seq(Nat) /\ l = Len(r) /\ e = Append(r, n)
    BY <1>4, <1>5
  <2>2. e \in Seq(Nat) /\ Len(e) = l + 1 /\ e[l + 1] = n /\ \A i \in 1..l : e[i] = r[i]
    BY ONLY <1>1, <2>1
  <2>. QED BY <1>5, <2>1, <2>2
<1>7. Total(b, recent) = b + u /\ IsFiniteSet(Units(recent, DOMAIN recent)) /\ u \in Nat
  BY <1>3, <1>4, <1>5, TotalIs, FS_CardinalityType
<1>8. Cardinality(Units(e, 1..l + 1)) = n + u
  <2>1. PICK D, T, x : D = 1..l + 1 /\ x = l + 1 /\ T = D \ {x}
    OBVIOUS
  <2>2. e \in [D -> Nat] /\ x \in D /\ e[x] = n /\ T = 1..l
    BY <1>5, <1>6, <2>1
  <2>3. Units(e, T) = Units(recent, DOMAIN recent)
    BY <1>5, <1>6, <2>2 DEF Units
  <2>4. IsFiniteSet(Units(e, D \ {x}))
    BY <1>7, <2>1, <2>3
  <2>5. Cardinality(Units(e, D)) = e[x] + Cardinality(Units(e, D \ {x}))
    BY <2>2, <2>4, UnitsStep
  <2>6. Cardinality(Units(e, D \ {x})) = u
    BY <1>4, <2>1, <2>3
  <2>. QED BY <2>1, <2>2, <2>5, <2>6
<1>9. Cardinality(Units(e, DOMAIN e)) <= SocketPerSecond
  BY <1>1, <1>4, WithinRound, RoundFits
<1>10. n + u <= SocketPerSecond /\ SocketPerSecond \in Nat
  BY <1>6, <1>8, <1>9, LinkAssumption
<1>11. b + u <= SocketPerSecond
  BY <1>1, <1>3, <1>4, <1>7, <1>10
<1>12. Total(b, recent) <= SocketPerSecond
  BY <1>7, <1>11
<1>. QED BY <1>4, <1>12 DEF WithinRate

\* Nothing but a check begins connections or touches the numbers.
LEMMA NoCheck ==
    ASSUME LInv, [Next]_vars, ~Check
    PROVE  Begun = {} /\ UNCHANGED <<tmpCntList, recent>>
<1>1. \A p \in DOMAIN clients : clients[p] \in Sockets
  BY SocketElim
<1>2. ASSUME \A p \in DOMAIN clients \cap DOMAIN clients' :
                clients'[p].phase = "connecting" => clients'[p].phase = clients[p].phase
      PROVE  Begun = {}
  BY <1>2 DEF Begun
<1>3. ASSUME NEW p, NEW v, v.phase # "connecting", clients' = With(clients, p, v)
      PROVE  Begun = {}
  <2>1. \A x \in DOMAIN clients \cap DOMAIN clients' :
           clients'[x] = IF x = p THEN v ELSE clients[x]
    BY <1>3 DEF With
  <2>. QED BY <1>2, <1>3, <2>1
<1>4. ASSUME NEW p, NEW v, v.phase # "connecting" \/ v.phase = clients[p].phase,
             clients' = [clients EXCEPT ![p] = v]
      PROVE  Begun = {}
  <2>1. \A x \in DOMAIN clients \cap DOMAIN clients' :
           clients'[x] = IF x = p THEN v ELSE clients[x]
    BY <1>4
  <2>. QED BY <1>2, <1>4, <2>1
<1>5. ASSUME UNCHANGED clients
      PROVE  Begun = {}
  BY <1>5 DEF Begun
<1>6. ASSUME NEW p \in Peers, NEW a, AddRpcClient(p, a)
      PROVE  Begun = {} /\ UNCHANGED <<tmpCntList, recent>>
  <2>1. clients' = With(clients, p, NewClient(a)) /\ UNCHANGED <<tmpCntList, recent>>
    BY <1>6 DEF AddRpcClient
  <2>2. NewClient(a).phase # "connecting"
    BY DEF NewClient
  <2>. QED BY <1>3, <2>1, <2>2
<1>7. ASSUME NEW p \in Peers, RemoveRpcClient(p)
      PROVE  Begun = {} /\ UNCHANGED <<tmpCntList, recent>>
  <2>1. clients' = Minus(clients, {p}) /\ UNCHANGED <<tmpCntList, recent>>
    BY <1>7 DEF RemoveRpcClient
  <2>. QED BY <1>2, <2>1 DEF Minus
<1>8. ASSUME NEW p \in Peers, LineUp(p)
      PROVE  Begun = {} /\ UNCHANGED <<tmpCntList, recent>>
  <2>1. /\ clients' = [clients EXCEPT ![p].phase = "queued"] /\ p \in DOMAIN clients
        /\ UNCHANGED <<tmpCntList, recent>>
    BY <1>8 DEF LineUp
  <2>2. \A x \in DOMAIN clients \cap DOMAIN clients' :
           clients'[x].phase = IF x = p THEN "queued" ELSE clients[x].phase
    BY <1>1, <2>1 DEF Sockets
  <2>. QED BY <1>2, <2>1, <2>2
<1>9. ASSUME NEW c \in Conns, ClientClosed(c)
      PROVE  Begun = {}
  <2>1. PICK p : clients' = [clients EXCEPT ![p].phase = "timer", ![p].conn = NoConn,
                                            ![p].sendArr = <<>>]
    BY <1>9 DEF ClientClosed
  <2>2. \A x \in DOMAIN clients \cap DOMAIN clients' :
           clients'[x].phase = IF x = p THEN "timer" ELSE clients[x].phase
    BY <1>1, <2>1 DEF Sockets
  <2>. QED BY <1>2, <2>2
<1>10. ASSUME NEW c \in Conns, ConnectFails(c) \/ ClientOnClose(c)
       PROVE  Begun = {} /\ UNCHANGED <<tmpCntList, recent>>
  <2>1. UNCHANGED <<tmpCntList, recent>> /\ (ClientClosed(c) \/ UNCHANGED clients)
    BY <1>10 DEF ConnectFails, ClientOnClose, queueVars
  <2>. QED BY <1>5, <1>9, <2>1
<1>11. ASSUME NEW c \in Conns, Connected(c)
       PROVE  Begun = {} /\ UNCHANGED <<tmpCntList, recent>>
  <2>1. PICK p : clients' = [clients EXCEPT ![p].phase = "open"]
    BY <1>11 DEF Connected
  <2>2. \A x \in DOMAIN clients \cap DOMAIN clients' :
           clients'[x].phase = IF x = p THEN "open" ELSE clients[x].phase
    BY <1>1, <2>1 DEF Sockets
  <2>3. UNCHANGED <<tmpCntList, recent>>
    BY <1>11 DEF Connected, queueVars
  <2>. QED BY <1>2, <2>2, <2>3
<1>12. ASSUME NEW c \in Conns, ConnectedOrphan(c)
       PROVE  Begun = {} /\ UNCHANGED <<tmpCntList, recent>>
  <2>1. UNCHANGED <<tmpCntList, recent>> /\ (clients' = <<>> \/ UNCHANGED clients)
    BY <1>12 DEF ConnectedOrphan, Crash, LeftOver
  <2>2. CASE clients' = <<>>
    <3>1. DOMAIN clients' = {}
      BY <2>2, EmptyMap
    <3>. QED BY <1>2, <2>1, <3>1
  <2>. QED BY <1>5, <2>1, <2>2
<1>13. ASSUME NEW c \in Conns, ClientOnData(c)
       PROVE  Begun = {} /\ UNCHANGED <<tmpCntList, recent>>
  <2>1. UNCHANGED <<tmpCntList, recent>>
        /\ (UNCHANGED clients \/ \E p : clients' = [clients EXCEPT ![p].phase = "registered"])
    BY <1>13 DEF ClientOnData, queueVars
  <2>2. ASSUME NEW p, clients' = [clients EXCEPT ![p].phase = "registered"]
        PROVE  Begun = {}
    <3>1. \A x \in DOMAIN clients \cap DOMAIN clients' :
             clients'[x].phase = IF x = p THEN "registered" ELSE clients[x].phase
      BY <1>1, <2>2 DEF Sockets
    <3>. QED BY <1>2, <3>1
  <2>. QED BY <1>5, <2>1, <2>2
<1>14. ASSUME NEW p \in Peers, Send(p) \/ SendInterval(p)
       PROVE  Begun = {} /\ UNCHANGED <<tmpCntList, recent>>
  <2>1. UNCHANGED <<tmpCntList, recent>>
    BY <1>14 DEF Send, SendInterval, queueVars
  <2>2. PICK q : clients' = [clients EXCEPT ![p].sendArr = q]
    BY <1>14 DEF Send, SendInterval
  <2>3. \A x \in DOMAIN clients \cap DOMAIN clients' : clients'[x].phase = clients[x].phase
    BY <1>1, <2>2 DEF Sockets
  <2>. QED BY <1>2, <2>1, <2>3
<1>15. ASSUME \/ UNCHANGED vars
              \/ \E p \in Peers : \/ PeerSend(p) \/ PeerSendInterval(p)
                                  \/ \E a \in Addrs : PeerRestart(p, a)
              \/ \E c \in Conns : PeerRegister(c) \/ PeerOnData(c) \/ PeerOnClose(c) \/ Cut(c)
       PROVE  Begun = {} /\ UNCHANGED <<tmpCntList, recent>>
  <2>1. UNCHANGED <<clients, tmpCntList, recent>>
    BY <1>15 DEF vars, clientVars, queueVars, PeerSend, PeerSendInterval, PeerRestart,
       PeerRegister, PeerOnData, PeerOnClose, Cut
  <2>. QED BY <1>5, <2>1
<1>. QED BY <1>6, <1>7, <1>8, <1>10, <1>11, <1>12, <1>13, <1>14, <1>15
         DEF Next, Learn, LearnStale

LEMMA RateStep == ASSUME LInv, RateInv, [Next]_vars PROVE RateInv' /\ WithinRate
<1>1. CASE Check
  BY <1>1, RateCheckStep, RateCheck
<1>2. CASE ~Check
  <2>1. Begun = {} /\ UNCHANGED <<tmpCntList, recent>>
    BY <1>2, NoCheck
  <2>. QED BY <2>1 DEF RateInv, NextPlace, WithinRate
<1>. QED BY <1>1, <1>2

\* In any second no more connections are begun than socketPerSecond allows,
\* however the remainder is spread over the frames and wherever the second
\* starts (ExecLineUpUtil).
THEOREM RateAlwaysKept == Spec => RateKept
<1>1. Init => RateInv
  <2> SUFFICES ASSUME Init PROVE RateInv
    OBVIOUS
  <2>1. tmpCntList = <<>> /\ recent = <<>> /\ Len(<<>>) = 0 /\ Frame \in Nat /\ Frame >= 1
    BY LinkAssumption DEF Init
  <2>2. \A i \in 1..0 : FALSE
    OBVIOUS
  <2>. QED BY <2>1, <2>2 DEF RateInv
<1>2. LInv /\ RateInv /\ [Next]_vars => RateInv' /\ [WithinRate]_vars
  BY RateStep
<1>3. [][WithinRate]_vars <=> RateKept
  BY DEF WithinRate, Begun, Total, RateKept
<1>. QED BY <1>1, <1>2, <1>3, LinkInvariance, PTL DEF Spec
=============================================================================
