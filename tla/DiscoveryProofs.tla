-------------------------- MODULE DiscoveryProofs --------------------------
(***************************************************************************)
(* Proofs about Discovery, for any servers, infos, connections and number  *)
(* of failures.                                                            *)
(***************************************************************************)
EXTENDS Discovery, DataTheorems, TLAPS

(***************************************************************************)
(* The master: types, and the three collections of servers.                *)
(***************************************************************************)

\* TypeOK in two parts, with the maps by name.
NetOK ==
    /\ serversMap \in MapsOf(Servers, Conns)
    /\ lastAllServers \subseteq Servers /\ changedServers \subseteq Servers
    /\ conns \in [Conns -> Connections \cup {Free}]
    /\ down \in [Conns -> Seq(Messages)]
    /\ faults \in 0..MaxFaults

ServersOK ==
    /\ info \in MapsOf(Servers, Infos)
    /\ monitor \in [Servers -> [sock : Conns \cup {NoConn}, first : BOOLEAN,
                                view : MapsOf(Servers, Infos), pending : BOOLEAN,
                                tmp : MapsOf(Servers, Infos)]]
    /\ app \in [Servers -> MapsOf(Servers, Infos)]
    /\ lists \in [Servers -> [Types -> SUBSET Servers]]

LEMMA TypeParts == TypeOK <=> NetOK /\ ServersOK
BY DEF TypeOK, NetOK, ServersOK, MapsOf, Views

\* What closing an end of a connection does to the connections.
LEMMA EndClosedEffect ==
    ASSUME NetOK, NEW c \in Conns, NEW end \in {"server", "master"}, EndClosed(c, end)
    PROVE  /\ conns' \in [Conns -> Connections \cup {Free}]
           /\ \A d \in Conns \ {c} : conns'[d] = conns[d]
           /\ IF end = "server" /\ conns[c].master # "closed"
              THEN conns'[c].master = conns[c].master /\ conns'[c].server = conns[c].server
              ELSE conns'[c].master = "closed"
<1> DEFINE n == [conns[c] EXCEPT !.open = @ /\ end # "server",
                                 !.master = IF end = "master" THEN "closed" ELSE @]
<1>1. conns' = [conns EXCEPT ![c] = IF n.open \/ n.master # "closed" THEN n ELSE Free]
  BY DEF EndClosed
<1>2. conns[c] \in Connections \cup {Free}
  BY DEF NetOK
<1>3. CASE conns[c] \in Connections
  <2>1. /\ n \in Connections /\ n.server = conns[c].server
        /\ n.master = IF end = "master" THEN "closed" ELSE conns[c].master
    BY <1>3 DEF Connections
  <2>. QED BY <1>1, <2>1 DEF NetOK, Free
<1>4. CASE conns[c] = Free
  <2>1. conns[c].open = FALSE /\ conns[c].master = "closed"
    BY <1>4 DEF Free
  <2>2. (conns[c].open /\ end # "server") = FALSE
    BY <2>1
  <2>3. (IF end = "master" THEN "closed" ELSE conns[c].master) = "closed"
    BY <2>1
  <2>4. n = [conns[c] EXCEPT !.open = FALSE, !.master = "closed"]
    BY ONLY <2>2, <2>3
  <2>5. n.open = FALSE /\ n.master = "closed"
    BY <2>4, <1>4 DEF Free
  <2>. HIDE DEF n
  <2>. QED BY <1>1, <1>4, <2>1, <2>5 DEF NetOK, Free
<1>. QED BY <1>2, <1>3, <1>4

\* RegistryExact is about the registered connections and their servers only.
LEMMA RegistryKept ==
    ASSUME NetOK, RegistryExact, UNCHANGED masterVars,
           \A d \in Conns :
              /\ conns'[d].master = "registered" <=> conns[d].master = "registered"
              /\ conns[d].master = "registered" => conns'[d].server = conns[d].server
    PROVE  RegistryExact'
<1>1. \A s \in DOMAIN serversMap : serversMap[s] \in Conns
  BY MapElim DEF NetOK
<1>. QED BY <1>1 DEF RegistryExact, masterVars

\* An end that closes, but not the master's of a registered connection, leaves
\* types and registry as they are.
LEMMA EndClosedKeeps ==
    ASSUME NetOK, RegistryExact, NEW c \in Conns, NEW end \in {"server", "master"},
           EndClosed(c, end), end = "server" \/ conns[c].master # "registered",
           UNCHANGED masterVars
    PROVE  conns' \in [Conns -> Connections \cup {Free}] /\ RegistryExact'
<1>1. conns' \in [Conns -> Connections \cup {Free}]
  BY EndClosedEffect
<1>2. ASSUME NEW d \in Conns
      PROVE  /\ conns'[d].master = "registered" <=> conns[d].master = "registered"
             /\ conns[d].master = "registered" => conns'[d].server = conns[d].server
  <2>1. CASE d = c
    BY <2>1, EndClosedEffect
  <2>2. CASE d # c
    BY <2>2, EndClosedEffect
  <2>. QED BY <2>1, <2>2
<1>3. RegistryExact'
  BY <1>2, RegistryKept
<1>. QED BY <1>1, <1>3

\* A registration: the name was free.
LEMMA RegisterStep ==
    ASSUME NetOK, RegistryExact, NEW c \in Conns, Register(c)
    PROVE  NetOK' /\ RegistryExact'
<1> DEFINE s == conns[c].server
<1>1. conns[c] \in Connections
  BY DEF NetOK, Register, Free
<1>2. s \in Servers /\ s \notin DOMAIN serversMap
  BY <1>1 DEF Connections, Register, Refused
<1>3. /\ conns' \in [Conns -> Connections \cup {Free}]
      /\ \A d \in Conns \ {c} : conns'[d] = conns[d]
      /\ conns'[c].master = "registered" /\ conns'[c].server = s
  BY <1>1 DEF NetOK, Register, Connections
<1>4. /\ serversMap' \in MapsOf(Servers, Conns)
      /\ DOMAIN serversMap' = DOMAIN serversMap \cup {s}
      /\ serversMap'[s] = c
      /\ \A x \in DOMAIN serversMap : serversMap'[x] = serversMap[x]
  <2>1. serversMap \in MapsOf(Servers, Conns) /\ serversMap' = With(serversMap, s, c)
    BY DEF NetOK, Register, OnAddServer
  <2>. HIDE DEF s
  <2>2. With(serversMap, s, c) \in MapsOf(Servers, Conns)
    BY <1>2, <2>1, WithMap
  <2>3. With(serversMap, s, c) =
           [x \in DOMAIN serversMap \cup {s} |-> IF x = s THEN c ELSE serversMap[x]]
    BY DEF With
  <2>4. serversMap' \in MapsOf(Servers, Conns)
    BY <2>1, <2>2
  <2>5. serversMap' = [x \in DOMAIN serversMap \cup {s} |-> IF x = s THEN c ELSE serversMap[x]]
    BY <2>1, <2>3
  <2>6. /\ DOMAIN serversMap' = DOMAIN serversMap \cup {s}
        /\ serversMap'[s] = c
        /\ \A x \in DOMAIN serversMap : serversMap'[x] = serversMap[x]
    BY ONLY <2>5, <1>2
  <2>. QED BY <2>4, <2>6
<1>5. changedServers' = changedServers \cup {s} /\ UNCHANGED <<lastAllServers, down, faults>>
  BY DEF Register, OnAddServer
<1>6. conns[c].master = "new"
  BY DEF Register
<1> HIDE DEF s
<1>7. NetOK'
  BY <1>2, <1>3, <1>4, <1>5 DEF NetOK
<1>8. \A x \in DOMAIN serversMap : serversMap[x] \in Conns \ {c}
  BY <1>6, MapElim DEF NetOK, RegistryExact
<1>9. RegistryExact'
  <2>1. ASSUME NEW d \in Conns, conns'[d].master = "registered"
        PROVE  conns'[d].server \in DOMAIN serversMap' /\ serversMap'[conns'[d].server] = d
    <3>1. CASE d = c
      BY <3>1, <1>3, <1>4
    <3>2. CASE d # c
      BY <3>2, <2>1, <1>3, <1>4 DEF RegistryExact
    <3>. QED BY <3>1, <3>2
  <2>2. ASSUME NEW x \in DOMAIN serversMap'
        PROVE  conns'[serversMap'[x]].master = "registered" /\ conns'[serversMap'[x]].server = x
    BY <1>3, <1>4, <1>8 DEF RegistryExact
  <2>3. \A x \in Servers \ changedServers' :
           x \in DOMAIN serversMap' <=> x \in lastAllServers'
    BY <1>4, <1>5 DEF RegistryExact
  <2>. QED BY <2>1, <2>2, <2>3 DEF RegistryExact
<1>. QED BY <1>7, <1>9

\* The end of a proxy's connection: its name is free again, and noted.
LEMMA ProxyOnCloseStep ==
    ASSUME NetOK, RegistryExact, NEW c \in Conns, ProxyOnClose(c)
    PROVE  NetOK' /\ RegistryExact'
<1> DEFINE s == conns[c].server
<1>1. conns[c].master = "registered" /\ conns[c] \in Connections
  BY DEF NetOK, ProxyOnClose, Free
<1>2. s \in Servers /\ s \in DOMAIN serversMap /\ serversMap[s] = c
  BY <1>1 DEF Connections, RegistryExact
<1>3. /\ conns' \in [Conns -> Connections \cup {Free}]
      /\ \A d \in Conns \ {c} : conns'[d] = conns[d]
      /\ conns'[c].master = "closed"
  BY EndClosedEffect DEF ProxyOnClose
<1>4. serversMap' = Minus(serversMap, {s}) /\ changedServers' = changedServers \cup {s}
  BY <1>2 DEF ProxyOnClose, OnRemoveServer
<1>5. /\ serversMap' \in MapsOf(Servers, Conns)
      /\ DOMAIN serversMap' = DOMAIN serversMap \ {s}
      /\ \A x \in DOMAIN serversMap \ {s} : serversMap'[x] = serversMap[x]
  <2>1. serversMap \in MapsOf(Servers, Conns)
    BY DEF NetOK
  <2>2. Minus(serversMap, {s}) \in MapsOf(Servers, Conns)
    BY <2>1, MinusMap
  <2>. HIDE DEF s
  <2>. QED BY <1>4, <2>2, MinusValues
<1>6. UNCHANGED <<lastAllServers, faults>> /\ down' = [down EXCEPT ![c] = <<>>]
  BY DEF ProxyOnClose
<1> HIDE DEF s
<1>7. NetOK'
  <2>1. down' \in [Conns -> Seq(Messages)]
    BY <1>6 DEF NetOK
  <2>. QED BY <2>1, <1>2, <1>3, <1>4, <1>5, <1>6 DEF NetOK
<1>8. RegistryExact'
  <2>1. ASSUME NEW d \in Conns, conns'[d].master = "registered"
        PROVE  conns'[d].server \in DOMAIN serversMap' /\ serversMap'[conns'[d].server] = d
    <3>1. d # c /\ conns'[d] = conns[d]
      BY <2>1, <1>3
    <3>2. conns[d].server \in DOMAIN serversMap /\ serversMap[conns[d].server] = d
      BY <2>1, <3>1 DEF RegistryExact
    <3>. QED BY <3>1, <3>2, <1>2, <1>5
  <2>2. ASSUME NEW x \in DOMAIN serversMap'
        PROVE  conns'[serversMap'[x]].master = "registered" /\ conns'[serversMap'[x]].server = x
    <3>1. x \in DOMAIN serversMap /\ x # s /\ serversMap'[x] = serversMap[x]
      BY <1>5
    <3>2. serversMap[x] \in Conns /\ conns[serversMap[x]].server = x
          /\ conns[serversMap[x]].master = "registered"
      BY <3>1, MapElim DEF NetOK, RegistryExact
    <3>3. serversMap[x] # c
      BY <3>1, <3>2, <1>2 DEF s
    <3>. QED BY <3>1, <3>2, <3>3, <1>3
  <2>3. \A x \in Servers \ changedServers' :
           x \in DOMAIN serversMap' <=> x \in lastAllServers'
    BY <1>4, <1>5, <1>6 DEF RegistryExact
  <2>. QED BY <2>1, <2>2, <2>3 DEF RegistryExact
<1>. QED BY <1>7, <1>8

\* What a tick sends is a message.
LEMMA PushedType ==
    ASSUME NetOK, RegistryExact, NEW s \in Servers
    PROVE  Pushed(s) \in Seq(Messages)
<1>1. ASSUME NEW S \in SUBSET DOMAIN serversMap
      PROVE  InfosOf(S) \in Views /\ DOMAIN InfosOf(S) = S
  <2>1. \A x \in S : conns[serversMap[x]].info \in Infos
    <3>1. TAKE x \in S
    <3>2. conns[serversMap[x]] \in Connections
      BY MapElim DEF NetOK, RegistryExact, Free
    <3>. QED BY <3>2 DEF Connections
  <2>2. InfosOf(S) \in [S -> Infos]
    BY <2>1 DEF InfosOf
  <2>3. S \in SUBSET Servers
    BY MapElim DEF NetOK
  <2>. QED BY <2>2, <2>3 DEF Views
<1>2. CASE s \notin changedServers
  <2> DEFINE m == [T |-> "updateServers", update |-> InfosOf(UpdateList), del |-> RemoveList]
  <2>1. InfosOf(UpdateList) \in Views /\ DOMAIN InfosOf(UpdateList) = UpdateList
    BY <1>1 DEF UpdateList
  <2>2. RemoveList \subseteq Servers /\ UpdateList \cap RemoveList = {}
    BY DEF UpdateList, RemoveList, NetOK
  <2>3. m \in Messages
    BY <2>1, <2>2 DEF Messages, Updates
  <2>. QED BY <1>2, <2>3 DEF Pushed
<1>3. CASE s \in changedServers
  <2> DEFINE m == [T |-> "syncAllServers", all |-> InfosOf(DOMAIN serversMap)]
  <2>1. InfosOf(DOMAIN serversMap) \in Views
    BY <1>1
  <2>2. m \in Messages
    BY <2>1 DEF Messages
  <2>. QED BY <1>3, <2>2 DEF Pushed
<1>. QED BY <1>2, <1>3

LEMMA TickStep ==
    ASSUME NetOK, RegistryExact, Tick
    PROVE  NetOK' /\ RegistryExact'
<1>1. /\ UNCHANGED <<serversMap, conns, faults>> /\ changedServers' = {}
      /\ lastAllServers' = (lastAllServers \cup UpdateList) \ RemoveList
  BY DEF Tick
<1>2. down' \in [Conns -> Seq(Messages)]
  <2>1. ASSUME NEW c \in Conns, NEW s \in DOMAIN serversMap, serversMap[s] = c
        PROVE  down[c] \o Pushed(conns[c].server) \in Seq(Messages)
    <3>1. conns[c].server = s /\ s \in Servers
      BY <2>1, MapElim DEF NetOK, RegistryExact
    <3>2. down[c] \in Seq(Messages) /\ Pushed(s) \in Seq(Messages)
      BY <3>1, PushedType DEF NetOK
    <3>. QED BY <3>1, <3>2, ConcatProperties
  <2>. QED BY <2>1 DEF Tick, NetOK
<1>3. \A x \in Servers : x \in DOMAIN serversMap <=> x \in lastAllServers'
  BY <1>1 DEF UpdateList, RemoveList, RegistryExact
<1>4. lastAllServers' \subseteq Servers
  BY <1>1, MapElim DEF UpdateList, NetOK
<1>5. NetOK'
  BY <1>1, <1>2, <1>4 DEF NetOK
<1>6. RegistryExact'
  BY <1>1, <1>3 DEF RegistryExact
<1>. QED BY <1>5, <1>6

(***************************************************************************)
(* A server: its monitor's list, and the application's maps.               *)
(***************************************************************************)

View == MapsOf(Servers, Infos)

\* The map of servers and the lists by type agree.
Agree(a, l) == \A t \in Types : l[t] = {x \in DOMAIN a : a[x].type = t}

\* Adding and updating servers.
LEMMA AddAgrees ==
    ASSUME NEW a \in View, NEW u \in View, NEW l \in [Types -> SUBSET Servers], Agree(a, l)
    PROVE  /\ AppWith(a, u) \in View
           /\ DOMAIN AppWith(a, u) = DOMAIN a \cup DOMAIN u
           /\ \A x \in DOMAIN a \ DOMAIN u : AppWith(a, u)[x] = a[x]
           /\ \A x \in DOMAIN u : AppWith(a, u)[x] =
                 IF x \in DOMAIN a /\ a[x].type # u[x].type THEN a[x] ELSE u[x]
           /\ ListsWith(l, a, u) \in [Types -> SUBSET Servers]
           /\ Agree(AppWith(a, u), ListsWith(l, a, u))
<1> DEFINE refused == DOMAIN u \ Accepted(a, u)
           v == Minus(u, refused)
<1>1. a \in MapsOf(Servers, Infos) /\ u \in MapsOf(Servers, Infos)
  BY DEF View
<1>2. Accepted(a, u) = {x \in DOMAIN u : x \in DOMAIN a => a[x].type = u[x].type}
  BY DEF Accepted
<1>3. DOMAIN u \ refused = Accepted(a, u)
  BY <1>2
<1>4. AppWith(a, u) = Updated(a, v)
  BY DEF AppWith
<1>5. /\ v \in MapsOf(Servers, Infos)
      /\ DOMAIN v = Accepted(a, u)
      /\ \A x \in Accepted(a, u) : v[x] = u[x]
  <2>1. v \in MapsOf(Servers, Infos)
    BY <1>1, MinusMap
  <2>. HIDE DEF refused
  <2>. QED BY <1>3, <2>1, MinusValues
<1> HIDE DEF refused, v
<1>6. /\ AppWith(a, u) \in MapsOf(Servers, Infos)
      /\ DOMAIN AppWith(a, u) = DOMAIN a \cup DOMAIN v
      /\ \A x \in DOMAIN v : AppWith(a, u)[x] = v[x]
      /\ \A x \in DOMAIN a \ DOMAIN v : AppWith(a, u)[x] = a[x]
  <2>1. Updated(a, v) \in MapsOf(Servers, Infos)
    BY <1>1, <1>5, UpdatedMap
  <2>2. Updated(a, v) = [x \in DOMAIN a \cup DOMAIN v |->
                            IF x \in DOMAIN v THEN v[x] ELSE a[x]]
    BY DEF Updated
  <2>. QED BY <1>4, <2>1, <2>2
<1>7. DOMAIN AppWith(a, u) = DOMAIN a \cup DOMAIN u
  BY <1>2, <1>5, <1>6
<1>8. \A x \in DOMAIN a \ DOMAIN u : AppWith(a, u)[x] = a[x]
  BY <1>2, <1>5, <1>6
<1>9. \A x \in DOMAIN u : AppWith(a, u)[x] =
         IF x \in DOMAIN a /\ a[x].type # u[x].type THEN a[x] ELSE u[x]
  BY <1>2, <1>5, <1>6
<1>10. \A x \in DOMAIN u : x \in Servers
  BY <1>1, MapElim
<1>11. ListsWith(l, a, u) \in [Types -> SUBSET Servers]
  BY <1>10 DEF ListsWith
<1>12. ASSUME NEW t \in Types
       PROVE  ListsWith(l, a, u)[t] = {x \in DOMAIN AppWith(a, u) : AppWith(a, u)[x].type = t}
  <2>1. ListsWith(l, a, u)[t] = l[t] \cup {x \in DOMAIN u \ DOMAIN a : u[x].type = t}
    BY DEF ListsWith
  <2>2. l[t] = {x \in DOMAIN a : a[x].type = t}
    BY DEF Agree
  <2>3. \A x \in DOMAIN a : AppWith(a, u)[x].type = a[x].type
    BY <1>8, <1>9
  <2>4. \A x \in DOMAIN u \ DOMAIN a : AppWith(a, u)[x] = u[x]
    BY <1>9
  <2>. QED BY <2>1, <2>2, <2>3, <2>4, <1>7
<1>. QED BY <1>6, <1>7, <1>8, <1>9, <1>11, <1>12 DEF View, Agree

\* Removing servers.
LEMMA RemoveAgrees ==
    ASSUME NEW a \in View, NEW l \in [Types -> SUBSET Servers], Agree(a, l), NEW D
    PROVE  /\ Minus(a, D) \in View
           /\ DOMAIN Minus(a, D) = DOMAIN a \ D
           /\ \A x \in DOMAIN a \ D : Minus(a, D)[x] = a[x]
           /\ ListsWithout(l, a, D) \in [Types -> SUBSET Servers]
           /\ Agree(Minus(a, D), ListsWithout(l, a, D))
<1>1. /\ Minus(a, D) \in MapsOf(Servers, Infos)
      /\ DOMAIN Minus(a, D) = DOMAIN a \ D
      /\ \A x \in DOMAIN a \ D : Minus(a, D)[x] = a[x]
  <2>1. a \in MapsOf(Servers, Infos)
    BY DEF View
  <2>2. Minus(a, D) \in MapsOf(Servers, Infos)
    BY <2>1, MinusMap
  <2>. QED BY <2>2, MinusValues
<1>2. ListsWithout(l, a, D) \in [Types -> SUBSET Servers]
  BY DEF ListsWithout
<1>3. ASSUME NEW t \in Types
      PROVE  ListsWithout(l, a, D)[t] = {x \in DOMAIN Minus(a, D) : Minus(a, D)[x].type = t}
  <2>1. ListsWithout(l, a, D)[t] = l[t] \ {x \in D \cap DOMAIN a : a[x].type = t}
    BY DEF ListsWithout
  <2>2. l[t] = {x \in DOMAIN a : a[x].type = t}
    BY DEF Agree
  <2>. QED BY <2>1, <2>2, <1>1
<1>. QED BY <1>1, <1>2, <1>3 DEF View, Agree

\* removeServer and addServer together, at server s.
LEMMA ApplyEffect ==
    ASSUME ServersOK, NEW s \in Servers, Agree(app[s], lists[s]),
           NEW u \in View, NEW D, Apply(s, u, D)
    PROVE  /\ app' \in [Servers -> View] /\ lists' \in [Servers -> [Types -> SUBSET Servers]]
           /\ \A r \in Servers \ {s} : app'[r] = app[r] /\ lists'[r] = lists[r]
           /\ Agree(app'[s], lists'[s])
           /\ DOMAIN app'[s] = (DOMAIN app[s] \ D) \cup DOMAIN u
           /\ \A x \in DOMAIN app[s] \ (D \cup DOMAIN u) : app'[s][x] = app[s][x]
           /\ \A x \in DOMAIN u : app'[s][x] =
                 IF x \in DOMAIN app[s] \ D /\ app[s][x].type # u[x].type
                 THEN app[s][x] ELSE u[x]
<1> DEFINE a == Minus(app[s], D)
           l == ListsWithout(lists[s], app[s], D)
<1>1. app[s] \in View /\ lists[s] \in [Types -> SUBSET Servers]
  BY DEF ServersOK, View
<1>2. /\ a \in View /\ l \in [Types -> SUBSET Servers] /\ Agree(a, l)
      /\ DOMAIN a = DOMAIN app[s] \ D
      /\ \A x \in DOMAIN app[s] \ D : a[x] = app[s][x]
  BY <1>1, RemoveAgrees
<1>3. /\ app' = [app EXCEPT ![s] = AppWith(a, u)]
      /\ lists' = [lists EXCEPT ![s] = ListsWith(l, a, u)]
  BY DEF Apply
<1> HIDE DEF a, l
<1>4. /\ AppWith(a, u) \in View
      /\ DOMAIN AppWith(a, u) = DOMAIN a \cup DOMAIN u
      /\ \A x \in DOMAIN a \ DOMAIN u : AppWith(a, u)[x] = a[x]
      /\ \A x \in DOMAIN u : AppWith(a, u)[x] =
            IF x \in DOMAIN a /\ a[x].type # u[x].type THEN a[x] ELSE u[x]
      /\ ListsWith(l, a, u) \in [Types -> SUBSET Servers]
      /\ Agree(AppWith(a, u), ListsWith(l, a, u))
  BY <1>2, AddAgrees
<1>5. /\ app'[s] = AppWith(a, u) /\ lists'[s] = ListsWith(l, a, u)
      /\ \A r \in Servers \ {s} : app'[r] = app[r] /\ lists'[r] = lists[r]
  BY <1>3 DEF ServersOK
<1>6. app' \in [Servers -> View] /\ lists' \in [Servers -> [Types -> SUBSET Servers]]
  BY <1>3, <1>4 DEF ServersOK, View
<1>. QED BY <1>2, <1>4, <1>5, <1>6

(***************************************************************************)
(* Steps of the network and the master.                                    *)
(***************************************************************************)

\* A message that server s takes, and what taking it leaves alone.
LEMMA TakeEffect ==
    ASSUME NetOK, ServersOK, RegistryExact, NEW s \in Servers, NEW T, Take(s, T)
    PROVE  /\ Head(Incoming(s)) \in Messages /\ Head(Incoming(s)).T = T
           /\ UNCHANGED info
           /\ NetOK' /\ RegistryExact'
<1> DEFINE c == monitor[s].sock
<1>1. c \in Conns
  <2>1. c # NoConn
    BY DEF Take
  <2>2. monitor[s].sock \in Conns \cup {NoConn}
    BY DEF ServersOK
  <2>. QED BY <2>1, <2>2
<1>2. down[c] \in Seq(Messages) /\ down[c] # <<>>
  BY <1>1 DEF NetOK, Take, Incoming
<1>3. Head(down[c]) \in Messages /\ Tail(down[c]) \in Seq(Messages)
  BY <1>2, HeadTailProperties
<1>4. down' = [down EXCEPT ![c] = Tail(down[c])] /\ UNCHANGED <<masterVars, conns, faults, info>>
  BY DEF Take
<1>5. NetOK'
  BY <1>3, <1>4 DEF NetOK, masterVars
<1>6. RegistryExact'
  BY <1>4 DEF RegistryExact, masterVars
<1>7. Head(Incoming(s)).T = T
  BY DEF Take
<1>. QED BY <1>3, <1>4, <1>5, <1>6, <1>7 DEF Incoming

\* Nothing of the master's and nothing of the registered connections changes.
LEMMA NetKept ==
    ASSUME NetOK, RegistryExact, UNCHANGED <<masterVars, conns>>,
           down' \in [Conns -> Seq(Messages)], faults' \in 0..MaxFaults
    PROVE  NetOK' /\ RegistryExact'
BY DEF NetOK, RegistryExact, masterVars

LEMMA ConnectStep ==
    ASSUME NetOK, ServersOK, RegistryExact, NEW s \in Servers, NEW c \in Conns, Connect(s, c)
    PROVE  NetOK' /\ RegistryExact'
<1> DEFINE n == [server |-> s, info |-> info[s], master |-> "new", open |-> TRUE, cut |-> FALSE]
<1>1. n \in Connections
  BY MapElim DEF Connections, Connect, Running, ServersOK
<1>2. conns' = [conns EXCEPT ![c] = n] /\ UNCHANGED <<masterVars, down, faults>>
  BY DEF Connect
<1>3. conns[c].master # "registered"
  BY DEF Connect, Free
<1>4. n.master # "registered"
  OBVIOUS
<1> HIDE DEF n
<1>5. conns' \in [Conns -> Connections \cup {Free}]
  BY <1>1, <1>2 DEF NetOK
<1>6. NetOK'
  BY <1>2, <1>5 DEF NetOK, masterVars
<1>7. ASSUME NEW d \in Conns
      PROVE  /\ conns'[d].master = "registered" <=> conns[d].master = "registered"
             /\ conns[d].master = "registered" => conns'[d].server = conns[d].server
  BY <1>2, <1>3, <1>4 DEF NetOK
<1>8. RegistryExact'
  BY <1>2, <1>7, RegistryKept
<1>. QED BY <1>6, <1>8

LEMMA CutStep ==
    ASSUME NetOK, RegistryExact, NEW c \in Conns, Cut(c)
    PROVE  NetOK' /\ RegistryExact'
<1>1. conns[c] \in Connections
  BY DEF NetOK, Cut
<1>2. conns' = [conns EXCEPT ![c].cut = TRUE] /\ UNCHANGED masterVars
  BY DEF Cut
<1>3. conns' \in [Conns -> Connections \cup {Free}]
  BY <1>1, <1>2 DEF NetOK, Connections
<1>4. down' \in [Conns -> Seq(Messages)] /\ faults' \in 0..MaxFaults
  BY DiscoveryAssumption DEF NetOK, Cut, Fault
<1>5. NetOK'
  BY <1>2, <1>3, <1>4 DEF NetOK, masterVars
<1>6. ASSUME NEW d \in Conns
      PROVE  /\ conns'[d].master = "registered" <=> conns[d].master = "registered"
             /\ conns[d].master = "registered" => conns'[d].server = conns[d].server
  BY <1>1, <1>2 DEF NetOK, Connections
<1>7. RegistryExact'
  BY <1>2, <1>6, RegistryKept
<1>. QED BY <1>5, <1>7

LEMMA MasterRestartStep ==
    ASSUME NetOK, MasterRestart
    PROVE  NetOK' /\ RegistryExact'
<1>1. /\ serversMap' = <<>> /\ lastAllServers' = {} /\ changedServers' = {}
      /\ conns' = [c \in Conns |-> IF conns[c].open THEN [conns[c] EXCEPT !.master = "closed"]
                                   ELSE Free]
  BY DEF MasterRestart
<1>2. down' \in [Conns -> Seq(Messages)] /\ faults' \in 0..MaxFaults
  BY DiscoveryAssumption DEF NetOK, MasterRestart, Fault
<1>3. ASSUME NEW c \in Conns
      PROVE  conns'[c] \in Connections \cup {Free} /\ conns'[c].master = "closed"
  <2>1. CASE conns[c].open
    <3>1. conns[c] \in Connections
      BY <2>1 DEF NetOK, Free
    <3>2. conns'[c] = [conns[c] EXCEPT !.master = "closed"]
      BY <1>1, <2>1
    <3>. QED BY <3>1, <3>2 DEF Connections
  <2>2. CASE ~conns[c].open
    BY <1>1, <2>2 DEF Free
  <2>. QED BY <2>1, <2>2
<1>4. conns' \in [Conns -> Connections \cup {Free}]
  BY <1>1, <1>3
<1>5. serversMap' \in MapsOf(Servers, Conns) /\ DOMAIN serversMap' = {}
  BY <1>1, EmptyMap
<1>6. NetOK'
  BY <1>1, <1>2, <1>4, <1>5 DEF NetOK
<1>7. RegistryExact'
  BY <1>1, <1>3, <1>5 DEF RegistryExact
<1>. QED BY <1>6, <1>7

LEMMA CrashNetStep ==
    ASSUME NetOK, ServersOK, RegistryExact, NEW s \in Servers, Crash(s)
    PROVE  NetOK' /\ RegistryExact'
<1>1. UNCHANGED masterVars /\ faults' \in 0..MaxFaults
  BY DiscoveryAssumption DEF NetOK, Crash, Fault
<1>2. CASE monitor[s].sock = NoConn
  <2>1. UNCHANGED <<conns, down>>
    BY <1>2 DEF Crash
  <2>. QED BY <1>1, <2>1, NetKept DEF NetOK
<1>3. CASE monitor[s].sock # NoConn
  <2> DEFINE c == monitor[s].sock
  <2>1. c \in Conns
    BY <1>3 DEF ServersOK
  <2>2. EndClosed(c, "server") /\ down' = [down EXCEPT ![c] = <<>>]
    BY <1>3 DEF Crash
  <2>. HIDE DEF c
  <2>3. down' \in [Conns -> Seq(Messages)]
    BY <2>1, <2>2 DEF NetOK
  <2>4. conns' \in [Conns -> Connections \cup {Free}] /\ RegistryExact'
    BY <1>1, <2>1, <2>2, EndClosedKeeps
  <2>. QED BY <1>1, <2>3, <2>4 DEF NetOK, masterVars
<1>. QED BY <1>2, <1>3

LEMMA MonitorOnCloseNetStep ==
    ASSUME NetOK, ServersOK, RegistryExact, NEW s \in Servers, MonitorOnClose(s)
    PROVE  NetOK' /\ RegistryExact'
<1> DEFINE c == monitor[s].sock
<1>1. c \in Conns
  <2>1. monitor[s].sock \in Conns \cup {NoConn}
    BY DEF ServersOK
  <2>. QED BY <2>1 DEF MonitorOnClose
<1>2. /\ EndClosed(c, "server") /\ down' = [down EXCEPT ![c] = <<>>]
      /\ UNCHANGED <<masterVars, faults>>
  BY DEF MonitorOnClose
<1> HIDE DEF c
<1>3. down' \in [Conns -> Seq(Messages)]
  BY <1>1, <1>2 DEF NetOK
<1>4. conns' \in [Conns -> Connections \cup {Free}] /\ RegistryExact'
  BY <1>1, <1>2, EndClosedKeeps
<1>. QED BY <1>2, <1>3, <1>4 DEF NetOK, masterVars

\* The master's end of a connection that is not registered closes.
LEMMA NewEndsStep ==
    ASSUME NetOK, RegistryExact, NEW c \in Conns, RegisterRefused(c) \/ UnregisteredLost(c)
    PROVE  NetOK' /\ RegistryExact'
<1>1. /\ EndClosed(c, "master") /\ conns[c].master # "registered"
      /\ UNCHANGED <<masterVars, down, faults>>
  BY DEF RegisterRefused, UnregisteredLost
<1>2. conns' \in [Conns -> Connections \cup {Free}] /\ RegistryExact'
  BY <1>1, EndClosedKeeps
<1>. QED BY <1>1, <1>2 DEF NetOK, masterVars

\* Every step keeps the types of the network and the master, and the registry.
LEMMA NetStep ==
    ASSUME NetOK, ServersOK, RegistryExact, [Next]_vars
    PROVE  NetOK' /\ RegistryExact'
<1>1. CASE Tick
  BY <1>1, TickStep
<1>2. CASE MasterRestart
  BY <1>2, MasterRestartStep
<1>3. ASSUME NEW c \in Conns, RegisterRefused(c) \/ UnregisteredLost(c)
      PROVE  NetOK' /\ RegistryExact'
  BY <1>3, NewEndsStep
<1>4. ASSUME NEW c \in Conns, Register(c)
      PROVE  NetOK' /\ RegistryExact'
  BY <1>4, RegisterStep
<1>5. ASSUME NEW c \in Conns, ProxyOnClose(c)
      PROVE  NetOK' /\ RegistryExact'
  BY <1>5, ProxyOnCloseStep
<1>6. ASSUME NEW c \in Conns, Cut(c)
      PROVE  NetOK' /\ RegistryExact'
  BY <1>6, CutStep
<1>7. ASSUME NEW s \in Servers, NEW c \in Conns, Connect(s, c)
      PROVE  NetOK' /\ RegistryExact'
  BY <1>7, ConnectStep
<1>8. ASSUME NEW s \in Servers, MonitorOnClose(s)
      PROVE  NetOK' /\ RegistryExact'
  BY <1>8, MonitorOnCloseNetStep
<1>9. ASSUME NEW s \in Servers, NEW T, Take(s, T)
      PROVE  NetOK' /\ RegistryExact'
  BY <1>9, TakeEffect
<1>10. ASSUME NEW s \in Servers, SyncFirst(s) \/ SyncAgain(s) \/ Update(s) \/ UpdateAside(s)
       PROVE  NetOK' /\ RegistryExact'
  BY <1>9, <1>10 DEF SyncFirst, SyncAgain, Update, UpdateAside
<1>11. ASSUME NEW s \in Servers, DelaySync(s) \/ Start(s)
       PROVE  NetOK' /\ RegistryExact'
  <2>1. UNCHANGED <<masterVars, netVars>>
    BY <1>11 DEF DelaySync, Start
  <2>. QED BY <2>1, NetKept DEF NetOK, netVars
<1>12. ASSUME NEW s \in Servers, Crash(s)
       PROVE  NetOK' /\ RegistryExact'
  BY <1>12, CrashNetStep
<1>13. CASE UNCHANGED vars
  BY <1>13, NetKept DEF NetOK, vars, netVars
<1>. QED
  BY <1>1, <1>2, <1>3, <1>4, <1>5, <1>6, <1>7, <1>8, <1>10, <1>11, <1>12, <1>13 DEF Next

(***************************************************************************)
(* Steps of a server.                                                      *)
(***************************************************************************)

Monitors == [sock : Conns \cup {NoConn}, first : BOOLEAN, view : View,
             pending : BOOLEAN, tmp : View]

OneType == \A i, j \in Infos : i.type = j.type

\* What holds of a server: ListsAgree and AddressFresh, of one server.
Good(a, l, v) ==
    /\ DOMAIN a = DOMAIN v /\ Agree(a, l)
    /\ OneType => \A x \in DOMAIN v : a[x].addr = v[x].addr

ServersGood == \A s \in Servers : Good(app[s], lists[s], monitor[s].view)

LEMMA GoodParts == ServersGood <=> ListsAgree /\ AddressFresh
BY DEF ServersGood, Good, Agree, OneType, ListsAgree, AddressFresh

\* Only server s changes.
LEMMA OneServer ==
    ASSUME ServersOK, ServersGood, NEW s \in Servers, NEW n \in Monitors,
           monitor' = [monitor EXCEPT ![s] = n],
           info' \in View, app' \in [Servers -> View],
           lists' \in [Servers -> [Types -> SUBSET Servers]],
           \A r \in Servers \ {s} : app'[r] = app[r] /\ lists'[r] = lists[r],
           Good(app'[s], lists'[s], n.view)
    PROVE  ServersOK' /\ ServersGood'
<1>1. monitor \in [Servers -> Monitors]
  BY DEF ServersOK, Monitors, View
<1>2. monitor' \in [Servers -> Monitors] /\ monitor'[s] = n
      /\ \A r \in Servers \ {s} : monitor'[r] = monitor[r]
  BY <1>1
<1>3. ServersOK'
  BY <1>2 DEF ServersOK, Monitors, View
<1>4. ASSUME NEW r \in Servers
      PROVE  Good(app'[r], lists'[r], monitor'[r].view)
  <2>1. CASE r = s
    BY <1>2, <2>1
  <2>2. CASE r # s
    BY <1>2, <2>2 DEF ServersGood
  <2>. QED BY <2>1, <2>2
<1>5. ServersGood'
  BY <1>4 DEF ServersGood
<1>. QED BY <1>3, <1>5

\* The monitor's record changes, but not its list.
LEMMA MonitorOnly ==
    ASSUME ServersOK, ServersGood, NEW s \in Servers, NEW n \in Monitors,
           monitor' = [monitor EXCEPT ![s] = n], n.view = monitor[s].view,
           UNCHANGED <<info, app, lists>>
    PROVE  ServersOK' /\ ServersGood'
<1>1. /\ info' \in View /\ app' \in [Servers -> View]
      /\ lists' \in [Servers -> [Types -> SUBSET Servers]]
  BY DEF ServersOK, View
<1>2. Good(app'[s], lists'[s], n.view)
  BY DEF ServersGood
<1>. QED BY <1>1, <1>2, OneServer

\* The application follows a change of the monitor's list: the servers D go,
\* those of u are added or updated, and the rest keep their address.
LEMMA ApplyGood ==
    ASSUME ServersOK, ServersGood, NEW s \in Servers, NEW n \in Monitors,
           monitor' = [monitor EXCEPT ![s] = n], UNCHANGED info,
           NEW u \in View, NEW D, Apply(s, u, D),
           DOMAIN n.view = (DOMAIN monitor[s].view \ D) \cup DOMAIN u,
           \A x \in DOMAIN u : n.view[x] = u[x],
           \A x \in DOMAIN monitor[s].view \ (D \cup DOMAIN u) :
              n.view[x].addr = monitor[s].view[x].addr
    PROVE  ServersOK' /\ ServersGood'
<1>1. Good(app[s], lists[s], monitor[s].view)
  BY DEF ServersGood
<1>2. /\ app' \in [Servers -> View] /\ lists' \in [Servers -> [Types -> SUBSET Servers]]
      /\ \A r \in Servers \ {s} : app'[r] = app[r] /\ lists'[r] = lists[r]
      /\ Agree(app'[s], lists'[s])
      /\ DOMAIN app'[s] = (DOMAIN app[s] \ D) \cup DOMAIN u
      /\ \A x \in DOMAIN app[s] \ (D \cup DOMAIN u) : app'[s][x] = app[s][x]
      /\ \A x \in DOMAIN u : app'[s][x] =
            IF x \in DOMAIN app[s] \ D /\ app[s][x].type # u[x].type
            THEN app[s][x] ELSE u[x]
  BY <1>1, ApplyEffect DEF Good
<1>3. DOMAIN app'[s] = DOMAIN n.view
  BY <1>1, <1>2 DEF Good
<1>4. ASSUME OneType, NEW x \in DOMAIN n.view
      PROVE  app'[s][x].addr = n.view[x].addr
  <2>1. CASE x \in DOMAIN u
    <3>1. ASSUME x \in DOMAIN app[s]
          PROVE  app[s][x] \in Infos /\ u[x] \in Infos
      BY <2>1, <3>1, MapElim DEF ServersOK, View
    <3>2. x \in DOMAIN app[s] => app[s][x].type = u[x].type
      BY <1>4, <3>1 DEF OneType
    <3>. QED BY <1>2, <2>1, <3>2
  <2>2. CASE x \notin DOMAIN u
    <3>1. x \in DOMAIN monitor[s].view \ (D \cup DOMAIN u)
          /\ x \in DOMAIN app[s] \ (D \cup DOMAIN u)
      BY <2>2, <1>1 DEF Good
    <3>. QED BY <1>1, <1>2, <1>4, <3>1 DEF Good
  <2>. QED BY <2>1, <2>2
<1>5. Good(app'[s], lists'[s], n.view)
  BY <1>2, <1>3, <1>4 DEF Good
<1>6. info' \in View
  BY DEF ServersOK, View
<1>. QED BY <1>2, <1>5, <1>6, OneServer

\* The record of a monitor, with some fields changed.
LEMMA MonitorFields ==
    ASSUME ServersOK, NEW s \in Servers
    PROVE  /\ monitor[s] \in Monitors
           /\ \A v \in View : [monitor[s] EXCEPT !.view = v] \in Monitors
           /\ \A v \in View : [monitor[s] EXCEPT !.first = FALSE, !.view = v] \in Monitors
           /\ \A v \in View : [monitor[s] EXCEPT !.tmp = v] \in Monitors
           /\ \A v \in View : [monitor[s] EXCEPT !.pending = TRUE, !.tmp = v] \in Monitors
           /\ \A v \in View :
                [monitor[s] EXCEPT !.view = v, !.pending = FALSE, !.tmp = <<>>] \in Monitors
           /\ \A c \in Conns : [monitor[s] EXCEPT !.sock = c] \in Monitors
           /\ [monitor[s] EXCEPT !.sock = NoConn, !.pending = FALSE, !.tmp = <<>>] \in Monitors
<1>1. monitor[s] \in Monitors
  BY DEF ServersOK, Monitors, View
<1>2. <<>> \in View
  BY EmptyMap DEF View
<1>. QED BY <1>1, <1>2 DEF Monitors

\* The comparison of the lists.
LEMMA CheckSyncStep ==
    ASSUME ServersOK, ServersGood, NEW s \in Servers, NEW new \in View, UNCHANGED info,
           CheckSyncServers(s, monitor[s], new)
    PROVE  ServersOK' /\ ServersGood'
<1> DEFINE old == monitor[s].view
           u == Minus(new, DOMAIN new \ Moved(old, new))
           D == DOMAIN old \ DOMAIN new
           n == [monitor[s] EXCEPT !.view = new, !.pending = FALSE, !.tmp = <<>>]
<1>1. monitor' = [monitor EXCEPT ![s] = n] /\ Apply(s, u, D)
  BY DEF CheckSyncServers
<1>2. n \in Monitors /\ n.view = new
  BY MonitorFields DEF Monitors
<1>3. Moved(old, new) = {x \in DOMAIN new : x \in DOMAIN old => old[x].addr # new[x].addr}
  BY DEF Moved
<1>4. u \in View
  <2>1. new \in MapsOf(Servers, Infos)
    BY DEF View
  <2>2. u \in MapsOf(Servers, Infos)
    BY <2>1, MinusMap
  <2>. QED BY <2>2 DEF View
<1>5. DOMAIN u = Moved(old, new) /\ \A x \in DOMAIN u : new[x] = u[x]
  <2> DEFINE kept == DOMAIN new \ Moved(old, new)
  <2>1. DOMAIN new \ kept = Moved(old, new)
    BY <1>3
  <2>2. DOMAIN u = DOMAIN new \ kept /\ \A x \in DOMAIN new \ kept : u[x] = new[x]
    BY DEF Minus
  <2>. HIDE DEF u, kept
  <2>. QED BY <2>1, <2>2
<1> HIDE DEF u, n
<1>6. DOMAIN new = (DOMAIN old \ D) \cup DOMAIN u
  BY <1>3, <1>5
<1>7. \A x \in DOMAIN old \ (D \cup DOMAIN u) : new[x].addr = old[x].addr
  BY <1>3, <1>5
<1>. HIDE DEF D
<1>. QED BY <1>1, <1>2, <1>4, <1>5, <1>6, <1>7, ApplyGood

\* The first list a server gets.
LEMMA SyncFirstStep ==
    ASSUME NetOK, ServersOK, RegistryExact, ServersGood, NEW s \in Servers, SyncFirst(s)
    PROVE  ServersOK' /\ ServersGood'
<1> DEFINE all == Head(Incoming(s)).all
           v == Updated(monitor[s].view, all)
           n == [monitor[s] EXCEPT !.first = FALSE, !.view = v]
<1>1. all \in View /\ UNCHANGED info
  <2>1. Take(s, "syncAllServers")
    BY DEF SyncFirst
  <2>2. Head(Incoming(s)) \in Messages /\ Head(Incoming(s)).T = "syncAllServers"
        /\ UNCHANGED info
    BY <2>1, TakeEffect
  <2>. QED BY <2>2 DEF Messages, Updates, View, Views, MapsOf
<1>2. monitor' = [monitor EXCEPT ![s] = n] /\ Apply(s, all, {})
  BY DEF SyncFirst, ServersOK
<1> HIDE DEF all
<1>3. v \in View
  <2>1. monitor[s].view \in MapsOf(Servers, Infos)
    BY DEF ServersOK
  <2>2. all \in MapsOf(Servers, Infos)
    BY <1>1 DEF View
  <2>3. v \in MapsOf(Servers, Infos)
    BY <2>1, <2>2, UpdatedMap
  <2>. QED BY <2>3 DEF View
<1>4. n \in Monitors /\ n.view = v
  BY <1>3, MonitorFields DEF Monitors
<1>5. /\ DOMAIN v = (DOMAIN monitor[s].view \ {}) \cup DOMAIN all
      /\ \A x \in DOMAIN all : v[x] = all[x]
      /\ \A x \in DOMAIN monitor[s].view \ ({} \cup DOMAIN all) : v[x] = monitor[s].view[x]
  BY DEF Updated
<1> HIDE DEF v, n
<1>6. \A x \in DOMAIN monitor[s].view \ ({} \cup DOMAIN all) :
         v[x].addr = monitor[s].view[x].addr
  BY <1>5
<1>. QED BY <1>1, <1>2, <1>4, <1>5, <1>6, ApplyGood

\* Changes, and the list they make.
LEMMA UpdateOf ==
    ASSUME NetOK, ServersOK, RegistryExact, NEW s \in Servers, Take(s, "updateServers")
    PROVE  LET m == Head(Incoming(s))
           IN  /\ m.update \in View /\ DOMAIN m.update \cap m.del = {}
               /\ \A w \in View : Minus(Updated(w, m.update), m.del) \in View
               /\ UNCHANGED info
<1> DEFINE m == Head(Incoming(s))
<1>1. m \in Messages /\ m.T = "updateServers" /\ UNCHANGED info
  BY TakeEffect
<1>2. m.update \in View /\ DOMAIN m.update \cap m.del = {}
  BY <1>1 DEF Messages, Updates, View, Views, MapsOf
<1> HIDE DEF m
<1>3. ASSUME NEW w \in View
      PROVE  Minus(Updated(w, m.update), m.del) \in View
  <2>1. w \in MapsOf(Servers, Infos) /\ m.update \in MapsOf(Servers, Infos)
    BY <1>2 DEF View
  <2>2. Updated(w, m.update) \in MapsOf(Servers, Infos)
    BY <2>1, UpdatedMap
  <2>3. Minus(Updated(w, m.update), m.del) \in MapsOf(Servers, Infos)
    BY <2>2, MinusMap
  <2>. QED BY <2>3 DEF View
<1>. QED BY <1>1, <1>2, <1>3 DEF m

LEMMA UpdateStep ==
    ASSUME NetOK, ServersOK, RegistryExact, ServersGood, NEW s \in Servers, Update(s)
    PROVE  ServersOK' /\ ServersGood'
<1> DEFINE u == Head(Incoming(s)).update
           D == Head(Incoming(s)).del
           v == Minus(Updated(monitor[s].view, u), D)
           n == [monitor[s] EXCEPT !.view = v]
<1>1. /\ u \in View /\ DOMAIN u \cap D = {} /\ UNCHANGED info
      /\ v \in View
  <2>1. monitor[s].view \in View
    BY DEF ServersOK, View
  <2>. QED BY <2>1, UpdateOf DEF Update
<1>2. monitor' = [monitor EXCEPT ![s] = n] /\ Apply(s, u, D)
  BY DEF Update, ServersOK
<1>3. n \in Monitors /\ n.view = v
  BY <1>1, MonitorFields DEF Monitors
<1> HIDE DEF u, D
<1>4. v = [x \in (DOMAIN monitor[s].view \cup DOMAIN u) \ D |->
              IF x \in DOMAIN u THEN u[x] ELSE monitor[s].view[x]]
  BY DEF Minus, Updated
<1> HIDE DEF v, n
<1>5. /\ DOMAIN v = (DOMAIN monitor[s].view \ D) \cup DOMAIN u
      /\ \A x \in DOMAIN u : v[x] = u[x]
      /\ \A x \in DOMAIN monitor[s].view \ (D \cup DOMAIN u) : v[x] = monitor[s].view[x]
  BY <1>1, <1>4
<1>6. \A x \in DOMAIN monitor[s].view \ (D \cup DOMAIN u) :
         v[x].addr = monitor[s].view[x].addr
  BY <1>5
<1>. QED BY <1>1, <1>2, <1>3, <1>5, <1>6, ApplyGood

LEMMA SyncAgainStep ==
    ASSUME NetOK, ServersOK, RegistryExact, ServersGood, NEW s \in Servers, SyncAgain(s)
    PROVE  ServersOK' /\ ServersGood'
<1> DEFINE all == Head(Incoming(s)).all
           n == [monitor[s] EXCEPT !.pending = TRUE, !.tmp = all]
<1>1. all \in View /\ UNCHANGED info
  <2>1. Take(s, "syncAllServers")
    BY DEF SyncAgain
  <2>2. Head(Incoming(s)) \in Messages /\ Head(Incoming(s)).T = "syncAllServers"
        /\ UNCHANGED info
    BY <2>1, TakeEffect
  <2>. QED BY <2>2 DEF Messages, Updates, View, Views, MapsOf
<1>2. monitor' = [monitor EXCEPT ![s] = n] /\ UNCHANGED <<app, lists>>
  BY DEF SyncAgain, ServersOK
<1> HIDE DEF all
<1>3. n \in Monitors /\ n.view = monitor[s].view
  BY <1>1, MonitorFields DEF Monitors
<1>. HIDE DEF n
<1>. QED BY <1>1, <1>2, <1>3, MonitorOnly

LEMMA UpdateAsideStep ==
    ASSUME NetOK, ServersOK, RegistryExact, ServersGood, NEW s \in Servers, UpdateAside(s)
    PROVE  ServersOK' /\ ServersGood'
<1> DEFINE tmp == Minus(Updated(monitor[s].tmp, Head(Incoming(s)).update), Head(Incoming(s)).del)
           n == [monitor[s] EXCEPT !.tmp = tmp]
<1>1. tmp \in View /\ UNCHANGED info
  <2>1. monitor[s].tmp \in View
    BY DEF ServersOK, View
  <2>. QED BY <2>1, UpdateOf DEF UpdateAside
<1>2. CASE monitor' = [monitor EXCEPT ![s].tmp = tmp] /\ UNCHANGED <<app, lists>>
  <2>1. monitor' = [monitor EXCEPT ![s] = n]
    BY <1>2 DEF ServersOK
  <2>. HIDE DEF tmp
  <2>2. n \in Monitors /\ n.view = monitor[s].view
    BY <1>1, MonitorFields DEF Monitors
  <2>. HIDE DEF n
  <2>. QED BY <1>1, <1>2, <2>1, <2>2, MonitorOnly
<1>3. CASE CheckSyncServers(s, monitor[s], tmp)
  <2>. HIDE DEF tmp
  <2>. QED BY <1>1, <1>3, CheckSyncStep
<1>. QED BY <1>2, <1>3 DEF UpdateAside

LEMMA CrashServerStep ==
    ASSUME ServersOK, ServersGood, NEW s \in Servers, Crash(s)
    PROVE  ServersOK' /\ ServersGood'
<1>1. /\ info' = Minus(info, {s})
      /\ monitor' = [monitor EXCEPT ![s] = NewMonitor]
      /\ app' = [app EXCEPT ![s] = <<>>]
      /\ lists' = [lists EXCEPT ![s] = [t \in Types |-> {}]]
  BY DEF Crash
<1>2. <<>> \in View /\ DOMAIN <<>> = {}
  BY EmptyMap DEF View
<1>3. NewMonitor \in Monitors /\ NewMonitor.view = <<>>
  BY <1>2 DEF NewMonitor, Monitors
<1>4. info' \in View
  <2>1. info \in MapsOf(Servers, Infos)
    BY DEF ServersOK
  <2>2. Minus(info, {s}) \in MapsOf(Servers, Infos)
    BY <2>1, MinusMap
  <2>. QED BY <1>1, <2>2 DEF View
<1>5. app' \in [Servers -> View] /\ app'[s] = <<>>
      /\ \A r \in Servers \ {s} : app'[r] = app[r]
  BY <1>1, <1>2 DEF ServersOK, View
<1>6. /\ lists' \in [Servers -> [Types -> SUBSET Servers]] /\ lists'[s] = [t \in Types |-> {}]
      /\ \A r \in Servers \ {s} : lists'[r] = lists[r]
  BY <1>1 DEF ServersOK
<1>7. Good(app'[s], lists'[s], NewMonitor.view)
  BY <1>2, <1>3, <1>5, <1>6 DEF Good, Agree
<1>. QED BY <1>1, <1>3, <1>4, <1>5, <1>6, <1>7, OneServer

\* Every step keeps the types of the servers and what holds of them.
LEMMA ServerStep ==
    ASSUME NetOK, ServersOK, RegistryExact, ServersGood, [Next]_vars
    PROVE  ServersOK' /\ ServersGood'
<1>1. CASE UNCHANGED serverVars
  BY <1>1 DEF serverVars, ServersOK, ServersGood
<1>2. CASE \/ Tick \/ MasterRestart \/ UNCHANGED vars
           \/ \E c \in Conns : \/ RegisterRefused(c) \/ Register(c)
                               \/ UnregisteredLost(c) \/ ProxyOnClose(c) \/ Cut(c)
  <2>1. UNCHANGED serverVars
    BY <1>2 DEF Tick, MasterRestart, RegisterRefused, Register, UnregisteredLost,
                ProxyOnClose, Cut, vars
  <2>. QED BY <1>1, <2>1
<1>3. ASSUME NEW s \in Servers, NEW c \in Conns, Connect(s, c)
      PROVE  ServersOK' /\ ServersGood'
  <2> DEFINE n == [monitor[s] EXCEPT !.sock = c]
  <2>1. monitor' = [monitor EXCEPT ![s] = n] /\ UNCHANGED <<info, app, lists>>
    BY <1>3 DEF Connect, ServersOK
  <2>2. n \in Monitors /\ n.view = monitor[s].view
    BY MonitorFields DEF Monitors
  <2>. HIDE DEF n
  <2>. QED BY <2>1, <2>2, MonitorOnly
<1>4. ASSUME NEW s \in Servers, MonitorOnClose(s)
      PROVE  ServersOK' /\ ServersGood'
  <2> DEFINE n == [monitor[s] EXCEPT !.sock = NoConn, !.pending = FALSE, !.tmp = <<>>]
  <2>1. monitor' = [monitor EXCEPT ![s] = n] /\ UNCHANGED <<info, app, lists>>
    BY <1>4 DEF MonitorOnClose, ServersOK
  <2>2. n \in Monitors /\ n.view = monitor[s].view
    BY MonitorFields DEF Monitors
  <2>. HIDE DEF n
  <2>. QED BY <2>1, <2>2, MonitorOnly
<1>5. ASSUME NEW s \in Servers, SyncFirst(s) \/ SyncAgain(s) \/ Update(s) \/ UpdateAside(s)
      PROVE  ServersOK' /\ ServersGood'
  BY <1>5, SyncFirstStep, SyncAgainStep, UpdateStep, UpdateAsideStep
<1>6. ASSUME NEW s \in Servers, DelaySync(s)
      PROVE  ServersOK' /\ ServersGood'
  <2>1. monitor[s].tmp \in View
    BY DEF ServersOK, View
  <2>. QED BY <1>6, <2>1, CheckSyncStep DEF DelaySync
<1>7. ASSUME NEW s \in Servers, Start(s)
      PROVE  ServersOK' /\ ServersGood'
  <2>1. PICK i \in Infos : info' = With(info, s, i)
    BY <1>7 DEF Start
  <2>2. info \in MapsOf(Servers, Infos)
    BY DEF ServersOK
  <2>3. With(info, s, i) \in MapsOf(Servers, Infos)
    BY <2>2, WithMap
  <2>4. UNCHANGED <<monitor, app, lists>>
    BY <1>7 DEF Start
  <2>. QED BY <2>1, <2>3, <2>4 DEF ServersOK, ServersGood
<1>8. ASSUME NEW s \in Servers, Crash(s)
      PROVE  ServersOK' /\ ServersGood'
  BY <1>8, CrashServerStep
<1>. QED BY <1>2, <1>3, <1>4, <1>5, <1>6, <1>7, <1>8 DEF Next

\* What a step may take from the application's servers.
LEMMA KeepsStep ==
    ASSUME NetOK, ServersOK, RegistryExact, ServersGood, [Next]_vars
    PROVE  [KeepsServers]_vars
<1> SUFFICES ASSUME NEW s \in Servers, NEW x \in DOMAIN app[s] \ DOMAIN app'[s]
             PROVE  \/ s \notin DOMAIN info'
                    \/ monitor[s].pending
                    \/ /\ Incoming(s) # <<>> /\ Head(Incoming(s)).T = "updateServers"
                       /\ x \in Head(Incoming(s)).del
  BY DEF KeepsServers
<1>1. app'[s] # app[s]
  OBVIOUS
<1>2. CASE UNCHANGED app
  BY <1>1, <1>2
<1>3. ASSUME NEW r \in Servers, NEW u \in View, NEW D, Apply(r, u, D)
      PROVE  r = s /\ x \in D
  <2>1. Agree(app[r], lists[r])
    BY DEF ServersGood, Good
  <2>2. /\ \A q \in Servers \ {r} : app'[q] = app[q]
        /\ DOMAIN app'[r] = (DOMAIN app[r] \ D) \cup DOMAIN u
    BY <1>3, <2>1, ApplyEffect
  <2>. QED BY <1>1, <2>2
<1>4. ASSUME NEW r \in Servers, SyncFirst(r)
      PROVE  FALSE
  <2>1. Take(r, "syncAllServers") /\ Apply(r, Head(Incoming(r)).all, {})
    BY <1>4 DEF SyncFirst
  <2>2. Head(Incoming(r)) \in Messages /\ Head(Incoming(r)).T = "syncAllServers"
    BY <2>1, TakeEffect
  <2>3. Head(Incoming(r)).all \in View
    BY <2>2 DEF Messages, Updates, View, Views, MapsOf
  <2>. QED BY <1>3, <2>1, <2>3
<1>5. ASSUME NEW r \in Servers, Update(r)
      PROVE  /\ Incoming(s) # <<>> /\ Head(Incoming(s)).T = "updateServers"
             /\ x \in Head(Incoming(s)).del
  <2>1. /\ Take(r, "updateServers")
        /\ Apply(r, Head(Incoming(r)).update, Head(Incoming(r)).del)
    BY <1>5 DEF Update
  <2>2. Head(Incoming(r)).update \in View
    BY <2>1, UpdateOf
  <2>3. r = s /\ x \in Head(Incoming(r)).del
    BY <1>3, <2>1, <2>2
  <2>. QED BY <2>1, <2>3 DEF Take
<1>6. ASSUME NEW r \in Servers, UpdateAside(r) \/ DelaySync(r)
      PROVE  monitor[s].pending
  <2>1. monitor[r].pending
    BY <1>6 DEF UpdateAside, DelaySync
  <2>2. \A q \in Servers \ {r} : app'[q] = app[q]
    BY <1>6 DEF UpdateAside, DelaySync, CheckSyncServers, Apply, ServersOK
  <2>. QED BY <1>1, <2>1, <2>2
<1>7. ASSUME NEW r \in Servers, Crash(r)
      PROVE  s \notin DOMAIN info'
  <2>1. info' = Minus(info, {r}) /\ app' = [app EXCEPT ![r] = <<>>]
    BY <1>7 DEF Crash
  <2>2. r = s
    BY <1>1, <2>1 DEF ServersOK
  <2>. QED BY <2>1, <2>2 DEF Minus
<1>8. ASSUME \/ Tick \/ MasterRestart \/ UNCHANGED vars
             \/ \E c \in Conns : \/ RegisterRefused(c) \/ Register(c)
                                 \/ UnregisteredLost(c) \/ ProxyOnClose(c) \/ Cut(c)
             \/ \E r \in Servers : \/ \E c \in Conns : Connect(r, c)
                                   \/ MonitorOnClose(r) \/ SyncAgain(r) \/ Start(r)
      PROVE  UNCHANGED app
  BY <1>8 DEF Tick, MasterRestart, RegisterRefused, Register, UnregisteredLost, ProxyOnClose,
              Cut, Connect, MonitorOnClose, SyncAgain, Start, serverVars, vars
<1>. QED BY <1>2, <1>4, <1>5, <1>6, <1>7, <1>8 DEF Next

(***************************************************************************)
(* The last word on a server, of the messages on their way.                *)
(***************************************************************************)

LEMMA InfoInIs ==
    ASSUME NEW f, NEW x
    PROVE  InfoIn(f, x) = IF x \in DOMAIN f THEN {f[x]} ELSE {}
BY DEF InfoIn

Telling(d, x) == {i \in DOMAIN d : Tells(d[i], x)}

LEMMA TellingLast ==
    ASSUME NEW S, NEW d \in Seq(S), NEW x, Telling(d, x) # {}
    PROVE  /\ Max(Telling(d, x)) \in 1..Len(d)
           /\ Max(Telling(d, x)) \in Telling(d, x)
           /\ \A k \in Telling(d, x) : k <= Max(Telling(d, x))
<1>1. Len(d) \in Nat /\ Telling(d, x) \in SUBSET (1..Len(d))
  BY DEF Telling
<1>. QED BY <1>1, Largest

\* A message more has the last word on what it tells of.
LEMMA LastWordAppend ==
    ASSUME NEW S, NEW d \in Seq(S), NEW m \in S, NEW base, NEW x
    PROVE  LastWord(base, Append(d, m), x)
              = IF Tells(m, x) THEN InfoIn(Said(m), x) ELSE LastWord(base, d, x)
<1>1. PICK e, n, T, U : /\ e = Append(d, m) /\ n = Len(d)
                        /\ T = Telling(d, x) /\ U = Telling(e, x)
  OBVIOUS
<1>2. /\ n \in Nat /\ DOMAIN d = 1..n /\ DOMAIN e = 1..n + 1
      /\ e[n + 1] = m /\ \A i \in 1..n : e[i] = d[i]
  BY <1>1
<1>3. /\ LastWord(base, d, x) = InfoIn(IF T = {} THEN base ELSE Said(d[Max(T)]), x)
      /\ LastWord(base, e, x) = InfoIn(IF U = {} THEN base ELSE Said(e[Max(U)]), x)
  BY <1>1 DEF LastWord, Telling
<1>4. CASE Tells(m, x)
  <2>1. n + 1 \in U /\ U \in SUBSET Nat /\ \A k \in U : k <= n + 1
    BY <1>1, <1>2, <1>4 DEF Telling
  <2>2. Max(U) = n + 1
    BY <2>1, LargestIs
  <2>3. U # {} /\ e[Max(U)] = m
    BY <1>2, <2>1, <2>2
  <2>. QED BY <1>1, <1>3, <1>4, <2>3
<1>5. CASE ~Tells(m, x)
  <2>1. U = T
    <3>1. ASSUME NEW i \in 1..n + 1 PROVE i \in U <=> i \in T
      BY <1>1, <1>2, <1>5 DEF Telling
    <3>. QED BY <1>1, <1>2, <3>1 DEF Telling
  <2>2. T # {} => e[Max(T)] = d[Max(T)]
    BY <1>1, <1>2, TellingLast
  <2>. QED BY <1>1, <1>3, <1>5, <2>1, <2>2
<1>. QED BY <1>4, <1>5

\* Taking a message does not change what will be had in the end.
LEMMA LastWordTail ==
    ASSUME NEW S, NEW d \in Seq(S), d # <<>>, NEW base, NEW next, NEW x,
           InfoIn(next, x) = IF Tells(Head(d), x) THEN InfoIn(Said(Head(d)), x)
                             ELSE InfoIn(base, x)
    PROVE  LastWord(next, Tail(d), x) = LastWord(base, d, x)
<1>1. PICK e, n, T, U : /\ e = Tail(d) /\ n = Len(d)
                        /\ T = Telling(d, x) /\ U = Telling(e, x)
  OBVIOUS
<1>2. /\ n \in Nat /\ n >= 1 /\ DOMAIN d = 1..n /\ DOMAIN e = 1..n - 1 /\ e \in Seq(S)
      /\ Head(d) = d[1] /\ \A i \in 1..n - 1 : e[i] = d[i + 1]
  BY <1>1
<1>3. /\ LastWord(base, d, x) = InfoIn(IF T = {} THEN base ELSE Said(d[Max(T)]), x)
      /\ LastWord(next, e, x) = InfoIn(IF U = {} THEN next ELSE Said(e[Max(U)]), x)
  BY <1>1 DEF LastWord, Telling
<1>4. /\ \A i \in 1..n - 1 : i \in U <=> i + 1 \in T
      /\ 1 \in T <=> Tells(Head(d), x)
      /\ T \in SUBSET (1..n) /\ U \in SUBSET (1..n - 1)
  BY <1>1, <1>2 DEF Telling
<1>5. CASE U = {}
  <2>1. T \subseteq {1}
    <3>1. ASSUME NEW i \in T, i # 1 PROVE FALSE
      <4>1. i - 1 \in 1..n - 1 /\ (i - 1) + 1 = i
        BY <1>2, <1>4, <3>1
      <4>. QED BY <1>4, <1>5, <3>1, <4>1
    <3>. QED BY <3>1
  <2>2. CASE Tells(Head(d), x)
    <3>1. T = {1}
      BY <1>4, <2>1, <2>2
    <3>2. Max(T) = 1
      BY <3>1, LargestIs
    <3>. QED BY <1>1, <1>2, <1>3, <1>5, <2>2, <3>1, <3>2
  <2>3. CASE ~Tells(Head(d), x)
    <3>1. T = {}
      BY <1>4, <2>1, <2>3
    <3>. QED BY <1>1, <1>3, <1>5, <2>3, <3>1
  <2>. QED BY <2>2, <2>3
<1>6. CASE U # {}
  <2>1. PICK q : q = Max(U) /\ q \in 1..n - 1 /\ q \in U /\ \A k \in U : k <= q
    <3>1. n - 1 \in Nat
      BY <1>2
    <3>. QED BY <1>4, <1>6, <3>1, Largest
  <2>2. Max(T) = q + 1
    <3>1. q + 1 \in T
      BY <1>4, <2>1
    <3>2. ASSUME NEW k \in T PROVE k <= q + 1
      <4>1. CASE k = 1
        BY <2>1, <4>1
      <4>2. CASE k # 1
        <5>1. k - 1 \in 1..n - 1 /\ (k - 1) + 1 = k
          BY <1>2, <1>4, <4>2
        <5>2. k - 1 <= q
          BY <1>4, <2>1, <5>1
        <5>. QED BY <2>1, <5>1, <5>2
      <4>. QED BY <4>1, <4>2
    <3>3. T \in SUBSET Nat
      BY <1>4
    <3>. QED BY <3>1, <3>2, <3>3, LargestIs
  <2>3. T # {} /\ d[Max(T)] = e[Max(U)]
    BY <1>2, <1>4, <2>1, <2>2
  <2>. QED BY <1>1, <1>3, <1>6, <2>3
<1>. QED BY <1>5, <1>6

\* What is left of a list after an update.
LEMMA InfoAfterUpdate ==
    ASSUME NEW w, NEW m, m.T = "updateServers", DOMAIN m.update \cap m.del = {}, NEW x
    PROVE  InfoIn(Minus(Updated(w, m.update), m.del), x)
              = IF Tells(m, x) THEN InfoIn(Said(m), x) ELSE InfoIn(w, x)
<1>1. PICK u, D, v : u = m.update /\ D = m.del /\ v = Minus(Updated(w, u), D)
  OBVIOUS
<1>2. /\ DOMAIN v = (DOMAIN w \cup DOMAIN u) \ D
      /\ \A y \in DOMAIN v : v[y] = IF y \in DOMAIN u THEN u[y] ELSE w[y]
  BY <1>1 DEF Minus, Updated
<1>3. Said(m) = u /\ (Tells(m, x) <=> x \in DOMAIN u \cup D)
  BY <1>1 DEF Said, Tells
<1>4. DOMAIN u \cap D = {}
  BY <1>1
<1>5. InfoIn(v, x) = IF x \in DOMAIN u \cup D THEN InfoIn(u, x) ELSE InfoIn(w, x)
  BY <1>2, <1>4, InfoInIs
<1>. QED BY <1>1, <1>3, <1>5

(***************************************************************************)
(* What a server has of the master's pushes.                               *)
(***************************************************************************)

\* The list the next message is applied to.
Kept(m) == IF m.pending THEN m.tmp ELSE m.view

Follower(s) ==
    /\ s \in DOMAIN serversMap \ changedServers
    /\ monitor[s].sock = serversMap[s] /\ ~conns[serversMap[s]].cut

SocketOK(s) ==
    LET c == monitor[s].sock
    IN  c # NoConn => conns[c].open /\ conns[c].server = s

\* The first message of a server's first connection is a whole list.
FirstOK(s) ==
    LET c == monitor[s].sock
    IN  monitor[s].first =>
           /\ monitor[s].view = <<>> /\ ~monitor[s].pending
           /\ c # NoConn =>
                 /\ down[c] # <<>> => Head(down[c]).T = "syncAllServers"
                 /\ Follower(s) => down[c] # <<>>

FollowOK(s) ==
    Follower(s) =>
       \A x \in Servers :
          /\ x \in lastAllServers <=> Expected(s, x) # {}
          /\ x \in lastAllServers \ changedServers =>
                Expected(s, x) = {conns[serversMap[x]].info}

EachFollows == \A s \in Servers : SocketOK(s) /\ FirstOK(s) /\ FollowOK(s)

\* Nothing is on its way to a closed end, or before the registration.
PipesClear ==
    \A c \in Conns : ~conns[c].open \/ conns[c].master = "new" => down[c] = <<>>

\* Servers that the master knows and that did not change stay as they were.
MasterKept ==
    LET known == DOMAIN serversMap' \ changedServers'
    IN  known # {} =>
           /\ UNCHANGED lastAllServers /\ changedServers \subseteq changedServers'
           /\ \A x \in known :
                 /\ x \in DOMAIN serversMap /\ serversMap'[x] = serversMap[x]
                 /\ conns'[serversMap[x]].info = conns[serversMap[x]].info
                 /\ conns[serversMap[x]].cut => conns'[serversMap[x]].cut

LEMMA FollowParts ==
    ASSUME NetOK
    PROVE  ViewFollows <=> \A s \in Servers : FollowOK(s)
<1>1. DOMAIN serversMap \subseteq Servers
  BY MapElim DEF NetOK
<1>. QED BY <1>1 DEF ViewFollows, FollowOK, Follower

LEMMA ExpectedIs ==
    ASSUME NEW s, NEW x
    PROVE  Expected(s, x) = LastWord(Kept(monitor[s]), down[monitor[s].sock], x)
BY DEF Expected, Kept

\* A server that the step does not touch, but for messages that are lost with
\* its connection.
LEMMA Untouched ==
    ASSUME NetOK', RegistryExact', NEW s \in Servers, SocketOK(s), FirstOK(s), FollowOK(s),
           monitor'[s] = monitor[s], MasterKept,
           monitor[s].sock # NoConn =>
              LET c == monitor[s].sock
              IN  /\ conns'[c].open /\ conns'[c].server = conns[c].server
                  /\ \/ down'[c] = down[c]
                     \/ down'[c] = <<>> /\ (conns'[c].cut \/ conns'[c].master # "registered")
    PROVE  SocketOK(s)' /\ FirstOK(s)' /\ FollowOK(s)'
<1>1. PICK c : c = monitor[s].sock
  OBVIOUS
<1>2. SocketOK(s)'
  BY DEF SocketOK
<1>3. ASSUME Follower(s)'
      PROVE  /\ Follower(s)
             /\ UNCHANGED lastAllServers /\ changedServers \subseteq changedServers'
             /\ c # NoConn => down'[c] = down[c]
  <2>1. s \in DOMAIN serversMap' \ changedServers' /\ serversMap'[s] = c /\ ~conns'[c].cut
    BY <1>1, <1>3 DEF Follower
  <2>2. /\ s \in DOMAIN serversMap /\ serversMap[s] = c /\ ~conns[c].cut
        /\ UNCHANGED lastAllServers /\ changedServers \subseteq changedServers'
    BY <2>1 DEF MasterKept
  <2>3. conns'[c].master = "registered"
    BY <2>1 DEF RegistryExact
  <2>. QED BY <1>1, <2>1, <2>2, <2>3 DEF Follower
<1>4. FirstOK(s)'
  BY <1>1, <1>3 DEF FirstOK
<1>5. FollowOK(s)'
  <2>1. SUFFICES ASSUME Follower(s)', NEW x \in Servers
                 PROVE  /\ x \in lastAllServers' <=> Expected(s, x)' # {}
                        /\ x \in lastAllServers' \ changedServers' =>
                              Expected(s, x)' = {conns'[serversMap'[x]].info}
    BY DEF FollowOK
  <2>2. c # NoConn
    <3>1. s \in DOMAIN serversMap' /\ serversMap'[s] = c
      BY <1>1, <2>1 DEF Follower
    <3>2. c \in Conns
      BY <3>1, MapElim DEF NetOK
    <3>. QED BY <3>2, DiscoveryAssumption
  <2>3. /\ Follower(s) /\ UNCHANGED lastAllServers /\ changedServers \subseteq changedServers'
        /\ down'[c] = down[c]
    BY <1>3, <2>1, <2>2
  <2>4. Expected(s, x)' = LastWord(Kept(monitor'[s]), down'[monitor'[s].sock], x)
    BY DEF Expected, Kept
  <2>5. Expected(s, x)' = Expected(s, x)
    BY <1>1, <2>3, <2>4, ExpectedIs
  <2>6. ASSUME x \in lastAllServers' \ changedServers'
        PROVE  conns'[serversMap'[x]].info = conns[serversMap[x]].info
    <3>1. x \in DOMAIN serversMap' \ changedServers'
      BY <2>6 DEF RegistryExact
    <3>. QED BY <3>1 DEF MasterKept
  <2>7. /\ x \in lastAllServers <=> Expected(s, x) # {}
        /\ x \in lastAllServers \ changedServers =>
              Expected(s, x) = {conns[serversMap[x]].info}
    BY <2>3 DEF FollowOK
  <2>. QED BY <2>3, <2>5, <2>6, <2>7
<1>. QED BY <1>2, <1>4, <1>5

\* A step of the master or the network: the servers do nothing.
LEMMA MasterMoves ==
    ASSUME NetOK, ServersOK, NetOK', RegistryExact', EachFollows, PipesClear,
           UNCHANGED monitor, MasterKept,
           \A c \in Conns :
              /\ conns'[c].open <=> conns[c].open
              /\ conns[c].open => conns'[c].server = conns[c].server
              /\ conns'[c].master = "new" => conns[c].master = "new"
              /\ \/ down'[c] = down[c]
                 \/ down'[c] = <<>> /\ (conns'[c].cut \/ conns'[c].master # "registered")
    PROVE  EachFollows' /\ PipesClear'
<1>1. ASSUME NEW s \in Servers
      PROVE  SocketOK(s)' /\ FirstOK(s)' /\ FollowOK(s)'
  <2>1. SocketOK(s) /\ FirstOK(s) /\ FollowOK(s)
    BY DEF EachFollows
  <2>2. monitor[s].sock \in Conns \cup {NoConn} /\ monitor'[s] = monitor[s]
    BY DEF ServersOK
  <2>3. ASSUME monitor[s].sock # NoConn
        PROVE  LET c == monitor[s].sock
               IN  /\ conns'[c].open /\ conns'[c].server = conns[c].server
                   /\ \/ down'[c] = down[c]
                      \/ down'[c] = <<>> /\ (conns'[c].cut \/ conns'[c].master # "registered")
    BY <2>1, <2>2, <2>3 DEF SocketOK
  <2>. QED BY <2>1, <2>2, <2>3, Untouched
<1>2. PipesClear'
  BY DEF PipesClear
<1>. QED BY <1>1, <1>2 DEF EachFollows

\* A closing end leaves everything but itself as it was.
LEMMA EndClosedRest ==
    ASSUME NetOK, NEW c \in Conns, NEW end \in {"server", "master"}, EndClosed(c, end)
    PROVE  /\ conns'[c].open <=> conns[c].open /\ end # "server"
           /\ conns'[c].open \/ conns'[c].master # "closed" =>
                 /\ conns'[c].server = conns[c].server /\ conns'[c].info = conns[c].info
                 /\ conns'[c].cut = conns[c].cut
<1> DEFINE n == [conns[c] EXCEPT !.open = @ /\ end # "server",
                                 !.master = IF end = "master" THEN "closed" ELSE @]
<1>1. conns'[c] = IF n.open \/ n.master # "closed" THEN n ELSE Free
  BY DEF EndClosed, NetOK
<1>2. conns[c] \in Connections \cup {Free}
  BY DEF NetOK
<1>3. CASE conns[c] \in Connections
  <2>1. /\ n.open = (conns[c].open /\ end # "server")
        /\ n.server = conns[c].server /\ n.info = conns[c].info /\ n.cut = conns[c].cut
    BY <1>3 DEF Connections
  <2>. HIDE DEF n
  <2>2. CASE n.open \/ n.master # "closed"
    <3>1. conns'[c] = n
      BY <1>1, <2>2
    <3>. QED BY <2>1, <3>1
  <2>3. CASE ~(n.open \/ n.master # "closed")
    <3>1. conns'[c] = Free
      BY <1>1, <2>3
    <3>2. ~conns'[c].open /\ conns'[c].master = "closed"
      BY <3>1 DEF Free
    <3>. QED BY <2>1, <2>3, <3>2
  <2>. QED BY <2>2, <2>3
<1>4. CASE conns[c] = Free
  <2>1. conns[c].open = FALSE /\ conns[c].master = "closed"
    BY <1>4 DEF Free
  <2>2. (conns[c].open /\ end # "server") = FALSE
    BY <2>1
  <2>3. (IF end = "master" THEN "closed" ELSE conns[c].master) = "closed"
    BY <2>1
  <2>4. n = [conns[c] EXCEPT !.open = FALSE, !.master = "closed"]
    BY ONLY <2>2, <2>3
  <2>5. n.open = FALSE /\ n.master = "closed"
    BY <2>4, <1>4 DEF Free
  <2>. HIDE DEF n
  <2>6. conns'[c] = Free
    BY <1>1, <2>5
  <2>. QED BY <2>1, <2>6, <1>4
<1>. QED BY <1>2, <1>3, <1>4

\* Nothing of the master's changes, and what changes of a connection does not
\* concern a server that is registered.
LEMMA MasterKeptIf ==
    ASSUME NetOK, RegistryExact, UNCHANGED masterVars,
           \A c \in Conns : conns[c].master = "registered" =>
              conns'[c].info = conns[c].info /\ (conns[c].cut => conns'[c].cut)
    PROVE  MasterKept
<1>1. \A x \in DOMAIN serversMap :
         serversMap[x] \in Conns /\ conns[serversMap[x]].master = "registered"
  BY MapElim DEF NetOK, RegistryExact
<1>. QED BY <1>1 DEF MasterKept, masterVars

LEMMA NewEndsFollow ==
    ASSUME NetOK, ServersOK, RegistryExact, NetOK', RegistryExact', EachFollows, PipesClear,
           NEW c \in Conns, RegisterRefused(c) \/ UnregisteredLost(c)
    PROVE  EachFollows' /\ PipesClear'
<1>1. /\ EndClosed(c, "master") /\ conns[c].master = "new"
      /\ UNCHANGED <<masterVars, down, faults, serverVars>>
  BY DEF RegisterRefused, UnregisteredLost
<1>2. /\ \A d \in Conns \ {c} : conns'[d] = conns[d]
      /\ conns'[c].master = "closed" /\ (conns'[c].open <=> conns[c].open)
      /\ conns'[c].open => conns'[c].server = conns[c].server
  BY <1>1, EndClosedEffect, EndClosedRest
<1>3. MasterKept
  BY <1>1, <1>2, MasterKeptIf
<1>. QED BY <1>1, <1>2, <1>3, MasterMoves DEF serverVars

LEMMA RegisterFollow ==
    ASSUME NetOK, ServersOK, RegistryExact, NetOK', RegistryExact', EachFollows, PipesClear,
           NEW c \in Conns, Register(c)
    PROVE  EachFollows' /\ PipesClear'
<1>1. conns[c] \in Connections
  BY DEF NetOK, Register, Free
<1>2. /\ conns' = [conns EXCEPT ![c].master = "registered"]
      /\ UNCHANGED <<lastAllServers, down, monitor>> /\ conns[c].master = "new"
      /\ OnAddServer(conns[c].server, c)
  BY DEF Register, serverVars
<1>3. /\ \A d \in Conns \ {c} : conns'[d] = conns[d]
      /\ conns'[c].master = "registered" /\ conns'[c].open = conns[c].open
      /\ conns'[c].server = conns[c].server
  BY <1>1, <1>2 DEF NetOK, Connections
<1>4. MasterKept
  <2>1. /\ changedServers' = changedServers \cup {conns[c].server}
        /\ DOMAIN serversMap' = DOMAIN serversMap \cup {conns[c].server}
        /\ \A x \in DOMAIN serversMap \ {conns[c].server} : serversMap'[x] = serversMap[x]
    <3>1. PICK s : s = conns[c].server
      OBVIOUS
    <3>2. serversMap' = With(serversMap, s, c) /\ changedServers' = changedServers \cup {s}
      BY <1>2, <3>1 DEF OnAddServer
    <3>3. /\ DOMAIN serversMap' = DOMAIN serversMap \cup {s}
          /\ \A x \in DOMAIN serversMap \ {s} : serversMap'[x] = serversMap[x]
      BY ONLY <3>2 DEF With
    <3>. QED BY <3>1, <3>2, <3>3
  <2>2. \A x \in DOMAIN serversMap : serversMap[x] # c
    BY <1>2 DEF RegistryExact
  <2>3. \A x \in DOMAIN serversMap : serversMap[x] \in Conns
    BY MapElim DEF NetOK
  <2>. QED BY <1>2, <1>3, <2>1, <2>2, <2>3 DEF MasterKept
<1>. QED BY <1>2, <1>3, <1>4, MasterMoves

LEMMA ProxyOnCloseFollow ==
    ASSUME NetOK, ServersOK, RegistryExact, NetOK', RegistryExact', EachFollows, PipesClear,
           NEW c \in Conns, ProxyOnClose(c)
    PROVE  EachFollows' /\ PipesClear'
<1>1. /\ EndClosed(c, "master") /\ conns[c].master = "registered" /\ OnRemoveServer(c)
      /\ down' = [down EXCEPT ![c] = <<>>] /\ UNCHANGED <<lastAllServers, monitor>>
  BY DEF ProxyOnClose, serverVars
<1>2. /\ \A d \in Conns \ {c} : conns'[d] = conns[d]
      /\ conns'[c].master = "closed" /\ (conns'[c].open <=> conns[c].open)
      /\ conns'[c].open => conns'[c].server = conns[c].server
  BY <1>1, EndClosedEffect, EndClosedRest
<1>3. \A d \in Conns : down'[d] = IF d = c THEN <<>> ELSE down[d]
  BY <1>1 DEF NetOK
<1>4. MasterKept
  <2>1. PICK s : s = conns[c].server
    OBVIOUS
  <2>2. s \in DOMAIN serversMap /\ serversMap[s] = c
    BY <1>1, <2>1 DEF RegistryExact
  <2>3. serversMap' = Minus(serversMap, {s}) /\ changedServers' = changedServers \cup {s}
    BY <1>1, <2>1, <2>2 DEF OnRemoveServer
  <2>4. /\ DOMAIN serversMap' = DOMAIN serversMap \ {s}
        /\ \A x \in DOMAIN serversMap \ {s} : serversMap'[x] = serversMap[x]
    BY <2>3, MinusValues
  <2>5. \A x \in DOMAIN serversMap \ {s} : serversMap[x] \in Conns \ {c}
    BY <2>1, MapElim DEF NetOK, RegistryExact
  <2>. QED BY <1>1, <1>2, <2>3, <2>4, <2>5 DEF MasterKept
<1>. QED BY <1>1, <1>2, <1>3, <1>4, MasterMoves

LEMMA CutFollow ==
    ASSUME NetOK, ServersOK, RegistryExact, NetOK', RegistryExact', EachFollows, PipesClear,
           NEW c \in Conns, Cut(c)
    PROVE  EachFollows' /\ PipesClear'
<1>1. conns[c] \in Connections
  BY DEF NetOK, Cut
<1>2. /\ conns' = [conns EXCEPT ![c].cut = TRUE] /\ down' = [down EXCEPT ![c] = <<>>]
      /\ UNCHANGED masterVars /\ UNCHANGED monitor
  BY DEF Cut, serverVars
<1>3. /\ \A d \in Conns \ {c} : conns'[d] = conns[d] /\ down'[d] = down[d]
      /\ conns'[c].cut /\ down'[c] = <<>>
      /\ conns'[c].open = conns[c].open /\ conns'[c].server = conns[c].server
      /\ conns'[c].info = conns[c].info /\ conns'[c].master = conns[c].master
  BY <1>1, <1>2 DEF NetOK, Connections
<1>4. MasterKept
  BY <1>2, <1>3, MasterKeptIf
<1>. QED BY <1>2, <1>3, <1>4, MasterMoves

LEMMA MasterRestartFollow ==
    ASSUME NetOK, ServersOK, NetOK', RegistryExact', EachFollows, PipesClear, MasterRestart
    PROVE  EachFollows' /\ PipesClear'
<1>1. /\ serversMap' = <<>> /\ UNCHANGED <<down, monitor>>
      /\ conns' = [c \in Conns |-> IF conns[c].open THEN [conns[c] EXCEPT !.master = "closed"]
                                   ELSE Free]
  BY DEF MasterRestart, serverVars
<1>2. MasterKept
  <2>1. DOMAIN serversMap' = {}
    BY <1>1, EmptyMap
  <2>. QED BY <2>1 DEF MasterKept
<1>3. ASSUME NEW c \in Conns
      PROVE  /\ conns'[c].open <=> conns[c].open
             /\ conns[c].open => conns'[c].server = conns[c].server
             /\ conns'[c].master = "closed"
  <2>1. CASE conns[c].open
    <3>1. conns[c] \in Connections
      BY <2>1 DEF NetOK, Free
    <3>2. conns'[c] = [conns[c] EXCEPT !.master = "closed"]
      BY <1>1, <2>1
    <3>. QED BY <3>1, <3>2 DEF Connections
  <2>2. CASE ~conns[c].open
    BY <1>1, <2>2 DEF Free
  <2>. QED BY <2>1, <2>2
<1>. QED BY <1>1, <1>2, <1>3, MasterMoves

\* A step of server s and its connection: the other servers and connections
\* are as they were.
LEMMA ServerMoves ==
    ASSUME NetOK, ServersOK, RegistryExact, NetOK', RegistryExact', EachFollows,
           NEW s \in Servers, NEW c, UNCHANGED masterVars,
           \A d \in Conns \ {c} : conns'[d] = conns[d] /\ down'[d] = down[d],
           c \in Conns => /\ conns[c].open => conns[c].server = s
                          /\ conns[c].master = "registered" =>
                                /\ conns'[c].info = conns[c].info
                                /\ conns[c].cut => conns'[c].cut,
           \A r \in Servers \ {s} : monitor'[r] = monitor[r],
           SocketOK(s)' /\ FirstOK(s)' /\ FollowOK(s)'
    PROVE  EachFollows'
<1>1. MasterKept
  <2>1. \A d \in Conns : conns[d].master = "registered" =>
           conns'[d].info = conns[d].info /\ (conns[d].cut => conns'[d].cut)
    OBVIOUS
  <2>. QED BY <2>1, MasterKeptIf
<1>2. ASSUME NEW r \in Servers \ {s}
      PROVE  SocketOK(r)' /\ FirstOK(r)' /\ FollowOK(r)'
  <2>1. SocketOK(r) /\ FirstOK(r) /\ FollowOK(r) /\ monitor'[r] = monitor[r]
    BY DEF EachFollows
  <2>2. PICK d : d = monitor[r].sock
    OBVIOUS
  <2>3. ASSUME d # NoConn
        PROVE  conns'[d].open /\ conns'[d].server = conns[d].server /\ down'[d] = down[d]
    <3>1. d \in Conns
      BY <2>2, <2>3 DEF ServersOK
    <3>2. conns[d].open /\ conns[d].server = r
      BY <2>1, <2>2, <2>3 DEF SocketOK
    <3>3. d # c
      BY <3>1, <3>2
    <3>. QED BY <3>1, <3>2, <3>3
  <2>. QED BY <1>1, <2>1, <2>2, <2>3, Untouched
<1>. QED BY <1>2 DEF EachFollows

\* A server whose connection is not registered with the master follows nobody.
LEMMA NoFollower ==
    ASSUME NetOK', RegistryExact', NEW s \in Servers,
           monitor'[s].sock \in Conns => conns'[monitor'[s].sock].master # "registered"
    PROVE  ~Follower(s)'
<1>1. SUFFICES ASSUME Follower(s)' PROVE FALSE
  OBVIOUS
<1>2. s \in DOMAIN serversMap' /\ monitor'[s].sock = serversMap'[s]
  BY <1>1 DEF Follower
<1>3. serversMap'[s] \in Conns
  BY <1>2, MapElim DEF NetOK
<1>. QED BY <1>2, <1>3 DEF RegistryExact

LEMMA ConnectFollow ==
    ASSUME NetOK, ServersOK, RegistryExact, NetOK', ServersOK', RegistryExact',
           EachFollows, PipesClear, NEW s \in Servers, NEW c \in Conns, Connect(s, c)
    PROVE  EachFollows' /\ PipesClear'
<1> DEFINE n == [server |-> s, info |-> info[s], master |-> "new", open |-> TRUE, cut |-> FALSE]
<1>1. /\ conns' = [conns EXCEPT ![c] = n] /\ conns[c] = Free
      /\ monitor' = [monitor EXCEPT ![s].sock = c] /\ UNCHANGED <<masterVars, down>>
      /\ monitor[s].sock = NoConn
  BY DEF Connect
<1>2. n.server = s /\ n.master = "new" /\ n.open /\ ~n.cut
  OBVIOUS
<1> HIDE DEF n
<1>3. /\ conns'[c].server = s /\ conns'[c].master = "new" /\ conns'[c].open
      /\ \A d \in Conns \ {c} : conns'[d] = conns[d]
  BY <1>1, <1>2 DEF NetOK
<1>4. ~conns[c].open /\ conns[c].master = "closed"
  BY <1>1 DEF Free
<1>5. down'[c] = <<>>
  BY <1>1, <1>4 DEF PipesClear
<1>6. /\ monitor'[s].sock = c /\ monitor'[s].first = monitor[s].first
      /\ monitor'[s].view = monitor[s].view /\ monitor'[s].pending = monitor[s].pending
      /\ \A r \in Servers \ {s} : monitor'[r] = monitor[r]
  BY <1>1 DEF ServersOK
<1>7. ~Follower(s)'
  BY <1>3, <1>6, NoFollower
<1>8. SocketOK(s)' /\ FirstOK(s)' /\ FollowOK(s)'
  <2>1. FirstOK(s)
    BY DEF EachFollows
  <2>. QED BY <1>3, <1>5, <1>6, <1>7, <2>1 DEF SocketOK, FirstOK, FollowOK
<1>9. EachFollows'
  BY <1>1, <1>3, <1>4, <1>6, <1>8, ServerMoves
<1>10. PipesClear'
  BY <1>1, <1>3, <1>5 DEF PipesClear
<1>. QED BY <1>9, <1>10

\* The server's end closes, or the server dies: it starts afresh.
LEMMA ServerEnds ==
    ASSUME NetOK, ServersOK, RegistryExact, NetOK', RegistryExact', EachFollows, PipesClear,
           NEW s \in Servers, NEW n, monitor' = [monitor EXCEPT ![s] = n], n.sock = NoConn,
           n.first => n.view = <<>> /\ ~n.pending, UNCHANGED masterVars,
           LET c == monitor[s].sock
           IN  IF c = NoConn THEN UNCHANGED <<conns, down>>
               ELSE EndClosed(c, "server") /\ down' = [down EXCEPT ![c] = <<>>]
    PROVE  EachFollows' /\ PipesClear'
<1>1. monitor'[s] = n /\ \A r \in Servers \ {s} : monitor'[r] = monitor[r]
  BY DEF ServersOK
<1>2. ~Follower(s)'
  BY <1>1, NoFollower, DiscoveryAssumption
<1>3. SocketOK(s)' /\ FirstOK(s)' /\ FollowOK(s)'
  BY <1>1, <1>2 DEF SocketOK, FirstOK, FollowOK
<1>4. PICK c : c = monitor[s].sock
  OBVIOUS
<1>5. CASE c = NoConn
  <2>1. UNCHANGED <<conns, down>> /\ c \notin Conns
    BY <1>4, <1>5, DiscoveryAssumption
  <2>. QED BY <1>1, <1>3, <2>1, ServerMoves DEF PipesClear
<1>6. CASE c # NoConn
  <2>1. c \in Conns /\ conns[c].server = s
    BY <1>4, <1>6 DEF ServersOK, EachFollows, SocketOK
  <2>2. EndClosed(c, "server") /\ down' = [down EXCEPT ![c] = <<>>]
    BY <1>4, <1>6
  <2>3. /\ \A d \in Conns \ {c} : conns'[d] = conns[d] /\ down'[d] = down[d]
        /\ down'[c] = <<>>
    BY <2>1, <2>2, EndClosedEffect DEF NetOK
  <2>4. conns[c].master = "registered" =>
           conns'[c].info = conns[c].info /\ (conns[c].cut => conns'[c].cut)
    BY <2>1, <2>2, EndClosedEffect, EndClosedRest
  <2>5. EachFollows'
    BY <1>1, <1>3, <2>1, <2>3, <2>4, ServerMoves
  <2>6. PipesClear'
    BY <2>3 DEF PipesClear
  <2>. QED BY <2>5, <2>6
<1>. QED BY <1>5, <1>6

LEMMA MonitorOnCloseFollow ==
    ASSUME NetOK, ServersOK, RegistryExact, NetOK', RegistryExact', EachFollows, PipesClear,
           NEW s \in Servers, MonitorOnClose(s)
    PROVE  EachFollows' /\ PipesClear'
<1> DEFINE n == [monitor[s] EXCEPT !.sock = NoConn, !.pending = FALSE, !.tmp = <<>>]
<1>1. monitor' = [monitor EXCEPT ![s] = n]
  BY DEF MonitorOnClose, ServersOK
<1>2. n.sock = NoConn /\ n.first = monitor[s].first /\ n.view = monitor[s].view /\ ~n.pending
  BY DEF ServersOK
<1>3. n.first => n.view = <<>> /\ ~n.pending
  BY <1>2 DEF EachFollows, FirstOK
<1>4. /\ UNCHANGED masterVars /\ monitor[s].sock # NoConn
      /\ EndClosed(monitor[s].sock, "server") /\ down' = [down EXCEPT ![monitor[s].sock] = <<>>]
  BY DEF MonitorOnClose
<1> HIDE DEF n
<1>. QED BY <1>1, <1>2, <1>3, <1>4, ServerEnds

LEMMA CrashFollow ==
    ASSUME NetOK, ServersOK, RegistryExact, NetOK', RegistryExact', EachFollows, PipesClear,
           NEW s \in Servers, Crash(s)
    PROVE  EachFollows' /\ PipesClear'
<1>1. NewMonitor.sock = NoConn /\ NewMonitor.view = <<>> /\ ~NewMonitor.pending
  BY DEF NewMonitor
<1>2. /\ monitor' = [monitor EXCEPT ![s] = NewMonitor] /\ UNCHANGED masterVars
      /\ LET c == monitor[s].sock
         IN  IF c = NoConn THEN UNCHANGED <<conns, down>>
             ELSE EndClosed(c, "server") /\ down' = [down EXCEPT ![c] = <<>>]
  BY DEF Crash
<1>. QED BY <1>1, <1>2, ServerEnds

\* Server s takes a message: what it will have stays the same.
LEMMA Taken ==
    ASSUME NetOK, ServersOK, RegistryExact, NetOK', RegistryExact', EachFollows, PipesClear,
           NEW s \in Servers, NEW T, Take(s, T), NEW n, monitor' = [monitor EXCEPT ![s] = n],
           n.sock = monitor[s].sock, ~n.first,
           \A x \in Servers : InfoIn(Kept(n), x) =
              IF Tells(Head(Incoming(s)), x) THEN InfoIn(Said(Head(Incoming(s))), x)
              ELSE InfoIn(Kept(monitor[s]), x)
    PROVE  EachFollows' /\ PipesClear'
<1>1. PICK c : c = monitor[s].sock
  OBVIOUS
<1>2. /\ down[c] # <<>> /\ Incoming(s) = down[c] /\ c # NoConn
      /\ down' = [down EXCEPT ![c] = Tail(down[c])] /\ UNCHANGED <<masterVars, conns>>
  BY <1>1 DEF Take, Incoming
<1>3. c \in Conns /\ conns[c].open /\ conns[c].server = s
  BY <1>1, <1>2 DEF ServersOK, EachFollows, SocketOK
<1>4. /\ down'[c] = Tail(down[c]) /\ \A d \in Conns \ {c} : down'[d] = down[d]
      /\ monitor'[s] = n /\ \A r \in Servers \ {s} : monitor'[r] = monitor[r]
  BY <1>2, <1>3 DEF NetOK, ServersOK
<1>5. SocketOK(s)' /\ FirstOK(s)'
  BY <1>1, <1>2, <1>3, <1>4 DEF SocketOK, FirstOK
<1>6. ASSUME NEW x \in Servers PROVE Expected(s, x)' = Expected(s, x)
  <2>1. down[c] \in Seq(Messages)
    BY <1>3 DEF NetOK
  <2>2. Expected(s, x)' = LastWord(Kept(monitor'[s]), down'[monitor'[s].sock], x)
    BY DEF Expected, Kept
  <2>3. Expected(s, x)' = LastWord(Kept(n), Tail(down[c]), x)
    BY <1>1, <1>4, <2>2
  <2>4. PICK b, a : b = Kept(monitor[s]) /\ a = Kept(n)
    OBVIOUS
  <2>5. InfoIn(a, x) = IF Tells(Head(down[c]), x) THEN InfoIn(Said(Head(down[c])), x)
                       ELSE InfoIn(b, x)
    BY <1>2, <2>4
  <2>6. LastWord(a, Tail(down[c]), x) = LastWord(b, down[c], x)
    BY ONLY <1>2, <2>1, <2>5, LastWordTail
  <2>7. Expected(s, x) = LastWord(b, down[c], x)
    BY <1>1, <2>4, ExpectedIs
  <2>. QED BY <2>3, <2>4, <2>6, <2>7
<1>7. FollowOK(s)'
  <2>1. FollowOK(s) /\ UNCHANGED <<serversMap, lastAllServers, changedServers, conns>>
    BY <1>2 DEF EachFollows, masterVars
  <2>2. Follower(s)' => Follower(s)
    BY <1>1, <1>4, <2>1 DEF Follower
  <2>. QED BY <1>6, <2>1, <2>2 DEF FollowOK
<1>8. EachFollows'
  BY <1>2, <1>3, <1>4, <1>5, <1>7, ServerMoves
<1>9. PipesClear'
  BY <1>2, <1>4 DEF PipesClear
<1>. QED BY <1>8, <1>9

LEMMA SyncFirstFollow ==
    ASSUME NetOK, ServersOK, RegistryExact, NetOK', RegistryExact', EachFollows, PipesClear,
           NEW s \in Servers, SyncFirst(s)
    PROVE  EachFollows' /\ PipesClear'
<1>1. Take(s, "syncAllServers") /\ monitor[s].first
  BY DEF SyncFirst
<1>2. PICK m : m = Head(Incoming(s)) /\ m.T = "syncAllServers"
  BY <1>1 DEF Take
<1>3. PICK v : v = Updated(monitor[s].view, m.all)
  OBVIOUS
<1>4. PICK n : n = [monitor[s] EXCEPT !.first = FALSE, !.view = v]
  OBVIOUS
<1>5. monitor' = [monitor EXCEPT ![s] = n]
  BY <1>2, <1>3, <1>4 DEF SyncFirst, ServersOK
<1>6. n.sock = monitor[s].sock /\ ~n.first /\ n.view = v /\ n.pending = monitor[s].pending
  BY <1>4 DEF ServersOK
<1>7. monitor[s].view = <<>> /\ ~monitor[s].pending
  BY <1>1 DEF EachFollows, FirstOK
<1>8. ASSUME NEW x \in Servers
      PROVE  InfoIn(Kept(n), x) = IF Tells(m, x) THEN InfoIn(Said(m), x)
                                  ELSE InfoIn(Kept(monitor[s]), x)
  <2>1. Kept(n) = v
    BY <1>6, <1>7 DEF Kept
  <2>2. Tells(m, x) /\ Said(m) = m.all
    BY <1>2 DEF Tells, Said
  <2>3. DOMAIN monitor[s].view = {}
    BY <1>7, EmptyMap
  <2>4. v = [y \in DOMAIN monitor[s].view \cup DOMAIN m.all |->
                IF y \in DOMAIN m.all THEN m.all[y] ELSE monitor[s].view[y]]
    BY <1>3 DEF Updated
  <2>5. DOMAIN v = DOMAIN m.all /\ \A y \in DOMAIN v : v[y] = m.all[y]
    BY <2>3, <2>4
  <2>6. InfoIn(v, x) = InfoIn(m.all, x)
    BY <2>5, InfoInIs
  <2>. QED BY <2>1, <2>2, <2>6
<1>9. \A x \in Servers : InfoIn(Kept(n), x) =
         IF Tells(Head(Incoming(s)), x) THEN InfoIn(Said(Head(Incoming(s))), x)
         ELSE InfoIn(Kept(monitor[s]), x)
  BY <1>2, <1>8
<1>. QED BY <1>1, <1>5, <1>6, <1>9, Taken

LEMMA SyncAgainFollow ==
    ASSUME NetOK, ServersOK, RegistryExact, NetOK', RegistryExact', EachFollows, PipesClear,
           NEW s \in Servers, SyncAgain(s)
    PROVE  EachFollows' /\ PipesClear'
<1>1. Take(s, "syncAllServers") /\ ~monitor[s].first
  BY DEF SyncAgain
<1>2. PICK m : m = Head(Incoming(s)) /\ m.T = "syncAllServers"
  BY <1>1 DEF Take
<1>3. PICK n : n = [monitor[s] EXCEPT !.pending = TRUE, !.tmp = m.all]
  OBVIOUS
<1>4. monitor' = [monitor EXCEPT ![s] = n]
  BY <1>2, <1>3 DEF SyncAgain, ServersOK
<1>5. n.sock = monitor[s].sock /\ ~n.first /\ n.pending /\ n.tmp = m.all
  BY <1>1, <1>3 DEF ServersOK
<1>6. ASSUME NEW x \in Servers
      PROVE  InfoIn(Kept(n), x) = IF Tells(m, x) THEN InfoIn(Said(m), x)
                                  ELSE InfoIn(Kept(monitor[s]), x)
  BY <1>2, <1>5 DEF Kept, Tells, Said
<1>7. \A x \in Servers : InfoIn(Kept(n), x) =
         IF Tells(Head(Incoming(s)), x) THEN InfoIn(Said(Head(Incoming(s))), x)
         ELSE InfoIn(Kept(monitor[s]), x)
  BY <1>2, <1>6
<1>. QED BY <1>1, <1>4, <1>5, <1>7, Taken

\* An update, to the list that is in use or to the one kept aside.
LEMMA UpdateTaken ==
    ASSUME NetOK, ServersOK, RegistryExact, NetOK', RegistryExact', EachFollows, PipesClear,
           NEW s \in Servers, Take(s, "updateServers"),
           NEW n, monitor' = [monitor EXCEPT ![s] = n],
           n.sock = monitor[s].sock, n.first = monitor[s].first,
           Kept(n) = Minus(Updated(Kept(monitor[s]), Head(Incoming(s)).update),
                           Head(Incoming(s)).del)
    PROVE  EachFollows' /\ PipesClear'
<1>1. PICK m : m = Head(Incoming(s)) /\ m.T = "updateServers"
  BY DEF Take
<1>2. DOMAIN m.update \cap m.del = {}
  BY <1>1, UpdateOf
<1>3. ~n.first
  <2>1. Incoming(s) # <<>> /\ monitor[s].sock # NoConn
    BY DEF Take
  <2>. QED BY <1>1, <2>1 DEF EachFollows, FirstOK, Incoming
<1>4. PICK w : w = Kept(monitor[s])
  OBVIOUS
<1>5. ASSUME NEW x \in Servers
      PROVE  InfoIn(Kept(n), x) = IF Tells(m, x) THEN InfoIn(Said(m), x)
                                  ELSE InfoIn(Kept(monitor[s]), x)
  <2>1. InfoIn(Minus(Updated(w, m.update), m.del), x)
           = IF Tells(m, x) THEN InfoIn(Said(m), x) ELSE InfoIn(w, x)
    BY <1>1, <1>2, InfoAfterUpdate
  <2>. QED BY <1>1, <1>4, <2>1
<1>6. \A x \in Servers : InfoIn(Kept(n), x) =
         IF Tells(Head(Incoming(s)), x) THEN InfoIn(Said(Head(Incoming(s))), x)
         ELSE InfoIn(Kept(monitor[s]), x)
  BY <1>1, <1>5
<1>. QED BY <1>3, <1>6, Taken

LEMMA UpdateFollow ==
    ASSUME NetOK, ServersOK, RegistryExact, NetOK', RegistryExact', EachFollows, PipesClear,
           NEW s \in Servers, Update(s)
    PROVE  EachFollows' /\ PipesClear'
<1>1. PICK v : v = Minus(Updated(monitor[s].view, Head(Incoming(s)).update),
                         Head(Incoming(s)).del)
  OBVIOUS
<1>2. PICK n : n = [monitor[s] EXCEPT !.view = v]
  OBVIOUS
<1>3. /\ Take(s, "updateServers") /\ ~monitor[s].pending
      /\ monitor' = [monitor EXCEPT ![s] = n]
  BY <1>1, <1>2 DEF Update, ServersOK
<1>4. /\ n.sock = monitor[s].sock /\ n.first = monitor[s].first
      /\ n.pending = monitor[s].pending /\ n.view = v
  BY <1>2 DEF ServersOK
<1>5. Kept(n) = v /\ Kept(monitor[s]) = monitor[s].view
  BY <1>3, <1>4 DEF Kept
<1>. QED BY <1>1, <1>3, <1>4, <1>5, UpdateTaken

\* The comparison of the lists: what was kept aside is in use.
LEMMA Compared ==
    ASSUME ServersOK, NEW s \in Servers, NEW new, CheckSyncServers(s, monitor[s], new)
    PROVE  \E n : /\ monitor' = [monitor EXCEPT ![s] = n]
                  /\ n.sock = monitor[s].sock /\ n.first = monitor[s].first
                  /\ Kept(n) = new
<1>1. PICK n : n = [monitor[s] EXCEPT !.view = new, !.pending = FALSE, !.tmp = <<>>]
  OBVIOUS
<1>2. monitor' = [monitor EXCEPT ![s] = n]
  BY <1>1 DEF CheckSyncServers
<1>3. /\ n.sock = monitor[s].sock /\ n.first = monitor[s].first
      /\ n.view = new /\ n.pending = FALSE
  BY <1>1 DEF ServersOK
<1>. QED BY <1>2, <1>3 DEF Kept

LEMMA UpdateAsideFollow ==
    ASSUME NetOK, ServersOK, RegistryExact, NetOK', RegistryExact', EachFollows, PipesClear,
           NEW s \in Servers, UpdateAside(s)
    PROVE  EachFollows' /\ PipesClear'
<1>1. PICK t : t = Minus(Updated(monitor[s].tmp, Head(Incoming(s)).update),
                         Head(Incoming(s)).del)
  OBVIOUS
<1>2. /\ Take(s, "updateServers") /\ monitor[s].pending
      /\ \/ monitor' = [monitor EXCEPT ![s].tmp = t]
         \/ CheckSyncServers(s, monitor[s], t)
  BY <1>1 DEF UpdateAside
<1>3. Kept(monitor[s]) = monitor[s].tmp
  BY <1>2 DEF Kept
<1>4. \E n : /\ monitor' = [monitor EXCEPT ![s] = n]
             /\ n.sock = monitor[s].sock /\ n.first = monitor[s].first
             /\ Kept(n) = t
  <2>1. CASE monitor' = [monitor EXCEPT ![s].tmp = t]
    <3>1. PICK n : n = [monitor[s] EXCEPT !.tmp = t]
      OBVIOUS
    <3>2. monitor' = [monitor EXCEPT ![s] = n]
      BY <2>1, <3>1 DEF ServersOK
    <3>3. /\ n.sock = monitor[s].sock /\ n.first = monitor[s].first
          /\ n.tmp = t /\ n.pending = monitor[s].pending
      BY <3>1 DEF ServersOK
    <3>. QED BY <1>2, <3>2, <3>3 DEF Kept
  <2>2. CASE CheckSyncServers(s, monitor[s], t)
    BY <2>2, Compared
  <2>. QED BY <1>2, <2>1, <2>2
<1>. QED BY <1>1, <1>2, <1>3, <1>4, UpdateTaken

LEMMA DelaySyncFollow ==
    ASSUME NetOK, ServersOK, RegistryExact, NetOK', RegistryExact', EachFollows, PipesClear,
           NEW s \in Servers, DelaySync(s)
    PROVE  EachFollows' /\ PipesClear'
<1>1. /\ monitor[s].pending /\ CheckSyncServers(s, monitor[s], monitor[s].tmp)
      /\ UNCHANGED <<masterVars, conns, down>>
  BY DEF DelaySync, netVars
<1>2. PICK n : /\ monitor' = [monitor EXCEPT ![s] = n]
               /\ n.sock = monitor[s].sock /\ n.first = monitor[s].first
               /\ Kept(n) = monitor[s].tmp
  BY <1>1, Compared
<1>3. monitor'[s] = n /\ \A r \in Servers \ {s} : monitor'[r] = monitor[r]
  BY <1>2 DEF ServersOK
<1>4. SocketOK(s) /\ FirstOK(s) /\ FollowOK(s)
  BY DEF EachFollows
<1>5. UNCHANGED <<serversMap, lastAllServers, changedServers>>
  BY <1>1 DEF masterVars
<1>6. SocketOK(s)' /\ FirstOK(s)'
  BY <1>1, <1>2, <1>3, <1>4 DEF SocketOK, FirstOK
<1>7. ASSUME NEW x \in Servers PROVE Expected(s, x)' = Expected(s, x)
  <2>1. Expected(s, x)' = LastWord(Kept(monitor'[s]), down'[monitor'[s].sock], x)
    BY DEF Expected, Kept
  <2>2. Kept(monitor[s]) = monitor[s].tmp
    BY <1>1 DEF Kept
  <2>. QED BY <1>1, <1>2, <1>3, <2>1, <2>2, ExpectedIs
<1>8. Follower(s)' => Follower(s)
  BY <1>1, <1>2, <1>3, <1>5 DEF Follower
<1>9. FollowOK(s)'
  BY <1>1, <1>4, <1>5, <1>7, <1>8 DEF FollowOK
<1>10. PICK c : c = monitor[s].sock
  OBVIOUS
<1>11. c \in Conns => (conns[c].open => conns[c].server = s)
  BY <1>4, <1>10, DiscoveryAssumption DEF SocketOK
<1>12. EachFollows'
  BY <1>1, <1>3, <1>6, <1>9, <1>11, ServerMoves
<1>. QED BY <1>1, <1>12 DEF PipesClear

\* What the tick writes to a follower, or to a server that came back.
LEMMA PushedTo ==
    ASSUME NetOK, ServersOK, RegistryExact, EachFollows, Tick,
           NEW s \in Servers, NEW c \in Conns, c = monitor[s].sock
    PROVE  IF /\ ~(UpdateList = {} /\ RemoveList = {})
              /\ s \in DOMAIN serversMap /\ serversMap[s] = c /\ ~conns[c].cut
           THEN down'[c] = down[c] \o Pushed(s)
           ELSE down'[c] = down[c]
<1>1. conns[c].open /\ conns[c].server = s
  BY DiscoveryAssumption DEF EachFollows, SocketOK
<1>2. down' = IF UpdateList = {} /\ RemoveList = {} THEN down
              ELSE [d \in Conns |->
                      IF \E r \in DOMAIN serversMap : serversMap[r] = d /\ Delivers(d)
                      THEN down[d] \o Pushed(conns[d].server) ELSE down[d]]
  BY DEF Tick
<1>3. (\E r \in DOMAIN serversMap : serversMap[r] = c /\ Delivers(c))
         <=> s \in DOMAIN serversMap /\ serversMap[s] = c /\ ~conns[c].cut
  BY <1>1 DEF RegistryExact, Delivers
<1>. QED BY <1>1, <1>2, <1>3

LEMMA InfosOfIs ==
    ASSUME NEW S, NEW x
    PROVE  InfoIn(InfosOf(S), x) = IF x \in S THEN {conns[serversMap[x]].info} ELSE {}
<1>1. DOMAIN InfosOf(S) = S /\ \A y \in S : InfosOf(S)[y] = conns[serversMap[y]].info
  BY DEF InfosOf
<1>. QED BY <1>1, InfoInIs

\* After the message a server has what the master has, if it had what the
\* master last told of or is told everything.
LEMMA ToldAll ==
    ASSUME NetOK, RegistryExact, NEW s \in Servers, FollowOK(s),
           s \in changedServers \/ Follower(s), NEW m, Pushed(s) = <<m>>, NEW x \in Servers
    PROVE  (IF Tells(m, x) THEN InfoIn(Said(m), x) ELSE Expected(s, x))
              = IF x \in DOMAIN serversMap THEN {conns[serversMap[x]].info} ELSE {}
<1>1. CASE s \in changedServers
  <2>1. m = [T |-> "syncAllServers", all |-> InfosOf(DOMAIN serversMap)]
    BY <1>1 DEF Pushed
  <2>2. Tells(m, x) /\ Said(m) = InfosOf(DOMAIN serversMap)
    BY <2>1 DEF Tells, Said
  <2>. QED BY <2>2, InfosOfIs
<1>2. CASE s \notin changedServers
  <2>1. m = [T |-> "updateServers", update |-> InfosOf(UpdateList), del |-> RemoveList]
    BY <1>2 DEF Pushed
  <2>2. Said(m) = InfosOf(UpdateList) /\ (Tells(m, x) <=> x \in UpdateList \cup RemoveList)
    <3>1. m.T = "updateServers" /\ m.update = InfosOf(UpdateList) /\ m.del = RemoveList
      BY <2>1
    <3>2. DOMAIN InfosOf(UpdateList) = UpdateList
      BY DEF InfosOf
    <3>. QED BY <3>1, <3>2 DEF Said, Tells
  <2>3. /\ x \in lastAllServers <=> Expected(s, x) # {}
        /\ x \in lastAllServers \ changedServers =>
              Expected(s, x) = {conns[serversMap[x]].info}
    BY <1>2 DEF FollowOK
  <2>4. CASE Tells(m, x)
    <3>1. InfoIn(Said(m), x) = IF x \in UpdateList THEN {conns[serversMap[x]].info} ELSE {}
      BY <2>2, InfosOfIs
    <3>2. x \in UpdateList <=> x \in DOMAIN serversMap
      BY <2>2, <2>4 DEF UpdateList, RemoveList
    <3>. QED BY <2>4, <3>1, <3>2
  <2>5. CASE ~Tells(m, x)
    <3>1. x \in DOMAIN serversMap <=> x \in lastAllServers
      BY <2>2, <2>5 DEF UpdateList, RemoveList, RegistryExact
    <3>2. x \in lastAllServers => x \notin changedServers
      BY <2>2, <2>5, <3>1 DEF UpdateList
    <3>. QED BY <2>3, <2>5, <3>1, <3>2
  <2>. QED BY <2>4, <2>5
<1>. QED BY <1>1, <1>2

LEMMA PushedOne ==
    ASSUME NetOK, RegistryExact, NEW s \in Servers
    PROVE  \E m \in Messages : /\ Pushed(s) = <<m>>
                               /\ s \in changedServers => m.T = "syncAllServers"
<1>1. Pushed(s) \in Seq(Messages)
  BY PushedType
<1>2. CASE s \in changedServers
  <2> DEFINE m == [T |-> "syncAllServers", all |-> InfosOf(DOMAIN serversMap)]
  <2>1. Pushed(s) = <<m>> /\ m.T = "syncAllServers"
    BY <1>2 DEF Pushed
  <2>. HIDE DEF m
  <2>2. m = Pushed(s)[1] /\ Len(Pushed(s)) = 1
    BY <2>1
  <2>3. \A p \in Seq(Messages) : Len(p) = 1 => p[1] \in Messages
    BY ElementOfSeq
  <2>4. m \in Messages
    BY <1>1, <2>2, <2>3
  <2>. QED BY <2>1, <2>4
<1>3. CASE s \notin changedServers
  <2> DEFINE m == [T |-> "updateServers", update |-> InfosOf(UpdateList), del |-> RemoveList]
  <2>1. Pushed(s) = <<m>>
    BY <1>3 DEF Pushed
  <2>. HIDE DEF m
  <2>2. m = Pushed(s)[1] /\ Len(Pushed(s)) = 1
    BY <2>1
  <2>3. \A p \in Seq(Messages) : Len(p) = 1 => p[1] \in Messages
    BY ElementOfSeq
  <2>4. m \in Messages
    BY <1>1, <2>2, <2>3
  <2>. QED BY <1>3, <2>1, <2>4
<1>. QED BY <1>2, <1>3

LEMMA TickFollow ==
    ASSUME NetOK, ServersOK, RegistryExact, EachFollows, PipesClear, Tick
    PROVE  EachFollows' /\ PipesClear'
<1>1. /\ UNCHANGED <<serversMap, conns, monitor>> /\ changedServers' = {}
      /\ lastAllServers' = (lastAllServers \cup UpdateList) \ RemoveList
  BY DEF Tick, serverVars
<1>2. \A x \in Servers : x \in lastAllServers' <=> x \in DOMAIN serversMap
  BY <1>1 DEF UpdateList, RemoveList, RegistryExact
<1>3. ASSUME NEW s \in Servers
      PROVE  SocketOK(s)' /\ FirstOK(s)' /\ FollowOK(s)'
  <2>1. PICK c : c = monitor[s].sock /\ c = monitor'[s].sock
    BY <1>1
  <2>2. SocketOK(s) /\ FirstOK(s) /\ FollowOK(s)
    BY DEF EachFollows
  <2>3. SocketOK(s)'
    BY <1>1, <2>2 DEF SocketOK
  <2>4. CASE c = NoConn
    <3>1. ~Follower(s)'
      BY <1>1, <2>1, <2>4, MapElim, DiscoveryAssumption DEF Follower, NetOK
    <3>. QED BY <1>1, <2>1, <2>2, <2>3, <2>4, <3>1 DEF FirstOK, FollowOK
  <2>5. CASE c # NoConn
    <3>1. c \in Conns /\ down[c] \in Seq(Messages)
      BY <2>1, <2>5 DEF ServersOK, NetOK
    <3>2. Follower(s)' <=> s \in DOMAIN serversMap /\ serversMap[s] = c /\ ~conns[c].cut
      BY <1>1, <2>1 DEF Follower
    <3>3. Follower(s) <=> Follower(s)' /\ s \notin changedServers
      BY <2>1, <3>2 DEF Follower
    <3>4. CASE ~(UpdateList = {} /\ RemoveList = {}) /\ Follower(s)'
      <4>1. PICK m \in Messages : /\ Pushed(s) = <<m>>
                                  /\ s \in changedServers => m.T = "syncAllServers"
        BY PushedOne
      <4>2. down'[c] = Append(down[c], m)
        <5>1. down'[c] = down[c] \o <<m>>
          BY <2>1, <3>1, <3>2, <3>4, <4>1, PushedTo
        <5>. QED BY <3>1, <5>1
      <4>3. FirstOK(s)'
        <5>1. down'[c] # <<>>
          <6>1. Len(down'[c]) = Len(down[c]) + 1 /\ Len(down[c]) \in Nat
            BY <3>1, <4>2
          <6>2. Len(down'[c]) # 0
            BY <6>1
          <6>. QED BY <6>2
        <5>2. ASSUME monitor[s].first
              PROVE  Head(down'[c]).T = "syncAllServers"
          <6>1. CASE down[c] = <<>>
            <7>1. Head(down'[c]) = m
              BY <4>2, <6>1
            <7>2. s \in changedServers
              BY <2>1, <2>2, <2>5, <3>3, <3>4, <5>2, <6>1 DEF FirstOK
            <7>. QED BY <4>1, <7>1, <7>2
          <6>2. CASE down[c] # <<>>
            <7>1. Head(down'[c]) = Head(down[c])
              BY <3>1, <4>2, <6>2
            <7>. QED BY <2>1, <2>2, <2>5, <5>2, <6>2, <7>1 DEF FirstOK
          <6>. QED BY <6>1, <6>2
        <5>. QED BY <1>1, <2>1, <2>2, <5>1, <5>2 DEF FirstOK
      <4>4. ASSUME NEW x \in Servers
            PROVE  Expected(s, x)' = IF x \in DOMAIN serversMap
                                     THEN {conns[serversMap[x]].info} ELSE {}
        <5>1. Expected(s, x)' = LastWord(Kept(monitor'[s]), down'[monitor'[s].sock], x)
          BY DEF Expected, Kept
        <5>2. PICK b : b = Kept(monitor[s])
          OBVIOUS
        <5>3. Expected(s, x)' = LastWord(b, Append(down[c], m), x)
          BY <1>1, <2>1, <4>2, <5>1, <5>2
        <5>4. Expected(s, x) = LastWord(b, down[c], x)
          BY <2>1, <5>2, ExpectedIs
        <5>5. LastWord(b, Append(down[c], m), x)
                 = IF Tells(m, x) THEN InfoIn(Said(m), x) ELSE LastWord(b, down[c], x)
          BY <3>1, LastWordAppend
        <5>6. (IF Tells(m, x) THEN InfoIn(Said(m), x) ELSE Expected(s, x))
                 = IF x \in DOMAIN serversMap THEN {conns[serversMap[x]].info} ELSE {}
          <6>1. s \in changedServers \/ Follower(s)
            BY <3>3, <3>4
          <6>. QED BY <2>2, <4>1, <6>1, ToldAll
        <5>. QED BY <5>3, <5>4, <5>5, <5>6
      <4>5. FollowOK(s)'
        BY <1>1, <1>2, <4>4 DEF FollowOK
      <4>. QED BY <2>3, <4>3, <4>5
    <3>5. CASE (UpdateList = {} /\ RemoveList = {}) \/ ~Follower(s)'
      <4>1. down'[c] = down[c]
        BY <2>1, <3>1, <3>2, <3>5, PushedTo
      <4>2. ASSUME Follower(s)'
            PROVE  /\ Follower(s) /\ lastAllServers' = lastAllServers
                   /\ \A x \in lastAllServers : x \notin changedServers
        <5>1. UpdateList = {} /\ RemoveList = {}
          BY <3>5, <4>2
        <5>2. s \notin changedServers
          BY <3>2, <4>2, <5>1 DEF UpdateList
        <5>. QED BY <1>1, <3>3, <4>2, <5>1, <5>2 DEF UpdateList, RemoveList
      <4>3. FirstOK(s)'
        BY <1>1, <2>1, <2>2, <4>1, <4>2 DEF FirstOK
      <4>4. ASSUME NEW x \in Servers PROVE Expected(s, x)' = Expected(s, x)
        <5>1. Expected(s, x)' = LastWord(Kept(monitor'[s]), down'[monitor'[s].sock], x)
          BY DEF Expected, Kept
        <5>. QED BY <1>1, <2>1, <4>1, <5>1, ExpectedIs
      <4>5. FollowOK(s)'
        BY <1>1, <2>2, <4>2, <4>4 DEF FollowOK
      <4>. QED BY <2>3, <4>3, <4>5
    <3>. QED BY <3>4, <3>5
  <2>. QED BY <2>4, <2>5
<1>4. PipesClear'
  <2>1. SUFFICES ASSUME NEW c \in Conns, ~conns[c].open \/ conns[c].master = "new"
                 PROVE  down'[c] = down[c]
    BY <1>1 DEF PipesClear
  <2>2. ~(\E r \in DOMAIN serversMap : serversMap[r] = c /\ Delivers(c))
    BY <2>1 DEF RegistryExact, Delivers
  <2>. QED BY <2>2 DEF Tick
<1>. QED BY <1>3, <1>4 DEF EachFollows

\* Every step keeps what the servers have of the master.
LEMMA FollowStep ==
    ASSUME NetOK, ServersOK, RegistryExact, NetOK', ServersOK', RegistryExact',
           EachFollows, PipesClear, [Next]_vars
    PROVE  EachFollows' /\ PipesClear'
<1>1. CASE Tick
  BY <1>1, TickFollow
<1>2. CASE MasterRestart
  BY <1>2, MasterRestartFollow
<1>3. ASSUME NEW c \in Conns, \/ RegisterRefused(c) \/ Register(c)
                              \/ UnregisteredLost(c) \/ ProxyOnClose(c) \/ Cut(c)
      PROVE  EachFollows' /\ PipesClear'
  BY <1>3, NewEndsFollow, RegisterFollow, ProxyOnCloseFollow, CutFollow
<1>4. ASSUME NEW s \in Servers, NEW c \in Conns, Connect(s, c)
      PROVE  EachFollows' /\ PipesClear'
  BY <1>4, ConnectFollow
<1>5. ASSUME NEW s \in Servers, \/ MonitorOnClose(s) \/ Crash(s) \/ DelaySync(s)
      PROVE  EachFollows' /\ PipesClear'
  BY <1>5, MonitorOnCloseFollow, CrashFollow, DelaySyncFollow
<1>6. ASSUME NEW s \in Servers, SyncFirst(s) \/ SyncAgain(s) \/ Update(s) \/ UpdateAside(s)
      PROVE  EachFollows' /\ PipesClear'
  BY <1>6, SyncFirstFollow, SyncAgainFollow, UpdateFollow, UpdateAsideFollow
<1>7. CASE UNCHANGED vars \/ \E s \in Servers : Start(s)
  <2>1. UNCHANGED <<masterVars, netVars, monitor>>
    BY <1>7 DEF vars, serverVars, Start
  <2>2. UNCHANGED <<conns, down>>
    BY <2>1 DEF netVars
  <2>3. MasterKept
    BY <2>1, <2>2, MasterKeptIf
  <2>. QED BY <2>1, <2>2, <2>3, MasterMoves
<1>. QED BY <1>1, <1>2, <1>3, <1>4, <1>5, <1>6, <1>7 DEF Next

\* At the start nobody is connected.
LEMMA InitFollow == ASSUME Init PROVE EachFollows /\ PipesClear
<1>1. /\ DOMAIN serversMap = {} /\ \A c \in Conns : down[c] = <<>>
      /\ \A s \in Servers : monitor[s] = NewMonitor
  BY EmptyMap DEF Init
<1>2. NewMonitor.sock = NoConn /\ NewMonitor.view = <<>> /\ ~NewMonitor.pending
  BY DEF NewMonitor
<1>. QED BY <1>1, <1>2 DEF EachFollows, PipesClear, SocketOK, FirstOK, FollowOK, Follower

(***************************************************************************)
(* The theorems.                                                           *)
(***************************************************************************)

DInv == NetOK /\ ServersOK /\ RegistryExact /\ ServersGood

\* Nothing is registered, connected or known at the start.
LEMMA InitInv == Init => DInv
<1> SUFFICES ASSUME Init PROVE DInv
  OBVIOUS
<1>1. \A A, B : <<>> \in MapsOf(A, B) /\ DOMAIN <<>> = {}
  BY EmptyMap
<1>2. NetOK
  BY <1>1, DiscoveryAssumption DEF Init, NetOK
<1>3. /\ monitor = [s \in Servers |-> NewMonitor] /\ app = [s \in Servers |-> <<>>]
      /\ lists = [s \in Servers |-> [t \in Types |-> {}]] /\ info = <<>>
  BY DEF Init
<1>4. NewMonitor \in Monitors /\ NewMonitor.view = <<>>
  BY <1>1 DEF NewMonitor, Monitors, View
<1>5. ServersOK
  BY <1>1, <1>3, <1>4 DEF ServersOK, Monitors, View
<1>6. ServersGood
  <2>1. Good(<<>>, [t \in Types |-> {}], <<>>)
    BY <1>1 DEF Good, Agree
  <2>. QED BY <1>3, <1>4, <2>1 DEF ServersGood
<1>7. RegistryExact
  <2>1. \A c \in Conns : conns[c].master = "closed"
    BY DEF Init, Free
  <2>. QED BY <1>1, <2>1 DEF Init, RegistryExact
<1>. QED BY <1>2, <1>5, <1>6, <1>7 DEF DInv

\* The invariant of master, network and servers together.
THEOREM DiscoveryInvariance == Spec => []DInv
<1>1. DInv /\ [Next]_vars => DInv'
  BY NetStep, ServerStep DEF DInv
<1>. QED BY InitInv, <1>1, PTL DEF Spec

\* Every variable keeps its type, and no message both adds and removes a server.
THEOREM DiscoveryTypes == Spec => []TypeOK
<1>1. DInv => TypeOK
  BY TypeParts DEF DInv
<1>. QED BY DiscoveryInvariance, <1>1, PTL

\* The master's serversMap, its proxies and its two sets of ids agree, whatever
\* is refused, lost or restarted.
THEOREM RegistryStaysExact == Spec => []RegistryExact
<1>1. DInv => RegistryExact
  BY DEF DInv
<1>. QED BY DiscoveryInvariance, <1>1, PTL

\* The application's servers are those of the monitor's list, each in the list
\* of its type only.
THEOREM ListsStayInStep == Spec => []ListsAgree
<1>1. DInv => ListsAgree
  BY GoodParts DEF DInv
<1>. QED BY DiscoveryInvariance, <1>1, PTL

\* As long as servers keep their type, the application has every server's
\* address as the monitor has it.
THEOREM AddressesStayFresh == Spec => []AddressFresh
<1>1. DInv => AddressFresh
  BY GoodParts DEF DInv
<1>. QED BY DiscoveryInvariance, <1>1, PTL

\* The loss of the master takes no server from the application.
THEOREM LossKeepsServers == Spec => KeptThroughLoss
<1>1. DInv /\ [Next]_vars => [KeepsServers]_vars
  BY KeepsStep DEF DInv
<1>. QED BY DiscoveryInvariance, <1>1, PTL DEF Spec, KeptThroughLoss

\* The master's pushes leave no gap and no excess: a server that stayed
\* registered will have exactly the servers the master last told of, each with
\* the info it registered with unless it changed since, whatever else
\* disconnects, restarts or is compared late (checkServerChanged).
THEOREM PushesLeaveNoGap == Spec => []ViewFollows
<1> DEFINE VInv == EachFollows /\ PipesClear
<1>1. Init => VInv
  BY InitFollow
<1>2. DInv /\ DInv' /\ VInv /\ [Next]_vars => VInv'
  BY FollowStep DEF DInv
<1>3. DInv /\ VInv => ViewFollows
  BY FollowParts DEF DInv, EachFollows
<1> HIDE DEF VInv
<1>. QED BY DiscoveryInvariance, <1>1, <1>2, <1>3, PTL DEF Spec
=============================================================================
