----------------------------- MODULE Discovery -----------------------------
(***************************************************************************)
(* How the servers learn of each other (master.ts, monitor.ts, and         *)
(* addServer and removeServer of application.ts).  Every server keeps a    *)
(* connection to the master, which every half second tells those that      *)
(* stayed connected what changed and those that are new or came back the   *)
(* whole list.  A server that comes back compares that list with its own   *)
(* only after a delay, since the master may itself have just restarted.    *)
(*                                                                         *)
(* A connection has two ends that learn separately that it is gone.  The   *)
(* timers are not timed: a reconnection and a comparison come when they    *)
(* will, and a heartbeat timeout fires when the network has failed.        *)
(***************************************************************************)
EXTENDS Naturals, Sequences, SequencesExt, Maps

CONSTANTS
    Servers,        \* ids of the servers other than the master
    Infos,          \* what a server may say of itself: type, address, other fields
    Conns,          \* bound: connections that exist at one time
    MaxFaults       \* bound: failures of the network, a server or the master

Types == {i.type : i \in Infos}

NoConn == "none"

ASSUME DiscoveryAssumption ==
    /\ NoConn \notin Conns
    /\ \A i \in Infos : DOMAIN i = {"type", "addr", "rest"}
    /\ MaxFaults \in Nat

VARIABLES
    serversMap,     \* master: id -> connection registered under it
    lastAllServers, \* master: the ids it last told the servers about
    changedServers, \* master: the ids that changed since
    conns,          \* connections: both ends, the server and the info it sent
    down,           \* of each connection: messages from the master on their way
    info,           \* of each server process that runs: its serverInfo
    monitor,        \* of each server: its monitor_client_proxy
    app,            \* of each server: the application's serversIdMap
    lists,          \* of each server: its lists of servers by type
    faults          \* failures so far

masterVars == <<serversMap, lastAllServers, changedServers>>
netVars == <<conns, down, faults>>
serverVars == <<info, monitor, app, lists>>
vars == <<masterVars, netVars, serverVars>>

Free == [master |-> "closed", open |-> FALSE, cut |-> FALSE]

\* A new monitor_client_proxy: view is its serversIdMap, tmp its
\* tmpServersIdMap; pending says that delaySyncTimer is set.
NewMonitor == [sock |-> NoConn, first |-> TRUE, view |-> <<>>, pending |-> FALSE, tmp |-> <<>>]

Running == DOMAIN info

Init ==
    /\ serversMap = <<>> /\ lastAllServers = {} /\ changedServers = {}
    /\ conns = [c \in Conns |-> Free]
    /\ down = [c \in Conns |-> <<>>]
    /\ info = <<>>
    /\ monitor = [s \in Servers |-> NewMonitor]
    /\ app = [s \in Servers |-> <<>>]
    /\ lists = [s \in Servers |-> [t \in Types |-> {}]]
    /\ faults = 0

-----------------------------------------------------------------------------
(* Connections.                                                            *)

\* The timer of doConnect fires and the connection is made: register is sent.
Connect(s, c) ==
    /\ s \in Running /\ monitor[s].sock = NoConn
    /\ conns[c] = Free
    /\ conns' = [conns EXCEPT ![c] =
          [server |-> s, info |-> info[s], master |-> "new", open |-> TRUE, cut |-> FALSE]]
    /\ monitor' = [monitor EXCEPT ![s].sock = c]
    /\ UNCHANGED <<masterVars, down, faults, info, app, lists>>

\* An end of connection c closes; the record is free when both have.
EndClosed(c, end) ==
    LET n == [conns[c] EXCEPT !.open = @ /\ end # "server",
                              !.master = IF end = "master" THEN "closed" ELSE @]
    IN  conns' = [conns EXCEPT ![c] = IF n.open \/ n.master # "closed" THEN n ELSE Free]

\* The other end of c is gone, or no longer heard of (the heartbeats time out).
MasterMayLose(c) == conns[c].cut \/ ~conns[c].open
ServerMayLose(c) == conns[c].cut \/ conns[c].master = "closed"

\* Slip: a name in use is accepted.
RefusedNever(s) == FALSE
\* UnregSocket_proxy.onData refuses a name in use (tokens and packets are right).
Refused(s) == s \in DOMAIN serversMap

RegisterRefused(c) ==
    /\ conns[c].master = "new" /\ ~conns[c].cut
    /\ Refused(conns[c].server)
    /\ EndClosed(c, "master")
    /\ UNCHANGED <<masterVars, down, faults, serverVars>>

OnAddServer(s, c) ==
    /\ serversMap' = With(serversMap, s, c)
    /\ changedServers' = changedServers \cup {s}

\* A Master_ServerProxy takes the connection over.
Register(c) ==
    /\ conns[c].master = "new" /\ ~conns[c].cut
    /\ ~Refused(conns[c].server)
    /\ conns' = [conns EXCEPT ![c].master = "registered"]
    /\ OnAddServer(conns[c].server, c)
    /\ UNCHANGED <<lastAllServers, down, faults, serverVars>>

\* Slip: the change is not noted.
OnRemoveServerUntold(c) ==
    LET s == conns[c].server
    IN  /\ serversMap' = IF s \in DOMAIN serversMap /\ serversMap[s] = c
                         THEN Minus(serversMap, {s}) ELSE serversMap
        /\ UNCHANGED changedServers
OnRemoveServer(c) ==
    LET s == conns[c].server
    IN  IF s \in DOMAIN serversMap /\ serversMap[s] = c
        THEN /\ serversMap' = Minus(serversMap, {s})
             /\ changedServers' = changedServers \cup {s}
        ELSE UNCHANGED <<serversMap, changedServers>>

\* The master's end of an unregistered connection closes, at the latest when
\* registerTimer fires.
UnregisteredLost(c) ==
    /\ conns[c].master = "new" /\ MasterMayLose(c)
    /\ EndClosed(c, "master")
    /\ UNCHANGED <<masterVars, down, faults, serverVars>>

\* The proxy's connection closes, at the latest when its heartbeat times out.
ProxyOnClose(c) ==
    /\ conns[c].master = "registered" /\ MasterMayLose(c)
    /\ OnRemoveServer(c)
    /\ EndClosed(c, "master")
    /\ down' = [down EXCEPT ![c] = <<>>]
    /\ UNCHANGED <<lastAllServers, faults, serverVars>>

\* The server's end closes.  What it had begun to compare is given up.
MonitorOnClose(s) ==
    LET c == monitor[s].sock
    IN  /\ c # NoConn /\ ServerMayLose(c)
        /\ EndClosed(c, "server")
        /\ down' = [down EXCEPT ![c] = <<>>]
        /\ monitor' = [monitor EXCEPT ![s].sock = NoConn, ![s].pending = FALSE, ![s].tmp = <<>>]
        /\ UNCHANGED <<masterVars, faults, info, app, lists>>

-----------------------------------------------------------------------------
(* The master's tick.                                                      *)

UpdateList == changedServers \cap DOMAIN serversMap
RemoveList == (changedServers \ DOMAIN serversMap) \cap lastAllServers
InfosOf(S) == [s \in S |-> conns[serversMap[s]].info]

\* Slip: those that came back are told the changes only.
PushedUpdatesOnly(s) ==
    <<[T |-> "updateServers", update |-> InfosOf(UpdateList), del |-> RemoveList]>>
\* What checkServerChanged sends to the server registered as s.
Pushed(s) ==
    IF s \notin changedServers
    THEN <<[T |-> "updateServers", update |-> InfosOf(UpdateList), del |-> RemoveList]>>
    ELSE <<[T |-> "syncAllServers", all |-> InfosOf(DOMAIN serversMap)]>>

\* A message written to a connection that the server has closed goes nowhere.
Delivers(c) == conns[c].open /\ ~conns[c].cut

Tick ==
    /\ changedServers # {}
    /\ lastAllServers' = (lastAllServers \cup UpdateList) \ RemoveList
    /\ changedServers' = {}
    /\ down' = IF UpdateList = {} /\ RemoveList = {} THEN down
               ELSE [c \in Conns |->
                       IF \E s \in DOMAIN serversMap : serversMap[s] = c /\ Delivers(c)
                       THEN down[c] \o Pushed(conns[c].server) ELSE down[c]]
    /\ UNCHANGED <<serversMap, conns, faults, serverVars>>

-----------------------------------------------------------------------------
(* What a server does with what it is told.                                *)

\* addServer for every entry of u: a known server keeps its type, whatever
\* is said of it.
Accepted(a, u) == {x \in DOMAIN u : x \in DOMAIN a => a[x].type = u[x].type}
AppWith(a, u) == Updated(a, Minus(u, DOMAIN u \ Accepted(a, u)))
ListsWith(l, a, u) ==
    [t \in Types |-> l[t] \cup {x \in DOMAIN u \ DOMAIN a : u[x].type = t}]

\* Slip: the list of the type is forgotten.
ListsKept(l, a, D) == l
\* removeServer for every id of D.
ListsWithout(l, a, D) ==
    [t \in Types |-> l[t] \ {x \in D \cap DOMAIN a : a[x].type = t}]

\* Server s removes the servers D and adds or updates those of u (u and D are disjoint).
Apply(s, u, D) ==
    /\ app' = [app EXCEPT ![s] = AppWith(Minus(@, D), u)]
    /\ lists' = [lists EXCEPT ![s] =
          ListsWith(ListsWithout(@, app[s], D), Minus(app[s], D), u)]

\* Slip: an address is not compared.
MovedIfNew(old, new) == DOMAIN new \ DOMAIN old
\* checkSyncServers: the new list replaces the old one; only a change of
\* address reaches the application.
Moved(old, new) == {x \in DOMAIN new : x \in DOMAIN old => old[x].addr # new[x].addr}
CheckSyncServers(s, m, new) ==
    /\ monitor' = [monitor EXCEPT ![s] = [m EXCEPT !.view = new, !.pending = FALSE, !.tmp = <<>>]]
    /\ Apply(s, Minus(new, DOMAIN new \ Moved(m.view, new)), DOMAIN m.view \ DOMAIN new)

\* The next message for server s; the connection still brings it.
Incoming(s) == down[monitor[s].sock]
Take(s, T) ==
    /\ s \in Running /\ monitor[s].sock # NoConn
    /\ ~conns[monitor[s].sock].cut
    /\ Incoming(s) # <<>> /\ Head(Incoming(s)).T = T
    /\ down' = [down EXCEPT ![monitor[s].sock] = Tail(@)]
    /\ UNCHANGED <<masterVars, conns, faults, info>>

\* syncAllServers, for the first time: taken as it is.
SyncFirst(s) ==
    /\ Take(s, "syncAllServers") /\ monitor[s].first
    /\ LET all == Head(Incoming(s)).all
       IN  /\ monitor' = [monitor EXCEPT ![s].first = FALSE, ![s].view = Updated(@, all)]
           /\ Apply(s, all, {})

\* Slip: the list is compared without waiting.
SyncAgainAtOnce(s) ==
    /\ Take(s, "syncAllServers") /\ ~monitor[s].first
    /\ CheckSyncServers(s, monitor[s], Head(Incoming(s)).all)
\* syncAllServers after a reconnection: kept aside, delaySyncTimer is set.
SyncAgain(s) ==
    /\ Take(s, "syncAllServers") /\ ~monitor[s].first
    /\ monitor' = [monitor EXCEPT ![s].pending = TRUE, ![s].tmp = Head(Incoming(s)).all]
    /\ UNCHANGED <<app, lists>>

\* updateServers, with nothing pending.
Update(s) ==
    /\ Take(s, "updateServers") /\ ~monitor[s].pending
    /\ LET m == Head(Incoming(s))
       IN  /\ monitor' = [monitor EXCEPT ![s].view = Minus(Updated(@, m.update), m.del)]
           /\ Apply(s, m.update, m.del)

\* updateServers while delaySyncTimer runs: it goes to the list kept aside, and
\* 35 s after the first list the comparison waits no longer.
UpdateAside(s) ==
    /\ Take(s, "updateServers") /\ monitor[s].pending
    /\ LET m == Head(Incoming(s))
           tmp == Minus(Updated(monitor[s].tmp, m.update), m.del)
       IN  \/ /\ monitor' = [monitor EXCEPT ![s].tmp = tmp]
              /\ UNCHANGED <<app, lists>>
           \/ CheckSyncServers(s, monitor[s], tmp)

\* delaySyncTimer fires.
DelaySync(s) ==
    /\ s \in Running /\ monitor[s].pending
    /\ CheckSyncServers(s, monitor[s], monitor[s].tmp)
    /\ UNCHANGED <<masterVars, netVars, info>>

-----------------------------------------------------------------------------
(* Failures, and servers that are started.                                 *)

Start(s) ==
    /\ s \notin Running
    /\ \E i \in Infos : info' = With(info, s, i)
    /\ UNCHANGED <<masterVars, netVars, monitor, app, lists>>

Fault == faults < MaxFaults /\ faults' = faults + 1

\* The network between the ends of c fails silently.
Cut(c) ==
    /\ Fault /\ conns[c] # Free /\ ~conns[c].cut
    /\ conns' = [conns EXCEPT ![c].cut = TRUE]
    /\ down' = [down EXCEPT ![c] = <<>>]
    /\ UNCHANGED <<masterVars, serverVars>>

\* Server s dies; its end of the connection, if it has one, closes.
Crash(s) ==
    /\ Fault /\ s \in Running
    /\ info' = Minus(info, {s})
    /\ monitor' = [monitor EXCEPT ![s] = NewMonitor]
    /\ app' = [app EXCEPT ![s] = <<>>]
    /\ lists' = [lists EXCEPT ![s] = [t \in Types |-> {}]]
    /\ LET c == monitor[s].sock
       IN  IF c = NoConn THEN UNCHANGED <<conns, down>>
           ELSE EndClosed(c, "server") /\ down' = [down EXCEPT ![c] = <<>>]
    /\ UNCHANGED masterVars

\* The master dies and is started again, knowing nobody.
MasterRestart ==
    /\ Fault
    /\ serversMap' = <<>> /\ lastAllServers' = {} /\ changedServers' = {}
    /\ conns' = [c \in Conns |-> IF conns[c].open THEN [conns[c] EXCEPT !.master = "closed"]
                                 ELSE Free]
    /\ UNCHANGED <<down, serverVars>>

Next ==
    \/ Tick \/ MasterRestart
    \/ \E c \in Conns : \/ RegisterRefused(c) \/ Register(c)
                        \/ UnregisteredLost(c) \/ ProxyOnClose(c) \/ Cut(c)
    \/ \E s \in Servers :
          \/ \E c \in Conns : Connect(s, c)
          \/ MonitorOnClose(s) \/ SyncFirst(s) \/ SyncAgain(s) \/ Update(s)
          \/ UpdateAside(s) \/ DelaySync(s) \/ Start(s) \/ Crash(s)

Spec == Init /\ [][Next]_vars

\* Timers fire, the network delivers or reports its end; servers need not be
\* started and nothing need fail.
Fairness ==
    /\ WF_vars(Tick)
    /\ \A c \in Conns : WF_vars(RegisterRefused(c) \/ Register(c))
                         /\ WF_vars(UnregisteredLost(c)) /\ WF_vars(ProxyOnClose(c))
    /\ \A s \in Servers :
          /\ WF_vars(\E c \in Conns : Connect(s, c)) /\ WF_vars(MonitorOnClose(s))
          /\ WF_vars(SyncFirst(s) \/ SyncAgain(s) \/ Update(s) \/ UpdateAside(s))
          /\ WF_vars(DelaySync(s))

FairSpec == Spec /\ Fairness

-----------------------------------------------------------------------------
(* Properties.                                                             *)

Views == UNION {[S -> Infos] : S \in SUBSET Servers}
Updates == {m \in [T : {"updateServers"}, update : Views, del : SUBSET Servers] :
              DOMAIN m.update \cap m.del = {}}
Messages == Updates \cup [T : {"syncAllServers"}, all : Views]
Connections == [server : Servers, info : Infos, open : BOOLEAN, cut : BOOLEAN,
                master : {"new", "registered", "closed"}]

\* Every variable has its type; no message adds a server and removes it.
TypeOK ==
    /\ serversMap \in UNION {[S -> Conns] : S \in SUBSET Servers}
    /\ lastAllServers \subseteq Servers /\ changedServers \subseteq Servers
    /\ conns \in [Conns -> Connections \cup {Free}]
    /\ down \in [Conns -> Seq(Messages)]
    /\ info \in Views
    /\ monitor \in [Servers -> [sock : Conns \cup {NoConn}, first : BOOLEAN, view : Views,
                                pending : BOOLEAN, tmp : Views]]
    /\ app \in [Servers -> Views]
    /\ lists \in [Servers -> [Types -> SUBSET Servers]]
    /\ faults \in 0..MaxFaults

\* The master's three collections and its proxies agree, through refused
\* registrations, half-open connections and reconnections between two ticks:
\* each registered connection is the one serversMap names for its server, and
\* lastAllServers differs from serversMap only in changed servers
\* (onAddServer, onRemoveServer, checkServerChanged).
RegistryExact ==
    /\ \A c \in Conns : conns[c].master = "registered" =>
          conns[c].server \in DOMAIN serversMap /\ serversMap[conns[c].server] = c
    /\ \A s \in DOMAIN serversMap :
          LET c == conns[serversMap[s]] IN c.master = "registered" /\ c.server = s
    /\ \A s \in Servers \ changedServers : s \in DOMAIN serversMap <=> s \in lastAllServers

\* Message m says something of server x: that it is there, as Said(m)[x], or not.
Tells(m, x) == m.T = "syncAllServers" \/ x \in DOMAIN m.update \cup m.del
Said(m) == IF m.T = "syncAllServers" THEN m.all ELSE m.update

\* What f says of x, if anything.
InfoIn(f, x) == {f[y] : y \in {x} \cap DOMAIN f}

\* What server s will have of x when it has taken the messages d on their way:
\* the last one that tells of x decides.
LastWord(base, d, x) ==
    LET telling == {i \in DOMAIN d : Tells(d[i], x)}
    IN  InfoIn(IF telling = {} THEN base ELSE Said(d[Max(telling)]), x)
Expected(s, x) ==
    LastWord(IF monitor[s].pending THEN monitor[s].tmp ELSE monitor[s].view,
             down[monitor[s].sock], x)

\* The master's pushes leave no gap and no excess: a server whose connection
\* is registered, and was when the master last looked, will have exactly the
\* servers the master last told of, each with the info it is registered with
\* unless it has changed since (checkServerChanged, updateServers).
ViewFollows ==
    \A s \in DOMAIN serversMap \ changedServers :
       monitor[s].sock = serversMap[s] /\ ~conns[serversMap[s]].cut =>
          \A x \in Servers :
             /\ x \in lastAllServers <=> Expected(s, x) # {}
             /\ x \in lastAllServers \ changedServers =>
                   Expected(s, x) = {conns[serversMap[x]].info}

\* The application has the servers of the monitor's list, in the list of their
\* type and in no other, whatever was added again, refused or removed by a
\* comparison (addServer, removeServer).
ListsAgree ==
    \A s \in Servers :
       /\ DOMAIN app[s] = DOMAIN monitor[s].view
       /\ \A t \in Types : lists[s][t] = {x \in DOMAIN app[s] : app[s][x].type = t}

\* The application has the address the monitor has: the comparison passes
\* over a server only when nothing that matters to a connection changed
\* (checkSyncServers).  For servers that keep their type, as addServer
\* demands.
AddressFresh ==
    (\A i, j \in Infos : i.type = j.type) =>
       \A s \in Servers : \A x \in DOMAIN monitor[s].view :
          app[s][x].addr = monitor[s].view[x].addr

\* What a step may take from the servers the application knows.
KeepsServers ==
    \A s \in Servers : \A x \in DOMAIN app[s] \ DOMAIN app'[s] :
       \/ s \notin DOMAIN info'
       \/ monitor[s].pending
       \/ /\ Incoming(s) # <<>> /\ Head(Incoming(s)).T = "updateServers"
          /\ x \in Head(Incoming(s)).del

\* A server that lost its master, or whose master was restarted, keeps every
\* server it knows until it is told of a removal or has compared the lists,
\* after the delay (onClose, syncAllServers).
KeptThroughLoss == [][KeepsServers]_vars

\* When the failures are over, every running server comes to know exactly the
\* running servers, as they are: nothing is lost for good in a reconnection, a
\* restart of the master, or a registration refused while the old connection
\* was still open.
Converges ==
    <>[](\A s \in Running : monitor[s].view = info /\ DOMAIN app[s] = Running)
=============================================================================
