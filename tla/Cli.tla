-------------------------------- MODULE Cli --------------------------------
(***************************************************************************)
(* The commands of the command line tool (cliUtil.ts, Master_CLI_Proxy of  *)
(* master.ts, clientProxy of cli.ts).  The tool asks the master; the       *)
(* master asks every server the command is about, counts the answers and   *)
(* the requests that time out down to zero, and then answers the tool.     *)
(* To stop or be removed a server first runs the application's             *)
(* onBeforeExit; a second command of that kind it ignores.  A second stop   *)
(* the master itself answers at once, while the first is still waited for. *)
(*                                                                         *)
(* What the tool waits for is up to the application and to timers of ten   *)
(* seconds or an hour, so timers are not timed: they fire when they will.  *)
(***************************************************************************)
EXTENDS Naturals, Sequences, FiniteSets, SequencesExt, Maps

CONSTANTS
    Servers,        \* the servers other than the master
    TypeOf,         \* of each its server type
    Clis,           \* processes of the tool: each asks one command
    Commands,       \* the commands they may ask: [func, args]
    MaxFaults       \* bound: connections of servers that fail

ASSUME CliAssumption ==
    /\ Commands \subseteq [func : {"list", "stop", "remove", "removeT"},
                           args : SUBSET (Servers \cup {TypeOf[s] : s \in Servers})]
    /\ IsFiniteSet(Servers) /\ MaxFaults \in Nat

VARIABLES
    clis,           \* of each tool: what it waits for or was told
    master,         \* the master: up, about to exit, gone
    exiting,        \* MasterCli.exiting
    serversMap,     \* the servers with a registered connection
    reqId,          \* the id of the next request to a server
    monitorRequests,\* open requests: id -> the tool and the server
    commands,       \* closures of the commands the master received, per tool
    monitors,       \* of each server: the process, exiting, the request it works on
    down, up,       \* of each server: messages from and to the master
    faults          \* failed connections so far

masterVars == <<master, exiting, reqId, monitorRequests, commands>>
linkVars == <<serversMap, down, up, faults>>
vars == <<clis, masterVars, monitors, linkVars>>

None == 0

Init ==
    /\ clis = [q \in Clis |-> [state |-> "idle"]]
    /\ master = "up" /\ exiting = FALSE
    /\ reqId = 1 /\ monitorRequests = <<>> /\ commands = <<>>
    /\ serversMap = {}
    /\ monitors = [s \in Servers |-> [proc |-> "up", exiting |-> FALSE, work |-> None]]
    /\ down = [s \in Servers |-> <<>>] /\ up = [s \in Servers |-> <<>>]
    /\ faults = 0

Received == DOMAIN commands

-----------------------------------------------------------------------------
(* The tool.                                                               *)

\* clientProxy.request, once connected and registered.
Request(q, c) ==
    /\ clis[q].state = "idle" /\ master # "gone"
    /\ clis' = [clis EXCEPT ![q] = [state |-> "waiting", command |-> c]]
    /\ UNCHANGED <<masterVars, monitors, linkVars>>

\* The master's answer, the tool's own timer, or the end of the connection:
\* the first of them ends the tool.
Told(q) ==
    /\ q \in Received /\ commands[q].answers > 0
    /\ clis' = [clis EXCEPT ![q].state = "told"]
TimedOut(q) == clis' = [clis EXCEPT ![q].state = "timedOut"]
Closed(q) ==
    /\ master = "gone" /\ ~ (q \in Received /\ commands[q].answers > 0)
    /\ clis' = [clis EXCEPT ![q].state = "aborted"]
CliEnds(q) ==
    /\ clis[q].state = "waiting"
    /\ Told(q) \/ TimedOut(q) \/ Closed(q)
    /\ UNCHANGED <<masterVars, monitors, linkVars>>

-----------------------------------------------------------------------------
(* The master: MasterCli.                                                  *)

\* The servers a command is about, of those that are connected.
Asked(c) ==
    CASE c.func \in {"list", "stop"} -> serversMap
      [] c.func = "remove"           -> c.args \cap serversMap
      [] c.func = "removeT"          -> {s \in serversMap : TypeOf[s] \in c.args}

\* send_to_monitor to every server of S, for the command of tool q.
SendToMonitors(q, c, S) ==
    LET order == SetToSeq(S)
        ids == [i \in DOMAIN order |-> reqId + i - 1]
        idOf(s) == ids[CHOOSE i \in DOMAIN order : order[i] = s]
    IN  /\ monitorRequests' = Updated(monitorRequests,
              [r \in Range(ids) |-> [cli |-> q, server |-> order[r - reqId + 1]]])
        /\ reqId' = reqId + Len(order)
        /\ down' = [s \in Servers |-> IF s \in S
              THEN Append(down[s], [func |-> c.func, reqId |-> idOf(s)]) ELSE down[s]]

\* exitCall: the process ends a second later.
ExitCall == master' = IF master = "up" THEN "leaving" ELSE master

NewCommand(c, S) ==
    [func |-> c.func, num |-> Cardinality(S), answers |-> 0, asked |-> S, late |-> {},
     again |-> FALSE]

\* Slip: the last answer is not waited for.
AnsweredEarly(n) == n <= 1
\* The test of the callbacks.
Answered(n) == n <= 0

\* The callback cb of a command, with the other changes it made (k).
Callback(q, k) ==
    LET n == k.num - 1
    IN  /\ commands' = With(commands, q,
              [k EXCEPT !.num = n, !.answers = IF Answered(n) THEN @ + 1 ELSE @])
        /\ IF Answered(n) /\ k.func = "stop" THEN ExitCall ELSE UNCHANGED master

Again(c, S) == [NewCommand(c, S) EXCEPT !.again = TRUE]

\* Slip: a stop during another is ignored, as the servers ignore it.
StopAgainIgnored(q, c, S) ==
    /\ commands' = With(commands, q, [Again(c, S) EXCEPT !.num = 0])
    /\ UNCHANGED master
\* A stop after another is answered at once, and no server of S is asked.
StopAgain(q, c, S) ==
    /\ commands' = With(commands, q, [Again(c, S) EXCEPT !.answers = 1])
    /\ UNCHANGED master

\* deal_cli_msg: func_list, func_remove, func_removeT, func_stop.
DealCliMsg(q) ==
    /\ clis[q].state # "idle" /\ q \notin Received /\ master # "gone"
    /\ LET c == clis[q].command
           S == Asked(c)
       IN  \/ /\ S = {}
              /\ Callback(q, NewCommand(c, {}))
              /\ UNCHANGED <<exiting, reqId, monitorRequests, down>>
           \/ /\ S # {} /\ c.func = "stop" /\ exiting
              /\ StopAgain(q, c, S)
              /\ UNCHANGED <<exiting, reqId, monitorRequests, down>>
           \/ /\ S # {} /\ ~ (c.func = "stop" /\ exiting)
              /\ exiting' = (exiting \/ c.func = "stop")
              /\ commands' = With(commands, q, NewCommand(c, S))
              /\ SendToMonitors(q, c, S)
              /\ UNCHANGED master
    /\ UNCHANGED <<clis, monitors, serversMap, up, faults>>

\* Slip: the request stays, and its timer, when it is answered.
SettledKept(r) == UNCHANGED monitorRequests
\* The request is over, and its timer.
Settled(r) == monitorRequests' = Minus(monitorRequests, {r})

\* deal_monitor_msg, for the first message of server s.
DealMonitorMsg(s) ==
    /\ s \in serversMap /\ up[s] # <<>> /\ master # "gone"
    /\ up' = [up EXCEPT ![s] = Tail(@)]
    /\ LET r == Head(up[s])
       IN  IF r \in DOMAIN monitorRequests
           THEN LET q == monitorRequests[r].cli
                IN  Settled(r) /\ Callback(q, commands[q])
           ELSE UNCHANGED <<monitorRequests, commands, master>>
    /\ UNCHANGED <<clis, exiting, reqId, monitors, serversMap, down, faults>>

\* The timer of a request fires.
Timeout(r) ==
    /\ r \in DOMAIN monitorRequests /\ master # "gone"
    /\ LET q == monitorRequests[r].cli
       IN  /\ monitorRequests' = Minus(monitorRequests, {r})
           /\ Callback(q, [commands[q] EXCEPT !.late = @ \cup {monitorRequests[r].server}])
    /\ UNCHANGED <<clis, exiting, reqId, monitors, linkVars>>

MasterExit ==
    /\ master = "leaving" /\ master' = "gone"
    /\ serversMap' = {}
    /\ down' = [s \in Servers |-> <<>>] /\ up' = [s \in Servers |-> <<>>]
    /\ UNCHANGED <<clis, exiting, reqId, monitorRequests, commands, monitors, faults>>

-----------------------------------------------------------------------------
(* The servers: MonitorCli, and their connections.                         *)

\* What a server sends on no connection is lost.
SendToMaster(s, r) == up' = IF s \in serversMap THEN [up EXCEPT ![s] = Append(@, r)] ELSE up

\* func_stop, func_remove and func_removeT up to the application's onBeforeExit.
StartExit(s, r) ==
    monitors' = IF monitors[s].exiting THEN monitors
                ELSE [monitors EXCEPT ![s].exiting = TRUE, ![s].work = r]

\* deal_master_msg.
DealMasterMsg(s) ==
    /\ s \in serversMap /\ down[s] # <<>> /\ monitors[s].proc # "gone"
    /\ down' = [down EXCEPT ![s] = Tail(@)]
    /\ LET m == Head(down[s])
       IN  \/ m.func = "list" /\ SendToMaster(s, m.reqId) /\ UNCHANGED monitors
           \/ m.func # "list" /\ StartExit(s, m.reqId) /\ UNCHANGED up
    /\ UNCHANGED <<clis, masterVars, serversMap, faults>>

\* onBeforeExit returned or threw: finally.
BeforeExitOver(s) ==
    /\ monitors[s].work # None
    /\ SendToMaster(s, monitors[s].work)
    /\ monitors' = [monitors EXCEPT ![s].work = None, ![s].proc = "leaving"]
    /\ UNCHANGED <<clis, masterVars, serversMap, down, faults>>

\* exitCall's timer: the process is gone; what it sent still arrives.
ServerExit(s) ==
    /\ monitors[s].proc = "leaving"
    /\ monitors' = [monitors EXCEPT ![s].proc = "gone"]
    /\ down' = [down EXCEPT ![s] = <<>>]
    /\ UNCHANGED <<clis, masterVars, serversMap, up, faults>>

\* Master_ServerProxy.init, after a first or a new connection, and onClose:
\* of a server that is gone, or of a connection that failed.
OnAddServer(s) ==
    /\ s \notin serversMap /\ monitors[s].proc # "gone" /\ master # "gone"
    /\ serversMap' = serversMap \cup {s}
    /\ UNCHANGED <<clis, masterVars, monitors, down, up, faults>>
OnRemoveServer(s) ==
    /\ s \in serversMap /\ master # "gone"
    /\ \/ monitors[s].proc = "gone" /\ up[s] = <<>> /\ UNCHANGED faults
       \/ faults < MaxFaults /\ faults' = faults + 1
    /\ serversMap' = serversMap \ {s}
    /\ down' = [down EXCEPT ![s] = <<>>] /\ up' = [up EXCEPT ![s] = <<>>]
    /\ UNCHANGED <<clis, masterVars, monitors>>

-----------------------------------------------------------------------------
RequestIds == 1 .. Cardinality(Clis) * Cardinality(Servers)

Next ==
    \/ \E q \in Clis : \/ \E c \in Commands : Request(q, c)
                       \/ CliEnds(q) \/ DealCliMsg(q)
    \/ \E r \in RequestIds : Timeout(r)
    \/ \E s \in Servers : \/ DealMonitorMsg(s) \/ DealMasterMsg(s) \/ BeforeExitOver(s)
                          \/ ServerExit(s) \/ OnAddServer(s) \/ OnRemoveServer(s)
    \/ MasterExit

Spec == Init /\ [][Next]_vars

\* The master handles what it receives, and its timers fire.  An onBeforeExit
\* need never return, and a server need never be heard of again.
FairSpec ==
    /\ Spec
    /\ \A q \in Clis : WF_vars(DealCliMsg(q))
    /\ \A r \in RequestIds : WF_vars(Timeout(r))

-----------------------------------------------------------------------------
\* A command's counter is the number of its open requests until it is
\* answered, once; then none of them is open.  However answers and timeouts
\* are interleaved, no request is counted twice and none is forgotten
\* (deal_monitor_msg, send_to_monitor, the callbacks).
CountsPending ==
    \A q \in Received :
       LET open == Cardinality({r \in DOMAIN monitorRequests : monitorRequests[r].cli = q})
       IN  \/ commands[q].answers = 0 /\ commands[q].num = open
           \/ commands[q].answers = 1 /\ open = 0

\* The tool is told that the servers are stopped or removed only when every
\* server the command is about is past its onBeforeExit, or did not answer in
\* time (func_stop, func_remove and func_removeT on both sides).  Not so a stop
\* during another, whose answer says nothing of the servers (StopAgain).
DoneWhenTold ==
    \A q \in Clis :
       clis[q].state = "told" /\ commands[q].func # "list" /\ ~commands[q].again =>
       \A s \in commands[q].asked \ commands[q].late : monitors[s].proc # "up"

\* Every command gets its answer while the master lives, though the servers
\* asked may be gone, cut off, or already exiting, and ignore it.
EveryCommandAnswered ==
    \A q \in Clis :
       clis[q].state = "waiting" ~>
          master = "gone" \/ (q \in Received /\ commands[q].answers > 0)
=============================================================================
