----------------------------- MODULE CliProofs -----------------------------
(***************************************************************************)
(* Proofs about Cli, for any servers, tools and commands: what the tool is *)
(* told is true, and the counters it depends on count.                     *)
(***************************************************************************)
EXTENDS Cli, DataTheorems, TLAPS

Funcs == {"list", "stop", "remove", "removeT"}
Ids == Nat \ {0}
Asks == [cli : Clis, server : Servers]
Orders == [func : Funcs, reqId : Ids]
Cmds == [func : Funcs, num : Int, answers : Nat, asked : SUBSET Servers, late : SUBSET Servers,
         again : BOOLEAN]
Busy == {"waiting", "told", "timedOut", "aborted"}

(***************************************************************************)
(* The inductive invariant.                                                *)
(***************************************************************************)

\* The master's requests are younger than the next, and of commands it has.
MasterOK ==
    /\ reqId \in Ids
    /\ monitorRequests \in MapsOf(Ids, Asks) /\ IsFiniteSet(DOMAIN monitorRequests)
    /\ \A r \in DOMAIN monitorRequests : r < reqId /\ monitorRequests[r].cli \in Received
    /\ commands \in MapsOf(Clis, Cmds)

ServersOK ==
    /\ serversMap \subseteq Servers
    /\ monitors \in [Servers -> [proc : {"up", "leaving", "gone"}, exiting : BOOLEAN, work : Nat]]
    /\ down \in [Servers -> Seq(Orders)] /\ up \in [Servers -> Seq(Ids)]

ToolsOK ==
    clis \in [Clis -> [state : {"idle"}] \cup [state : Busy, command : Commands]]

\* The open requests of a command, and those to one server.
Open(q) == {r \in DOMAIN monitorRequests : monitorRequests[r].cli = q}
OpenTo(q, s) == \E r \in DOMAIN monitorRequests :
                   monitorRequests[r].cli = q /\ monitorRequests[r].server = s

\* Where a request is: as long as it is open, the order, the work and the
\* reply with its id are those of the server that was asked.
RequestOf(s, r) == r < reqId /\ (r \in DOMAIN monitorRequests => monitorRequests[r].server = s)
OrderOf(s, m) ==
    /\ RequestOf(s, m.reqId)
    /\ m.reqId \in DOMAIN monitorRequests =>
          m.func = commands[monitorRequests[m.reqId].cli].func
\* A reply but to a list says that onBeforeExit is over.
ReplyOf(s, r) ==
    /\ RequestOf(s, r)
    /\ r \in DOMAIN monitorRequests /\ commands[monitorRequests[r].cli].func # "list" =>
          monitors[s].proc # "up"

OrdersOwn == \A s \in Servers : \A i \in DOMAIN down[s] : OrderOf(s, down[s][i])
WorkOwn == \A s \in Servers : RequestOf(s, monitors[s].work)
RepliesOwn == \A s \in Servers : \A i \in DOMAIN up[s] : ReplyOf(s, up[s][i])

\* Whom a command still waits for.
AskedOpen ==
    \A q \in Received : commands[q].func # "list" /\ ~commands[q].again =>
        \A s \in commands[q].asked \ commands[q].late :
            monitors[s].proc # "up" \/ OpenTo(q, s)
ToldAnswered ==
    \A q \in Clis : clis[q].state = "told" => q \in Received /\ commands[q].answers > 0

CInv ==
    /\ MasterOK /\ ServersOK /\ ToolsOK
    /\ OrdersOwn /\ WorkOwn /\ RepliesOwn /\ AskedOpen /\ ToldAnswered
    /\ CountsPending

LEMMA InitInv == Init => CInv
<1> SUFFICES ASSUME Init PROVE CInv
  OBVIOUS
<1>1. MasterOK
  BY EmptyMap, FS_EmptySet DEF Init, MasterOK, Ids, Received
<1>2. ServersOK
  BY DEF Init, ServersOK, None
<1>3. ToolsOK
  BY DEF Init, ToolsOK
<1>4. DOMAIN commands = {} /\ DOMAIN monitorRequests = {}
  BY EmptyMap DEF Init
<1>5. OrdersOwn /\ WorkOwn /\ RepliesOwn
  BY <1>4 DEF Init, OrdersOwn, WorkOwn, RepliesOwn, RequestOf, None
<1>6. AskedOpen /\ CountsPending /\ ToldAnswered
  BY <1>4 DEF Init, AskedOpen, CountsPending, ToldAnswered, Received
<1>. QED BY <1>1, <1>2, <1>3, <1>5, <1>6 DEF CInv

(***************************************************************************)
(* The counters.                                                           *)
(***************************************************************************)

\* What a callback does to the commands.
LEMMA CallbackEffect ==
    ASSUME commands \in MapsOf(Clis, Cmds), NEW q \in Clis, NEW k \in Cmds, Callback(q, k)
    PROVE  /\ commands' \in MapsOf(Clis, Cmds)
           /\ DOMAIN commands' = Received \cup {q}
           /\ \A p \in Received \ {q} : commands'[p] = commands[p]
           /\ commands'[q].func = k.func /\ commands'[q].asked = k.asked
           /\ commands'[q].late = k.late /\ commands'[q].again = k.again
           /\ commands'[q].num = k.num - 1
           /\ commands'[q].answers = IF k.num <= 1 THEN k.answers + 1 ELSE k.answers
<1> DEFINE a == IF Answered(k.num - 1) THEN k.answers + 1 ELSE k.answers
           v == [k EXCEPT !.num = k.num - 1, !.answers = a]
<1>1. commands' = With(commands, q, v)
  BY DEF Callback
<1>2. a = IF k.num <= 1 THEN k.answers + 1 ELSE k.answers
  BY DEF Answered, Cmds
<1>3. a \in Nat
  BY <1>2 DEF Cmds
<1> HIDE DEF a
<1>4. v.func = k.func /\ v.asked = k.asked /\ v.late = k.late /\ v.again = k.again
      /\ v.num = k.num - 1 /\ v.answers = a
  BY DEF Cmds
<1>5. v \in Cmds
  <2> DEFINE m == k.num - 1
             w == [k EXCEPT !.num = m]
  <2>1. m \in Int
    BY DEF Cmds
  <2> HIDE DEF m
  <2>2. w \in Cmds
    BY <2>1 DEF Cmds
  <2>3. v = [w EXCEPT !.answers = a]
    BY DEF m, Cmds
  <2> HIDE DEF w, v
  <2>. QED BY <1>3, <2>2, <2>3 DEF Cmds
<1> HIDE DEF v
<1>6. commands' \in MapsOf(Clis, Cmds)
  <2>1. With(commands, q, v) \in MapsOf(Clis, Cmds)
    BY <1>5, WithMap
  <2>. QED BY <1>1, <2>1
<1>7. /\ DOMAIN commands' = DOMAIN commands \cup {q} /\ commands'[q] = v
      /\ \A p \in DOMAIN commands \ {q} : commands'[p] = commands[p]
  BY <1>1 DEF With
<1>. QED BY <1>2, <1>4, <1>6, <1>7 DEF Received

\* A request that is over, by its answer or its timer.
LEMMA SettleStep ==
    ASSUME MasterOK, CountsPending, NEW r \in DOMAIN monitorRequests, NEW k \in Cmds,
           NEW q, q = monitorRequests[r].cli, Callback(q, k),
           k.num = commands[q].num, k.answers = commands[q].answers,
           monitorRequests' = Minus(monitorRequests, {r}), UNCHANGED reqId
    PROVE  MasterOK' /\ CountsPending' /\ DOMAIN commands' = Received
<1>1. /\ DOMAIN monitorRequests' = DOMAIN monitorRequests \ {r}
      /\ \A x \in DOMAIN monitorRequests \ {r} : monitorRequests'[x] = monitorRequests[x]
      /\ monitorRequests' \in MapsOf(Ids, Asks)
  <2>1. monitorRequests' \in MapsOf(Ids, Asks)
    BY MinusMap DEF MasterOK
  <2>. QED BY <2>1 DEF Minus
<1>2. monitorRequests[r] \in Asks
  BY MapElim DEF MasterOK
<1>3. q \in Clis /\ q \in Received
  BY <1>2 DEF Asks, MasterOK
<1>4. k.num \in Int /\ k.answers \in Nat
  BY DEF Cmds
<1>5. /\ commands' \in MapsOf(Clis, Cmds)
      /\ DOMAIN commands' = Received
      /\ \A p \in Received \ {q} : commands'[p] = commands[p]
      /\ commands'[q].num = k.num - 1
      /\ commands'[q].answers = IF k.num <= 1 THEN k.answers + 1 ELSE k.answers
  BY <1>3, CallbackEffect DEF MasterOK
<1>6. IsFiniteSet(DOMAIN monitorRequests')
  BY <1>1, FS_RemoveElement DEF MasterOK
<1>7. MasterOK'
  BY <1>1, <1>5, <1>6 DEF MasterOK, Received
<1>8. IsFiniteSet(Open(q)) /\ r \in Open(q)
  BY FS_Subset DEF Open, MasterOK
<1>9. Cardinality(Open(q)) \in Nat \ {0}
  BY <1>8, FS_CardinalityType, FS_EmptySet
<1>10. commands[q].answers = 0 /\ commands[q].num = Cardinality(Open(q))
  BY <1>3, <1>9 DEF CountsPending, Open
<1>11. Open(q)' = Open(q) \ {r} /\ Cardinality(Open(q) \ {r}) = Cardinality(Open(q)) - 1
  <2>1. Open(q)' = Open(q) \ {r}
    BY <1>1 DEF Open
  <2>. QED BY <2>1, <1>8, FS_RemoveElement
<1>12. CountsPending'
  <2> SUFFICES ASSUME NEW p \in Received
               PROVE  \/ commands'[p].answers = 0 /\ commands'[p].num = Cardinality(Open(p)')
                      \/ commands'[p].answers = 1 /\ Cardinality(Open(p)') = 0
    BY <1>5 DEF CountsPending, Received, Open
  <2>1. CASE p = q
    <3>1. commands'[q].num = Cardinality(Open(q)')
      BY <1>5, <1>10, <1>11
    <3>2. Cardinality(Open(q)') \in Nat
      BY <1>9, <1>11
    <3>3. commands'[q].answers = IF Cardinality(Open(q)') = 0 THEN 1 ELSE 0
      BY <1>5, <1>9, <1>10, <1>11
    <3>. QED BY <2>1, <3>1, <3>2, <3>3
  <2>2. CASE p # q
    <3>1. Open(p)' = Open(p)
      BY <2>2, <1>1 DEF Open
    <3>2. commands'[p] = commands[p]
      BY <2>2, <1>5
    <3>. QED BY <3>1, <3>2 DEF CountsPending, Open
  <2>. QED BY <2>1, <2>2
<1>. QED BY <1>5, <1>7, <1>12

\* What a message to every server of S, for the command c of q, changes.
Sending(q, c, S) ==
    /\ reqId' = reqId + Cardinality(S)
    /\ DOMAIN monitorRequests' = DOMAIN monitorRequests \cup reqId .. reqId + Cardinality(S) - 1
    /\ monitorRequests' \in MapsOf(Ids, Asks)
    /\ \A r \in DOMAIN monitorRequests : monitorRequests'[r] = monitorRequests[r]
    /\ \A r \in reqId .. reqId + Cardinality(S) - 1 : monitorRequests'[r].cli = q
    /\ \A s \in S : \E r \in reqId .. reqId + Cardinality(S) - 1 :
          /\ monitorRequests'[r].server = s
          /\ down'[s] = Append(down[s], [func |-> c.func, reqId |-> r])
    /\ \A s \in Servers \ S : down'[s] = down[s]
    /\ down' \in [Servers -> Seq(Orders)]

LEMMA SendEffect ==
    ASSUME CliAssumption, MasterOK, ServersOK, NEW q \in Clis, NEW c \in Commands,
           NEW S \in SUBSET Servers, SendToMonitors(q, c, S)
    PROVE  Sending(q, c, S)
<1> DEFINE order == SetToSeq(S)
           n == Cardinality(S)
           ids == [i \in DOMAIN order |-> reqId + i - 1]
           idOf(s) == ids[CHOOSE i \in DOMAIN order : order[i] = s]
           new == [r \in Range(ids) |-> [cli |-> q, server |-> order[r - reqId + 1]]]
<1>1. IsFiniteSet(S)
  BY FS_Subset DEF CliAssumption
<1>2. /\ n \in Nat /\ order \in [1..n -> S] /\ Len(order) = n
      /\ \A i, j \in 1..n : order[i] = order[j] => i = j
      /\ \A s \in S : \E i \in 1..n : order[i] = s
  BY <1>1, SetToSeqOnce
<1>3. /\ monitorRequests' = Updated(monitorRequests, new) /\ reqId' = reqId + Len(order)
      /\ down' = [s \in Servers |-> IF s \in S
            THEN Append(down[s], [func |-> c.func, reqId |-> idOf(s)]) ELSE down[s]]
  BY DEF SendToMonitors
<1> HIDE DEF order, n
<1>4. ids = [i \in 1..n |-> reqId + i - 1] /\ reqId \in Ids
  BY <1>2 DEF MasterOK
<1>5. Range(ids) = reqId .. reqId + n - 1
  <2>1. \A i \in 1..n : reqId + i - 1 \in reqId .. reqId + n - 1
    BY <1>2, <1>4 DEF Ids
  <2>2. \A r \in reqId .. reqId + n - 1 : r - reqId + 1 \in 1..n /\ reqId + (r - reqId + 1) - 1 = r
    BY <1>2, <1>4 DEF Ids
  <2>3. ASSUME NEW r \in reqId .. reqId + n - 1
        PROVE  \E i \in 1..n : ids[i] = r
    BY <2>2, <1>4
  <2> HIDE DEF ids
  <2>4. ASSUME NEW i \in 1..n
        PROVE  ids[i] \in reqId .. reqId + n - 1
    BY <2>1, <1>4
  <2>. QED BY <2>3, <2>4, <1>4 DEF Range
<1>6. \A s \in S : \E i \in 1..n : order[i] = s /\ idOf(s) = reqId + i - 1
  <2>1. ASSUME NEW s \in S
        PROVE  \E i \in 1..n : order[i] = s /\ idOf(s) = reqId + i - 1
    <3> DEFINE i == CHOOSE j \in DOMAIN order : order[j] = s
    <3>1. i \in 1..n /\ order[i] = s
      BY <1>2
    <3>2. idOf(s) = ids[i]
      OBVIOUS
    <3> HIDE DEF i
    <3>. QED BY <3>1, <3>2, <1>4
  <2>. QED BY <2>1
<1> HIDE DEF ids, idOf
<1>7. \A r \in reqId .. reqId + n - 1 :
         new[r].cli = q /\ new[r].server = order[r - reqId + 1] /\ new[r] \in Asks
  <2>1. \A r \in reqId .. reqId + n - 1 : r - reqId + 1 \in 1..n
    BY <1>2, <1>4 DEF Ids
  <2>. QED BY <2>1, <1>2, <1>5 DEF Asks
<1>8. DOMAIN new = reqId .. reqId + n - 1
  BY <1>5
<1>9. \A r \in DOMAIN new : r \in Ids
  BY <1>8, <1>2, <1>4 DEF Ids
<1>10. new \in MapsOf(Ids, Asks)
  BY <1>7, <1>8, <1>9, MapIntro
<1>11. \A r \in DOMAIN monitorRequests : r \notin DOMAIN new
  BY <1>2, <1>4, <1>8, MapElim DEF MasterOK, Ids
<1> HIDE DEF new
<1>12. /\ DOMAIN monitorRequests' = DOMAIN monitorRequests \cup DOMAIN new
       /\ \A r \in DOMAIN new : monitorRequests'[r] = new[r]
       /\ \A r \in DOMAIN monitorRequests : monitorRequests'[r] = monitorRequests[r]
  BY <1>3, <1>11 DEF Updated
<1>13. monitorRequests' \in MapsOf(Ids, Asks)
  <2>1. Updated(monitorRequests, new) \in MapsOf(Ids, Asks)
    BY <1>10, UpdatedMap DEF MasterOK
  <2>. QED BY <2>1, <1>3
<1>14. ASSUME NEW s \in S
       PROVE  \E r \in reqId .. reqId + n - 1 :
                 /\ monitorRequests'[r].server = s
                 /\ down'[s] = Append(down[s], [func |-> c.func, reqId |-> r])
  <2>1. PICK i \in 1..n : order[i] = s /\ idOf(s) = reqId + i - 1
    BY <1>6
  <2> DEFINE r == reqId + i - 1
  <2>2. r \in reqId .. reqId + n - 1 /\ r - reqId + 1 = i
    BY <1>2, <1>4 DEF Ids
  <2>3. down'[s] = Append(down[s], [func |-> c.func, reqId |-> r])
    BY <1>3, <2>1
  <2> HIDE DEF r
  <2>4. monitorRequests'[r].server = s
    BY <2>1, <2>2, <1>7, <1>8, <1>12
  <2>. QED BY <2>2, <2>3, <2>4
<1>15. ASSUME NEW s \in Servers
       PROVE  down'[s] \in Seq(Orders)
  <2>1. down[s] \in Seq(Orders)
    BY DEF ServersOK
  <2>2. CASE s \in S
    <3>1. PICK r \in reqId .. reqId + n - 1 :
             down'[s] = Append(down[s], [func |-> c.func, reqId |-> r])
      BY <2>2, <1>14
    <3>2. r \in Ids /\ c.func \in Funcs
      BY <1>2, <1>4 DEF Ids, CliAssumption, Funcs
    <3>3. [func |-> c.func, reqId |-> r] \in Orders
      BY <3>2 DEF Orders
    <3>. QED BY <2>1, <3>1, <3>3
  <2>3. CASE s \notin S
    BY <2>1, <2>3, <1>3
  <2>. QED BY <2>2, <2>3
<1>16. down' \in [Servers -> Seq(Orders)]
  BY <1>3, <1>15
<1>17. \A s \in Servers \ S : down'[s] = down[s]
  BY <1>3
<1>18. \A r \in reqId .. reqId + n - 1 : monitorRequests'[r].cli = q
  BY <1>7, <1>8, <1>12
<1>. QED BY <1>1, <1>2, <1>3, <1>8, <1>12, <1>13, <1>14, <1>16, <1>17, <1>18 DEF n, Sending

(***************************************************************************)
(* What no step undoes.                                                    *)
(***************************************************************************)

Onward ==
    /\ reqId <= reqId'
    /\ \A r \in DOMAIN monitorRequests' : r < reqId =>
          r \in DOMAIN monitorRequests /\ monitorRequests'[r] = monitorRequests[r]
    /\ \A q \in Received : q \in Received' /\ commands'[q].func = commands[q].func
    /\ \A s \in Servers : monitors[s].proc # "up" => monitors'[s].proc # "up"

\* So an id keeps its meaning.
LEMMA OwnKept ==
    ASSUME MasterOK, MasterOK', Onward, NEW s \in Servers
    PROVE  /\ \A r \in Nat : RequestOf(s, r) => RequestOf(s, r)'
           /\ \A m \in Orders : OrderOf(s, m) => OrderOf(s, m)'
           /\ \A r \in Nat : ReplyOf(s, r) => ReplyOf(s, r)'
<1>1. reqId \in Nat /\ reqId' \in Nat
  BY DEF MasterOK, Ids
<1>2. ASSUME NEW k \in Nat, RequestOf(s, k)
      PROVE  RequestOf(s, k)'
  BY <1>1, <1>2 DEF RequestOf, Onward
<1>3. ASSUME NEW k \in Nat, RequestOf(s, k), k \in DOMAIN monitorRequests'
      PROVE  /\ k \in DOMAIN monitorRequests /\ monitorRequests'[k] = monitorRequests[k]
             /\ commands'[monitorRequests'[k].cli].func = commands[monitorRequests[k].cli].func
  BY <1>3 DEF RequestOf, Onward, MasterOK
<1>4. ASSUME NEW m \in Orders, OrderOf(s, m)
      PROVE  OrderOf(s, m)'
  <2>1. m.reqId \in Nat
    BY DEF Orders, Ids
  <2>. QED BY <2>1, <1>2, <1>3, <1>4 DEF OrderOf
<1>5. ASSUME NEW r \in Nat, ReplyOf(s, r)
      PROVE  ReplyOf(s, r)'
  BY <1>2, <1>3, <1>5 DEF ReplyOf, Onward
<1>. QED BY <1>2, <1>4, <1>5

\* What is on its way stays right if it was there before, or is right now.
LEMMA QueuesKept ==
    ASSUME MasterOK, MasterOK', ServersOK, Onward, OrdersOwn, WorkOwn, RepliesOwn,
           \A s \in Servers :
              /\ \A i \in DOMAIN down'[s] : \/ \E j \in DOMAIN down[s] : down'[s][i] = down[s][j]
                                           \/ OrderOf(s, down[s][i])'
              /\ \A i \in DOMAIN up'[s] : \/ \E j \in DOMAIN up[s] : up'[s][i] = up[s][j]
                                         \/ ReplyOf(s, up[s][i])'
              /\ monitors'[s].work = monitors[s].work \/ RequestOf(s, monitors[s].work)'
    PROVE  OrdersOwn' /\ WorkOwn' /\ RepliesOwn'
<1>1. ASSUME NEW s \in Servers, NEW i \in DOMAIN down'[s]
      PROVE  OrderOf(s, down[s][i])'
  <2>1. CASE \E j \in DOMAIN down[s] : down'[s][i] = down[s][j]
    <3>1. PICK j \in DOMAIN down[s] : down'[s][i] = down[s][j]
      BY <2>1
    <3>2. PICK m \in Orders : m = down[s][j]
      BY <3>1 DEF ServersOK
    <3>3. OrderOf(s, m)
      BY <3>1, <3>2 DEF OrdersOwn
    <3>4. OrderOf(s, m)'
      BY <3>3, OwnKept
    <3>. QED BY <3>1, <3>2, <3>4
  <2>. QED BY <2>1
<1>2. ASSUME NEW s \in Servers, NEW i \in DOMAIN up'[s]
      PROVE  ReplyOf(s, up[s][i])'
  <2>1. CASE \E j \in DOMAIN up[s] : up'[s][i] = up[s][j]
    <3>1. PICK j \in DOMAIN up[s] : up'[s][i] = up[s][j]
      BY <2>1
    <3>2. PICK r \in Nat : r = up[s][j]
      BY <3>1 DEF ServersOK, Ids
    <3>3. ReplyOf(s, r)
      BY <3>1, <3>2 DEF RepliesOwn
    <3>4. ReplyOf(s, r)'
      BY <3>3, OwnKept
    <3>. QED BY <3>1, <3>2, <3>4
  <2>. QED BY <2>1
<1>3. ASSUME NEW s \in Servers
      PROVE  RequestOf(s, monitors[s].work)'
  <2>1. CASE monitors'[s].work = monitors[s].work
    <3>1. PICK r \in Nat : r = monitors[s].work
      BY DEF ServersOK
    <3>2. RequestOf(s, r)'
      BY <3>1, OwnKept DEF WorkOwn
    <3>. QED BY <2>1, <3>1, <3>2
  <2>. QED BY <2>1
<1>. QED BY <1>1, <1>2, <1>3 DEF OrdersOwn, WorkOwn, RepliesOwn

\* A command's servers stay asked.
LEMMA AskedKept ==
    ASSUME AskedOpen, Onward,
           \A q \in Received' \ Received : commands'[q].func # "list" /\ ~commands'[q].again =>
              \A s \in commands'[q].asked : OpenTo(q, s)',
           \A q \in Received :
              /\ commands'[q].asked = commands[q].asked /\ commands'[q].again = commands[q].again
              /\ commands[q].late \subseteq commands'[q].late,
           \A r \in DOMAIN monitorRequests \ DOMAIN monitorRequests' :
              \/ commands[monitorRequests[r].cli].func = "list"
              \/ monitors'[monitorRequests[r].server].proc # "up"
              \/ monitorRequests[r].server \in commands'[monitorRequests[r].cli].late,
           \A r \in DOMAIN monitorRequests \cap DOMAIN monitorRequests' :
              monitorRequests'[r] = monitorRequests[r],
           commands \in MapsOf(Clis, Cmds)
    PROVE  AskedOpen'
<1> SUFFICES ASSUME NEW q \in Received', commands'[q].func # "list", ~commands'[q].again,
                    NEW s \in commands'[q].asked \ commands'[q].late
             PROVE  monitors'[s].proc # "up" \/ OpenTo(q, s)'
  BY DEF AskedOpen
<1>1. CASE q \notin Received
  BY <1>1
<1>2. CASE q \in Received
  <2>1. commands[q].func # "list" /\ ~commands[q].again /\ s \in commands[q].asked \ commands[q].late
    BY <1>2 DEF Onward
  <2>2. s \in Servers
    <3>1. commands[q] \in Cmds
      BY <1>2, MapElim DEF Received
    <3>. QED BY <3>1, <2>1 DEF Cmds
  <2>3. CASE monitors[s].proc # "up"
    BY <2>2, <2>3 DEF Onward
  <2>4. CASE OpenTo(q, s)
    <3>1. PICK r \in DOMAIN monitorRequests :
             monitorRequests[r].cli = q /\ monitorRequests[r].server = s
      BY <2>4 DEF OpenTo
    <3>2. CASE r \in DOMAIN monitorRequests'
      BY <3>1, <3>2 DEF OpenTo
    <3>3. CASE r \notin DOMAIN monitorRequests'
      BY <3>1, <3>3, <2>1
    <3>. QED BY <3>2, <3>3
  <2>. QED BY <2>1, <2>3, <2>4, <1>2 DEF AskedOpen
<1>. QED BY <1>1, <1>2

(***************************************************************************)
(* The steps of the tool and of the servers: no command and no request     *)
(* changes.                                                                *)
(***************************************************************************)

LEMMA MasterKept ==
    ASSUME MasterOK, CountsPending, UNCHANGED <<reqId, monitorRequests, commands>>
    PROVE  MasterOK' /\ CountsPending'
BY DEF MasterOK, CountsPending, Received

LEMMA ToolStep ==
    ASSUME CInv, NEW q \in Clis, (\E c \in Commands : Request(q, c)) \/ CliEnds(q)
    PROVE  CInv'
<1>1. UNCHANGED <<masterVars, monitors, linkVars>>
  BY DEF Request, CliEnds
<1>2. MasterOK' /\ ServersOK' /\ CountsPending' /\ OrdersOwn' /\ WorkOwn' /\ RepliesOwn' /\ AskedOpen'
  <2>1. MasterOK' /\ CountsPending'
    BY <1>1, MasterKept DEF CInv, masterVars
  <2>2. ServersOK'
    BY <1>1 DEF CInv, ServersOK, linkVars
  <2>3. OrdersOwn' /\ WorkOwn' /\ RepliesOwn'
    BY <1>1 DEF CInv, OrdersOwn, WorkOwn, RepliesOwn, OrderOf, ReplyOf, RequestOf, masterVars, linkVars
  <2>4. AskedOpen'
    BY <1>1 DEF CInv, AskedOpen, OpenTo, Received, masterVars
  <2>. QED BY <2>1, <2>2, <2>3, <2>4
<1>3. ToolsOK' /\ ToldAnswered'
  <2>1. CASE \E c \in Commands : Request(q, c)
    <3>1. PICK c \in Commands : clis' = [clis EXCEPT ![q] = [state |-> "waiting", command |-> c]]
      BY <2>1 DEF Request
    <3>2. [state |-> "waiting", command |-> c] \in [state : Busy, command : Commands]
      BY DEF Busy
    <3>3. ToolsOK'
      BY <3>1, <3>2 DEF CInv, ToolsOK
    <3>4. ToldAnswered'
      BY <3>1, <1>1 DEF CInv, ToolsOK, ToldAnswered, Received, masterVars
    <3>. QED BY <3>3, <3>4
  <2>2. CASE CliEnds(q)
    <3>1. clis[q] \in [state : Busy, command : Commands]
      BY <2>2 DEF CliEnds, CInv, ToolsOK
    <3>2. PICK t \in Busy : /\ clis' = [clis EXCEPT ![q].state = t]
                            /\ t = "told" => q \in Received /\ commands[q].answers > 0
      BY <2>2 DEF CliEnds, Told, TimedOut, Closed, Busy
    <3>3. /\ clis' \in [Clis -> [state : {"idle"}] \cup [state : Busy, command : Commands]]
          /\ clis'[q].state = t /\ \A p \in Clis \ {q} : clis'[p] = clis[p]
      BY <3>1, <3>2 DEF CInv, ToolsOK
    <3>4. ToldAnswered'
      BY <3>2, <3>3, <1>1 DEF CInv, ToldAnswered, Received, masterVars
    <3>. QED BY <3>3, <3>4 DEF ToolsOK
  <2>. QED BY <2>1, <2>2
<1>. QED BY <1>2, <1>3 DEF CInv

\* Steps of a server or its connection, of which ServerStep is the common part.
LEMMA ServerKeeps ==
    ASSUME CInv, ServersOK', UNCHANGED <<clis, reqId, monitorRequests, commands>>,
           \A s \in Servers :
              /\ monitors[s].proc # "up" => monitors'[s].proc # "up"
              /\ \A i \in DOMAIN down'[s] : \E j \in DOMAIN down[s] : down'[s][i] = down[s][j]
              /\ \A i \in DOMAIN up'[s] : \/ \E j \in DOMAIN up[s] : up'[s][i] = up[s][j]
                                         \/ ReplyOf(s, up[s][i])'
              /\ monitors'[s].work = monitors[s].work \/ RequestOf(s, monitors[s].work)'
    PROVE  CInv'
<1>1. MasterOK' /\ CountsPending'
  BY MasterKept DEF CInv
<1>2. Onward
  BY DEF Onward, CInv, MasterOK, Ids, Received
<1>3. OrdersOwn' /\ WorkOwn' /\ RepliesOwn'
  BY <1>1, <1>2, QueuesKept DEF CInv
<1>4. ToolsOK' /\ ToldAnswered'
  BY DEF CInv, ToolsOK, ToldAnswered, Received
<1>5. AskedOpen'
  BY <1>2, AskedKept DEF CInv, Received, MasterOK
<1>. QED BY <1>1, <1>3, <1>4, <1>5 DEF CInv

\* The queues after a message is taken, added, or all are lost.
LEMMA QueueOf ==
    ASSUME NEW T, NEW ms \in Seq(T), NEW m \in T
    PROVE  /\ Append(ms, m) \in Seq(T)
           /\ \A i \in DOMAIN Append(ms, m) :
                 (\E j \in DOMAIN ms : Append(ms, m)[i] = ms[j]) \/ Append(ms, m)[i] = m
           /\ ms # <<>> => /\ Head(ms) \in T /\ 1 \in DOMAIN ms /\ Head(ms) = ms[1]
                           /\ Tail(ms) \in Seq(T)
                           /\ \A i \in DOMAIN Tail(ms) : \E j \in DOMAIN ms : Tail(ms)[i] = ms[j]
<1>1. \A i \in 1..Len(ms) + 1 : i \in 1..Len(ms) \/ i = Len(ms) + 1
  OBVIOUS
<1>2. \A i \in 1..Len(ms) - 1 : i + 1 \in 1..Len(ms)
  OBVIOUS
<1>3. ASSUME ms # <<>>, NEW i \in DOMAIN Tail(ms)
      PROVE  \E j \in DOMAIN ms : Tail(ms)[i] = ms[j]
  BY <1>2, <1>3
<1>. QED BY <1>1, <1>3

LEMMA DealMasterMsgStep ==
    ASSUME CInv, NEW s \in Servers, DealMasterMsg(s)
    PROVE  CInv'
<1> DEFINE m == Head(down[s])
<1>1. PICK o \in Orders : o = Head(down[s]) /\ OrderOf(s, o)
  <2>1. down[s] \in Seq(Orders) /\ down[s] # <<>>
    BY DEF CInv, ServersOK, DealMasterMsg
  <2>2. Head(down[s]) \in Orders /\ 1 \in DOMAIN down[s] /\ Head(down[s]) = down[s][1]
    BY <2>1
  <2>3. OrderOf(s, down[s][1])
    BY <2>2 DEF CInv, OrdersOwn
  <2>. QED BY <2>2, <2>3
<1>2. down' = [down EXCEPT ![s] = Tail(@)] /\ UNCHANGED <<clis, masterVars, serversMap, faults>>
  BY DEF DealMasterMsg
<1>3. /\ down' \in [Servers -> Seq(Orders)]
      /\ \A x \in Servers : \A i \in DOMAIN down'[x] : \E j \in DOMAIN down[x] : down'[x][i] = down[x][j]
  <2>1. down[s] \in Seq(Orders) /\ down[s] # <<>> /\ down \in [Servers -> Seq(Orders)]
    BY DEF CInv, ServersOK, DealMasterMsg
  <2>2. /\ Tail(down[s]) \in Seq(Orders)
        /\ \A i \in DOMAIN Tail(down[s]) : \E j \in DOMAIN down[s] : Tail(down[s])[i] = down[s][j]
    BY <2>1, <1>1, QueueOf
  <2>. QED BY <2>1, <2>2, <1>2
<1>4. o.reqId \in Ids /\ o.reqId \in Nat
  BY DEF Orders, Ids
<1>5. CASE o.func = "list"
  <2>1. UNCHANGED monitors /\ SendToMaster(s, o.reqId)
    BY <1>1, <1>5 DEF DealMasterMsg
  <2>2. ReplyOf(s, o.reqId)
    BY <1>1, <1>5 DEF OrderOf, ReplyOf
  <2>3. UNCHANGED <<reqId, monitorRequests, commands>>
    BY <1>2 DEF masterVars
  <2>4. ReplyOf(s, o.reqId)'
    BY <2>1, <2>2, <2>3 DEF ReplyOf, RequestOf
  <2>5. CASE s \notin serversMap
    <3>1. UNCHANGED up
      BY <2>1, <2>5 DEF SendToMaster
    <3>2. ServersOK'
      BY <3>1, <2>1, <1>2, <1>3 DEF CInv, ServersOK
    <3>. QED BY <3>1, <3>2, <2>1, <2>3, <1>2, <1>3, ServerKeeps
  <2>6. CASE s \in serversMap
    <3>1. up' = [up EXCEPT ![s] = Append(@, o.reqId)]
      BY <2>1, <2>6 DEF SendToMaster
    <3>2. up \in [Servers -> Seq(Ids)] /\ up[s] \in Seq(Ids)
      BY DEF CInv, ServersOK
    <3>3. Append(up[s], o.reqId) \in Seq(Ids)
      BY <3>2, <1>4
    <3>4. ServersOK'
      BY <3>1, <3>2, <3>3, <2>1, <1>2, <1>3 DEF CInv, ServersOK
    <3>5. ASSUME NEW x \in Servers, NEW i \in DOMAIN up'[x]
          PROVE  (\E j \in DOMAIN up[x] : up'[x][i] = up[x][j]) \/ ReplyOf(x, up[x][i])'
      <4>1. CASE x # s
        BY <4>1, <3>1, <3>2
      <4>2. CASE x = s
        <5>1. up'[s] = Append(up[s], o.reqId)
          BY <3>1, <3>2
        <5>2. (\E j \in DOMAIN up[s] : up'[s][i] = up[s][j]) \/ up'[s][i] = o.reqId
          BY <5>1, <4>2, <3>2, <1>4, QueueOf
        <5>. QED BY <4>2, <5>2, <2>4
      <4>. QED BY <4>1, <4>2
    <3>. QED BY <3>4, <3>5, <2>1, <2>3, <1>2, <1>3, ServerKeeps
  <2>. QED BY <2>5, <2>6
<1>6. CASE o.func # "list"
  <2>1. UNCHANGED up /\ StartExit(s, o.reqId)
    BY <1>1, <1>6 DEF DealMasterMsg
  <2>2. UNCHANGED <<reqId, monitorRequests, commands>>
    BY <1>2 DEF masterVars
  <2>3. RequestOf(s, o.reqId)'
    BY <1>1, <2>2 DEF OrderOf, RequestOf
  <2>4. monitors \in [Servers -> [proc : {"up", "leaving", "gone"}, exiting : BOOLEAN, work : Nat]]
    BY DEF CInv, ServersOK
  <2>5. /\ monitors' \in [Servers -> [proc : {"up", "leaving", "gone"}, exiting : BOOLEAN, work : Nat]]
        /\ \A x \in Servers : monitors'[x].proc = monitors[x].proc
        /\ monitors'[s].work \in {monitors[s].work, o.reqId}
        /\ \A x \in Servers \ {s} : monitors'[x].work = monitors[x].work
    BY <2>1, <2>4, <1>4 DEF StartExit
  <2>6. ServersOK'
    BY <2>1, <2>5, <1>2, <1>3 DEF CInv, ServersOK
  <2>7. ASSUME NEW x \in Servers
        PROVE  monitors'[x].work = monitors[x].work \/ RequestOf(x, monitors[x].work)'
    BY <2>3, <2>5
  <2>. QED BY <2>1, <2>2, <2>5, <2>6, <2>7, <1>2, <1>3, ServerKeeps
<1>. QED BY <1>5, <1>6

LEMMA BeforeExitOverStep ==
    ASSUME CInv, NEW s \in Servers, BeforeExitOver(s)
    PROVE  CInv'
<1>1. PICK r \in Ids : r = monitors[s].work /\ RequestOf(s, r)
  <2>1. monitors[s].work \in Ids
    BY DEF BeforeExitOver, CInv, ServersOK, Ids, None
  <2>. QED BY <2>1 DEF CInv, WorkOwn
<1>2. UNCHANGED <<clis, masterVars, serversMap, down, faults>> /\ SendToMaster(s, r)
  BY <1>1 DEF BeforeExitOver
<1>3. UNCHANGED <<reqId, monitorRequests, commands>>
  BY <1>2 DEF masterVars
<1>4. /\ monitors' \in [Servers -> [proc : {"up", "leaving", "gone"}, exiting : BOOLEAN, work : Nat]]
      /\ monitors'[s].proc = "leaving" /\ monitors'[s].work = None
      /\ \A x \in Servers \ {s} : monitors'[x] = monitors[x]
  BY DEF BeforeExitOver, CInv, ServersOK, None
<1>5. ReplyOf(s, r)' /\ RequestOf(s, None)'
  <2>1. reqId \in Ids /\ \A k \in DOMAIN monitorRequests : k \in Ids
    BY MapElim DEF CInv, MasterOK
  <2>. QED BY <2>1, <1>1, <1>3, <1>4 DEF ReplyOf, RequestOf, None, Ids
<1>6. up \in [Servers -> Seq(Ids)] /\ up[s] \in Seq(Ids)
  BY DEF CInv, ServersOK
<1>7. up' = up \/ up' = [up EXCEPT ![s] = Append(@, r)]
  BY <1>2 DEF SendToMaster
<1>8. ServersOK'
  <2>1. Append(up[s], r) \in Seq(Ids)
    BY <1>6
  <2>2. up' \in [Servers -> Seq(Ids)]
    BY <1>6, <1>7, <2>1
  <2>. QED BY <2>2, <1>2, <1>4 DEF CInv, ServersOK
<1>9. ASSUME NEW x \in Servers, NEW i \in DOMAIN up'[x]
      PROVE  (\E j \in DOMAIN up[x] : up'[x][i] = up[x][j]) \/ ReplyOf(x, up[x][i])'
  <2>1. CASE x # s \/ up' = up
    BY <2>1, <1>6, <1>7
  <2>2. CASE x = s /\ up' # up
    <3>1. up'[s] = Append(up[s], r)
      BY <2>2, <1>6, <1>7
    <3>2. (\E j \in DOMAIN up[s] : up'[s][i] = up[s][j]) \/ up'[s][i] = r
      BY <3>1, <2>2, <1>6, QueueOf
    <3>. QED BY <2>2, <3>2, <1>5
  <2>. QED BY <2>1, <2>2
<1>10. ASSUME NEW x \in Servers
       PROVE  /\ monitors[x].proc # "up" => monitors'[x].proc # "up"
              /\ monitors'[x].work = monitors[x].work \/ RequestOf(x, monitors[x].work)'
  BY <1>4, <1>5
<1>11. \A x \in Servers : \A i \in DOMAIN down'[x] : \E j \in DOMAIN down[x] : down'[x][i] = down[x][j]
  BY <1>2
<1>. QED BY <1>2, <1>3, <1>8, <1>9, <1>10, <1>11, ServerKeeps

LEMMA ServerEndStep ==
    ASSUME CInv, NEW s \in Servers, ServerExit(s) \/ OnAddServer(s) \/ OnRemoveServer(s)
    PROVE  CInv'
<1>1. UNCHANGED <<clis, reqId, monitorRequests, commands>>
  BY DEF ServerExit, OnAddServer, OnRemoveServer, masterVars
<1>2. monitors' = monitors \/ (monitors[s].proc = "leaving" /\ monitors' = [monitors EXCEPT ![s].proc = "gone"])
  BY DEF ServerExit, OnAddServer, OnRemoveServer
<1>3. /\ down' = down \/ down' = [down EXCEPT ![s] = <<>>]
      /\ up' = up \/ up' = [up EXCEPT ![s] = <<>>]
  BY DEF ServerExit, OnAddServer, OnRemoveServer
<1>4. serversMap' \subseteq Servers
  BY DEF ServerExit, OnAddServer, OnRemoveServer, CInv, ServersOK
<1>5. /\ monitors \in [Servers -> [proc : {"up", "leaving", "gone"}, exiting : BOOLEAN, work : Nat]]
      /\ down \in [Servers -> Seq(Orders)] /\ up \in [Servers -> Seq(Ids)]
  BY DEF CInv, ServersOK
<1>6. /\ monitors' \in [Servers -> [proc : {"up", "leaving", "gone"}, exiting : BOOLEAN, work : Nat]]
      /\ \A x \in Servers : monitors'[x].work = monitors[x].work
      /\ \A x \in Servers : monitors[x].proc # "up" => monitors'[x].proc # "up"
  <2>1. CASE monitors' = monitors
    BY <2>1, <1>5
  <2>2. CASE monitors' = [monitors EXCEPT ![s].proc = "gone"]
    BY <2>2, <1>5
  <2>. QED BY <2>1, <2>2, <1>2
<1>7. /\ down' \in [Servers -> Seq(Orders)]
      /\ \A x \in Servers : \A i \in DOMAIN down'[x] : \E j \in DOMAIN down[x] : down'[x][i] = down[x][j]
  <2>1. CASE down' = down
    BY <2>1, <1>5
  <2>2. CASE down' = [down EXCEPT ![s] = <<>>]
    <3>1. down'[s] = <<>> /\ \A x \in Servers \ {s} : down'[x] = down[x]
      BY <2>2, <1>5
    <3>2. <<>> \in Seq(Orders) /\ DOMAIN <<>> = {}
      OBVIOUS
    <3>3. down' \in [Servers -> Seq(Orders)]
      BY <2>2, <1>5, <3>2
    <3>. QED BY <3>1, <3>2, <3>3
  <2>. QED BY <2>1, <2>2, <1>3
<1>8. /\ up' \in [Servers -> Seq(Ids)]
      /\ \A x \in Servers : \A i \in DOMAIN up'[x] : \E j \in DOMAIN up[x] : up'[x][i] = up[x][j]
  <2>1. CASE up' = up
    BY <2>1, <1>5
  <2>2. CASE up' = [up EXCEPT ![s] = <<>>]
    <3>1. up'[s] = <<>> /\ \A x \in Servers \ {s} : up'[x] = up[x]
      BY <2>2, <1>5
    <3>2. <<>> \in Seq(Ids) /\ DOMAIN <<>> = {}
      OBVIOUS
    <3>3. up' \in [Servers -> Seq(Ids)]
      BY <2>2, <1>5, <3>2
    <3>. QED BY <3>1, <3>2, <3>3
  <2>. QED BY <2>1, <2>2, <1>3
<1>9. ServersOK'
  BY <1>4, <1>6, <1>7, <1>8 DEF ServersOK
<1>. QED BY <1>1, <1>6, <1>7, <1>8, <1>9, ServerKeeps

LEMMA MasterExitStep ==
    ASSUME CInv, MasterExit
    PROVE  CInv'
<1>1. /\ UNCHANGED <<clis, reqId, monitorRequests, commands, monitors>>
      /\ serversMap' = {} /\ down' = [s \in Servers |-> <<>>] /\ up' = [s \in Servers |-> <<>>]
  BY DEF MasterExit
<1>2. ServersOK'
  BY <1>1 DEF CInv, ServersOK
<1>. QED BY <1>1, <1>2, ServerKeeps

(***************************************************************************)
(* The steps of the master.                                                *)
(***************************************************************************)

\* A request that is over: by a reply, which is true, or by its timer, which
\* counts the server as late.
LEMMA OverStep ==
    ASSUME CInv, NEW r \in DOMAIN monitorRequests, NEW q, q = monitorRequests[r].cli,
           NEW k \in Cmds, Callback(q, k),
           k.num = commands[q].num, k.answers = commands[q].answers, k.func = commands[q].func,
           k.asked = commands[q].asked, k.again = commands[q].again, commands[q].late \subseteq k.late,
           \/ commands[q].func = "list" \/ monitors[monitorRequests[r].server].proc # "up"
           \/ monitorRequests[r].server \in k.late,
           monitorRequests' = Minus(monitorRequests, {r}),
           UNCHANGED <<clis, monitors, reqId, serversMap, down>>,
           up' \in [Servers -> Seq(Ids)],
           \A s \in Servers : \A i \in DOMAIN up'[s] : \E j \in DOMAIN up[s] : up'[s][i] = up[s][j]
    PROVE  CInv'
<1>1. MasterOK' /\ CountsPending' /\ DOMAIN commands' = Received
  BY SettleStep DEF CInv
<1>2. /\ DOMAIN monitorRequests' = DOMAIN monitorRequests \ {r}
      /\ \A x \in DOMAIN monitorRequests \ {r} : monitorRequests'[x] = monitorRequests[x]
  BY DEF Minus
<1>3. q \in Clis /\ q \in Received
  <2>1. monitorRequests[r] \in Asks
    BY MapElim DEF CInv, MasterOK
  <2>. QED BY <2>1 DEF Asks, CInv, MasterOK
<1>4. commands \in MapsOf(Clis, Cmds) /\ \A p \in Received : commands[p] \in Cmds
  BY MapElim DEF CInv, MasterOK, Received
<1>5. /\ \A p \in Received \ {q} : commands'[p] = commands[p]
      /\ commands'[q].func = k.func /\ commands'[q].asked = k.asked /\ commands'[q].late = k.late
      /\ commands'[q].again = k.again
      /\ commands'[q].answers = IF k.num <= 1 THEN k.answers + 1 ELSE k.answers
  BY <1>3, <1>4, CallbackEffect
<1>6. \A p \in Received : /\ commands'[p].func = commands[p].func
                          /\ commands'[p].asked = commands[p].asked
                          /\ commands'[p].again = commands[p].again
                          /\ commands[p].late \subseteq commands'[p].late
                          /\ commands[p].answers > 0 => commands'[p].answers > 0
  <2>1. k.answers \in Nat
    BY DEF Cmds
  <2>2. commands[q].answers > 0 => commands'[q].answers > 0
    BY <1>5, <2>1
  <2>. QED BY <1>5, <2>2
<1>7. Onward
  <2>1. reqId <= reqId'
    BY DEF CInv, MasterOK, Ids
  <2>2. \A x \in DOMAIN monitorRequests' :
           x \in DOMAIN monitorRequests /\ monitorRequests'[x] = monitorRequests[x]
    BY <1>2
  <2>. QED BY <2>1, <2>2, <1>1, <1>6 DEF Onward, Received
<1>8. ServersOK'
  BY DEF CInv, ServersOK
<1>9. OrdersOwn' /\ WorkOwn' /\ RepliesOwn'
  BY <1>1, <1>7, QueuesKept DEF CInv
<1>10. AskedOpen'
  BY <1>1, <1>2, <1>4, <1>5, <1>6, <1>7, AskedKept DEF CInv, Received
<1>11. ToolsOK' /\ ToldAnswered'
  BY <1>1, <1>6 DEF CInv, ToolsOK, ToldAnswered, Received
<1>. QED BY <1>1, <1>8, <1>9, <1>10, <1>11 DEF CInv

LEMMA TimeoutStep ==
    ASSUME CInv, NEW r, Timeout(r)
    PROVE  CInv'
<1>1. r \in DOMAIN monitorRequests
  BY DEF Timeout
<1>2. PICK q : q = monitorRequests[r].cli
  OBVIOUS
<1>3. PICK s : s = monitorRequests[r].server
  OBVIOUS
<1> DEFINE k == [commands[q] EXCEPT !.late = @ \cup {s}]
<1>4. /\ monitorRequests' = Minus(monitorRequests, {r}) /\ Callback(q, k)
      /\ UNCHANGED <<clis, monitors, reqId, serversMap, down, up>>
  BY <1>2, <1>3 DEF Timeout, linkVars
<1>5. monitorRequests[r] \in Asks
  BY <1>1, MapElim DEF CInv, MasterOK
<1>6. q \in Received /\ s \in Servers
  BY <1>1, <1>2, <1>3, <1>5 DEF Asks, CInv, MasterOK
<1>7. commands[q] \in Cmds
  BY <1>6, MapElim DEF CInv, MasterOK, Received
<1>8. /\ k \in Cmds /\ k.num = commands[q].num /\ k.answers = commands[q].answers
      /\ k.func = commands[q].func /\ k.asked = commands[q].asked
      /\ k.again = commands[q].again
      /\ k.late = commands[q].late \cup {s}
  BY <1>6, <1>7 DEF Cmds
<1> HIDE DEF k
<1>9. up' \in [Servers -> Seq(Ids)]
  BY <1>4 DEF CInv, ServersOK
<1>. QED BY <1>1, <1>2, <1>3, <1>4, <1>8, <1>9, OverStep

LEMMA DealMonitorMsgStep ==
    ASSUME CInv, NEW s \in Servers, DealMonitorMsg(s)
    PROVE  CInv'
<1>1. up[s] \in Seq(Ids) /\ up[s] # <<>> /\ up \in [Servers -> Seq(Ids)]
  BY DEF DealMonitorMsg, CInv, ServersOK
<1>2. PICK r \in Ids : r = Head(up[s]) /\ ReplyOf(s, r)
  <2>1. Head(up[s]) \in Ids /\ 1 \in DOMAIN up[s] /\ Head(up[s]) = up[s][1]
    BY <1>1
  <2>2. ReplyOf(s, up[s][1])
    BY <2>1 DEF CInv, RepliesOwn
  <2>. QED BY <2>1, <2>2
<1>3. /\ up' = [up EXCEPT ![s] = Tail(@)]
      /\ UNCHANGED <<clis, reqId, monitors, serversMap, down>>
  BY DEF DealMonitorMsg
<1>4. /\ up' \in [Servers -> Seq(Ids)]
      /\ \A x \in Servers : \A i \in DOMAIN up'[x] : \E j \in DOMAIN up[x] : up'[x][i] = up[x][j]
  <2>1. /\ Tail(up[s]) \in Seq(Ids)
        /\ \A i \in DOMAIN Tail(up[s]) : \E j \in DOMAIN up[s] : Tail(up[s])[i] = up[s][j]
    BY <1>1, <1>2, QueueOf
  <2>. QED BY <2>1, <1>1, <1>3
<1>5. CASE r \notin DOMAIN monitorRequests
  <2>1. UNCHANGED <<monitorRequests, commands>>
    BY <1>2, <1>5 DEF DealMonitorMsg
  <2>2. ServersOK'
    BY <1>3, <1>4 DEF CInv, ServersOK
  <2>. QED BY <2>1, <2>2, <1>3, <1>4, ServerKeeps
<1>6. CASE r \in DOMAIN monitorRequests
  <2>1. PICK q : q = monitorRequests[r].cli
    OBVIOUS
  <2>2. monitorRequests' = Minus(monitorRequests, {r}) /\ Callback(q, commands[q])
    BY <1>2, <1>6, <2>1 DEF DealMonitorMsg, Settled
  <2>3. commands[q] \in Cmds
    BY <1>6, <2>1, MapElim DEF CInv, MasterOK, Received
  <2>4. commands[q].func = "list" \/ monitors[monitorRequests[r].server].proc # "up"
    BY <1>2, <1>6, <2>1 DEF ReplyOf, RequestOf
  <2>5. PICK k : k = commands[q]
    OBVIOUS
  <2>. QED BY <1>3, <1>4, <1>6, <2>1, <2>2, <2>3, <2>4, <2>5, OverStep
<1>. QED BY <1>5, <1>6

\* A command that is answered at once has no request.
LEMMA AnsweredAtOnce ==
    ASSUME CInv, NEW q \in Clis \ Received, commands' \in MapsOf(Clis, Cmds),
           DOMAIN commands' = Received \cup {q},
           \A p \in Received : commands'[p] = commands[p],
           commands'[q].answers = 1, commands'[q].asked = {} \/ commands'[q].again,
           UNCHANGED <<clis, monitors, reqId, monitorRequests, serversMap, down, up>>
    PROVE  CInv'
<1>1. MasterOK'
  BY DEF CInv, MasterOK, Received
<1>2. CountsPending'
  <2>1. Open(q) = {}
    BY DEF Open, CInv, MasterOK
  <2>2. Cardinality(Open(q)) = 0
    BY <2>1, FS_EmptySet
  <2>. QED BY <2>2 DEF CInv, CountsPending, Received, Open
<1>3. Onward
  BY DEF Onward, Received, CInv, MasterOK, Ids
<1>4. OrdersOwn' /\ WorkOwn' /\ RepliesOwn'
  BY <1>1, <1>3, QueuesKept DEF CInv
<1>5. AskedOpen'
  BY <1>3, AskedKept DEF CInv, MasterOK, Received
<1>6. ServersOK' /\ ToolsOK' /\ ToldAnswered'
  BY DEF CInv, ServersOK, ToolsOK, ToldAnswered, Received
<1>. QED BY <1>1, <1>2, <1>4, <1>5, <1>6 DEF CInv

LEMMA DealCliMsgStep ==
    ASSUME CliAssumption, CInv, NEW q \in Clis, DealCliMsg(q)
    PROVE  CInv'
<1>1. PICK c \in Commands : c = clis[q].command
  BY DEF DealCliMsg, CInv, ToolsOK
<1>2. PICK S \in SUBSET Servers : S = Asked(c)
  <2>1. c.func \in Funcs
    BY DEF CliAssumption, Funcs
  <2>. QED BY <2>1 DEF Asked, CInv, ServersOK, Funcs
<1>3. q \notin Received /\ UNCHANGED <<clis, monitors, serversMap, up>>
  BY DEF DealCliMsg
<1>4. IsFiniteSet(S) /\ Cardinality(S) \in Nat
  BY FS_Subset, FS_CardinalityType DEF CliAssumption
<1>5. \A T \in SUBSET Servers : IsFiniteSet(T) =>
         /\ NewCommand(c, T) \in Cmds /\ NewCommand(c, T).func = c.func
         /\ NewCommand(c, T).num = Cardinality(T) /\ NewCommand(c, T).answers = 0
         /\ NewCommand(c, T).asked = T /\ NewCommand(c, T).late = {}
         /\ ~NewCommand(c, T).again
  <2>1. \A T \in SUBSET Servers : IsFiniteSet(T) => Cardinality(T) \in Nat
    BY FS_CardinalityType
  <2>. QED BY <2>1 DEF NewCommand, Cmds, CliAssumption, Funcs
<1>6. commands \in MapsOf(Clis, Cmds) /\ IsFiniteSet({}) /\ Cardinality({}) = 0
  BY FS_EmptySet DEF CInv, MasterOK
<1>7. CASE S = {}
  <2>1. PICK k \in Cmds : k = NewCommand(c, {}) /\ k.num = 0 /\ k.answers = 0 /\ k.asked = {}
    BY <1>5, <1>6
  <2>2. Callback(q, k) /\ UNCHANGED <<reqId, monitorRequests, down>>
    BY <1>1, <1>2, <1>7, <2>1 DEF DealCliMsg
  <2>3. /\ commands' \in MapsOf(Clis, Cmds) /\ DOMAIN commands' = Received \cup {q}
        /\ \A p \in Received \ {q} : commands'[p] = commands[p]
        /\ commands'[q].asked = {}
        /\ commands'[q].answers = IF k.num <= 1 THEN k.answers + 1 ELSE k.answers
    BY <1>6, <2>1, <2>2, CallbackEffect
  <2>4. commands'[q].answers = 1
    BY <2>1, <2>3
  <2>. QED BY <1>3, <2>2, <2>3, <2>4, AnsweredAtOnce
<1>8. CASE S # {} /\ c.func = "stop" /\ exiting
  <2> DEFINE v == [Again(c, S) EXCEPT !.answers = 1]
  <2>1. commands' = With(commands, q, v) /\ UNCHANGED <<reqId, monitorRequests, down>>
    BY <1>1, <1>2, <1>8 DEF DealCliMsg, StopAgain
  <2>2. v \in Cmds /\ v.answers = 1 /\ v.again
    BY <1>4, <1>5 DEF Again, Cmds
  <2> HIDE DEF v
  <2>3. With(commands, q, v) \in MapsOf(Clis, Cmds)
    BY <1>6, <2>2, WithMap
  <2>4. /\ DOMAIN commands' = Received \cup {q} /\ commands'[q] = v
        /\ \A p \in Received \ {q} : commands'[p] = commands[p]
    BY <2>1 DEF With, Received
  <2>. QED BY <1>3, <2>1, <2>2, <2>3, <2>4, AnsweredAtOnce
<1>9. CASE S # {} /\ ~ (c.func = "stop" /\ exiting)
  <2> DEFINE v == NewCommand(c, S)
             n == Cardinality(S)
             new == reqId .. reqId + n - 1
  <2>1. commands' = With(commands, q, v) /\ SendToMonitors(q, c, S)
    BY <1>1, <1>2, <1>9 DEF DealCliMsg
  <2>2. v \in Cmds /\ v.answers = 0 /\ v.num = n /\ v.asked = S /\ v.func = c.func
    BY <1>4, <1>5
  <2>3. n \in Nat /\ reqId \in Ids
    BY <1>4 DEF CInv, MasterOK
  <2> HIDE DEF v
  <2>4. With(commands, q, v) \in MapsOf(Clis, Cmds)
    BY <1>6, <2>2, WithMap
  <2>5. /\ commands' \in MapsOf(Clis, Cmds)
        /\ DOMAIN commands' = Received \cup {q} /\ commands'[q] = v
        /\ \A p \in Received : commands'[p] = commands[p]
    BY <1>3, <2>1, <2>4 DEF With, Received
  <2>6. /\ reqId' = reqId + n
        /\ DOMAIN monitorRequests' = DOMAIN monitorRequests \cup new
        /\ monitorRequests' \in MapsOf(Ids, Asks)
        /\ \A r \in DOMAIN monitorRequests : monitorRequests'[r] = monitorRequests[r]
        /\ \A r \in new : monitorRequests'[r].cli = q
        /\ \A s \in S : \E r \in new :
              /\ monitorRequests'[r].server = s
              /\ down'[s] = Append(down[s], [func |-> c.func, reqId |-> r])
        /\ \A s \in Servers \ S : down'[s] = down[s]
        /\ down' \in [Servers -> Seq(Orders)]
    <3>1. MasterOK /\ ServersOK
      BY DEF CInv
    <3>2. Sending(q, c, S)
      BY <2>1, <3>1, SendEffect
    <3>. QED BY <3>2 DEF Sending
  <2> HIDE DEF n
  <2>7. IsFiniteSet(new) /\ Cardinality(new) = n
    BY <2>3, FS_Interval DEF Ids
  <2>8. \A r \in new : r \in Ids /\ reqId <= r /\ r < reqId + n
    BY <2>3 DEF Ids
  <2>9. reqId + n \in Ids /\ reqId <= reqId + n
    BY <2>3 DEF Ids
  <2>10. \A r \in DOMAIN monitorRequests : r \in Ids /\ r < reqId /\ monitorRequests[r].cli \in Received
    BY MapElim DEF CInv, MasterOK
  <2> HIDE DEF new
  <2>11. IsFiniteSet(DOMAIN monitorRequests')
    <3>1. IsFiniteSet(DOMAIN monitorRequests)
      BY DEF CInv, MasterOK
    <3>2. IsFiniteSet(DOMAIN monitorRequests \cup new)
      BY <3>1, <2>7, FS_Union
    <3>. QED BY <3>2, <2>6
  <2>12. MasterOK'
    <3>1. \A r \in DOMAIN monitorRequests' : r < reqId'
      BY <2>3, <2>6, <2>8, <2>10 DEF Ids
    <3>2. \A r \in DOMAIN monitorRequests' : monitorRequests'[r].cli \in Received'
      BY <2>5, <2>6, <2>10 DEF Received
    <3>. QED BY <3>1, <3>2, <2>5, <2>6, <2>9, <2>11 DEF MasterOK
  <2>13. CountsPending'
    <3>1. Open(q)' = new
      BY <1>3, <2>6, <2>10 DEF Open
    <3>2. ASSUME NEW p \in Received
          PROVE  Open(p)' = Open(p)
      BY <1>3, <2>6 DEF Open
    <3>3. commands'[q].answers = 0 /\ commands'[q].num = Cardinality(Open(q)')
      BY <3>1, <2>2, <2>5, <2>7
    <3>. QED BY <3>2, <3>3, <2>5 DEF CInv, CountsPending, Open, Received
  <2>14. Onward
    <3>1. \A r \in DOMAIN monitorRequests' : r < reqId => r \in DOMAIN monitorRequests
      BY <2>3, <2>6, <2>8 DEF Ids
    <3>. QED BY <3>1, <1>3, <2>5, <2>6, <2>9 DEF Onward, Received
  <2>15. ServersOK'
    BY <1>3, <2>6 DEF CInv, ServersOK
  <2>16. ASSUME NEW s \in Servers, NEW i \in DOMAIN down'[s]
         PROVE  (\E j \in DOMAIN down[s] : down'[s][i] = down[s][j]) \/ OrderOf(s, down[s][i])'
    <3>1. CASE s \notin S
      BY <3>1, <2>6
    <3>2. CASE s \in S
      <4>1. PICK r \in new : /\ monitorRequests'[r].server = s
                             /\ down'[s] = Append(down[s], [func |-> c.func, reqId |-> r])
        BY <3>2, <2>6
      <4>2. PICK o : o = [func |-> c.func, reqId |-> r]
        OBVIOUS
      <4>3. o \in Orders /\ o.func = c.func /\ o.reqId = r
        BY <4>2, <2>8 DEF Orders, CliAssumption, Funcs
      <4>4. (\E j \in DOMAIN down[s] : down'[s][i] = down[s][j]) \/ down'[s][i] = o
        BY <4>1, <4>2, <4>3, QueueOf DEF CInv, ServersOK
      <4>5. OrderOf(s, o)'
        <5>1. r < reqId' /\ r \in DOMAIN monitorRequests'
          BY <2>6, <2>8
        <5>2. commands'[monitorRequests'[r].cli].func = c.func
          BY <2>2, <2>5, <2>6
        <5>. QED BY <4>1, <4>3, <5>1, <5>2 DEF OrderOf, RequestOf
      <4>. QED BY <4>4, <4>5
    <3>. QED BY <3>1, <3>2
  <2>17. OrdersOwn' /\ WorkOwn' /\ RepliesOwn'
    BY <1>3, <2>12, <2>14, <2>16, QueuesKept DEF CInv
  <2>18. AskedOpen'
    <3>1. \A s \in S : OpenTo(q, s)'
      BY <2>6 DEF OpenTo
    <3>. QED BY <3>1, <1>6, <2>2, <2>5, <2>6, <2>14, AskedKept DEF CInv, Received
  <2>19. ToolsOK' /\ ToldAnswered'
    BY <1>3, <2>5 DEF CInv, ToolsOK, ToldAnswered, Received
  <2>. QED BY <2>12, <2>13, <2>15, <2>17, <2>18, <2>19 DEF CInv
<1>. QED BY <1>1, <1>2, <1>7, <1>8, <1>9

LEMMA NextStep == CliAssumption /\ CInv /\ [Next]_vars => CInv'
<1> SUFFICES ASSUME CliAssumption, CInv, [Next]_vars
             PROVE  CInv'
  OBVIOUS
<1>1. ASSUME NEW q \in Clis, (\E c \in Commands : Request(q, c)) \/ CliEnds(q)
      PROVE  CInv'
  BY <1>1, ToolStep
<1>2. ASSUME NEW q \in Clis, DealCliMsg(q)
      PROVE  CInv'
  BY <1>2, DealCliMsgStep
<1>3. ASSUME NEW r, Timeout(r)
      PROVE  CInv'
  BY <1>3, TimeoutStep
<1>4. ASSUME NEW s \in Servers, DealMonitorMsg(s)
      PROVE  CInv'
  BY <1>4, DealMonitorMsgStep
<1>5. ASSUME NEW s \in Servers, DealMasterMsg(s)
      PROVE  CInv'
  BY <1>5, DealMasterMsgStep
<1>6. ASSUME NEW s \in Servers, BeforeExitOver(s)
      PROVE  CInv'
  BY <1>6, BeforeExitOverStep
<1>7. ASSUME NEW s \in Servers, ServerExit(s) \/ OnAddServer(s) \/ OnRemoveServer(s)
      PROVE  CInv'
  BY <1>7, ServerEndStep
<1>8. CASE MasterExit
  BY <1>8, MasterExitStep
<1>9. CASE UNCHANGED vars
  <2>1. UNCHANGED <<clis, reqId, monitorRequests, commands, serversMap, monitors, down, up>>
    BY <1>9 DEF vars, masterVars, linkVars
  <2>2. ServersOK'
    BY <2>1 DEF CInv, ServersOK
  <2>. QED BY <2>1, <2>2, ServerKeeps
<1>. QED BY <1>1, <1>2, <1>3, <1>4, <1>5, <1>6, <1>7, <1>8, <1>9 DEF Next

(***************************************************************************)
(* The theorems.                                                           *)
(***************************************************************************)

\* The inductive invariant: a request that is open is where its server put it,
\* and a server a command still waits for has an open request.
THEOREM CliInvariance == Spec => []CInv
<1>1. CliAssumption
  BY CliAssumption
<1>. QED BY <1>1, InitInv, NextStep, PTL DEF Spec

\* Whatever replies, timers, lost connections and exits are interleaved, the
\* counter of a command is the number of its open requests, and it is answered
\* once, when there are none (deal_monitor_msg, send_to_monitor, the callbacks).
THEOREM CountersCount == Spec => []CountsPending
<1>1. CInv => CountsPending
  BY DEF CInv
<1>. QED BY <1>1, CliInvariance, PTL

\* What the tool prints is true, but for a stop during another: every server the
\* command is about is past its onBeforeExit or was late (func_stop, func_remove
\* and func_removeT on both sides).
THEOREM ToldTheTruth == Spec => []DoneWhenTold
<1>1. CInv => DoneWhenTold
  <2> SUFFICES ASSUME CInv, NEW q \in Clis, clis[q].state = "told", commands[q].func # "list",
                      ~commands[q].again, NEW s \in commands[q].asked \ commands[q].late
               PROVE  monitors[s].proc # "up"
    BY DEF DoneWhenTold
  <2>1. q \in Received /\ commands[q].answers > 0
    BY DEF CInv, ToldAnswered
  <2>2. Cardinality(Open(q)) = 0
    BY <2>1 DEF CInv, CountsPending, Open
  <2>3. IsFiniteSet(Open(q))
    BY FS_Subset DEF CInv, MasterOK, Open
  <2>4. Open(q) = {}
    BY <2>2, <2>3, FS_EmptySet
  <2>5. ~OpenTo(q, s)
    BY <2>4 DEF Open, OpenTo
  <2>. QED BY <2>1, <2>5 DEF CInv, AskedOpen
<1>. QED BY <1>1, CliInvariance, PTL
=============================================================================
