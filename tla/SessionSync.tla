---------------------------- MODULE SessionSync ----------------------------
(***************************************************************************)
(* Sessions between front-end servers and one back-end server.  A front end*)
(* holds the session of each connected player and changes its settings; a  *)
(* forwarded message carries only the uid and the session's version, and   *)
(* the back end fetches what it has not cached (backendServer.ts handleMsg,*)
(* fetchSession, loadSession; session.ts; sessionRemote.ts; frontendServer *)
(* .ts doRemote).                                                          *)
(*                                                                         *)
(* Settings are abstracted to the login they belong to and the number of   *)
(* changes made in it (gen).  The back end decodes what a socket read      *)
(* delivers in one go (chunk), and its promise continuations (micro) run   *)
(* after that and before the next event.                                   *)
(***************************************************************************)
EXTENDS SessionCache

CONSTANTS
    Fronts,         \* front-end servers
    VersionMax,     \* 4000000000: the version wraps to 1 after it
    NeedSession,    \* the values of needSession to consider
    MaxLogins,      \* bound: logins of one player at one front end
    MaxGen,         \* bound: changes of the settings in one login
    MaxMsgs         \* bound: messages forwarded

ASSUME SyncAssumption ==
    /\ IsFiniteSet(Fronts) /\ NeedSession \subseteq BOOLEAN
    /\ VersionMax \in Nat \ {0} /\ MaxLogins \in Nat /\ MaxGen \in Nat /\ MaxMsgs \in Nat

VARIABLES
    needSession,    \* this.needSession, a matter of configuration
    clients,        \* of each front end: uid -> version and settings of the session
    logins,         \* history: logins of each player at each front end
    serving,        \* a getSession of each front end between reading and replying
    up,             \* front ends whose connection with the back end is up
    chan,           \* from each front end, in order: messages and replies
    asks,           \* to each front end: getSession calls
    sent,           \* messages forwarded so far; a message says whose it is, and
                    \* carries the version (and, as history, settings) it was sent with
    chunk,          \* what the back end still has to decode of a read
    micro,          \* its queue of promise continuations
    loads,          \* getSession calls without an answer
    calls,          \* getSession calls made
    waiting,        \* sessionFetchingMap: uid -> messages awaiting its fetch
    handled         \* history: what was passed to a handler, with which session

frontVars == <<clients, logins>>
linkVars == <<up, chan, asks, sent>>
backVars == <<chunk, micro, loads, calls, waiting>>
syncVars == <<cacheVars, needSession, frontVars, serving, linkVars, backVars, handled>>

NoSession == [version |-> 0, login |-> 0, gen |-> 0]
\* Data: what the back end knows of a session.
Copies == [sid : Fronts, version : 0..VersionMax, login : 0..MaxLogins, gen : 0..MaxGen]

Init ==
    /\ CacheInit
    /\ needSession \in NeedSession
    /\ clients = [f \in Fronts |-> <<>>]
    /\ logins = [f \in Fronts |-> [u \in Uids |-> 0]]
    /\ serving = [f \in Fronts |-> <<>>]
    /\ up = {}
    /\ chan = [f \in Fronts |-> <<>>]
    /\ asks = [f \in Fronts |-> <<>>]
    /\ sent = 0
    /\ chunk = <<>> /\ micro = <<>>
    /\ loads = {} /\ calls = 0
    /\ waiting = <<>>
    /\ handled = <<>>

-----------------------------------------------------------------------------
(* The front ends.                                                         *)

\* No event of front end f is handled between two parts of a getSession.
AtRest(f) == serving[f] = <<>>

\* A client connects and binds its uid: a new session, of version 1.
Login(f, u) ==
    /\ AtRest(f)
    /\ u \notin DOMAIN clients[f]
    /\ logins[f][u] < MaxLogins
    /\ logins' = [logins EXCEPT ![f][u] = @ + 1]
    /\ clients' = [clients EXCEPT ![f] =
          [v \in DOMAIN @ \cup {u} |->
              IF v = u THEN [version |-> 1, login |-> logins'[f][u], gen |-> 0]
              ELSE @[v]]]
    /\ UNCHANGED <<cacheVars, needSession, serving, linkVars, backVars, handled>>

\* removeClient; the back end is not told.
Logout(f, u) ==
    /\ AtRest(f)
    /\ u \in DOMAIN clients[f]
    /\ clients' = [clients EXCEPT ![f] = [v \in DOMAIN @ \ {u} |-> @[v]]]
    /\ UNCHANGED <<cacheVars, needSession, logins, serving, linkVars,
                   backVars, handled>>

\* addVersion.
VersionAfter(v) == IF v + 1 > VersionMax THEN 1 ELSE v + 1

\* session.set or session.delete.  A getSession being served holds the same
\* settings object, and has already read the version.
Set(f, u) ==
    /\ u \in DOMAIN clients[f]
    /\ clients[f][u].gen < MaxGen
    /\ clients' = [clients EXCEPT ![f][u].version = VersionAfter(@), ![f][u].gen = @ + 1]
    /\ serving' = IF serving[f] # <<>> /\ serving[f][1].uid = u
                     /\ serving[f][1].info.login = clients[f][u].login
                  THEN [serving EXCEPT ![f][1].info.gen = @ + 1] ELSE serving
    /\ UNCHANGED <<cacheVars, needSession, logins, linkVars, backVars, handled>>

\* handleMsg and doRemote: forward a message of u, if there is a socket.
Forward(f, u) ==
    /\ AtRest(f)
    /\ u \in DOMAIN clients[f] /\ f \in up
    /\ sent < MaxMsgs
    /\ sent' = sent + 1
    /\ chan' = [chan EXCEPT ![f] = Append(@,
          [n |-> sent', uid |-> u, from |-> f, session |-> clients[f][u]])]
    /\ UNCHANGED <<cacheVars, needSession, frontVars, serving, up, asks, backVars,
                   handled>>

\* SessionRemote.getSession: it takes version and settings of the session, but
\* the settings are serialised when the reply is sent, a little later.
GetSession(f) ==
    /\ AtRest(f)
    /\ asks[f] # <<>>
    /\ LET u == Head(asks[f]).uid
       IN  serving' = [serving EXCEPT ![f] = <<
              [call |-> Head(asks[f]).call, uid |-> u,
               info |-> IF u \in DOMAIN clients[f] THEN clients[f][u] ELSE NoSession]>>]
    /\ asks' = [asks EXCEPT ![f] = Tail(@)]
    /\ UNCHANGED <<cacheVars, needSession, frontVars, up, chan, sent, backVars, handled>>

Reply(f) ==
    /\ ~AtRest(f)
    /\ chan' = [chan EXCEPT ![f] = Append(@,
          [call |-> serving[f][1].call, info |-> serving[f][1].info])]
    /\ serving' = [serving EXCEPT ![f] = <<>>]
    /\ UNCHANGED <<cacheVars, needSession, frontVars, up, asks, sent, backVars, handled>>

-----------------------------------------------------------------------------
(* The connections.                                                        *)

Idle == chunk = <<>> /\ micro = <<>>    \* the back end takes its next event

Connect(f) ==
    /\ Idle /\ f \notin up
    /\ up' = up \cup {f}
    /\ UNCHANGED <<cacheVars, needSession, frontVars, serving, chan, asks, sent,
                   backVars, handled>>

\* What was not read yet is lost; of the calls, from any point on.  Replies made
\* from now on wait in chan, the cache of RpcService, for the next connection.
Disconnect(f) ==
    /\ Idle /\ f \in up
    /\ up' = up \ {f}
    /\ chan' = [chan EXCEPT ![f] = <<>>]
    /\ \E n \in 0..Len(asks[f]) : asks' = [asks EXCEPT ![f] = SubSeq(@, 1, n)]
    /\ UNCHANGED <<cacheVars, needSession, frontVars, serving, sent, backVars, handled>>

-----------------------------------------------------------------------------
(* The back end.                                                           *)

\* One read of a socket delivers some of what was sent, whole frames here.
Read(f) ==
    /\ Idle /\ f \in up
    /\ \E n \in 1..Len(chan[f]) :
        /\ chunk' = SubSeq(chan[f], 1, n)
        /\ chan' = [chan EXCEPT ![f] = SubSeq(@, n + 1, Len(@))]
    /\ UNCHANGED <<cacheVars, needSession, frontVars, serving, up, asks, sent,
                   micro, loads, calls, waiting, handled>>

IsReply(item) == "call" \in DOMAIN item
Loaded(l, info) == [load |-> l, info |-> info]

\* A reply resumes the loadSession that waits for it; a late one does nothing.
DecodeReply ==
    /\ chunk # <<>> /\ IsReply(Head(chunk))
    /\ LET mine == {l \in loads : l.call = Head(chunk).call}
       IN  /\ loads' = loads \ mine
           /\ micro' = micro \o SetToSeq({Loaded(l, Head(chunk).info) : l \in mine})
    /\ chunk' = Tail(chunk)
    /\ UNCHANGED <<cacheVars, needSession, frontVars, serving, linkVars, calls,
                   waiting, handled>>

\* The getSession call of a load fails: rpc timeout.
LoadFails(l) ==
    /\ Idle
    /\ l \in loads
    /\ loads' = loads \ {l}
    /\ micro' = <<Loaded(l, NoSession)>>
    /\ UNCHANGED <<cacheVars, needSession, frontVars, serving, linkVars, chunk,
                   calls, waiting, handled>>

Copy(u) == sessionMap[u].data
CopyOf(sid, s) == [sid |-> sid, version |-> s.version, login |-> s.login, gen |-> s.gen]

\* Slip: a copy of another version will do.
HitAnyVersion(m) == m.uid \in Cached /\ Copy(m.uid).sid = m.from
\* The test of handleMsg.
Hit(m) ==
    /\ m.uid \in Cached
    /\ Copy(m.uid).sid = m.from
    /\ needSession => Copy(m.uid).version = m.session.version

Handle(m, how, copy) == handled' = Append(handled, [msg |-> m, how |-> how, with |-> copy])

\* The cached session will do.
HandleCached(m) ==
    /\ Hit(m)
    /\ UpdateSession(m.uid, Copy(m.uid))
    /\ Handle(m, "cached", Copy(m.uid))
    /\ UNCHANGED <<loads, calls, asks, waiting>>

\* fetchNoNeedSession: only uid and sid count.
HandleNoNeed(m) ==
    /\ ~needSession /\ ~Hit(m)
    /\ LET copy == IF m.uid \in Cached THEN [Copy(m.uid) EXCEPT !.sid = m.from]
                   ELSE CopyOf(m.from, NoSession)
       IN  /\ IF m.uid \in Cached THEN UpdateSession(m.uid, copy)
              ELSE AddSession(m.uid, copy)
           /\ Handle(m, "noNeed", copy)
    /\ UNCHANGED <<loads, calls, asks, waiting>>

\* Slip: the last to join is resumed first.
JoinFetchFirst(m) ==
    /\ needSession /\ ~Hit(m)
    /\ m.uid \in DOMAIN waiting
    /\ waiting' = [waiting EXCEPT ![m.uid] = <<m>> \o @]
    /\ UNCHANGED <<mapVars, loads, calls, asks, handled>>
\* fetchSession joins the fetch under way for this uid, whatever it fetches.
JoinFetch(m) ==
    /\ needSession /\ ~Hit(m)
    /\ m.uid \in DOMAIN waiting
    /\ waiting' = [waiting EXCEPT ![m.uid] = Append(@, m)]
    /\ UNCHANGED <<mapVars, loads, calls, asks, handled>>

\* Slip: the fetch is not noted as under way.
StartFetchAlways(m) ==
    /\ needSession /\ ~Hit(m)
    /\ waiting' = [u \in DOMAIN waiting \cup {m.uid} |->
                      IF u # m.uid THEN waiting[u]
                      ELSE IF u \in DOMAIN waiting THEN Append(waiting[u], m) ELSE <<m>>]
    /\ calls' = calls + 1
    /\ loads' = loads \cup {[call |-> calls', uid |-> m.uid, sid |-> m.from]}
    /\ asks' = [asks EXCEPT ![m.from] = Append(@, [call |-> calls', uid |-> m.uid])]
    /\ UNCHANGED <<mapVars, handled>>
\* fetchSession starts a fetch, from the front end the message came from.
StartFetch(m) ==
    /\ needSession /\ ~Hit(m)
    /\ m.uid \notin DOMAIN waiting
    /\ waiting' = [u \in DOMAIN waiting \cup {m.uid} |->
                      IF u = m.uid THEN <<m>> ELSE waiting[u]]
    /\ calls' = calls + 1
    /\ loads' = loads \cup {[call |-> calls', uid |-> m.uid, sid |-> m.from]}
    /\ asks' = [asks EXCEPT ![m.from] = Append(@, [call |-> calls', uid |-> m.uid])]
    /\ UNCHANGED <<mapVars, handled>>

\* handleMsg, up to its first await or to the handler.
DecodeMsg ==
    /\ chunk # <<>> /\ ~IsReply(Head(chunk))
    /\ LET m == Head(chunk)
       IN  HandleCached(m) \/ HandleNoNeed(m) \/ JoinFetch(m) \/ StartFetch(m)
    /\ chunk' = Tail(chunk)
    /\ UNCHANGED <<timeVars, needSession, frontVars, serving, up, chan, sent, micro>>

-----------------------------------------------------------------------------
(* Continuations, in the order in which their promises were settled.       *)

Task == Head(micro)
Running(kind) == chunk = <<>> /\ micro # <<>> /\ kind \in DOMAIN Task

\* loadSession continues: the session is updated, added or, if there is none or
\* the call failed, deleted.  Its promise then resumes the messages.
Load ==
    /\ Running("load")
    /\ LET u    == Task.load.uid
           copy == CopyOf(Task.load.sid, Task.info)
       IN  /\ IF Task.info = NoSession THEN DelSession(u)
              ELSE IF u \in Cached THEN UpdateSession(u, copy)
              ELSE AddSession(u, copy)
           /\ micro' = Append(Tail(micro), [woken |-> u])
    /\ UNCHANGED <<timeVars, needSession, frontVars, serving, linkVars, chunk,
                   loads, calls, waiting, handled>>

\* Those that awaited the fetch of u, each with the session it finds.
Resumed(u) ==
    [i \in DOMAIN waiting[u] |->
        [resume |-> waiting[u][i], how |-> IF i = 1 THEN "fetched" ELSE "joined",
         with |-> IF u \in Cached THEN <<Copy(u)>> ELSE <<>>]]

\* Slip: the entry stays when the fetch is over.
WakeKeeping ==
    /\ Running("woken")
    /\ waiting' = [waiting EXCEPT ![Task.woken] = <<>>]
    /\ micro' = Tail(micro) \o Resumed(Task.woken)
    /\ UNCHANGED <<cacheVars, needSession, frontVars, serving, linkVars, chunk,
                   loads, calls, handled>>
\* fetchSession continues for the message that started the fetch, which ends it,
\* and then for those that joined; each looks its session up again.
Wake ==
    /\ Running("woken")
    /\ waiting' = [v \in DOMAIN waiting \ {Task.woken} |-> waiting[v]]
    /\ micro' = Tail(micro) \o Resumed(Task.woken)
    /\ UNCHANGED <<cacheVars, needSession, frontVars, serving, linkVars, chunk,
                   loads, calls, handled>>

\* handleMsg continues with the session it got, or drops the message.  A session
\* evicted since by the load of another uid is in its current bucket no more, and
\* updateSession leaves that alone.
Resume ==
    /\ Running("resume")
    /\ LET m == Task.resume
       IN  /\ IF Task.with # <<>> THEN Handle(m, Task.how, Task.with[1])
              ELSE UNCHANGED handled
           /\ IF Task.with # <<>> /\ m.uid \in Cached
              THEN UpdateSession(m.uid, Copy(m.uid)) ELSE UNCHANGED mapVars
    /\ micro' = Tail(micro)
    /\ UNCHANGED <<timeVars, needSession, frontVars, serving, linkVars, chunk,
                   loads, calls, waiting>>

Tick ==
    /\ Idle
    /\ CheckExpire
    /\ UNCHANGED <<needSession, frontVars, serving, linkVars, backVars, handled>>

Time ==
    /\ Clock
    /\ UNCHANGED <<needSession, frontVars, serving, linkVars, backVars, handled>>

-----------------------------------------------------------------------------
BackStep == DecodeReply \/ DecodeMsg \/ Load \/ Wake \/ Resume

Next ==
    \/ \E f \in Fronts, u \in Uids : Login(f, u) \/ Logout(f, u) \/ Set(f, u) \/ Forward(f, u)
    \/ \E f \in Fronts : GetSession(f) \/ Reply(f) \/ Connect(f) \/ Disconnect(f) \/ Read(f)
    \/ \E l \in loads : LoadFails(l)
    \/ BackStep \/ Tick \/ Time

Spec == Init /\ [][Next]_syncVars

\* The back end runs what it has to run, and a call that gets no answer times out
\* (EveryCallSettles of RpcService).
FairSpec ==
    /\ Spec
    /\ WF_syncVars(BackStep)
    /\ WF_syncVars(\E l \in loads : LoadFails(l))

-----------------------------------------------------------------------------
(* Properties.                                                             *)

\* How a fetch of u is under way: its call, or one of its continuations.
FetchesOf(u) ==
    LET loading(t) == "load" \in DOMAIN t /\ t.load.uid = u
        waking(t)  == "woken" \in DOMAIN t /\ t.woken = u
    IN  Cardinality({l \in loads : l.uid = u})
        + Cardinality({i \in DOMAIN micro : loading(micro[i]) \/ waking(micro[i])})

\* A player's session is fetched at most once at a time, and sessionFetchingMap
\* has an entry for exactly the players whose fetch is under way: an entry too
\* many would hold back every later message, one too few fetch twice.
OneFetch == \A u \in Uids : FetchesOf(u) = IF u \in DOMAIN waiting THEN 1 ELSE 0

\* A handled message had the session of the front end it came from, with the
\* settings it had when the message was forwarded or later ones.  A back end that
\* needs no session has the uid and the sid alone.
Fresh(h) ==
    /\ h.with.sid = h.msg.from
    /\ needSession =>
          \/ h.with.login > h.msg.session.login
          \/ h.with.login = h.msg.session.login /\ h.with.gen >= h.msg.session.gen
          \/ h.with.gen = 0 /\ h.msg.session.gen = 0

\* "the back-end server is a copy of some data" (session.ts): every handler sees
\* what the front end had set before it forwarded the message.
HandledFresh == \A i \in DOMAIN handled : Fresh(handled[i])

\* It does for a message that found the session cached, or fetched it itself, as
\* long as the player does not log in again at that front end: the versions by
\* which handleMsg recognises the settings start again at 1.
FreshUnlessShared ==
    \A i \in DOMAIN handled : handled[i].how # "joined" => Fresh(handled[i])

\* The messages of a player from one front end are handled in the order in which
\* they were forwarded, whether they found a session or had to wait for one; again
\* as long as the player does not log in a second time there.
HandledInOrder ==
    \A i, j \in DOMAIN handled :
        LET m == handled[i].msg
            n == handled[j].msg
        IN  i < j /\ m.uid = n.uid /\ m.from = n.from => m.n < n.n

\* No message waits for ever for a session: not when the front end goes away, when
\* the call fails, or when the player has left.
NoneLeftWaiting ==
    \A u \in Uids : u \in DOMAIN waiting ~> u \notin DOMAIN waiting
=============================================================================
