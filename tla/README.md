# Verification of mydog

TLA+ models, TLC runs and TLAPS proofs for [mydog](../src) 3.0.0, a framework for
clusters of game servers on Node.js. This file is the inventory of the system and the
account of what is modelled, checked and proved, and what is not.

- **1. The system**: parts, state, operations, interactions, what makes each correct
- **2. The modules**: which module models which code, and how they correspond
- **3. The runs**: what TLC checks, the bounds, the fairness
- **4. The proofs**: what TLAPS proves, from what, and how
- **5. Where code and intention differ**
- **6. What is not modelled**
- **7. What is left**

To run: `tlc -config RpcTiming.cfg MCRpcService` (any pair of `PROJECT.json`'s
`runs`), `tlapm DiscoveryProofs.tla`.

## 1. The system

Every mydog process is one single-threaded event loop. A *master* tells all *monitors*
(one in each server process) which servers exist; every two servers are joined by one
rpc connection, dialled by the one with the smaller id; *front-end* servers accept
clients (tcp or ws), answer their messages or forward them to *back-end* servers.
A command line tool asks the master about the servers, and to stop them.
All paths are below `src/src/`.

| Component | Source | State | Operations |
|---|---|---|---|
| rpc engine | `components/rpcService.ts`, `rpcSocketPool.ts` | `rpcRequest`, `rpcRequestBySeconds`, `msgCacheList`, `nowCacheSize`, `rpcId`, `outTime`; `rpcSockets` | call, notify, cast to a type, call to itself, answer, evict, tick, resend on a new socket |
| session synchronisation | `components/backendServer.ts`, `session.ts`, `sysRpc/frontend/sessionRemote.ts` | `sessionMap`, `sessionExpireMap`, `sessionFetchingMap`; the version and settings of a session | message in, fetch, add, use, delete, expire, evict; bind, set, delete |
| front-end server | `components/frontendServer.ts` | `app.clients`, `clientNum` | add and remove a client, message in, forward, send back |
| service discovery | `components/master.ts`, `monitor.ts`, `application.ts` (`addServer`, `removeServer`) | `serversMap`, `lastAllServers`, `changedServers`; `serversIdMap`, `tmpServersIdMap`; `app.servers` | register, lose, tick, full list, changes, compare after a reconnection |
| rpc connections | `components/rpcClient.ts`, `rpcServer.ts`, `tcpClient.ts`, `tcpServer.ts` | the socket, its timers, `registered`, send buffer; `rpcPool` | dial, register, heartbeat, send, close, re-dial, remove |
| connection queue | `util/execLineUpUtil.ts` | queue, `cntList` of a second | line up, run a batch, remove |
| client connectors | `connector/connectorProxyTcp.ts`, `connectorProxyWs.ts` | clients by flush bucket, send buffers, connection count | accept, register, handshake, heartbeat, send, flush, balance, close |
| message framing | `components/msgCoder.ts` | `headLen`, `headBuf`, `len`, `buffer` of a socket | decode a chunk |
| cli commands | `components/cliUtil.ts`, `cli.ts` | open requests to servers, counters of commands, `exiting` | list, stop, remove, with time limits |
| filters | `components/filter.ts` | none | chains of user callbacks |
| application | `application.ts`, `util/*` | configuration, server lists | start-up |

**Interactions.** Discovery calls `addServer`/`removeServer`, which start and stop rpc
clients. A registered rpc connection enters `app.rpcPool`, and `addSocket` makes the rpc
engine resend what it cached for that server; a close takes it out again, and a message
without a socket is cached. Front end and back end share an rpc connection: forwarded
messages and rpc messages are in one order. The back end fetches sessions by an rpc call
to the front end. Cli commands travel on the connections of discovery. Asynchronous code
meets at callbacks of sockets, at timers, and at promises, whose continuations run after
the current callback and before the next event.

**What is hard, and what makes each part correct.**

- *rpc engine.* A call can be answered, time out while it waits, time out in the cache,
  or be evicted, in any order with connections that come and go. Correct: every call
  settles exactly once, and only by its own answer or a timeout; a request is never sent
  after its caller was told that it failed, and is sent early enough for its answer; two
  maps and a byte counter maintained in many places agree; order is kept through caching.
- *sessions.* State is read before an `await` and used after it; fetches are shared.
  Correct: one fetch per player; no message waits for ever; messages of a player are
  handled in order, with settings no older than when they were forwarded; the cache stays
  below its bound, gives up the oldest, never expires what is in use.
- *discovery.* Either side restarts, full lists and changes mix, connections are half
  open. Correct: a monitor's list with the changes on their way is the master's list; the
  loss of the master takes no server away; the lists converge.
- *rpc connections.* Both ends notice a loss at different times, a server comes back under
  another address, a connection is given up while it is being made. Correct: at most one
  connection in use per pair, which both pools name; order; connection is regained.
- *connectors.* Buffers are flushed by timers while clients close, and frames follow a
  close. Correct: messages are written once and in order, all of them before `close()`
  closes, and in the end also to a client that stays; counters agree, nothing of a closed
  client remains.
- *framing.* Correct: the frames found do not depend on how the bytes were cut.
- *cli.* Correct: each command is answered exactly once, and not before it is done or has
  taken too long; a `stop` during another is answered at once (section 5).

`PROJECT.json` lists the hazards line by line, with the properties that cover them.

## 2. The modules

| Module | Models | Extends |
|---|---|---|
| `RpcService` | the rpc engine of one process | |
| `RpcPromise` | what a caller is promised (abstract) | |
| `SessionCache` | the session cache of one back end | |
| `SessionSync` | front ends, one back end, and the fetching of sessions | `SessionCache` |
| `Discovery` | master, monitors and their connections, the lists of the application | `Maps` |
| `RpcLink` | a server, those it connects to, and the queue for connecting | `Maps` |
| `Connector` | the clients of a front end: sockets, sessions, buckets | `Maps` |
| `Framing` | `decode` and the socket of a websocket | |
| `Cli` | tools, master and servers during commands | `Maps` |
| `Maps` | finite maps: entries added, replaced, removed | |
| `MC...` | instances for TLC | the module of that name |
| `DataTheorems` | lemmas about maps, order, sequences, sums and folds that the proofs share | `Maps` |
| `RpcServiceProofs`, `DiscoveryProofs`, `SessionProofs`, `RpcLinkProofs`, `ConnectorProofs`, `FramingProofs`, `CliProofs` | theorems and proofs | the module of that name (`SessionProofs`: `SessionSync`), `DataTheorems` |

The modules meet at assumptions that another one checks: `RpcService` takes a pool entry
and a wire in order for granted, `RpcLink` shows `OneLink` and `InOrder`; `RpcLink` is
told of servers by `Discovery`, whose `Converges` says that what it is told becomes right;
`SessionSync` uses of `RpcService` that a call settles at most once and eventually;
`Connector` reads frames that `Framing` finds.

Definitions that begin with the name of another and say *Slip* are plausible mistakes
(a margin too small, a missing delete, a wrong bucket). The specifications do not use
them; put in the place of the definition they deform, they make a property fail, which
shows that the property depends on that line of code. `PROJECT.json` pairs them.

### RpcService

The state is the fields of `RpcTimeoutUtil` under their own names. Messages are numbered
in the order in which `sendTo` gets them; `msgs[m]` is the record kept of message `m`
(its server, its id, the deadline `time`, its size), so the list `msgCacheList` is a set
of numbers, always in order of the numbers. `rpcRequest` maps ids to numbers.
`settled[m]` is a history: each call of `resolve` or `reject` on the promise of `m`.

- `SendAwait`, `SendNoCallback`, `SendT`/`SendTNext`, `SendToSelf` are `sendAwait`, a
  notification or reply, `sendT` (one `sendTo` for each server of a type) and
  `sendRpcMsgToSelfAwait`. `SendTo` is `sendTo` with the whole of
  `checkMsgCacheCountSize`. Ids are found by `getRpcId`, including the wrap, ids in use,
  exhaustion (`IdsExhausted`) and an encoder that throws (`SendAwaitThrows`).
- `ReceiveReply` is the reply branch of `handleMsgAwait`; `Settle` is a call of `resolve`
  or `reject`.
- `Tick`, `CheckMsgCacheTimeout`, `CheckRpcTimeout` are the three parts of `tick()`. They
  are steps of their own because each reads `Date.now()`, and the second may change
  between them; `phase` keeps everything else out, for the process has one thread.
- `PoolAdd`, `ResendNext`: `addSocket`, `rpcOnNewSocket`. `PoolRemove` loses any suffix of
  what was on the wire. `PeerReceives`, `PeerAnswers`: the called servers run the same
  code (call branch); they may answer late, in any order, or never.
- `Clock`: the timer is late by at most `TickLag`, a tick takes at most `TickSpan`, and
  the clock is not set back. All deadlines of the code are times of `Date.now()`, so that
  last assumption is one the code makes too.

`RpcPromise` has an outcome for each call made and the set of those whose handler was
started. A waiting call times out, or is fulfilled if its handler has started; neither
can be undone. The mapping reads the first entry of `settled`; that there is no second is
`SettledOnce`.

### SessionCache and SessionSync

`SessionCache` has the two maps of `BackendServer`. JavaScript maps iterate in order of
insertion, so `sessionExpireMap` is a sequence of buckets and a bucket a sequence of uids;
eviction and expiry follow this order. `used` is a history of the last use.

`SessionSync` adds the protocol. `clients[f][u]` is the session a front end holds: its
version and its settings, abstracted to the login and the number of changes in it. `chan[f]`
is what front end `f` has sent on the rpc connection, forwarded messages and replies to
`getSession` in one order. `Read` delivers some frames at once (`chunk`): `decode` hands
them out synchronously, so that continuations of promises (`micro`) run only when the chunk
is done. This is what makes a reply and the message behind it interesting. `DecodeMsg` is
`handleMsg` up to its first `await`: `HandleCached`, `HandleNoNeed`, `JoinFetch`,
`StartFetch` are its four ways. `Load` is the rest of `loadSession`, `Wake` the rest of
`fetchSession`, `Resume` the rest of `handleMsg` up to the handler. `GetSession` and
`Reply` are two steps because `getSettings` returns the settings by reference and they
are serialised later. The abstraction keeps what `RpcService` guarantees of the call:
it settles at most once, a timeout may come before the answer, late answers do nothing,
replies made while the connection is down are cached.

Not in it: a handler runs with the session object itself, which later fetches update in
place; the properties speak of the moment the handler is called. A fetch is only started
for a message that has just been read, so the front end's socket is in the pool; the case
in which a handler closed it within the same read is left out.

### Discovery

`conns[c]` is a connection with both its ends: `master` is the master's side (an
`UnregSocket_proxy` "new", a `Master_ServerProxy` "registered", or closed), `open` the
server's. `cut` says that the network failed without telling either end; then each end
learns it from its own heartbeat, in any order. `down[c]` are messages on their way.
`monitor[s]` is the `monitor_client_proxy` of a server (`view` is its `serversIdMap`,
`tmp` the list kept aside, `pending` that `delaySyncTimer` runs), `app[s]` and `lists[s]`
are the application's maps by id and by type.

- The master: `RegisterRefused`, `Register` (`onAddServer`), `UnregisteredLost`,
  `ProxyOnClose` (`onRemoveServer`), `Tick` (`checkServerChanged` with what it sends to
  whom: `Pushed`).
- The server: `Connect`, `MonitorOnClose`, `SyncFirst` and `SyncAgain` (`syncAllServers`
  the first time and later), `Update` and `UpdateAside` (`updateServers`), `DelaySync`.
  `CheckSyncServers` and `Apply` (`removeServer`, `addServer`) are part of them.
- Failures: `Cut`, `Crash`, `MasterRestart`; `Start` may give a server a new address.

Timers are not timed: the delay of 5 or 35 s matters to `Converges` only in that it ends.
This makes `KeptThroughLoss` independent of how long anything takes, and lets the
comparison come before all servers are back, as it may.

### RpcLink

One server that connects to `Peers`. `clients[p]` is its `RpcClientSocket` for a peer with
the place it has reached (`connectTimer`, the queue, connecting, open, registered);
`conns[c]` a connection with both ends and what is under way in both directions. `LineUp`
and `Check` are the queue (`execLineUpUtil.ts`), `Connected`, `ConnectFails`,
`ClientOnClose`, `ClientOnData`, `Send`, `SendInterval` the client,
`PeerRegister`, `PeerOnData`, `PeerOnClose`, `PeerSend`, `PeerSendInterval` the other
side; `Learn`, `LearnStale` and `RemoveRpcClient` are what discovery tells it. A removal
while the connection is being made leaves an "orphan": `close()` has run `onClose`, but
the attempt goes on, see section 5. If it succeeds, `ConnectedOrphan` throws, which is
`Crash` in a process without a handler of `uncaughtException`, and `LeftOver` in one with
the handler of the skeleton: a connected socket that nobody reads, writes or closes until
the peer's register timer does. `PeerRestart` and `Cut` are failures.

### Connector

The process is one record, `front`, so that a handler is the composition of the functions
it calls, as in the code: `Close` is `OnClose` after `SendInterval` after `RemoveBucket`.
`chunk` is a read whose frames are still being emitted: the decoder goes on after a handler
has closed the socket, and the listener of the socket decides what becomes of them.
`handling` holds messages between the `await`s of `handleMsg`; `Answer`, `Forward` and
`Drop` are how they end. `sent` and `written` are histories: numbers of the last message
sent to a client, and of the last written to its socket. `Balanced` is
`checkBucketsBalance`. `connectorProxyWs.ts` is this code but for its framing and for
attaching a listener one call earlier; both are mapped to one definition. `HeartbeatOn`
is whether the connector's `heartbeat` option is set; by default it is not.

A client ends in one of three ways. `Close` (the application, a timer, a frame that is
not expected) writes what is kept, then closes: "closed". `BadLength` is the decoder
closing the socket itself, at a length of zero or over the limit, and in a websocket
message also at one that does not fit or is no `Buffer`; `onClose` then drops what is kept: "refused".
`PeerGone` is a connection that breaks or that the client closes: "gone".

### Framing

`Decode` is the loop of `decode` with its four fields, a byte or a block at a time;
`WsDecode` that of `WsSocket.onData`. The reference definition is the encoding: the stream
is the frames emitted, encoded, and a remainder that is no whole frame.

### Cli

`clis[q]` is a run of the tool (`clientProxy`), `commands[q]` the closure the master makes
for its command, with the counter the callbacks share, `monitorRequests` the open requests.
`DealCliMsg`, `DealMonitorMsg`, `Timeout`, `MasterExit` are the master; `DealMasterMsg`,
`BeforeExitOver`, `ServerExit` a server. `again` marks a `stop` that is answered without
asking anyone, because one is under way. Timers, ten seconds and one hour, fire when they
will: in reality the application's `onBeforeExit` may take longer than either. There is
one life of the master in it.

## 3. The runs

| Run | Question | Properties | Size |
|---|---|---|---|
| `rpc_timing` | timeouts, evictions, late answers, lost links, calls to itself; does the timer alone settle and drain everything | `CachedPending`, `SettledOnce`, `SentInTime`, `OwnAnswer`, `PromiseKept`, `EveryCallSettles`, `CacheDrains` | 700,000 states, 80 s |
| `rpc_cache` | two servers, two sizes, both limits, casts, notifications, ids that wrap, are in use, run out or are skipped | `BucketsExact`, `CacheAccount`, `InOrderOnce`, `CachedOnlyWithoutSocket` | 1.3 million, 20 s |
| `session_cache` | any use of the cache by four players | `BucketsMatch`, `CacheBounded`, `NothingOverdue`, `EvictsOldest`, `KeptWhileUsed` | 12,000, 2 s |
| `session_sync` | two front ends, one player, two messages, failing links | `OneFetch`, `FreshUnlessShared`, `HandledInOrder`, `NoneLeftWaiting` | 500,000, 30 s |
| `session_shared` | joining another message's fetch (violation) | `HandledFresh` | |
| `session_relogin` | versions after a second login (violation) | `FreshUnlessShared` | |
| `discovery` | two servers, restarts of either side, a network that fails | `RegistryExact`, `ViewFollows`, `ListsAgree`, `AddressFresh`, `KeptThroughLoss`, `Converges` | 490,000, 60 s |
| `rpc_link` | a connection that fails, moves or is removed at any moment | `OneLink`, `InOrder`, `RateKept`, `Linked` | 720,000, 100 s |
| `rpc_link_removed` | a server removed while it is being connected to (violation) | `NeverCrashes` | |
| `connector` | three clients, two places, two buckets | `FlushReaches`, `CountsAgree`, `Delivered`, `ForwardedOwn`, `ComesToRest` | 970,000, 130 s |
| `framing` | every stream of nine bytes, cut in every way | `DecodeExact`, `WsDecodeExact` | 59,000, 4 s |
| `cli` | two tools, two servers, a connection that fails | `CountsPending`, `DoneWhenTold`, `EveryCommandAnswered` | 1.1 million, 130 s |

The three runs that expect a violation stop at the counterexample. All others are exhaustive.

**Bounds.** `MaxMsgs`, `MaxTime`, `LastSend`, `MaxLogins`, `MaxGen`, `MaxFaults`,
`MaxSends`, `MaxFrames`, `StreamMax` stop the environment, never the program.

`rpc_timing` uses the smallest legal `rpcTimeMax`, 5, for which the 3 s margin of the
cache is tightest, and two calls, one to another server and one to the process itself or
both to the same, with a cache for one of them, so that sending the second evicts the
first. Interactions between calls are pairwise: through a shared id, bucket, cache slot or
wire. Sends up to second 6 let the second call start after the first has expired; the
clock runs past the last deadline. `TickSpan = 2` lets each check of a tick see a later
second than the one before. `rpc_cache` holds time still: order and accounting do not
depend on it; three messages of sizes 1 and 2 against limits of 2 messages and 3 bytes
exceed each limit alone and both, and two ids for three calls make every id be taken again
while the other may be in use.

`session_cache` has room for three of four players, an eviction batch of two (the code:
3200 and 300), buckets of 2 s and time for four of them. In `session_sync`, one player
suffices, since sessions of different players meet only in the cache; two front ends
matter because a session may come from the wrong one; of two messages one fetches and the
other joins, finds or fetches again. `VersionMax` (4000000000 in the code) is beyond the
reach of the bounded number of changes, so the wrap to 1 is modelled and is not met.

`discovery` has two servers because a push has a subject and an addressee, and every
server is the addressee of its own pushes too; three connections, so that one server may
have a half-open connection, a refused one and the next; two failures of any kind, since
the hard cases are pairs (the network fails, and the master restarts before both ends
know). Infos differ in their address and not in their type; the proofs of section 4 cover
types and any number of servers and failures. `rpc_link` has two peers because the queue
serves several; one of them fails, moves or is removed, twice. The buffer takes one
message, so that the second does not fit. `Frame = 2` (5 in the code) with one connection
a second has a check that may begin none. In `connector` the last message of a client may
meet any of the others; `MaxConnectionNum` is less than the clients, two buckets give
every client a bucket of its own or a shared one. `HeartbeatOn` is set, which adds
a timer and takes nothing away: without it a connected client has no heartbeat timer, as
with it one that never fires. `framing` uses three values of a byte,
two bytes of length and nine bytes, enough for two frames and a header split between any
pieces, and lengths of zero, at each limit and above. `cli` has two tools so that commands
overlap; a list is as good as a message that any server answers at once.

**Fairness.** Weak fairness only, of the code's own timers, of what an event loop does with
what has arrived, and of the network delivering or failing for good; nothing of handlers,
answers, clients or the application. In `rpc_timing`: the timer (re-armed in a `finally`,
line 340), a running synchronous loop, and the clock; links and other servers may be silent.
In `session_sync`: the back end's own steps, and the failure of an unanswered `getSession`,
which is `EveryCallSettles` of the rpc engine. In `discovery` and `rpc_link`: the timers
for reconnecting, sending, comparing and heartbeats (`setTimeout` and `setInterval` that
are re-armed at each close), and connections that are made, refused or time out; failures
are bounded and none is required. In `connector`: `flush`, the register timer, and the
heartbeat timer of a client that is closed. That of a connected client is not fair, for
each heartbeat sets it again: such a client may stay for ever. In
`cli`: the master's handling of commands and its time limits.

**Deadlock** is not checked: the bounds stop the environment, and a system without
failures or requests may rest.

## 4. The proofs

The theorems hold for every value of the constants that satisfies the assumptions of the
modules: any servers, clients, players, messages, sizes, limits, ids, timeouts and
numbers of failures, connections and restarts. Every safety invariant and every action
property of the passing runs is the statement of a theorem; liveness stays with TLC.

| Theorem | Says |
|---|---|
| `TypeCorrect` | `RpcService`'s `TypeOK` |
| `BucketsAgree` | `BucketsExact`: no call is missed by the timeout scan, no bucket holds a stale id |
| `CachedAwaited` | `CachedPending`: a request is in the cache only while its caller still waits |
| `SettledExactlyOnce` | `SettledOnce` |
| `HandledInOrder` | `InOrderOnce` |
| `CacheAccounted` | `CacheAccount`: the byte counter is exact and both limits are kept |
| `NothingStuck` | `CachedOnlyWithoutSocket` |
| `StepInv`, `Invariance` | the inductive invariants `IInv` and `OrderInv` are preserved, and hold |
| `EnginePromises` | `[]IdsDistinct => PromiseKept`: `RpcService` implements `RpcPromise` |
| `AnswersMatch` | `[]IdsDistinct => OwnAnswer` |
| `RequestsInTime` | `[]IdsDistinct => SentInTime` |
| `CacheInvariance` | the inductive invariant `CacheInv` of `SessionCache` |
| `EveryBucketMatches`, `CacheStaysBounded`, `NothingIsOverdue` | `BucketsMatch`, `CacheBounded`, `NothingOverdue` |
| `OldestAreEvicted`, `UsedAreKept` | the action properties `EvictsOldest`, `KeptWhileUsed` |
| `SyncInvariance` | the inductive invariant `SyncInv` of `SessionSync` |
| `OneFetchAtATime` | `OneFetch` |
| `PlayersInOrder` | `Bounded => HandledInOrder` |
| `SettingsUpToDate` | `Bounded => FreshUnlessShared` |
| `DiscoveryTypes` | `Discovery`'s `TypeOK` |
| `RegistryStaysExact` | `RegistryExact`: the master's maps, proxies and sets agree |
| `ListsStayInStep` | `ListsAgree`: the application has what the monitor has |
| `AddressesStayFresh` | `AddressFresh` |
| `LossKeepsServers` | `KeptThroughLoss`: no loss of the master takes a server away |
| `PushesLeaveNoGap` | `ViewFollows`: what a server has, with what is on its way, is the master's list |
| `DiscoveryInvariance` | the inductive invariant `DInv` |
| `LinkInvariance` | the inductive invariant `LInv` of `RpcLink` |
| `OneLinkAlways`, `ArrivesInOrder` | `OneLink`, `InOrder` |
| `RateAlwaysKept` | the action property `RateKept` |
| `ConnInvariance` | the inductive invariant `ConnInv` of `Connector` |
| `FlushReachesAll`, `CountersCount` | `FlushReaches`, `CountsAgree` |
| `AllDelivered` | `Delivered`: while connected in order and once, and everything before a `close()` |
| `ForwardedUnderOwnUid` | the action property `ForwardedOwn` |
| `FramingInvariance` | the inductive invariant `FInv` of `Framing` |
| `FramesDecoded`, `MessagesDecoded` | `DecodeExact`, `WsDecodeExact` |
| `CliInvariance` | the inductive invariant `CInv` of `Cli` |
| `CountersCount` (of `CliProofs`) | `CountsPending` |
| `ToldTheTruth` | `DoneWhenTold`: but for a `stop` during another, who is told is told the truth |

Each is of the form `Spec => ...` (`CacheSpec` for the cache).

**The rpc engine.** `CachedPending` is the promise of the comment at `rpcService.ts:485`.
It is not inductive: `checkRpcTimeout` rejects every call whose deadline has passed, and
only arithmetic says that none of them is in the cache. `IInv` adds what the code relies
on: `DeadlinesOrdered` (deadlines never decrease along the messages, so stopping at the
first unexpired cached message misses none); `TickFresh` (during a tick the clock is less
than the 3 s margin beyond the second at which it began); `CacheChecked` (between the two
checks, nothing in the cache had expired when the tick began); `ResendInPhase`; and
`BucketsExact`, without which deleting a call could leave its id behind in a bucket. From
`CacheChecked`, a cached call's own deadline is more than 3 s past the start of the tick,
and by `TickFresh` the clock has not got there. `SettledOnce` needs `CachedPending`: an
eviction rejects without looking whether the call still waits. The order of messages has
an invariant of its own, `OrderInv`: cached, resending, on the wire and handled are
disjoint places, and the numbers of one server decrease along them, from the cache to the
handler.

`CacheAccount` is about a sum over the cache. The model's sum is a fold over a set, and
no induction over data is available; instead it is shown to be a cardinality: give each
message as many *units* as it has bytes, and take a smallest set for which the fold and
the number of units differ to see that there is none. Sums are then added and split as
finite sets are. `EvictedEnough` shows that what `checkMsgCacheCountSize` splices off
brings both the number and the size back under their limits, whichever was exceeded.

**The promise.** A step of the engine settles a set of messages with one outcome, or
none (`SettlesOnly`). By `SettledOnce` after the step, a call in that set was waiting
before it (`OutcomeOf`), so a step of the timer is `Expire`, a send is `Make` with the
evicted calls given up, and an answer is `Fulfil` or nothing: under distinct ids the only
call waiting under the id of message `m` is `m` (`AnswersOwn`), and by `Placement` its
handler was started. By `InOrderOnce` the head of the wire was not handled before, which
makes `PeerReceives` a `Start`. `RequestsInTime` adds two invariants to `IInv`:
`TickRecent` (the last tick is at most `TickLag` or `TickSpan` old) and `CacheFresh`
(outside the beginning of a tick a cached call has more than 3 s to go, counted from it).

**The session cache.** `CacheInv` says of the buckets that their times increase
(`Good`), that a session is in exactly one, once, the one of its `expireTime` (`Match`),
and that none is later than the bucket of now (`UpTo`). Every operation is a composition
of taking a session out of its bucket, appending it to the last, and dropping first
buckets, and a lemma for each says which uids remain and in which order. Eviction and
expiry stop early, at the batch and at the first bucket that is not due; because the
times increase, what is left is later than what went, which is `EvictsOldest` and
`NothingOverdue`. `KeptWhileUsed` needs that the bucket of a use is later than the use by
the whole of `expireSeconds`, rounded up.

**Sessions.** `SyncInv` is the types and `FetchInv`: a fetch is a call (`loads`) or one
continuation in `micro`, never both, and `sessionFetchingMap` has an entry for exactly the
players with a fetch. For the order of messages, `Flow` describes what is on its way
between a front end and the back end, with the versions it carries, and `OrderInv` how far
each message has come: on its way, behind a fetch (`Waits`), as a continuation
(`Resumes`), or handled (`Passed`). Numbers of one player and front end decrease along
these stages (`StagesOK`), and increase within each (`RowsOK`). That a message never finds
its session in the cache while an earlier one waits is `VersionsOK`: what waits, waits
because what is cached is older, and later messages ask for no less. `FreshInv` ties the
reply of a fetch to the messages that may be handled with it.

`PlayersInOrder` and `SettingsUpToDate` have the hypothesis
`Bounded == MaxLogins <= 1 /\ MaxGen < VersionMax`: a player logs in at most once at each
front end, and makes fewer changes than there are versions. Both parts are needed. With two logins
both properties fail (`session_relogin` shows it for the settings), since an equal
version does not mean the same session; with a version that wraps a later message asks
for less than an earlier one, and is handled before it.

**Discovery.** `DInv == NetOK /\ ServersOK /\ RegistryExact /\ ServersGood`. `NetOK` and
`ServersOK` are the parts of `TypeOK`; that the `update` and `del` of a message are
disjoint is among them, because `updateServers` would otherwise depend on the order of
its loops. `ServersGood` ties, server by server, the application's map, its lists by type
and the monitor's view: it is stated so that `Apply`, the one function that changes all
three, is proved to keep it once, for an arbitrary full list or change, and each action
cites that lemma. `KeptThroughLoss` follows from who calls `Apply` with what: the first
full list deletes nothing, an update deletes only what it names, and everything else that
deletes does so when a comparison, begun by a new master's full list, has run its delay.

`ViewFollows` is about all the messages on their way at once. Folded over the pipe it
would need an induction; it is stated in closed form instead (`Expected`): of each server,
the last message that tells of it decides (`LastWord`), and without one the view does.
Then taking the first message changes nothing (`LastWordTail`), and pushing one changes
it at the servers that message tells of (`LastWordAppend`). `EachFollows` is the invariant:
the socket of a server is open and its own (`SocketOK`), the first message that a
connection ever gets is a whole list (`FirstOK`), the closed form agrees with the master
(`FollowOK`); and nothing is on its way to an end that is closed, or before a
registration (`PipesClear`).

**Rpc connections.** `LInv == Types /\ Structure /\ OutOrder /\ BackOrder`. `Structure`
relates the phase of each client to the one connection it may have, the other end of that
connection to the peer's pool, and the queue to the clients that wait; `OneLink` is its
part about connections in use. The two orders say that the numbers in a buffer follow those on the wire,
those on the wire the last one handled, and that an older connection delivers
nothing once a newer one has registered.

`RateKept` counts a window of one second, which begins at any check and so spans two
rounds of `cntList`. `RateInv` says that the counts of the last checks are those of
consecutive places of the list, at most a full round; the remainder of
`SocketPerSecond / Frame` is spread over the first places. That a round fits is again a sum over data: it is
the cardinality of its units, and these are numbered row by row into
`1..SocketPerSecond` without repetition (`SlotIn`, `SlotOne`, `RoundFits`).

**Connectors.** `ConnInv` has a part for each client (`ClientsOK`: it is in the bucket
that its index names or in none, `Placed`; what was sent and not written is what it holds,
in order, and nothing of it is left at a `close()`, `Held`; and if something is, it is in a bucket, `Waits`), the counters (`CountersOK`), and uids and sessions that name each other
(`UidsOK`). The process is one record and a handler a composition of functions on it, so
each function is proved to keep the invariant of an arbitrary record once, from the
innermost (`SendInterval`, `RemoveBucket`) to the handlers. `ForwardedOwn` is `UidsOK`
at the moment of forwarding: the uid that a session still has after an `await` is that
under which it is registered.

**Framing.** `FInv` says where the bytes are: the stream is the emitted frames, encoded,
then `headBuf`, then `buffer`, then what is left of the piece (`TcpOK`), and which of these
may hold something in which phase (`Reading`); a frame can be told from its encoding
because writing the length that was read gives the header back (`HeaderIs`, from dividing
and multiplying by `Base`). One turn of either loop keeps this for whatever piece
(`HeadStepOK`, `BodyStepOK`, `WsStepOK`). `Value`, `Encoded` and the loop are folds, which
the library defines by recursion over sets, and nothing can be proved by induction over
them; but a recursion has a solution, since there is no smallest number up to which it
has none (`ChainExists`, `FoldExists`), so each fold is replaced by its solution, a function with
an equation for each step. For the loop these are its states: every turn reads a byte
or ends it, so by the smallest turn at which this would fail, as many turns as there are
bytes leave nothing to read (`LoopEnds`).

**Cli.** `CInv` contains `CountsPending` and follows a request: the order, the work and
the reply with the id of an open request are those of the server that was asked
(`OrdersOwn`, `WorkOwn`, `RepliesOwn`), and a reply follows `onBeforeExit`. A server that
was asked, was not late and has not got so far has an open request (`AskedOpen`, not for
a `stop` during another). A tool
is told when its command was answered (`ToldAnswered`), and then by `CountsPending` no
request is open, which gives `DoneWhenTold`.

**Assumptions.** `RpcTimeMax >= 5` (enforced by `init`), `TickSpan` of at most 3 s (a
process suspended in the middle of a tick is excluded), and a clock that is not set back
(section 5). `CachedPending` and `SettledOnce` state, and `EnginePromises`,
`AnswersMatch` and `RequestsInTime` assume, `IdsDistinct`: fewer than 10^9 calls. Past that
an id can come round while an answer to its last use is on its way. `AddressFresh` speaks of servers that
keep their type. Servers, sessions and front ends are finite sets where something counts
them; in `Discovery` servers may be any set. `NoConn` is no connection. An eviction batch
of the session cache is positive and below its bound.

**Only model-checked**: liveness, fairness and `ENABLED`, which are beyond the prover:
`EveryCallSettles`, `CacheDrains`, `NoneLeftWaiting`, `Converges`, `Linked`, `ComesToRest`,
`EveryCommandAnswered`.

## 5. Where code and intention differ

- `session_shared`: a message that joins a running fetch gets its result without the test
  of version and front end that sent it there. With the reply and the message in one socket
  read, its handler sees settings older than the message.
- `session_relogin`: versions restart at 1 with each login; equal version and front end
  do not mean equal settings. A player who logs out, in again, and makes as many changes
  is served from the settings of the login before, until the cache expires.
- `rpc_link_removed`: `remove()` of a server to which the connection is being made leaves
  the attempt running; when it succeeds, `connectCb` uses a socket that is null. The
  exception ends the process, unless the application handles `uncaughtException`. The
  skeleton that `mydog init` copies does (`template/server/src/app.ts:25`, beside
  `src/`) and only logs: the process lives on, and leaves a connected socket that nobody
  uses until the other end closes it. `Linked` holds for every process that lives, with or
  without such an exception behind it.

Not runs, but worth knowing. When the clock is set back, a later message has an earlier
deadline, the head-first scan of the cache stops in front of it, and its call is rejected
while the request stays to be sent: the models exclude it. A server that returns with
another type under its old id is refused by `addServer` while the monitor lists it; hence
the condition of `AddressFresh`. A client with a bad length is closed by the decoder and
not by `ClientSocket.close`, so that messages kept for it are dropped; every other close of
the server writes them first, and `Delivered` is stated for those.

A second command meets servers that are already exiting in two ways. A `stop` during
another is answered at once, without asking any server (`cliUtil.ts:121`), and the tool
prints "the application has stopped" (`cli.ts:744`) while servers are still in
`onBeforeExit`, or were never asked because they connected after the first: `DoneWhenTold`
exempts it by name (`again`). In every other pair, a `remove` and then a `stop`, a `stop`
or a `remove` and then a `remove`, the servers that are exiting ignore the second command,
and its tool waits for the time limit (`EveryCommandAnswered` relies on that).

## 6. What is not modelled

Texts, logging, encodings and the loading of handler files; `rpc_create`'s `toId` and
`notify` pair, set by `rpcFunc` for the next method call (a synchronous hand-over); tokens
and malformed packets of registered connections, which are configuration errors or bugs of
a peer; filters and user handlers, which keep no state of the framework; start-up, the
process starter, and the templates but for one handler (`RpcLink`), which are input and output around one request; of the
command line tool everything but its wait for an answer.

The crash of a front end or back end has no action in `SessionSync`: a back end that
restarts has an empty cache, which is its initial state, and a front end that restarts has
no clients. In `Cli` the master has one life, so that a reply to a request of an earlier
master, which starts its ids at 1 too, is not met.

## 7. What is left

A back end that restarts in `SessionSync`, and a master that restarts in `Cli`: both change
the inductive invariants.
