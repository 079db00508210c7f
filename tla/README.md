# k-localtunnel-server in TLA+

Specifications, model-checking runs and machine-checked proofs for the tunnel
server of this repository. Paths are relative to `src/`.

## The system

A client behind a NAT asks the server for a tunnel (`GET /?new`), opens a few TCP
connections towards it, proves on each that it owns the tunnel (a JSON handshake
with its id and token), and the server then sends the traffic of a public host
name or port down those connections.

| Component | State | Operations | Hard part |
|---|---|---|---|
| `lib/TunnelAgent.js` | `allSockets`, `availableSockets`, `closed`, per-socket timers and listeners | accept, handshake, `onConnection`, `createConnection`, `destroy` | handshake timers against data and `close` events; pool order; limit |
| `lib/Client.js` | grace timer | `handleRequest`, `handleUpgrade`, `close` | timer against `online`/`offline`; closing twice |
| `lib/ClientManager.js` | `clients`, `stats`, `serverListening` | `newClient`, `removeClient`, `listen` | removal and failure between the awaits of a creation |
| `lib/TcpTunnelAgent.js` | public server, `activePairs` | `listen`, `destroy`, pairing, the two pumps | half-closed pairs; the end of one side against the end of the other and the removal of the client |
| `lib/UdpTunnelAgent.js` | `sessions`, `pendingSessions`, one idle timer per session | `_onMessage`, `SessionTimeout`, `destroy` | timeout against data; the late `close` of a socket whose source already has a new session |
| `lib/UdpFrameCodec.js` | the buffer of each parser | `encodeFrame`, `createFrameParser` | frames cut anywhere, several in a chunk, a header that is not JSON |
| `lib/FilterStore.js`, `lib/Filter.js` | `_cache`, `_expiryTimers`, the collection | `init`, `create`, `update`, `delete`, `isIdAuthorized`, expiry | overlapping queries; timers against changes; restart |
| `index.ts` | `pendingTunnels`, `lastAuthState` | filter routes, SSE, `reEvaluateAllPending`, `GET /?new` | revocation against creation, connection and departure |
| `lib/ApiKeyStore.js`, `lib/ApiKey.js`, `lib/mongo.js` | the collection, one connection promise | key CRUD, `verify`, `touch` | little: one query per operation |
| `bin/server`, `server.js`, `lib/adminHtml.js`, `scripts/` | none of their own | start, older server, page, packaging | none |

`index.ts` asks `FilterStore.isIdAuthorized`, then `ClientManager.newClient`; the
manager makes a `Client` with its `TunnelAgent` (and a TCP or UDP agent) and puts it
in its table. With `uniquePortTcpServer` the manager owns one server for all tunnel
connections, reads the handshake and gives the socket to the agent it names
(*unique port*); without, every agent has a server of its own (*dedicated port*).
Agents emit `online` and `offline`, which drive the grace timer of their client; the
client emits `close`, which removes it from the table. The filter store emits
`change` when a temporary allow expires; that, and each admin request, runs
`reEvaluateAllPending`, which tells the SSE streams and removes revoked tunnels.

Everything runs on one event loop: a handler is atomic up to its next `await`, and
timers, socket events and continuations interleave in every other way. Nothing but
the Mongo collections survives a restart.

## The modules

* **TunnelAgent** - one client's sockets in either port mode. `tcp` is Node's view of a
  socket (`"destroyed"` is the time between `destroy()` and `close`), `handshake` what
  the server made of its first chunk, `hsTimer` and `killTimer` the timers of the two
  `listen` functions and of `detroyAfterDelay`, `watched` says that the listeners put on
  by `onConnection` are still there (`removeAllListeners` takes them off), `use` what a
  handed-out socket serves, `token` whether the client was given one (`AuthMode` holds the values
  `authRequired` may have). `AcceptOwn`/`ReceiveOwn` are the handlers of
  `TunnelAgent.listen`, `AcceptShared`/`ReceiveShared` those of `ClientManager.listen`;
  `OpenPipe`, `OpenRequest`, `ReuseKept`, `RequestDone` and `Release` are the consumers:
  upgrades, external TCP connections and UDP sessions hold a socket until it ends,
  requests go through Node's `http.Agent`, which keeps at most one idle socket
  (external, modelled from the options the class gives it). One agent serves either
  requests and upgrades or TCP/UDP traffic; the model allows any mix, which includes both.
  Bytes of a chunk are one of five classes, those the handlers tell apart. One of them is a
  client id that names a member every JavaScript object has: the manager's table is a plain
  object, so the lookup finds it, and the handler throws where it asks that "client" for its
  limit. `bin/server:138` logs such an exception and the process goes on, so the connection
  is left to its handshake timeout.
* **SocketPool** - what the agent promises its consumers: a connection joins at the back,
  only the front is lent, to one consumer, the departure of one keeps the others in
  order, and what was lent never comes back but as a new connection.
* **Client** - TunnelAgent with the grace timer and the two ways a client ends.
  `MCClient` is its small instance.
* **ClientManager** - the table of clients and the creations, cut at their awaits:
  `newClient`, the outcome of the tunnel server (`SharedServerSettles`,
  `OwnServerSettles`), the listen of the public server (`Bind`, `BindFails`), the answer
  (`HttpCreated`, `PublicCreated`) or the catch (`CreationFails`); `ClientRemoved` is any
  removal, by revocation or by the grace timer. In one process the binds settle within
  the tick, but requests of one pipelined batch do interleave at these awaits. A UDP bind
  that fails is decided one step early, at the listen. A bind error that is on its way when the
  client is removed still arrives (`OwnServerFailsLate`) and runs the catch of a creation whose
  client is gone, while `listening` does not.
* **TunnelSockets** - what TunnelAgent and Client are to a TCP or UDP tunnel of the unique
  port, where a socket joins the pool with its handshake verified: the pool, the end of a
  connection, and the websocket upgrades, which take sockets of such a tunnel too. A closed
  connection's name stands for a new one, so a pair or a session can meet the events of its
  predecessor.
* **TcpTunnelAgent** - the pairs. `pairOf` is what the closures of a pair know, `activePairs`
  what the agent lists; each side ends (FIN) and finishes (`destroyed`, then `close`) on its
  own, and an external connection that finds no socket is destroyed.
* **UdpFrameCodec** - encoder and parser as functions on sequences of bytes. `Radix`, the
  number of values of a byte, and `Json`, the headers `JSON.parse` accepts, are parameters.
  The parser of the code loops over its buffer; `parse` is that loop as a recursive function,
  from a buffer to the frames it holds in whole and the bytes that stay.
* **UdpTunnelAgent** - the sessions: `sessions` is the Map, `key`/`closed` what a session
  object knows, `timer` its idle timer, `sent`, `toServer`, `buffer` the frames the client
  sends, the bytes still in flight and the parser's buffer, `replies` and `forwarded` the
  datagrams each way. `IdlePasses` is the idle time going by, `SessionTimeout` the timer's callback.
  The end of a session's socket is one event, `close`, or two, when an error comes first
  (`SessionHearsError`, then `SessionHearsClose`).
* **PublicTunnel** - composes the four for a client of either type: the `close` event of a
  socket reaches pool, pair, session and pipe in one step, and `close` is `Client.close()`.
  `MCPublicTunnel` is its small instance.
* **TunnelServer** - `index.ts` over ClientManager: filters sorted by priority, the SSE
  streams, `pendingTunnels` and `lastAuthState`, re-evaluation and the checks of
  `GET /?new`. A regular expression is the set of ids it matches. `_sortCache` puts each
  filter at its `Place`, as a stable sort does. A change either goes on to its re-evaluation
  (`due`) or has lost it (`missed`), because the operation behind it ended early: its flip or its
  find failed, or its filter was gone again (`Answered`; those ends need MongoDB). `MCTunnelServer`
  is its small instance.
* **FilterStore** - CRUD, expiry and start of the store, in memory and over Mongo, where
  an operation is a write, a find and the application of its answer. `clean` is a history
  variable: since the last start no two operations overlapped and no query failed. A
  write that Mongo executes after the process that sent it has died is not modelled. `Seed`
  inserts any default filters into an empty collection, none included, that allow or deny.
* **TunnelAgentProofs**, **ClientProofs**, **ClientManagerProofs**, **TunnelServerProofs**,
  **FilterStoreProofs**, **UdpFrameCodecProofs**, **PublicTunnelProofs** - the theorems about
  the module each is named after; **SequenceLemmas** - induction over numbers and sequences,
  what `RemoveAt` and `FlattenSeq` return, and what `Append`, `Tail` and `RemoveFirst` do to a
  sequence without duplicates, for the two modules with a pool.

Definitions marked *Mutant* are deliberately wrong variants of the definition that
follows them; `PROJECT.json` says which property each one breaks. They show that no
property holds by the shape of the model, and no specification uses them.

## The runs

| Run | Bounds | What it shows |
|---|---|---|
| `ClientUniquePort` | 3 connections, limit 2, with a token and without | all safety properties of agent and client, the refinement of SocketPool, the liveness of the timers |
| `ClientDedicatedPort` | 3 connections, limit 2, symmetry | exclusive use, limit and refinement still hold when sockets are pooled before their handshake |
| `ClientDedicatedLimit` | 2 connections, limit 2 | violation: the second connection of two is refused |
| `ClientDedicatedAbsent` | 1 connection | violation: a silent connection keeps an absent client registered |
| `ClientManager` | both port modes, 2 creations, 2 ids, all kinds, 1 public port, 1 failed bind | no client is lost, a failed creation leaves nothing, every creation is answered |
| `ClientManagerStats` | 2 creations, 1 public port | violation: `stats.tunnels` is -1 with no tunnel |
| `TunnelServer` | 2 streams, 2 ids, 2 filters with 2 priorities, 2 changes, 1 tunnel | the verdict follows priority; streams are told; a revocation they learn of cuts the tunnel |
| `TunnelServerUnwatched` | the same | violation: a tunnel nobody watches outlives its revocation |
| `FilterStore` | 2 filters, 2 operations in flight, clock to 2, timers of at most 1, 2 requests, 1 failed query, 1 crash | cache, timers and dates agree; an allow that is over is taken back, also after a restart |
| `FilterStoreOverlap` | 2 operations in flight, no failure | violation: the older answer is applied last and the cache stays behind |
| `FilterStoreExtended` | 2 operations in flight, no failure | violation: the timer of an allow takes back its extension |
| `PublicTunnel` | a TCP or a UDP tunnel, 2 sockets, 2 external connections, 2 sources, 2 frames of the client out of 4 kinds, bytes of 3 values | nothing is orphaned, sessions and Map agree, replies come whole and in order, removal silences the tunnel, the pool is used as SocketPool says, an idle session ends |

Why the bounds are enough to be interesting: three connections for two slots give a
refused, a pooled and a lent socket at once, and a socket that closes while another
waits for its handshake; two creations give a retry after a failed bind, a port both
want and an id taken again while the first creation is still failing; two filters with
overlapping patterns compete in both orders; dates of 2 with timers of 1 need a chain. In
`PublicTunnel` two sockets and two sources give a session that ends late while its source has a newer one, and two pairs that end in
opposite orders; two frames (counted over all sockets) make a chunk that ends within a
header, within a length or after a whole frame; with 3 values to a byte a header of three
bytes has a length of two digits, so that swapping the bytes of a length shows.
The violations are real disagreements between the code and its documents or tests;
`PROJECT.json` quotes both sides under "findings".

Other disagreements the models contain, which no run states:

* Without authentication a client is given no token and none of its handshakes is ever accepted,
  although `README.md:34` starts the server that way and `authRequired` is false by default.
* `createConnection` turns away who finds the pool empty, although the class is commented
  (`lib/TunnelAgent.js:23-24`, `240-241`) and tested for queueing: the push is commented out.
* A change that reached the cache is not followed by a re-evaluation when its own operation ends
  early (`Answered`): the flip of a date already past fails, its find fails while that of another
  request brings the change, or the result is null. `README.md:192` promises one after every change.
* A date patched while another request denies the filter is checked against the old cache and
  stays on the filter that denies, against `lib/FilterStore.js:189-191`.
* `POST /api/filters` with `authorized: true` and no `allowUntil` is answered "Invalid allowUntil"
  (`lib/FilterStore.js:194-198`), although `README.md:260` lists the field as optional; such a
  request changes nothing, so `create` has a guard and no step for it.

`CHECK_DEADLOCK FALSE` is set where the system may rest: a removed client whose
connections are gone (dedicated port), all creations used, all bounds reached, a removed
tunnel whose sockets are gone.

**Fairness.** Timers fire and Node delivers the `close` event of a destroyed socket;
Node settles the promise of a bind and resumes who awaits it; Mongo answers queries; a
change whose operation goes through goes on to its re-evaluation; in `PublicTunnel` only the idle
timers of the sessions advance and fire (`IdlePasses`, `SessionTimeout`). Nothing is asked of peers,
requests, failures, removals or crashes. `AbsentClientRemoved`, `UnverifiedIsClosed`, `ClosedClientLetsGo`,
`CreationAnswered`, `NewsArrives`, `ExpiryHappens` and `IdleSessionEnds` use it. `IdleSessionEnds` excepts a session whose traffic never stops,
since each datagram either way sets its timer again.

**Conditions.** The store's properties hold while `clean`; `FilterStoreOverlap` and
`FilterStoreExtended` show what happens when operations overlap: they check the cache and the
extension of an allow without that condition. `PooledOnce` is stated without failed binds: after
one the code puts its handlers on the server twice. `WatchersAreCurrent` and `NewsArrives` except a change
whose operation ended early, until the next re-evaluation. `OnlyVerifiedServe`,
`NoDeadReference` and `GraceCoversOffline` are about the unique port: with a dedicated
port the code hands sockets out before their handshake and may strip them in use.
PublicTunnel is about the unique port for the same reason: a session that took a socket
before its handshake would read the handshake as a frame, and `RepliesInOrder` would fail
with nothing in the documents to hold it against. `ClosedTunnelIsSilent` lets a pair outlive
the removal of its client when one of its sides has ended already: such a pair is out of
`activePairs`, and its other side ends with its peer.

## The proofs

For any finite set of connections and any positive limit (the ASSUMEs of TunnelAgent):

* `Invariance` - the inductive invariant `IInv` of the agent. The invariants the runs check
  are not inductive: exclusive use needs to know that a fresh name is in no set and that
  what is pooled or used is in `allSockets` or has lost its listeners; the limit needs that
  a live verified socket is one of those the limit counts; both need what the timers and
  the listeners say about a socket that waits for its handshake. One lemma per action
  shows that `IInv` is kept.
* From it `TypeCorrect` (and, with the grace timer, `ClientTypeCorrect`), `PoolExclusive`,
  `LimitHolds`, `HandshakeFirst`, `NoStaleSocket`, and `RefusalIsJustified` as an action property
  (unique port). `HandshakeFirst` rests on `TokenlessNeverVerified` too: where no authentication is
  required no token is issued (`index.ts:190`), the handshake that shows none is refused by the
  parser (`lib/TunnelAgent.js:55`), and so nothing ever serves such a client.
* `AgentImplementsPool` - the agent refines SocketPool, step by step, under the mapping of
  the module.
* ClientProofs: a client's behaviour is one of its agent (`ClientRefinesAgent`), so all of
  the above holds of it (`ClientKeepsAgentSafe`, `ClientImplementsPool`); the grace timer
  covers absence (`AbsenceIsNoticed`, unique port) and never runs while somebody is connected (`PresenceIsNoticed`).

For any sets of ids, kinds and ports, any finite set of creations and any number of failed
binds (the ASSUMEs of ClientManager):

* `ManagerInvariance` - the inductive invariant `MInv`: the table and the clients that are
  not closed determine each other, and the public server of a client that is not closed
  follows its creation. `NoLeakedClient` alone is not inductive: a
  removal closes the clients it takes out of the table, and only `TableIsLive` says that
  each of them stands there under its own id, so that no other entry still names it.
* From it `ManagerTypeCorrect`, `NoClientIsLeaked`, `FailureIsClean`, `AnnouncedIsPublished`.
* `OnePlacePerConnection` - while no bind failed, the shared server has the handlers of the
  one attempt to start it (`OneAttempt`), however many creations found it not started.

For any sets of ids and streams, any filters and any number of changes (TunnelServer):

* `ServerInvariance` - the invariant `SInv` is the manager's `MInv`, which revocation must
  keep although it removes clients from outside the manager, what the streams know, and that
  the filters are sorted rules (`FiltersInv`).
  `PendingIsWatched` and `WatchersAreCurrent` are not inductive without `ToldIsWatched`: a
  stream that joins is told everything, and nothing may be left of an id it does not watch.
  Of a verdict these use only that it is a function of the filters.
* `SortIsStable` - what `_sortCache` returns is a permutation of the filters by descending
  priority, equal ones in their old order. The proof counts: the places of the filters are
  distinct numbers in 1..n, so each is taken once.
* From these `ServerTypeCorrect` and `PriorityDecides`: the first match of a sorted list has
  the highest priority among the matches.
* From the invariant also `StreamsAreCounted`, `StreamsAreCurrent`, `RevocationLeaksNoClient`, and
  `RevocationIsHeardCut` as an action property.

For any set of filters, any number of operations in flight, any clock and delay, any number
of requests, failed queries and crashes (FilterStore):

* `StoreInvariance` - the invariant `FInv`: before the cache is loaded nothing runs and nothing
  is armed, and in memory nothing ever waits (`Booting`); while `clean`, `CleanInv`. What the
  runs check of cache and timers is said of moments at which nothing is in flight. In
  between, the invariant says which filter the one operation is about and what its next step
  will find (`TaskRight`): the answer it applies is the collection, a flip finds an allow
  whose date has come, a create or an update writes no date on a deny. Every other filter
  agrees with the cache and has its timer (`Agree`, `TimersRight`), but for those the start has
  still to look at (`EntriesRight`).
* From it `StoreTypeCorrect` (whatever overlaps), `CacheFollowsDb`, `AllowsAreTimed`, and as
  action properties `FlipsAreDue` and `DatesAreCleared`.

For any number of byte values above two, any set of headers that parse as JSON and any
bytes (UdpFrameCodec):

* `ChunksDoNotMatter` - parsing a stream in two parts, the second behind what the first left
  over, gives the frames and the rest that parsing it whole gives. By induction on the length
  of what is left to parse: a frame that is whole in the first part is the same frame
  with more bytes behind it (`FrameStays`).
* `FramesSurvive` - the parser returns from the frames written one after another those whose
  header is JSON, as they were encoded and in order, and goes on with what follows. It rests
  on `LengthsSurvive`: a length below `Radix * Radix` is read back from its two bytes.

For any sets of tunnel sockets, external connections and sources (PublicTunnel):

* `TunnelInvariance` - the invariant `TInv`. `NoOrphanSocket` speaks of live sockets, but a step
  that ends one needs to know about those that are ending: that no two consumers hold a
  socket until its `close` event, that a closed session has destroyed its socket, that a
  half-closed socket belongs to a pair, that no two sockets share an external connection.
* From it `NothingIsOrphaned`, `SessionsAgree`, `RemovalSilences`, and `ConsumersUsePool`: the
  consumers refine SocketPool, the abstract pool that TunnelAgent refines from its own side
  (`AgentImplementsPool`), so the composition rests on one promise.
* `StreamsInvariance` - the invariant `StreamsInv`: at each moment the buffer of a session and
  the datagrams it has sent are what one parse of all the bytes delivered so far gives, and a
  socket that serves no source has sent nothing. A chunk keeps it by `ChunksDoNotMatter`.
* From it `TunnelTypeCorrect` and `RepliesComeInOrder`: the bytes delivered are some whole
  frames and less than one more (`StreamCut`), the beginning of a frame yields nothing
  (`PartIsKept`), and the whole ones yield what is due of them (`FramesSurvive`). The frames
  the client sends may be any (`ReplyAssumption`), not only those of the run.

*Induction over data.* The induction theorems of the library take the predicate as an operator,
which the provers cannot instantiate. SequenceLemmas states induction with a set instead: a
non-empty set of numbers has a least element (`LeastNat`, from the well-foundedness of `<`), so
a set of numbers with 0 and every successor is `Nat` (`NatInd`), and a set of sequences with
the empty one and every `Append` has them all (`SeqInd`). A recursive function of TLA+ is the
CHOOSE of a function that satisfies its equation, so before `parse` can be unfolded one must
exist: `SolutionExists` builds it from the end of the buffer backwards, and `ParseEquation` is
the equation itself. `FlattenSeq` is unfolded the same way.

Only model-checked: liveness (`UnverifiedIsClosed`, `AbsentClientRemoved`, `ClosedClientLetsGo`,
`CreationAnswered`, `NewsArrives`, `ExpiryHappens`, `IdleSessionEnds`), since liveness under
fairness and ENABLED are out of the prover's reach, and the violations, which are
counterexamples. Every safety property of a passing run is proved.

## Not modelled

* `lib/ApiKeyStore.js`, `lib/ApiKey.js`: each operation is one query over the collection and
  the process keeps nothing of it, so there is nothing two operations could disagree on.
* `lib/mongo.js`: one shared connection promise, reset when it fails; whoever awaits it at the
  start of the server either goes on or ends the process.
* In `index.ts`: the routing of requests by host name, status and key routes, request and
  response bodies. `lib/adminHtml.js` is a static page, `server.js` the older server that
  `bin/server` does not start; `bin/server` and `scripts/` only parse options.
* `ClientManager.close()`, which nothing in the server calls; `waitingCreateConn` and
  `pendingSessions`, which hold nothing between two events because `createConnection` answers
  before it returns.
* Of a tunnel: the delivery to the client of the frame that closes a session (written and
  then the socket is destroyed, so Node may drop it), the errors of a public socket after
  its listen, and TCP and UDP tunnels with a dedicated port. The public server listens when
  PublicTunnel starts; ClientManager has how it comes to.
* Of a TCP pair, the 'error' of a socket apart from the `close` that follows it: they are one step.
* The half-open states of the two pipes of an upgrade: a websocket's socket is either up or
  destroyed.
* Filter patterns and their validation: a pattern is the set of ids it matches. Client ids
  made by the server are fresh ids.

## Plan

What is left, in the order of its worth:

1. Two creations in flight that test the same public port (`lib/ClientManager.js:222`): the model has the race,
   a property needs a document that says who should win.
2. Websockets and pooled sockets that outlive their client (`lib/Client.js:144`), and a request
   that finds no socket (`lib/Client.js:98`): both need the responses of requests in the model of
   the client.
3. TCP and UDP tunnels over a dedicated port, with the handshake among the bytes of a session.
4. A refinement that ties TunnelSockets to Client: that the sockets a public tunnel sees are those
   of a client of the unique port whose handshake was verified. Today the two meet in SocketPool.
5. Start of the server (`lib/mongo.js`, `ready()`) and the shutdown, if `ClientManager.close()`
   gets a caller.
