---------------------------- MODULE TunnelAgent ----------------------------
(***************************************************************************)
(* The pool of tunnel sockets of one client: lib/TunnelAgent.js, fed       *)
(* either by the agent's own server (dedicated port) or by the server all  *)
(* clients share (unique port, ClientManager.listen), and drained by its   *)
(* consumers: HTTP requests (through Node's http.Agent, which the class    *)
(* extends) and pipes (websocket upgrades, external TCP connections, UDP   *)
(* sessions), which keep a socket until it closes.                         *)
(*                                                                         *)
(* A member of Socket is a connection that this client's tunnel may use.   *)
(* Once it is closed and nothing refers to it any more, its name stands    *)
(* for a new connection.  waitingCreateConn is left out: nothing ever      *)
(* pushes to it (the push is commented out), so it is always empty.        *)
(***************************************************************************)
EXTENDS Naturals, FiniteSets, Sequences, SequencesExt

CONSTANTS
    Socket,       \* the connections opened towards this client's tunnel
    MaxSockets,   \* maxTcpSockets of this client
    UniquePort,   \* TRUE: one port for all clients; FALSE: a port per client
    AuthMode      \* the values authRequired may have

ASSUME SocketAssumption == IsFiniteSet(Socket)
ASSUME MaxSocketsAssumption == MaxSockets \in Nat \ {0}
ASSUME ModeAssumption == UniquePort \in BOOLEAN /\ AuthMode \subseteq BOOLEAN

VARIABLES
    tcp,              \* "destroyed": destroy() is done, 'close' not yet emitted
    handshake,        \* what the server made of the first chunk
    hsTimer,          \* the handshake timeout is armed
    killTimer,        \* detroyAfterDelay is armed
    watched,          \* the listeners put on by onConnection are still there
    allSockets,
    availableSockets,
    use,              \* what a handed-out socket serves
    registered,       \* the manager knows the client; its agent is not destroyed
    closed,           \* the agent's own server has emitted 'close'
    token             \* the client got a token when it registered

vars == <<tcp, handshake, hsTimer, killTimer, watched, allSockets,
          availableSockets, use, registered, closed, token>>

timers == <<hsTimer, killTimer>>
pool == <<watched, allSockets, availableSockets>>

Chunk == {"valid", "wrongToken", "unknownClient", "inherited", "malformed"}

TypeOK ==
    /\ tcp \in [Socket -> {"closed", "open", "destroyed"}]
    /\ handshake \in [Socket -> {"none", "awaited", "verified", "refused", "overLimit"}]
    /\ hsTimer \in [Socket -> BOOLEAN]
    /\ killTimer \in [Socket -> BOOLEAN]
    /\ watched \in [Socket -> BOOLEAN]
    /\ allSockets \in SUBSET Socket
    /\ availableSockets \in Seq(Socket)
    /\ use \in [Socket -> {"none", "upgrade", "external", "request", "kept"}]
    /\ registered \in BOOLEAN
    /\ closed \in BOOLEAN
    /\ token \in BOOLEAN

Init ==
    /\ tcp = [s \in Socket |-> "closed"]
    /\ handshake = [s \in Socket |-> "none"]
    /\ hsTimer = [s \in Socket |-> FALSE]
    /\ killTimer = [s \in Socket |-> FALSE]
    /\ watched = [s \in Socket |-> FALSE]
    /\ allSockets = {}
    /\ availableSockets = << >>
    /\ use = [s \in Socket |-> "none"]
    /\ registered = TRUE
    /\ closed = FALSE
    /\ token \in AuthMode

-----------------------------------------------------------------------------
(* Helpers of the agent *)

Pooled(s) == \E i \in 1..Len(availableSockets) : availableSockets[i] = s

\* getConnectedSockets counts these
Connected == {s \in allSockets : tcp[s] = "open"}

\* Mutants: a limit one too high, one that counts what is closing, no limit
authorizeOneMore == Cardinality(Connected) <= MaxSockets
authorizeCountingAll == Cardinality(allSockets) < MaxSockets
authorizeAlways == TRUE

authorizeNewSocketConnection == Cardinality(Connected) < MaxSockets

\* Mutant: a handshake needs no token when none was issued
verifyHandshakeTokenless(chunk) == chunk = "valid"

\* A token that is undefined matches no handshake: the parser wants a truthy one
verifyHandshake(chunk) == chunk = "valid" /\ token

\* Mutant: the 'close' listener is forgotten
onConnectionDeaf(s) ==
    /\ allSockets' = allSockets \cup {s}
    /\ availableSockets' = Append(availableSockets, s)
    /\ UNCHANGED watched

onConnection(s) ==
    /\ allSockets' = allSockets \cup {s}
    /\ availableSockets' = Append(availableSockets, s)
    /\ watched' = [watched EXCEPT ![s] = TRUE]

\* The name of a connection that is over and that nothing refers to
Fresh(s) ==
    /\ tcp[s] = "closed" /\ use[s] = "none"
    /\ ~hsTimer[s] /\ ~killTimer[s]
    /\ s \notin allSockets /\ ~Pooled(s)

\* Mutant: the socket is stripped and left open
StripOnly(s) ==
    /\ watched' = [watched EXCEPT ![s] = FALSE]
    /\ UNCHANGED killTimer

\* socket.removeAllListeners() and detroyAfterDelay(socket)
StripAndKill(s) ==
    /\ watched' = [watched EXCEPT ![s] = FALSE]
    /\ killTimer' = [killTimer EXCEPT ![s] = TRUE]

destroySocket(s) ==
    tcp' = [tcp EXCEPT ![s] = IF @ = "open" THEN "destroyed" ELSE @]

-----------------------------------------------------------------------------
(* Connections and handshakes, dedicated port *)

\* The socket joins the pool at once, before its handshake is read
AcceptOwn(s) ==
    /\ ~UniquePort /\ registered /\ Fresh(s)
    /\ tcp' = [tcp EXCEPT ![s] = "open"]
    /\ handshake' = [handshake EXCEPT ![s] = "awaited"]
    /\ hsTimer' = [hsTimer EXCEPT ![s] = TRUE]
    /\ onConnection(s)
    /\ UNCHANGED <<killTimer, use, registered, closed, token>>

\* The limit is tested with the socket itself counted; an over-limit socket
\* keeps its handshake timeout
ReceiveOwn(s, chunk) ==
    /\ ~UniquePort /\ tcp[s] = "open" /\ handshake[s] = "awaited" /\ hsTimer[s]
    /\ IF ~authorizeNewSocketConnection
         THEN /\ handshake' = [handshake EXCEPT ![s] = "overLimit"]
              /\ killTimer' = [killTimer EXCEPT ![s] = TRUE]
              /\ UNCHANGED hsTimer
         ELSE /\ handshake' = [handshake EXCEPT ![s] =
                     IF verifyHandshake(chunk) THEN "verified" ELSE "refused"]
              /\ killTimer' = [killTimer EXCEPT ![s] = ~verifyHandshake(chunk)]
              /\ hsTimer' = [hsTimer EXCEPT ![s] = FALSE]
    /\ UNCHANGED <<tcp, pool, use, registered, closed, token>>

(* Connections and handshakes, unique port *)

\* Mutant: the socket joins the pool at once, as with a dedicated port
AcceptSharedEarly(s) ==
    /\ UniquePort /\ Fresh(s)
    /\ tcp' = [tcp EXCEPT ![s] = "open"]
    /\ handshake' = [handshake EXCEPT ![s] = "awaited"]
    /\ hsTimer' = [hsTimer EXCEPT ![s] = TRUE]
    /\ onConnection(s)
    /\ UNCHANGED <<killTimer, use, registered, closed, token>>

AcceptShared(s) ==
    /\ UniquePort /\ Fresh(s)
    /\ tcp' = [tcp EXCEPT ![s] = "open"]
    /\ handshake' = [handshake EXCEPT ![s] = "awaited"]
    /\ hsTimer' = [hsTimer EXCEPT ![s] = TRUE]
    /\ UNCHANGED <<killTimer, pool, use, registered, closed, token>>

\* The client the chunk names is found in the manager's table. An "inherited" name is
\* that of a member every object has: the lookup finds it, and it is no client
NamesClient(chunk) == chunk \in {"valid", "wrongToken"} /\ registered

\* With an inherited name the handler throws where it asks for the limit (the process
\* logs it and goes on): the socket is left to its handshake timeout
ReceiveShared(s, chunk) ==
    /\ UniquePort /\ tcp[s] = "open" /\ handshake[s] = "awaited" /\ hsTimer[s]
    /\ \/ /\ NamesClient(chunk) /\ ~authorizeNewSocketConnection
          /\ handshake' = [handshake EXCEPT ![s] = "overLimit"]
          /\ killTimer' = [killTimer EXCEPT ![s] = TRUE]
          /\ UNCHANGED <<hsTimer, pool>>
       \/ /\ NamesClient(chunk) /\ authorizeNewSocketConnection
          /\ verifyHandshake(chunk)
          /\ handshake' = [handshake EXCEPT ![s] = "verified"]
          /\ hsTimer' = [hsTimer EXCEPT ![s] = FALSE]
          /\ onConnection(s)
          /\ UNCHANGED killTimer
       \/ /\ chunk = "inherited"
          /\ handshake' = [handshake EXCEPT ![s] = "refused"]
          /\ UNCHANGED <<timers, pool>>
       \/ /\ chunk # "inherited"
          /\ NamesClient(chunk) =>
                authorizeNewSocketConnection /\ ~verifyHandshake(chunk)
          /\ handshake' = [handshake EXCEPT ![s] = "refused"]
          /\ hsTimer' = [hsTimer EXCEPT ![s] = FALSE]
          /\ StripAndKill(s)
          /\ UNCHANGED <<allSockets, availableSockets>>
    /\ UNCHANGED <<tcp, use, registered, closed, token>>

(* The two timers of a socket; they outlive it when it closes first *)

\* Mutant: a verdict the other handlers do not know
HandshakeTimeoutNamed(s) ==
    /\ hsTimer[s]
    /\ hsTimer' = [hsTimer EXCEPT ![s] = FALSE]
    /\ handshake' = [handshake EXCEPT ![s] = "timedOut"]
    /\ StripAndKill(s)
    /\ UNCHANGED <<tcp, allSockets, availableSockets, use, registered, closed, token>>

HandshakeTimeout(s) ==
    /\ hsTimer[s]
    /\ hsTimer' = [hsTimer EXCEPT ![s] = FALSE]
    /\ handshake' = [handshake EXCEPT ![s] = IF @ = "awaited" THEN "refused" ELSE @]
    /\ StripAndKill(s)
    /\ UNCHANGED <<tcp, allSockets, availableSockets, use, registered, closed, token>>

\* It never overtakes the handshake timeout of its socket, armed earlier and
\* not longer
detroyAfterDelay(s) ==
    /\ killTimer[s] /\ ~hsTimer[s]
    /\ killTimer' = [killTimer EXCEPT ![s] = FALSE]
    /\ destroySocket(s)
    /\ UNCHANGED <<handshake, hsTimer, pool, use, registered, closed, token>>

-----------------------------------------------------------------------------
(* The end of a connection *)

\* FIN or reset from the peer: Node destroys the socket
PeerCloses(s) ==
    /\ tcp[s] = "open"
    /\ tcp' = [tcp EXCEPT ![s] = "destroyed"]
    /\ UNCHANGED <<handshake, timers, pool, use, registered, closed, token>>

\* The 'close' event. Without its listeners nobody hears of it: the socket
\* stays in the sets, and its consumer is not told
CloseEvent(s) ==
    /\ tcp[s] = "destroyed"
    /\ tcp' = [tcp EXCEPT ![s] = "closed"]
    /\ handshake' = [handshake EXCEPT ![s] = "none"]
    /\ IF watched[s]
         THEN /\ allSockets' = allSockets \ {s}
              /\ availableSockets' = RemoveFirst(availableSockets, s)
              /\ use' = [use EXCEPT ![s] = "none"]
              /\ watched' = [watched EXCEPT ![s] = FALSE]
         ELSE UNCHANGED <<pool, use>>
    /\ UNCHANGED <<timers, registered, closed, token>>

-----------------------------------------------------------------------------
(* Consumers *)

\* Mutants: the socket is left in the pool, the newest one is taken
createConnectionPeeks(s) ==
    /\ ~closed
    /\ availableSockets # << >>
    /\ s = Head(availableSockets)
    /\ UNCHANGED pool

createConnectionNewest(s) ==
    /\ ~closed
    /\ availableSockets # << >>
    /\ s = Last(availableSockets)
    /\ availableSockets' = Front(availableSockets)
    /\ UNCHANGED <<watched, allSockets>>

\* The socket handed out is the oldest of the pool; with none the caller gets
\* an error at once and nothing changes
createConnection(s) ==
    /\ ~closed
    /\ availableSockets # << >>
    /\ s = Head(availableSockets)
    /\ availableSockets' = Tail(availableSockets)
    /\ UNCHANGED <<watched, allSockets>>

\* A websocket upgrade takes a socket whatever its state; an external TCP
\* connection or a UDP session only one that is not destroyed
OpenPipe(s, kind) ==
    /\ registered
    /\ createConnection(s)
    /\ kind = "external" => tcp[s] = "open"
    /\ use' = [use EXCEPT ![s] = kind]
    /\ UNCHANGED <<tcp, handshake, timers, registered, closed, token>>

\* One of the two sides is gone already: the socket is dropped and destroyed
OpenPipeTooLate(s) ==
    /\ registered
    /\ createConnection(s)
    /\ destroySocket(s)
    /\ UNCHANGED <<handshake, timers, use, registered, closed, token>>

\* http.Agent reuses the socket it kept if that one is alive, forgets it if not
LiveKept == {s \in Socket : use[s] = "kept" /\ tcp[s] = "open"}

ReuseKept(s) ==
    /\ registered /\ s \in LiveKept
    /\ use' = [use EXCEPT ![s] = "request"]
    /\ UNCHANGED <<tcp, handshake, timers, pool, registered, closed, token>>

OpenRequest(s) ==
    /\ registered /\ LiveKept = {}
    /\ createConnection(s)
    /\ use' = [x \in Socket |-> IF x = s THEN "request"
                                ELSE IF use[x] = "kept" THEN "none" ELSE use[x]]
    /\ UNCHANGED <<tcp, handshake, timers, registered, closed, token>>

\* maxFreeSockets is 1: a second idle socket is destroyed, and so is one whose
\* response forbids reuse
RequestDone(s, keepAlive) ==
    /\ use[s] = "request" /\ tcp[s] = "open" /\ watched[s]
    /\ IF keepAlive /\ \A x \in Socket : use[x] # "kept"
         THEN use' = [use EXCEPT ![s] = "kept"] /\ UNCHANGED tcp
         ELSE destroySocket(s) /\ UNCHANGED use
    /\ UNCHANGED <<handshake, timers, pool, registered, closed, token>>

\* Mutant: the socket goes back to the pool instead of being destroyed
ReleaseRepools(s) ==
    /\ use[s] \in {"upgrade", "external", "request"}
    /\ use' = [use EXCEPT ![s] = "none"]
    /\ availableSockets' = Append(availableSockets, s)
    /\ UNCHANGED <<tcp, handshake, timers, watched, allSockets, registered, closed, token>>

\* The external side of a pipe or of a request goes away
Release(s) ==
    /\ use[s] \in {"upgrade", "external", "request"}
    /\ use' = [use EXCEPT ![s] = "none"]
    /\ destroySocket(s)
    /\ UNCHANGED <<handshake, timers, pool, registered, closed, token>>

-----------------------------------------------------------------------------
(* The end of the agent *)

\* Mutant: the sockets in use are left to their peers
closeOnly ==
    /\ registered
    /\ registered' = FALSE
    /\ UNCHANGED <<tcp, handshake, timers, pool, use, closed, token>>

\* Client.close(): the TCP and UDP agents destroy the pairs and sessions they
\* hold, http.Agent.destroy() the sockets of its requests and the one it kept;
\* nobody destroys the sockets of the pool nor those of the upgrades
close ==
    /\ registered
    /\ registered' = FALSE
    /\ tcp' = [s \in Socket |-> IF use[s] \in {"external", "request", "kept"} /\ tcp[s] = "open"
                                THEN "destroyed" ELSE tcp[s]]
    /\ UNCHANGED <<handshake, timers, pool, use, closed, token>>

\* Node's server emits 'close' once it is closed and has no connection left;
\* in unique-port mode the agent's server never listened and has no handler
_onClose ==
    /\ ~UniquePort /\ ~registered /\ ~closed
    /\ \A s \in Socket : tcp[s] = "closed"
    /\ closed' = TRUE
    /\ UNCHANGED <<tcp, handshake, timers, pool, use, registered, token>>

-----------------------------------------------------------------------------
SocketStep(s) ==
    \/ AcceptOwn(s) \/ AcceptShared(s)
    \/ \E chunk \in Chunk : ReceiveOwn(s, chunk) \/ ReceiveShared(s, chunk)
    \/ HandshakeTimeout(s) \/ detroyAfterDelay(s)
    \/ PeerCloses(s) \/ CloseEvent(s)
    \/ \E kind \in {"upgrade", "external"} : OpenPipe(s, kind)
    \/ OpenPipeTooLate(s) \/ ReuseKept(s) \/ OpenRequest(s)
    \/ \E keepAlive \in BOOLEAN : RequestDone(s, keepAlive)
    \/ Release(s)

\* The events the agent emits to its client in a step
online == Connected = {} /\ \E s \in Socket : s \notin allSockets /\ s \in allSockets'

offline ==
    /\ Connected' = {}
    /\ \E s \in Socket : watched[s] /\ tcp[s] = "destroyed" /\ tcp'[s] = "closed"

Next == close \/ _onClose \/ \E s \in Socket : SocketStep(s)

\* Timers fire and Node delivers the 'close' event of a destroyed socket
Fairness ==
    \A s \in Socket : /\ WF_vars(HandshakeTimeout(s))
                      /\ WF_vars(detroyAfterDelay(s))
                      /\ WF_vars(CloseEvent(s))

Spec == Init /\ [][Next]_vars

-----------------------------------------------------------------------------
(* Correctness *)

\* A tunnel socket carries the bytes of one consumer: it is in the pool once at
\* most, and not while it is handed out (createConnection, onConnection)
NoDoubleUse ==
    /\ \A i, j \in 1..Len(availableSockets) :
           availableSockets[i] = availableSockets[j] => i = j
    /\ \A s \in Socket : Pooled(s) => use[s] = "none"

\* No interleaving of handshakes brings a client more authenticated live sockets
\* than its limit (authorizeNewSocketConnection before verifyHandshake)
VerifiedWithinLimit ==
    Cardinality({s \in Socket : tcp[s] = "open" /\ handshake[s] = "verified"}) <= MaxSockets

\* With the unique port a socket enters the pool, and is handed out, only after
\* its own handshake was verified with the client's token (ClientManager.listen): no
\* connection that shows none serves a client that was given none
OnlyVerifiedServe ==
    UniquePort => \A s \in Socket :
        Pooled(s) \/ use[s] # "none" => handshake[s] = "verified" /\ token

\* With the unique port no consumer and no entry of the pool outlives the 'close'
\* event of its socket: whatever comes first, the timers of the handshake never
\* strip the listeners of a socket the agent has taken
NoDeadReference ==
    UniquePort => \A s \in Socket :
        Pooled(s) \/ use[s] # "none" \/ s \in allSockets => tcp[s] # "closed"

\* "should reject connections over the max": a connection is turned away for the
\* limit only when MaxSockets others are connected
RefusedOnlyWhenFull ==
    [][\A s \in Socket :
         handshake[s] = "awaited" /\ handshake'[s] = "overLimit"
           => Cardinality(Connected \ {s}) >= MaxSockets]_vars

\* A connection that never sends a good handshake does not hold its slot for
\* ever: one of the two timers destroys it
UnverifiedIsClosed ==
    \A s \in Socket :
        (tcp[s] = "open" /\ handshake[s] # "verified")
          ~> (tcp[s] # "open" \/ handshake[s] = "verified")

-----------------------------------------------------------------------------
(* The agent implements the pool its consumers rely on *)

Lent == {s \in Socket : use[s] # "none"}
Spent == {s \in allSockets : ~Pooled(s)}

Pool == INSTANCE SocketPool WITH pool <- availableSockets, lent <- Lent, spent <- Spent

\* Sockets are handed out oldest first, the departure of one leaves the others
\* in order, and a socket that left the pool never comes back to it alive
ImplementsPool == Pool!PoolSpec
=============================================================================
