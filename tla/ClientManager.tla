--------------------------- MODULE ClientManager ---------------------------
(***************************************************************************)
(* The table of clients and the creation of tunnels: lib/ClientManager.js, *)
(* with what it asks of TunnelAgent.listen, of the listen and destroy of   *)
(* TcpTunnelAgent and UdpTunnelAgent, and of Client.close.                 *)
(*                                                                         *)
(* A creation registers its client at once, then waits for the tunnel      *)
(* server (its own, or the shared one, which the first creation starts)    *)
(* and, for a TCP or UDP tunnel, for its public server.  Every await is a  *)
(* point where other requests run: two requests of one pipelined batch do  *)
(* interleave there, and the client may be removed meanwhile.              *)
(*                                                                         *)
(* Left out: ClientManager.close(), which nothing in the server calls.     *)
(***************************************************************************)
EXTENDS Integers, FiniteSets

CONSTANTS
    Id,           \* tunnel ids
    Creation,     \* the calls of newClient that register a client; each makes one
    Nobody,       \* no client
    Kind,         \* the types of tunnel asked for
    Port,         \* public ports
    PortMode,     \* the modes the manager may have: TRUE is one server for all clients
    MaxFaults     \* bound on the binds that fail for a reason outside the server

ASSUME CreationAssumption == IsFiniteSet(Creation) /\ Nobody \notin Creation
ASSUME KindAssumption == Kind \subseteq {"http", "tcp", "udp"}
ASSUME PortAssumption == Port \subseteq Nat \ {0}
ASSUME FaultAssumption == MaxFaults \in Nat /\ PortMode \subseteq BOOLEAN

NoPort == 0

VARIABLES
    server,           \* the manager has a server for all clients
    clients,          \* id -> client
    tunnels,          \* stats.tunnels
    serverListening,  \* the promise of the shared server
    handlers,         \* 'connection' handlers put on the shared server
    phase,            \* where newClient is for each creation
    request,          \* its arguments
    closed,           \* Client.close() was called
    publicServer,     \* the public server or UDP socket
    publicPort,       \* the port it is bound to
    pooled,           \* the places a tunnel connection of the client got in its pool
    faults

managerVars == <<server, clients, tunnels, serverListening, handlers, phase, request, closed,
                 publicServer, publicPort, pooled, faults>>

Request == [id : Id, type : Kind, port : Port \cup {NoPort}]

TypeOK ==
    /\ server \in BOOLEAN
    /\ clients \in [Id -> Creation \cup {Nobody}]
    /\ tunnels \in Int
    /\ serverListening \in {"undefined", "pending", "bound"}
    /\ handlers \in Nat
    /\ phase \in [Creation -> {"unused", "listening", "bound", "publishing",
                               "rejected", "created", "failed"}]
    /\ \A c \in Creation : phase[c] # "unused" => request[c] \in Request
    /\ closed \in [Creation -> BOOLEAN]
    /\ publicServer \in [Creation -> {"none", "starting", "up", "closed"}]
    /\ publicPort \in [Creation -> Port \cup {NoPort}]
    /\ pooled \in [Creation -> Nat]
    /\ faults \in 0..MaxFaults

ManagerInit ==
    /\ server \in PortMode
    /\ clients = [id \in Id |-> Nobody]
    /\ tunnels = 0
    /\ serverListening = "undefined"
    /\ handlers = 0
    /\ phase = [c \in Creation |-> "unused"]
    /\ request = [c \in Creation |-> << >>]
    /\ closed = [c \in Creation |-> FALSE]
    /\ publicServer = [c \in Creation |-> "none"]
    /\ publicPort = [c \in Creation |-> NoPort]
    /\ pooled = [c \in Creation |-> 0]
    /\ faults = 0

-----------------------------------------------------------------------------
hasClient(id) == clients[id] # Nobody

Registered == {c \in Creation : \E id \in Id : clients[id] = c}

\* client.publicPort is only set when the creation ends
_isPublicPortInUse(port) ==
    \E c \in Registered : phase[c] = "created" /\ publicPort[c] = port

\* What the system grants: the port asked for, or any, if nobody listens on it.
\* TCP and UDP ports are apart, and a closed UDP socket gets none
Granted(c) ==
    {port \in Port :
        /\ publicServer[c] = "none"
        /\ request[c].port \in {NoPort, port}
        /\ \A x \in Creation :
               publicServer[x] \in {"starting", "up"} /\ request[x].type = request[c].type
                   => publicPort[x] # port}

\* Every client an id of ids names by now leaves the table, and Client.close() is
\* called. A TCP server that is not listening yet ignores it; a UDP socket is gone
\* for good
removeClients(ids) ==
    LET gone == {clients[id] : id \in ids} \ {Nobody}
        Stops(c) == publicServer[c] \in {"starting", "up"} \/ request[c].type = "udp"
    IN  /\ tunnels' = tunnels - Cardinality(gone)
        /\ clients' = [id \in Id |-> IF id \in ids THEN Nobody ELSE clients[id]]
        /\ closed' = [c \in Creation |-> closed[c] \/ c \in gone]
        /\ publicServer' = [c \in Creation |->
               IF c \in gone /\ Stops(c) THEN "closed" ELSE publicServer[c]]
        /\ UNCHANGED <<publicPort, pooled>>

\* Mutant: the client leaves the table and is not closed
forgetClient(id) ==
    /\ tunnels' = tunnels - 1
    /\ clients' = [clients EXCEPT ![id] = Nobody]
    /\ UNCHANGED <<closed, publicServer, publicPort, pooled>>

removeClient(id) == removeClients({id})

\* Mutant: a state nobody tests for
listenNamed ==
    /\ serverListening' = "starting"
    /\ handlers' = handlers + 1

\* A failed attempt leaves its handlers on the server, the next adds its own
listen ==
    /\ serverListening' = "pending"
    /\ handlers' = handlers + 1

\* Mutant: the port is waited for, not the promise
mustListenUntilBound == server /\ serverListening # "bound"

mustListen == server /\ serverListening = "undefined"

-----------------------------------------------------------------------------
(* A creation, from one await to the next *)

newClient(c, id, type, port) ==
    /\ phase[c] = "unused" /\ ~hasClient(id)
    /\ type = "http" => port = NoPort
    /\ port # NoPort => ~_isPublicPortInUse(port)
    /\ clients' = [clients EXCEPT ![id] = c]
    /\ request' = [request EXCEPT ![c] = [id |-> id, type |-> type, port |-> port]]
    /\ phase' = [phase EXCEPT ![c] =
           IF server /\ serverListening = "bound" THEN "bound" ELSE "listening"]
    /\ IF mustListen
         THEN listen ELSE UNCHANGED <<serverListening, handlers>>
    /\ UNCHANGED <<server, tunnels, closed, publicServer, publicPort, pooled, faults>>

Outcome(ok) == faults' = IF ok THEN faults ELSE faults + 1

\* Mutant: an error of the bind rejects nothing
SharedServerSettlesSilently(ok) ==
    /\ server /\ serverListening = "pending"
    /\ ok \/ faults < MaxFaults
    /\ Outcome(ok)
    /\ serverListening' = IF ok THEN "bound" ELSE "undefined"
    /\ phase' = [c \in Creation |->
           IF ok /\ phase[c] = "listening" THEN "bound" ELSE phase[c]]
    /\ UNCHANGED <<server, clients, tunnels, handlers, request, closed,
                   publicServer, publicPort, pooled>>

\* Every creation that awaits the promise of the shared server learns its outcome
SharedServerSettles(ok) ==
    /\ server /\ serverListening = "pending"
    /\ ok \/ faults < MaxFaults
    /\ Outcome(ok)
    /\ serverListening' = IF ok THEN "bound" ELSE "undefined"
    /\ phase' = [c \in Creation |->
           IF phase[c] = "listening" THEN (IF ok THEN "bound" ELSE "rejected") ELSE phase[c]]
    /\ UNCHANGED <<server, clients, tunnels, handlers, request, closed,
                   publicServer, publicPort, pooled>>

\* A server closed before its 'listening' event does not emit it any more
OwnServerSettles(c, ok) ==
    /\ ~server /\ phase[c] = "listening" /\ ~closed[c]
    /\ ok \/ faults < MaxFaults
    /\ Outcome(ok)
    /\ phase' = [phase EXCEPT ![c] = IF ok THEN "bound" ELSE "rejected"]
    /\ UNCHANGED <<server, clients, tunnels, serverListening, handlers, request, closed,
                   publicServer, publicPort, pooled>>

\* A bind error that is on its way still arrives when the server was closed meanwhile
OwnServerFailsLate(c) ==
    /\ ~server /\ phase[c] = "listening" /\ closed[c]
    /\ faults < MaxFaults
    /\ Outcome(FALSE)
    /\ phase' = [phase EXCEPT ![c] = "rejected"]
    /\ UNCHANGED <<server, clients, tunnels, serverListening, handlers, request, closed,
                   publicServer, publicPort, pooled>>

Created(c) ==
    /\ phase' = [phase EXCEPT ![c] = "created"]
    /\ tunnels' = tunnels + 1

\* Mutant: a TCP or UDP tunnel is announced before its public server listens
AnyCreated(c) ==
    /\ phase[c] = "bound"
    /\ Created(c)
    /\ UNCHANGED <<server, clients, serverListening, handlers, request, closed,
                   publicServer, publicPort, pooled, faults>>

HttpCreated(c) ==
    /\ phase[c] = "bound" /\ request[c].type = "http"
    /\ Created(c)
    /\ UNCHANGED <<server, clients, serverListening, handlers, request, closed,
                   publicServer, publicPort, pooled, faults>>

\* The listen of the public server, and the outcome of its bind
Bind(c, port) ==
    /\ phase[c] = "bound" /\ request[c].type # "http"
    /\ port \in Granted(c)
    /\ publicServer' = [publicServer EXCEPT ![c] = "starting"]
    /\ publicPort' = [publicPort EXCEPT ![c] = port]
    /\ phase' = [phase EXCEPT ![c] = "publishing"]
    /\ UNCHANGED <<server, clients, tunnels, serverListening, handlers, request, closed,
                   pooled, faults>>

BindFails(c) ==
    /\ phase[c] = "bound" /\ request[c].type # "http"
    /\ Granted(c) = {} \/ faults < MaxFaults
    /\ Outcome(Granted(c) = {})
    /\ phase' = [phase EXCEPT ![c] = "rejected"]
    /\ UNCHANGED <<server, clients, tunnels, serverListening, handlers, request, closed,
                   publicServer, publicPort, pooled>>

PublicCreated(c) ==
    /\ phase[c] = "publishing" /\ publicServer[c] = "starting"
    /\ publicServer' = [publicServer EXCEPT ![c] = "up"]
    /\ Created(c)
    /\ UNCHANGED <<server, clients, serverListening, handlers, request, closed,
                   publicPort, pooled, faults>>

\* Mutant: the failure is only reported
CreationFailsQuietly(c) ==
    /\ phase[c] = "rejected"
    /\ phase' = [phase EXCEPT ![c] = "failed"]
    /\ UNCHANGED <<server, clients, tunnels, serverListening, handlers, request, closed,
                   publicServer, publicPort, pooled, faults>>

\* The catch of a creation removes whatever client has its id by now
CreationFails(c) ==
    /\ phase[c] = "rejected"
    /\ phase' = [phase EXCEPT ![c] = "failed"]
    /\ removeClient(request[c].id)
    /\ UNCHANGED <<server, serverListening, handlers, request, faults>>

-----------------------------------------------------------------------------
(* The life of a client *)

\* Its grace period is over, or the server revokes it
ClientRemoved(id) ==
    /\ hasClient(id)
    /\ removeClient(id)
    /\ UNCHANGED <<server, serverListening, handlers, phase, request, faults>>

\* A tunnel connection with a good handshake: every handler takes it to the agent
TunnelConnects(id) ==
    /\ server /\ serverListening = "bound" /\ hasClient(id)
    /\ pooled[clients[id]] = 0
    /\ pooled' = [pooled EXCEPT ![clients[id]] = handlers]
    /\ UNCHANGED <<server, clients, tunnels, serverListening, handlers, phase, request, closed,
                   publicServer, publicPort, faults>>

-----------------------------------------------------------------------------
CreationStep(c) ==
    \/ \E ok \in BOOLEAN : OwnServerSettles(c, ok)
    \/ HttpCreated(c)
    \/ \E port \in Port : Bind(c, port)
    \/ BindFails(c) \/ PublicCreated(c) \/ CreationFails(c)

ServerSettles == \E ok \in BOOLEAN : SharedServerSettles(ok)

NewClient ==
    \E c \in Creation, id \in Id, type \in Kind, port \in Port \cup {NoPort} :
        newClient(c, id, type, port)

ManagerNext ==
    \/ NewClient
    \/ ServerSettles
    \/ \E c \in Creation : CreationStep(c) \/ OwnServerFailsLate(c)
    \/ \E id \in Id : ClientRemoved(id) \/ TunnelConnects(id)

\* Node settles the promise of a bind and resumes who awaits it
ManagerFairness ==
    /\ WF_managerVars(ServerSettles)
    /\ \A c \in Creation : WF_managerVars(CreationStep(c))

ManagerSpec == ManagerInit /\ [][ManagerNext]_managerVars
FairManagerSpec == ManagerSpec /\ ManagerFairness

-----------------------------------------------------------------------------
(* Correctness *)

\* No client is lost: one that is not closed is the one its id names, so whatever
\* removes the id closes it (newClient, removeClient)
NoLeakedClient ==
    \A c \in Creation : phase[c] # "unused" /\ ~closed[c] => clients[request[c].id] = c

\* A caller that is told its tunnel could not be created has no client left behind
FailedLeavesNothing == \A c \in Creation : phase[c] = "failed" => closed[c]

\* Concurrent creations start the shared server once: unless a bind failed, a
\* tunnel connection gets one place in the pool of its client
PooledOnce == faults = 0 => \A c \in Creation : pooled[c] <= 1

\* A registered client whose creation succeeded has its public server, whatever was
\* removed, failed or retried around it
TunnelIsPublished ==
    \A c \in Registered : phase[c] = "created" /\ request[c].type # "http"
        => publicServer[c] = "up"

\* Every creation is answered, unless its client is removed while it waits
CreationAnswered ==
    \A c \in Creation :
        phase[c] = "listening" ~> (phase[c] \in {"created", "failed"} \/ closed[c])

\* "should construct with no tunnels": with no client and no creation under way
\* stats.tunnels is 0
StatsCountTunnels ==
    ( /\ Registered = {}
      /\ \A c \in Creation : phase[c] \in {"unused", "created", "failed"} ) => tunnels = 0
=============================================================================
