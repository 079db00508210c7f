---------------------------- MODULE PublicTunnel ----------------------------
(***************************************************************************)
(* A TCP or a UDP tunnel from its announcement to the end of its sockets:  *)
(* the tunnel sockets, the agent of its type, the websockets that upgrade  *)
(* on its host name, and the removal of its client (unique port).          *)
(***************************************************************************)
EXTENDS TcpTunnelAgent, UdpTunnelAgent, FiniteSets

VARIABLE type       \* of the client: "tcp" or "udp"

tunnelVars == <<socketVars, pairVars, sessionVars, type>>

TunnelTypeOK ==
    /\ SocketsTypeOK /\ PairsTypeOK /\ SessionsTypeOK /\ StreamsTypeOK
    /\ type \in {"tcp", "udp"}

TunnelInit ==
    /\ SocketsInit /\ PairsInit /\ SessionsInit
    /\ type \in {"tcp", "udp"}

-----------------------------------------------------------------------------
SocketOnly(s) == SocketStep(s) /\ UNCHANGED <<pairVars, sessionVars, type>>

PairOnly ==
    /\ \/ type = "tcp" /\ \E x \in External : ExternalConnects(x)
       \/ \E x \in External : ExternalStep(x)
       \/ \E s \in Socket : TunnelEnds(s) \/ TunnelFinishes(s)
    /\ UNCHANGED <<sessionVars, type>>

SessionOnly ==
    /\ \/ type = "udp" /\ \E k \in Source : ForwardDatagram(k) \/ NewSession(k)
       \/ \E s \in Socket : SessionStep(s)
    /\ UNCHANGED <<pairVars, type>>

\* Everyone who listens to a tunnel socket hears its 'close' event
SocketCloses(s) ==
    /\ CloseEvent(s) /\ PairHearsClose(s) /\ SessionHearsClose(s)
    /\ UNCHANGED type

\* Client.close(): the agent of the tunnel is destroyed, its pairs and sessions
\* with it; the sockets of the pool and of the upgrades are left alone
close ==
    /\ registered
    /\ registered' = FALSE
    /\ destroyPairs /\ destroySessions
    /\ tcp' = Destroyed(activePairs \cup Mapped)
    /\ UNCHANGED <<availableSockets, upgrades, type>>

TunnelNext ==
    \/ PairOnly \/ SessionOnly \/ close
    \/ \E s \in Socket : SocketOnly(s) \/ SocketCloses(s)

TunnelSpec == TunnelInit /\ [][TunnelNext]_tunnelVars

\* The timers of the sessions fire; nothing is asked of the peers
SessionTimers ==
    \A s \in Socket :
        /\ WF_tunnelVars(IdlePasses(s) /\ UNCHANGED <<pairVars, type>>)
        /\ WF_tunnelVars(SessionTimeout(s) /\ UNCHANGED <<pairVars, type>>)

FairTunnelSpec == TunnelSpec /\ SessionTimers

-----------------------------------------------------------------------------
(* Correctness *)

\* What waits in the pool is there once and serves nobody
PoolIsIdle ==
    /\ \A i, j \in 1..Len(availableSockets) :
           availableSockets[i] = availableSockets[j] => i = j
    /\ \A s \in Socket : Pooled(s) =>
           key[s] = NoSource /\ pairOf[s] = NoExternal /\ s \notin upgrades

\* A live socket out of the pool serves one session, one pair or one websocket:
\* whatever ends its consumer ends it too, and nothing takes it twice
OneConsumer ==
    \A s \in Socket : Live(s) /\ ~Pooled(s) =>
        \/ s \in Serving /\ s \notin Paired /\ s \notin upgrades
        \/ s \in Paired /\ key[s] = NoSource /\ s \notin upgrades
        \/ s \in upgrades /\ key[s] = NoSource /\ s \notin Paired

\* An open external connection has one tunnel socket, a pair with both sides
\* open is in activePairs, and a pair there has not lost a side
PairsAreTracked ==
    /\ \A x \in External : external[x] = "open" => \E s \in Socket : TunnelOf(x) = {s}
    /\ \A s \in Paired :
           tcp[s] = "open" /\ external[pairOf[s]] = "open" => s \in activePairs
    /\ \A s \in activePairs :
           s \in Paired /\ tcp[s] # "closed" /\ external[pairOf[s]] # "closed"
    /\ \A s \in Paired : external[pairOf[s]] = "closed" => tcp[s] # "open"

\* No socket of a tunnel, tunnel side or public side, is left without the one
\* consumer that will end it, in whatever order the two sides, the timers and
\* the removal of the client come
NoOrphanSocket == PoolIsIdle /\ OneConsumer /\ PairsAreTracked

\* sessions names the session of each source that is not closed, its timer runs,
\* and its socket carries the datagrams of that source only: the late end of an
\* older session of the same source takes nothing from the newer one
SessionIsCurrent ==
    /\ \A k \in Source, s \in Socket : sessions[k] = s <=> s \in Serving /\ key[s] = k
    /\ \A s \in Socket : timer[s] # "off" <=> s \in Serving
    /\ \A s \in Socket : forwarded[s] \subseteq {key[s]}

\* How many bytes the client has sent on s and the server has read
DeliveredBytes(s) == Len(Stream(sent[s])) - Len(toServer[s])

\* What the source is to get of frames: the payloads of the well-formed DATA frames
Due(frames) ==
    FlattenSeq([i \in 1..Len(frames) |->
        IF frames[i].type = FRAME_DATA /\ frames[i].header \in Json
          THEN << frames[i].payload >> ELSE << >>])

\* However the stream of a session is cut into chunks, its source has got what is due
\* of the frames that have come in whole, once each, in order (createFrameParser,
\* 'data' handler)
RepliesInOrder ==
    \A s \in Serving : \E n \in 0..Len(sent[s]) :
        LET whole == SubSeq(sent[s], 1, n) IN
        /\ Len(Stream(whole)) <= DeliveredBytes(s)
        /\ n < Len(sent[s]) =>
               DeliveredBytes(s) < Len(Stream(SubSeq(sent[s], 1, n + 1)))
        /\ replies[s] = Due(whole)

\* Once its client is closed a tunnel serves nobody new: no session, so that
\* nothing is sent on the closed public socket, and no pair but one of which a
\* side has ended already
ClosedTunnelIsSilent ==
    ~registered =>
        /\ Serving = {} /\ activePairs = {}
        /\ \A s \in Paired : tcp[s] # "open" \/ external[pairOf[s]] # "open"

\* A datagram of its source or data of the client
Traffic(s) ==
    \/ \E k \in Source : sessions[k] = s /\ ForwardDatagram(k)
    \/ \E n \in 1..Len(toServer[s]) : TunnelData(s, n)

\* "Les sessions expirent apres 30 secondes d'inactivite": a session does not
\* stay for ever unless traffic comes for ever
IdleSessionEnds ==
    \A s \in Socket : []<>(s \notin Serving) \/ []<><<Traffic(s)>>_tunnelVars

-----------------------------------------------------------------------------
(* The consumers keep to the pool they are promised *)

Lent == {s \in Socket : key[s] # NoSource} \cup Paired \cup upgrades
Spent == {s \in Socket : tcp[s] # "closed" /\ ~Pooled(s)}

Pool == INSTANCE SocketPool WITH pool <- availableSockets, lent <- Lent, spent <- Spent

\* The oldest socket is taken, by one consumer; what was taken never comes back
\* but as a new connection, which is the pool TunnelAgent implements
UsesPool == Pool!PoolSpec
=============================================================================
