---------------------------- MODULE ClientProofs ----------------------------
(***************************************************************************)
(* The safety of the grace timer, from the invariant of the agent.         *)
(***************************************************************************)
EXTENDS Client, TunnelAgentProofs

\* Every step of a client is a step of its agent, or leaves it alone: what is
\* proved of the agent holds of the client
THEOREM ClientRefinesAgent == ClientSpec => Spec
<1>1. ClientInit => Init
  BY DEF ClientInit
<1>2. [ClientNext]_clientVars => [Next]_vars
  BY DEF ClientNext, clientVars, GraceExpires, removeClient, ServerClosed,
     ClientSocketStep, Next
<1> QED BY <1>1, <1>2, PTL DEF ClientSpec, Spec

\* A socket of the unique port is watched until it leaves allSockets, so only an
\* empty set needs the timer
GraceCoversEmpty == UniquePort /\ registered /\ allSockets = {} => graceTimer

GraceInv ==
    /\ graceTimer \in BOOLEAN
    /\ GraceCoversEmpty
    /\ GraceOnlyWhenOffline

LEMMA InitGraceInv == ClientInit => GraceInv
BY DEF ClientInit, Init, GraceInv, GraceCoversEmpty, GraceOnlyWhenOffline, Connected

\* A socket that becomes connected brings the agent online when it is the first
LEMMA FirstConnectionOnline ==
    ASSUME IInv, NEW s \in Socket, SocketStep(s), Connected = {}, Connected' # {}
    PROVE  online
<1>1. PICK x \in Socket : x \in allSockets' /\ tcp'[x] = "open" /\ x \notin Connected
  <2>1. allSockets' \subseteq allSockets \cup {s}
    BY DEF SocketStep, AcceptOwn, AcceptShared, ReceiveOwn, ReceiveShared,
       HandshakeTimeout, detroyAfterDelay, PeerCloses, CloseEvent, OpenPipe,
       OpenPipeTooLate, ReuseKept, OpenRequest, RequestDone, Release,
       createConnection, onConnection, pool
  <2> QED BY <2>1 DEF Connected, IInv, TypeOK
<1>2. CASE x \notin allSockets
  BY <1>1, <1>2 DEF online
<1>3. CASE x \in allSockets
  <2>1. tcp[x] # "open" /\ tcp'[x] = "open"
    BY <1>1, <1>3 DEF Connected
  <2>2. AcceptOwn(s) \/ AcceptShared(s)
    BY <2>1 DEF SocketStep, ReceiveOwn, ReceiveShared, HandshakeTimeout,
       detroyAfterDelay, PeerCloses, CloseEvent, OpenPipe, OpenPipeTooLate, ReuseKept,
       OpenRequest, RequestDone, Release, destroySocket, IInv, TypeOK
  <2>3. x = s
    BY <2>1, <2>2 DEF AcceptOwn, AcceptShared, IInv, TypeOK
  <2> QED BY <1>3, <2>2, <2>3 DEF AcceptOwn, AcceptShared, Fresh
<1> QED BY <1>2, <1>3

\* The unique port's last socket to leave allSockets is heard: the agent goes offline
LEMMA LastOneOffline ==
    ASSUME IInv, UniquePort, NEW s \in Socket, SocketStep(s),
           allSockets # {}, allSockets' = {}
    PROVE  offline
<1>1. CloseEvent(s)
  BY DEF SocketStep, AcceptOwn, AcceptShared, ReceiveOwn, ReceiveShared,
     HandshakeTimeout, detroyAfterDelay, PeerCloses, OpenPipe, OpenPipeTooLate,
     ReuseKept, OpenRequest, RequestDone, Release, createConnection, onConnection, pool
<1>2. watched[s]
  BY <1>1 DEF CloseEvent, pool
<1>3. Connected' = {}
  BY DEF Connected
<1> QED BY <1>1, <1>2, <1>3 DEF offline, CloseEvent, IInv, TypeOK

LEMMA StepGraceInv == IInv /\ IInv' /\ GraceInv /\ [ClientNext]_clientVars => GraceInv'
<1> SUFFICES ASSUME IInv, IInv', GraceInv, [ClientNext]_clientVars PROVE GraceInv'
  OBVIOUS
<1>1. CASE GraceExpires \/ removeClient
  <2>1. graceTimer' = FALSE /\ ~registered'
    BY <1>1 DEF GraceExpires, removeClient, close, vars, IInv, TypeOK
  <2> QED BY <2>1 DEF GraceInv, GraceCoversEmpty, GraceOnlyWhenOffline
<1>2. CASE ServerClosed \/ UNCHANGED clientVars
  <2>1. UNCHANGED <<tcp, allSockets, registered, graceTimer>>
    BY <1>2 DEF ServerClosed, _onClose, pool, clientVars, vars
  <2> QED BY <2>1 DEF GraceInv, GraceCoversEmpty, GraceOnlyWhenOffline, Connected
<1>3. ASSUME NEW s \in Socket, ClientSocketStep(s) PROVE GraceInv'
  <2>1. SocketStep(s) /\ graceTimer' = (offline \/ (graceTimer /\ ~online))
    BY <1>3 DEF ClientSocketStep, GraceHandlers
  <2>2. registered' = registered
    BY <2>1 DEF SocketStep, AcceptOwn, AcceptShared, ReceiveOwn, ReceiveShared,
       HandshakeTimeout, detroyAfterDelay, PeerCloses, CloseEvent, OpenPipe,
       OpenPipeTooLate, ReuseKept, OpenRequest, RequestDone, Release
  <2>3. graceTimer' \in BOOLEAN
    BY <2>1 DEF offline, online
  <2>4. GraceOnlyWhenOffline'
    <3>1. CASE offline
      BY <3>1 DEF offline, GraceOnlyWhenOffline
    <3>2. CASE ~offline
      <4>1. graceTimer' => graceTimer /\ ~online
        BY <2>1, <3>2
      <4> QED BY <4>1, <2>1, FirstConnectionOnline DEF GraceInv, GraceOnlyWhenOffline
    <3> QED BY <3>1, <3>2
  <2>5. GraceCoversEmpty'
    <3> SUFFICES ASSUME UniquePort, registered, allSockets' = {} PROVE graceTimer'
      BY <2>2 DEF GraceCoversEmpty
    <3>1. CASE allSockets = {}
      <4>1. graceTimer /\ ~online
        BY <3>1 DEF GraceInv, GraceCoversEmpty, online
      <4> QED BY <4>1, <2>1
    <3>2. CASE allSockets # {}
      BY <3>2, <2>1, LastOneOffline
    <3> QED BY <3>1, <3>2
  <2> QED BY <2>3, <2>4, <2>5 DEF GraceInv
<1> QED BY <1>1, <1>2, <1>3 DEF ClientNext

-----------------------------------------------------------------------------

\* The agent's invariant and the grace timer's hold in every state of a client
THEOREM ClientInvariance == ClientSpec => [](IInv /\ GraceInv)
<1>1. ClientSpec => []IInv
  BY ClientRefinesAgent, Invariance, PTL
<1>2. ClientInit => GraceInv
  BY InitGraceInv
<1>3. IInv /\ IInv' /\ GraceInv /\ [ClientNext]_clientVars => GraceInv'
  BY StepGraceInv
<1> QED BY <1>1, <1>2, <1>3, PTL DEF ClientSpec

\* The sockets of a client, its pool, their timers and its grace timer hold the kind
\* of values they are for
THEOREM ClientTypeCorrect == ClientSpec => []ClientTypeOK
<1>1. IInv /\ GraceInv => ClientTypeOK
  BY DEF IInv, GraceInv, ClientTypeOK
<1> QED BY <1>1, ClientInvariance, PTL

\* With the unique port a client nobody is connected to is never forgotten: the
\* timer that removes it runs, or a 'close' that starts it is on its way
THEOREM AbsenceIsNoticed == ClientSpec => []GraceCoversOffline
<1>1. IInv /\ GraceInv => GraceCoversOffline
  <2> SUFFICES ASSUME IInv, GraceInv, UniquePort, registered, Connected = {},
                      allSockets # {}
               PROVE  ClosePending
    BY DEF GraceInv, GraceCoversEmpty, GraceCoversOffline
  <2>1. PICK s \in allSockets : TRUE
    OBVIOUS
  <2>2. tcp[s] = "destroyed" /\ watched[s]
    BY <2>1 DEF IInv, Taken, TypeOK, Connected
  <2> QED BY <2>1, <2>2 DEF ClosePending
<1> QED BY <1>1, ClientInvariance, PTL

\* A client somebody is connected to is not about to be removed for its absence
THEOREM PresenceIsNoticed == ClientSpec => []GraceOnlyWhenOffline
<1>1. GraceInv => GraceOnlyWhenOffline
  BY DEF GraceInv
<1> QED BY <1>1, ClientInvariance, PTL

\* What the consumers of a client's agent rely on, with the client around it: no socket
\* serves twice, the limit holds, and in the unique port only live verified sockets serve
THEOREM ClientKeepsAgentSafe ==
    ClientSpec => [](NoDoubleUse /\ VerifiedWithinLimit /\ OnlyVerifiedServe /\ NoDeadReference)
BY ClientRefinesAgent, PoolExclusive, LimitHolds, HandshakeFirst, NoStaleSocket, PTL

\* The grace timer and the removal of the client leave the pool's promise alone: oldest
\* first, each socket lent to one consumer
THEOREM ClientImplementsPool == ClientSpec => ImplementsPool
BY ClientRefinesAgent, AgentImplementsPool, PTL
=============================================================================
