------------------------- MODULE TunnelAgentProofs -------------------------
(***************************************************************************)
(* The safety of TunnelAgent for every set of connections, every limit and *)
(* both modes of the server.                                               *)
(***************************************************************************)
EXTENDS TunnelAgent, SequenceLemmas, FiniteSetTheorems

-----------------------------------------------------------------------------
(* The inductive invariant *)

\* What the pool holds, and what is handed out, is a socket of allSockets
References == \A s \in Socket : Pooled(s) \/ use[s] # "none" => s \in allSockets

\* So is a socket whose handshake is good, and with a dedicated port any socket
\* whose connection has not been seen to end
Admitted ==
    \A s \in Socket :
        handshake[s] = "verified" \/ (~UniquePort /\ handshake[s] # "none")
          => s \in allSockets

\* With the unique port a socket of allSockets has passed its handshake, is out
\* of reach of the handshake timeout, and will be removed when it closes
Taken ==
    UniquePort => \A s \in allSockets :
        handshake[s] = "verified" /\ ~hsTimer[s] /\ watched[s] /\ tcp[s] # "closed"

IInv ==
    /\ TypeOK
    /\ NoDoubleUse
    /\ References
    /\ Admitted
    /\ Taken
    /\ VerifiedWithinLimit

LiveVerified == {s \in Socket : tcp[s] = "open" /\ handshake[s] = "verified"}

LEMMA PooledIsIn == ASSUME NEW s PROVE Pooled(s) <=> In(s, availableSockets)
BY DEF Pooled, In

LEMMA NoDoubleUseIsNoDup ==
    NoDoubleUse <=> /\ NoDup(availableSockets)
                    /\ \A s \in Socket : In(s, availableSockets) => use[s] = "none"
BY DEF NoDoubleUse, NoDup, Pooled, In

\* As long as no socket becomes both alive and verified the limit is kept
LEMMA LimitKept ==
    ASSUME IInv, LiveVerified' \subseteq LiveVerified
    PROVE  VerifiedWithinLimit'
<1>1. IsFiniteSet(LiveVerified) /\ Cardinality(LiveVerified) <= MaxSockets
  <2>1. LiveVerified \in SUBSET Socket BY DEF LiveVerified
  <2> QED BY <2>1, SocketAssumption, FS_Subset DEF IInv, VerifiedWithinLimit, LiveVerified
<1>2. /\ IsFiniteSet(LiveVerified')
      /\ Cardinality(LiveVerified') <= Cardinality(LiveVerified)
  BY <1>1, FS_Subset
<1>3. Cardinality(LiveVerified) \in Nat /\ Cardinality(LiveVerified') \in Nat
  BY <1>1, <1>2, FS_CardinalityType
<1> QED BY <1>1, <1>2, <1>3, MaxSocketsAssumption DEF VerifiedWithinLimit, LiveVerified

\* A socket verified while fewer than MaxSockets are connected keeps the limit
LEMMA LimitKeptByVerdict ==
    ASSUME IInv, authorizeNewSocketConnection, NEW s \in Socket,
           LiveVerified' \subseteq LiveVerified \cup {s}
    PROVE  VerifiedWithinLimit'
<1>1. LiveVerified \subseteq Connected
  BY DEF IInv, Admitted, LiveVerified, Connected
<1>2. IsFiniteSet(Connected)
  <2>1. Connected \in SUBSET Socket BY DEF IInv, TypeOK, Connected
  <2> QED BY <2>1, SocketAssumption, FS_Subset
<1>3. /\ IsFiniteSet(Connected \cup {s})
      /\ Cardinality(Connected \cup {s}) <= Cardinality(Connected) + 1
  <2>1. Cardinality(Connected) \in Nat BY <1>2, FS_CardinalityType
  <2> QED BY <1>2, <2>1, FS_AddElement
<1>4. LiveVerified' \in SUBSET (Connected \cup {s})
  BY <1>1
<1>5. Cardinality(LiveVerified') <= Cardinality(Connected \cup {s})
  BY <1>3, <1>4, FS_Subset
<1>6. /\ Cardinality(Connected) \in Nat /\ Cardinality(Connected \cup {s}) \in Nat
      /\ Cardinality(LiveVerified') \in Nat
  BY <1>2, <1>3, <1>4, FS_Subset, FS_CardinalityType
<1> QED BY <1>3, <1>5, <1>6, MaxSocketsAssumption
        DEF authorizeNewSocketConnection, VerifiedWithinLimit, LiveVerified

LEMMA InitIInv == Init => IInv
<1> SUFFICES ASSUME Init PROVE IInv
  OBVIOUS
<1>1. TypeOK
  <2>1. availableSockets \in Seq(Socket)
    BY EmptySeq DEF Init
  <2> QED BY <2>1, ModeAssumption DEF Init, TypeOK
<1>2. Len(availableSockets) = 0 /\ \A s : ~Pooled(s)
  BY DEF Init, Pooled
<1>3. VerifiedWithinLimit
  <2>1. {s \in Socket : tcp[s] = "open" /\ handshake[s] = "verified"} = {}
    BY DEF Init
  <2> QED BY <2>1, FS_EmptySet, MaxSocketsAssumption DEF VerifiedWithinLimit
<1> QED BY <1>1, <1>2, <1>3 DEF Init, IInv, NoDoubleUse, References, Admitted, Taken

-----------------------------------------------------------------------------
(* Every step keeps the invariant, one lemma per group of actions *)

\* A new connection on the dedicated port joins the pool
LEMMA AcceptOwnIInv == ASSUME IInv, NEW s \in Socket, AcceptOwn(s) PROVE IInv'
<1> USE DEF IInv
<1>0. ~In(s, availableSockets) /\ use[s] = "none" /\ NoDup(availableSockets)
  BY NoDoubleUseIsNoDup, PooledIsIn DEF AcceptOwn, Fresh
<1>1. /\ availableSockets' \in Seq(Socket)
      /\ NoDup(availableSockets')
      /\ \A x : In(x, availableSockets') <=> In(x, availableSockets) \/ x = s
  BY <1>0, AppendNoDup DEF AcceptOwn, onConnection, TypeOK
<1>2. TypeOK'
  BY <1>1 DEF AcceptOwn, onConnection, TypeOK
<1>3. NoDoubleUse'
  BY <1>0, <1>1, NoDoubleUseIsNoDup DEF AcceptOwn, NoDoubleUse, NoDup, Pooled, In
<1>4. References'
  BY <1>1 DEF AcceptOwn, onConnection, References, Pooled, In
<1>5. Admitted' /\ Taken'
  BY DEF AcceptOwn, onConnection, Admitted, Taken, TypeOK
<1>6. VerifiedWithinLimit'
  BY LimitKept DEF AcceptOwn, LiveVerified, TypeOK
<1> QED BY <1>2, <1>3, <1>4, <1>5, <1>6

\* A step that leaves the pool alone and hands nothing out
LEMMA PoolUntouched ==
    ASSUME IInv, UNCHANGED <<allSockets, availableSockets>>,
           \A s \in Socket : use[s] = "none" => use'[s] = "none"
    PROVE  NoDoubleUse' /\ References'
BY DEF IInv, NoDoubleUse, References, Pooled

LEMMA ReceiveOwnIInv ==
    ASSUME IInv, NEW s \in Socket, NEW chunk \in Chunk, ReceiveOwn(s, chunk)
    PROVE  IInv'
<1> USE DEF IInv
<1>1. TypeOK'
  BY DEF ReceiveOwn, verifyHandshake, pool, TypeOK
<1>2. NoDoubleUse' /\ References'
  BY PoolUntouched DEF ReceiveOwn, pool
<1>3. Admitted' /\ Taken'
  BY DEF ReceiveOwn, pool, Admitted, Taken, TypeOK
<1>4. VerifiedWithinLimit'
  <2>1. CASE ~authorizeNewSocketConnection
    BY <2>1, LimitKept DEF ReceiveOwn, LiveVerified, TypeOK
  <2>2. CASE authorizeNewSocketConnection
    BY <2>2, LimitKeptByVerdict DEF ReceiveOwn, LiveVerified, TypeOK
  <2> QED BY <2>1, <2>2
<1> QED BY <1>1, <1>2, <1>3, <1>4

LEMMA AcceptSharedIInv == ASSUME IInv, NEW s \in Socket, AcceptShared(s) PROVE IInv'
<1> USE DEF IInv
<1>1. TypeOK'
  BY DEF AcceptShared, pool, TypeOK
<1>2. NoDoubleUse' /\ References'
  BY PoolUntouched DEF AcceptShared, pool
<1>3. Admitted' /\ Taken'
  BY DEF AcceptShared, Fresh, pool, Admitted, Taken, TypeOK
<1>4. VerifiedWithinLimit'
  BY LimitKept DEF AcceptShared, LiveVerified, TypeOK
<1> QED BY <1>1, <1>2, <1>3, <1>4

\* The socket that awaits its handshake is in no set of the agent yet, so that
\* taking it adds it once, and stripping it strips no pooled socket
LEMMA ReceiveSharedIInv ==
    ASSUME IInv, NEW s \in Socket, NEW chunk \in Chunk, ReceiveShared(s, chunk)
    PROVE  IInv'
<1> USE DEF IInv
<1>0. /\ UniquePort /\ handshake[s] = "awaited" /\ s \notin allSockets
      /\ ~In(s, availableSockets) /\ use[s] = "none" /\ NoDup(availableSockets)
  BY NoDoubleUseIsNoDup, PooledIsIn DEF ReceiveShared, Taken, References
<1>1. CASE /\ NamesClient(chunk) /\ ~authorizeNewSocketConnection
           /\ handshake' = [handshake EXCEPT ![s] = "overLimit"]
           /\ killTimer' = [killTimer EXCEPT ![s] = TRUE]
           /\ UNCHANGED <<hsTimer, pool>>
           /\ UNCHANGED <<tcp, use, registered, closed, token>>
  <2>1. TypeOK'
    BY <1>1 DEF pool, TypeOK
  <2>2. NoDoubleUse' /\ References'
    BY <1>1, PoolUntouched DEF pool
  <2>3. Admitted' /\ Taken'
    BY <1>0, <1>1 DEF pool, Admitted, Taken, TypeOK
  <2>4. VerifiedWithinLimit'
    BY <1>1, LimitKept DEF LiveVerified, TypeOK
  <2> QED BY <2>1, <2>2, <2>3, <2>4
<1>2. CASE /\ authorizeNewSocketConnection
           /\ handshake' = [handshake EXCEPT ![s] = "verified"]
           /\ hsTimer' = [hsTimer EXCEPT ![s] = FALSE]
           /\ onConnection(s)
           /\ UNCHANGED killTimer
           /\ UNCHANGED <<tcp, use, registered, closed, token>>
  <2>0. tcp[s] = "open"
    BY DEF ReceiveShared
  <2>1. /\ availableSockets' \in Seq(Socket)
        /\ NoDup(availableSockets')
        /\ \A x : In(x, availableSockets') <=> In(x, availableSockets) \/ x = s
    BY <1>0, <1>2, AppendNoDup DEF onConnection, TypeOK
  <2>2. TypeOK'
    BY <1>2, <2>1 DEF onConnection, TypeOK
  <2>3. NoDoubleUse'
    BY <1>0, <1>2, <2>1, NoDoubleUseIsNoDup DEF NoDoubleUse, NoDup, Pooled, In
  <2>4. References'
    BY <1>2, <2>1 DEF onConnection, References, Pooled, In
  <2>5. Admitted' /\ Taken'
    BY <1>0, <1>2, <2>0 DEF onConnection, Admitted, Taken, TypeOK
  <2>6. VerifiedWithinLimit'
    BY <1>2, LimitKeptByVerdict DEF LiveVerified, TypeOK
  <2> QED BY <2>2, <2>3, <2>4, <2>5, <2>6
<1>3. CASE /\ handshake' = [handshake EXCEPT ![s] = "refused"]
           /\ hsTimer' = [hsTimer EXCEPT ![s] = FALSE]
           /\ StripAndKill(s)
           /\ UNCHANGED <<allSockets, availableSockets>>
           /\ UNCHANGED <<tcp, use, registered, closed, token>>
  <2>1. TypeOK'
    BY <1>3 DEF StripAndKill, TypeOK
  <2>2. NoDoubleUse' /\ References'
    BY <1>3, PoolUntouched
  <2>3. Admitted' /\ Taken'
    BY <1>0, <1>3 DEF StripAndKill, Admitted, Taken, TypeOK
  <2>4. VerifiedWithinLimit'
    BY <1>3, LimitKept DEF LiveVerified, TypeOK
  <2> QED BY <2>1, <2>2, <2>3, <2>4
<1>4. CASE /\ handshake' = [handshake EXCEPT ![s] = "refused"]
           /\ UNCHANGED <<timers, pool>>
           /\ UNCHANGED <<tcp, use, registered, closed, token>>
  <2>1. TypeOK'
    BY <1>4 DEF timers, pool, TypeOK
  <2>2. NoDoubleUse' /\ References'
    BY <1>4, PoolUntouched DEF pool
  <2>3. Admitted' /\ Taken'
    BY <1>0, <1>4 DEF timers, pool, Admitted, Taken, TypeOK
  <2>4. VerifiedWithinLimit'
    BY <1>4, LimitKept DEF LiveVerified, TypeOK
  <2> QED BY <2>1, <2>2, <2>3, <2>4
<1> QED BY <1>1, <1>2, <1>3, <1>4 DEF ReceiveShared

LEMMA TimersIInv ==
    ASSUME IInv, NEW s \in Socket, HandshakeTimeout(s) \/ detroyAfterDelay(s)
    PROVE  IInv'
<1> USE DEF IInv
<1>1. CASE HandshakeTimeout(s)
  <2>1. TypeOK'
    BY <1>1 DEF HandshakeTimeout, StripAndKill, TypeOK
  <2>2. NoDoubleUse' /\ References'
    BY <1>1, PoolUntouched DEF HandshakeTimeout
  <2>3. Admitted' /\ Taken'
    BY <1>1 DEF HandshakeTimeout, StripAndKill, Admitted, Taken, TypeOK
  <2>4. VerifiedWithinLimit'
    BY <1>1, LimitKept DEF HandshakeTimeout, LiveVerified, TypeOK
  <2> QED BY <2>1, <2>2, <2>3, <2>4
<1>2. CASE detroyAfterDelay(s)
  <2>1. TypeOK'
    BY <1>2 DEF detroyAfterDelay, destroySocket, pool, TypeOK
  <2>2. NoDoubleUse' /\ References'
    BY <1>2, PoolUntouched DEF detroyAfterDelay, pool
  <2>3. Admitted' /\ Taken'
    BY <1>2 DEF detroyAfterDelay, destroySocket, pool, Admitted, Taken, TypeOK
  <2>4. VerifiedWithinLimit'
    BY <1>2, LimitKept DEF detroyAfterDelay, destroySocket, LiveVerified, TypeOK
  <2> QED BY <2>1, <2>2, <2>3, <2>4
<1> QED BY <1>1, <1>2

LEMMA PeerClosesIInv == ASSUME IInv, NEW s \in Socket, PeerCloses(s) PROVE IInv'
<1> USE DEF IInv
<1>1. TypeOK'
  BY DEF PeerCloses, timers, pool, TypeOK
<1>2. NoDoubleUse' /\ References'
  BY PoolUntouched DEF PeerCloses, pool
<1>3. Admitted' /\ Taken'
  BY DEF PeerCloses, timers, pool, Admitted, Taken, TypeOK
<1>4. VerifiedWithinLimit'
  BY LimitKept DEF PeerCloses, LiveVerified, TypeOK
<1> QED BY <1>1, <1>2, <1>3, <1>4

\* A close that is heard takes the socket out of every set at once
LEMMA CloseEventIInv == ASSUME IInv, NEW s \in Socket, CloseEvent(s) PROVE IInv'
<1> USE DEF IInv
<1>1. VerifiedWithinLimit'
  BY LimitKept DEF CloseEvent, LiveVerified, TypeOK
<1>2. CASE ~watched[s]
  <2>1. TypeOK'
    BY <1>2 DEF CloseEvent, timers, pool, TypeOK
  <2>2. NoDoubleUse' /\ References'
    BY <1>2, PoolUntouched DEF CloseEvent, pool
  <2>3. Admitted' /\ Taken'
    BY <1>2 DEF CloseEvent, timers, pool, Admitted, Taken, TypeOK
  <2> QED BY <1>1, <2>1, <2>2, <2>3
<1>3. CASE watched[s]
  <2>0. NoDup(availableSockets)
    BY NoDoubleUseIsNoDup
  <2>1. /\ availableSockets' \in Seq(Socket)
        /\ NoDup(availableSockets')
        /\ \A x : In(x, availableSockets') <=> In(x, availableSockets) /\ x # s
    BY <1>3, <2>0, RemoveFirstNoDup DEF CloseEvent, TypeOK
  <2>2. TypeOK'
    BY <1>3, <2>1 DEF CloseEvent, timers, TypeOK
  <2>3. /\ \A x : Pooled(x) <=> In(x, availableSockets)
        /\ \A x : Pooled(x)' <=> In(x, availableSockets')
    BY DEF Pooled, In
  <2>4. use' = [use EXCEPT ![s] = "none"] /\ allSockets' = allSockets \ {s}
    BY <1>3 DEF CloseEvent
  <2>5. NoDoubleUse'
    <3>1. \A x \in Socket : Pooled(x)' => use'[x] = "none"
      BY <2>1, <2>3, <2>4 DEF NoDoubleUse, TypeOK
    <3> QED BY <3>1, <2>1 DEF NoDoubleUse, NoDup
  <2>6. References'
    BY <2>1, <2>3, <2>4 DEF References, TypeOK
  <2>7. Admitted' /\ Taken'
    BY <1>3 DEF CloseEvent, timers, Admitted, Taken, TypeOK
  <2> QED BY <1>1, <2>2, <2>5, <2>6, <2>7
<1> QED BY <1>2, <1>3

\* What createConnection does to the pool
LEMMA ShiftFacts ==
    ASSUME IInv, NEW s \in Socket, createConnection(s)
    PROVE  /\ availableSockets' \in Seq(Socket)
           /\ NoDup(availableSockets')
           /\ \A x : Pooled(x)' <=> Pooled(x) /\ x # s
           /\ s \in allSockets /\ use[s] = "none"
<1>1. NoDup(availableSockets)
  BY NoDoubleUseIsNoDup DEF IInv
<1>2. /\ availableSockets' \in Seq(Socket)
      /\ NoDup(availableSockets')
      /\ In(s, availableSockets)
      /\ \A x : In(x, availableSockets') <=> In(x, availableSockets) /\ x # s
  BY <1>1, TailNoDup DEF createConnection, IInv, TypeOK
<1>3. /\ \A x : Pooled(x) <=> In(x, availableSockets)
      /\ \A x : Pooled(x)' <=> In(x, availableSockets')
  BY DEF Pooled, In
<1>4. Pooled(s)
  BY <1>2, <1>3
<1> QED BY <1>2, <1>3, <1>4 DEF IInv, NoDoubleUse, References

\* Handing the front of the pool out, whatever for
LEMMA HandOutIInv ==
    ASSUME IInv, NEW s \in Socket, createConnection(s), TypeOK',
           \A x \in Socket : use'[x] # "none" => x = s \/ use[x] # "none",
           UNCHANGED <<handshake, hsTimer>>,
           \/ UNCHANGED tcp
           \/ destroySocket(s)
    PROVE  IInv'
<1> USE DEF IInv
<1>1. /\ NoDup(availableSockets')
      /\ \A x : Pooled(x)' <=> Pooled(x) /\ x # s
      /\ s \in allSockets
  BY ShiftFacts
<1>2. UNCHANGED <<watched, allSockets>>
  BY DEF createConnection
<1>3. NoDoubleUse'
  <2>1. \A x \in Socket : Pooled(x)' => use'[x] = "none"
    BY <1>1 DEF NoDoubleUse
  <2> QED BY <1>1, <2>1 DEF NoDoubleUse, NoDup
<1>4. References'
  BY <1>1, <1>2 DEF References
<1>5. Admitted' /\ Taken'
  BY <1>2 DEF destroySocket, Admitted, Taken, TypeOK
<1>6. VerifiedWithinLimit'
  BY LimitKept DEF destroySocket, LiveVerified, TypeOK
<1> QED BY <1>3, <1>4, <1>5, <1>6

LEMMA ConsumersTakeIInv ==
    ASSUME IInv, NEW s \in Socket,
           \/ \E kind \in {"upgrade", "external"} : OpenPipe(s, kind)
           \/ OpenPipeTooLate(s)
           \/ OpenRequest(s)
    PROVE  IInv'
<1> USE DEF IInv
<1>1. CASE \E kind \in {"upgrade", "external"} : OpenPipe(s, kind)
  <2>1. PICK kind \in {"upgrade", "external"} : OpenPipe(s, kind)
    BY <1>1
  <2>2. createConnection(s)
    BY <2>1 DEF OpenPipe
  <2>3. TypeOK'
    BY <2>1, <2>2, ShiftFacts DEF OpenPipe, createConnection, timers, TypeOK
  <2> QED BY <2>1, <2>2, <2>3, HandOutIInv DEF OpenPipe, timers, TypeOK
<1>2. CASE OpenPipeTooLate(s)
  <2>1. createConnection(s)
    BY <1>2 DEF OpenPipeTooLate
  <2>2. TypeOK'
    BY <1>2, <2>1, ShiftFacts
       DEF OpenPipeTooLate, createConnection, destroySocket, timers, TypeOK
  <2> QED BY <1>2, <2>1, <2>2, HandOutIInv DEF OpenPipeTooLate, timers
<1>3. CASE OpenRequest(s)
  <2>1. createConnection(s)
    BY <1>3 DEF OpenRequest
  <2>2. TypeOK'
    BY <1>3, <2>1, ShiftFacts DEF OpenRequest, createConnection, timers, TypeOK
  <2> QED BY <1>3, <2>1, <2>2, HandOutIInv DEF OpenRequest, timers, TypeOK
<1> QED BY <1>1, <1>2, <1>3

LEMMA ConsumersKeepIInv ==
    ASSUME IInv, NEW s \in Socket,
           \/ ReuseKept(s)
           \/ \E keepAlive \in BOOLEAN : RequestDone(s, keepAlive)
           \/ Release(s)
    PROVE  IInv'
<1> USE DEF IInv
<1>1. CASE ReuseKept(s)
  <2>1. TypeOK'
    BY <1>1 DEF ReuseKept, timers, pool, TypeOK
  <2>2. NoDoubleUse' /\ References'
    BY <1>1, PoolUntouched DEF ReuseKept, LiveKept, pool, TypeOK
  <2>3. Admitted' /\ Taken'
    BY <1>1 DEF ReuseKept, timers, pool, Admitted, Taken
  <2>4. VerifiedWithinLimit'
    BY <1>1, LimitKept DEF ReuseKept, LiveVerified
  <2> QED BY <2>1, <2>2, <2>3, <2>4
<1>2. ASSUME NEW keepAlive \in BOOLEAN, RequestDone(s, keepAlive) PROVE IInv'
  <2>1. TypeOK'
    BY <1>2 DEF RequestDone, destroySocket, timers, pool, TypeOK
  <2>2. NoDoubleUse' /\ References'
    BY <1>2, PoolUntouched DEF RequestDone, pool, TypeOK
  <2>3. Admitted' /\ Taken'
    BY <1>2 DEF RequestDone, destroySocket, timers, pool, Admitted, Taken, TypeOK
  <2>4. VerifiedWithinLimit'
    BY <1>2, LimitKept DEF RequestDone, destroySocket, LiveVerified, TypeOK
  <2> QED BY <2>1, <2>2, <2>3, <2>4
<1>3. CASE Release(s)
  <2>1. TypeOK'
    BY <1>3 DEF Release, destroySocket, timers, pool, TypeOK
  <2>2. NoDoubleUse' /\ References'
    BY <1>3, PoolUntouched DEF Release, pool, TypeOK
  <2>3. Admitted' /\ Taken'
    BY <1>3 DEF Release, destroySocket, timers, pool, Admitted, Taken, TypeOK
  <2>4. VerifiedWithinLimit'
    BY <1>3, LimitKept DEF Release, destroySocket, LiveVerified, TypeOK
  <2> QED BY <2>1, <2>2, <2>3, <2>4
<1> QED BY <1>1, <1>2, <1>3

LEMMA EndIInv == ASSUME IInv, close \/ _onClose PROVE IInv'
<1> USE DEF IInv
<1>1. CASE close
  <2>1. TypeOK'
    BY <1>1 DEF close, timers, pool, TypeOK
  <2>2. NoDoubleUse' /\ References'
    BY <1>1, PoolUntouched DEF close, pool
  <2>3. Admitted' /\ Taken'
    BY <1>1 DEF close, timers, pool, Admitted, Taken, TypeOK
  <2>4. VerifiedWithinLimit'
    BY <1>1, LimitKept DEF close, LiveVerified, TypeOK
  <2> QED BY <2>1, <2>2, <2>3, <2>4
<1>2. CASE _onClose
  <2>1. TypeOK'
    BY <1>2 DEF _onClose, timers, pool, TypeOK
  <2>2. NoDoubleUse' /\ References'
    BY <1>2, PoolUntouched DEF _onClose, pool
  <2>3. Admitted' /\ Taken'
    BY <1>2 DEF _onClose, timers, pool, Admitted, Taken
  <2>4. VerifiedWithinLimit'
    BY <1>2, LimitKept DEF _onClose, LiveVerified
  <2> QED BY <2>1, <2>2, <2>3, <2>4
<1> QED BY <1>1, <1>2

LEMMA StutterIInv == ASSUME IInv, UNCHANGED vars PROVE IInv'
<1>1. NoDoubleUse' /\ References'
  BY PoolUntouched DEF vars
<1>2. VerifiedWithinLimit'
  BY LimitKept DEF vars, LiveVerified
<1> QED BY <1>1, <1>2 DEF IInv, vars, TypeOK, Admitted, Taken

LEMMA NextIInv == IInv /\ [Next]_vars => IInv'
<1> SUFFICES ASSUME IInv, [Next]_vars PROVE IInv'
  OBVIOUS
<1>1. CASE close \/ _onClose
  BY <1>1, EndIInv
<1>2. ASSUME NEW s \in Socket, SocketStep(s) PROVE IInv'
  BY <1>2, AcceptOwnIInv, AcceptSharedIInv, ReceiveOwnIInv, ReceiveSharedIInv,
     TimersIInv, PeerClosesIInv, CloseEventIInv, ConsumersTakeIInv, ConsumersKeepIInv
     DEF SocketStep
<1>3. CASE UNCHANGED vars
  BY <1>3, StutterIInv
<1> QED BY <1>1, <1>2, <1>3 DEF Next

-----------------------------------------------------------------------------
(* Theorems *)

\* The inductive invariant holds in every reachable state
THEOREM Invariance == Spec => []IInv
<1>1. Init => IInv
  BY InitIInv
<1>2. IInv /\ [Next]_vars => IInv'
  BY NextIInv
<1> QED BY <1>1, <1>2, PTL DEF Spec

\* The state keeps its shape whatever the interleaving
THEOREM TypeCorrect == Spec => []TypeOK
<1>1. IInv => TypeOK
  BY DEF IInv
<1> QED BY <1>1, Invariance, PTL

\* No tunnel socket is pooled twice, or pooled while a consumer holds it
THEOREM PoolExclusive == Spec => []NoDoubleUse
<1>1. IInv => NoDoubleUse
  BY DEF IInv
<1> QED BY <1>1, Invariance, PTL

\* A client never has more authenticated live sockets than its limit, with
\* either kind of port
THEOREM LimitHolds == Spec => []VerifiedWithinLimit
<1>1. IInv => VerifiedWithinLimit
  BY DEF IInv
<1> QED BY <1>1, Invariance, PTL

\* Without a token issued no handshake is verified
NeverVerified == ~token => \A s \in Socket : handshake[s] # "verified"

LEMMA TokenlessNeverVerified == Spec => []NeverVerified
<1>1. Init => NeverVerified
  BY DEF Init, NeverVerified
<1>2. IInv /\ NeverVerified /\ [Next]_vars => NeverVerified'
  <2> SUFFICES ASSUME IInv, NeverVerified, [Next]_vars PROVE NeverVerified'
    OBVIOUS
  <2>1. CASE close \/ _onClose \/ UNCHANGED vars
    BY <2>1 DEF NeverVerified, close, _onClose, vars
  <2>2. ASSUME NEW s \in Socket, SocketStep(s) PROVE NeverVerified'
    BY <2>2 DEF NeverVerified, SocketStep, IInv, TypeOK, AcceptOwn, AcceptShared,
       ReceiveOwn, ReceiveShared, verifyHandshake, HandshakeTimeout, detroyAfterDelay,
       PeerCloses, CloseEvent, OpenPipe, OpenPipeTooLate, ReuseKept, OpenRequest,
       RequestDone, Release
  <2> QED BY <2>1, <2>2 DEF Next
<1> QED BY <1>1, <1>2, Invariance, PTL DEF Spec

\* With the unique port nothing is pooled or handed out before its handshake showed the
\* client's token, and nothing at all for a client that has none
THEOREM HandshakeFirst == Spec => []OnlyVerifiedServe
<1>1. IInv /\ NeverVerified => OnlyVerifiedServe
  BY DEF IInv, References, Taken, NeverVerified, OnlyVerifiedServe
<1> QED BY <1>1, Invariance, TokenlessNeverVerified, PTL

\* With the unique port the agent holds no reference to a closed socket
THEOREM NoStaleSocket == Spec => []NoDeadReference
<1>1. IInv => NoDeadReference
  BY DEF IInv, References, Taken, NoDeadReference
<1> QED BY <1>1, Invariance, PTL

\* With the unique port the limit turns a connection away only when it is reached
\* by others; with a dedicated port it is not so
THEOREM RefusalIsJustified == ASSUME UniquePort PROVE Spec => RefusedOnlyWhenFull
<1> DEFINE Justified ==
      \A s \in Socket : handshake[s] = "awaited" /\ handshake'[s] = "overLimit"
                          => Cardinality(Connected \ {s}) >= MaxSockets
<1>1. ASSUME IInv, [Next]_vars PROVE [Justified]_vars
  <2> SUFFICES ASSUME NEW s \in Socket, Next,
                      handshake[s] = "awaited", handshake'[s] = "overLimit"
               PROVE  Cardinality(Connected \ {s}) >= MaxSockets
    BY <1>1
  <2>1. s \notin allSockets
    BY <1>1 DEF IInv, Taken
  <2>2. Connected \ {s} = Connected
    BY <2>1 DEF Connected
  <2>3. PICK x \in Socket : SocketStep(x)
    BY DEF Next, close, _onClose
  <2>4. ~authorizeNewSocketConnection
    BY <2>3, <1>1 DEF SocketStep, IInv, TypeOK, AcceptOwn, AcceptShared, ReceiveOwn,
       ReceiveShared, HandshakeTimeout, detroyAfterDelay, PeerCloses, CloseEvent,
       OpenPipe, OpenPipeTooLate, ReuseKept, OpenRequest, RequestDone, Release
  <2>5. Cardinality(Connected) \in Nat
    <3>1. Connected \in SUBSET Socket BY <1>1 DEF IInv, TypeOK, Connected
    <3> QED BY <3>1, SocketAssumption, FS_Subset, FS_CardinalityType
  <2> QED BY <2>2, <2>4, <2>5, MaxSocketsAssumption DEF authorizeNewSocketConnection
<1> QED BY <1>1, Invariance, PTL DEF Spec, RefusedOnlyWhenFull

-----------------------------------------------------------------------------
(* The agent implements SocketPool *)

PoolView == <<availableSockets, Lent, Spent>>

LEMMA SameView ==
    ASSUME UNCHANGED <<allSockets, availableSockets>>,
           \A x \in Socket : use'[x] = "none" <=> use[x] = "none"
    PROVE  UNCHANGED PoolView
BY DEF PoolView, Lent, Spent, Pooled

\* A socket that joins: it was in no set of the agent
LEMMA JoinStep ==
    ASSUME IInv, IInv', NEW s \in Socket, onConnection(s), s \notin allSockets, UNCHANGED use
    PROVE  Pool!Join(s)
<1>1. ~Pooled(s) /\ use[s] = "none"
  BY DEF IInv, References
<1>2. availableSockets' = Append(availableSockets, s) /\ allSockets' = allSockets \cup {s}
  BY DEF onConnection
<1>3. \A x : Pooled(x)' <=> Pooled(x) \/ x = s
  <2>1. NoDup(availableSockets) /\ ~In(s, availableSockets)
    BY <1>1, NoDoubleUseIsNoDup, PooledIsIn DEF IInv
  <2>2. \A x : In(x, availableSockets') <=> In(x, availableSockets) \/ x = s
    BY <2>1, <1>2, AppendNoDup DEF IInv, TypeOK
  <2> QED BY <2>2 DEF Pooled, In
<1>4. Spent' = Spent
  BY <1>1, <1>2, <1>3 DEF Spent
<1>5. Lent' = Lent
  BY DEF Lent
<1> QED BY <1>1, <1>2, <1>4, <1>5 DEF Pool!Join, Pool!InPool, Pooled, Lent, Spent

\* A socket that is handed out or dropped: it was the front
LEMMA LendStep ==
    ASSUME IInv, NEW s \in Socket, createConnection(s),
           \A x \in Socket : use'[x] # "none" => x = s \/ use[x] # "none"
    PROVE  Pool!Lend
<1>1. /\ \A x : Pooled(x)' <=> Pooled(x) /\ x # s
      /\ s \in allSockets
  BY ShiftFacts
<1>2. /\ availableSockets # << >> /\ s = Head(availableSockets)
      /\ availableSockets' = Tail(availableSockets) /\ allSockets' = allSockets
  BY DEF createConnection
<1>3. Spent' = Spent \cup {s}
  BY <1>1, <1>2 DEF Spent
<1>4. Lent' \in SUBSET (Lent \cup {s})
  BY DEF Lent
<1> QED BY <1>2, <1>3, <1>4 DEF Pool!Lend

\* A connection that ends: it leaves its place in the pool, or its consumer
LEMMA EndStep ==
    ASSUME IInv, NEW s \in Socket, CloseEvent(s)
    PROVE  [Pool!PoolNext]_PoolView
<1>1. CASE ~watched[s]
  BY <1>1, SameView DEF CloseEvent, pool
<1>2. CASE watched[s]
  <2>1. /\ allSockets' = allSockets \ {s}
        /\ availableSockets' = RemoveFirst(availableSockets, s)
        /\ use' = [use EXCEPT ![s] = "none"]
    BY <1>2 DEF CloseEvent
  <2>2. NoDup(availableSockets) /\ availableSockets \in Seq(Socket)
    BY NoDoubleUseIsNoDup DEF IInv, TypeOK
  <2>3. \A x : Pooled(x)' <=> Pooled(x) /\ x # s
    <3>1. \A x : In(x, availableSockets') <=> In(x, availableSockets) /\ x # s
      BY <2>1, <2>2, RemoveFirstNoDup
    <3> QED BY <3>1 DEF Pooled, In
  <2>4. Lent' = Lent \ {s}
    BY <2>1 DEF Lent, IInv, TypeOK
  <2>5. CASE Pooled(s)
    <3>1. Spent' = Spent
      BY <2>1, <2>3, <2>5 DEF Spent
    <3>2. Lent' = Lent
      BY <2>4, <2>5 DEF Lent, IInv, NoDoubleUse
    <3>3. PICK k \in 1..Len(availableSockets) :
              availableSockets' = [j \in 1..(Len(availableSockets) - 1) |->
                  IF j < k THEN availableSockets[j] ELSE availableSockets[j + 1]]
      <4>1. availableSockets' # availableSockets
        BY <2>3, <2>5 DEF Pooled
      <4> QED BY <4>1, <2>1, <2>2, RemoveFirstNoDup
    <3>4. Pool!Leave(k)
      BY <3>1, <3>2, <3>3 DEF Pool!Leave
    <3> QED BY <3>4 DEF Pool!PoolNext
  <2>6. CASE ~Pooled(s)
    <3>1. availableSockets' = availableSockets
      BY <2>1, <2>6 DEF RemoveFirst, Pooled
    <3>2. Spent' = Spent \ {s}
      BY <2>1, <2>3 DEF Spent
    <3>3. Pool!Return(s)
      BY <2>4, <3>1, <3>2 DEF Pool!Return
    <3> QED BY <3>3 DEF Pool!PoolNext
  <2> QED BY <2>5, <2>6
<1> QED BY <1>1, <1>2

LEMMA PoolStep ==
    ASSUME IInv, IInv', NEW s \in Socket, SocketStep(s)
    PROVE  [Pool!PoolNext]_PoolView
<1>1. CASE AcceptOwn(s)
  BY <1>1, JoinStep DEF AcceptOwn, Fresh, Pool!PoolNext
<1>2. ASSUME NEW chunk \in Chunk, ReceiveShared(s, chunk) PROVE [Pool!PoolNext]_PoolView
  <2>1. UNCHANGED use /\ s \notin allSockets
    BY <1>2 DEF ReceiveShared, IInv, Taken
  <2>2. onConnection(s) \/ UNCHANGED <<allSockets, availableSockets>>
    BY <1>2 DEF ReceiveShared, pool
  <2> QED BY <2>1, <2>2, JoinStep, SameView DEF Pool!PoolNext
<1>3. CASE CloseEvent(s)
  BY <1>3, EndStep
<1>4. CASE (\E kind \in {"upgrade", "external"} : OpenPipe(s, kind))
           \/ OpenPipeTooLate(s) \/ OpenRequest(s)
  <2>1. createConnection(s)
    BY <1>4 DEF OpenPipe, OpenPipeTooLate, OpenRequest
  <2>2. \A x \in Socket : use'[x] # "none" => x = s \/ use[x] # "none"
    BY <1>4 DEF OpenPipe, OpenPipeTooLate, OpenRequest, IInv, TypeOK
  <2> QED BY <2>1, <2>2, LendStep DEF Pool!PoolNext
<1>5. CASE Release(s)
  <2>1. Lent' = Lent \ {s} /\ UNCHANGED <<allSockets, availableSockets>>
    BY <1>5 DEF Release, pool, Lent, IInv, TypeOK
  <2>2. Spent' = Spent
    BY <2>1 DEF Spent, Pooled
  <2> QED BY <2>1, <2>2 DEF Pool!Return, Pool!PoolNext
<1>6. CASE ReuseKept(s) \/ \E keepAlive \in BOOLEAN : RequestDone(s, keepAlive)
  BY <1>6, SameView DEF ReuseKept, LiveKept, RequestDone, pool, IInv, TypeOK
<1>7. CASE \/ AcceptShared(s) \/ (\E chunk \in Chunk : ReceiveOwn(s, chunk))
           \/ HandshakeTimeout(s) \/ detroyAfterDelay(s) \/ PeerCloses(s)
  BY <1>7, SameView DEF AcceptShared, ReceiveOwn, HandshakeTimeout, detroyAfterDelay,
     PeerCloses, pool
<1> QED BY <1>1, <1>2, <1>3, <1>4, <1>5, <1>6, <1>7 DEF SocketStep

\* The agent is a pool that lends each connection once, oldest first
THEOREM AgentImplementsPool == Spec => ImplementsPool
<1>1. Init => Pool!PoolInit
  BY DEF Init, Pool!PoolInit, Lent, Spent
<1>2. IInv /\ IInv' /\ [Next]_vars => [Pool!PoolNext]_PoolView
  <2> SUFFICES ASSUME IInv, IInv', [Next]_vars PROVE [Pool!PoolNext]_PoolView
    OBVIOUS
  <2>1. CASE close \/ _onClose \/ UNCHANGED vars
    BY <2>1, SameView DEF close, _onClose, vars, pool
  <2>2. ASSUME NEW s \in Socket, SocketStep(s) PROVE [Pool!PoolNext]_PoolView
    BY <2>2, PoolStep
  <2> QED BY <2>1, <2>2 DEF Next
<1> QED BY <1>1, <1>2, Invariance, PTL
        DEF Spec, ImplementsPool, Pool!PoolSpec, PoolView, Pool!poolVars
=============================================================================
