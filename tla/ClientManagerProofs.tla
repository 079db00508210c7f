------------------------ MODULE ClientManagerProofs ------------------------
(***************************************************************************)
(* The safety of the table of clients, for any number of ids, creations,   *)
(* ports and failures.  The table and the clients that are not closed      *)
(* determine each other; everything else follows from that, whatever is    *)
(* removed between the awaits of a creation.                               *)
(***************************************************************************)
EXTENDS ClientManager, FiniteSetTheorems, TLAPS

\* A creation that has not begun has left no trace
Untouched ==
    \A c \in Creation : phase[c] = "unused" => ~closed[c] /\ publicServer[c] = "none"

\* What the table has is a client of that id that is not closed
TableIsLive ==
    \A id \in Id : hasClient(id) =>
        /\ phase[clients[id]] # "unused"
        /\ request[clients[id]].id = id
        /\ ~closed[clients[id]]

\* How far the public server of a client that is not closed has come
PublicFollows ==
    \A c \in Creation : ~closed[c] =>
        /\ phase[c] = "publishing" => publicServer[c] = "starting"
        /\ phase[c] = "created" /\ request[c].type # "http" => publicServer[c] = "up"

MInv ==
    /\ TypeOK
    /\ request = [c \in Creation |-> request[c]]
    /\ Untouched
    /\ TableIsLive
    /\ NoLeakedClient
    /\ FailedLeavesNothing
    /\ PublicFollows

LEMMA InitMInv == ManagerInit => MInv
BY FaultAssumption, CreationAssumption
   DEF ManagerInit, MInv, TypeOK, Untouched, TableIsLive, NoLeakedClient,
       FailedLeavesNothing, PublicFollows, hasClient, NoPort

-----------------------------------------------------------------------------
(* Removal *)

\* Removing ids takes their clients out of the table and closes them, and nothing
\* else: the types and the table stay right
LEMMA RemovalKeeps ==
    ASSUME MInv, NEW S \in SUBSET Id, removeClients(S), request' = request
    PROVE  /\ tunnels' \in Int
           /\ clients' \in [Id -> Creation \cup {Nobody}]
           /\ closed' \in [Creation -> BOOLEAN]
           /\ publicServer' \in [Creation -> {"none", "starting", "up", "closed"}]
           /\ publicPort' = publicPort /\ pooled' = pooled
           /\ \A c \in Creation : closed[c] => closed'[c]
           /\ \A c \in Creation : ~closed'[c] =>
                  ~closed[c] /\ publicServer'[c] = publicServer[c]
           /\ \A c \in Creation : closed'[c] /\ ~closed[c] =>
                  \E id \in S : clients[id] = c
           /\ \A id \in S : clients'[id] = Nobody
           /\ \A id \in S : clients[id] # Nobody => closed'[clients[id]]
           /\ \A id \in Id \ S : clients'[id] = clients[id]
<1> DEFINE gone == {clients[id] : id \in S} \ {Nobody}
<1>1. gone \subseteq Creation
  BY DEF MInv, TypeOK
<1>2. Cardinality(gone) \in Nat
  BY <1>1, CreationAssumption, FS_Subset, FS_CardinalityType
<1>3. tunnels' = tunnels - Cardinality(gone)
  BY DEF removeClients
<1>4. tunnels' \in Int
  BY <1>2, <1>3 DEF MInv, TypeOK
<1>5. \A c \in Creation : closed'[c] <=> closed[c] \/ c \in gone
  BY DEF removeClients
<1>6. \A id \in Id : clients'[id] = IF id \in S THEN Nobody ELSE clients[id]
  BY DEF removeClients
<1>7. \A c \in Creation : c \notin gone => publicServer'[c] = publicServer[c]
  BY DEF removeClients
<1>8. clients' \in [Id -> Creation \cup {Nobody}]
  BY DEF removeClients, MInv, TypeOK
<1>9. closed' \in [Creation -> BOOLEAN]
  BY DEF removeClients, MInv, TypeOK
<1>10. publicServer' \in [Creation -> {"none", "starting", "up", "closed"}]
  BY DEF removeClients, MInv, TypeOK
<1>11. publicPort' = publicPort /\ pooled' = pooled
  BY DEF removeClients
<1>12. \A id \in S : clients[id] # Nobody => clients[id] \in gone
  OBVIOUS
<1> HIDE DEF gone
<1>13. \A id \in S : clients[id] # Nobody => closed'[clients[id]]
  BY <1>5, <1>12, <1>1
<1>14. \A c \in Creation : closed'[c] /\ ~closed[c] => \E id \in S : clients[id] = c
  BY <1>5 DEF gone
<1> QED BY <1>4, <1>5, <1>6, <1>7, <1>8, <1>9, <1>10, <1>11, <1>13, <1>14

\* A removal keeps the invariant, alone or as the catch of a creation that fails
LEMMA RemovalStep ==
    ASSUME MInv, NEW S \in SUBSET Id, removeClients(S),
           UNCHANGED <<server, serverListening, handlers, request, faults>>,
           \/ phase' = phase
           \/ \E c \in Creation : /\ phase[c] = "rejected" /\ request[c].id \in S
                                  /\ phase' = [phase EXCEPT ![c] = "failed"]
    PROVE  MInv'
<1> USE DEF MInv
<1>1. TypeOK'
  BY RemovalKeeps DEF TypeOK, Request
<1>2. \A c \in Creation : phase'[c] = "unused" <=> phase[c] = "unused"
  BY DEF TypeOK
<1>3. \A c \in Creation : phase'[c] \in {"publishing", "created"} => phase'[c] = phase[c]
  BY DEF TypeOK
<1>4. Untouched'
  <2> SUFFICES ASSUME NEW c \in Creation, phase[c] = "unused"
               PROVE  ~closed'[c] /\ publicServer'[c] = "none"
    BY <1>2 DEF Untouched
  <2>1. \A id \in Id : clients[id] # c
    BY CreationAssumption DEF TableIsLive, hasClient
  <2>2. ~closed[c]
    BY DEF Untouched
  <2>3. closed'[c] => \E id \in S : clients[id] = c
    BY <2>2, RemovalKeeps
  <2>4. ~closed'[c]
    BY <2>1, <2>3
  <2> QED BY <2>4, RemovalKeeps DEF Untouched
<1>5. TableIsLive'
  <2> SUFFICES ASSUME NEW id \in Id, clients'[id] # Nobody
               PROVE  /\ phase'[clients'[id]] # "unused"
                      /\ request[clients'[id]].id = id
                      /\ ~closed'[clients'[id]]
    BY DEF TableIsLive, hasClient
  <2>1. id \notin S /\ clients'[id] = clients[id]
    BY RemovalKeeps
  <2>2. clients[id] \in Creation
    BY <2>1 DEF TypeOK
  <2>3. \A x \in S : clients[x] # clients[id]
    BY <2>1 DEF TableIsLive, hasClient
  <2>4. ~closed'[clients[id]]
    BY <2>1, <2>2, <2>3, RemovalKeeps DEF TableIsLive, hasClient
  <2> QED BY <2>1, <2>2, <2>4, <1>2 DEF TableIsLive, hasClient
<1>6. NoLeakedClient'
  <2> SUFFICES ASSUME NEW c \in Creation, phase'[c] # "unused", ~closed'[c]
               PROVE  clients'[request[c].id] = c
    BY DEF NoLeakedClient
  <2>1. phase[c] # "unused" /\ ~closed[c]
    BY <1>2, RemovalKeeps
  <2>2. clients[request[c].id] = c /\ request[c].id \in Id
    BY <2>1 DEF NoLeakedClient, TypeOK, Request
  <2>3. request[c].id \notin S
    BY <2>2, RemovalKeeps, CreationAssumption
  <2> QED BY <2>2, <2>3, RemovalKeeps
<1>7. FailedLeavesNothing'
  <2> SUFFICES ASSUME NEW c \in Creation, phase'[c] = "failed" PROVE closed'[c]
    BY DEF FailedLeavesNothing
  <2>1. CASE phase[c] = "failed"
    BY <2>1, RemovalKeeps DEF FailedLeavesNothing
  <2>2. CASE phase[c] # "failed"
    <3>1. phase[c] = "rejected" /\ request[c].id \in S
      BY <2>2 DEF TypeOK
    <3>2. closed[c] \/ clients[request[c].id] = c
      BY <3>1 DEF NoLeakedClient
    <3> QED BY <3>1, <3>2, RemovalKeeps, CreationAssumption
  <2> QED BY <2>1, <2>2
<1>8. PublicFollows'
  BY <1>3, RemovalKeeps DEF PublicFollows
<1> QED BY <1>1, <1>4, <1>5, <1>6, <1>7, <1>8

-----------------------------------------------------------------------------
(* The other actions *)

LEMMA NewClientStep ==
    ASSUME MInv, NEW c \in Creation, NEW id \in Id, NEW type \in Kind,
           NEW port \in Port \cup {NoPort}, newClient(c, id, type, port)
    PROVE  MInv'
<1> USE DEF MInv, newClient
<1>1. TypeOK'
  BY DEF TypeOK, Request, listen
<1>2. Untouched'
  BY DEF Untouched, TypeOK
<1>3. TableIsLive'
  <2> SUFFICES ASSUME NEW x \in Id, clients'[x] # Nobody
               PROVE  /\ phase'[clients'[x]] # "unused"
                      /\ request'[clients'[x]].id = x
                      /\ ~closed[clients'[x]]
    BY DEF TableIsLive, hasClient
  <2>1. CASE x = id
    BY <2>1 DEF TypeOK, Untouched
  <2>2. CASE x # id
    <3>1. clients'[x] = clients[x] /\ clients[x] \in Creation
      BY <2>2 DEF TypeOK
    <3>2. clients[x] # c
      BY <3>1 DEF TableIsLive, hasClient
    <3> QED BY <3>1, <3>2 DEF TableIsLive, hasClient, TypeOK
  <2> QED BY <2>1, <2>2
<1>4. NoLeakedClient'
  BY CreationAssumption DEF NoLeakedClient, TypeOK, hasClient, Request
<1>5. FailedLeavesNothing'
  BY DEF FailedLeavesNothing, TypeOK
<1>6. PublicFollows'
  BY DEF PublicFollows, TypeOK
<1> QED BY <1>1, <1>2, <1>3, <1>4, <1>5, <1>6

\* A creation that only moves on: no client is registered, closed or forgotten
LEMMA ProgressStep ==
    ASSUME MInv, TypeOK',
           UNCHANGED <<clients, request, closed>>,
           \A c \in Creation :
               /\ phase'[c] = "unused" <=> phase[c] = "unused"
               /\ phase'[c] = "failed" => phase[c] = "failed"
               /\ phase[c] = "unused" => publicServer'[c] = publicServer[c],
           PublicFollows'
    PROVE  MInv'
<1>1. Untouched' /\ FailedLeavesNothing' /\ NoLeakedClient'
  BY DEF MInv, Untouched, FailedLeavesNothing, NoLeakedClient
<1>2. TableIsLive'
  <2> SUFFICES ASSUME NEW id \in Id, clients[id] # Nobody
               PROVE  /\ phase'[clients[id]] # "unused"
                      /\ request[clients[id]].id = id
                      /\ ~closed[clients[id]]
    BY DEF TableIsLive, hasClient
  <2>1. clients[id] \in Creation
    BY DEF MInv, TypeOK
  <2> QED BY <2>1 DEF MInv, TableIsLive, hasClient
<1> QED BY <1>1, <1>2 DEF MInv

LEMMA SettlesStep ==
    ASSUME MInv, NEW ok \in BOOLEAN,
           \/ SharedServerSettles(ok)
           \/ \E c \in Creation : OwnServerSettles(c, ok) \/ OwnServerFailsLate(c)
    PROVE  MInv'
<1> USE DEF MInv, SharedServerSettles, OwnServerSettles, OwnServerFailsLate, Outcome
<1>1. TypeOK'
  BY FaultAssumption DEF TypeOK
<1>2. PublicFollows'
  BY DEF PublicFollows, TypeOK
<1> QED BY <1>1, <1>2, ProgressStep DEF TypeOK

LEMMA CreationProgress ==
    ASSUME MInv, NEW c \in Creation,
           \/ HttpCreated(c)
           \/ \E port \in Port : Bind(c, port)
           \/ BindFails(c) \/ PublicCreated(c)
    PROVE  MInv'
<1> USE DEF MInv
<1>1. CASE HttpCreated(c)
  <2>1. TypeOK' /\ PublicFollows'
    BY <1>1 DEF HttpCreated, Created, TypeOK, PublicFollows
  <2> QED BY <1>1, <2>1, ProgressStep DEF HttpCreated, Created, TypeOK
<1>2. ASSUME NEW port \in Port, Bind(c, port) PROVE MInv'
  <2>1. TypeOK' /\ PublicFollows'
    BY <1>2 DEF Bind, TypeOK, PublicFollows
  <2> QED BY <1>2, <2>1, ProgressStep DEF Bind, TypeOK
<1>3. CASE BindFails(c)
  <2>1. TypeOK' /\ PublicFollows'
    BY <1>3, FaultAssumption DEF BindFails, Outcome, TypeOK, PublicFollows
  <2> QED BY <1>3, <2>1, ProgressStep DEF BindFails, TypeOK
<1>4. CASE PublicCreated(c)
  <2>1. TypeOK' /\ PublicFollows'
    BY <1>4 DEF PublicCreated, Created, TypeOK, PublicFollows
  <2> QED BY <1>4, <2>1, ProgressStep DEF PublicCreated, Created, TypeOK
<1> QED BY <1>1, <1>2, <1>3, <1>4

LEMMA NextMInv == MInv /\ [ManagerNext]_managerVars => MInv'
<1> SUFFICES ASSUME MInv, [ManagerNext]_managerVars PROVE MInv'
  OBVIOUS
<1>1. CASE NewClient
  BY <1>1, NewClientStep DEF NewClient
<1>2. CASE ServerSettles
  BY <1>2, SettlesStep DEF ServerSettles
<1>3. ASSUME NEW c \in Creation, CreationStep(c) PROVE MInv'
  <2>1. CASE CreationFails(c)
    <3>1. request[c].id \in Id
      BY <2>1 DEF CreationFails, MInv, TypeOK, Request
    <3> QED BY <2>1, <3>1, RemovalStep DEF CreationFails, removeClient
  <2> QED BY <1>3, <2>1, SettlesStep, CreationProgress DEF CreationStep
<1>7. ASSUME NEW c \in Creation, OwnServerFailsLate(c) PROVE MInv'
  BY <1>7, SettlesStep
<1>4. ASSUME NEW id \in Id, ClientRemoved(id) PROVE MInv'
  BY <1>4, RemovalStep DEF ClientRemoved, removeClient
<1>5. ASSUME NEW id \in Id, TunnelConnects(id) PROVE MInv'
  <2>1. TypeOK' /\ PublicFollows'
    BY <1>5 DEF TunnelConnects, MInv, TypeOK, PublicFollows
  <2> QED BY <1>5, <2>1, ProgressStep DEF TunnelConnects
<1>6. CASE UNCHANGED managerVars
  BY <1>6 DEF managerVars, MInv, TypeOK, Request, Untouched, TableIsLive, hasClient,
     NoLeakedClient, FailedLeavesNothing, PublicFollows
<1> QED BY <1>1, <1>2, <1>3, <1>4, <1>5, <1>6, <1>7 DEF ManagerNext

-----------------------------------------------------------------------------
(* The shared server is started once *)

\* While no bind failed, the shared server has the handlers of the one attempt
OneAttempt ==
    faults = 0 => /\ handlers = IF serverListening = "undefined" THEN 0 ELSE 1
                  /\ \A c \in Creation : pooled[c] <= 1

LEMMA NextOneAttempt ==
    ASSUME MInv, OneAttempt, [ManagerNext]_managerVars
    PROVE  OneAttempt'
<1> USE DEF MInv, TypeOK
<1>1. CASE NewClient
  BY <1>1 DEF NewClient, newClient, listen, mustListen, OneAttempt
<1>2. CASE ServerSettles
  BY <1>2 DEF ServerSettles, SharedServerSettles, Outcome, OneAttempt
<1>3. ASSUME NEW c \in Creation, CreationStep(c) PROVE OneAttempt'
  <2>1. CASE \E ok \in BOOLEAN : OwnServerSettles(c, ok)
    BY <2>1 DEF OwnServerSettles, Outcome, OneAttempt
  <2>2. CASE BindFails(c)
    BY <2>2 DEF BindFails, Outcome, OneAttempt
  <2>3. CASE HttpCreated(c) \/ PublicCreated(c) \/ \E port \in Port : Bind(c, port)
    BY <2>3 DEF HttpCreated, PublicCreated, Bind, OneAttempt
  <2>4. CASE CreationFails(c)
    BY <2>4 DEF CreationFails, removeClient, removeClients, OneAttempt
  <2> QED BY <1>3, <2>1, <2>2, <2>3, <2>4 DEF CreationStep
<1>7. ASSUME NEW c \in Creation, OwnServerFailsLate(c) PROVE OneAttempt'
  BY <1>7 DEF OwnServerFailsLate, Outcome, OneAttempt
<1>4. ASSUME NEW id \in Id, ClientRemoved(id) PROVE OneAttempt'
  BY <1>4 DEF ClientRemoved, removeClient, removeClients, OneAttempt
<1>5. ASSUME NEW id \in Id, TunnelConnects(id) PROVE OneAttempt'
  <2> SUFFICES ASSUME faults = 0
               PROVE  \A c \in Creation : pooled'[c] <= 1
    BY <1>5 DEF TunnelConnects, OneAttempt
  <2>1. handlers <= 1
    BY DEF OneAttempt
  <2> QED BY <1>5, <2>1 DEF TunnelConnects, OneAttempt
<1>6. CASE UNCHANGED managerVars
  BY <1>6 DEF managerVars, OneAttempt
<1> QED BY <1>1, <1>2, <1>3, <1>4, <1>5, <1>6, <1>7 DEF ManagerNext

-----------------------------------------------------------------------------
(* Theorems *)

\* The invariant of the manager
THEOREM ManagerInvariance == ManagerSpec => []MInv
BY InitMInv, NextMInv, PTL DEF ManagerSpec

\* The table of clients, the counter of tunnels, the start of the shared server and
\* the creations hold the kind of values they are for, whatever fails
THEOREM ManagerTypeCorrect == ManagerSpec => []TypeOK
<1>1. MInv => TypeOK
  BY DEF MInv
<1> QED BY <1>1, ManagerInvariance, PTL

\* No client is lost: one that is not closed is the one its id names
THEOREM NoClientIsLeaked == ManagerSpec => []NoLeakedClient
<1>1. MInv => NoLeakedClient
  BY DEF MInv
<1> QED BY <1>1, ManagerInvariance, PTL

\* A creation that was reported as failed has left no client behind, even if it was
\* removed and its id taken again while it waited
THEOREM FailureIsClean == ManagerSpec => []FailedLeavesNothing
<1>1. MInv => FailedLeavesNothing
  BY DEF MInv
<1> QED BY <1>1, ManagerInvariance, PTL

\* A registered client whose TCP or UDP tunnel was announced has its public server
THEOREM AnnouncedIsPublished == ManagerSpec => []TunnelIsPublished
<1>1. MInv => TunnelIsPublished
  BY CreationAssumption
     DEF MInv, TunnelIsPublished, Registered, TableIsLive, hasClient, PublicFollows
<1> QED BY <1>1, ManagerInvariance, PTL

\* However many creations find the shared server not started, one starts it: while no
\* bind failed, a tunnel connection gets one place in the pool of its client
THEOREM OnePlacePerConnection == ManagerSpec => []PooledOnce
<1>1. ManagerInit => OneAttempt
  BY DEF ManagerInit, OneAttempt
<1>2. MInv /\ OneAttempt /\ [ManagerNext]_managerVars => OneAttempt'
  BY NextOneAttempt
<1>3. OneAttempt => PooledOnce
  BY DEF OneAttempt, PooledOnce
<1> QED BY <1>1, <1>2, <1>3, ManagerInvariance, PTL DEF ManagerSpec
=============================================================================
