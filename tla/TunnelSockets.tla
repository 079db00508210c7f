--------------------------- MODULE TunnelSockets ---------------------------
(***************************************************************************)
(* The tunnel sockets of one TCP or UDP tunnel as those who use them see   *)
(* them: what is left of TunnelAgent (unique port) when a socket joins     *)
(* with its handshake verified, and of Client when its public traffic is   *)
(* not HTTP.  Websocket upgrades take sockets of such a tunnel too: unlike *)
(* requestHandler, upgradeHandler does not look at the client's type.      *)
(*                                                                         *)
(* A member of Socket is a connection; once it is closed its name stands   *)
(* for a new one.                                                          *)
(***************************************************************************)
EXTENDS Naturals, Sequences, SequencesExt

CONSTANT Socket     \* the connections of the client to its tunnel

VARIABLES
    tcp,                \* "ended": FIN received, still writing;
                        \* "destroyed": destroy() is done, 'close' not yet emitted
    availableSockets,
    upgrades,           \* the sockets piped to a websocket
    registered          \* the manager knows the client

socketVars == <<tcp, availableSockets, upgrades, registered>>

SocketsTypeOK ==
    /\ tcp \in [Socket -> {"closed", "open", "ended", "destroyed"}]
    /\ availableSockets \in Seq(Socket)
    /\ upgrades \in SUBSET Socket
    /\ registered \in BOOLEAN

SocketsInit ==
    /\ tcp = [s \in Socket |-> "closed"]
    /\ availableSockets = << >>
    /\ upgrades = {}
    /\ registered = TRUE

-----------------------------------------------------------------------------
Pooled(s) == \E i \in 1..Len(availableSockets) : availableSockets[i] = s

\* Not destroyed, in Node's words
Live(s) == tcp[s] \in {"open", "ended"}

\* tcp once destroy() was called on every socket of S
Destroyed(S) ==
    [s \in Socket |-> IF s \in S /\ Live(s) THEN "destroyed" ELSE tcp[s]]

onConnection(s) ==
    /\ registered /\ tcp[s] = "closed"
    /\ tcp' = [tcp EXCEPT ![s] = "open"]
    /\ availableSockets' = Append(availableSockets, s)
    /\ UNCHANGED <<upgrades, registered>>

\* The oldest socket of the pool goes to the caller at once
createConnection(s) ==
    /\ availableSockets # << >>
    /\ s = Head(availableSockets)
    /\ availableSockets' = Tail(availableSockets)

\* FIN or reset from the peer; Node ends and destroys a socket nobody pipes
PeerCloses(s) ==
    /\ Live(s)
    /\ tcp' = Destroyed({s})
    /\ UNCHANGED <<availableSockets, upgrades, registered>>

\* The 'close' event, as the pool and the pipe of an upgrade hear it
CloseEvent(s) ==
    /\ tcp[s] = "destroyed"
    /\ tcp' = [tcp EXCEPT ![s] = "closed"]
    /\ availableSockets' = RemoveFirst(availableSockets, s)
    /\ upgrades' = upgrades \ {s}
    /\ UNCHANGED registered

handleUpgrade(s) ==
    /\ registered
    /\ createConnection(s)
    /\ upgrades' = upgrades \cup {s}
    /\ UNCHANGED <<tcp, registered>>

\* Mutant: the socket the websocket did not wait for goes back to the pool
UpgradeTooLateRepools(s) ==
    /\ registered
    /\ availableSockets # << >>
    /\ s = Head(availableSockets)
    /\ availableSockets' = Append(Tail(availableSockets), s)
    /\ UNCHANGED <<tcp, upgrades, registered>>

\* The websocket is gone already
UpgradeTooLate(s) ==
    /\ registered
    /\ createConnection(s)
    /\ tcp' = Destroyed({s})
    /\ UNCHANGED <<upgrades, registered>>

\* The websocket goes, and pump destroys the socket
UpgradeEnds(s) ==
    /\ s \in upgrades /\ Live(s)
    /\ tcp' = Destroyed({s})
    /\ UNCHANGED <<availableSockets, upgrades, registered>>

SocketStep(s) ==
    \/ onConnection(s) \/ PeerCloses(s)
    \/ handleUpgrade(s) \/ UpgradeTooLate(s) \/ UpgradeEnds(s)
=============================================================================
