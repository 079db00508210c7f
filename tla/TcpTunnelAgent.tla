--------------------------- MODULE TcpTunnelAgent ---------------------------
(***************************************************************************)
(* The public side of a TCP tunnel: lib/TcpTunnelAgent.js.  An external    *)
(* connection gets a tunnel socket, and the two are piped both ways by     *)
(* pump, which calls cleanup when a side has written all or has closed.    *)
(* The server's sockets do not stay half-open: when a side receives FIN    *)
(* both are told to end, but each only once what it has to write is gone.  *)
(*                                                                         *)
(* The pair of a tunnel socket is the external connection it was given,    *)
(* until the socket's 'close' event; activePairs is the set of the tunnel  *)
(* sockets of the code's pairs.                                            *)
(***************************************************************************)
EXTENDS TunnelSockets

CONSTANTS External, NoExternal

ASSUME NoExternalAssumption == NoExternal \notin External

VARIABLES external,      \* as tcp, for the external connections
          pairOf,
          activePairs

pairVars == <<external, pairOf, activePairs>>

PairsTypeOK ==
    /\ external \in [External -> {"closed", "open", "ended", "destroyed"}]
    /\ pairOf \in [Socket -> External \cup {NoExternal}]
    /\ activePairs \in SUBSET Socket

PairsInit ==
    /\ external = [x \in External |-> "closed"]
    /\ pairOf = [s \in Socket |-> NoExternal]
    /\ activePairs = {}

-----------------------------------------------------------------------------
Paired == {s \in Socket : pairOf[s] # NoExternal}

\* The tunnel socket of an external connection, as a set
TunnelOf(x) == {s \in Socket : pairOf[s] = x}

\* No socket is free: the connection is turned away
ExternalRejected(x) ==
    /\ availableSockets = << >>
    /\ external' = [external EXCEPT ![x] = "destroyed"]
    /\ UNCHANGED <<tcp, availableSockets, pairOf, activePairs>>

\* The socket that came is destroyed: it is spent, the connection turned away
ExternalGetsDead(x) == \E s \in Socket :
    /\ createConnection(s) /\ ~Live(s)
    /\ external' = [external EXCEPT ![x] = "destroyed"]
    /\ UNCHANGED <<tcp, pairOf, activePairs>>

ExternalPaired(x) == \E s \in Socket :
    /\ createConnection(s) /\ Live(s)
    /\ external' = [external EXCEPT ![x] = "open"]
    /\ pairOf' = [pairOf EXCEPT ![s] = x]
    /\ activePairs' = activePairs \cup {s}
    /\ UNCHANGED tcp

\* The 'connection' event of the public server, which close() closes. The name
\* of the connection is free: nothing refers to an older one
ExternalConnects(x) ==
    /\ registered /\ external[x] = "closed" /\ TunnelOf(x) = {}
    /\ ExternalRejected(x) \/ ExternalGetsDead(x) \/ ExternalPaired(x)
    /\ UNCHANGED <<upgrades, registered>>

(* The end of a pair *)

\* FIN: pump ends the other side, Node this one
ExternalEnds(x) ==
    /\ external[x] = "open"
    /\ external' = [external EXCEPT ![x] = "ended"]
    /\ UNCHANGED <<socketVars, pairOf, activePairs>>

TunnelEnds(s) ==
    /\ tcp[s] = "open" /\ s \in Paired
    /\ tcp' = [tcp EXCEPT ![s] = "ended"]
    /\ UNCHANGED <<availableSockets, upgrades, registered, pairVars>>

\* The tunnel socket has written all: cleanup. pump destroys the external side
\* unless that has sent all it had; a socket that has also received FIN is over
TunnelFinishes(s) ==
    /\ s \in Paired
    /\ \/ tcp[s] = "ended"
       \/ tcp[s] = "open" /\ external[pairOf[s]] = "ended" /\ s \in activePairs
    /\ activePairs' = activePairs \ {s}
    /\ tcp' = IF tcp[s] = "ended" THEN Destroyed({s}) ELSE tcp
    /\ external' = [x \in External |->
           IF x = pairOf[s] /\ external[x] = "open" THEN "destroyed" ELSE external[x]]
    /\ UNCHANGED <<availableSockets, upgrades, registered, pairOf>>

\* The same for the external side
ExternalFinishes(x) ==
    /\ \/ external[x] = "ended"
       \/ external[x] = "open" /\ \E s \in TunnelOf(x) \cap activePairs : tcp[s] = "ended"
    /\ activePairs' = activePairs \ TunnelOf(x)
    /\ tcp' = Destroyed({s \in TunnelOf(x) : tcp[s] = "open"})
    /\ external' = [external EXCEPT ![x] = IF @ = "ended" THEN "destroyed" ELSE @]
    /\ UNCHANGED <<availableSockets, upgrades, registered, pairOf>>

ExternalResets(x) ==
    /\ external[x] \in {"open", "ended"}
    /\ external' = [external EXCEPT ![x] = "destroyed"]
    /\ UNCHANGED <<socketVars, pairOf, activePairs>>

\* The 'close' event of the external side: cleanup, and the tunnel socket is
\* destroyed; one that has ended too may be left to write what it has to
ExternalCloseEvent(x) == \E S \in SUBSET TunnelOf(x) :
    /\ external[x] = "destroyed"
    /\ \A s \in TunnelOf(x) \ S : tcp[s] # "open"
    /\ external' = [external EXCEPT ![x] = "closed"]
    /\ activePairs' = activePairs \ TunnelOf(x)
    /\ tcp' = Destroyed(S)
    /\ UNCHANGED <<availableSockets, upgrades, registered, pairOf>>

\* Mutant: only cleanup hears of the tunnel socket's end
PairHearsCloseQuietly(s) ==
    /\ pairOf' = [pairOf EXCEPT ![s] = NoExternal]
    /\ activePairs' = activePairs \ {s}
    /\ UNCHANGED external

\* The same for the 'close' event of a tunnel socket, part of CloseEvent(s)
PairHearsClose(s) ==
    /\ pairOf' = [pairOf EXCEPT ![s] = NoExternal]
    /\ activePairs' = activePairs \ {s}
    /\ \E left \in BOOLEAN :
           external' = [x \in External |->
               IF x = pairOf[s] /\ (external[x] = "open" \/ (external[x] = "ended" /\ ~left))
                 THEN "destroyed" ELSE external[x]]

\* destroy(): the pairs of activePairs; it destroys their tunnel sockets too
destroyPairs ==
    /\ external' = [x \in External |->
           IF TunnelOf(x) \cap activePairs # {} /\ external[x] \in {"open", "ended"}
             THEN "destroyed" ELSE external[x]]
    /\ activePairs' = {}
    /\ UNCHANGED pairOf

ExternalStep(x) ==
    \/ ExternalEnds(x) \/ ExternalFinishes(x)
    \/ ExternalResets(x) \/ ExternalCloseEvent(x)
=============================================================================
