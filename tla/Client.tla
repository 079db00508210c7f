------------------------------- MODULE Client -------------------------------
(***************************************************************************)
(* One client of the server: lib/Client.js over its TunnelAgent.  The      *)
(* client adds the grace timer: it is armed when the client is made, off   *)
(* while the agent is online, armed again when the agent goes offline, and *)
(* closes the client when it expires.  ClientManager.removeClient() closes *)
(* the client as well.                                                     *)
(***************************************************************************)
EXTENDS TunnelAgent

VARIABLE graceTimer     \* the grace timeout is armed

clientVars == <<vars, graceTimer>>

ClientTypeOK == TypeOK /\ graceTimer \in BOOLEAN

\* Mutant: no grace period before the first connection
ClientInitUnarmed == Init /\ graceTimer = FALSE

ClientInit == Init /\ graceTimer = TRUE

\* Mutants: the client is not told it went offline, or not that it is back
GraceHandlersOnline == graceTimer' = (graceTimer /\ ~online)
GraceHandlersOffline == graceTimer' = (offline \/ graceTimer)

\* The handlers of the agent's 'online' and 'offline' events. They are never
\* taken off: an agent that is already destroyed may arm the timer again
GraceHandlers == graceTimer' = (offline \/ (graceTimer /\ ~online))

ClientSocketStep(s) == SocketStep(s) /\ GraceHandlers

\* A client that is no longer registered has emitted its 'close' event already,
\* to a listener that listens once: closing it again changes nothing
GraceExpires ==
    /\ graceTimer
    /\ graceTimer' = FALSE
    /\ close \/ (~registered /\ UNCHANGED vars)

\* removeClient() on a revocation, an admin request or the end of the manager
removeClient ==
    /\ close
    /\ graceTimer' = FALSE

ServerClosed == _onClose /\ UNCHANGED graceTimer

ClientNext ==
    \/ GraceExpires \/ removeClient \/ ServerClosed
    \/ \E s \in Socket : ClientSocketStep(s)

ClientSpec == ClientInit /\ [][ClientNext]_clientVars

\* Timers fire and Node delivers 'close'; nothing is asked of the peers
ClientFairness ==
    /\ WF_clientVars(GraceExpires)
    /\ \A s \in Socket :
           /\ WF_clientVars(HandshakeTimeout(s) /\ GraceHandlers)
           /\ WF_clientVars(detroyAfterDelay(s) /\ GraceHandlers)
           /\ WF_clientVars(CloseEvent(s) /\ GraceHandlers)

FairClientSpec == ClientSpec /\ ClientFairness

-----------------------------------------------------------------------------
(* Correctness *)

\* A 'close' event that will reach the agent is on its way
ClosePending == \E s \in allSockets : tcp[s] = "destroyed" /\ watched[s]

\* With the unique port, a client nobody is connected to is never forgotten:
\* its grace timer runs, or the event that starts it is on its way
GraceCoversOffline ==
    UniquePort /\ registered /\ Connected = {} => graceTimer \/ ClosePending

\* A client somebody is connected to is not about to be removed for absence
GraceOnlyWhenOffline == graceTimer => Connected = {}

\* "client is given a grace period in which they can connect before they are
\* removed": a client without a connected socket gets one or is removed
AbsentClientRemoved ==
    (registered /\ Connected = {}) ~> (Connected # {} \/ ~registered)

\* After the client is closed its requests, external connections and UDP
\* sessions end by themselves (http.Agent.destroy, TcpTunnelAgent.destroy)
ClosedClientLetsGo ==
    \A s \in Socket :
        (~registered /\ use[s] \in {"external", "request", "kept"}) ~> use[s] = "none"
=============================================================================
