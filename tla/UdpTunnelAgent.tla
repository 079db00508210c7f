--------------------------- MODULE UdpTunnelAgent ---------------------------
(***************************************************************************)
(* The public side of a UDP tunnel: lib/UdpTunnelAgent.js.  Each source of *)
(* datagrams gets a session with a tunnel socket of its own, on which      *)
(* datagrams travel in frames, until 30 seconds pass without traffic or    *)
(* the socket closes.                                                      *)
(*                                                                         *)
(* A session object is named by its tunnel socket, which has at most one   *)
(* in its life; it is forgotten with the 'close' event of the socket.      *)
(* pendingSessions is left out: createConnection answers before it         *)
(* returns, so it holds nothing between two events.                        *)
(***************************************************************************)
EXTENDS TunnelSockets, UdpFrameCodec

CONSTANTS
    Source,         \* "ip:port" of those who send datagrams
    NoSource,
    NoSocket,
    Reply,          \* the frames the client may send
    MaxReplies      \* bound: the frames it has sent on all its sockets

ASSUME NoSourceAssumption == NoSource \notin Source
ASSUME NoSocketAssumption == NoSocket \notin Socket
ASSUME ReplyAssumption == Reply \subseteq Frame
ASSUME MaxRepliesAssumption == MaxReplies \in Nat

VARIABLES
    sessions,       \* the Map of the code
    key,            \* the source of the session object of a socket
    closed,         \* session.closed
    timer,          \* session.timer; "due": the timeout has passed, the callback waits
    forwarded,      \* the sources whose datagrams were written on a socket
    sent,           \* the frames the client has sent on a socket
    toServer,       \* the bytes of them still on their way
    buffer,         \* the bytes the parser of a session keeps
    replies         \* the payloads that went back to the source of a session

streams == <<sent, toServer, buffer, replies>>
sessionVars == <<sessions, key, closed, timer, forwarded, streams>>

SessionsTypeOK ==
    /\ sessions \in [Source -> Socket \cup {NoSocket}]
    /\ key \in [Socket -> Source \cup {NoSource}]
    /\ closed \in [Socket -> BOOLEAN]
    /\ timer \in [Socket -> {"off", "running", "due"}]
    /\ forwarded \in [Socket -> SUBSET Source]

StreamsTypeOK ==
    /\ sent \in [Socket -> Seq(Reply)]
    /\ toServer \in [Socket -> Seq(Byte)]
    /\ buffer \in [Socket -> Seq(Byte)]
    /\ replies \in [Socket -> Seq(Seq(Byte))]

SessionsInit ==
    /\ sessions = [k \in Source |-> NoSocket]
    /\ key = [s \in Socket |-> NoSource]
    /\ closed = [s \in Socket |-> FALSE]
    /\ timer = [s \in Socket |-> "off"]
    /\ forwarded = [s \in Socket |-> {}]
    /\ sent = [s \in Socket |-> << >>]
    /\ toServer = [s \in Socket |-> << >>]
    /\ buffer = [s \in Socket |-> << >>]
    /\ replies = [s \in Socket |-> << >>]

-----------------------------------------------------------------------------
\* The session objects that are not closed
Serving == {s \in Socket : key[s] # NoSource /\ ~closed[s]}

\* The sockets of the Map
Mapped == {s \in Socket : \E k \in Source : sessions[k] = s}

\* The Map without the keys of the sessions of S
Forget(S) == [k \in Source |->
    IF \E s \in S : key[s] = k THEN NoSocket ELSE sessions[k]]

\* Mutant: a session that is closed already is cleaned up again
UnclosedAll(S) == S

\* The early return of _cleanupSession
Unclosed(S) == {s \in S : ~closed[s]}

\* The sessions of S are closed; the caller destroys their sockets
_cleanupSession(S) ==
    /\ closed' = [s \in Socket |-> closed[s] \/ s \in S]
    /\ timer' = [s \in Socket |-> IF s \in Unclosed(S) THEN "off" ELSE timer[s]]
    /\ sessions' = Forget(Unclosed(S))

\* Mutant: the timer is left alone
_resetTimerNever(s) == timer' = timer

_resetTimer(s) == timer' = [timer EXCEPT ![s] = "running"]

-----------------------------------------------------------------------------
(* Datagrams of a source: _onMessage *)

\* The frame is dropped when the socket is destroyed
ForwardDatagram(k) ==
    /\ registered /\ sessions[k] \in Socket
    /\ _resetTimer(sessions[k])
    /\ forwarded' = [forwarded EXCEPT ![sessions[k]] =
                        IF Live(sessions[k]) THEN @ \cup {k} ELSE @]
    /\ UNCHANGED <<socketVars, sessions, key, closed, streams>>

\* A socket of the pool that is destroyed is spent, and the datagram lost; with
\* no socket at all the datagram is lost and nothing changes
NewSession(k) == \E s \in Socket :
    /\ registered /\ sessions[k] = NoSocket
    /\ createConnection(s)
    /\ \/ /\ ~Live(s)
          /\ UNCHANGED <<sessions, key, closed, timer, forwarded>>
       \/ /\ Live(s)
          /\ sessions' = [sessions EXCEPT ![k] = s]
          /\ key' = [key EXCEPT ![s] = k]
          /\ forwarded' = [forwarded EXCEPT ![s] = {k}]
          /\ _resetTimer(s)
          /\ UNCHANGED closed
    /\ UNCHANGED <<tcp, upgrades, registered, streams>>

(* Frames of the client *)

\* The client answers on the socket a datagram came by
ClientReplies(s, frame) ==
    /\ tcp[s] = "open" /\ forwarded[s] # {}
    /\ MapThenSumSet(LAMBDA x : Len(sent[x]), Socket) < MaxReplies
    /\ sent' = [sent EXCEPT ![s] = Append(@, frame)]
    /\ toServer' = [toServer EXCEPT ![s] = @ \o encodeFrame(frame)]
    /\ UNCHANGED <<socketVars, sessions, key, closed, timer, forwarded, buffer, replies>>

\* The payloads a session sends to its source
Datagrams(frames) ==
    FlattenSeq([i \in 1..Len(frames) |->
        IF frames[i].type = FRAME_DATA THEN << frames[i].payload >> ELSE << >>])

\* The 'data' handler of a session gets a chunk of n bytes
TunnelData(s, n) ==
    /\ tcp[s] = "open" /\ key[s] # NoSource
    /\ n \in 1..Len(toServer[s])
    /\ toServer' = [toServer EXCEPT ![s] = SubSeq(@, n + 1, Len(@))]
    /\ IF closed[s]
         THEN UNCHANGED <<timer, buffer, replies>>
         ELSE LET read == parse(buffer[s] \o SubSeq(toServer[s], 1, n)) IN
              /\ _resetTimer(s)
              /\ buffer' = [buffer EXCEPT ![s] = read.buffer]
              /\ replies' = [replies EXCEPT ![s] = @ \o Datagrams(read.frames)]
    /\ UNCHANGED <<socketVars, sessions, key, closed, forwarded, sent>>

(* The end of a session *)

\* 30 seconds without traffic
IdlePasses(s) ==
    /\ timer[s] = "running"
    /\ timer' = [timer EXCEPT ![s] = "due"]
    /\ UNCHANGED <<socketVars, sessions, key, closed, forwarded, streams>>

\* Mutant: a timer state the other handlers do not know
SessionTimeoutNamed(s) ==
    /\ timer[s] = "due"
    /\ timer' = [timer EXCEPT ![s] = "expired"]
    /\ closed' = [closed EXCEPT ![s] = TRUE]
    /\ sessions' = Forget({s})
    /\ tcp' = Destroyed({s})
    /\ UNCHANGED <<availableSockets, upgrades, registered, key, forwarded, streams>>

\* The client is told with a SESSION_CLOSE frame, of which it makes nothing here
SessionTimeout(s) ==
    /\ timer[s] = "due"
    /\ _cleanupSession({s})
    /\ tcp' = Destroyed({s})
    /\ UNCHANGED <<availableSockets, upgrades, registered, key, forwarded, streams>>

\* A tunnel socket that an error destroyed emits 'error' before 'close': the session is
\* cleaned up, and its object lives on until the 'close'
SessionHearsError(s) ==
    /\ s \in Serving /\ tcp[s] = "destroyed"
    /\ _cleanupSession({s})
    /\ UNCHANGED <<socketVars, key, forwarded, streams>>

\* The 'close' event of a tunnel socket, part of CloseEvent(s): the session is
\* cleaned up, and nothing refers to its object any more
SessionHearsClose(s) ==
    /\ key' = [key EXCEPT ![s] = NoSource]
    /\ closed' = [closed EXCEPT ![s] = FALSE]
    /\ timer' = [timer EXCEPT ![s] = IF s \in Unclosed({s}) THEN "off" ELSE @]
    /\ sessions' = Forget(Unclosed({s}))
    /\ forwarded' = [forwarded EXCEPT ![s] = {}]
    /\ sent' = [sent EXCEPT ![s] = << >>]
    /\ toServer' = [toServer EXCEPT ![s] = << >>]
    /\ buffer' = [buffer EXCEPT ![s] = << >>]
    /\ replies' = [replies EXCEPT ![s] = << >>]

\* Mutant: the sessions are left to their timers
destroySessionsLater == UNCHANGED sessionVars

\* destroy(): the sessions of the Map; it destroys their sockets too
destroySessions ==
    /\ _cleanupSession(Mapped)
    /\ UNCHANGED <<key, forwarded, streams>>

SessionStep(s) ==
    \/ \E frame \in Reply : ClientReplies(s, frame)
    \/ \E n \in 1..Len(toServer[s]) : TunnelData(s, n)
    \/ IdlePasses(s) \/ SessionTimeout(s) \/ SessionHearsError(s)
=============================================================================
