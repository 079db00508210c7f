--------------------------- MODULE MCPublicTunnel ---------------------------
(***************************************************************************)
(* A small instance of PublicTunnel.  With three values to a byte a header *)
(* of three bytes needs both bytes of its length.                          *)
(***************************************************************************)
EXTENDS PublicTunnel

MCRadix == 3
MCJson == {<<1>>, <<1, 1, 1>>}

\* A datagram, an empty one under a long header, a frame whose header is not
\* JSON, and the frame that closes a session
MCReply == {
    [type |-> FRAME_DATA, header |-> <<1>>, payload |-> <<2>>],
    [type |-> FRAME_DATA, header |-> <<1, 1, 1>>, payload |-> << >>],
    [type |-> FRAME_DATA, header |-> <<0>>, payload |-> <<1>>],
    [type |-> FRAME_SESSION_CLOSE, header |-> <<1>>, payload |-> << >>]}
=============================================================================
