--------------------------- MODULE MCTunnelServer ---------------------------
(***************************************************************************)
(* A small instance of TunnelServer: one filter is for one of the ids, the *)
(* other for all of them, so that they compete.                            *)
(***************************************************************************)
EXTENDS TunnelServer

CONSTANTS i1, i2

OverlappingPatterns == {{i1}, {i1, i2}}

AllowAll == << [pattern |-> {i1, i2}, authorized |-> TRUE, priority |-> 1] >>
=============================================================================
