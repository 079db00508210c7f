------------------------------ MODULE MCClient ------------------------------
(***************************************************************************)
(* Small instances of Client: connections competing for fewer slots. The   *)
(* connections are interchangeable, which the safety runs use.             *)
(***************************************************************************)
EXTENDS Client

Symmetry == Permutations(Socket)
=============================================================================
