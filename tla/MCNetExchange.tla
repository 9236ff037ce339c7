---------------------------- MODULE MCNetExchange ----------------------------
(***************************************************************************)
(* The instance of NetExchange that is checked: no symmetry, since it is   *)
(* checked for liveness too.                                               *)
(***************************************************************************)
EXTENDS NetExchange
=============================================================================
