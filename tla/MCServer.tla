------------------------------ MODULE MCServer ------------------------------
(***************************************************************************)
(* Small instances of Server.  Clients are interchangeable, and so is the  *)
(* memory of the handlers.                                                 *)
(***************************************************************************)
EXTENDS Server, TLC

Symmetry == Permutations(Clients) \union Permutations(Handlers)
=============================================================================
