----------------------------- MODULE MCCommands -----------------------------
(***************************************************************************)
(* A small instance of Commands.  Pids and modules are interchangeable.    *)
(***************************************************************************)
EXTENDS Commands, TLC

Symmetry == Permutations(Pids) \union Permutations(Modules)
=============================================================================
