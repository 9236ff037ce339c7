------------------------------- MODULE MCConfig -------------------------------
(***************************************************************************)
(* A small instance of Config: ints of 8 bits and a mebibyte of 3 bytes,   *)
(* so that 40 mebibytes still fit and 43 would not.  The keys are those of *)
(* a setting at the top and of one below another; the word ends in a "/".  *)
(***************************************************************************)
EXTENDS Config

MCWritten == [n \in Numbers |-> IF n = "40" THEN 40 ELSE 0]
MCTrimmed == [s \in Scalars |-> IF s = "x/" THEN "x" ELSE s]
MCFiles == {<<"redis", ".yml">>, <<"disk", ".yml", ".bak">>, <<"a", ".yml", "b", ".yml">>}
=============================================================================
