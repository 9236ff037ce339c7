---------------------------- MODULE MCMetricStore ----------------------------
(***************************************************************************)
(* Small instances of MetricStore: two keys, one of which is pushed as     *)
(* everything the modules and the clients of the local socket push.        *)
(***************************************************************************)
EXTENDS MetricStore

In(k, t, f, v) == [key |-> k, type |-> t, flags |-> f, value |-> v]

MCInputs ==
  {In("a", "int", {"delta"}, v) : v \in {1, 3}}
    \union {In("a", "int", {"delta", "aggregate"}, 2),
            In("a", "int", {"aggregate"}, 2),
            In("a", "int", {}, 3),
            In("a", "float", {"delta"}, 2),
            In("a", "string", {"aggregate"}, 1),
            In("b", "int", {"delta", "rate", "aggregate"}, 3),
            In("b", "int", {"delta", "rate"}, 1),
            In("b", "string", {"delta"}, 2),
            In("b", "string", {"delta"}, 3)}

\* Steps of the wall clock between two polls of a module
MCLater == {1, 2}
=============================================================================
