----------------------------- MODULE MCDelivery -----------------------------
(***************************************************************************)
(* Small instances of Delivery.  The second metric is large enough to fill *)
(* a request on its own and to push the cache over its limit.              *)
(***************************************************************************)
EXTENDS Delivery

MCSize == [m \in Metric |-> IF m = 2 THEN 2 ELSE 1]
=============================================================================
