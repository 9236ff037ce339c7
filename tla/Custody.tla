------------------------------- MODULE Custody -------------------------------
(***************************************************************************)
(* What the agent promises about the metrics it was given, whatever its    *)
(* lists look like: each metric is in one place, moves along a fixed set   *)
(* of edges, and once given up never comes back.                           *)
(*                                                                         *)
(*      unborn -> stored -> inflight -> gone                               *)
(*                  |  ^-------'          ^                                *)
(*                  '---------------------'                                *)
(*                                                                         *)
(* A stored metric is given up either by an eviction, which takes some of  *)
(* them, or by a flush, which takes them all.  What is in flight leaves    *)
(* by whole requests, and an answer that brings metrics back gives none    *)
(* up.                                                                     *)
(***************************************************************************)
EXTENDS Naturals

CONSTANT Metric

VARIABLE place      \* place[m]: where metric m is

At(p) == {m \in Metric : place[m] = p}

\* The metrics of D are given up, the metrics of B move to p
Moved(D, B, p) ==
  [m \in Metric |-> IF m \in D THEN "gone" ELSE IF m \in B THEN p ELSE place[m]]

Init == place = [m \in Metric |-> "unborn"]

\* One more metric enters the store
Accept ==
  \E m \in At("unborn") : place' = Moved({}, {m}, "stored")

\* Some stored metrics are evicted, some others leave in a request
Dispatch ==
  \E D, B \in SUBSET At("stored") :
    /\ D \intersect B = {}
    /\ place' = Moved(D, B, "inflight")

\* A request failed: its metrics are stored again
Return ==
  \E B \in SUBSET At("inflight") : place' = Moved({}, B, "stored")

\* A request was answered for good; the answer may cost the whole store
Settle ==
  \E B \in SUBSET At("inflight") :
    \E D \in {B, B \union At("stored")} : place' = Moved(D, {}, "gone")

\* The whole store is given up, with or without what is in flight
Discard ==
  \E D \in {At("stored"), At("stored") \union At("inflight")} :
    place' = Moved(D, {}, "gone")

Next == Accept \/ Dispatch \/ Return \/ Settle \/ Discard

Spec == Init /\ [][Next]_place
=============================================================================
