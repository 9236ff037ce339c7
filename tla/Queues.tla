------------------------------- MODULE Queues -------------------------------
(***************************************************************************)
(* What the metric lists promise to the store and to the senders: lists of *)
(* nodes that grow at the end, shrink from the front or by the removal of  *)
(* chosen nodes, and move as a whole to the end of another list.           *)
(***************************************************************************)
EXTENDS Naturals, SequencesExt

CONSTANTS Lists, Nodes

VARIABLE contents      \* contents[l]: the nodes of list l, oldest first

Init == contents = [l \in Lists |-> <<>>]

Push(l, n) ==
  /\ \A k \in Lists : n \notin Range(contents[k])
  /\ contents' = [contents EXCEPT ![l] = Append(@, n)]

Pop(l) ==
  /\ contents[l] # <<>>
  /\ contents' = [contents EXCEPT ![l] = Tail(@)]

Concat(head, tail) ==
  /\ head # tail
  /\ contents' = [contents EXCEPT ![head] = contents[head] \o contents[tail],
                                  ![tail] = <<>>]

Discard(l, i) ==
  contents' = [contents EXCEPT ![l] = RemoveAt(@, i)]

Empty(l) == contents' = [contents EXCEPT ![l] = <<>>]

Next ==
  \/ \E l \in Lists, n \in Nodes : Push(l, n)
  \/ \E l \in Lists : Pop(l)
  \/ \E h, t \in Lists : Concat(h, t)
  \/ \E l \in Lists : \E i \in DOMAIN contents[l] : Discard(l, i)
  \/ \E l \in Lists : Empty(l)

Spec == Init /\ [][Next]_contents
=============================================================================
