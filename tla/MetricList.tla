----------------------------- MODULE MetricList -----------------------------
(***************************************************************************)
(* The singly linked lists of metrics, down to their pointers:             *)
(* lib/monikor/src/metrics/metric_list.c.  They are shared by the store,   *)
(* the requests in flight and the answers, which move nodes between them.  *)
(*                                                                         *)
(* The heap is a finite set of nodes: malloc fails when none is free, and  *)
(* a node freed can be handed out again.  monikor_metric_list_remove_if    *)
(* is one action per turn of its loop; the other functions are one action. *)
(***************************************************************************)
EXTENDS Integers, SequencesExt, FiniteSetsExt

CONSTANTS
  Lists,
  Nodes,       \* the memory there is for nodes
  NULL,
  Weights      \* the values monikor_metric_node_size may have

ASSUME MetricListAssumption ==
  /\ IsFiniteSet(Nodes)
  /\ NULL \notin Nodes
  /\ Weights \subseteq Nat \ {0}
  /\ Weights # {}

VARIABLES
  allocated,   \* the nodes malloc has handed out
  next,        \* node->next
  weight,      \* the size of node->metric and the node
  first, last, size, data_size,     \* the fields of each list
  scanned,     \* the list monikor_metric_list_remove_if is at work on, or NULL
  node, prev   \* its local variables

heap   == <<allocated, next, weight>>
fields == <<first, last, size, data_size>>
loop   == <<scanned, node, prev>>
vars   == <<allocated, next, weight, first, last, size, data_size,
            scanned, node, prev>>

Idle == scanned = NULL

\* malloc returns one of these
Free == Nodes \ allocated

\* The nodes met from n by following next, NULL once the end is reached
Walk(n) ==
  LET at[i \in 0 .. Cardinality(Nodes)] ==
        IF i = 0 THEN n ELSE IF at[i - 1] = NULL THEN NULL ELSE next[at[i - 1]]
  IN  at

Reachable(n) == Range(Walk(n)) \ {NULL}

Init ==
  /\ allocated = {}
  /\ next = [n \in Nodes |-> NULL]
  /\ weight = [n \in Nodes |-> Min(Weights)]      \* read only once allocated
  /\ first = [l \in Lists |-> NULL]
  /\ last = [l \in Lists |-> NULL]
  /\ size = [l \in Lists |-> 0]
  /\ data_size = [l \in Lists |-> 0]
  /\ scanned = NULL
  /\ node = NULL
  /\ prev = NULL

-----------------------------------------------------------------------------
\* monikor_metric_list_push, when malloc has a node: push_node
Push(l, n, w) ==
  /\ Idle
  /\ n \in Free
  /\ allocated' = allocated \union {n}
  /\ weight' = [weight EXCEPT ![n] = w]
  /\ next' = IF size[l] = 0
             THEN [next EXCEPT ![n] = NULL]
             ELSE [next EXCEPT ![n] = NULL, ![last[l]] = n]
  /\ first' = IF size[l] = 0 THEN [first EXCEPT ![l] = n] ELSE first
  /\ last' = [last EXCEPT ![l] = n]
  /\ size' = [size EXCEPT ![l] = @ + 1]
  /\ data_size' = [data_size EXCEPT ![l] = @ + w]
  /\ UNCHANGED loop

\* monikor_metric_list_push, when malloc fails: -1, the metric is the caller's
PushFails ==
  /\ Idle
  /\ Free = {}
  /\ UNCHANGED vars

\* Mutant: the list does not forget its last node
Pop_KeepsLast(l) ==
  /\ Idle
  /\ first[l] # NULL
  /\ first' = [first EXCEPT ![l] = next[first[l]]]
  /\ size' = [size EXCEPT ![l] = @ - 1]
  /\ data_size' = [data_size EXCEPT ![l] = @ - weight[first[l]]]
  /\ allocated' = allocated \ {first[l]}
  /\ UNCHANGED <<next, weight, last, loop>>

\* monikor_metric_list_pop of a list that has a node
Pop(l) ==
  /\ Idle
  /\ first[l] # NULL
  /\ first' = [first EXCEPT ![l] = next[first[l]]]
  /\ last' = IF first[l] = last[l] THEN [last EXCEPT ![l] = NULL] ELSE last
  /\ size' = [size EXCEPT ![l] = @ - 1]
  /\ data_size' = [data_size EXCEPT ![l] = @ - weight[first[l]]]
  /\ allocated' = allocated \ {first[l]}
  /\ UNCHANGED <<next, weight, loop>>

\* Mutant: the bytes of the tail are forgotten
Concat_Bytes(h, t) ==
  /\ Idle
  /\ h # t
  /\ next' = IF size[h] # 0 /\ size[t] # 0
             THEN [next EXCEPT ![last[h]] = first[t]] ELSE next
  /\ first' = [first EXCEPT ![h] = IF size[h] = 0 /\ size[t] # 0 THEN first[t] ELSE @,
                            ![t] = NULL]
  /\ last' = [last EXCEPT ![h] = IF size[t] # 0 THEN last[t] ELSE @, ![t] = NULL]
  /\ size' = [size EXCEPT ![h] = @ + size[t], ![t] = 0]
  /\ data_size' = [data_size EXCEPT ![t] = 0]
  /\ UNCHANGED <<allocated, weight, loop>>

\* monikor_metric_list_concat
Concat(h, t) ==
  /\ Idle
  /\ h # t
  /\ next' = IF size[h] # 0 /\ size[t] # 0
             THEN [next EXCEPT ![last[h]] = first[t]] ELSE next
  /\ first' = [first EXCEPT ![h] = IF size[h] = 0 /\ size[t] # 0 THEN first[t] ELSE @,
                            ![t] = NULL]
  /\ last' = [last EXCEPT ![h] = IF size[t] # 0 THEN last[t] ELSE @, ![t] = NULL]
  /\ size' = [size EXCEPT ![h] = @ + size[t], ![t] = 0]
  /\ data_size' = [data_size EXCEPT ![h] = @ + data_size[t], ![t] = 0]
  /\ UNCHANGED <<allocated, weight, loop>>

\* monikor_metric_list_empty
Empty(l) ==
  /\ Idle
  /\ allocated' = allocated \ Reachable(first[l])
  /\ first' = [first EXCEPT ![l] = NULL]
  /\ last' = [last EXCEPT ![l] = NULL]
  /\ size' = [size EXCEPT ![l] = 0]
  /\ data_size' = [data_size EXCEPT ![l] = 0]
  /\ UNCHANGED <<next, weight, loop>>

-----------------------------------------------------------------------------
(* monikor_metric_list_remove_if, with a predicate that may hold of any node *)

RemoveIfBegin(l) ==
  /\ Idle
  /\ first[l] # NULL
  /\ scanned' = l
  /\ node' = first[l]
  /\ prev' = NULL
  /\ UNCHANGED <<heap, fields>>

\* The loop goes to next, read before the predicate was called
Advance ==
  /\ node' = next[node]
  /\ scanned' = IF next[node] = NULL THEN NULL ELSE scanned

\* Mutant: the node removed becomes prev
RemoveIfTakes_Prev ==
  /\ ~Idle
  /\ next' = IF prev # NULL THEN [next EXCEPT ![prev] = next[node]] ELSE next
  /\ first' = IF node = first[scanned]
              THEN [first EXCEPT ![scanned] = next[node]] ELSE first
  /\ last' = IF node = last[scanned] THEN [last EXCEPT ![scanned] = prev] ELSE last
  /\ size' = [size EXCEPT ![scanned] = @ - 1]
  /\ data_size' = [data_size EXCEPT ![scanned] = @ - weight[node]]
  /\ allocated' = allocated \ {node}
  /\ Advance
  /\ prev' = node
  /\ UNCHANGED weight

\* The predicate holds: the node is unlinked and freed
RemoveIfTakes ==
  /\ ~Idle
  /\ next' = IF prev # NULL THEN [next EXCEPT ![prev] = next[node]] ELSE next
  /\ first' = IF node = first[scanned]
              THEN [first EXCEPT ![scanned] = next[node]] ELSE first
  /\ last' = IF node = last[scanned] THEN [last EXCEPT ![scanned] = prev] ELSE last
  /\ size' = [size EXCEPT ![scanned] = @ - 1]
  /\ data_size' = [data_size EXCEPT ![scanned] = @ - weight[node]]
  /\ allocated' = allocated \ {node}
  /\ Advance
  /\ UNCHANGED <<weight, prev>>

\* The predicate does not hold
RemoveIfLeaves ==
  /\ ~Idle
  /\ prev' = node
  /\ Advance
  /\ UNCHANGED <<heap, fields>>

Next ==
  \/ \E l \in Lists, n \in Nodes, w \in Weights : Push(l, n, w)
  \/ PushFails
  \/ \E l \in Lists : Pop(l)
  \/ \E h, t \in Lists : Concat(h, t)
  \/ \E l \in Lists : Empty(l)
  \/ \E l \in Lists : RemoveIfBegin(l)
  \/ RemoveIfTakes
  \/ RemoveIfLeaves

Spec == Init /\ [][Next]_vars

-----------------------------------------------------------------------------
(* Properties *)

\* The nodes of a list: as many as its size says, from first on
Chain(l) == [i \in 1 .. size[l] |-> Walk(first[l])[i - 1]]

\* What the nodes of s weigh
Weighs(s) == LET sum[k \in 0 .. Len(s)] ==
                   IF k = 0 THEN 0 ELSE sum[k - 1] + weight[s[k]]
             IN  sum[Len(s)]

TypeOK ==
  /\ allocated \subseteq Nodes
  /\ next \in [Nodes -> Nodes \union {NULL}]
  /\ weight \in [Nodes -> Weights]
  /\ first \in [Lists -> Nodes \union {NULL}]
  /\ last \in [Lists -> Nodes \union {NULL}]
  /\ size \in [Lists -> 0 .. Cardinality(Nodes)]
  /\ data_size \in [Lists -> Nat]
  /\ scanned \in Lists \union {NULL}
  /\ node \in Nodes \union {NULL}
  /\ prev \in Nodes \union {NULL}

\* Through every splice (metric_list.c:86-92, 104-107, 131-136, 156-162), the
\* chain of a list has size nodes, ends there, and last is its end.
EndsMeet ==
  \A l \in Lists :
    /\ Reachable(first[l]) = Range(Chain(l))
    /\ Cardinality(Reachable(first[l])) = size[l]
    /\ last[l] = IF size[l] = 0 THEN NULL ELSE Chain(l)[size[l]]

\* Every node malloc gave is in one list and no list holds a freed node: no
\* concat shares nodes, no removal leaves a pointer to what it freed.
OneOwner ==
  /\ \A l, k \in Lists : l # k => Reachable(first[l]) \intersect Reachable(first[k]) = {}
  /\ UNION {Reachable(first[l]) : l \in Lists} = allocated

\* What every function of the list relies on
WellFormed == TypeOK /\ EndsMeet /\ OneOwner

\* data_size is what the nodes weigh: the eviction of the cache, which pops until
\* it is low enough (metric_store.c:98), never pops an empty list.
DataSizeExact == \A l \in Lists : data_size[l] = Weighs(Chain(l))

Abstract == INSTANCE Queues WITH contents <- [l \in Lists |-> Chain(l)]

\* The pointer code implements lists: each turn of remove_if removes the node it
\* is at or nothing, whatever was removed before it.
ImplementsQueues == Abstract!Spec
=============================================================================
