--------------------------- MODULE DeliveryProofs ---------------------------
(***************************************************************************)
(* Proofs about Delivery, and about the configuration file that its limits *)
(* are read from.                                                          *)
(*                                                                         *)
(* Delivery: for every number of metrics and requests, every size and      *)
(* every limit.                                                            *)
(*                                                                         *)
(* Config: for files of every size and depth, with every number of         *)
(* documents.  TreeInv says how the elements and the frames of the parser  *)
(* hang together; OutlineInv that the elements say what the outline of the *)
(* last document does, entry by entry, and what is not said yet where the  *)
(* parser is in the middle of it.  A lookup is then followed from sibling  *)
(* to sibling, up to the greatest one it gets to (GreatestOf).             *)
(***************************************************************************)
EXTENDS Delivery, Config, FiniteSetTheorems, SequenceTheorems, WellFoundedInduction, TLAPS

-----------------------------------------------------------------------------
(* Lists: what cutting and joining them does to their elements *)

\* The first k elements of a list, and the others, are lists with known items.
LEMMA CutItems ==
  ASSUME NEW S, NEW s \in Seq(S), NEW k \in 0 .. Len(s)
  PROVE  /\ Take(s, k) \in Seq(S)
         /\ Len(Take(s, k)) = k
         /\ \A i \in 1 .. k : Take(s, k)[i] = s[i]
         /\ Drop(s, k) \in Seq(S)
         /\ Len(Drop(s, k)) = Len(s) - k
         /\ \A i \in 1 .. Len(s) - k : Drop(s, k)[i] = s[k + i]
  BY DEF Take, Drop

\* The range of a list is the set of its items.
LEMMA RangeItems ==
  ASSUME NEW S, NEW s \in Seq(S)
  PROVE  /\ Range(s) = {s[i] : i \in 1 .. Len(s)}
         /\ Range(s) \subseteq S
         /\ DOMAIN s = 1 .. Len(s)
  BY DEF Range

\* Cutting a list in two (evict_cache, the loop of send_all) shares its
\* elements out.
LEMMA CutShares ==
  ASSUME NEW S, NEW s \in Seq(S), NEW k \in 0 .. Len(s)
  PROVE  /\ Range(Take(s, k)) \union Range(Drop(s, k)) = Range(s)
         /\ IsInjective(s) =>
              /\ IsInjective(Take(s, k))
              /\ IsInjective(Drop(s, k))
              /\ Range(Take(s, k)) \intersect Range(Drop(s, k)) = {}
  <1> DEFINE t == Take(s, k)
             d == Drop(s, k)
  <1>1. /\ t \in Seq(S) /\ Len(t) = k /\ \A i \in 1 .. k : t[i] = s[i]
        /\ d \in Seq(S) /\ Len(d) = Len(s) - k
        /\ \A i \in 1 .. Len(s) - k : d[i] = s[k + i]
    BY CutItems
  <1>2. /\ Range(s) = {s[i] : i \in 1 .. Len(s)} /\ DOMAIN s = 1 .. Len(s)
        /\ Range(t) = {t[i] : i \in 1 .. k} /\ DOMAIN t = 1 .. k
        /\ Range(d) = {d[i] : i \in 1 .. Len(s) - k}
        /\ DOMAIN d = 1 .. Len(s) - k
    BY <1>1, RangeItems
  <1> HIDE DEF t, d
  <1>3. ASSUME NEW i \in 1 .. Len(s)
        PROVE  s[i] \in Range(t) \union Range(d)
    <2>1. CASE i \in 1 .. k
      BY <2>1, <1>1, <1>2
    <2>2. CASE i \notin 1 .. k
      <3>1. i - k \in 1 .. Len(s) - k /\ k + (i - k) = i
        BY <2>2
      <3>2. d[i - k] = s[i]
        BY <3>1, <1>1
      <3>3. QED
        BY <3>1, <3>2, <1>2
    <2>3. QED
      BY <2>1, <2>2
  <1>4. Range(t) \union Range(d) \subseteq Range(s)
    <2>1. ASSUME NEW i \in 1 .. k PROVE t[i] \in Range(s)
      BY <1>1, <1>2
    <2>2. ASSUME NEW i \in 1 .. Len(s) - k PROVE d[i] \in Range(s)
      <3>1. k + i \in 1 .. Len(s)
        OBVIOUS
      <3>2. QED
        BY <3>1, <1>1, <1>2
    <2>3. QED
      BY <2>1, <2>2, <1>2
  <1>5. ASSUME IsInjective(s)
        PROVE  /\ IsInjective(t) /\ IsInjective(d)
               /\ Range(t) \intersect Range(d) = {}
    <2>1. \A i, j \in 1 .. Len(s) : s[i] = s[j] => i = j
      BY <1>5, <1>2 DEF IsInjective
    <2>2. IsInjective(t)
      BY <2>1, <1>1, <1>2 DEF IsInjective
    <2>3. IsInjective(d)
      <3>1. ASSUME NEW i \in 1 .. Len(s) - k, NEW j \in 1 .. Len(s) - k, d[i] = d[j]
            PROVE  i = j
        <4>1. k + i \in 1 .. Len(s) /\ k + j \in 1 .. Len(s) /\ s[k + i] = s[k + j]
          BY <3>1, <1>1
        <4>2. k + i = k + j
          BY <4>1, <2>1
        <4>3. QED
          BY <4>2
      <3>2. QED
        BY <3>1, <1>2 DEF IsInjective
    <2>4. ASSUME NEW i \in 1 .. k, NEW j \in 1 .. Len(s) - k, t[i] = d[j]
          PROVE  FALSE
      <3>1. i \in 1 .. Len(s) /\ k + j \in 1 .. Len(s) /\ s[i] = s[k + j]
        BY <2>4, <1>1
      <3>2. i = k + j
        BY <3>1, <2>1
      <3>3. QED
        BY <3>2
    <2>5. QED
      BY <2>2, <2>3, <2>4, <1>2
  <1>6. Range(t) \union Range(d) = Range(s)
    <2>1. Range(s) \subseteq Range(t) \union Range(d)
      BY <1>2, <1>3
    <2>2. QED
      BY <2>1, <1>4
  <1>7. QED
    BY <1>5, <1>6 DEF t, d

\* Joining two lists (monikor_metric_list_concat) puts their elements together.
LEMMA JoinUnites ==
  ASSUME NEW S, NEW s \in Seq(S), NEW t \in Seq(S)
  PROVE  /\ s \o t \in Seq(S)
         /\ Range(s \o t) = Range(s) \union Range(t)
         /\ (/\ IsInjective(s) /\ IsInjective(t)
             /\ Range(s) \intersect Range(t) = {}) => IsInjective(s \o t)
  <1> DEFINE u == s \o t
  <1>1. /\ u \in Seq(S) /\ Len(u) = Len(s) + Len(t)
        /\ \A i \in 1 .. Len(s) : u[i] = s[i]
        /\ \A i \in 1 .. Len(t) : u[Len(s) + i] = t[i]
    OBVIOUS
  <1>2. /\ Range(u) = {u[i] : i \in 1 .. Len(s) + Len(t)}
        /\ DOMAIN u = 1 .. Len(s) + Len(t)
        /\ Range(s) = {s[i] : i \in 1 .. Len(s)} /\ DOMAIN s = 1 .. Len(s)
        /\ Range(t) = {t[i] : i \in 1 .. Len(t)} /\ DOMAIN t = 1 .. Len(t)
    BY <1>1, RangeItems
  <1> HIDE DEF u
  <1>3. ASSUME NEW i \in 1 .. Len(s) + Len(t)
        PROVE  \/ i \in 1 .. Len(s) /\ u[i] = s[i]
               \/ i - Len(s) \in 1 .. Len(t) /\ u[i] = t[i - Len(s)]
    <2>1. CASE i \in 1 .. Len(s)
      BY <2>1, <1>1
    <2>2. CASE i \notin 1 .. Len(s)
      <3>1. i - Len(s) \in 1 .. Len(t) /\ Len(s) + (i - Len(s)) = i
        BY <2>2
      <3>2. QED
        BY <3>1, <1>1
    <2>3. QED
      BY <2>1, <2>2
  <1>4. Range(u) \subseteq Range(s) \union Range(t)
    BY <1>2, <1>3
  <1>5. ASSUME NEW i \in 1 .. Len(s) PROVE s[i] \in Range(u)
    BY <1>1, <1>2
  <1>6. ASSUME NEW i \in 1 .. Len(t) PROVE t[i] \in Range(u)
    <2>1. Len(s) + i \in 1 .. Len(s) + Len(t)
      OBVIOUS
    <2>2. QED
      BY <2>1, <1>1, <1>2
  <1>7. ASSUME IsInjective(s), IsInjective(t), Range(s) \intersect Range(t) = {}
        PROVE  IsInjective(u)
    <2> SUFFICES ASSUME NEW i \in 1 .. Len(s) + Len(t), NEW j \in 1 .. Len(s) + Len(t),
                        u[i] = u[j]
                 PROVE  i = j
      BY <1>2 DEF IsInjective
    <2>1. CASE i \in 1 .. Len(s) /\ j \in 1 .. Len(s)
      BY <2>1, <1>1, <1>2, <1>7 DEF IsInjective
    <2>2. CASE i \notin 1 .. Len(s) /\ j \notin 1 .. Len(s)
      <3>1. /\ i - Len(s) \in 1 .. Len(t) /\ j - Len(s) \in 1 .. Len(t)
            /\ t[i - Len(s)] = t[j - Len(s)]
        BY <2>2, <1>3
      <3>2. i - Len(s) = j - Len(s)
        BY <3>1, <1>2, <1>7 DEF IsInjective
      <3>3. QED
        BY <3>2
    <2>3. CASE i \in 1 .. Len(s) /\ j \notin 1 .. Len(s)
      BY <2>3, <1>1, <1>2, <1>3, <1>7
    <2>4. CASE i \notin 1 .. Len(s) /\ j \in 1 .. Len(s)
      BY <2>4, <1>1, <1>2, <1>3, <1>7
    <2>5. QED
      BY <2>1, <2>2, <2>3, <2>4
  <1>8. Range(u) = Range(s) \union Range(t)
    <2>1. Range(s) \subseteq Range(u) /\ Range(t) \subseteq Range(u)
      BY <1>2, <1>5, <1>6
    <2>2. QED
      BY <1>4, <2>1
  <1>9. u \in Seq(S)
    BY <1>1
  <1>10. QED
    BY <1>7, <1>8, <1>9 DEF u

\* Pushing a new element (monikor_metric_list_push) adds it to the others.
LEMMA PushAdds ==
  ASSUME NEW S, NEW s \in Seq(S), NEW x \in S
  PROVE  /\ Append(s, x) \in Seq(S)
         /\ Range(Append(s, x)) = Range(s) \union {x}
         /\ IsInjective(s) /\ x \notin Range(s) => IsInjective(Append(s, x))
  <1>1. /\ Append(s, x) \in Seq(S) /\ Len(Append(s, x)) = Len(s) + 1
        /\ \A i \in 1 .. Len(s) : Append(s, x)[i] = s[i]
        /\ Append(s, x)[Len(s) + 1] = x
    OBVIOUS
  <1>2. /\ Range(Append(s, x)) = {Append(s, x)[i] : i \in 1 .. Len(s) + 1}
        /\ DOMAIN Append(s, x) = 1 .. Len(s) + 1
        /\ Range(s) = {s[i] : i \in 1 .. Len(s)} /\ DOMAIN s = 1 .. Len(s)
    BY <1>1, RangeItems
  <1>3. \A i \in 1 .. Len(s) + 1 : i \in 1 .. Len(s) \/ i = Len(s) + 1
    OBVIOUS
  <1>4. Range(Append(s, x)) = Range(s) \union {x}
    BY <1>1, <1>2, <1>3
  <1>5. ASSUME IsInjective(s), x \notin Range(s)
        PROVE  IsInjective(Append(s, x))
    BY <1>1, <1>2, <1>3, <1>5 DEF IsInjective
  <1>6. QED
    BY <1>1, <1>4, <1>5

\* The empty list holds nothing.
LEMMA EmptyList ==
  ASSUME NEW S
  PROVE  <<>> \in Seq(S) /\ Range(<<>>) = {} /\ IsInjective(<<>>)
  BY DEF Range, IsInjective

-----------------------------------------------------------------------------
(* Type correctness *)

\* monikor_send_all_metrics keeps the lists lists of metrics.
LEMMA SendAllTyped ==
  ASSUME TypeOK, NEW c \in Seq(Metric), SendAllMetrics(c)
  PROVE  /\ current' \in Seq(Metric)
         /\ cache' \in Seq(Metric)
         /\ active' \subseteq Requests
         /\ batch' \in [Requests -> Seq(Metric)]
         /\ \A r \in Requests \ active' : batch'[r] = <<>>
  <1>1. CASE current = <<>> /\ c = <<>> /\ cache' = c /\ UNCHANGED <<current, net>>
    BY <1>1 DEF TypeOK, net
  <1>2. CASE current' = <<>> /\ SendWithoutList(c)
    BY <1>2, JoinUnites DEF TypeOK, SendWithoutList, net
  <1>3. CASE current' = <<>> /\ SendFails(c)
    <2>1. Uncached(c, current) \in Seq(Metric)
      BY JoinUnites DEF TypeOK, Uncached
    <2>2. cache' \in Seq(Metric)
      BY <1>3, <2>1, CutItems, JoinUnites DEF SendFails
    <2>3. QED
      BY <1>3, <2>2 DEF TypeOK, SendFails, net
  <1>4. CASE current' = <<>> /\ \E r \in Requests : SendStarts(c, r)
    <2>1. Uncached(c, current) \in Seq(Metric)
      BY JoinUnites DEF TypeOK, Uncached
    <2>2. PICK r \in Requests : SendStarts(c, r)
      BY <1>4
    <2>3. PICK k \in 0 .. Len(Uncached(c, current)) :
            /\ batch' = [batch EXCEPT ![r] = Take(Uncached(c, current), k)]
            /\ cache' = Drop(Uncached(c, current), k)
      BY <2>2 DEF SendStarts
    <2>4. /\ Take(Uncached(c, current), k) \in Seq(Metric)
          /\ Drop(Uncached(c, current), k) \in Seq(Metric)
      BY <2>1, CutItems
    <2>5. active' = active \union {r}
      BY <2>2 DEF SendStarts
    <2>6. QED
      BY <1>4, <2>3, <2>4, <2>5 DEF TypeOK
  <1>5. QED
    BY <1>1, <1>2, <1>3, <1>4 DEF SendAllMetrics

\* An eviction leaves a list of metrics.
LEMMA EvictionTyped ==
  ASSUME TypeOK, NEW n \in 0 .. Len(cache)
  PROVE  Drop(cache, n) \in Seq(Metric)
  BY CutItems DEF TypeOK

\* Every handler keeps the types.
LEMMA TypeOKNext == TypeOK /\ [Next]_vars => TypeOK'
  <1> SUFFICES ASSUME TypeOK, [Next]_vars
               PROVE  TypeOK'
    OBVIOUS
  <1> USE DeliveryAssumption DEF DeliveryAssumption
  <1>1. CASE MetricStorePush
    <2>1. pushed' \in Metric /\ pushed' \in 0 .. MaxMetric
      BY <1>1 DEF TypeOK, MetricStorePush, Metric
    <2>2. current' \in Seq(Metric)
      BY <1>1, <2>1, PushAdds DEF TypeOK, MetricStorePush
    <2>3. QED
      BY <1>1, <2>1, <2>2 DEF TypeOK, MetricStorePush, net
  <1>2. CASE MonikorUpdate
    <2>1. PICK n \in 0 .. Len(cache) : SendAllMetrics(Drop(cache, n))
      BY <1>2 DEF MonikorUpdate
    <2>2. /\ current' \in Seq(Metric) /\ cache' \in Seq(Metric)
          /\ active' \subseteq Requests
          /\ batch' \in [Requests -> Seq(Metric)]
          /\ \A r \in Requests \ active' : batch'[r] = <<>>
      BY <2>1, EvictionTyped, SendAllTyped
    <2>3. Range(current) \subseteq Metric
      BY RangeItems DEF TypeOK
    <2>4. QED
      BY <1>2, <2>2, <2>3 DEF TypeOK, MonikorUpdate
  <1>3. CASE MonikorSendAll
    <2>1. /\ current' \in Seq(Metric) /\ cache' \in Seq(Metric)
          /\ active' \subseteq Requests
          /\ batch' \in [Requests -> Seq(Metric)]
          /\ \A r \in Requests \ active' : batch'[r] = <<>>
      BY <1>3, SendAllTyped DEF MonikorSendAll, TypeOK
    <2>2. QED
      BY <1>3, <2>1 DEF TypeOK, MonikorSendAll, hist
  <1>4. ASSUME NEW r \in Requests, HandleServerResponse(r)
        PROVE  TypeOK'
    <2>1. CASE ResponseOk(r)
      BY <2>1, EmptyList
      DEF ResponseOk, RequestOver, UpdateSuccess, TypeOK, store
    <2>2. CASE ResponseFailed(r)
      <3>1. batch[r] \in Seq(Metric) /\ cache \in Seq(Metric)
        BY DEF TypeOK
      <3>2. cache \o batch[r] \in Seq(Metric) /\ Range(batch[r]) \subseteq Metric
        BY <3>1, JoinUnites, RangeItems
      <3>3. QED
        BY <2>2, <3>2, EmptyList
        DEF ResponseFailed, RequestOver, UpdateSuccess, TypeOK
    <2>3. CASE ResponseRejected(r)
      <3>1. /\ current' \in Seq(Metric) /\ cache' \in Seq(Metric)
        BY <2>3, EmptyList DEF ResponseRejected, FlushAll, TypeOK, store
      <3>2. backoff_count' \in Nat /\ streak' \in 0 .. BackoffMax
        BY <2>3 DEF ResponseRejected, TypeOK
      <3>3. QED
        BY <2>3, <3>1, <3>2, EmptyList DEF ResponseRejected, RequestOver, TypeOK
    <2>4. CASE ResponseOther(r)
      BY <2>4, EmptyList DEF ResponseOther, RequestOver, TypeOK, store
    <2>5. QED
      BY <1>4, <2>1, <2>2, <2>3, <2>4 DEF HandleServerResponse
  <1>5. CASE MonikorFlushAll
    BY <1>5, EmptyList DEF MonikorFlushAll, FlushAll, TypeOK, net, hist
  <1>6. CASE MonikorReload
    <2>1. Range(current) \subseteq Metric /\ Range(cache) \subseteq Metric
      BY RangeItems DEF TypeOK
    <2>2. QED
      BY <1>6, <2>1, EmptyList DEF MonikorReload, TypeOK, net
  <1>7. CASE MonikorExit
    BY <1>7, EmptyList DEF MonikorExit, FlushAll, TypeOK, hist
  <1>8. CASE Stopped
    BY <1>8 DEF Stopped, TypeOK, vars
  <1>9. CASE UNCHANGED vars
    BY <1>9 DEF TypeOK, vars
  <1>10. QED
    BY <1>1, <1>2, <1>3, <1>4, <1>5, <1>6, <1>7, <1>8, <1>9 DEF Next

\* The lists hold metrics and nothing is attached to a request that is over,
\* in every execution of the agent.
THEOREM TypeCorrect == Spec => []TypeOK
  <1>1. Init => TypeOK
    <2>1. <<>> \in Seq(Metric)
      BY EmptyList
    <2>2. /\ 0 \in 0 .. MaxMetric /\ 0 \in 0 .. BackoffMax
          /\ \A w \in StackWords : w \in Nat
      BY DeliveryAssumption DEF DeliveryAssumption
    <2>3. QED
      BY <2>1, <2>2 DEF Init, TypeOK
  <1>2. QED
    BY <1>1, TypeOKNext, PTL DEF Spec

-----------------------------------------------------------------------------
(* Custody of a metric *)

\* Nothing but a send takes metrics from the store to the net: what
\* monikor_send_all_metrics does to a store whose lists are apart.
LEMMA SendAllCustody ==
  ASSUME TypeOK, SingleCustody, UNCHANGED pushed,
         NEW c \in Seq(Metric), IsInjective(c), Range(c) \subseteq Range(cache),
         SendAllMetrics(c)
  PROVE  /\ SingleCustody'
         /\ \E B \in SUBSET (Range(c) \union Range(current)) :
              /\ Stored' = (Range(c) \union Range(current)) \ B
              /\ InFlight' = InFlight \union B
  <1> DEFINE all == Uncached(c, current)
  <1>1. /\ all \in Seq(Metric)
        /\ Range(all) = Range(c) \union Range(current)
        /\ IsInjective(all)
    BY JoinUnites DEF TypeOK, SingleCustody, Uncached
  <1>2. Range(all) \subseteq Stored
    BY <1>1 DEF Stored
  <1> HIDE DEF all
  <1>3. CASE current = <<>> /\ c = <<>> /\ cache' = c /\ UNCHANGED <<current, net>>
    <2>1. Stored' = Range(c) \union Range(current) /\ InFlight' = InFlight
      BY <1>3 DEF Stored, InFlight, net
    <2>2. SingleCustody'
      BY <1>3, <2>1, <1>1, <1>2 DEF SingleCustody, Stored, Held, net
    <2>3. QED
      BY <2>1, <2>2
  <1>4. ASSUME current' = <<>>, IsInjective(cache'), Range(cache') = Range(all),
               UNCHANGED net
        PROVE  /\ SingleCustody'
               /\ \E B \in SUBSET (Range(c) \union Range(current)) :
                    /\ Stored' = (Range(c) \union Range(current)) \ B
                    /\ InFlight' = InFlight \union B
    <2>1. Stored' = Range(all) /\ InFlight' = InFlight
      BY <1>4, EmptyList DEF Stored, InFlight, net
    <2>2. SingleCustody'
      BY <1>4, <2>1, <1>2, EmptyList DEF SingleCustody, Held, net
    <2>3. /\ {} \in SUBSET (Range(c) \union Range(current))
          /\ Stored' = (Range(c) \union Range(current)) \ {}
          /\ InFlight' = InFlight \union {}
      BY <2>1, <1>1
    <2>4. QED
      BY <2>2, <2>3
  <1>5. CASE current' = <<>> /\ SendWithoutList(c)
    <2>1. cache' = all /\ UNCHANGED net
      BY <1>5 DEF SendWithoutList, all, Uncached
    <2>2. QED
      BY <1>4, <1>5, <2>1, <1>1
  <1>6. CASE current' = <<>> /\ SendFails(c)
    <2>1. PICK k \in 0 .. Len(all) : cache' = Take(all, k) \o Drop(all, k)
      BY <1>6 DEF SendFails, all
    <2>2. /\ Take(all, k) \in Seq(Metric) /\ Drop(all, k) \in Seq(Metric)
          /\ IsInjective(Take(all, k)) /\ IsInjective(Drop(all, k))
          /\ Range(Take(all, k)) \intersect Range(Drop(all, k)) = {}
          /\ Range(Take(all, k)) \union Range(Drop(all, k)) = Range(all)
      BY <1>1, CutItems, CutShares
    <2>3. IsInjective(cache') /\ Range(cache') = Range(all)
      <3> DEFINE t == Take(all, k)
                 d == Drop(all, k)
      <3>1. t \in Seq(Metric) /\ d \in Seq(Metric)
        BY <2>2
      <3>2. /\ IsInjective(t) /\ IsInjective(d) /\ Range(t) \intersect Range(d) = {}
            /\ Range(t) \union Range(d) = Range(all)
        BY <2>2
      <3>3. cache' = t \o d
        BY <2>1
      <3> HIDE DEF t, d
      <3>4. IsInjective(t \o d) /\ Range(t \o d) = Range(t) \union Range(d)
        BY <3>1, <3>2, JoinUnites
      <3>. QED
        BY <3>2, <3>3, <3>4
    <2>4. UNCHANGED net
      BY <1>6 DEF SendFails
    <2>5. QED
      BY <1>6, <2>3, <2>4, <1>4, <1>1
  <1>7. CASE current' = <<>> /\ \E r \in Requests : SendStarts(c, r)
    <2>1. PICK r \in Requests : SendStarts(c, r)
      BY <1>7
    <2>2. PICK k \in 0 .. Len(all) :
            /\ batch' = [batch EXCEPT ![r] = Take(all, k)]
            /\ cache' = Drop(all, k)
      BY <2>1 DEF SendStarts, all
    <2> DEFINE B == Range(Take(all, k))
    <2>3. /\ IsInjective(Take(all, k)) /\ IsInjective(Drop(all, k))
          /\ B \intersect Range(Drop(all, k)) = {}
          /\ B \union Range(Drop(all, k)) = Range(all)
      BY <1>1, CutShares
    <2>4. /\ batch'[r] = Take(all, k)
          /\ \A s \in Requests \ {r} : batch'[s] = batch[s]
      BY <2>2 DEF TypeOK
    <2>5. batch[r] = <<>>
      BY <2>1 DEF SendStarts, TypeOK
    <2> HIDE DEF B
    <2>6. Stored' = Range(all) \ B
      BY <1>7, <2>2, <2>3, EmptyList DEF Stored
    <2>7. InFlight' = InFlight \union B
      <3>1. \A s \in Requests \ {r} : Range(batch'[s]) = Range(batch[s])
        BY <2>4
      <3>2. Range(batch'[r]) = B /\ Range(batch[r]) = {}
        BY <2>4, <2>5, EmptyList DEF B
      <3>3. QED
        BY <3>1, <3>2 DEF InFlight
    <2>8. \A s \in Requests \ {r} :
            /\ IsInjective(batch'[s])
            /\ Range(batch'[s]) \intersect Range(all) = {}
      BY <2>4, <1>2 DEF SingleCustody
    <2>9. IsInjective(batch'[r]) /\ Range(batch'[r]) = B
      BY <2>3, <2>4 DEF B
    <2>10. ASSUME NEW s \in Requests, NEW t \in Requests, s # t
           PROVE  Range(batch'[s]) \intersect Range(batch'[t]) = {}
      <3>1. CASE s # r /\ t # r
        BY <3>1, <2>4, <2>10 DEF SingleCustody
      <3>2. CASE s = r \/ t = r
        BY <3>2, <2>3, <2>8, <2>9, <2>10
      <3>3. QED
        BY <3>1, <3>2
    <2>11. Held' \subseteq Held
      BY <2>3, <2>6, <2>7, <1>2 DEF Held
    <2>12. \A s \in Requests :
             /\ IsInjective(batch'[s])
             /\ Range(batch'[s]) \intersect Stored' = {}
      BY <2>6, <2>8, <2>9
    <2>13. /\ IsInjective(current') /\ IsInjective(cache')
           /\ Range(current') \intersect Range(cache') = {}
      BY <1>7, <2>2, <2>3, EmptyList
    <2>14. \A m \in Held' : m <= pushed'
      BY <2>11 DEF SingleCustody
    <2>15. SingleCustody'
      BY <2>10, <2>12, <2>13, <2>14 DEF SingleCustody
    <2>16. B \in SUBSET Range(all)
      BY <2>3
    <2>17. QED
      BY <2>6, <2>7, <2>15, <2>16, <1>1
  <1>8. QED
    BY <1>3, <1>5, <1>6, <1>7 DEF SendAllMetrics

\* What an eviction leaves is apart from what it takes.
LEMMA EvictionCustody ==
  ASSUME TypeOK, SingleCustody, NEW n \in 0 .. Len(cache)
  PROVE  /\ IsInjective(Drop(cache, n))
         /\ Range(Drop(cache, n)) \subseteq Range(cache)
  BY CutShares DEF TypeOK, SingleCustody

\* A request that is over takes its batch, and nothing else, off the net.
LEMMA RequestOverCustody ==
  ASSUME TypeOK, SingleCustody, NEW r \in Requests, RequestOver(r)
  PROVE  /\ InFlight' = InFlight \ Range(batch[r])
         /\ Range(batch[r]) \subseteq InFlight
         /\ \A s \in Requests :
              /\ IsInjective(batch'[s])
              /\ Range(batch'[s]) \subseteq Range(batch[s])
              /\ Range(batch'[s]) \intersect Range(batch[r]) = {}
  <1>1. /\ batch'[r] = <<>>
        /\ \A s \in Requests \ {r} : batch'[s] = batch[s]
    BY DEF RequestOver, TypeOK
  <1>2. Range(batch'[r]) = {} /\ IsInjective(batch'[r])
    BY <1>1, EmptyList
  <1>3. \A s \in Requests \ {r} :
          /\ Range(batch'[s]) = Range(batch[s])
          /\ IsInjective(batch'[s])
          /\ Range(batch[s]) \intersect Range(batch[r]) = {}
    BY <1>1 DEF SingleCustody
  <1>4. QED
    BY <1>2, <1>3 DEF InFlight

\* Every handler keeps each metric in one list.
LEMMA SingleCustodyNext == TypeOK /\ SingleCustody /\ [Next]_vars => SingleCustody'
  <1> SUFFICES ASSUME TypeOK, SingleCustody, [Next]_vars
               PROVE  SingleCustody'
    OBVIOUS
  <1>1. CASE MetricStorePush
    <2>1. pushed' = pushed + 1 /\ pushed' \in Metric
      BY <1>1, DeliveryAssumption
      DEF TypeOK, MetricStorePush, Metric, DeliveryAssumption
    <2>2. pushed' \notin Held
      BY <2>1 DEF SingleCustody, TypeOK
    <2>3. /\ current' = Append(current, pushed')
          /\ cache' = cache /\ batch' = batch
      BY <1>1 DEF MetricStorePush, net
    <2>4. /\ IsInjective(current')
          /\ Range(current') = Range(current) \union {pushed'}
      BY <2>1, <2>2, <2>3, PushAdds DEF TypeOK, SingleCustody, Held, Stored
    <2>5. Stored' = Stored \union {pushed'} /\ InFlight' = InFlight
      BY <2>3, <2>4 DEF Stored, InFlight
    <2>6. \A m \in Held' : m <= pushed'
      <3>1. \A m \in Held : m \in Nat /\ m <= pushed
        <4>1. Held \subseteq Metric
          BY RangeItems DEF TypeOK, Held, Stored, InFlight
        <4>2. QED
          BY <4>1 DEF SingleCustody, Metric
      <3>2. Held' = Held \union {pushed'}
        BY <2>5 DEF Held
      <3>3. QED
        BY <2>1, <3>1, <3>2 DEF TypeOK, Metric
    <2>7. \A r \in Requests : Range(batch[r]) \intersect Stored' = {}
      BY <2>2, <2>5 DEF SingleCustody, Held, InFlight
    <2>8. Range(current') \intersect Range(cache') = {}
      BY <2>2, <2>3, <2>4 DEF SingleCustody, Held, Stored
    <2>9. QED
      BY <2>3, <2>4, <2>6, <2>7, <2>8 DEF SingleCustody
  <1>2. CASE MonikorUpdate
    <2>1. PICK n \in 0 .. Len(cache) : SendAllMetrics(Drop(cache, n))
      BY <1>2 DEF MonikorUpdate
    <2>2. UNCHANGED pushed
      BY <1>2 DEF MonikorUpdate
    <2>3. QED
      BY <2>1, <2>2, EvictionTyped, EvictionCustody, SendAllCustody
  <1>3. CASE MonikorSendAll
    <2>1. SendAllMetrics(cache) /\ UNCHANGED pushed
      BY <1>3 DEF MonikorSendAll, hist
    <2>2. cache \in Seq(Metric) /\ IsInjective(cache)
      BY DEF TypeOK, SingleCustody
    <2>3. QED
      BY <2>1, <2>2, SendAllCustody
  <1>4. ASSUME NEW r \in Requests, HandleServerResponse(r)
        PROVE  SingleCustody'
    <2>1. RequestOver(r)
      BY <1>4 DEF HandleServerResponse, ResponseOk, ResponseFailed,
                  ResponseRejected, ResponseOther
    <2>2. /\ InFlight' = InFlight \ Range(batch[r])
          /\ Range(batch[r]) \subseteq InFlight
          /\ \A s \in Requests :
               /\ IsInjective(batch'[s])
               /\ Range(batch'[s]) \subseteq Range(batch[s])
               /\ Range(batch'[s]) \intersect Range(batch[r]) = {}
      BY <2>1, RequestOverCustody
    <2>3. pushed' = pushed
      BY <2>1 DEF RequestOver
    <2>4. ASSUME \/ UNCHANGED store
                 \/ FlushAll
          PROVE  SingleCustody'
      <3>1. /\ IsInjective(current') /\ IsInjective(cache')
            /\ Range(current') \intersect Range(cache') = {}
            /\ Stored' \subseteq Stored
        BY <2>4, EmptyList DEF FlushAll, store, SingleCustody, Stored
      <3>2. Held' \subseteq Held
        BY <2>2, <3>1 DEF Held
      <3>3. QED
        BY <2>2, <2>3, <3>1, <3>2 DEF SingleCustody
    <2>5. CASE ResponseFailed(r)
      <3>1. current' = current /\ cache' = cache \o batch[r]
        BY <2>5 DEF ResponseFailed
      <3>2. /\ cache \in Seq(Metric) /\ batch[r] \in Seq(Metric)
            /\ IsInjective(cache) /\ IsInjective(batch[r])
            /\ Range(batch[r]) \intersect Stored = {}
        BY DEF TypeOK, SingleCustody
      <3>3. /\ Range(cache') = Range(cache) \union Range(batch[r])
            /\ IsInjective(cache')
        BY <3>1, <3>2, JoinUnites DEF Stored
      <3>4. Stored' = Stored \union Range(batch[r])
        BY <3>1, <3>3 DEF Stored
      <3>5. /\ IsInjective(current')
            /\ Range(current') \intersect Range(cache') = {}
        BY <3>1, <3>2, <3>3 DEF SingleCustody, Stored
      <3>6. \A s \in Requests : Range(batch'[s]) \intersect Stored' = {}
        BY <2>2, <3>4 DEF SingleCustody
      <3>7. Held' \subseteq Held
        BY <2>2, <3>4 DEF Held
      <3>8. QED
        BY <2>2, <2>3, <3>3, <3>5, <3>6, <3>7 DEF SingleCustody
    <2>6. QED
      BY <1>4, <2>4, <2>5
      DEF HandleServerResponse, ResponseOk, ResponseRejected, ResponseOther
  <1>5. ASSUME FlushAll, \/ UNCHANGED batch
                         \/ batch' = [r \in Requests |-> <<>>],
               UNCHANGED pushed
        PROVE  SingleCustody'
    <2>1. IsInjective(current') /\ IsInjective(cache') /\ Stored' = {}
      BY <1>5, EmptyList DEF FlushAll, Stored
    <2>2. \A r \in Requests :
            IsInjective(batch'[r]) /\ Range(batch'[r]) \subseteq Range(batch[r])
      BY <1>5, EmptyList DEF SingleCustody
    <2>3. Held' \subseteq Held
      BY <2>1, <2>2 DEF Held, InFlight
    <2>4. QED
      BY <1>5, <2>1, <2>2, <2>3 DEF SingleCustody, Stored
  <1>6. CASE MonikorFlushAll \/ MonikorReload \/ MonikorExit
    BY <1>5, <1>6
    DEF MonikorFlushAll, MonikorReload, MonikorExit, FlushAll, net, hist
  <1>7. CASE Stopped \/ UNCHANGED vars
    BY <1>7 DEF Stopped, vars, SingleCustody, Held, Stored, InFlight
  <1>8. QED
    BY <1>1, <1>2, <1>3, <1>4, <1>6, <1>7 DEF Next

\* In every execution, a metric is in one list at a time and once in it: no
\* handler sends a metric twice at a time or frees one that a list holds.
THEOREM Custodied == Spec => []SingleCustody
  <1>1. Init => SingleCustody
    <2> SUFFICES ASSUME Init
                 PROVE  SingleCustody
      OBVIOUS
    <2>1. /\ current = <<>> /\ cache = <<>>
          /\ \A r \in Requests : batch[r] = <<>>
      BY DEF Init
    <2>2. Stored = {} /\ Held = {}
      BY <2>1, EmptyList DEF Stored, Held, InFlight
    <2>3. QED
      BY <2>1, <2>2, EmptyList DEF SingleCustody
  <1>2. QED
    BY <1>1, TypeCorrect, SingleCustodyNext, PTL DEF Spec

-----------------------------------------------------------------------------
(* Delivery implements Custody *)

\* What the mapping says of a metric, in terms of the lists.
PlacesOfLists ==
  /\ Stored \subseteq Metric /\ InFlight \subseteq Metric
  /\ Stored \intersect InFlight = {}
  /\ \A m \in Held : ~(m > pushed)
  /\ \A m \in Metric :
       /\ m \in Stored => PlaceOf(m) = "stored"
       /\ m \in InFlight => PlaceOf(m) = "inflight"
       /\ m \notin Held => PlaceOf(m) = IF m > pushed THEN "unborn" ELSE "gone"
  /\ Abstract!At("stored") = Stored
  /\ Abstract!At("inflight") = InFlight
  /\ Abstract!At("unborn") = {m \in Metric : m > pushed}

\* With each metric in one list, the mapping puts it where its list is.
LEMMA Places == TypeOK /\ SingleCustody => PlacesOfLists
  <1> SUFFICES ASSUME TypeOK, SingleCustody
               PROVE  PlacesOfLists
    OBVIOUS
  <1>1. Stored \subseteq Metric /\ InFlight \subseteq Metric
    BY RangeItems DEF TypeOK, Stored, InFlight
  <1>2. Stored \intersect InFlight = {}
    BY DEF SingleCustody, InFlight
  <1>3. \A m \in Held : ~(m > pushed)
    <2>1. \A m \in Held : m <= pushed /\ m \in Nat /\ pushed \in Nat
      BY <1>1 DEF SingleCustody, TypeOK, Metric, Held
    <2>2. QED
      BY <2>1
  <1>4. \A m \in Metric :
          /\ m \in Stored => PlaceOf(m) = "stored"
          /\ m \in InFlight => PlaceOf(m) = "inflight"
          /\ m \notin Held => PlaceOf(m) = IF m > pushed THEN "unborn" ELSE "gone"
    BY <1>2, <1>3 DEF PlaceOf, Held
  <1>5. /\ Abstract!At("stored") = Stored
        /\ Abstract!At("inflight") = InFlight
        /\ Abstract!At("unborn") = {m \in Metric : m > pushed}
    BY <1>1, <1>2, <1>3, <1>4 DEF Abstract!At, PlaceMap, Held
  <1>6. QED
    BY <1>1, <1>2, <1>3, <1>4, <1>5 DEF PlacesOfLists

\* A step that accepts nothing moves, in Custody, what it moves in the lists:
\* D leaves them all, B goes to p, nothing else moves.
LEMMA MovesMap ==
  ASSUME TypeOK, SingleCustody, TypeOK', SingleCustody', pushed' = pushed,
         NEW D \in SUBSET Held, NEW B \in SUBSET (Held \ D),
         NEW p \in {"stored", "inflight"},
         Held' = Held \ D,
         B \subseteq IF p = "stored" THEN Stored' ELSE InFlight',
         \A m \in Held' \ B : m \in Stored' <=> m \in Stored
  PROVE  PlaceMap' = Abstract!Moved(D, B, p)
  <1>1. PlacesOfLists /\ PlacesOfLists'
    BY Places, PTL
  <1>2. /\ Held = Stored \union InFlight
        /\ Held' = Stored' \union InFlight'
    BY DEF Held
  <1>3. ASSUME NEW m \in Metric
        PROVE  PlaceOf(m)' = IF m \in D THEN "gone" ELSE IF m \in B THEN p ELSE PlaceOf(m)
    <2>1. CASE m \in D
      BY <2>1, <1>1, <1>2 DEF PlacesOfLists
    <2>2. CASE m \in B
      BY <2>2, <1>1 DEF PlacesOfLists
    <2>3. CASE m \notin D /\ m \notin B /\ m \in Held
      BY <2>3, <1>1, <1>2 DEF PlacesOfLists
    <2>4. CASE m \notin D /\ m \notin B /\ m \notin Held
      BY <2>4, <1>1, <1>2 DEF PlacesOfLists
    <2>5. QED
      BY <2>1, <2>2, <2>3, <2>4
  <1>4. QED
    BY <1>3 DEF Abstract!Moved, PlaceMap

\* A send, after an eviction or not, is a Dispatch.
LEMMA SendImplements ==
  ASSUME TypeOK, SingleCustody, TypeOK', SingleCustody', pushed' = pushed,
         NEW c \in Seq(Metric), IsInjective(c), Range(c) \subseteq Range(cache),
         SendAllMetrics(c)
  PROVE  Abstract!Dispatch
  <1> DEFINE S == Range(c) \union Range(current)
             D == Stored \ S
  <1>1. PICK B \in SUBSET S : Stored' = S \ B /\ InFlight' = InFlight \union B
    BY SendAllCustody
  <1>2. S \subseteq Stored
    BY DEF Stored
  <1> HIDE DEF S
  <1>3. PlacesOfLists
    BY Places
  <1>4. PlaceMap' = Abstract!Moved(D, B, "inflight")
    <2>1. D \in SUBSET Held /\ B \in SUBSET (Held \ D)
      BY <1>2 DEF Held
    <2>2. Held' = Held \ D
      BY <1>1, <1>2, <1>3 DEF Held, PlacesOfLists
    <2>3. B \subseteq InFlight'
      BY <1>1
    <2>4. \A m \in Held' \ B : m \in Stored' <=> m \in Stored
      BY <1>1, <1>2, <1>3 DEF Held, PlacesOfLists
    <2>5. QED
      BY <2>1, <2>2, <2>3, <2>4, MovesMap
  <1>5. /\ D \in SUBSET Abstract!At("stored") /\ B \in SUBSET Abstract!At("stored")
        /\ D \intersect B = {}
    BY <1>2, <1>3 DEF PlacesOfLists
  <1>6. QED
    BY <1>4, <1>5 DEF Abstract!Dispatch

\* A step that only gives up metrics, some or none.
LEMMA GivesUp ==
  ASSUME TypeOK, SingleCustody, TypeOK', SingleCustody', pushed' = pushed,
         NEW D \in SUBSET Held, Stored' = Stored \ D, InFlight' = InFlight \ D
  PROVE  PlaceMap' = Abstract!Moved(D, {}, "gone")
  <1>1. PlaceMap' = Abstract!Moved(D, {}, "stored")
    <2>1. Held' = Held \ D /\ \A m \in Held' \ {} : m \in Stored' <=> m \in Stored
      BY DEF Held
    <2>2. {} \in SUBSET (Held \ D) /\ {} \subseteq Stored'
      OBVIOUS
    <2>3. QED
      BY <2>1, <2>2, MovesMap
  <1>2. QED
    BY <1>1 DEF Abstract!Moved

\* Every handler is a step of Custody, or none.
LEMMA NextImplements ==
  TypeOK /\ SingleCustody /\ TypeOK' /\ SingleCustody' /\ [Next]_vars
    => [Abstract!Next]_PlaceMap
  <1> SUFFICES ASSUME TypeOK, SingleCustody, TypeOK', SingleCustody', [Next]_vars
               PROVE  [Abstract!Next]_PlaceMap
    OBVIOUS
  <1> USE DEF Abstract!Next
  <1>1. PlacesOfLists /\ PlacesOfLists'
    BY Places, PTL
  <1>2. CASE MetricStorePush
    <2>1. /\ pushed' = pushed + 1 /\ pushed' \in Metric
          /\ current' = Append(current, pushed')
          /\ cache' = cache /\ batch' = batch
      BY <1>2, DeliveryAssumption
      DEF MetricStorePush, TypeOK, Metric, DeliveryAssumption, net
    <2>2. Range(current') = Range(current) \union {pushed'}
      BY <2>1, PushAdds DEF TypeOK
    <2>3. Stored' = Stored \union {pushed'} /\ InFlight' = InFlight
      BY <2>1, <2>2 DEF Stored, InFlight
    <2>4. /\ pushed' \in Abstract!At("unborn")
          /\ \A m \in Metric : m # pushed' => (m > pushed <=> m > pushed')
      BY <1>1, <2>1 DEF PlacesOfLists, TypeOK, Metric
    <2>5. ASSUME NEW m \in Metric
          PROVE  PlaceOf(m)' = IF m = pushed' THEN "stored" ELSE PlaceOf(m)
      <3>1. CASE m = pushed'
        BY <3>1, <2>3, <1>1 DEF PlacesOfLists
      <3>2. CASE m # pushed'
        BY <3>2, <2>3, <2>4, <1>1 DEF PlacesOfLists, Held
      <3>3. QED
        BY <3>1, <3>2
    <2>6. PlaceMap' = Abstract!Moved({}, {pushed'}, "stored")
      BY <2>5 DEF Abstract!Moved, PlaceMap
    <2>7. Abstract!Accept
      BY <2>4, <2>6 DEF Abstract!Accept
    <2>8. QED
      BY <2>7
  <1>3. CASE MonikorUpdate
    <2>1. PICK n \in 0 .. Len(cache) : SendAllMetrics(Drop(cache, n))
      BY <1>3 DEF MonikorUpdate
    <2>2. UNCHANGED pushed
      BY <1>3 DEF MonikorUpdate
    <2>3. Abstract!Dispatch
      BY <2>1, <2>2, EvictionTyped, EvictionCustody, SendImplements
    <2>4. QED
      BY <2>3
  <1>4. CASE MonikorSendAll
    <2>1. SendAllMetrics(cache) /\ UNCHANGED pushed
      BY <1>4 DEF MonikorSendAll, hist
    <2>2. cache \in Seq(Metric) /\ IsInjective(cache)
      BY DEF TypeOK, SingleCustody
    <2>3. Abstract!Dispatch
      BY <2>1, <2>2, SendImplements
    <2>4. QED
      BY <2>3
  <1>5. ASSUME NEW r \in Requests, HandleServerResponse(r)
        PROVE  Abstract!Next
    <2> DEFINE B == Range(batch[r])
    <2>1. RequestOver(r)
      BY <1>5 DEF HandleServerResponse, ResponseOk, ResponseFailed,
                  ResponseRejected, ResponseOther
    <2>2. InFlight' = InFlight \ B /\ B \subseteq InFlight
      BY <2>1, RequestOverCustody
    <2>3. pushed' = pushed
      BY <2>1 DEF RequestOver
    <2> HIDE DEF B
    <2>4. B \subseteq Held /\ B \intersect Stored = {}
      BY <2>2, <1>1 DEF Held, PlacesOfLists
    <2>5. CASE UNCHANGED store
      <3>1. Stored' = Stored \ B
        BY <2>4, <2>5 DEF store, Stored
      <3>2. PlaceMap' = Abstract!Moved(B, {}, "gone")
        BY <2>2, <2>3, <2>4, <3>1, GivesUp
      <3>3. B \in SUBSET Abstract!At("inflight") /\ B \in {B, B \union Abstract!At("stored")}
        BY <2>2, <1>1 DEF PlacesOfLists
      <3>4. QED
        BY <3>2, <3>3 DEF Abstract!Settle
    <2>6. CASE FlushAll
      <3>1. Stored' = Stored \ (B \union Stored)
        BY <2>6, EmptyList DEF FlushAll, Stored
      <3>2. InFlight' = InFlight \ (B \union Stored)
        BY <2>2, <1>1 DEF PlacesOfLists
      <3>3. PlaceMap' = Abstract!Moved(B \union Stored, {}, "gone")
        BY <2>3, <2>4, <3>1, <3>2, GivesUp DEF Held
      <3>4. /\ B \in SUBSET Abstract!At("inflight")
            /\ B \union Stored \in {B, B \union Abstract!At("stored")}
        BY <2>2, <1>1 DEF PlacesOfLists
      <3>5. QED
        BY <3>3, <3>4 DEF Abstract!Settle
    <2>7. CASE ResponseFailed(r)
      <3>1. current' = current /\ cache' = cache \o batch[r]
        BY <2>7 DEF ResponseFailed
      <3>2. Range(cache') = Range(cache) \union B
        BY <3>1, JoinUnites DEF TypeOK, B
      <3>3. Stored' = Stored \union B
        BY <3>1, <3>2 DEF Stored
      <3>4. PlaceMap' = Abstract!Moved({}, B, "stored")
        <4>1. Held' = Held \ {}
          BY <2>2, <3>3 DEF Held
        <4>2. \A m \in Held' \ B : m \in Stored' <=> m \in Stored
          BY <3>3
        <4>3. {} \in SUBSET Held /\ B \in SUBSET (Held \ {}) /\ B \subseteq Stored'
          BY <2>4, <3>3
        <4>4. QED
          BY <2>3, <4>1, <4>2, <4>3, MovesMap
      <3>5. B \in SUBSET Abstract!At("inflight")
        BY <2>2, <1>1 DEF PlacesOfLists
      <3>6. QED
        BY <3>4, <3>5 DEF Abstract!Return
    <2>8. QED
      BY <1>5, <2>5, <2>6, <2>7
      DEF HandleServerResponse, ResponseOk, ResponseRejected, ResponseOther
  <1>6. CASE MonikorFlushAll \/ MonikorReload
    <2>1. FlushAll /\ UNCHANGED net /\ pushed' = pushed
      BY <1>6 DEF MonikorFlushAll, MonikorReload, FlushAll, hist
    <2>2. Stored' = Stored \ Stored
      BY <2>1, EmptyList DEF FlushAll, Stored
    <2>3. InFlight' = InFlight \ Stored
      BY <2>1, <1>1 DEF net, InFlight, PlacesOfLists
    <2>4. PlaceMap' = Abstract!Moved(Stored, {}, "gone")
      BY <2>1, <2>2, <2>3, GivesUp DEF Held
    <2>5. QED
      BY <2>4, <1>1 DEF Abstract!Discard, PlacesOfLists
  <1>7. CASE MonikorExit
    <2>1. /\ FlushAll /\ pushed' = pushed
          /\ \A r \in Requests : batch'[r] = <<>>
      BY <1>7 DEF MonikorExit, hist
    <2>2. Stored' = Stored \ Held
      BY <2>1, EmptyList DEF FlushAll, Stored, Held
    <2>3. InFlight' = InFlight \ Held
      BY <2>1, EmptyList DEF InFlight, Held
    <2>4. PlaceMap' = Abstract!Moved(Stored \union InFlight, {}, "gone")
      BY <2>1, <2>2, <2>3, GivesUp DEF Held
    <2>5. QED
      BY <2>4, <1>1 DEF Abstract!Discard, PlacesOfLists
  <1>8. CASE Stopped \/ UNCHANGED vars
    BY <1>8 DEF Stopped, vars, PlaceMap, PlaceOf, Held, Stored, InFlight
  <1>9. QED
    BY <1>2, <1>3, <1>4, <1>5, <1>6, <1>7, <1>8 DEF Next

\* The agent implements Custody: whatever fails and however answers interleave,
\* a metric moves from place to place along its edges and never comes back once
\* it is given up.
THEOREM Implements == Spec => ImplementsCustody
  <1>1. Init => Abstract!Init
    <2> SUFFICES ASSUME Init
                 PROVE  Abstract!Init
      OBVIOUS
    <2>1. /\ current = <<>> /\ cache = <<>> /\ pushed = 0
          /\ \A r \in Requests : batch[r] = <<>>
      BY DEF Init
    <2>2. \A m \in Metric : m > pushed
      BY <2>1, DeliveryAssumption DEF Metric, DeliveryAssumption
    <2>3. \A m \in Metric : PlaceOf(m) = "unborn"
      BY <2>2 DEF PlaceOf
    <2>4. QED
      BY <2>3 DEF Abstract!Init, PlaceMap
  <1>2. QED
    BY <1>1, TypeCorrect, Custodied, NextImplements, PTL
    DEF Spec, ImplementsCustody, Abstract!Spec
-----------------------------------------------------------------------------
(* Sizes of lists *)

\* What a metric counts for, when those of X count for nothing
Weight(m, X) == IF m \in X THEN 0 ELSE Size[m]

\* f gives the sizes of the first metrics of s, up to n of them.
Sums(f, s, X, n) ==
  /\ f \in [0 .. n -> Nat]
  /\ f[0] = 0
  /\ \A i \in 1 .. n : f[i] = f[i - 1] + Weight(s[i], X)

\* A set of naturals that is not empty has a least element: the form in which the
\* proofs below use induction.
LEMMA LeastOf ==
  ASSUME NEW F, F \subseteq Nat, F # {}
  PROVE  \E x \in F : \A y \in F : x <= y
  <1>1. \E x \in F : \A y \in F : ~(<<y, x>> \in OpToRel(<, Nat))
    BY NatLessThanWellFounded, WFMin
  <1>2. \A x, y \in Nat : <<y, x>> \in OpToRel(<, Nat) <=> y < x
    BY DEF OpToRel
  <1>3. PICK x \in F : \A y \in F : ~(y < x)
    BY <1>1, <1>2
  <1>. QED
    BY <1>3

LEMMA WeightType ==
  ASSUME NEW m \in Metric, NEW X
  PROVE  Weight(m, X) \in Nat
  BY DeliveryAssumption DEF Weight

LEMMA SumsExist ==
  ASSUME NEW s \in Seq(Metric), NEW X
  PROVE  \E f : Sums(f, s, X, Len(s))
  <1>. DEFINE C == {n \in 0 .. Len(s) : ~ \E f : Sums(f, s, X, n)}
  <1>. SUFFICES ASSUME C # {} PROVE FALSE
    <2>1. Len(s) \in 0 .. Len(s)
      OBVIOUS
    <2>. QED
      BY <2>1
  <1>1. PICK n \in C : \A y \in C : n <= y
    <2>1. C \subseteq Nat
      OBVIOUS
    <2>. HIDE DEF C
    <2>. QED
      BY <2>1, LeastOf
  <1>2. CASE n = 0
    <2>1. Sums([i \in 0 .. 0 |-> 0], s, X, 0)
      BY DEF Sums
    <2>. QED
      BY <1>2, <2>1
  <1>3. CASE n # 0
    <2>1. n - 1 \in 0 .. Len(s) /\ n - 1 \notin C /\ n \in 1 .. Len(s)
      BY <1>1, <1>3
    <2>2. PICK f : Sums(f, s, X, n - 1)
      BY <2>1
    <2>3. Weight(s[n], X) \in Nat
      BY <2>1, WeightType
    <2>. DEFINE g == [i \in 0 .. n |-> IF i = n THEN f[n - 1] + Weight(s[n], X) ELSE f[i]]
    <2>4. f \in [0 .. n - 1 -> Nat] /\ f[0] = 0 /\ n - 1 \in 0 .. n - 1
      BY <2>1, <2>2 DEF Sums
    <2>5. g \in [0 .. n -> Nat] /\ g[0] = 0
      BY <2>1, <2>3, <2>4
    <2>6. ASSUME NEW i \in 1 .. n
          PROVE  g[i] = g[i - 1] + Weight(s[i], X)
      <3>1. CASE i = n
        BY <2>1, <3>1
      <3>2. CASE i # n
        <4>1. i \in 1 .. n - 1 /\ g[i] = f[i] /\ g[i - 1] = f[i - 1]
          BY <2>1, <3>2
        <4>. QED
          BY <2>2, <4>1 DEF Sums
      <3>. QED
        BY <3>1, <3>2
    <2>7. Sums(g, s, X, n)
      BY <2>5, <2>6 DEF Sums
    <2>. QED
      BY <2>7
  <1>. QED
    BY <1>2, <1>3

\* The recursion of SizeBut has what it defines, and it gives the last of the sums.
LEMMA SizeButSums ==
  ASSUME NEW s \in Seq(Metric), NEW X, NEW f, Sums(f, s, X, Len(s))
  PROVE  SizeBut(s, X) = f[Len(s)] /\ SizeBut(s, X) \in Nat
  <1>. DEFINE n == Len(s)
              Def(g) == g = [i \in 0 .. n |->
                               IF i = 0 THEN 0
                               ELSE g[i - 1] + (IF s[i] \in X THEN 0 ELSE Size[s[i]])]
              g == CHOOSE g : Def(g)
  <1>1. /\ f \in [0 .. n -> Nat] /\ f[0] = 0 /\ n \in Nat
        /\ \A i \in 1 .. n : f[i] = f[i - 1] + (IF s[i] \in X THEN 0 ELSE Size[s[i]])
    BY DEF Sums, Weight
  <1>2. Def(f)
    BY <1>1
  <1>3. Def(g)
    BY <1>2
  <1>4. SizeBut(s, X) = g[n]
    BY DEF SizeBut
  <1>. HIDE DEF g
  <1>5. /\ g[0] = 0
        /\ \A i \in 1 .. n : g[i] = g[i - 1] + (IF s[i] \in X THEN 0 ELSE Size[s[i]])
    BY <1>1, <1>3
  <1>6. \A i \in 0 .. n : g[i] = f[i]
    <2>. DEFINE C == {i \in 0 .. n : g[i] # f[i]}
    <2>. SUFFICES ASSUME C # {} PROVE FALSE
      OBVIOUS
    <2>1. PICK i \in C : \A y \in C : i <= y
      <3>1. C \subseteq Nat
        OBVIOUS
      <3>. HIDE DEF C
      <3>. QED
        BY <3>1, LeastOf
    <2>2. i # 0
      BY <1>1, <1>5, <2>1
    <2>3. i \in 1 .. n /\ i - 1 \in 0 .. n /\ i - 1 \notin C
      BY <1>1, <2>1, <2>2
    <2>. QED
      BY <1>1, <1>5, <2>1, <2>3
  <1>. QED
    BY <1>1, <1>4, <1>6


LEMMA SizeType ==
  ASSUME NEW s \in Seq(Metric), NEW X
  PROVE  SizeBut(s, X) \in Nat
  BY SumsExist, SizeButSums

\* Joining two lists adds their sizes up (concat, monikor_metric_list_push_node).
LEMMA SizeOfJoin ==
  ASSUME NEW s \in Seq(Metric), NEW t \in Seq(Metric), NEW X
  PROVE  SizeBut(s \o t, X) = SizeBut(s, X) + SizeBut(t, X)
  <1>. DEFINE m == Len(s)
              n == Len(t)
              u == s \o t
  <1>1. PICK f : Sums(f, s, X, m)
    BY SumsExist
  <1>2. PICK g : Sums(g, t, X, n)
    BY SumsExist
  <1>. DEFINE h == [i \in 0 .. m + n |-> IF i <= m THEN f[i] ELSE f[m] + g[i - m]]
  <1>3. /\ m \in Nat /\ n \in Nat /\ u \in Seq(Metric) /\ Len(u) = m + n
        /\ \A i \in 1 .. m : u[i] = s[i]
        /\ \A i \in 1 .. n : u[m + i] = t[i]
    OBVIOUS
  <1>4. /\ f \in [0 .. m -> Nat] /\ f[0] = 0
        /\ \A i \in 1 .. m : f[i] = f[i - 1] + Weight(s[i], X)
        /\ g \in [0 .. n -> Nat] /\ g[0] = 0
        /\ \A i \in 1 .. n : g[i] = g[i - 1] + Weight(t[i], X)
    BY <1>1, <1>2 DEF Sums
  <1>. HIDE DEF m, n, u
  <1>5. h \in [0 .. m + n -> Nat] /\ h[0] = 0
    <2>1. ASSUME NEW i \in 0 .. m + n
          PROVE  (IF i <= m THEN f[i] ELSE f[m] + g[i - m]) \in Nat
      <3>1. CASE i <= m
        BY <1>3, <1>4, <3>1
      <3>2. CASE ~(i <= m)
        <4>1. i - m \in 0 .. n /\ m \in 0 .. m
          BY <1>3, <3>2
        <4>2. f[m] \in Nat /\ g[i - m] \in Nat
          BY <1>4, <4>1
        <4>. QED
          BY <3>2, <4>2
      <3>. QED
        BY <3>1, <3>2
    <2>. QED
      BY <1>3, <1>4, <2>1
  <1>6. ASSUME NEW i \in 1 .. m + n
        PROVE  h[i] = h[i - 1] + Weight(u[i], X)
    <2>1. i \in 0 .. m + n /\ i - 1 \in 0 .. m + n
      BY <1>3
    <2>2. CASE i <= m
      <3>1. h[i] = f[i] /\ h[i - 1] = f[i - 1] /\ i \in 1 .. m
        BY <1>3, <2>1, <2>2
      <3>. QED
        BY <1>3, <1>4, <3>1
    <2>3. CASE ~(i <= m)
      <3>. DEFINE j == i - m
      <3>1. j \in 1 .. n /\ m + j = i
        BY <1>3, <2>3
      <3>2. u[i] = t[j]
        BY <1>3, <3>1
      <3>3. h[i] = f[m] + g[j]
        BY <2>1, <2>3
      <3>4. g[j] = g[j - 1] + Weight(t[j], X) /\ g[j - 1] \in Nat
        <4>1. j - 1 \in 0 .. n
          BY <1>3, <3>1
        <4>. QED
          BY <1>4, <3>1, <4>1
      <3>5. h[i - 1] = f[m] + g[j - 1]
        <4>1. CASE i - 1 <= m
          <5>1. i - 1 = m /\ j - 1 = 0 /\ m \in 0 .. m
            BY <1>3, <2>3, <4>1
          <5>2. h[i - 1] = f[m] /\ f[m] \in Nat
            BY <1>4, <2>1, <4>1, <5>1
          <5>3. g[j - 1] = 0
            BY <1>4, <5>1
          <5>. QED
            BY <5>2, <5>3
        <4>2. CASE ~(i - 1 <= m)
          <5>1. i - 1 - m = j - 1
            BY <1>3
          <5>. QED
            BY <2>1, <4>2, <5>1
        <4>. QED
          BY <4>1, <4>2
      <3>6. f[m] \in Nat /\ Weight(t[j], X) \in Nat
        <4>1. m \in 0 .. m /\ t[j] \in Metric
          BY <1>3, <3>1 DEF n
        <4>. QED
          BY <1>4, <4>1, WeightType
      <3>. HIDE DEF j, h
      <3>. QED
        BY <3>2, <3>3, <3>4, <3>5, <3>6
    <2>. QED
      BY <2>2, <2>3
  <1>7. Sums(h, u, X, m + n)
    BY <1>5, <1>6 DEF Sums
  <1>8. SizeBut(u, X) = h[m + n] /\ SizeBut(s, X) = f[m] /\ SizeBut(t, X) = g[n]
    <2>1. u \in Seq(Metric) /\ Len(u) = m + n
      BY <1>3
    <2>2. SizeBut(u, X) = h[m + n]
      <3>. HIDE DEF h
      <3>. QED
        BY <1>7, <2>1, SizeButSums
    <2>3. SizeBut(s, X) = f[m] /\ SizeBut(t, X) = g[n]
      BY <1>1, <1>2, SizeButSums DEF m, n
    <2>. QED
      BY <2>2, <2>3
  <1>9. h[m + n] = f[m] + g[n]
    <2>1. m + n \in 0 .. m + n /\ m \in 0 .. m
      BY <1>3
    <2>2. CASE n = 0
      <3>1. m + n = m /\ m <= m /\ f[m] \in Nat
        BY <1>3, <1>4, <2>1, <2>2
      <3>2. h[m] = f[m]
        BY <2>1, <3>1
      <3>3. g[n] = 0
        BY <1>4, <2>2
      <3>4. h[m + n] = h[m]
        BY <3>1
      <3>. HIDE DEF h
      <3>5. f[m] + g[n] = f[m]
        BY <3>1, <3>3
      <3>. QED
        BY <3>2, <3>4, <3>5
    <2>3. CASE n # 0
      <3>1. ~(m + n <= m)
        BY <1>3, <2>3
      <3>2. (m + n) - m = n
        BY <1>3
      <3>3. h[m + n] = f[m] + g[(m + n) - m]
        BY <2>1, <3>1
      <3>. HIDE DEF h
      <3>. QED
        BY <3>2, <3>3
    <2>. QED
      BY <2>2, <2>3
  <1>. QED
    BY <1>8, <1>9 DEF u

\* What counts for nothing does not make a list larger.
LEMMA SizeShrinks ==
  ASSUME NEW s \in Seq(Metric), NEW X, NEW Y, X \subseteq Y
  PROVE  SizeBut(s, Y) <= SizeBut(s, X)
  <1>. DEFINE n == Len(s)
  <1>1. PICK f : Sums(f, s, X, n)
    BY SumsExist
  <1>2. PICK g : Sums(g, s, Y, n)
    BY SumsExist
  <1>3. /\ n \in Nat
        /\ f \in [0 .. n -> Nat] /\ f[0] = 0
        /\ \A i \in 1 .. n : f[i] = f[i - 1] + Weight(s[i], X)
        /\ g \in [0 .. n -> Nat] /\ g[0] = 0
        /\ \A i \in 1 .. n : g[i] = g[i - 1] + Weight(s[i], Y)
    BY <1>1, <1>2 DEF Sums
  <1>. DEFINE C == {i \in 0 .. n : ~(g[i] <= f[i])}
  <1>4. C = {}
    <2>. SUFFICES ASSUME C # {} PROVE FALSE
      OBVIOUS
    <2>1. PICK i \in C : \A y \in C : i <= y
      <3>1. C \subseteq Nat
        OBVIOUS
      <3>. HIDE DEF C
      <3>. QED
        BY <3>1, LeastOf
    <2>2. i # 0
      BY <1>3, <2>1
    <2>3. i \in 1 .. n /\ i - 1 \in 0 .. n /\ i - 1 \notin C
      BY <1>3, <2>1, <2>2
    <2>4. Weight(s[i], Y) <= Weight(s[i], X) /\ Weight(s[i], X) \in Nat /\ Weight(s[i], Y) \in Nat
      <3>1. s[i] \in Metric
        BY <2>3
      <3>2. Weight(s[i], X) \in Nat /\ Weight(s[i], Y) \in Nat
        BY <3>1, WeightType
      <3>3. Weight(s[i], Y) = 0 \/ Weight(s[i], Y) = Weight(s[i], X)
        BY DEF Weight
      <3>. QED
        BY <3>2, <3>3
    <2>5. g[i - 1] <= f[i - 1] /\ g[i - 1] \in Nat /\ f[i - 1] \in Nat
      BY <1>3, <2>3
    <2>6. g[i] = g[i - 1] + Weight(s[i], Y) /\ f[i] = f[i - 1] + Weight(s[i], X)
      BY <1>3, <2>3
    <2>7. g[i] <= f[i]
      BY <2>4, <2>5, <2>6
    <2>. QED
      BY <2>1, <2>7
  <1>5. n \in 0 .. n
    BY <1>3
  <1>6. g[n] <= f[n]
    BY <1>4, <1>5
  <1>. QED
    BY <1>1, <1>2, <1>6, SizeButSums

LEMMA SizeOfNone ==
  ASSUME NEW s \in Seq(Metric), NEW X, Range(s) \subseteq X
  PROVE  SizeBut(s, X) = 0
  <1>. DEFINE f == [i \in 0 .. Len(s) |-> 0]
  <1>1. \A i \in 1 .. Len(s) : s[i] \in X
    BY RangeItems
  <1>2. Sums(f, s, X, Len(s))
    BY <1>1 DEF Sums, Weight
  <1>3. Len(s) \in 0 .. Len(s)
    OBVIOUS
  <1>. QED
    BY <1>2, <1>3, SizeButSums

LEMMA CutJoins ==
  ASSUME NEW s \in Seq(Metric), NEW k \in 0 .. Len(s)
  PROVE  Take(s, k) \o Drop(s, k) = s
  <1>. DEFINE u == Take(s, k) \o Drop(s, k)
  <1>1. /\ Take(s, k) \in Seq(Metric) /\ Len(Take(s, k)) = k
        /\ \A i \in 1 .. k : Take(s, k)[i] = s[i]
        /\ Drop(s, k) \in Seq(Metric) /\ Len(Drop(s, k)) = Len(s) - k
        /\ \A i \in 1 .. Len(s) - k : Drop(s, k)[i] = s[k + i]
    BY CutItems
  <1>2. u \in Seq(Metric) /\ Len(u) = Len(s)
    BY <1>1
  <1>3. ASSUME NEW i \in 1 .. Len(s)
        PROVE  u[i] = s[i]
    <2>1. CASE i <= k
      BY <1>1, <2>1
    <2>2. CASE ~(i <= k)
      <3>1. i - k \in 1 .. Len(s) - k /\ k + (i - k) = i
        BY <2>2
      <3>2. u[i] = Drop(s, k)[i - k]
        BY <1>1, <2>2, <3>1
      <3>. QED
        BY <1>1, <3>1, <3>2
    <2>. QED
      BY <2>1, <2>2
  <1>. HIDE DEF u
  <1>4. u = s
    BY <1>2, <1>3
  <1>. QED
    BY <1>4 DEF u

LEMMA SizeOfRest ==
  ASSUME NEW s \in Seq(Metric), NEW k \in 0 .. Len(s), NEW X
  PROVE  SizeBut(Drop(s, k), X) <= SizeBut(s, X)
  <1>1. Take(s, k) \in Seq(Metric) /\ Drop(s, k) \in Seq(Metric)
    BY CutItems
  <1>2. SizeBut(s, X) = SizeBut(Take(s, k), X) + SizeBut(Drop(s, k), X)
    <2>1. SizeBut(Take(s, k) \o Drop(s, k), X)
            = SizeBut(Take(s, k), X) + SizeBut(Drop(s, k), X)
      BY <1>1, SizeOfJoin
    <2>. QED
      BY <2>1, CutJoins
  <1>3. SizeBut(Take(s, k), X) \in Nat /\ SizeBut(Drop(s, k), X) \in Nat
    BY <1>1, SizeType
  <1>. QED
    BY <1>2, <1>3


-----------------------------------------------------------------------------
(* The queue: the cache and, behind it, the current list *)

LEMMA SameItems ==
  ASSUME NEW S, NEW s \in Seq(S), NEW t \in Seq(S), Len(s) = Len(t),
         \A i \in 1 .. Len(s) : s[i] = t[i]
  PROVE  s = t
  OBVIOUS

LEMMA JoinItems ==
  ASSUME NEW S, NEW s \in Seq(S), NEW t \in Seq(S)
  PROVE  /\ s \o t \in Seq(S)
         /\ Len(s \o t) = Len(s) + Len(t)
         /\ \A i \in 1 .. Len(s) : (s \o t)[i] = s[i]
         /\ \A i \in 1 .. Len(t) : (s \o t)[Len(s) + i] = t[i]
  OBVIOUS

LEMMA NothingBehind ==
  ASSUME NEW S, NEW s \in Seq(S)
  PROVE  s \o <<>> = s
  OBVIOUS

\* Evicting from the cache takes the oldest of the queue.
LEMMA QueueDrop ==
  ASSUME NEW s \in Seq(Metric), NEW t \in Seq(Metric), NEW k \in 0 .. Len(s)
  PROVE  Drop(s, k) \o t = Drop(s \o t, k)
  <1>. DEFINE d == Drop(s, k)
              u == s \o t
              e == Drop(u, k)
  <1>1. /\ d \in Seq(Metric) /\ Len(d) = Len(s) - k
        /\ \A i \in 1 .. Len(s) - k : d[i] = s[k + i]
    BY CutItems
  <1>2. /\ u \in Seq(Metric) /\ Len(u) = Len(s) + Len(t)
        /\ \A i \in 1 .. Len(s) : u[i] = s[i]
        /\ \A i \in 1 .. Len(t) : u[Len(s) + i] = t[i]
    OBVIOUS
  <1>3. k \in 0 .. Len(u)
    BY <1>2
  <1>. HIDE DEF u
  <1>4. /\ e \in Seq(Metric) /\ Len(e) = Len(u) - k
        /\ \A i \in 1 .. Len(u) - k : e[i] = u[k + i]
    BY <1>2, <1>3, CutItems
  <1>. HIDE DEF d, e
  <1>. DEFINE v == d \o t
  <1>5. /\ v \in Seq(Metric) /\ Len(v) = Len(u) - k
        /\ \A i \in 1 .. Len(s) - k : v[i] = d[i]
        /\ \A i \in 1 .. Len(t) : v[(Len(s) - k) + i] = t[i]
    <2>1. /\ v \in Seq(Metric) /\ Len(v) = Len(d) + Len(t)
          /\ \A i \in 1 .. Len(d) : v[i] = d[i]
          /\ \A i \in 1 .. Len(t) : v[Len(d) + i] = t[i]
      <3>1. d \in Seq(Metric)
        BY <1>1
      <3>. QED
        BY <3>1, JoinItems
    <2>2. Len(d) + Len(t) = Len(u) - k
      BY <1>1, <1>2
    <2>. HIDE DEF v
    <2>. QED
      BY <1>1, <2>1, <2>2
  <1>. HIDE DEF v
  <1>6. ASSUME NEW i \in 1 .. Len(u) - k
        PROVE  v[i] = e[i]
    <2>1. CASE i <= Len(s) - k
      <3>1. i \in 1 .. Len(s) - k /\ k + i \in 1 .. Len(s)
        BY <2>1
      <3>. QED
        BY <1>1, <1>2, <1>4, <1>5, <3>1
    <2>2. CASE ~(i <= Len(s) - k)
      <3>. DEFINE j == i - (Len(s) - k)
      <3>1. j \in 1 .. Len(t) /\ (Len(s) - k) + j = i /\ Len(s) + j = k + i
        BY <1>2, <2>2
      <3>2. v[i] = t[j]
        BY <1>5, <3>1
      <3>3. u[k + i] = t[j]
        BY <1>2, <3>1
      <3>. QED
        BY <1>4, <3>2, <3>3
    <2>. QED
      BY <2>1, <2>2
  <1>7. v = e
    BY <1>4, <1>5, <1>6, SameItems
  <1>. QED
    BY <1>7 DEF v, d, e, u

\* What a send does to the queue: nothing, or it takes a batch from its front.
LEMMA SendAllMoves ==
  ASSUME TypeOK, NEW c \in Seq(Metric), SendAllMetrics(c)
  PROVE  \/ /\ cache' \o current' = c \o current
            /\ UNCHANGED net
         \/ \E r \in Requests, k \in 0 .. Len(c \o current) :
              /\ BatchEndsAt(c \o current, k)
              /\ batch' = [batch EXCEPT ![r] = Take(c \o current, k)]
              /\ cache' \o current' = Drop(c \o current, k)
  <1>. DEFINE u == c \o current
  <1>1. u \in Seq(Metric)
    BY JoinUnites DEF TypeOK
  <1>2. CASE current = <<>> /\ c = <<>> /\ cache' = c /\ UNCHANGED <<current, net>>
    BY <1>2
  <1>3. CASE current' = <<>> /\ SendWithoutList(c)
    BY <1>1, <1>3, NothingBehind DEF SendWithoutList
  <1>4. CASE current' = <<>> /\ SendFails(c)
    <2>1. PICK k \in 0 .. Len(u) : cache' = Take(u, k) \o Drop(u, k)
      BY <1>4 DEF SendFails, Uncached
    <2>2. cache' = u
      BY <1>1, <2>1, CutJoins
    <2>. QED
      BY <1>1, <1>4, <2>2, NothingBehind DEF SendFails
  <1>5. CASE current' = <<>> /\ \E r \in Requests : SendStarts(c, r)
    <2>1. PICK r \in Requests, k \in 0 .. Len(u) :
            /\ BatchEndsAt(u, k)
            /\ batch' = [batch EXCEPT ![r] = Take(u, k)]
            /\ cache' = Drop(u, k)
      BY <1>5 DEF SendStarts, Uncached
    <2>2. cache' \o current' = Drop(u, k)
      BY <1>1, <1>5, <2>1, CutItems, NothingBehind
    <2>. QED
      BY <2>1, <2>2
  <1>. QED
    BY <1>2, <1>3, <1>4, <1>5 DEF SendAllMetrics


-----------------------------------------------------------------------------
(* The limits of the configuration *)

\* The batch of a send is below max_send_size without its last metric.
LEMMA BatchBounded ==
  ASSUME NEW u \in Seq(Metric), NEW k \in 0 .. Len(u), BatchEndsAt(u, k),
         Take(u, k) # <<>>
  PROVE  TotalSize(Front(Take(u, k))) < MaxSend
  <1>1. Take(u, k) \in Seq(Metric) /\ Len(Take(u, k)) = k
        /\ \A i \in 1 .. k : Take(u, k)[i] = u[i]
    BY CutItems
  <1>2. k # 0
    BY <1>1
  <1>3. k - 1 \in 0 .. k - 1 /\ k - 1 \in 0 .. Len(u)
    BY <1>2
  <1>4. Take(u, k - 1) \in Seq(Metric) /\ Len(Take(u, k - 1)) = k - 1
        /\ \A i \in 1 .. k - 1 : Take(u, k - 1)[i] = u[i]
    BY <1>3, CutItems
  <1>. DEFINE t == Take(u, k)
              f == Front(t)
              g == Take(u, k - 1)
  <1>. HIDE DEF t
  <1>5. /\ f \in Seq(Metric) /\ Len(f) = k - 1
        /\ \A i \in 1 .. k - 1 : f[i] = t[i]
    BY <1>1, <1>2 DEF Front, t
  <1>. HIDE DEF f, g
  <1>6. f = g
    <2>1. \A i \in 1 .. k - 1 : i \in 1 .. k
      OBVIOUS
    <2>2. \A i \in 1 .. k - 1 : f[i] = g[i]
      BY <1>1, <1>4, <1>5, <2>1 DEF t, g
    <2>. QED
      BY <1>4, <1>5, <2>2, SameItems DEF g
  <1>7. TotalSize(g) < MaxSend
    BY <1>3 DEF BatchEndsAt, g
  <1>. QED
    BY <1>6, <1>7 DEF f, t

LEMMA SendBounded ==
  ASSUME TypeOK, RequestBounded, NEW c \in Seq(Metric), SendAllMetrics(c)
  PROVE  RequestBounded'
  <1>. DEFINE u == c \o current
  <1>1. u \in Seq(Metric)
    BY JoinUnites DEF TypeOK
  <1>2. CASE UNCHANGED net
    BY <1>2 DEF net, RequestBounded
  <1>3. ASSUME NEW r \in Requests, NEW k \in 0 .. Len(u), BatchEndsAt(u, k),
               batch' = [batch EXCEPT ![r] = Take(u, k)]
        PROVE  RequestBounded'
    <2>. SUFFICES ASSUME NEW q \in Requests, batch'[q] # <<>>
                  PROVE  TotalSize(Front(batch'[q])) < MaxSend
      BY DEF RequestBounded, TotalSize
    <2>1. CASE q = r
      <3>1. batch'[q] = Take(u, k)
        BY <1>3, <2>1 DEF TypeOK
      <3>. HIDE DEF u
      <3>. QED
        BY <1>1, <1>3, <3>1, BatchBounded
    <2>2. CASE q # r
      <3>1. batch'[q] = batch[q]
        BY <1>3, <2>2 DEF TypeOK
      <3>. QED
        BY <3>1 DEF RequestBounded
    <2>. QED
      BY <2>1, <2>2
  <1>. QED
    BY <1>2, <1>3, SendAllMoves

LEMMA EmptySize ==
  ASSUME NEW X
  PROVE  SizeBut(<<>>, X) = 0
  BY EmptyList, SizeOfNone

\* A send adds nothing to the queue.
LEMMA SendShrinks ==
  ASSUME TypeOK, NEW c \in Seq(Metric), SendAllMetrics(c), NEW X
  PROVE  SizeBut(cache' \o current', X) <= SizeBut(c \o current, X)
  <1>. DEFINE u == c \o current
  <1>1. u \in Seq(Metric)
    BY JoinUnites DEF TypeOK
  <1>. HIDE DEF u
  <1>2. SizeBut(u, X) \in Nat
    BY <1>1, SizeType
  <1>3. CASE cache' \o current' = u
    BY <1>2, <1>3 DEF u
  <1>4. ASSUME NEW k \in 0 .. Len(u), cache' \o current' = Drop(u, k)
        PROVE  SizeBut(cache' \o current', X) <= SizeBut(u, X)
    BY <1>1, <1>4, SizeOfRest
  <1>. QED
    BY <1>3, <1>4, SendAllMoves DEF u

\* Joining, with what counts in each part.
LEMMA QueueSize ==
  ASSUME TypeOK, NEW X
  PROVE  /\ SizeBut(cache \o current, X) = SizeBut(cache, X) + SizeBut(current, X)
         /\ SizeBut(cache, X) \in Nat /\ SizeBut(current, X) \in Nat
  BY SizeOfJoin, SizeType DEF TypeOK


LEMMA OverBounded ==
  ASSUME TypeOK, RequestBounded, NEW r \in Requests, RequestOver(r)
  PROVE  RequestBounded'
  <1>. SUFFICES ASSUME NEW q \in Requests, batch'[q] # <<>>
                PROVE  TotalSize(Front(batch'[q])) < MaxSend
    BY DEF RequestBounded, TotalSize
  <1>1. batch'[q] = batch[q]
    BY DEF RequestOver, TypeOK
  <1>. QED
    BY <1>1 DEF RequestBounded

\* Every handler keeps the limits.
LEMMA BoundedNext == TypeOK /\ Bounded /\ [Next]_vars => Bounded'
  <1>. SUFFICES ASSUME TypeOK, RequestBounded, StoreBounded, [Next]_vars
                PROVE  RequestBounded' /\ StoreBounded'
    BY DEF Bounded
  <1>1. /\ current \in Seq(Metric) /\ cache \in Seq(Metric)
        /\ \A r \in Requests : batch[r] \in Seq(Metric)
        /\ Len(cache) \in Nat /\ MaxCache \in Nat /\ MaxMetric \in Nat
        /\ pushed \in 0 .. MaxMetric
    BY DeliveryAssumption DEF TypeOK, DeliveryAssumption
  <1>2. SizeBut(cache \o current, recent) <= MaxCache
    BY DEF StoreBounded
  <1>3. SizeBut(cache \o current, recent) \in Nat
    BY <1>1, JoinUnites, SizeType
  <1>4. ASSUME current' = <<>>, cache' = <<>>
        PROVE  StoreBounded'
    <2>1. cache' \o current' = <<>>
      BY <1>4
    <2>2. SizeBut(cache' \o current', recent') = 0
      BY <2>1, EmptySize
    <2>. QED
      BY <1>1, <2>2 DEF StoreBounded
  <1>5. ASSUME UNCHANGED <<store, recent>> PROVE StoreBounded'
    BY <1>5 DEF StoreBounded, store
  <1>6. ASSUME UNCHANGED net PROVE RequestBounded'
    BY <1>6 DEF RequestBounded, net
  <1>7. CASE MetricStorePush
    <2>. DEFINE Y == recent \union {pushed'}
                one == <<pushed'>>
    <2>1. /\ cache' = cache /\ current' = Append(current, pushed')
          /\ recent' = Y /\ pushed' \in Metric /\ UNCHANGED net
      BY <1>1, <1>7 DEF MetricStorePush, Metric
    <2>2. /\ one \in Seq(Metric) /\ Range(one) \subseteq Y
      BY <2>1 DEF Range
    <2>3. cache' \o current' = (cache \o current) \o one
      BY <1>1, <2>1
    <2>4. cache \o current \in Seq(Metric)
      BY <1>1, JoinUnites
    <2>. HIDE DEF Y, one
    <2>5. /\ SizeBut((cache \o current) \o one, Y) = SizeBut(cache \o current, Y) + SizeBut(one, Y)
          /\ SizeBut(one, Y) = 0
      BY <2>2, <2>4, SizeOfJoin, SizeOfNone
    <2>6. SizeBut(cache \o current, Y) <= SizeBut(cache \o current, recent)
      BY <2>4, SizeShrinks DEF Y
    <2>7. SizeBut(cache \o current, Y) \in Nat
      BY <2>4, SizeType
    <2>8. SizeBut((cache \o current) \o one, Y) <= MaxCache
      BY <1>1, <1>2, <1>3, <2>5, <2>6, <2>7
    <2>. QED
      BY <1>6, <2>1, <2>3, <2>8 DEF StoreBounded
  <1>8. CASE MonikorUpdate
    <2>1. PICK n \in 0 .. Len(cache) :
            EvictionEndsAt(cache, n) /\ SendAllMetrics(Drop(cache, n))
      BY <1>8 DEF MonikorUpdate
    <2>. DEFINE c == Drop(cache, n)
                Y == Range(current)
    <2>2. c \in Seq(Metric)
      BY <1>1, CutItems
    <2>3. TotalSize(c) <= MaxCache
      BY <2>1 DEF EvictionEndsAt
    <2>4. recent' = Y
      BY <1>8 DEF MonikorUpdate
    <2>. HIDE DEF c
    <2>5. SendAllMetrics(c)
      BY <2>1 DEF c
    <2>6. SizeBut(cache' \o current', Y) <= SizeBut(c \o current, Y)
      BY <2>2, <2>5, SendShrinks
    <2>7. /\ SizeBut(c \o current, Y) = SizeBut(c, Y) + SizeBut(current, Y)
          /\ SizeBut(current, Y) = 0
          /\ SizeBut(c, Y) <= SizeBut(c, {})
          /\ SizeBut(c, Y) \in Nat /\ SizeBut(c, {}) \in Nat
      BY <1>1, <2>2, SizeOfJoin, SizeOfNone, SizeShrinks, SizeType
    <2>8. SizeBut(cache' \o current', Y) \in Nat
      <3>1. TypeOK'
        BY TypeOKNext
      <3>2. current' \in Seq(Metric) /\ cache' \in Seq(Metric)
        BY <3>1 DEF TypeOK
      <3>3. cache' \o current' \in Seq(Metric)
        BY <3>2, JoinUnites
      <3>. QED
        BY <3>3, SizeType
    <2>9. SizeBut(cache' \o current', Y) <= MaxCache
      BY <1>1, <2>3, <2>6, <2>7, <2>8 DEF TotalSize
    <2>10. RequestBounded'
      BY <2>2, <2>5, SendBounded
    <2>. QED
      BY <2>4, <2>9, <2>10 DEF StoreBounded
  <1>9. CASE MonikorSendAll
    <2>1. SendAllMetrics(cache) /\ recent' = recent
      BY <1>9 DEF MonikorSendAll, hist
    <2>2. SizeBut(cache' \o current', recent) <= SizeBut(cache \o current, recent)
      BY <1>1, <2>1, SendShrinks
    <2>3. SizeBut(cache' \o current', recent) \in Nat
      <3>1. TypeOK'
        BY TypeOKNext
      <3>2. current' \in Seq(Metric) /\ cache' \in Seq(Metric)
        BY <3>1 DEF TypeOK
      <3>3. cache' \o current' \in Seq(Metric)
        BY <3>2, JoinUnites
      <3>. QED
        BY <3>3, SizeType
    <2>4. SizeBut(cache' \o current', recent) <= MaxCache
      BY <1>1, <1>2, <1>3, <2>2, <2>3
    <2>5. RequestBounded'
      BY <1>1, <2>1, SendBounded
    <2>. QED
      BY <2>1, <2>4, <2>5 DEF StoreBounded
  <1>10. ASSUME NEW r \in Requests, HandleServerResponse(r)
         PROVE  RequestBounded' /\ StoreBounded'
    <2>1. RequestBounded'
      <3>1. RequestOver(r)
        BY <1>10 DEF HandleServerResponse, ResponseOk, ResponseFailed,
                     ResponseRejected, ResponseOther
      <3>. QED
        BY <3>1, OverBounded
    <2>2. CASE ResponseOk(r)
      BY <1>5, <2>1, <2>2 DEF ResponseOk
    <2>3. CASE ResponseFailed(r)
      <3>. DEFINE b == batch[r]
                  Y == recent \union Range(b)
      <3>1. /\ current' = current /\ cache' = cache \o b /\ recent' = Y
            /\ b \in Seq(Metric)
        BY <1>1, <2>3 DEF ResponseFailed
      <3>. HIDE DEF b
      <3>2. SizeBut((cache \o b) \o current, Y) = SizeBut(cache \o b, Y) + SizeBut(current, Y)
        <4>1. cache \o b \in Seq(Metric)
          BY <1>1, <3>1, JoinUnites
        <4>. QED
          BY <1>1, <4>1, SizeOfJoin
      <3>3. /\ SizeBut(cache \o b, Y) = SizeBut(cache, Y) + SizeBut(b, Y)
            /\ SizeBut(b, Y) = 0
        BY <1>1, <3>1, SizeOfJoin, SizeOfNone
      <3>4. /\ SizeBut(cache, Y) <= SizeBut(cache, recent)
            /\ SizeBut(current, Y) <= SizeBut(current, recent)
            /\ SizeBut(cache, Y) \in Nat /\ SizeBut(current, Y) \in Nat
        BY <1>1, SizeShrinks, SizeType
      <3>5. /\ SizeBut(cache \o current, recent)
                 = SizeBut(cache, recent) + SizeBut(current, recent)
            /\ SizeBut(cache, recent) \in Nat /\ SizeBut(current, recent) \in Nat
        BY QueueSize
      <3>. HIDE DEF Y
      <3>6. SizeBut((cache \o b) \o current, Y) <= MaxCache
        BY <1>1, <1>2, <3>2, <3>3, <3>4, <3>5
      <3>. QED
        BY <2>1, <3>1, <3>6 DEF StoreBounded
    <2>4. CASE ResponseRejected(r)
      <3>1. \/ current' = <<>> /\ cache' = <<>>
            \/ UNCHANGED <<store, recent>>
        BY <2>4 DEF ResponseRejected, FlushAll
      <3>. QED
        BY <1>4, <1>5, <2>1, <3>1
    <2>5. CASE ResponseOther(r)
      BY <1>5, <2>1, <2>5 DEF ResponseOther
    <2>. QED
      BY <1>10, <2>2, <2>3, <2>4, <2>5 DEF HandleServerResponse
  <1>11. CASE MonikorFlushAll
    BY <1>4, <1>6, <1>11 DEF MonikorFlushAll, FlushAll
  <1>12. CASE MonikorReload
    BY <1>4, <1>6, <1>12 DEF MonikorReload
  <1>13. CASE MonikorExit
    <2>1. \A q \in Requests : batch'[q] = <<>>
      BY <1>13 DEF MonikorExit
    <2>2. RequestBounded'
      BY <2>1 DEF RequestBounded
    <2>. QED
      BY <1>4, <1>13, <2>2 DEF MonikorExit, FlushAll
  <1>14. CASE Stopped \/ UNCHANGED vars
    <2>1. UNCHANGED <<store, recent>> /\ UNCHANGED net
      BY <1>14 DEF Stopped, vars, store, net
    <2>. QED
      BY <1>5, <1>6, <2>1
  <1>. QED
    BY <1>7, <1>8, <1>9, <1>10, <1>11, <1>12, <1>13, <1>14 DEF Next

\* max_send_size and the cache's max_size mean what the configuration says:
\* a request is over the first by one metric at most, and all that is stored
\* but the newest is within the second, in every execution.
THEOREM LimitsHold == Spec => []Bounded
  <1>1. Init => Bounded
    <2>. SUFFICES ASSUME Init PROVE RequestBounded /\ StoreBounded
      BY DEF Bounded
    <2>1. cache \o current = <<>>
      BY DEF Init
    <2>2. SizeBut(cache \o current, recent) = 0 /\ MaxCache \in Nat
      BY <2>1, EmptySize, DeliveryAssumption DEF DeliveryAssumption
    <2>. QED
      BY <2>2 DEF Init, RequestBounded, StoreBounded
  <1>. QED
    BY <1>1, BoundedNext, TypeCorrect, PTL DEF Spec


-----------------------------------------------------------------------------
(* Backoff *)

\* The backoff counts the rejections since the last success, in whatever order
\* the answers of concurrent requests come (update.c:25-46, send.c:93-103).
THEOREM BackoffExact == Spec => []BackoffCountsRejections
  <1>1. Init => BackoffCountsRejections
    BY DEF Init, BackoffCountsRejections
  <1>2. BackoffCountsRejections /\ [Next]_vars => BackoffCountsRejections'
    <2>. SUFFICES ASSUME BackoffCountsRejections, [Next]_vars
                  PROVE  BackoffCountsRejections'
      OBVIOUS
    <2>1. ASSUME UNCHANGED <<backoff_count, streak, settled>>
          PROVE  BackoffCountsRejections'
      BY <2>1 DEF BackoffCountsRejections
    <2>2. ASSUME UpdateSuccess PROVE BackoffCountsRejections'
      BY <2>2 DEF UpdateSuccess, BackoffCountsRejections
    <2>3. ASSUME NEW r \in Requests, HandleServerResponse(r)
          PROVE  BackoffCountsRejections'
      <3>1. CASE ResponseOk(r)
        BY <2>2, <3>1 DEF ResponseOk
      <3>2. CASE ResponseFailed(r)
        BY <2>2, <3>2 DEF ResponseFailed
      <3>3. CASE ResponseRejected(r)
        BY <3>3 DEF ResponseRejected, BackoffCountsRejections
      <3>4. CASE ResponseOther(r)
        BY <2>1, <3>4 DEF ResponseOther
      <3>. QED
        BY <2>3, <3>1, <3>2, <3>3, <3>4 DEF HandleServerResponse
    <2>4. CASE MetricStorePush \/ MonikorUpdate \/ MonikorSendAll
      <3>1. UNCHANGED <<backoff_count, streak, settled>>
        BY <2>4 DEF MetricStorePush, MonikorUpdate, MonikorSendAll, hist
      <3>. QED
        BY <2>1, <3>1
    <2>5. CASE MonikorFlushAll \/ MonikorReload \/ MonikorExit
      <3>1. UNCHANGED <<backoff_count, streak, settled>>
        BY <2>5 DEF MonikorFlushAll, MonikorReload, MonikorExit, hist
      <3>. QED
        BY <2>1, <3>1
    <2>6. CASE Stopped \/ UNCHANGED vars
      BY <2>1, <2>6 DEF Stopped, vars
    <2>. QED
      BY <2>3, <2>4, <2>5, <2>6 DEF Next
  <1>. QED
    BY <1>1, <1>2, PTL DEF Spec

-----------------------------------------------------------------------------
(* Losses *)

\* The causes LossHasCause names, for a metric m of a step.
HasCause(m) ==
  \/ \E r \in active \ active' : m \in Range(batch[r])
  \/ m \in Range(cache) /\ TotalSize(cache) > MaxCache
  \/ Stored' = {}

\* What an eviction takes is above the cache's limit.
LEMMA EvictedForSize ==
  ASSUME TypeOK, NEW n \in 0 .. Len(cache), EvictionEndsAt(cache, n),
         NEW m \in Range(cache) \ Range(Drop(cache, n))
  PROVE  TotalSize(cache) > MaxCache
  <1>1. cache \in Seq(Metric)
    BY DEF TypeOK
  <1>2. Drop(cache, 0) = cache
    <2>1. /\ Drop(cache, 0) \in Seq(Metric) /\ Len(Drop(cache, 0)) = Len(cache) - 0
          /\ \A i \in 1 .. Len(cache) - 0 : Drop(cache, 0)[i] = cache[0 + i]
      <3>1. 0 \in 0 .. Len(cache)
        BY <1>1
      <3>. QED
        BY <1>1, <3>1, CutItems
    <2>2. Len(cache) \in Nat
      BY <1>1
    <2>3. \A i \in 1 .. Len(cache) : Drop(cache, 0)[i] = cache[i]
      BY <2>1, <2>2
    <2>. QED
      BY <1>1, <2>1, <2>2, <2>3, SameItems
  <1>3. n # 0
    BY <1>2
  <1>4. 0 \in 0 .. n - 1
    BY <1>3
  <1>. QED
    BY <1>2, <1>4 DEF EvictionEndsAt

\* A step loses metrics of a queue that is dropped, evicted or answered.
LEMMA LossNext == TypeOK /\ SingleCustody /\ Next => \A m \in Held \ Held' : HasCause(m)
  <1>. SUFFICES ASSUME TypeOK, SingleCustody, Next, NEW m \in Held \ Held'
                PROVE  HasCause(m)
    OBVIOUS
  <1>1. ASSUME current' = <<>>, cache' = <<>> PROVE Stored' = {}
    BY <1>1, EmptyList DEF Stored
  <1>2. CASE MetricStorePush
    <2>1. pushed' \in Metric /\ current \in Seq(Metric)
      BY <1>2, DeliveryAssumption DEF TypeOK, MetricStorePush, Metric, DeliveryAssumption
    <2>2. Range(current') = Range(current) \union {pushed'}
      BY <1>2, <2>1, PushAdds DEF MetricStorePush
    <2>3. Held \subseteq Held'
      BY <1>2, <2>2 DEF MetricStorePush, net, Held, Stored, InFlight
    <2>. QED
      BY <2>3
  <1>3. ASSUME NEW n \in 0 .. Len(cache), SendAllMetrics(Drop(cache, n)), UNCHANGED pushed
        PROVE  m \in Range(cache) \ Range(Drop(cache, n))
    <2>1. PICK B \in SUBSET (Range(Drop(cache, n)) \union Range(current)) :
            /\ Stored' = (Range(Drop(cache, n)) \union Range(current)) \ B
            /\ InFlight' = InFlight \union B
      BY <1>3, EvictionTyped, EvictionCustody, SendAllCustody
    <2>2. Held' = Range(Drop(cache, n)) \union Range(current) \union InFlight
      BY <2>1 DEF Held
    <2>. QED
      BY <2>2 DEF Held, Stored
  <1>4. CASE MonikorUpdate
    <2>1. PICK n \in 0 .. Len(cache) :
            EvictionEndsAt(cache, n) /\ SendAllMetrics(Drop(cache, n))
      BY <1>4 DEF MonikorUpdate
    <2>2. m \in Range(cache) \ Range(Drop(cache, n))
      BY <1>3, <1>4, <2>1 DEF MonikorUpdate
    <2>. QED
      BY <2>1, <2>2, EvictedForSize DEF HasCause
  <1>5. CASE MonikorSendAll
    <2>1. PICK B \in SUBSET (Range(cache) \union Range(current)) :
            /\ Stored' = (Range(cache) \union Range(current)) \ B
            /\ InFlight' = InFlight \union B
      <3>1. cache \in Seq(Metric) /\ IsInjective(cache) /\ SendAllMetrics(cache)
            /\ UNCHANGED pushed
        BY <1>5 DEF TypeOK, SingleCustody, MonikorSendAll, hist
      <3>. QED
        BY <3>1, SendAllCustody
    <2>2. Held' = Held
      BY <2>1 DEF Held, Stored
    <2>. QED
      BY <2>2
  <1>6. ASSUME NEW r \in Requests, HandleServerResponse(r)
        PROVE  HasCause(m)
    <2>1. RequestOver(r)
      BY <1>6 DEF HandleServerResponse, ResponseOk, ResponseFailed,
                  ResponseRejected, ResponseOther
    <2>2. InFlight' = InFlight \ Range(batch[r]) /\ r \in active \ active'
      <3>1. InFlight' = InFlight \ Range(batch[r])
        BY <2>1, RequestOverCustody
      <3>2. r \in active \ active'
        BY <2>1 DEF RequestOver
      <3>. QED
        BY <3>1, <3>2
    <2>3. CASE m \in Range(batch[r])
      BY <2>2, <2>3 DEF HasCause
    <2>4. CASE m \notin Range(batch[r])
      <3>1. m \in Stored
        BY <2>2, <2>4 DEF Held
      <3>2. CASE UNCHANGED store
        BY <3>1, <3>2 DEF store, Held, Stored
      <3>3. CASE ResponseFailed(r)
        <4>1. Range(cache') = Range(cache) \union Range(batch[r]) /\ current' = current
          BY <3>3, JoinUnites DEF ResponseFailed, TypeOK
        <4>. QED
          BY <3>1, <4>1 DEF Held, Stored
      <3>4. CASE FlushAll
        BY <1>1, <3>4 DEF FlushAll, HasCause
      <3>. QED
        BY <1>6, <3>2, <3>3, <3>4 DEF HandleServerResponse, ResponseOk,
           ResponseRejected, ResponseOther
    <2>. QED
      BY <2>3, <2>4
  <1>7. CASE MonikorFlushAll
    BY <1>1, <1>7 DEF MonikorFlushAll, FlushAll, HasCause
  <1>8. CASE MonikorReload
    BY <1>1, <1>8 DEF MonikorReload, HasCause
  <1>9. CASE MonikorExit
    BY <1>1, <1>9 DEF MonikorExit, FlushAll, HasCause
  <1>10. CASE Stopped
    BY <1>10 DEF Stopped, vars, Held, Stored, InFlight
  <1>. QED
    BY <1>2, <1>4, <1>5, <1>6, <1>7, <1>8, <1>9, <1>10 DEF Next

\* A metric is given up for a reason: its request was answered, the cache was
\* above its limit, or the whole store went with it.
THEOREM LossesHaveCauses == Spec => LossHasCause
  <1>1. TypeOK /\ SingleCustody /\ [Next]_vars
          => [\A m \in Held \ Held' :
               \/ \E r \in active \ active' : m \in Range(batch[r])
               \/ m \in Range(cache) /\ TotalSize(cache) > MaxCache
               \/ Stored' = {}]_vars
    BY LossNext DEF HasCause
  <1>. QED
    BY <1>1, TypeCorrect, Custodied, PTL DEF Spec, LossHasCause


-----------------------------------------------------------------------------
(* The order of the pushes *)

\* The items of q that are not in X are in increasing order.
InOrder(q, X) ==
  \A i, j \in 1 .. Len(q) :
    i < j /\ q[i] \notin X /\ q[j] \notin X => q[i] < q[j]

\* They come after the elements of B that are not in X.
Follows(q, B, X) ==
  \A m \in B \ X : \A i \in 1 .. Len(q) : q[i] \notin X => m < q[i]

LEMMA PushOrderSplit ==
  PushOrder <=> /\ InOrder(cache \o current, requeued)
                /\ \A r \in Requests :
                     Follows(cache \o current, Range(batch[r]), requeued)
  BY DEF PushOrder, InOrder, Follows

LEMMA OrderOfNone ==
  ASSUME NEW X
  PROVE  InOrder(<<>>, X) /\ \A B : Follows(<<>>, B, X)
  BY DEF InOrder, Follows

\* Whatever is taken from the front of a list, its rest is in order, comes
\* after what was taken and after what the list came after.
LEMMA OrderOfRest ==
  ASSUME NEW q \in Seq(Metric), NEW X, NEW k \in 0 .. Len(q), InOrder(q, X)
  PROVE  /\ InOrder(Drop(q, k), X)
         /\ Follows(Drop(q, k), Range(Take(q, k)), X)
         /\ \A B : Follows(q, B, X) => Follows(Drop(q, k), B, X)
  <1>. DEFINE d == Drop(q, k)
              t == Take(q, k)
  <1>1. /\ t \in Seq(Metric) /\ Len(t) = k
        /\ \A i \in 1 .. k : t[i] = q[i]
        /\ d \in Seq(Metric) /\ Len(d) = Len(q) - k
        /\ \A i \in 1 .. Len(q) - k : d[i] = q[k + i]
    BY CutItems
  <1>2. \A i \in 1 .. Len(q) - k : k + i \in 1 .. Len(q)
    OBVIOUS
  <1>3. Range(t) = {t[i] : i \in 1 .. k}
    BY <1>1, RangeItems
  <1>. HIDE DEF d, t
  <1>4. InOrder(d, X)
    <2>. SUFFICES ASSUME NEW i \in 1 .. Len(q) - k, NEW j \in 1 .. Len(q) - k,
                         i < j, d[i] \notin X, d[j] \notin X
                  PROVE  d[i] < d[j]
      BY <1>1 DEF InOrder
    <2>1. k + i \in 1 .. Len(q) /\ k + j \in 1 .. Len(q) /\ k + i < k + j
      OBVIOUS
    <2>2. d[i] = q[k + i] /\ d[j] = q[k + j]
      BY <1>1
    <2>. QED
      BY <2>1, <2>2 DEF InOrder
  <1>5. Follows(d, Range(t), X)
    <2>. SUFFICES ASSUME NEW i \in 1 .. k, NEW j \in 1 .. Len(q) - k,
                         t[i] \notin X, d[j] \notin X
                  PROVE  t[i] < d[j]
      BY <1>1, <1>3 DEF Follows
    <2>1. i \in 1 .. Len(q) /\ k + j \in 1 .. Len(q) /\ i < k + j
      OBVIOUS
    <2>2. t[i] = q[i] /\ d[j] = q[k + j]
      BY <1>1
    <2>. QED
      BY <2>1, <2>2 DEF InOrder
  <1>6. \A B : Follows(q, B, X) => Follows(d, B, X)
    BY <1>1, <1>2 DEF Follows
  <1>. QED
    BY <1>4, <1>5, <1>6 DEF d, t

\* A list of requeued metrics put between two others disturbs no order.
LEMMA OrderOfRequeue ==
  ASSUME NEW s \in Seq(Metric), NEW b \in Seq(Metric), NEW t \in Seq(Metric), NEW X
  PROVE  LET Y == X \union Range(b)
         IN  /\ InOrder(s \o t, X) => InOrder((s \o b) \o t, Y)
             /\ \A B : Follows(s \o t, B, X) => Follows((s \o b) \o t, B, Y)
  <1>. DEFINE Y == X \union Range(b)
              p == s \o b
              v == s \o t
              u == p \o t
              m == Len(s)
              l == Len(b)
              n == Len(t)
  <1>1. /\ v \in Seq(Metric) /\ Len(v) = m + n
        /\ \A i \in 1 .. m : v[i] = s[i]
        /\ \A i \in 1 .. n : v[m + i] = t[i]
    BY JoinItems
  <1>2. /\ p \in Seq(Metric) /\ Len(p) = m + l
        /\ \A i \in 1 .. m : p[i] = s[i]
        /\ \A i \in 1 .. l : p[m + i] = b[i]
    BY JoinItems
  <1>3. m \in Nat /\ l \in Nat /\ n \in Nat
    OBVIOUS
  <1>4. \A i \in 1 .. l : b[i] \in Y
    BY RangeItems
  <1>. HIDE DEF p
  <1>5. /\ u \in Seq(Metric) /\ Len(u) = Len(p) + n
        /\ \A i \in 1 .. Len(p) : u[i] = p[i]
        /\ \A i \in 1 .. n : u[Len(p) + i] = t[i]
    <2>1. p \in Seq(Metric)
      BY <1>2
    <2>. QED
      BY <2>1, JoinItems
  <1>. DEFINE At(i) == IF i <= m THEN i ELSE i - l
  <1>. HIDE DEF u, v, m, l, n
  <1>6. ASSUME NEW i \in 1 .. Len(u), u[i] \notin Y
        PROVE  /\ At(i) \in 1 .. Len(v) /\ u[i] = v[At(i)]
               /\ i <= m \/ m + l < i
    <2>0. Len(u) = m + l + n /\ Len(v) = m + n /\ Len(p) = m + l
      BY <1>1, <1>2, <1>3, <1>5
    <2>1. CASE i <= m
      <3>1. i \in 1 .. m /\ i \in 1 .. m + l /\ i \in 1 .. m + n
        BY <1>3, <2>1
      <3>. QED
        BY <1>1, <1>2, <1>5, <2>0, <2>1, <3>1
    <2>2. CASE ~(i <= m) /\ i <= m + l
      <3>. DEFINE j == i - m
      <3>1. j \in 1 .. l /\ m + j = i /\ i \in 1 .. m + l
        BY <1>3, <2>2
      <3>2. u[i] = b[j]
        BY <1>2, <1>5, <2>0, <3>1
      <3>. QED
        BY <1>4, <1>6, <3>1, <3>2
    <2>3. CASE ~(i <= m) /\ ~(i <= m + l)
      <3>. DEFINE j == i - (m + l)
      <3>1. /\ j \in 1 .. n /\ (m + l) + j = i /\ i - l = m + j
            /\ i - l \in 1 .. m + n /\ m + l < i
        BY <1>3, <2>0, <2>3
      <3>2. u[i] = t[j]
        BY <1>5, <2>0, <3>1
      <3>3. v[i - l] = t[j]
        BY <1>1, <3>1
      <3>. QED
        BY <2>0, <2>3, <3>1, <3>2, <3>3
    <2>. QED
      BY <2>1, <2>2, <2>3
  <1>7. ASSUME NEW i \in 1 .. Len(u), NEW j \in 1 .. Len(u), i < j,
               u[i] \notin Y, u[j] \notin Y
        PROVE  At(i) < At(j)
    <2>1. (i <= m \/ m + l < i) /\ (j <= m \/ m + l < j)
      BY <1>6, <1>7
    <2>2. i \in Int /\ j \in Int
      BY <1>3, <1>5, <1>2
    <2>. QED
      BY <1>3, <1>7, <2>1, <2>2
  <1>. HIDE DEF At
  <1>8. ASSUME InOrder(v, X) PROVE InOrder(u, Y)
    BY <1>6, <1>7, <1>8 DEF InOrder
  <1>9. ASSUME NEW B, Follows(v, B, X) PROVE Follows(u, B, Y)
    BY <1>6, <1>9 DEF Follows
  <1>. QED
    BY <1>8, <1>9 DEF u, v, p


\* A send keeps the order: what goes to the net comes before what stays.
LEMMA SendOrdered ==
  ASSUME TypeOK, UNCHANGED requeued, NEW c \in Seq(Metric), SendAllMetrics(c),
         InOrder(c \o current, requeued),
         \A r \in Requests : Follows(c \o current, Range(batch[r]), requeued)
  PROVE  PushOrder'
  <1>. DEFINE u == c \o current
              v == cache' \o current'
  <1>1. u \in Seq(Metric)
    BY JoinUnites DEF TypeOK
  <1>. HIDE DEF u, v
  <1>2. \A r \in Requests : Follows(u, Range(batch[r]), requeued)
    BY DEF u
  <1>3. InOrder(u, requeued)
    BY DEF u
  <1>4. SUFFICES /\ InOrder(v, requeued)
                 /\ \A r \in Requests : Follows(v, Range(batch'[r]), requeued)
    BY DEF PushOrder, InOrder, Follows, v
  <1>5. CASE v = u /\ UNCHANGED net
    BY <1>2, <1>3, <1>5 DEF net
  <1>6. ASSUME NEW r \in Requests, NEW k \in 0 .. Len(u),
               batch' = [batch EXCEPT ![r] = Take(u, k)], v = Drop(u, k)
        PROVE  /\ InOrder(v, requeued)
               /\ \A q \in Requests : Follows(v, Range(batch'[q]), requeued)
    <2>1. /\ InOrder(v, requeued)
          /\ Follows(v, Range(Take(u, k)), requeued)
          /\ \A B : Follows(u, B, requeued) => Follows(v, B, requeued)
      BY <1>1, <1>3, <1>6, OrderOfRest
    <2>2. ASSUME NEW q \in Requests
          PROVE  Follows(v, Range(batch'[q]), requeued)
      <3>1. CASE q = r
        BY <1>6, <2>1, <3>1 DEF TypeOK
      <3>2. CASE q # r
        <4>1. batch'[q] = batch[q]
          BY <1>6, <3>2 DEF TypeOK
        <4>. QED
          BY <1>2, <2>1, <4>1
      <3>. QED
        BY <3>1, <3>2
    <2>. QED
      BY <2>1, <2>2
  <1>. QED
    BY <1>5, <1>6, SendAllMoves DEF u, v

LEMMA PushOrderNext ==
  TypeOK /\ SingleCustody /\ PushOrder /\ [Next]_vars => PushOrder'
  <1>. SUFFICES ASSUME TypeOK, SingleCustody, PushOrder, [Next]_vars
                PROVE  PushOrder'
    OBVIOUS
  <1>. DEFINE queue == cache \o current
  <1>1. /\ current \in Seq(Metric) /\ cache \in Seq(Metric)
        /\ \A r \in Requests : batch[r] \in Seq(Metric)
        /\ Len(cache) \in Nat /\ Len(current) \in Nat
        /\ MaxMetric \in Nat /\ pushed \in 0 .. MaxMetric
    BY DeliveryAssumption DEF TypeOK, DeliveryAssumption
  <1>2. queue \in Seq(Metric) /\ Len(queue) = Len(cache) + Len(current)
        /\ Range(queue) = Stored
    BY <1>1, JoinUnites, JoinItems DEF Stored
  <1>3. /\ InOrder(queue, requeued)
        /\ \A r \in Requests : Follows(queue, Range(batch[r]), requeued)
    BY PushOrderSplit
  <1>4. ASSUME current' = <<>>, cache' = <<>>
        PROVE  PushOrder'
    <2>1. cache' \o current' = <<>>
      BY <1>4
    <2>. QED
      BY <2>1 DEF PushOrder
  <1>5. ASSUME UNCHANGED <<store, requeued, batch>> PROVE PushOrder'
    BY <1>5 DEF PushOrder, store
  <1>6. CASE MetricStorePush
    <2>. DEFINE next == cache' \o current'
                n    == Len(queue)
    <2>1. /\ cache' = cache /\ current' = Append(current, pushed')
          /\ pushed' = pushed + 1 /\ pushed' \in Metric
          /\ UNCHANGED batch /\ UNCHANGED requeued
      BY <1>1, <1>6 DEF MetricStorePush, Metric, net
    <2>2. next = Append(queue, pushed')
      BY <1>1, <2>1
    <2>3. /\ Len(next) = n + 1 /\ next[n + 1] = pushed'
          /\ \A i \in 1 .. n : next[i] = queue[i]
          /\ n \in Nat
      BY <1>2, <2>1, <2>2
    <2>4. \A m \in Held : m \in Nat /\ m < pushed'
      <3>1. Held \subseteq Metric
        BY RangeItems DEF TypeOK, Held, Stored, InFlight
      <3>. QED
        BY <1>1, <2>1, <3>1 DEF SingleCustody, Metric
    <2>5. \A i \in 1 .. n : queue[i] \in Held
      <3>1. queue \in Seq(Metric) /\ Range(queue) \subseteq Held
        BY <1>2 DEF Held
      <3>. HIDE DEF queue
      <3>. QED
        BY <3>1, RangeItems
    <2>6. \A r \in Requests : Range(batch[r]) \subseteq Held
      BY DEF Held, InFlight
    <2>. HIDE DEF next, n, queue
    <2>7. InOrder(next, requeued)
      <3>. SUFFICES ASSUME NEW i \in 1 .. n + 1, NEW j \in 1 .. n + 1, i < j,
                           next[i] \notin requeued, next[j] \notin requeued
                    PROVE  next[i] < next[j]
        BY <2>3 DEF InOrder
      <3>1. i \in 1 .. n
        BY <2>3
      <3>2. CASE j \in 1 .. n
        BY <1>3, <2>3, <3>1, <3>2 DEF InOrder, n
      <3>3. CASE j = n + 1
        BY <2>3, <2>4, <2>5, <3>1, <3>3
      <3>. QED
        BY <2>3, <3>2, <3>3
    <2>8. ASSUME NEW r \in Requests PROVE Follows(next, Range(batch[r]), requeued)
      <3>. SUFFICES ASSUME NEW m \in Range(batch[r]) \ requeued, NEW i \in 1 .. n + 1,
                           next[i] \notin requeued
                    PROVE  m < next[i]
        BY <2>3 DEF Follows
      <3>1. CASE i \in 1 .. n
        BY <1>3, <2>3, <3>1 DEF Follows, n
      <3>2. CASE i = n + 1
        BY <2>3, <2>4, <2>6, <3>2
      <3>. QED
        BY <2>3, <3>1, <3>2
    <2>. QED
      BY <2>1, <2>7, <2>8 DEF PushOrder, InOrder, Follows, next
  <1>7. CASE MonikorUpdate
    <2>1. PICK n \in 0 .. Len(cache) : SendAllMetrics(Drop(cache, n))
      BY <1>7 DEF MonikorUpdate
    <2>. DEFINE c == Drop(cache, n)
    <2>2. c \in Seq(Metric) /\ c \o current = Drop(queue, n)
      BY <1>1, CutItems, QueueDrop
    <2>3. n \in 0 .. Len(queue)
      BY <1>1, <1>2
    <2>. HIDE DEF c, queue
    <2>4. /\ InOrder(Drop(queue, n), requeued)
          /\ \A B : Follows(queue, B, requeued) => Follows(Drop(queue, n), B, requeued)
      BY <1>2, <1>3, <2>3, OrderOfRest
    <2>5. /\ InOrder(c \o current, requeued)
          /\ \A r \in Requests : Follows(c \o current, Range(batch[r]), requeued)
      BY <1>3, <2>2, <2>4
    <2>6. SendAllMetrics(c) /\ UNCHANGED requeued
      BY <1>7, <2>1 DEF MonikorUpdate, c
    <2>. QED
      BY <2>2, <2>5, <2>6, SendOrdered
  <1>8. CASE MonikorSendAll
    <2>1. SendAllMetrics(cache) /\ UNCHANGED requeued
      BY <1>8 DEF MonikorSendAll, hist
    <2>. QED
      BY <1>1, <1>3, <2>1, SendOrdered
  <1>9. ASSUME NEW r \in Requests, HandleServerResponse(r)
        PROVE  PushOrder'
    <2>1. \A q \in Requests : batch'[q] = batch[q] \/ Range(batch'[q]) = {}
      <3>1. \A q \in Requests : batch'[q] = batch[q] \/ batch'[q] = <<>>
        BY <1>9 DEF HandleServerResponse, ResponseOk, ResponseFailed,
                    ResponseRejected, ResponseOther, RequestOver, TypeOK
      <3>. QED
        BY <3>1, EmptyList
    <2>2. CASE UNCHANGED <<store, requeued>>
      <3>1. \A q \in Requests : Follows(queue, Range(batch'[q]), requeued)
        BY <1>3, <2>1 DEF Follows
      <3>. QED
        BY <1>3, <2>2, <3>1 DEF PushOrder, InOrder, Follows, store
    <2>3. CASE ResponseFailed(r)
      <3>. DEFINE b == batch[r]
                  Y == requeued \union Range(b)
                  u == (cache \o b) \o current
      <3>1. cache' \o current' = u /\ requeued' = Y
        BY <2>3 DEF ResponseFailed
      <3>2. b \in Seq(Metric)
        BY <1>1
      <3>. HIDE DEF b
      <3>3. /\ InOrder(u, Y)
            /\ \A B : Follows(queue, B, requeued) => Follows(u, B, Y)
        BY <1>1, <1>3, <3>2, OrderOfRequeue
      <3>. HIDE DEF u, Y, queue
      <3>4. \A q \in Requests : Follows(u, Range(batch[q]), Y)
        BY <1>3, <3>3
      <3>5. \A q \in Requests : Follows(u, Range(batch'[q]), Y)
        BY <2>1, <3>4 DEF Follows
      <3>. QED
        BY <3>1, <3>3, <3>5 DEF PushOrder, InOrder, Follows
    <2>4. CASE FlushAll
      BY <1>4, <2>4 DEF FlushAll
    <2>. QED
      BY <1>9, <2>2, <2>3, <2>4 DEF HandleServerResponse, ResponseOk,
         ResponseRejected, ResponseOther
  <1>10. CASE MonikorFlushAll \/ MonikorReload \/ MonikorExit
    BY <1>4, <1>10 DEF MonikorFlushAll, MonikorReload, MonikorExit, FlushAll
  <1>11. CASE Stopped \/ UNCHANGED vars
    BY <1>5, <1>11 DEF Stopped, vars, store
  <1>. QED
    BY <1>6, <1>7, <1>8, <1>9, <1>10, <1>11 DEF Next

\* Metrics no answer brought back stay in the order of their pushes, and no
\* request overtakes one that is still stored, in every execution.
THEOREM PushesKeepOrder == Spec => []PushOrder
  <1>1. Init => PushOrder
    <2>. SUFFICES ASSUME Init PROVE PushOrder
      OBVIOUS
    <2>1. cache \o current = <<>>
      BY DEF Init
    <2>. QED
      BY <2>1 DEF PushOrder
  <1>. QED
    BY <1>1, PushOrderNext, TypeCorrect, Custodied, PTL DEF Spec

-----------------------------------------------------------------------------
(* Configuration: the elements *)

Elements == [key : Keys \union {NULL}, type : {"dict", "scalar", "list"},
             value : Nat \union Scalars \union Seq(Words), next : Nat]

Frames == [in : {"mapping"}, dict : Nat, elm : Nat] \union [in : {"key", "list"}, node : Nat]

\* Element e of heap h points to x.
PointsTo(h, e, x) == x # 0 /\ (h[e].next = x \/ (h[e].type = "dict" /\ h[e].value = x))

\* Elements point to later ones, and no two to the same.
Heaped(h) ==
  /\ h \in Seq(Elements) /\ Len(h) >= 1
  /\ \A e \in 1 .. Len(h) : h[e].next = 0 \/ (h[e].next \in 1 .. Len(h) /\ e < h[e].next)
  /\ \A e \in 1 .. Len(h) :
       h[e].type = "dict" => h[e].value = 0 \/ (h[e].value \in 1 .. Len(h) /\ e < h[e].value)
  /\ \A e \in 1 .. Len(h) :
       h[e].type = "dict" /\ h[e].value # 0 => h[e].value # h[e].next
  /\ \A e, f \in 1 .. Len(h) : \A x \in 1 .. Len(h) : PointsTo(h, e, x) /\ PointsTo(h, f, x) => e = f

Blank(h, e) == h[e].type = "dict" /\ h[e].value = 0 /\ h[e].next = 0

\* The mapping frames are every other one; r is the level.
Begun(h, s, r) ==
  LET f == s[2 * r - 1] IN
  /\ f.in = "mapping" /\ f.dict \in 1 .. Len(h)
  /\ f.elm = 0 \/ (f.elm \in 1 .. Len(h) /\ f.dict <= f.elm)
  /\ r = 1 => f.dict = 1
  /\ r > 1 => \A e \in 1 .. Len(h) : ~PointsTo(h, e, f.dict)

Keyed(s, r) ==
  /\ s[2 * r].in \in {"key", "list"}
  /\ 2 * r < Len(s) => s[2 * r].in = "key"
  /\ s[2 * r].node = s[2 * r - 1].elm /\ s[2 * r].node # 0

\* The stack s has q levels.
Stacked(h, s, q) ==
  /\ s \in Seq(Frames) /\ q \in Nat /\ Len(s) \in {2 * q, 2 * q - 1}
  /\ \A r \in 1 .. q : Begun(h, s, r)
  /\ \A r \in 1 .. q : 2 * r <= Len(s) => Keyed(s, r)
  /\ \A r, t \in 1 .. q : r < t => /\ s[2 * r - 1].dict < s[2 * t - 1].dict
                                   /\ s[2 * r].node < s[2 * t - 1].dict

\* In the first document, nothing is overwritten and nothing lost.
Fresh(h, s, q) ==
  /\ \A r \in 1 .. q : s[2 * r - 1].elm = 0 => Blank(h, s[2 * r - 1].dict)
  /\ \A r \in 1 .. q : s[2 * r - 1].elm # 0 => h[s[2 * r - 1].elm].next = 0
  /\ \A r \in 1 .. q : 2 * r <= Len(s) /\ s[2 * r].in = "key" => Blank(h, s[2 * r].node)
  /\ \A e \in 2 .. Len(h) : \/ \E r \in 1 .. q : s[2 * r - 1].dict = e
                            \/ \E p \in 1 .. Len(h) : PointsTo(h, p, e)

Tree(h, s, q, n) ==
  /\ Heaped(h) /\ Stacked(h, s, q) /\ n \in Nat
  /\ n <= 1 => Fresh(h, s, q)
  /\ n = 0 => h = <<NewDict>> /\ s = <<>>

\* A key as the head of a mapping, and one behind element e; the frames that read it.
Headed(h, e, k) == [h EXCEPT ![e].key = k]
Hung(h, e, k) == Append([h EXCEPT ![e].next = Len(h) + 1], [NewDict EXCEPT !.key = k])
Pushed(s, E) == Append([s EXCEPT ![Len(s)].elm = E], [in |-> "key", node |-> E])

\* Element e with a type and a value, and with one more item.
Valued(h, e, t, v) == [h EXCEPT ![e].type = t, ![e].value = v]
Itemed(h, e, v) == [h EXCEPT ![e].value = Append(@, v)]

-----------------------------------------------------------------------------
(* Configuration: sequences and heaps *)

\* A sequence with one more element.
LEMMA AppendIs ==
  ASSUME NEW S, NEW s \in Seq(S), NEW x, NEW t, t = Append(s, x)
  PROVE  /\ Len(s) \in Nat /\ Len(t) = Len(s) + 1
         /\ \A i \in 1 .. Len(s) : t[i] = s[i]
         /\ t[Len(s) + 1] = x
         /\ x \in S => t \in Seq(S)
  <1>1. s \in Seq(S \union {x}) /\ x \in S \union {x}
    <2>1. Len(s) \in Nat /\ s \in [1 .. Len(s) -> S \union {x}]
      OBVIOUS
    <2>. QED
      BY <2>1
  <1>2. Len(s) \in Nat /\ Len(t) = Len(s) + 1 /\ t[Len(s) + 1] = x
        /\ \A i \in 1 .. Len(s) : t[i] = s[i]
    BY <1>1, AppendProperties
  <1>3. x \in S => t \in Seq(S)
    BY AppendProperties
  <1>. QED
    BY <1>2, <1>3

\* A sequence with one element changed.
LEMMA ChangeIs ==
  ASSUME NEW S, NEW s \in Seq(S), NEW i \in 1 .. Len(s), NEW x \in S, NEW t,
         t = [s EXCEPT ![i] = x]
  PROVE  /\ t \in Seq(S) /\ Len(t) = Len(s) /\ t[i] = x
         /\ \A j \in 1 .. Len(s) : j # i => t[j] = s[j]
  <1>1. s \in [1 .. Len(s) -> S] /\ Len(s) \in Nat
    OBVIOUS
  <1>2. t \in [1 .. Len(s) -> S] /\ t[i] = x /\ \A j \in 1 .. Len(s) : j # i => t[j] = s[j]
    BY <1>1
  <1>3. t \in Seq(S) /\ Len(t) = Len(s)
    BY <1>1, <1>2
  <1>. QED
    BY <1>2, <1>3

\* A sequence without its last element.
LEMMA FrontIs ==
  ASSUME NEW S, NEW s \in Seq(S), s # <<>>, NEW t, t = Front(s)
  PROVE  /\ t \in Seq(S) /\ Len(s) \in Nat /\ Len(t) = Len(s) - 1
         /\ \A i \in 1 .. Len(t) : t[i] = s[i]
         /\ Len(s) >= 1 /\ Last(s) = s[Len(s)]
  <1>1. Len(s) \in Nat /\ Len(s) >= 1 /\ Len(s) - 1 \in Nat
    OBVIOUS
  <1>2. t = [i \in 1 .. Len(s) - 1 |-> s[i]]
    <2>1. t = SubSeq(s, 1, Len(s) - 1)
      BY DEF Front
    <2>2. \A i \in 1 .. Len(s) - 1 : s[i] \in S
      BY <1>1
    <2>3. PICK m \in Nat : m = Len(s) - 1
      BY <1>1
    <2>4. SubSeq(s, 1, m) \in Seq(S)
          /\ Len(SubSeq(s, 1, m)) = (IF 1 <= m THEN m - 1 + 1 ELSE 0)
          /\ \A i \in 1 .. m - 1 + 1 : SubSeq(s, 1, m)[i] = s[1 + i - 1]
      BY <2>2, <2>3, SubSeqProperties
    <2>5. t \in Seq(S) /\ Len(t) = m /\ \A i \in 1 .. m : t[i] = s[i]
      BY <2>1, <2>3, <2>4
    <2>. QED
      BY <2>3, <2>5
  <1>3. \A i \in 1 .. Len(s) - 1 : s[i] \in S
    BY <1>1
  <1>4. t \in Seq(S) /\ Len(t) = Len(s) - 1
    BY <1>1, <1>2, <1>3
  <1>. QED
    BY <1>1, <1>2, <1>4 DEF Last

\* Heap h2 is h with y for its element e and perhaps one more, blank element; what y
\* points to nothing else pointed to.
Grown(h, e, y, h2) ==
  /\ e \in 1 .. Len(h) /\ y \in Elements
  /\ h2 \in Seq(Elements) /\ Len(h2) \in {Len(h), Len(h) + 1}
  /\ h2[e] = y
  /\ \A f \in 1 .. Len(h) : f # e => h2[f] = h[f]
  /\ Len(h2) = Len(h) + 1 => Blank(h2, Len(h2))
  /\ y.next # 0 /\ y.next # h[e].next =>
       /\ y.next \in 1 .. Len(h2) /\ e < y.next
       /\ \A f \in 1 .. Len(h) : ~PointsTo(h, f, y.next)
  /\ y.type = "dict" /\ y.value # 0 /\ ~(h[e].type = "dict" /\ y.value = h[e].value) =>
       /\ y.value \in 1 .. Len(h2) /\ e < y.value
       /\ \A f \in 1 .. Len(h) : ~PointsTo(h, f, y.value)
  /\ y.type = "dict" /\ y.value # 0 => y.value # y.next

LEMMA GrownPoints ==
  ASSUME NEW h, NEW e, NEW y, NEW h2, Heaped(h), Grown(h, e, y, h2),
         NEW f \in 1 .. Len(h2), NEW x, PointsTo(h2, f, x)
  PROVE  \/ f \in 1 .. Len(h) /\ f # e /\ h2[f] = h[f] /\ PointsTo(h, f, x)
         \/ f = e /\ x # 0 /\ (x = y.next \/ (y.type = "dict" /\ x = y.value))
  <1>1. Len(h) \in Nat /\ Len(h2) \in Nat
    BY DEF Heaped, Grown
  <1>2. CASE f \in 1 .. Len(h) /\ f # e
    BY <1>2 DEF Grown, PointsTo
  <1>3. CASE f = e
    BY <1>3 DEF Grown, PointsTo
  <1>4. CASE f \notin 1 .. Len(h)
    <2>1. f = Len(h2) /\ Len(h2) = Len(h) + 1
      BY <1>1, <1>4 DEF Grown
    <2>2. Blank(h2, f)
      BY <2>1 DEF Grown
    <2>. QED
      BY <2>2 DEF Blank, PointsTo
  <1>. QED
    BY <1>2, <1>3, <1>4

LEMMA GrownHeaped ==
  ASSUME NEW h, NEW e, NEW y, NEW h2, Heaped(h), Grown(h, e, y, h2)
  PROVE  Heaped(h2)
  <1>1. /\ Len(h) \in Nat /\ Len(h2) \in Nat /\ Len(h) <= Len(h2) /\ Len(h) >= 1
        /\ h2 \in Seq(Elements) /\ e \in 1 .. Len(h) /\ h2[e] = y
    BY DEF Heaped, Grown
  <1>2. \A f \in 1 .. Len(h2) : f \in 1 .. Len(h) \/ Blank(h2, f)
    <2>1. ASSUME NEW f \in 1 .. Len(h2), f \notin 1 .. Len(h) PROVE Blank(h2, f)
      <3>1. f = Len(h2) /\ Len(h2) = Len(h) + 1
        BY <1>1, <2>1 DEF Grown
      <3>. QED
        BY <3>1 DEF Grown
    <2>. QED
      BY <2>1
  <1>3. ASSUME NEW f \in 1 .. Len(h2)
        PROVE  /\ h2[f].next = 0 \/ (h2[f].next \in 1 .. Len(h2) /\ f < h2[f].next)
               /\ h2[f].type = "dict" =>
                    h2[f].value = 0 \/ (h2[f].value \in 1 .. Len(h2) /\ f < h2[f].value)
               /\ h2[f].type = "dict" /\ h2[f].value # 0 => h2[f].value # h2[f].next
    <2>1. CASE f = e
      <3>1. h[e].next = 0 \/ (h[e].next \in 1 .. Len(h) /\ e < h[e].next)
        BY <1>1 DEF Heaped
      <3>2. h[e].type = "dict" => h[e].value = 0 \/ (h[e].value \in 1 .. Len(h) /\ e < h[e].value)
        BY <1>1 DEF Heaped
      <3>3. h2[f].next = 0 \/ (h2[f].next \in 1 .. Len(h2) /\ f < h2[f].next)
        BY <1>1, <2>1, <3>1 DEF Grown
      <3>4. h2[f].type = "dict" =>
              h2[f].value = 0 \/ (h2[f].value \in 1 .. Len(h2) /\ f < h2[f].value)
        BY <1>1, <2>1, <3>2 DEF Grown
      <3>5. h2[f].type = "dict" /\ h2[f].value # 0 => h2[f].value # h2[f].next
        BY <1>1, <2>1 DEF Grown
      <3>. QED
        BY <3>3, <3>4, <3>5
    <2>2. CASE f # e /\ f \in 1 .. Len(h)
      <3>1. h2[f] = h[f]
        BY <2>2 DEF Grown
      <3>2. /\ h[f].next = 0 \/ (h[f].next \in 1 .. Len(h) /\ f < h[f].next)
            /\ h[f].type = "dict" => h[f].value = 0 \/ (h[f].value \in 1 .. Len(h) /\ f < h[f].value)
            /\ h[f].type = "dict" /\ h[f].value # 0 => h[f].value # h[f].next
        BY <2>2 DEF Heaped
      <3>. QED
        BY <1>1, <3>1, <3>2
    <2>3. CASE f \notin 1 .. Len(h)
      BY <1>2, <2>3 DEF Blank
    <2>. QED
      BY <2>1, <2>2, <2>3
  <1>4. ASSUME NEW f \in 1 .. Len(h2), NEW g \in 1 .. Len(h2), NEW x \in 1 .. Len(h2),
               PointsTo(h2, f, x), PointsTo(h2, g, x)
        PROVE  f = g
    <2>. DEFINE Old(a) == a \in 1 .. Len(h) /\ a # e /\ PointsTo(h, a, x)
                New(a) == a = e /\ x # 0 /\ (x = y.next \/ (y.type = "dict" /\ x = y.value))
    <2>1. (Old(f) \/ New(f)) /\ (Old(g) \/ New(g))
      BY <1>4, GrownPoints
    <2>2. CASE Old(f) /\ Old(g)
      <3>1. x \in 1 .. Len(h)
        BY <1>1, <2>2 DEF PointsTo, Heaped
      <3>. QED
        BY <2>2, <3>1 DEF Heaped
    <2>3. ASSUME NEW a \in 1 .. Len(h), Old(a), New(e) PROVE FALSE
      <3>1. x \in 1 .. Len(h)
        BY <1>1, <2>3 DEF PointsTo, Heaped
      <3>2. ~PointsTo(h, e, x)
        BY <1>1, <2>3, <3>1 DEF Heaped
      <3>3. CASE x = y.next
        <4>1. x # h[e].next
          BY <2>3, <3>2 DEF PointsTo
        <4>. QED
          BY <2>3, <3>3, <4>1 DEF Grown
      <3>4. CASE y.type = "dict" /\ x = y.value
        <4>1. ~(h[e].type = "dict" /\ x = h[e].value)
          BY <2>3, <3>2 DEF PointsTo
        <4>. QED
          BY <2>3, <3>4, <4>1 DEF Grown
      <3>. QED
        BY <2>3, <3>3, <3>4
    <2>. QED
      BY <2>1, <2>2, <2>3
  <1>. QED
    BY <1>1, <1>3, <1>4 DEF Heaped

-----------------------------------------------------------------------------
(* Configuration: how an event changes the heap *)

LEMMA HeapFacts ==
  ASSUME NEW h, Heaped(h)
  PROVE  /\ h \in Seq(Elements) /\ Len(h) \in Nat /\ Len(h) >= 1
         /\ \A e \in 1 .. Len(h) : h[e] \in Elements
         /\ \A e \in 1 .. Len(h) : \A x : PointsTo(h, e, x) => x \in 1 .. Len(h) /\ e < x
         /\ NewDict \in Elements /\ NewDict.key = NULL /\ NewDict.type = "dict"
         /\ NewDict.value = 0 /\ NewDict.next = 0
  <1>1. h \in Seq(Elements) /\ Len(h) \in Nat /\ Len(h) >= 1
    BY DEF Heaped
  <1>2. \A e \in 1 .. Len(h) : h[e] \in Elements
    BY <1>1, ElementOfSeq
  <1>3. \A e \in 1 .. Len(h) : \A x : PointsTo(h, e, x) => x \in 1 .. Len(h) /\ e < x
    BY DEF Heaped, PointsTo
  <1>4. /\ NewDict \in Elements /\ NewDict.key = NULL /\ NewDict.type = "dict"
        /\ NewDict.value = 0 /\ NewDict.next = 0
    BY DEF NewDict, Elements
  <1>. QED
    BY <1>1, <1>2, <1>3, <1>4

\* A heap with one element changed.
LEMMA HeapChange ==
  ASSUME NEW h, h \in Seq(Elements), NEW e \in 1 .. Len(h), NEW y, y \in Elements,
         NEW g, g = [h EXCEPT ![e] = y]
  PROVE  /\ g \in Seq(Elements) /\ Len(g) = Len(h) /\ g[e] = y
         /\ \A f \in 1 .. Len(h) : f # e => g[f] = h[f]
  BY ChangeIs

\* A heap with one more element.
LEMMA HeapAppend ==
  ASSUME NEW h, h \in Seq(Elements), NEW y, y \in Elements, NEW g, g = Append(h, y)
  PROVE  /\ g \in Seq(Elements) /\ Len(g) = Len(h) + 1 /\ g[Len(h) + 1] = y
         /\ \A f \in 1 .. Len(h) : g[f] = h[f]
  BY AppendIs

LEMMA KeyGrows ==
  ASSUME NEW h, Heaped(h), NEW e \in 1 .. Len(h), NEW k \in Keys,
         NEW h2, h2 = Headed(h, e, k)
  PROVE  \E y : /\ Grown(h, e, y, h2) /\ y.next = h[e].next /\ y.type = h[e].type
                /\ y.value = h[e].value /\ y.key = k /\ Len(h2) = Len(h)
  <1>1. h[e] \in Elements
    BY HeapFacts
  <1>2. PICK y : y = [h[e] EXCEPT !.key = k]
    OBVIOUS
  <1>3. /\ y \in Elements /\ y.next = h[e].next /\ y.type = h[e].type /\ y.value = h[e].value
        /\ y.key = k
    BY <1>1, <1>2 DEF Elements
  <1>4. h2 = [h EXCEPT ![e] = y]
    BY <1>2 DEF Headed
  <1>5. /\ h2 \in Seq(Elements) /\ Len(h2) = Len(h) /\ h2[e] = y
        /\ \A f \in 1 .. Len(h) : f # e => h2[f] = h[f]
    <2>1. h \in Seq(Elements) /\ y \in Elements
      BY <1>3, HeapFacts
    <2>2. e \in 1 .. Len(h)
      OBVIOUS
    <2>. QED
      BY ONLY <1>4, <2>1, <2>2, HeapChange
  <1>6. y.type = "dict" /\ y.value # 0 => y.value # y.next
    BY <1>3 DEF Heaped
  <1>7. Len(h) \in Nat
    BY HeapFacts
  <1>8. Grown(h, e, y, h2)
    <2>1. Len(h2) # Len(h) + 1
      BY ONLY <1>5, <1>7
    <2>. QED
      BY <1>3, <1>5, <1>6, <2>1 DEF Grown
  <1>. QED
    BY <1>3, <1>5, <1>8

LEMMA NextGrows ==
  ASSUME NEW h, Heaped(h), NEW e \in 1 .. Len(h), NEW k \in Keys,
         NEW h2, h2 = Hung(h, e, k)
  PROVE  \E y : /\ Grown(h, e, y, h2) /\ y.next = Len(h) + 1 /\ y.type = h[e].type
                /\ y.value = h[e].value /\ y.key = h[e].key
                /\ Len(h2) = Len(h) + 1 /\ Blank(h2, Len(h) + 1) /\ h2[Len(h) + 1].key = k
  <1>1. h[e] \in Elements /\ Len(h) \in Nat /\ Len(h) + 1 \in Nat
    BY HeapFacts
  <1>2. PICK y : y = [h[e] EXCEPT !.next = Len(h) + 1]
    OBVIOUS
  <1>3. /\ y \in Elements /\ y.next = Len(h) + 1 /\ y.type = h[e].type /\ y.value = h[e].value
        /\ y.key = h[e].key
    BY <1>1, <1>2 DEF Elements
  <1>4. PICK g : g = [h EXCEPT ![e] = y]
    OBVIOUS
  <1>5. /\ g \in Seq(Elements) /\ Len(g) = Len(h) /\ g[e] = y
        /\ \A f \in 1 .. Len(h) : f # e => g[f] = h[f]
    <2>1. h \in Seq(Elements) /\ y \in Elements
      BY <1>3, HeapFacts
    <2>2. e \in 1 .. Len(h)
      OBVIOUS
    <2>. QED
      BY ONLY <1>4, <2>1, <2>2, HeapChange
  <1>6. PICK z : z = [NewDict EXCEPT !.key = k]
    OBVIOUS
  <1>7. z \in Elements /\ z.type = "dict" /\ z.value = 0 /\ z.next = 0 /\ z.key = k
    BY <1>6, HeapFacts DEF Elements, NewDict
  <1>8. h2 = Append(g, z)
    BY <1>2, <1>4, <1>6 DEF Hung
  <1>9. /\ h2 \in Seq(Elements) /\ Len(h2) = Len(h) + 1 /\ h2[Len(h) + 1] = z
        /\ \A f \in 1 .. Len(h) : h2[f] = g[f]
    <2>1. Len(h2) = Len(g) + 1 /\ h2 \in Seq(Elements) /\ h2[Len(g) + 1] = z
          /\ \A f \in 1 .. Len(g) : h2[f] = g[f]
      <3>1. g \in Seq(Elements) /\ z \in Elements
        BY <1>5, <1>7
      <3>. QED
        BY ONLY <1>8, <3>1, HeapAppend
    <2>. QED
      BY ONLY <1>5, <2>1
  <1>10. y.type = "dict" /\ y.value # 0 => y.value # y.next
    <2>1. h[e].type = "dict" => h[e].value = 0 \/ h[e].value \in 1 .. Len(h)
      BY DEF Heaped
    <2>. QED
      BY <1>1, <1>3, <2>1
  <1>11. \A f \in 1 .. Len(h) : ~PointsTo(h, f, Len(h) + 1)
    BY <1>1, HeapFacts
  <1>12. Blank(h2, Len(h2)) /\ Blank(h2, Len(h) + 1) /\ h2[Len(h) + 1].key = k
    BY <1>7, <1>9 DEF Blank
  <1>13. Len(h) + 1 \in 1 .. Len(h2) /\ e < Len(h) + 1
    BY <1>1, <1>9
  <1>14. Grown(h, e, y, h2)
    BY <1>3, <1>5, <1>9, <1>10, <1>11, <1>12, <1>13 DEF Grown
  <1>. QED
    BY <1>3, <1>9, <1>12, <1>14

\* Heap h2 is h with type t and value v for its element e.
Regrown(h, e, t, v, h2) ==
  \E y : /\ Grown(h, e, y, h2) /\ Len(h2) = Len(h) /\ y.next = h[e].next
         /\ y.type = t /\ y.value = v /\ y.key = h[e].key

LEMMA ValueGrows ==
  ASSUME NEW h, Heaped(h), NEW e \in 1 .. Len(h), NEW t \in {"scalar", "list"},
         NEW v \in Scalars \union Seq(Words),
         NEW h2, h2 = Valued(h, e, t, v)
  PROVE  Regrown(h, e, t, v, h2)
  <1>1. h[e] \in Elements
    BY HeapFacts
  <1>2. PICK y : y = [h[e] EXCEPT !.type = t, !.value = v]
    OBVIOUS
  <1>3. y \in Elements /\ y.next = h[e].next /\ y.type = t /\ y.value = v /\ y.key = h[e].key
    BY <1>1, <1>2 DEF Elements
  <1>4. h2 = [h EXCEPT ![e] = y]
    BY <1>1, <1>2, HeapFacts DEF Elements, Valued
  <1>5. /\ h2 \in Seq(Elements) /\ Len(h2) = Len(h) /\ h2[e] = y
        /\ \A f \in 1 .. Len(h) : f # e => h2[f] = h[f]
    <2>1. h \in Seq(Elements) /\ y \in Elements
      BY <1>3, HeapFacts
    <2>2. e \in 1 .. Len(h)
      OBVIOUS
    <2>. QED
      BY ONLY <1>4, <2>1, <2>2, HeapChange
  <1>6. Len(h) \in Nat
    BY HeapFacts
  <1>7. Grown(h, e, y, h2)
    <2>1. Len(h2) # Len(h) + 1
      BY ONLY <1>5, <1>6
    <2>. QED
      BY <1>3, <1>5, <2>1 DEF Grown
  <1>. QED
    BY <1>3, <1>5, <1>7 DEF Regrown

LEMMA ItemGrows ==
  ASSUME NEW h, Heaped(h), NEW e \in 1 .. Len(h), h[e].type = "list", h[e].value \in Seq(Words),
         NEW v \in Words, NEW h2, h2 = Itemed(h, e, v)
  PROVE  \E y : /\ Grown(h, e, y, h2) /\ Len(h2) = Len(h) /\ y.next = h[e].next
                /\ y.type = "list" /\ y.value \in Seq(Words) /\ y.key = h[e].key
  <1>1. h[e] \in Elements /\ Append(h[e].value, v) \in Seq(Words)
    BY HeapFacts
  <1>2. PICK y : y = [h[e] EXCEPT !.value = Append(@, v)]
    OBVIOUS
  <1>3. /\ y \in Elements /\ y.next = h[e].next /\ y.type = "list" /\ y.value \in Seq(Words)
        /\ y.key = h[e].key
    BY <1>1, <1>2 DEF Elements
  <1>4. h2 = [h EXCEPT ![e] = y]
    BY <1>2 DEF Itemed
  <1>5. /\ h2 \in Seq(Elements) /\ Len(h2) = Len(h) /\ h2[e] = y
        /\ \A f \in 1 .. Len(h) : f # e => h2[f] = h[f]
    <2>1. h \in Seq(Elements) /\ y \in Elements
      BY <1>3, HeapFacts
    <2>2. e \in 1 .. Len(h)
      OBVIOUS
    <2>. QED
      BY ONLY <1>4, <2>1, <2>2, HeapChange
  <1>6. Len(h) \in Nat
    BY HeapFacts
  <1>7. Grown(h, e, y, h2)
    <2>1. Len(h2) # Len(h) + 1
      BY ONLY <1>5, <1>6
    <2>. QED
      BY <1>3, <1>5, <2>1 DEF Grown
  <1>. QED
    BY <1>3, <1>5, <1>7

LEMMA NewGrows ==
  ASSUME NEW h, Heaped(h), NEW h2, h2 = Append(h, NewDict)
  PROVE  Grown(h, 1, h[1], h2) /\ Len(h2) = Len(h) + 1 /\ h2[Len(h) + 1] = NewDict
  <1>1. 1 \in 1 .. Len(h) /\ h[1] \in Elements /\ Len(h) \in Nat
    <2>1. 1 \in 1 .. Len(h)
      BY HeapFacts
    <2>. QED
      BY <2>1, HeapFacts
  <1>2. /\ h2 \in Seq(Elements) /\ Len(h2) = Len(h) + 1 /\ h2[Len(h) + 1] = NewDict
        /\ \A f \in 1 .. Len(h) : h2[f] = h[f]
    BY HeapFacts, HeapAppend
  <1>3. Blank(h2, Len(h2))
    BY <1>2, HeapFacts DEF Blank
  <1>4. h[1].type = "dict" /\ h[1].value # 0 => h[1].value # h[1].next
    BY <1>1 DEF Heaped
  <1>5. Grown(h, 1, h[1], h2)
    BY <1>1, <1>2, <1>3, <1>4 DEF Grown
  <1>. QED
    BY <1>2, <1>5

LEMMA CloseGrows ==
  ASSUME NEW h, Heaped(h), NEW e \in 1 .. Len(h), NEW d \in 1 .. Len(h), e < d,
         \A f \in 1 .. Len(h) : ~PointsTo(h, f, d), NEW h2, h2 = Closed(h, e, d)
  PROVE  \E y : /\ Grown(h, e, y, h2) /\ Len(h2) = Len(h) /\ y.next = h[e].next
                /\ y.type = "dict" /\ y.value = d /\ y.key = h[e].key
  <1>1. h[e] \in Elements /\ Len(h) \in Nat
    BY HeapFacts
  <1>2. PICK y : y = [h[e] EXCEPT !.type = "dict", !.value = d]
    OBVIOUS
  <1>3. y \in Elements /\ y.next = h[e].next /\ y.type = "dict" /\ y.value = d /\ y.key = h[e].key
    <2>1. d \in Nat
      BY <1>1
    <2>2. h[e] = [key |-> h[e].key, type |-> h[e].type, value |-> h[e].value, next |-> h[e].next]
          /\ h[e].key \in Keys \union {NULL} /\ h[e].next \in Nat
      BY <1>1 DEF Elements
    <2>3. y = [key |-> h[e].key, type |-> "dict", value |-> d, next |-> h[e].next]
      BY <1>2, <2>2
    <2>. QED
      BY <2>1, <2>2, <2>3 DEF Elements
  <1>4. h2 = [h EXCEPT ![e] = y]
    BY <1>1, <1>2, HeapFacts DEF Elements, Closed
  <1>5. /\ h2 \in Seq(Elements) /\ Len(h2) = Len(h) /\ h2[e] = y
        /\ \A f \in 1 .. Len(h) : f # e => h2[f] = h[f]
    <2>1. h \in Seq(Elements) /\ y \in Elements
      BY <1>3, HeapFacts
    <2>2. e \in 1 .. Len(h)
      OBVIOUS
    <2>. QED
      BY ONLY <1>4, <2>1, <2>2, HeapChange
  <1>6. y.value # y.next
    BY <1>1, <1>3 DEF PointsTo
  <1>7. Grown(h, e, y, h2)
    <2>1. Len(h2) # Len(h) + 1
      BY ONLY <1>1, <1>5
    <2>. QED
      BY <1>3, <1>5, <1>6, <2>1 DEF Grown
  <1>. QED
    BY <1>3, <1>5, <1>7

-----------------------------------------------------------------------------
(* Configuration: the stack *)

\* The stack of q levels: the top is a mapping or what is in one.
LEMMA StackFacts ==
  ASSUME NEW h, NEW s, NEW q, Stacked(h, s, q)
  PROVE  /\ q \in Nat /\ Len(s) \in Nat /\ s \in Seq(Frames)
         /\ s = <<>> => q = 0
         /\ s # <<>> => q >= 1 /\ Len(s) >= 1 /\ 2 * q - 1 \in 1 .. Len(s) /\ q \in 1 .. q
         /\ s # <<>> /\ s[Len(s)].in = "mapping" => Len(s) = 2 * q - 1
         /\ s # <<>> /\ s[Len(s)].in # "mapping" => Len(s) = 2 * q
         /\ \A r \in 1 .. q : s[2 * r - 1].dict \in 1 .. Len(h)
         /\ \A r \in 1 .. q : 2 * r <= Len(s) =>
              /\ s[2 * r].node = s[2 * r - 1].elm /\ s[2 * r - 1].elm # 0
              /\ s[2 * r].node \in 1 .. Len(h) /\ s[2 * r - 1].dict <= s[2 * r].node
         /\ \A r \in 1 .. q : r < q => 2 * r < Len(s) /\ s[2 * r].in = "key"
  <1>1. q \in Nat /\ Len(s) \in Nat /\ s \in Seq(Frames) /\ (Len(s) = 2 * q \/ Len(s) = 2 * q - 1)
    BY DEF Stacked
  <1>2. s = <<>> <=> Len(s) = 0
    BY <1>1
  <1>3. s = <<>> => q = 0
    BY <1>1, <1>2
  <1>4. s # <<>> => q >= 1 /\ Len(s) >= 1 /\ 2 * q - 1 \in 1 .. Len(s) /\ q \in 1 .. q
    BY <1>1, <1>2
  <1>5. ASSUME s # <<>>, Len(s) = 2 * q PROVE s[Len(s)].in # "mapping"
    <2>1. Keyed(s, q)
      BY <1>1, <1>4, <1>5 DEF Stacked
    <2>. QED
      BY <1>5, <2>1 DEF Keyed
  <1>6. ASSUME s # <<>>, Len(s) = 2 * q - 1 PROVE s[Len(s)].in = "mapping"
    <2>1. Begun(h, s, q)
      BY <1>1, <1>4, <1>6 DEF Stacked
    <2>. QED
      BY <1>6, <2>1 DEF Begun
  <1>7. \A r \in 1 .. q : /\ s[2 * r - 1].dict \in 1 .. Len(h)
                          /\ s[2 * r - 1].elm # 0 =>
                               /\ s[2 * r - 1].elm \in 1 .. Len(h)
                               /\ s[2 * r - 1].dict <= s[2 * r - 1].elm
    BY DEF Stacked, Begun
  <1>8. ASSUME NEW r \in 1 .. q, 2 * r <= Len(s)
        PROVE  s[2 * r].node = s[2 * r - 1].elm /\ s[2 * r - 1].elm # 0
    <2>1. Keyed(s, r)
      BY <1>8 DEF Stacked
    <2>. QED
      BY <2>1 DEF Keyed
  <1>9. ASSUME NEW r \in 1 .. q, r < q PROVE 2 * r < Len(s) /\ s[2 * r].in = "key"
    <2>1. 2 * r < Len(s) /\ 2 * r <= Len(s)
      BY <1>1, <1>9
    <2>2. Keyed(s, r)
      BY <2>1 DEF Stacked
    <2>. QED
      BY <2>1, <2>2 DEF Keyed
  <1>10. \A r \in 1 .. q : 2 * r <= Len(s) =>
           /\ s[2 * r].node \in 1 .. Len(h) /\ s[2 * r - 1].dict <= s[2 * r].node
    BY <1>7, <1>8
  <1>11. s # <<>> /\ s[Len(s)].in = "mapping" => Len(s) = 2 * q - 1
    BY <1>1, <1>5
  <1>12. s # <<>> /\ s[Len(s)].in # "mapping" => Len(s) = 2 * q
    BY <1>1, <1>6
  <1>13. \A r \in 1 .. q : s[2 * r - 1].dict \in 1 .. Len(h)
    BY <1>7
  <1>. QED
    BY <1>1, <1>3, <1>4, <1>8, <1>9, <1>10, <1>11, <1>12, <1>13

\* The element whose value is read, at any level.
LEMMA KeyFacts ==
  ASSUME NEW h, NEW s, NEW q, Stacked(h, s, q), NEW r \in 1 .. q, 2 * r <= Len(s)
  PROVE  /\ s[2 * r].node = s[2 * r - 1].elm /\ s[2 * r - 1].elm # 0
         /\ s[2 * r].node \in 1 .. Len(h) /\ s[2 * r - 1].dict <= s[2 * r].node
  <1>1. Keyed(s, r) /\ Begun(h, s, r)
    BY DEF Stacked
  <1>. QED
    BY <1>1 DEF Keyed, Begun

\* A key above a mapping is none of its elements.
LEMMA NotBelow ==
  ASSUME NEW N \in Nat, NEW x \in 1 .. N, NEW d \in 1 .. N, NEW e \in 1 .. N, x < d, d <= e
  PROVE  x # e
  OBVIOUS

\* The frames of a mapping as records.
LEMMA MappingFrame ==
  ASSUME NEW h, NEW s, NEW q, Stacked(h, s, q), NEW r \in 1 .. q
  PROVE  /\ 2 * r - 1 \in 1 .. Len(s)
         /\ s[2 * r - 1] = [in |-> "mapping", dict |-> s[2 * r - 1].dict, elm |-> s[2 * r - 1].elm]
         /\ s[2 * r - 1].dict \in Nat /\ s[2 * r - 1].elm \in Nat
  <1>1. s \in Seq(Frames) /\ 2 * r - 1 \in 1 .. Len(s)
    <2>1. s # <<>> => 2 * q - 1 \in 1 .. Len(s)
      BY StackFacts
    <2>2. q \in Nat /\ Len(s) \in Nat /\ s # <<>>
      BY StackFacts
    <2>. QED
      BY <2>1, <2>2, StackFacts
  <1>2. s[2 * r - 1] \in Frames
    BY <1>1, ElementOfSeq
  <1>3. s[2 * r - 1].in = "mapping"
    BY DEF Stacked, Begun
  <1>4. s[2 * r - 1] \in [in : {"mapping"}, dict : Nat, elm : Nat]
    BY <1>2, <1>3 DEF Frames
  <1>. QED
    BY <1>1, <1>4

\* A key: the mapping on top is at its element E.
LEMMA KeyPushes ==
  ASSUME NEW h, NEW s, NEW q, Stacked(h, s, q), s # <<>>, s[Len(s)].in = "mapping",
         NEW E \in Nat, NEW s2,
         s2 = Pushed(s, E)
  PROVE  /\ q >= 1 /\ Len(s) = 2 * q - 1 /\ Len(s2) = 2 * q /\ s2 \in Seq(Frames)
         /\ \A i \in 1 .. 2 * q - 2 : s2[i] = s[i]
         /\ s2[2 * q - 1] = [in |-> "mapping", dict |-> s[2 * q - 1].dict, elm |-> E]
         /\ s2[2 * q] = [in |-> "key", node |-> E]
  <1>1. q >= 1 /\ q \in Nat /\ Len(s) = 2 * q - 1 /\ s \in Seq(Frames) /\ q \in 1 .. q
    BY StackFacts
  <1>2. PICK n \in Nat : n = Len(s) /\ n = 2 * q - 1
    BY <1>1
  <1>3. PICK f : f = [in |-> "mapping", dict |-> s[n].dict, elm |-> E]
    OBVIOUS
  <1>4. s[n] = [in |-> "mapping", dict |-> s[n].dict, elm |-> s[n].elm] /\ s[n].dict \in Nat
    BY <1>1, <1>2, MappingFrame
  <1>5. [s[n] EXCEPT !.elm = E] = f /\ f \in Frames
    BY <1>3, <1>4 DEF Frames
  <1>6. PICK g : g = [s EXCEPT ![n] = f]
    OBVIOUS
  <1>7. g = [s EXCEPT ![Len(s)].elm = E]
    BY <1>2, <1>5, <1>6
  <1>8. n \in 1 .. Len(s)
    BY <1>1, <1>2
  <1>9. g \in Seq(Frames) /\ Len(g) = n /\ g[n] = f /\ \A j \in 1 .. n : j # n => g[j] = s[j]
    BY <1>1, <1>2, <1>5, <1>6, <1>8, ChangeIs
  <1>10. PICK x : x = [in |-> "key", node |-> E]
    OBVIOUS
  <1>11. x \in Frames
    BY <1>10 DEF Frames
  <1>12. s2 = Append(g, x)
    BY <1>7, <1>10 DEF Pushed
  <1>13. s2 \in Seq(Frames) /\ Len(s2) = n + 1 /\ s2[n + 1] = x /\ \A j \in 1 .. n : s2[j] = g[j]
    BY ONLY <1>9, <1>11, <1>12, n \in Nat, AppendIs
  <1>14. n + 1 = 2 * q /\ \A i \in 1 .. 2 * q - 2 : i \in 1 .. n /\ i # n
    BY <1>1, <1>2
  <1>15. \A i \in 1 .. 2 * q - 2 : s2[i] = s[i]
    BY <1>9, <1>13, <1>14
  <1>16. s2[n] = f
    BY <1>1, <1>2, <1>8, <1>9, <1>13
  <1>. QED
    BY <1>1, <1>2, <1>3, <1>10, <1>13, <1>14, <1>15, <1>16

-----------------------------------------------------------------------------
(* Configuration: the tree, event by event *)

\* Element e, which is y now, points to x and did not.
Gains(h, e, y, x) ==
  \/ y.next = x /\ h[e].next # x
  \/ y.type = "dict" /\ y.value = x /\ ~(h[e].type = "dict" /\ h[e].value = x)

LEMMA GrownFacts ==
  ASSUME NEW h, NEW e, NEW y, NEW h2, Heaped(h), Grown(h, e, y, h2)
  PROVE  /\ Len(h) \in Nat /\ Len(h2) \in Nat /\ Len(h) <= Len(h2) /\ e \in 1 .. Len(h)
         /\ h2[e] = y /\ \A f \in 1 .. Len(h) : f # e => h2[f] = h[f]
         /\ \A f \in 1 .. Len(h) : f \in 1 .. Len(h2)
         /\ \A f \in 1 .. Len(h2), x \in Nat : PointsTo(h2, f, x) =>
              (f \in 1 .. Len(h) /\ PointsTo(h, f, x)) \/ (f = e /\ Gains(h, e, y, x))
  <1>1. /\ Len(h) \in Nat /\ Len(h2) \in Nat /\ Len(h) <= Len(h2) /\ e \in 1 .. Len(h)
        /\ h2[e] = y /\ \A f \in 1 .. Len(h) : f # e => h2[f] = h[f]
    BY DEF Heaped, Grown
  <1>2. \A f \in 1 .. Len(h) : f \in 1 .. Len(h2)
    BY <1>1
  <1>3. ASSUME NEW f \in 1 .. Len(h2), NEW x \in Nat, PointsTo(h2, f, x)
        PROVE  (f \in 1 .. Len(h) /\ PointsTo(h, f, x)) \/ (f = e /\ Gains(h, e, y, x))
    <2>1. CASE f \in 1 .. Len(h) /\ f # e /\ h2[f] = h[f] /\ PointsTo(h, f, x)
      BY <2>1
    <2>2. CASE f = e /\ x # 0 /\ (x = y.next \/ (y.type = "dict" /\ x = y.value))
      BY <1>1, <2>2 DEF Gains, PointsTo
    <2>. QED
      BY <1>3, <2>1, <2>2, GrownPoints
  <1>. QED
    BY <1>1, <1>2, <1>3

LEMMA StillBegun ==
  ASSUME NEW h, NEW e, NEW y, NEW h2, Heaped(h), Grown(h, e, y, h2),
         NEW s, NEW q, Stacked(h, s, q), NEW r \in 1 .. q, NEW s2,
         s2[2 * r - 1] = s[2 * r - 1] \/ s2[2 * r - 1] = [s[2 * r - 1] EXCEPT !.elm = s2[2 * r - 1].elm],
         s2[2 * r - 1].elm = s[2 * r - 1].elm
           \/ (s2[2 * r - 1].elm \in 1 .. Len(h2) /\ s[2 * r - 1].dict <= s2[2 * r - 1].elm),
         r > 1 => ~Gains(h, e, y, s[2 * r - 1].dict)
  PROVE  Begun(h2, s2, r)
  <1>1. Begun(h, s, r)
    BY DEF Stacked
  <1>2. PICK f, g : f = s[2 * r - 1] /\ g = s2[2 * r - 1]
    OBVIOUS
  <1>3. /\ f.in = "mapping" /\ f.dict \in 1 .. Len(h)
        /\ f.elm = 0 \/ (f.elm \in 1 .. Len(h) /\ f.dict <= f.elm)
        /\ r = 1 => f.dict = 1
        /\ r > 1 => \A x \in 1 .. Len(h) : ~PointsTo(h, x, f.dict)
    BY <1>1, <1>2 DEF Begun
  <1>4. f = [in |-> "mapping", dict |-> f.dict, elm |-> f.elm]
    BY <1>2, MappingFrame
  <1>5. g.in = "mapping" /\ g.dict = f.dict
    BY <1>2, <1>4
  <1>6. f.dict \in 1 .. Len(h2) /\ f.dict \in Nat
    BY <1>3, GrownFacts
  <1>7. g.elm = 0 \/ (g.elm \in 1 .. Len(h2) /\ f.dict <= g.elm)
    BY <1>2, <1>3, GrownFacts
  <1>8. r > 1 => \A x \in 1 .. Len(h2) : ~PointsTo(h2, x, f.dict)
    BY <1>2, <1>3, <1>6, GrownFacts
  <1>. QED
    BY <1>2, <1>3, <1>5, <1>6, <1>7, <1>8 DEF Begun

\* A key is read at the mapping on top: its element is E, the heap grew at e.
LEMMA TreeKeyed ==
  ASSUME NEW h, NEW s, NEW q, NEW n, Tree(h, s, q, n), Len(s) = 2 * q - 1,
         NEW e, NEW y, NEW h2, NEW s2, NEW E, NEW d,
         d = s[2 * q - 1].dict, Grown(h, e, y, h2), d <= e, E \in 1 .. Len(h2), d <= E,
         y.type = h[e].type, y.value = h[e].value, y.next = h[e].next \/ y.next = Len(h) + 1,
         Len(s2) = 2 * q, s2 \in Seq(Frames), \A i \in 1 .. 2 * q - 2 : s2[i] = s[i],
         s2[2 * q - 1] = [in |-> "mapping", dict |-> d, elm |-> E],
         s2[2 * q] = [in |-> "key", node |-> E],
         n <= 1 => /\ h[e].next = 0 /\ Blank(h2, E)
                   /\ Len(h2) = Len(h) + 1 => y.next = Len(h) + 1
  PROVE  Tree(h2, s2, q, n)
  <1>1. Heaped(h) /\ Stacked(h, s, q) /\ n \in Nat /\ Len(h) \in Nat /\ q \in 1 .. q
        /\ q \in Nat /\ q >= 1
    <2>1. Heaped(h) /\ Stacked(h, s, q) /\ n \in Nat
      BY DEF Tree
    <2>2. Len(h) \in Nat
      BY <2>1, HeapFacts
    <2>3. q \in Nat
      BY <2>1 DEF Stacked
    <2>4. q >= 1
      <3>1. Len(s) \in Nat
        BY <2>1, StackFacts
      <3>. QED
        BY <2>3, <3>1
    <2>. QED
      BY <2>1, <2>2, <2>3, <2>4
  <1>2. e \in 1 .. Len(h) /\ d \in 1 .. Len(h) /\ Len(h2) \in Nat /\ Len(h) <= Len(h2)
        /\ Len(h2) \in {Len(h), Len(h) + 1} /\ h2[e] = y
        /\ \A f \in 1 .. Len(h) : f # e => h2[f] = h[f]
    <2>1. s[2 * q - 1].dict \in 1 .. Len(h)
      BY <1>1, StackFacts
    <2>2. Len(h2) \in {Len(h), Len(h) + 1}
      BY DEF Grown
    <2>. QED
      BY <1>1, <2>1, <2>2, GrownFacts
  <1>3. \A r \in 1 .. q : r # q =>
          /\ r < q
          /\ 2 * r < Len(s) /\ 2 * r < Len(s2) /\ 2 * r <= Len(s)
          /\ s2[2 * r - 1] = s[2 * r - 1] /\ s2[2 * r] = s[2 * r]
    <2>1. \A r \in 1 .. q : r # q => /\ 2 * r - 1 \in 1 .. 2 * q - 2 /\ 2 * r \in 1 .. 2 * q - 2
                                     /\ r < q
      BY <1>1
    <2>. QED
      BY <1>1, <2>1
  <1>4. \A r \in 1 .. q : s2[2 * r - 1].dict = s[2 * r - 1].dict
    <2>1. s2[2 * q - 1].dict = s[2 * q - 1].dict
      OBVIOUS
    <2>. QED
      BY <1>1, <1>3, <2>1
  <1>13. \A r \in 1 .. q : r # q =>
           /\ s[2 * r].node = s[2 * r - 1].elm /\ s[2 * r - 1].elm # 0
           /\ s[2 * r].node \in 1 .. Len(h)
    <2>1. ASSUME NEW r \in 1 .. q, r # q
          PROVE  /\ s[2 * r].node = s[2 * r - 1].elm /\ s[2 * r - 1].elm # 0
                 /\ s[2 * r].node \in 1 .. Len(h)
      <3>1. Stacked(h, s, q) /\ 2 * r <= Len(s)
        BY <1>1, <1>3, <2>1
      <3>. QED
        BY ONLY <3>1, r \in 1 .. q, KeyFacts
    <2>. QED
      BY <2>1
  <1>5. Heaped(h2)
    BY <1>1, GrownHeaped
  <1>6. ASSUME NEW x \in 1 .. Len(h) PROVE ~Gains(h, e, y, x)
    BY <1>1, <1>6 DEF Gains
  <1>7. ASSUME NEW r \in 1 .. q PROVE Begun(h2, s2, r)
    <2>1. s[2 * r - 1].dict \in 1 .. Len(h) /\ ~Gains(h, e, y, s[2 * r - 1].dict)
      BY <1>1, <1>6, StackFacts
    <2>2. CASE r # q
      <3>1. s2[2 * r - 1] = s[2 * r - 1]
        BY <1>3, <2>2
      <3>. QED
        BY <1>1, <2>1, <3>1, StillBegun
    <2>3. CASE r = q
      <3>1. s[2 * q - 1] = [in |-> "mapping", dict |-> d, elm |-> s[2 * q - 1].elm]
        BY <1>1, MappingFrame
      <3>2. s2[2 * q - 1] = [s[2 * q - 1] EXCEPT !.elm = s2[2 * q - 1].elm]
            /\ s2[2 * q - 1].elm = E
        BY <3>1
      <3>. QED
        BY <1>1, <2>1, <2>3, <3>2, StillBegun
    <2>. QED
      BY <2>2, <2>3
  <1>8. ASSUME NEW r \in 1 .. q PROVE Keyed(s2, r)
    <2>1. CASE r # q
      <3>1. Keyed(s, r)
        BY <1>1, <1>3, <2>1 DEF Stacked
      <3>. QED
        BY <1>3, <2>1, <3>1 DEF Keyed
    <2>2. CASE r = q
      BY <1>1, <2>2 DEF Keyed
    <2>. QED
      BY <2>1, <2>2
  <1>9. \A r, t \in 1 .. q : r < t => /\ s2[2 * r - 1].dict < s2[2 * t - 1].dict
                                     /\ s2[2 * r].node < s2[2 * t - 1].dict
    <2>1. \A r, t \in 1 .. q : r < t => r # q
      BY <1>1
    <2>2. \A r, t \in 1 .. q : r < t => /\ s[2 * r - 1].dict < s[2 * t - 1].dict
                                        /\ s[2 * r].node < s[2 * t - 1].dict
      BY <1>1 DEF Stacked
    <2>. QED
      BY <1>3, <1>4, <2>1, <2>2
  <1>10. Stacked(h2, s2, q)
    BY <1>1, <1>7, <1>8, <1>9 DEF Stacked
  <1>11. ASSUME n <= 1 PROVE Fresh(h2, s2, q)
    <2>1. /\ Fresh(h, s, q) /\ h[e].next = 0 /\ Blank(h2, E) /\ h2[E].next = 0
          /\ Len(h2) = Len(h) + 1 => y.next = Len(h) + 1
      BY <1>11 DEF Tree, Blank
    <2>8. /\ \A r \in 1 .. q : s[2 * r - 1].elm # 0 => h[s[2 * r - 1].elm].next = 0
          /\ \A r \in 1 .. q : 2 * r <= Len(s) /\ s[2 * r].in = "key" => Blank(h, s[2 * r].node)
          /\ \A f \in 2 .. Len(h) : \/ \E r \in 1 .. q : s[2 * r - 1].dict = f
                                    \/ \E p \in 1 .. Len(h) : PointsTo(h, p, f)
      BY ONLY <2>1 DEF Fresh
    <2>2. ASSUME NEW r \in 1 .. q, r # q
          PROVE  /\ s2[2 * r - 1].elm # 0 /\ s2[2 * r].node = s2[2 * r - 1].elm
                 /\ h2[s2[2 * r - 1].elm] = h[s[2 * r - 1].elm]
                 /\ s2[2 * r - 1].elm = s[2 * r - 1].elm /\ s2[2 * r] = s[2 * r]
      <3>1. /\ s[2 * r].node = s[2 * r - 1].elm /\ s[2 * r - 1].elm # 0
            /\ s[2 * r].node \in 1 .. Len(h)
        BY <1>13, <2>2
      <3>2. s[2 * r].node < d
        <4>1. r < q
          BY <1>1, <2>2
        <4>. QED
          BY <1>1, <4>1 DEF Stacked
      <3>3. s[2 * r].node # e
        <4>1. PICK x \in 1 .. Len(h) : x = s[2 * r].node
          BY ONLY <3>1
        <4>2. Len(h) \in Nat /\ d \in 1 .. Len(h) /\ e \in 1 .. Len(h)
          BY ONLY <1>1, <1>2
        <4>. QED
          BY ONLY <3>2, <4>1, <4>2, d <= e, NotBelow
      <3>. QED
        BY <1>2, <1>3, <2>2, <3>1, <3>3
    <2>3. E # 0
      BY <1>2
    <2>4. ASSUME NEW r \in 1 .. q PROVE s2[2 * r - 1].elm # 0
      <3>1. CASE r # q
        BY <2>2, <3>1
      <3>2. CASE r = q
        BY <2>3, <3>2
      <3>. QED
        BY <3>1, <3>2
    <2>5. ASSUME NEW r \in 1 .. q PROVE h2[s2[2 * r - 1].elm].next = 0
      <3>1. CASE r # q
        <4>1. h[s[2 * r - 1].elm].next = 0
          BY <2>2, <2>8, <3>1
        <4>. QED
          BY <2>2, <3>1, <4>1
      <3>2. CASE r = q
        <4>1. s2[2 * r - 1].elm = E
          BY ONLY <3>2, s2[2 * q - 1] = [in |-> "mapping", dict |-> d, elm |-> E]
        <4>. QED
          BY ONLY <2>1, <4>1
      <3>. QED
        BY <3>1, <3>2
    <2>6. ASSUME NEW r \in 1 .. q, s2[2 * r].in = "key" PROVE Blank(h2, s2[2 * r].node)
      <3>1. CASE r # q
        <4>1. Blank(h, s[2 * r].node)
          BY <1>3, <2>2, <2>6, <2>8, <3>1
        <4>. QED
          <5>1. /\ s2[2 * r].node = s[2 * r].node /\ h2[s[2 * r].node] = h[s[2 * r].node]
            BY <2>2, <3>1
          <5>. QED
            BY ONLY <4>1, <5>1 DEF Blank
      <3>2. CASE r = q
        <4>1. s2[2 * r].node = E
          BY ONLY <3>2, s2[2 * q] = [in |-> "key", node |-> E]
        <4>. QED
          BY ONLY <2>1, <4>1
      <3>. QED
        BY <3>1, <3>2
    <2>7. ASSUME NEW f \in 2 .. Len(h2)
          PROVE  \/ \E r \in 1 .. q : s2[2 * r - 1].dict = f
                 \/ \E p \in 1 .. Len(h2) : PointsTo(h2, p, f)
      <3>1. CASE f \notin 1 .. Len(h)
        <4>1. f = Len(h) + 1 /\ Len(h2) = Len(h) + 1 /\ f # 0
          BY <1>1, <1>2, <3>1
        <4>2. PointsTo(h2, e, f) /\ e \in 1 .. Len(h2)
          BY ONLY <1>1, <1>2, <2>1, <4>1 DEF PointsTo
        <4>. QED
          BY <4>2
      <3>2. CASE f \in 1 .. Len(h)
        <4>1. f \in 2 .. Len(h)
          BY <1>1, <1>2, <3>2
        <4>2. CASE \E r \in 1 .. q : s[2 * r - 1].dict = f
          BY <1>4, <4>2
        <4>3. CASE \E p \in 1 .. Len(h) : PointsTo(h, p, f)
          <5>1. PICK p \in 1 .. Len(h) : PointsTo(h, p, f)
            BY <4>3
          <5>2. p \in 1 .. Len(h2)
            BY <1>1, <1>2
          <5>3. CASE p # e
            BY <1>2, <5>1, <5>2, <5>3 DEF PointsTo
          <5>4. CASE p = e
            <6>1. PointsTo(h2, p, f)
              BY ONLY <1>2, <2>1, <5>1, <5>4, y.type = h[e].type, y.value = h[e].value DEF PointsTo
            <6>. QED
              BY <5>2, <6>1
          <5>. QED
            BY <5>3, <5>4
        <4>. QED
          BY <2>8, <4>1, <4>2, <4>3
      <3>. QED
        BY <3>1, <3>2
    <2>. QED
      BY <2>4, <2>5, <2>6, <2>7 DEF Fresh
  <1>12. n # 0
    <2>1. s # <<>>
      BY <1>1
    <2>. QED
      BY <2>1 DEF Tree
  <1>. QED
    BY <1>1, <1>5, <1>10, <1>11, <1>12 DEF Tree

\* The keys of a mapping, after the first: each adds an element behind the last one.
LEMMA TreeKeyNext ==
  ASSUME NEW h, NEW s, NEW q, NEW n, Tree(h, s, q, n), s # <<>>, s[Len(s)].in = "mapping",
         s[Len(s)].elm # 0, NEW k \in Keys, NEW h2, NEW s2,
         h2 = Hung(h, s[Len(s)].elm, k), s2 = Pushed(s, Len(h) + 1)
  PROVE  Tree(h2, s2, q, n)
  <1>1. /\ Heaped(h) /\ Stacked(h, s, q) /\ Len(h) \in Nat /\ Len(h) + 1 \in Nat
        /\ q \in 1 .. q /\ Len(s) = 2 * q - 1
    <2>1. Heaped(h) /\ Stacked(h, s, q)
      BY DEF Tree
    <2>2. Len(h) \in Nat
      BY ONLY <2>1, HeapFacts
    <2>. QED
      BY <2>1, <2>2, StackFacts
  <1>2. PICK e, d : e = s[Len(s)].elm /\ d = s[2 * q - 1].dict
    OBVIOUS
  <1>3. e \in 1 .. Len(h) /\ d <= e /\ d \in 1 .. Len(h) /\ e = s[2 * q - 1].elm
    <2>1. Begun(h, s, q)
      BY <1>1 DEF Stacked
    <2>. QED
      BY <1>1, <1>2, <2>1 DEF Begun
  <1>4. PICK y : /\ Grown(h, e, y, h2) /\ y.next = Len(h) + 1 /\ y.type = h[e].type
                 /\ y.value = h[e].value /\ y.key = h[e].key
                 /\ Len(h2) = Len(h) + 1 /\ Blank(h2, Len(h) + 1) /\ h2[Len(h) + 1].key = k
    <2>1. h2 = Hung(h, e, k)
      BY <1>2
    <2>. QED
      BY ONLY <1>1, <1>3, <2>1, k \in Keys, NextGrows
  <1>7. /\ Len(s2) = 2 * q /\ s2 \in Seq(Frames)
        /\ \A i \in 1 .. 2 * q - 2 : s2[i] = s[i]
        /\ s2[2 * q - 1] = [in |-> "mapping", dict |-> d, elm |-> Len(h) + 1]
        /\ s2[2 * q] = [in |-> "key", node |-> Len(h) + 1]
    BY <1>1, <1>2, KeyPushes
  <1>9. n <= 1 => h[e].next = 0
    BY <1>1, <1>2, <1>3 DEF Tree, Fresh
  <1>10. Len(h) + 1 \in 1 .. Len(h2) /\ d <= Len(h) + 1
    BY ONLY <1>1, <1>3, <1>4
  <1>. QED
    BY ONLY Tree(h, s, q, n), <1>1, <1>2, <1>3, <1>4, <1>7, <1>9, <1>10, TreeKeyed

\* The first key of a mapping is put into its head.
LEMMA TreeKeyFirst ==
  ASSUME NEW h, NEW s, NEW q, NEW n, Tree(h, s, q, n), s # <<>>, s[Len(s)].in = "mapping",
         s[Len(s)].elm = 0, NEW k \in Keys, NEW h2, NEW s2, NEW d, d = s[Len(s)].dict,
         h2 = Headed(h, d, k), s2 = Pushed(s, d)
  PROVE  Tree(h2, s2, q, n)
  <1>1. /\ Heaped(h) /\ Stacked(h, s, q) /\ Len(h) \in Nat
        /\ q \in 1 .. q /\ Len(s) = 2 * q - 1
    <2>1. Heaped(h) /\ Stacked(h, s, q)
      BY DEF Tree
    <2>2. Len(h) \in Nat
      BY ONLY <2>1, HeapFacts
    <2>. QED
      BY <2>1, <2>2, StackFacts
  <1>2. d \in 1 .. Len(h) /\ d = s[2 * q - 1].dict /\ d \in Nat /\ d <= d
    <2>1. Begun(h, s, q)
      BY <1>1 DEF Stacked
    <2>. QED
      BY <1>1, <2>1 DEF Begun
  <1>4. PICK y : /\ Grown(h, d, y, h2) /\ y.next = h[d].next /\ y.type = h[d].type
                 /\ y.value = h[d].value /\ y.key = k /\ Len(h2) = Len(h)
    <2>1. Heaped(h) /\ d \in 1 .. Len(h)
      BY <1>1, <1>2
    <2>. QED
      BY ONLY <2>1, k \in Keys, h2 = Headed(h, d, k), KeyGrows
  <1>6. /\ Len(s2) = 2 * q /\ s2 \in Seq(Frames)
        /\ \A i \in 1 .. 2 * q - 2 : s2[i] = s[i]
        /\ s2[2 * q - 1] = [in |-> "mapping", dict |-> d, elm |-> d]
        /\ s2[2 * q] = [in |-> "key", node |-> d]
    <2>1. Stacked(h, s, q) /\ s # <<>> /\ s[Len(s)].in = "mapping" /\ d \in Nat /\ s2 = Pushed(s, d)
      BY <1>1, <1>2
    <2>2. /\ q >= 1 /\ Len(s) = 2 * q - 1 /\ Len(s2) = 2 * q /\ s2 \in Seq(Frames)
          /\ \A i \in 1 .. 2 * q - 2 : s2[i] = s[i]
          /\ s2[2 * q - 1] = [in |-> "mapping", dict |-> s[2 * q - 1].dict, elm |-> d]
          /\ s2[2 * q] = [in |-> "key", node |-> d]
      BY ONLY <2>1, KeyPushes, SMTT(30)
    <2>3. s[2 * q - 1].dict = d
      BY ONLY <1>2
    <2>. QED
      BY ONLY <2>2, <2>3
  <1>7. h2[d] = y
    BY ONLY <1>4 DEF Grown
  <1>8. n <= 1 => h[d].next = 0 /\ Blank(h2, d)
    <2>1. n <= 1 => Blank(h, d)
      BY <1>1, <1>2 DEF Tree, Fresh
    <2>. QED
      BY ONLY <1>4, <1>7, <2>1 DEF Blank
  <1>9. d \in 1 .. Len(h2) /\ Len(h2) # Len(h) + 1
    BY ONLY <1>1, <1>2, <1>4
  <1>. QED
    BY ONLY Tree(h, s, q, n), <1>1, <1>2, <1>4, <1>6, <1>8, <1>9, TreeKeyed

\* Element e, whose value is read at level p, has its value y; the frames above the
\* mapping of level p are dropped, but a list.
Taking(h, s, q, p, e, y, h2, s2) ==
  /\ p \in 1 .. q /\ (q = p \/ q = p + 1) /\ 2 * p <= Len(s) /\ e = s[2 * p].node
  /\ Grown(h, e, y, h2) /\ Len(h2) = Len(h) /\ y.next = h[e].next
  /\ q = p => y.type # "dict"
  /\ q = p + 1 => y.type = "dict" /\ y.value = s[2 * q - 1].dict
  /\ s[2 * p].in = "key" \/ h[e].type # "dict"
  /\ s2 \in Seq(Frames) /\ \A i \in 1 .. 2 * p - 1 : s2[i] = s[i]
  /\ \/ Len(s2) = 2 * p - 1
     \/ Len(s2) = 2 * p /\ s2[2 * p].in = "list" /\ s2[2 * p].node = e

LEMMA TreeValued ==
  ASSUME NEW h, NEW s, NEW q, NEW n, Tree(h, s, q, n), NEW p, NEW e, NEW y, NEW h2, NEW s2,
         Taking(h, s, q, p, e, y, h2, s2)
  PROVE  Tree(h2, s2, p, n)
  <1>0. /\ p \in 1 .. q /\ (q = p \/ q = p + 1) /\ 2 * p <= Len(s) /\ e = s[2 * p].node
        /\ Grown(h, e, y, h2) /\ Len(h2) = Len(h) /\ y.next = h[e].next
        /\ (q = p => y.type # "dict")
        /\ (q = p + 1 => y.type = "dict" /\ y.value = s[2 * q - 1].dict)
        /\ (s[2 * p].in = "key" \/ h[e].type # "dict")
        /\ s2 \in Seq(Frames) /\ (\A i \in 1 .. 2 * p - 1 : s2[i] = s[i])
        /\ (\/ Len(s2) = 2 * p - 1
            \/ Len(s2) = 2 * p /\ s2[2 * p].in = "list" /\ s2[2 * p].node = e)
    BY DEF Taking
  <1>. USE <1>0
  <1>1. /\ Heaped(h) /\ Stacked(h, s, q) /\ n \in Nat /\ q \in Nat /\ Len(s) \in Nat
        /\ p \in Nat /\ p >= 1 /\ p <= q /\ p \in 1 .. p
    <2>1. Heaped(h) /\ Stacked(h, s, q) /\ n \in Nat
      BY DEF Tree
    <2>2. q \in Nat /\ Len(s) \in Nat
      BY ONLY <2>1, StackFacts
    <2>. QED
      BY ONLY <2>1, <2>2, p \in 1 .. q
  <1>2. /\ Len(h) \in Nat /\ h2[e] = y /\ e \in 1 .. Len(h)
        /\ \A f \in 1 .. Len(h) : f # e => h2[f] = h[f]
    BY <1>1, GrownFacts
  <1>3. e = s[2 * p - 1].elm /\ e # 0
    <2>1. s[2 * p].node = s[2 * p - 1].elm /\ s[2 * p - 1].elm # 0
      BY ONLY <1>1, p \in 1 .. q, 2 * p <= Len(s), KeyFacts
    <2>. QED
      BY <2>1
  <1>4. \A r \in 1 .. p : r \in 1 .. q /\ (r < p => r < q /\ 2 * r < Len(s) /\ 2 * r <= Len(s)
                                                   /\ 2 * r < Len(s2) /\ 2 * r <= Len(s2))
    BY <1>1
  <1>5. \A r \in 1 .. p : /\ s2[2 * r - 1] = s[2 * r - 1]
                          /\ r < p => s2[2 * r] = s[2 * r]
    <2>1. \A r \in 1 .. p : 2 * r - 1 \in 1 .. 2 * p - 1 /\ (r < p => 2 * r \in 1 .. 2 * p - 1)
      BY <1>1
    <2>. QED
      BY <2>1
  <1>6. ASSUME NEW r \in 1 .. p PROVE ~Gains(h, e, y, s[2 * r - 1].dict)
    <2>1. CASE q = p
      BY <2>1 DEF Gains
    <2>2. CASE q = p + 1
      <3>1. r \in 1 .. q /\ q \in 1 .. q /\ r < q
        BY ONLY <1>1, <2>2, r \in 1 .. p
      <3>2. s[2 * r - 1].dict < s[2 * q - 1].dict
        BY <1>1, <3>1 DEF Stacked
      <3>3. s[2 * r - 1].dict \in 1 .. Len(h) /\ s[2 * q - 1].dict \in 1 .. Len(h)
        BY <1>1, <3>1, StackFacts
      <3>4. s[2 * r - 1].dict # s[2 * q - 1].dict
        BY ONLY <1>2, <3>2, <3>3
      <3>. QED
        BY <2>2, <3>4 DEF Gains
    <2>. QED
      BY <2>1, <2>2
  <1>7. Heaped(h2)
    BY <1>1, GrownHeaped
  <1>8. ASSUME NEW r \in 1 .. p PROVE Begun(h2, s2, r)
    BY <1>1, <1>4, <1>5, <1>6, StillBegun
  <1>9. ASSUME NEW r \in 1 .. p, 2 * r <= Len(s2) PROVE Keyed(s2, r)
    <2>1. CASE r < p
      <3>1. Keyed(s, r) /\ s[2 * r].in = "key"
        <4>1. Keyed(s, r)
          BY <1>1, <1>4, <2>1 DEF Stacked
        <4>. QED
          BY <1>4, <2>1, <4>1 DEF Keyed
      <3>. QED
        BY <1>5, <2>1, <3>1 DEF Keyed
    <2>2. CASE ~(r < p)
      <3>1. r = p
        BY <1>1, <2>2
      <3>2. Len(s2) = 2 * p /\ s2[2 * p].in = "list" /\ s2[2 * p].node = e
        BY <1>1, <1>9, <3>1
      <3>3. s2[2 * p - 1].elm = e /\ ~(2 * p < Len(s2))
        BY <1>1, <1>3, <1>5, <3>2
      <3>. QED
        BY <1>3, <3>1, <3>2, <3>3 DEF Keyed
    <2>. QED
      BY <2>1, <2>2
  <1>10. \A r, t \in 1 .. p : r < t => /\ s2[2 * r - 1].dict < s2[2 * t - 1].dict
                                      /\ s2[2 * r].node < s2[2 * t - 1].dict
    <2>1. \A r, t \in 1 .. p : r < t => r < p
      BY <1>1
    <2>2. \A r, t \in 1 .. q : r < t => /\ s[2 * r - 1].dict < s[2 * t - 1].dict
                                        /\ s[2 * r].node < s[2 * t - 1].dict
      BY <1>1 DEF Stacked
    <2>. QED
      BY <1>4, <1>5, <2>1, <2>2
  <1>11. Stacked(h2, s2, p)
    BY <1>1, <1>8, <1>9, <1>10 DEF Stacked
  <1>12. ASSUME n <= 1 PROVE Fresh(h2, s2, p)
    <2>1. Fresh(h, s, q)
      BY <1>12 DEF Tree
    <2>2. /\ \A r \in 1 .. q : s[2 * r - 1].elm # 0 => h[s[2 * r - 1].elm].next = 0
          /\ \A r \in 1 .. q : 2 * r <= Len(s) /\ s[2 * r].in = "key" => Blank(h, s[2 * r].node)
          /\ \A f \in 2 .. Len(h) : \/ \E r \in 1 .. q : s[2 * r - 1].dict = f
                                    \/ \E x \in 1 .. Len(h) : PointsTo(h, x, f)
      BY ONLY <2>1 DEF Fresh
    <2>3. ASSUME NEW r \in 1 .. p
          PROVE  /\ s2[2 * r - 1].elm # 0 /\ s2[2 * r - 1].elm \in 1 .. Len(h)
                 /\ h2[s2[2 * r - 1].elm].next = 0
      <3>1. 2 * r <= Len(s) /\ r \in 1 .. q
        BY <1>1, <1>4
      <3>2. /\ s[2 * r].node = s[2 * r - 1].elm /\ s[2 * r - 1].elm # 0
            /\ s[2 * r].node \in 1 .. Len(h)
        BY ONLY <1>1, <3>1, KeyFacts
      <3>3. h[s[2 * r - 1].elm].next = 0
        BY <2>2, <3>1, <3>2
      <3>. QED
        <4>1. s2[2 * r - 1] = s[2 * r - 1]
          BY <1>5
        <4>2. s[2 * r - 1].elm \in 1 .. Len(h)
          BY ONLY <3>2
        <4>3. h2[s[2 * r - 1].elm].next = 0
          BY ONLY <1>2, <3>3, <4>2, y.next = h[e].next
        <4>. QED
          BY ONLY <3>2, <4>1, <4>2, <4>3
    <2>4. ASSUME NEW r \in 1 .. p, 2 * r <= Len(s2), s2[2 * r].in = "key"
          PROVE  Blank(h2, s2[2 * r].node)
      <3>1. r < p
        <4>1. ~(r = p)
          <5>1. ASSUME r = p PROVE FALSE
            <6>1. s2[2 * p].in = "key" /\ 2 * p <= Len(s2)
              BY ONLY <2>4, <5>1
            <6>2. CASE Len(s2) = 2 * p - 1
              BY ONLY <1>1, <6>1, <6>2
            <6>3. CASE s2[2 * p].in = "list"
              BY ONLY <6>1, <6>3
            <6>. QED
              BY ONLY <1>0, <6>2, <6>3
          <5>. QED
            BY ONLY <5>1
        <4>. QED
          BY ONLY <1>1, <4>1, r \in 1 .. p
      <3>2. s2[2 * r] = s[2 * r] /\ r \in 1 .. q /\ 2 * r <= Len(s)
        BY <1>4, <1>5, <3>1
      <3>3. Blank(h, s[2 * r].node)
        BY <2>2, <2>4, <3>2
      <3>4. s[2 * r].node \in 1 .. Len(h) /\ s[2 * p - 1].dict <= e
        BY <1>1, <3>2, KeyFacts
      <3>5. s[2 * r].node < s[2 * p - 1].dict /\ s[2 * p - 1].dict \in 1 .. Len(h)
        <4>1. p \in 1 .. q
          OBVIOUS
        <4>. QED
          BY <1>1, <3>1, <3>2, <4>1, StackFacts DEF Stacked
      <3>6. s[2 * r].node # e
        <4>1. PICK x, d : x = s[2 * r].node /\ d = s[2 * p - 1].dict
          OBVIOUS
        <4>2. Len(h) \in Nat /\ e \in 1 .. Len(h)
          BY ONLY <1>2
        <4>. QED
          BY ONLY <3>4, <3>5, <4>1, <4>2, NotBelow
      <3>. QED
        BY <1>2, <3>2, <3>3, <3>4, <3>6 DEF Blank
    <2>5. ASSUME NEW f \in 2 .. Len(h2)
          PROVE  \/ \E r \in 1 .. p : s2[2 * r - 1].dict = f
                 \/ \E x \in 1 .. Len(h2) : PointsTo(h2, x, f)
      <3>1. CASE \E r \in 1 .. q : s[2 * r - 1].dict = f
        <4>1. PICK r \in 1 .. q : s[2 * r - 1].dict = f
          BY <3>1
        <4>2. CASE r \in 1 .. p
          BY <1>5, <4>1, <4>2
        <4>3. CASE r \notin 1 .. p
          <5>1. r = q /\ q = p + 1 /\ f # 0
            BY <1>1, <4>3
          <5>2. PointsTo(h2, e, f)
            BY <1>2, <4>1, <5>1 DEF PointsTo
          <5>. QED
            BY <1>2, <5>2
        <4>. QED
          BY <4>2, <4>3
      <3>2. CASE \E x \in 1 .. Len(h) : PointsTo(h, x, f)
        <4>1. PICK x \in 1 .. Len(h) : PointsTo(h, x, f)
          BY <3>2
        <4>2. CASE x # e
          <5>1. h2[x] = h[x]
            BY ONLY <1>2, <4>2, x \in 1 .. Len(h)
          <5>2. PointsTo(h2, x, f) /\ x \in 1 .. Len(h2)
            BY ONLY <4>1, <5>1, Len(h2) = Len(h) DEF PointsTo
          <5>. QED
            BY ONLY <5>2
        <4>3. CASE x = e
          <5>1. CASE s[2 * p].in = "key"
            <6>1. Blank(h, e)
              BY <2>2, <5>1
            <6>. QED
              BY <4>1, <4>3, <6>1 DEF Blank, PointsTo
          <5>2. CASE h[e].type # "dict"
            <6>1. PointsTo(h2, e, f)
              BY <1>2, <4>1, <4>3, <5>2 DEF PointsTo
            <6>. QED
              BY <1>2, <6>1
          <5>. QED
            BY <5>1, <5>2
        <4>. QED
          BY <4>2, <4>3
      <3>. QED
        BY <2>2, <3>1, <3>2
    <2>. QED
      BY <2>3, <2>4, <2>5 DEF Fresh
  <1>13. n # 0
    <2>1. s # <<>>
      BY <1>1
    <2>. QED
      BY <2>1 DEF Tree
  <1>. QED
    BY <1>1, <1>7, <1>11, <1>12, <1>13 DEF Tree

\* A list that is read is one, of words.
Listing(h, s) ==
  s # <<>> /\ s[Len(s)].in = "list" =>
    h[s[Len(s)].node].type = "list" /\ h[s[Len(s)].node].value \in Seq(Words)

\* The level on top, when a value is read.
LEMMA KeyTop ==
  ASSUME NEW h, NEW s, NEW q, NEW n, Tree(h, s, q, n), s # <<>>, s[Len(s)].in # "mapping"
  PROVE  /\ Heaped(h) /\ Stacked(h, s, q) /\ s \in Seq(Frames) /\ q \in 1 .. q
         /\ q \in Nat /\ q >= 1 /\ Len(s) = 2 * q /\ 2 * q <= Len(s) /\ Len(s) \in Nat
         /\ s[Len(s)] = s[2 * q] /\ s[2 * q].node \in 1 .. Len(h)
         /\ s[2 * q].in = s[Len(s)].in /\ s[2 * q].node = s[Len(s)].node
  <1>1. Heaped(h) /\ Stacked(h, s, q)
    BY DEF Tree
  <1>2. /\ s \in Seq(Frames) /\ q \in 1 .. q /\ q \in Nat /\ q >= 1 /\ Len(s) = 2 * q
        /\ Len(s) \in Nat
    BY <1>1, StackFacts
  <1>3. 2 * q <= Len(s)
    BY <1>2
  <1>4. s[2 * q].node \in 1 .. Len(h)
    BY ONLY <1>1, <1>2, <1>3, KeyFacts
  <1>. QED
    BY <1>1, <1>2, <1>3, <1>4

\* A scalar is the value of the key.
LEMMA TreeScalar ==
  ASSUME NEW h, NEW s, NEW q, NEW n, Tree(h, s, q, n), s # <<>>, s[Len(s)].in = "key",
         NEW v \in Scalars, NEW h2, h2 = Valued(h, s[Len(s)].node, "scalar", v),
         NEW s2, s2 = Front(s)
  PROVE  Tree(h2, s2, q, n) /\ Listing(h2, s2)
  <1>1. /\ Heaped(h) /\ Stacked(h, s, q) /\ s \in Seq(Frames) /\ q \in 1 .. q
        /\ q \in Nat /\ q >= 1 /\ Len(s) = 2 * q /\ 2 * q <= Len(s)
        /\ s[2 * q].node \in 1 .. Len(h) /\ s[2 * q].in = "key"
        /\ s[2 * q].node = s[Len(s)].node
    BY ONLY Tree(h, s, q, n), s # <<>>, s[Len(s)].in = "key", KeyTop
  <1>2. PICK e : e = s[2 * q].node
    OBVIOUS
  <1>3. PICK y : /\ Grown(h, e, y, h2) /\ Len(h2) = Len(h) /\ y.next = h[e].next
                 /\ y.type = "scalar" /\ y.value = v /\ y.key = h[e].key
    <2>1. e \in 1 .. Len(h) /\ h2 = Valued(h, e, "scalar", v)
      BY <1>1, <1>2
    <2>2. PICK t : t = "scalar"
      OBVIOUS
    <2>3. Regrown(h, e, t, v, h2)
      <3>1. t \in {"scalar", "list"} /\ v \in Scalars \union Seq(Words) /\ h2 = Valued(h, e, t, v)
        BY <2>1, <2>2
      <3>. QED
        BY ONLY <1>1, <2>1, <3>1, ValueGrows
    <2>. QED
      BY ONLY <2>2, <2>3 DEF Regrown
  <1>4. s2 \in Seq(Frames) /\ Len(s2) = 2 * q - 1 /\ \A i \in 1 .. 2 * q - 1 : s2[i] = s[i]
    <2>1. s2 \in Seq(Frames) /\ Len(s2) = Len(s) - 1 /\ \A i \in 1 .. Len(s2) : s2[i] = s[i]
      BY ONLY <1>1, s # <<>>, s2 = Front(s), FrontIs
    <2>. QED
      BY ONLY <1>1, <2>1
  <1>5. Tree(h2, s2, q, n)
    <2>1. q # q + 1
      BY <1>1
    <2>. QED
      <3>1. PICK y2 : /\ Grown(h, e, y2, h2) /\ Len(h2) = Len(h) /\ y2.next = h[e].next
                      /\ y2.type # "dict"
        BY ONLY <1>3
      <3>2. /\ q \in 1 .. q /\ 2 * q <= Len(s) /\ e = s[2 * q].node /\ s[2 * q].in = "key"
            /\ Len(s2) = 2 * q - 1 /\ s2 \in Seq(Frames) /\ \A i \in 1 .. 2 * q - 1 : s2[i] = s[i]
        BY ONLY <1>1, <1>2, <1>4
      <3>3. Taking(h, s, q, q, e, y2, h2, s2)
        BY ONLY <2>1, <3>1, <3>2 DEF Taking
      <3>. QED
        BY ONLY Tree(h, s, q, n), <3>3, TreeValued
  <1>6. Listing(h2, s2)
    <2>1. s2[Len(s2)].in = "mapping"
      <3>1. Begun(h, s, q)
        BY <1>1 DEF Stacked
      <3>2. s2[Len(s2)] = s[2 * q - 1]
        BY ONLY <1>1, <1>4
      <3>. QED
        BY ONLY <3>1, <3>2 DEF Begun
    <2>. QED
      BY ONLY <2>1 DEF Listing
  <1>. QED
    BY <1>5, <1>6

\* A list is the value of the key, and is read on.
LEMMA TreeListStarts ==
  ASSUME NEW h, NEW s, NEW q, NEW n, Tree(h, s, q, n), s # <<>>, s[Len(s)].in = "key",
         NEW h2, h2 = Valued(h, s[Len(s)].node, "list", <<>>),
         NEW x, x.in = "list", x.node = s[Len(s)].node, x \in Frames,
         NEW s2, s2 = Append(Front(s), x)
  PROVE  Tree(h2, s2, q, n) /\ Listing(h2, s2)
  <1>1. /\ Heaped(h) /\ Stacked(h, s, q) /\ s \in Seq(Frames) /\ q \in 1 .. q
        /\ q \in Nat /\ q >= 1 /\ Len(s) = 2 * q /\ 2 * q <= Len(s)
        /\ s[2 * q].node \in 1 .. Len(h) /\ s[2 * q].in = "key"
        /\ s[2 * q].node = s[Len(s)].node
    BY ONLY Tree(h, s, q, n), s # <<>>, s[Len(s)].in = "key", KeyTop
  <1>2. PICK e : e = s[2 * q].node
    OBVIOUS
  <1>3. PICK y : /\ Grown(h, e, y, h2) /\ Len(h2) = Len(h) /\ y.next = h[e].next
                 /\ y.type = "list" /\ y.value = <<>> /\ y.key = h[e].key
    <2>1. PICK t, v : t = "list" /\ v = <<>>
      OBVIOUS
    <2>2. e \in 1 .. Len(h) /\ h2 = Valued(h, e, t, v)
      BY <1>1, <1>2, <2>1
    <2>3. t \in {"scalar", "list"} /\ v \in Scalars \union Seq(Words)
      BY <2>1
    <2>4. Regrown(h, e, t, v, h2)
      BY ONLY <1>1, <2>2, <2>3, ValueGrows
    <2>. QED
      BY ONLY <2>1, <2>4 DEF Regrown
  <1>4. /\ s2 \in Seq(Frames) /\ Len(s2) = 2 * q /\ \A i \in 1 .. 2 * q - 1 : s2[i] = s[i]
        /\ s2[2 * q] = x
    <2>1. PICK g : g = Front(s)
      OBVIOUS
    <2>2. g \in Seq(Frames) /\ Len(g) = Len(s) - 1 /\ \A i \in 1 .. Len(g) : g[i] = s[i]
      <3>1. s \in Seq(Frames)
        BY <1>1
      <3>. QED
        BY ONLY <2>1, <3>1, s # <<>>, FrontIs
    <2>3. s2 = Append(g, x)
      BY ONLY <2>1, s2 = Append(Front(s), x)
    <2>4. /\ s2 \in Seq(Frames) /\ Len(s2) = Len(g) + 1 /\ s2[Len(g) + 1] = x
          /\ \A i \in 1 .. Len(g) : s2[i] = g[i]
      BY ONLY <2>2, <2>3, x \in Frames, AppendIs
    <2>. QED
      BY ONLY <1>1, <2>2, <2>4
  <1>5. s2[2 * q].in = "list" /\ s2[2 * q].node = e
    BY ONLY <1>1, <1>2, <1>4, x.in = "list", x.node = s[Len(s)].node
  <1>6. Tree(h2, s2, q, n)
    <2>1. q # q + 1
      BY <1>1
    <2>2. Taking(h, s, q, q, e, y, h2, s2)
      BY ONLY <1>1, <1>2, <1>3, <1>4, <1>5, <2>1 DEF Taking
    <2>. QED
      BY ONLY Tree(h, s, q, n), <2>2, TreeValued
  <1>7. Listing(h2, s2)
    <2>1. h2[e] = y
      BY ONLY <1>3 DEF Grown
    <2>2. s2[Len(s2)].node = e
      BY ONLY <1>4, <1>5
    <2>3. <<>> \in Seq(Words)
      OBVIOUS
    <2>. QED
      BY ONLY <1>3, <2>1, <2>2, <2>3 DEF Listing
  <1>. QED
    BY <1>6, <1>7

\* An item is appended to the list.
LEMMA TreeListItem ==
  ASSUME NEW h, NEW s, NEW q, NEW n, Tree(h, s, q, n), s # <<>>, s[Len(s)].in = "list",
         Listing(h, s), NEW v \in Words, NEW h2, h2 = Itemed(h, s[Len(s)].node, v)
  PROVE  Tree(h2, s, q, n) /\ Listing(h2, s)
  <1>1. /\ Heaped(h) /\ Stacked(h, s, q) /\ s \in Seq(Frames) /\ q \in 1 .. q
        /\ q \in Nat /\ q >= 1 /\ Len(s) = 2 * q /\ 2 * q <= Len(s)
        /\ s[2 * q].node \in 1 .. Len(h) /\ s[2 * q].in = "list"
        /\ s[2 * q].node = s[Len(s)].node
    BY ONLY Tree(h, s, q, n), s # <<>>, s[Len(s)].in = "list", KeyTop
  <1>2. PICK e : e = s[2 * q].node
    OBVIOUS
  <1>3. e \in 1 .. Len(h) /\ h[e].type = "list" /\ h[e].value \in Seq(Words)
    BY <1>1, <1>2 DEF Listing
  <1>4. PICK y : /\ Grown(h, e, y, h2) /\ Len(h2) = Len(h) /\ y.next = h[e].next
                 /\ y.type = "list" /\ y.value \in Seq(Words) /\ y.key = h[e].key
    <2>1. h2 = Itemed(h, e, v)
      BY <1>1, <1>2
    <2>. QED
      BY ONLY <1>1, <1>3, <2>1, v \in Words, ItemGrows
  <1>5. Tree(h2, s, q, n)
    <2>1. q # q + 1 /\ \A i \in 1 .. 2 * q - 1 : s[i] = s[i]
      BY <1>1
    <2>2. h[e].type # "dict"
      BY <1>3
    <2>3. Taking(h, s, q, q, e, y, h2, s)
      BY ONLY <1>1, <1>2, <2>2, <1>4, <2>1 DEF Taking
    <2>. QED
      BY ONLY Tree(h, s, q, n), <2>3, TreeValued
  <1>6. Listing(h2, s)
    <2>1. h2[e] = y
      BY ONLY <1>4 DEF Grown
    <2>. QED
      BY ONLY <1>1, <1>2, <1>4, <2>1 DEF Listing
  <1>. QED
    BY <1>5, <1>6

\* The list is complete.
LEMMA TreeListEnds ==
  ASSUME NEW h, NEW s, NEW q, NEW n, Tree(h, s, q, n), s # <<>>, s[Len(s)].in = "list",
         Listing(h, s), NEW s2, s2 = Front(s)
  PROVE  Tree(h, s2, q, n) /\ Listing(h, s2)
  <1>1. /\ Heaped(h) /\ Stacked(h, s, q) /\ s \in Seq(Frames) /\ q \in 1 .. q
        /\ q \in Nat /\ q >= 1 /\ Len(s) = 2 * q /\ 2 * q <= Len(s)
        /\ s[2 * q].node \in 1 .. Len(h) /\ s[2 * q].in = "list"
        /\ s[2 * q].node = s[Len(s)].node
    BY ONLY Tree(h, s, q, n), s # <<>>, s[Len(s)].in = "list", KeyTop
  <1>2. PICK e, y : e = s[2 * q].node /\ y = h[e]
    OBVIOUS
  <1>3. e \in 1 .. Len(h) /\ y.type = "list" /\ y.next = h[e].next /\ h[e].type # "dict"
    BY <1>1, <1>2 DEF Listing
  <1>4. Grown(h, e, y, h)
    <2>1. h \in Seq(Elements) /\ y \in Elements /\ Len(h) \in Nat
      BY ONLY <1>1, <1>2, <1>3, HeapFacts
    <2>2. Len(h) # Len(h) + 1
      BY <2>1
    <2>. QED
      BY ONLY <1>2, <1>3, <2>1, <2>2 DEF Grown
  <1>5. s2 \in Seq(Frames) /\ Len(s2) = 2 * q - 1 /\ \A i \in 1 .. 2 * q - 1 : s2[i] = s[i]
    <2>1. s2 \in Seq(Frames) /\ Len(s2) = Len(s) - 1 /\ \A i \in 1 .. Len(s2) : s2[i] = s[i]
      <3>1. s \in Seq(Frames)
        BY <1>1
      <3>. QED
        BY ONLY <3>1, s # <<>>, s2 = Front(s), FrontIs
    <2>. QED
      BY ONLY <1>1, <2>1
  <1>6. Tree(h, s2, q, n)
    <2>1. q # q + 1 /\ Len(h) = Len(h) /\ y.type # "dict"
      BY <1>1, <1>3
    <2>2. Taking(h, s, q, q, e, y, h, s2)
      BY ONLY <1>1, <1>2, <1>3, <1>4, <1>5, <2>1 DEF Taking
    <2>. QED
      BY ONLY Tree(h, s, q, n), <2>2, TreeValued
  <1>7. Listing(h, s2)
    <2>1. s2[Len(s2)].in = "mapping"
      <3>1. Begun(h, s, q)
        BY <1>1 DEF Stacked
      <3>2. s2[Len(s2)] = s[2 * q - 1]
        BY ONLY <1>1, <1>5
      <3>. QED
        BY ONLY <3>1, <3>2 DEF Begun
    <2>. QED
      BY ONLY <2>1 DEF Listing
  <1>. QED
    BY <1>6, <1>7

\* A mapping in a mapping is complete: it is the value of the key above.
LEMMA TreeMappingEnds ==
  ASSUME NEW h, NEW s, NEW q, NEW n, Tree(h, s, q, n), s # <<>>, s[Len(s)].in = "mapping",
         Len(s) # 1, NEW g, g = Front(s), NEW s2, s2 = Front(g),
         NEW h2, h2 = Closed(h, g[Len(g)].node, s[Len(s)].dict)
  PROVE  Tree(h2, s2, q - 1, n) /\ Listing(h2, s2) /\ q - 1 >= 1
  <1>1. Heaped(h) /\ Stacked(h, s, q)
    BY DEF Tree
  <1>2. /\ s \in Seq(Frames) /\ q \in 1 .. q /\ q \in Nat /\ q >= 1 /\ Len(s) = 2 * q - 1
        /\ Len(s) \in Nat
    BY <1>1, StackFacts
  <1>3. PICK p \in Nat : p = q - 1
    BY <1>2
  <1>4. p \in 1 .. q /\ q = p + 1 /\ q # p /\ 2 * p <= Len(s) /\ p < q /\ Len(s) = 2 * p + 1
        /\ 2 * p < Len(s) /\ p >= 1
    BY <1>2, <1>3
  <1>5. g \in Seq(Frames) /\ Len(g) = 2 * p /\ \A i \in 1 .. 2 * p : g[i] = s[i]
    <2>1. g \in Seq(Frames) /\ Len(g) = Len(s) - 1 /\ \A i \in 1 .. Len(g) : g[i] = s[i]
      BY ONLY <1>2, s # <<>>, g = Front(s), FrontIs
    <2>. QED
      BY ONLY <1>3, <1>4, <2>1
  <1>6. s2 \in Seq(Frames) /\ Len(s2) = 2 * p - 1 /\ \A i \in 1 .. 2 * p - 1 : s2[i] = s[i]
    <2>1. g # <<>>
      BY ONLY <1>3, <1>4, <1>5
    <2>2. s2 \in Seq(Frames) /\ Len(s2) = Len(g) - 1 /\ \A i \in 1 .. Len(s2) : s2[i] = g[i]
      BY ONLY <1>5, <2>1, s2 = Front(g), FrontIs
    <2>. QED
      BY ONLY <1>3, <1>5, <2>2
  <1>7. PICK e, d : e = s[2 * p].node /\ d = s[2 * q - 1].dict
    OBVIOUS
  <1>8. s[2 * p].in = "key" /\ e \in 1 .. Len(h) /\ e < d /\ d \in 1 .. Len(h)
        /\ \A f \in 1 .. Len(h) : ~PointsTo(h, f, d)
    <2>1. Keyed(s, p) /\ Begun(h, s, q) /\ q > 1
      BY <1>1, <1>2, <1>4 DEF Stacked
    <2>2. s[2 * p].in = "key"
      BY <1>4, <2>1 DEF Keyed
    <2>3. s[2 * p].node < s[2 * q - 1].dict
      BY <1>1, <1>2, <1>4 DEF Stacked
    <2>4. s[2 * p].node \in 1 .. Len(h)
      BY ONLY <1>1, <1>4, KeyFacts
    <2>. QED
      BY <1>7, <2>1, <2>2, <2>3, <2>4 DEF Begun
  <1>9. h2 = Closed(h, e, d)
    <2>1. g[Len(g)].node = e /\ s[Len(s)].dict = d
      BY ONLY <1>2, <1>3, <1>4, <1>5, <1>7
    <2>. QED
      BY <2>1
  <1>10. PICK y : /\ Grown(h, e, y, h2) /\ Len(h2) = Len(h) /\ y.next = h[e].next
                  /\ y.type = "dict" /\ y.value = d /\ y.key = h[e].key
    BY ONLY <1>1, <1>8, <1>9, CloseGrows
  <1>11. Tree(h2, s2, p, n)
    <2>1. /\ q = p => y.type # "dict"
          /\ q = p + 1 => y.type = "dict" /\ y.value = s[2 * q - 1].dict
          /\ q = p \/ q = p + 1
      BY ONLY <1>4, <1>7, <1>10
    <2>2. p \in 1 .. q /\ 2 * p <= Len(s) /\ e = s[2 * p].node
      BY ONLY <1>4, <1>7
    <2>3. s[2 * p].in = "key" \/ h[e].type # "dict"
      BY ONLY <1>8
    <2>4. Taking(h, s, q, p, e, y, h2, s2)
      BY ONLY <1>6, <1>10, <2>1, <2>2, <2>3 DEF Taking
    <2>. QED
      BY ONLY Tree(h, s, q, n), <2>4, TreeValued
  <1>12. Listing(h2, s2)
    <2>1. s2[Len(s2)].in = "mapping"
      <3>1. Begun(h, s, p)
        BY <1>1, <1>4 DEF Stacked
      <3>2. s2[Len(s2)] = s[2 * p - 1]
        BY ONLY <1>3, <1>4, <1>6
      <3>. QED
        BY ONLY <3>1, <3>2 DEF Begun
    <2>. QED
      BY ONLY <2>1 DEF Listing
  <1>. QED
    BY <1>3, <1>4, <1>11, <1>12

\* A mapping begins as the value of the key.
LEMMA TreeMappingStarts ==
  ASSUME NEW h, NEW s, NEW q, NEW n, Tree(h, s, q, n), s # <<>>, s[Len(s)].in = "key",
         NEW h2, h2 = Append(h, NewDict), NEW x, x = Mapping(Len(h) + 1),
         NEW s2, s2 = Append(s, x)
  PROVE  Tree(h2, s2, q + 1, n) /\ Listing(h2, s2)
  <1>1. /\ Heaped(h) /\ Stacked(h, s, q) /\ s \in Seq(Frames) /\ q \in 1 .. q
        /\ q \in Nat /\ q >= 1 /\ Len(s) = 2 * q /\ 2 * q <= Len(s)
        /\ s[2 * q].node \in 1 .. Len(h) /\ s[2 * q].in = "key"
        /\ s[2 * q].node = s[Len(s)].node
    BY ONLY Tree(h, s, q, n), s # <<>>, s[Len(s)].in = "key", KeyTop
  <1>2. PICK p, E : p = q + 1 /\ E = Len(h) + 1
    OBVIOUS
  <1>3. n \in Nat /\ n # 0
    BY DEF Tree
  <1>4. /\ Len(h) \in Nat /\ E \in Nat /\ Len(h2) = E /\ h2[E] = NewDict /\ E \notin 1 .. Len(h)
        /\ \A f \in 1 .. Len(h) : h2[f] = h[f]
        /\ Grown(h, 1, h[1], h2)
    <2>1. Len(h) \in Nat /\ h \in Seq(Elements) /\ NewDict \in Elements
      BY ONLY <1>1, HeapFacts
    <2>2. Len(h2) = Len(h) + 1 /\ h2[Len(h) + 1] = NewDict /\ \A f \in 1 .. Len(h) : h2[f] = h[f]
      BY ONLY <2>1, h2 = Append(h, NewDict), HeapAppend
    <2>3. Grown(h, 1, h[1], h2)
      BY ONLY <1>1, h2 = Append(h, NewDict), NewGrows
    <2>. QED
      BY ONLY <1>2, <2>1, <2>2, <2>3
  <1>5. x \in Frames /\ x.in = "mapping" /\ x.dict = E /\ x.elm = 0
    BY <1>2, <1>4 DEF Mapping, Frames
  <1>6. /\ s2 \in Seq(Frames) /\ Len(s2) = 2 * p - 1 /\ s2[2 * p - 1] = x
        /\ \A i \in 1 .. 2 * q : s2[i] = s[i]
    <2>1. /\ s2 \in Seq(Frames) /\ Len(s2) = Len(s) + 1 /\ s2[Len(s) + 1] = x
          /\ \A i \in 1 .. Len(s) : s2[i] = s[i]
      <3>1. s \in Seq(Frames) /\ x \in Frames
        BY <1>1, <1>5
      <3>. QED
        BY ONLY <3>1, s2 = Append(s, x), AppendIs
    <2>. QED
      BY ONLY <1>1, <1>2, <2>1
  <1>7. p \in Nat /\ \A r \in 1 .. p : r = p \/ (r \in 1 .. q /\ r < p)
    BY <1>1, <1>2
  <1>8. \A r \in 1 .. q : /\ s2[2 * r - 1] = s[2 * r - 1] /\ s2[2 * r] = s[2 * r]
                          /\ 2 * r <= Len(s) /\ 2 * r < Len(s2)
    <2>1. \A r \in 1 .. q : 2 * r - 1 \in 1 .. 2 * q /\ 2 * r \in 1 .. 2 * q
      BY <1>1
    <2>. QED
      BY <1>1, <1>2, <1>6, <2>1
  <1>9. Heaped(h2)
    BY <1>1, <1>4, GrownHeaped
  <1>10. \A f \in 1 .. Len(h2), z \in Nat : PointsTo(h2, f, z) => f \in 1 .. Len(h) /\ PointsTo(h, f, z)
    <2>1. \A z : ~Gains(h, 1, h[1], z)
      BY DEF Gains
    <2>. QED
      BY ONLY <1>1, <1>4, <2>1, GrownFacts
  <1>11. ASSUME NEW r \in 1 .. p PROVE Begun(h2, s2, r)
    <2>1. CASE r = p
      <3>1. s2[2 * r - 1] = x /\ r > 1
        BY <1>1, <1>2, <1>6, <2>1
      <3>2. E \in 1 .. Len(h2)
        BY <1>4
      <3>3. ASSUME NEW f \in 1 .. Len(h2), PointsTo(h2, f, E) PROVE FALSE
        <4>1. f \in 1 .. Len(h) /\ PointsTo(h, f, E)
          BY <1>4, <1>10, <3>3
        <4>2. E \in 1 .. Len(h)
          BY ONLY <1>1, <4>1, HeapFacts
        <4>. QED
          BY <1>4, <4>2
      <3>4. r # 1 /\ \A f \in 1 .. Len(h2) : ~PointsTo(h2, f, E)
        BY <1>7, <3>1, <3>3
      <3>. QED
        BY ONLY <1>5, <3>1, <3>2, <3>4 DEF Begun
    <2>2. CASE r # p
      <3>1. r \in 1 .. q /\ s2[2 * r - 1] = s[2 * r - 1] /\ ~Gains(h, 1, h[1], s[2 * r - 1].dict)
        BY <1>7, <1>8, <2>2 DEF Gains
      <3>. QED
        BY ONLY <1>1, <1>4, <3>1, StillBegun
    <2>. QED
      BY <2>1, <2>2
  <1>12. ASSUME NEW r \in 1 .. p, 2 * r <= Len(s2) PROVE Keyed(s2, r)
    <2>1. r \in 1 .. q
      BY <1>1, <1>2, <1>6, <1>7, <1>12
    <2>2. Keyed(s, r)
      BY <1>1, <1>8, <2>1 DEF Stacked
    <2>3. s2[2 * r].in = "key"
      <3>1. CASE r < q
        <4>1. 2 * r < Len(s)
          BY <1>1, <2>1, <3>1
        <4>. QED
          BY <1>8, <2>1, <2>2, <4>1 DEF Keyed
      <3>2. CASE ~(r < q)
        <4>1. r = q
          BY <1>1, <2>1, <3>2
        <4>. QED
          BY <1>1, <1>8, <4>1
      <3>. QED
        BY <3>1, <3>2
    <2>. QED
      BY <1>8, <2>1, <2>2, <2>3 DEF Keyed
  <1>13. ASSUME NEW r \in 1 .. p, NEW t \in 1 .. p, r < t
         PROVE  s2[2 * r - 1].dict < s2[2 * t - 1].dict /\ s2[2 * r].node < s2[2 * t - 1].dict
    <2>1. r \in 1 .. q
      BY <1>7, <1>13
    <2>2. CASE t \in 1 .. q
      BY <1>1, <1>8, <1>13, <2>1, <2>2 DEF Stacked
    <2>3. CASE t = p
      <3>1. s[2 * r - 1].dict \in 1 .. Len(h)
        BY ONLY <1>1, <2>1, StackFacts
      <3>2. s[2 * r].node \in 1 .. Len(h)
        BY ONLY <1>1, <1>8, <2>1, KeyFacts
      <3>3. s2[2 * t - 1].dict = E
        BY <1>5, <1>6, <2>3
      <3>4. s2[2 * r - 1] = s[2 * r - 1] /\ s2[2 * r] = s[2 * r]
        BY <1>8, <2>1
      <3>. QED
        BY ONLY <1>2, <1>4, <3>1, <3>2, <3>3, <3>4
    <2>. QED
      BY <1>7, <2>2, <2>3
  <1>14. Stacked(h2, s2, p)
    BY <1>6, <1>7, <1>11, <1>12, <1>13 DEF Stacked
  <1>15. ASSUME n <= 1 PROVE Fresh(h2, s2, p)
    <2>1. Fresh(h, s, q)
      BY <1>15 DEF Tree
    <2>2. /\ \A r \in 1 .. q : s[2 * r - 1].elm # 0 => h[s[2 * r - 1].elm].next = 0
          /\ \A r \in 1 .. q : 2 * r <= Len(s) /\ s[2 * r].in = "key" => Blank(h, s[2 * r].node)
          /\ \A f \in 2 .. Len(h) : \/ \E r \in 1 .. q : s[2 * r - 1].dict = f
                                    \/ \E z \in 1 .. Len(h) : PointsTo(h, z, f)
      BY ONLY <2>1 DEF Fresh
    <2>3. ASSUME NEW r \in 1 .. p
          PROVE  /\ s2[2 * r - 1].elm = 0 => Blank(h2, s2[2 * r - 1].dict)
                 /\ s2[2 * r - 1].elm # 0 => h2[s2[2 * r - 1].elm].next = 0
      <3>1. CASE r = p
        <4>1. Blank(h2, E)
          BY <1>4 DEF Blank, NewDict
        <4>. QED
          BY <1>5, <1>6, <3>1, <4>1
      <3>2. CASE r # p
        <4>1. r \in 1 .. q
          BY <1>7, <3>2
        <4>2. s[2 * r].node = s[2 * r - 1].elm /\ s[2 * r - 1].elm # 0 /\ s[2 * r].node \in 1 .. Len(h)
          <5>1. Stacked(h, s, q) /\ 2 * r <= Len(s)
            BY <1>1, <1>8, <4>1
          <5>. QED
            BY ONLY <4>1, <5>1, KeyFacts
        <4>3. h[s[2 * r - 1].elm].next = 0
          BY <2>2, <4>1, <4>2
        <4>. QED
          BY <1>4, <1>8, <4>1, <4>2, <4>3
      <3>. QED
        BY <3>1, <3>2
    <2>4. ASSUME NEW r \in 1 .. p, 2 * r <= Len(s2), s2[2 * r].in = "key"
          PROVE  Blank(h2, s2[2 * r].node)
      <3>1. r \in 1 .. q
        BY <1>1, <1>2, <1>6, <1>7, <2>4
      <3>2. Blank(h, s[2 * r].node)
        BY <1>8, <2>2, <2>4, <3>1
      <3>3. s[2 * r].node \in 1 .. Len(h)
        BY ONLY <1>1, <1>8, <3>1, KeyFacts
      <3>. QED
        BY <1>4, <1>8, <3>1, <3>2, <3>3 DEF Blank
    <2>5. ASSUME NEW f \in 2 .. Len(h2)
          PROVE  \/ \E r \in 1 .. p : s2[2 * r - 1].dict = f
                 \/ \E z \in 1 .. Len(h2) : PointsTo(h2, z, f)
      <3>1. CASE f = E
        <4>1. p \in 1 .. p
          BY <1>1, <1>2
        <4>. QED
          BY <1>5, <1>6, <3>1, <4>1
      <3>2. CASE f # E
        <4>1. f \in 2 .. Len(h)
          BY <1>2, <1>4, <3>2
        <4>2. CASE \E r \in 1 .. q : s[2 * r - 1].dict = f
          <5>1. PICK r \in 1 .. q : s[2 * r - 1].dict = f
            BY <4>2
          <5>2. r \in 1 .. p
            BY <1>1, <1>2
          <5>. QED
            BY <1>8, <5>1, <5>2
        <4>3. CASE \E z \in 1 .. Len(h) : PointsTo(h, z, f)
          <5>1. PICK z \in 1 .. Len(h) : PointsTo(h, z, f)
            BY <4>3
          <5>2. PointsTo(h2, z, f) /\ z \in 1 .. Len(h2)
            BY <1>2, <1>4, <5>1 DEF PointsTo
          <5>. QED
            BY <5>2
        <4>. QED
          BY <2>2, <4>1, <4>2, <4>3
      <3>. QED
        BY <3>1, <3>2
    <2>. QED
      BY <2>3, <2>4, <2>5 DEF Fresh
  <1>16. Tree(h2, s2, p, n)
    BY <1>3, <1>9, <1>14, <1>15 DEF Tree
  <1>17. Listing(h2, s2)
    BY <1>5, <1>6 DEF Listing
  <1>. QED
    BY <1>2, <1>16, <1>17

\* The mapping of a document, at the head of the file.
LEMMA TreeDocumentStarts ==
  ASSUME NEW h, NEW q, NEW n, Tree(h, <<>>, q, n), NEW s2, s2 = <<Mapping(1)>>
  PROVE  Tree(h, s2, 1, n + 1) /\ Listing(h, s2)
  <1>1. Heaped(h) /\ Stacked(h, <<>>, q) /\ n \in Nat
    BY DEF Tree
  <1>2. PICK x : x = Mapping(1)
    OBVIOUS
  <1>3. x \in Frames /\ x.in = "mapping" /\ x.dict = 1 /\ x.elm = 0
    BY <1>2 DEF Mapping, Frames
  <1>4. s2 \in Seq(Frames) /\ Len(s2) = 1 /\ s2[1] = x
    BY <1>2, <1>3
  <1>5. Len(h) \in Nat /\ Len(h) >= 1
    BY ONLY <1>1, HeapFacts
  <1>6. \A r \in 1 .. 1 : r = 1 /\ 2 * r - 1 = 1 /\ ~(2 * r <= Len(s2))
    BY <1>4
  <1>7. Begun(h, s2, 1)
    BY <1>3, <1>4, <1>5 DEF Begun
  <1>8. Stacked(h, s2, 1)
    BY <1>4, <1>6, <1>7 DEF Stacked
  <1>9. n + 1 \in Nat /\ n + 1 # 0 /\ (n + 1 <= 1 => n = 0)
    BY <1>1
  <1>10. ASSUME n = 0 PROVE Fresh(h, s2, 1)
    <2>1. h = <<NewDict>>
      BY <1>10 DEF Tree
    <2>2. Len(h) = 1 /\ h[1] = NewDict
      BY <2>1
    <2>3. Blank(h, 1)
      BY <2>2 DEF Blank, NewDict
    <2>. QED
      BY <1>3, <1>4, <1>6, <2>2, <2>3 DEF Fresh
  <1>11. Tree(h, s2, 1, n + 1)
    BY <1>1, <1>8, <1>9, <1>10 DEF Tree
  <1>12. Listing(h, s2)
    BY <1>3, <1>4 DEF Listing
  <1>. QED
    BY <1>11, <1>12

\* Its end.
LEMMA TreeDocumentEnds ==
  ASSUME NEW h, NEW s, NEW q, NEW n, Tree(h, s, q, n), s # <<>>, s[Len(s)].in = "mapping",
         Len(s) = 1
  PROVE  Tree(h, <<>>, 0, n) /\ Listing(h, <<>>)
  <1>1. Heaped(h) /\ Stacked(h, s, q) /\ n \in Nat /\ n # 0
    BY DEF Tree
  <1>2. q = 1 /\ q \in 1 .. q
    <2>1. Len(s) = 2 * q - 1 /\ q \in Nat
      BY ONLY <1>1, s # <<>>, s[Len(s)].in = "mapping", StackFacts
    <2>. QED
      BY <2>1
  <1>3. s[1].dict = 1
    BY <1>1, <1>2 DEF Stacked, Begun
  <1>4. Stacked(h, <<>>, 0)
    BY DEF Stacked
  <1>5. ASSUME n <= 1 PROVE Fresh(h, <<>>, 0)
    <2>1. \A f \in 2 .. Len(h) : \/ \E r \in 1 .. q : s[2 * r - 1].dict = f
                                 \/ \E z \in 1 .. Len(h) : PointsTo(h, z, f)
      BY <1>5 DEF Tree, Fresh
    <2>2. \A r \in 1 .. q : s[2 * r - 1].dict = 1
      BY <1>2, <1>3
    <2>3. \A f \in 2 .. Len(h) : f # 1
      OBVIOUS
    <2>4. \A f \in 2 .. Len(h) : \E z \in 1 .. Len(h) : PointsTo(h, z, f)
      BY <2>1, <2>2, <2>3
    <2>. QED
      BY <2>4 DEF Fresh
  <1>6. Tree(h, <<>>, 0, n)
    BY <1>1, <1>4, <1>5 DEF Tree
  <1>. QED
    BY <1>6 DEF Listing

-----------------------------------------------------------------------------
(* Configuration: the elements form a tree *)

TreeInv ==
  /\ state \in {"closed", "failed"} => heap = <<>> /\ stack = <<>>
  /\ state \in {"parsing", "loaded"} =>
       (\E q : Tree(heap, stack, q, docs)) /\ Listing(heap, stack)
  /\ state = "loaded" => stack = <<>>
  /\ state \in {"closed", "parsing", "loaded", "failed"}

\* A file that is opened has its head.
LEMMA TreeOpens ==
  ASSUME NEW h, h = <<NewDict>>
  PROVE  Tree(h, <<>>, 0, 0)
  <1>1. NewDict \in Elements
    BY DEF NewDict, Elements
  <1>2. h \in Seq(Elements) /\ Len(h) = 1 /\ h[1] = NewDict
    BY <1>1
  <1>3. \A e \in 1 .. Len(h) : e = 1 /\ h[e].next = 0 /\ h[e].type = "dict" /\ h[e].value = 0
    BY <1>2 DEF NewDict
  <1>4. Heaped(h)
    BY <1>2, <1>3 DEF Heaped
  <1>5. Stacked(h, <<>>, 0)
    BY DEF Stacked
  <1>6. Fresh(h, <<>>, 0)
    BY <1>2 DEF Fresh
  <1>. QED
    BY <1>4, <1>5, <1>6 DEF Tree

LEMMA TreeKeyEvent ==
  ASSUME TreeInv, NEW k \in Keys, KeyEvent(k)
  PROVE  TreeInv'
  <1>1. PICK q : Tree(heap, stack, q, docs)
    BY DEF TreeInv, KeyEvent, Waits
  <1>2. PICK h, s, n : h = heap /\ s = stack /\ n = docs
    OBVIOUS
  <1>3. PICK f : f = s[Len(s)]
    OBVIOUS
  <1>4. /\ Tree(h, s, q, n) /\ s # <<>> /\ s[Len(s)].in = "mapping"
        /\ heap' = Linked(h, f, k)
        /\ stack' = Append([s EXCEPT ![Len(s)].elm = IF f.elm = 0 THEN f.dict ELSE Len(h) + 1],
                           [in |-> "key", node |-> IF f.elm = 0 THEN f.dict ELSE Len(h) + 1])
        /\ docs' = n /\ state' = "parsing"
    BY <1>1, <1>2, <1>3 DEF KeyEvent, Waits, Top, Last, Element
  <1>5. Tree(heap', stack', q, docs')
    <2>1. CASE s[Len(s)].elm = 0
      <3>1. PICK d : d = s[Len(s)].dict
        OBVIOUS
      <3>2. heap' = Headed(h, d, k) /\ stack' = Pushed(s, d)
        BY <1>3, <1>4, <2>1, <3>1 DEF Linked, Headed, Pushed
      <3>. QED
        BY ONLY k \in Keys, <1>4, <2>1, <3>1, <3>2, TreeKeyFirst
    <2>2. CASE s[Len(s)].elm # 0
      <3>1. heap' = Hung(h, s[Len(s)].elm, k) /\ stack' = Pushed(s, Len(h) + 1)
        BY <1>3, <1>4, <2>2 DEF Linked, Hung, Pushed
      <3>. QED
        BY ONLY k \in Keys, <1>4, <2>2, <3>1, TreeKeyNext
    <2>. QED
      BY <2>1, <2>2
  <1>6. Listing(heap', stack')
    <2>1. PICK E, x : /\ E = (IF f.elm = 0 THEN f.dict ELSE Len(h) + 1)
                      /\ x = [in |-> "key", node |-> E]
      OBVIOUS
    <2>2. Heaped(h) /\ Stacked(h, s, q)
      BY <1>4 DEF Tree
    <2>3. E \in Nat
      <3>1. Len(h) \in Nat
        BY ONLY <2>2, HeapFacts
      <3>2. q \in 1 .. q /\ Len(s) = 2 * q - 1
        BY ONLY <1>4, <2>2, StackFacts
      <3>3. f.dict \in Nat
        BY ONLY <1>3, <2>2, <3>2, MappingFrame
      <3>. QED
        BY <2>1, <3>1, <3>3
    <2>4. stack' = Pushed(s, E)
      BY <1>4, <2>1 DEF Pushed
    <2>5. Len(stack') = 2 * q /\ stack'[2 * q] = [in |-> "key", node |-> E]
      <3>1. s # <<>> /\ s[Len(s)].in = "mapping"
        BY <1>4
      <3>2. PICK s2 : s2 = stack'
        OBVIOUS
      <3>3. s2 = Pushed(s, E)
        BY ONLY <2>4, <3>2
      <3>4. Len(s2) = 2 * q /\ s2[2 * q] = [in |-> "key", node |-> E]
        <4>1. /\ q >= 1 /\ Len(s) = 2 * q - 1 /\ Len(s2) = 2 * q /\ s2 \in Seq(Frames)
              /\ \A i \in 1 .. 2 * q - 2 : s2[i] = s[i]
              /\ s2[2 * q - 1] = [in |-> "mapping", dict |-> s[2 * q - 1].dict, elm |-> E]
              /\ s2[2 * q] = [in |-> "key", node |-> E]
          BY ONLY <2>2, <2>3, <3>1, <3>3, KeyPushes
        <4>. QED
          BY ONLY <4>1
      <3>. QED
        BY ONLY <3>2, <3>4
    <2>. QED
      BY ONLY <2>5 DEF Listing
  <1>. QED
    BY <1>4, <1>5, <1>6 DEF TreeInv

LEMMA TreeStep ==
  ASSUME TreeInv, ConfigNext
  PROVE  TreeInv'
  <1>1. ASSUME Failing PROVE TreeInv'
    BY <1>1 DEF Failing, TreeInv
  <1>2. CASE Opens
    <2>1. heap' = <<NewDict>> /\ stack' = <<>> /\ docs' = 0 /\ state' = "parsing"
      BY <1>2 DEF Opens, TreeInv
    <2>2. Tree(heap', stack', 0, docs')
      BY <2>1, TreeOpens
    <2>3. Listing(heap', stack')
      BY <2>1 DEF Listing
    <2>. QED
      BY <2>1, <2>2, <2>3 DEF TreeInv
  <1>3. CASE OpenFails \/ ParserFails \/ Unexpected
    BY <1>1, <1>3 DEF OpenFails, ParserFails, Unexpected
  <1>4. CASE StreamEnds
    BY <1>4 DEF StreamEnds, AtTop, TreeInv
  <1>5. CASE DocumentStarts
    <2>1. stack = <<>> /\ stack' = <<Mapping(1)>> /\ heap' = heap /\ docs' = docs + 1
          /\ state' = "parsing" /\ state = "parsing"
      BY <1>5 DEF DocumentStarts, AtTop
    <2>2. PICK q : Tree(heap, <<>>, q, docs)
      BY <2>1 DEF TreeInv
    <2>3. PICK s2, n : s2 = <<Mapping(1)>> /\ n = docs
      OBVIOUS
    <2>4. Tree(heap, s2, 1, n + 1) /\ Listing(heap, s2)
      BY ONLY <2>2, <2>3, TreeDocumentStarts
    <2>. QED
      BY <2>1, <2>3, <2>4 DEF TreeInv
  <1>6. ASSUME NEW k \in Keys, KeyEvent(k) PROVE TreeInv'
    BY <1>6, TreeKeyEvent
  <1>7. ASSUME NEW v \in Scalars, ScalarEvent(v) PROVE TreeInv'
    <2>1. PICK h, s, n : h = heap /\ s = stack /\ n = docs
      OBVIOUS
    <2>2. /\ s # <<>> /\ s[Len(s)].in = "key" /\ stack' = Front(s)
          /\ heap' = Valued(h, s[Len(s)].node, "scalar", v)
          /\ docs' = n /\ state = "parsing" /\ state' = "parsing"
      BY <1>7, <2>1 DEF ScalarEvent, Waits, Top, Last, Valued
    <2>3. PICK q : Tree(h, s, q, n)
      BY <2>1, <2>2 DEF TreeInv
    <2>4. Tree(heap', stack', q, n) /\ Listing(heap', stack')
      BY ONLY v \in Scalars, <2>2, <2>3, TreeScalar
    <2>. QED
      BY <2>2, <2>4 DEF TreeInv
  <1>8. ASSUME NEW v \in Words, ListItem(v) PROVE TreeInv'
    <2>1. PICK h, s, n : h = heap /\ s = stack /\ n = docs
      OBVIOUS
    <2>2. /\ s # <<>> /\ s[Len(s)].in = "list" /\ stack' = s
          /\ heap' = Itemed(h, s[Len(s)].node, v)
          /\ docs' = n /\ state = "parsing" /\ state' = "parsing"
      BY <1>8, <2>1 DEF ListItem, Waits, Top, Last, Itemed
    <2>3. PICK q : Tree(h, s, q, n)
      BY <2>1, <2>2 DEF TreeInv
    <2>4. Listing(h, s)
      BY <2>1, <2>2 DEF TreeInv
    <2>5. Tree(heap', s, q, n) /\ Listing(heap', s)
      BY ONLY v \in Words, <2>2, <2>3, <2>4, TreeListItem
    <2>. QED
      BY <2>2, <2>5 DEF TreeInv
  <1>9. CASE ListStarts
    <2>1. PICK h, s, n : h = heap /\ s = stack /\ n = docs
      OBVIOUS
    <2>2. PICK x : x = [in |-> "list", node |-> s[Len(s)].node]
      OBVIOUS
    <2>3. /\ s # <<>> /\ s[Len(s)].in = "key" /\ stack' = Append(Front(s), x)
          /\ heap' = Valued(h, s[Len(s)].node, "list", <<>>)
          /\ docs' = n /\ state = "parsing" /\ state' = "parsing"
      BY <1>9, <2>1, <2>2 DEF ListStarts, Waits, Top, Last, Valued
    <2>4. PICK q : Tree(h, s, q, n)
      BY <2>1, <2>3 DEF TreeInv
    <2>5. x.in = "list" /\ x.node = s[Len(s)].node /\ x \in Frames
      <3>1. Heaped(h)
        BY <2>4 DEF Tree
      <3>2. Len(h) \in Nat
        BY ONLY <3>1, HeapFacts
      <3>3. s[2 * q].node \in 1 .. Len(h) /\ s[2 * q].node = s[Len(s)].node
        BY ONLY <2>3, <2>4, KeyTop
      <3>. QED
        BY <2>2, <3>2, <3>3 DEF Frames
    <2>6. Tree(heap', stack', q, n) /\ Listing(heap', stack')
      BY ONLY <2>3, <2>4, <2>5, TreeListStarts
    <2>. QED
      BY <2>3, <2>6 DEF TreeInv
  <1>10. CASE ListEnds
    <2>1. PICK h, s, n : h = heap /\ s = stack /\ n = docs
      OBVIOUS
    <2>2. /\ s # <<>> /\ s[Len(s)].in = "list" /\ stack' = Front(s) /\ heap' = h
          /\ docs' = n /\ state = "parsing" /\ state' = "parsing"
      BY <1>10, <2>1 DEF ListEnds, Waits, Top, Last
    <2>3. PICK q : Tree(h, s, q, n)
      BY <2>1, <2>2 DEF TreeInv
    <2>4. Listing(h, s)
      BY <2>1, <2>2 DEF TreeInv
    <2>5. Tree(h, stack', q, n) /\ Listing(h, stack')
      BY ONLY <2>2, <2>3, <2>4, TreeListEnds
    <2>. QED
      BY <2>2, <2>5 DEF TreeInv
  <1>11. CASE MappingStarts
    <2>1. PICK h, s, n, x : h = heap /\ s = stack /\ n = docs /\ x = Mapping(Len(h) + 1)
      OBVIOUS
    <2>2. /\ s # <<>> /\ s[Len(s)].in = "key" /\ stack' = Append(s, x)
          /\ heap' = Append(h, NewDict)
          /\ docs' = n /\ state = "parsing" /\ state' = "parsing"
      BY <1>11, <2>1 DEF MappingStarts, Waits, Top, Last
    <2>3. PICK q : Tree(h, s, q, n)
      BY <2>1, <2>2 DEF TreeInv
    <2>4. x = Mapping(Len(h) + 1)
      BY <2>1
    <2>5. Tree(heap', stack', q + 1, n) /\ Listing(heap', stack')
      BY ONLY <2>2, <2>3, <2>4, TreeMappingStarts
    <2>. QED
      BY <2>2, <2>5 DEF TreeInv
  <1>12. CASE MappingEnds
    <2>1. PICK h, s, n, g : h = heap /\ s = stack /\ n = docs /\ g = Front(s)
      OBVIOUS
    <2>2. /\ s # <<>> /\ s[Len(s)].in = "mapping"
          /\ docs' = n /\ state = "parsing" /\ state' = "parsing"
          /\ Len(s) = 1 => stack' = <<>> /\ heap' = h
          /\ Len(s) # 1 => /\ stack' = Front(g)
                           /\ heap' = Closed(h, g[Len(g)].node, s[Len(s)].dict)
      BY <1>12, <2>1 DEF MappingEnds, Waits, Top, Last
    <2>3. PICK q : Tree(h, s, q, n)
      BY <2>1, <2>2 DEF TreeInv
    <2>4. CASE Len(s) = 1
      <3>1. Tree(h, <<>>, 0, n) /\ Listing(h, <<>>)
        BY ONLY <2>2, <2>3, <2>4, TreeDocumentEnds
      <3>. QED
        BY <2>2, <2>4, <3>1 DEF TreeInv
    <2>5. CASE Len(s) # 1
      <3>1. g = Front(s)
        BY <2>1
      <3>2. Tree(heap', stack', q - 1, n) /\ Listing(heap', stack')
        BY ONLY <2>2, <2>3, <2>5, <3>1, TreeMappingEnds
      <3>. QED
        BY <2>2, <3>2 DEF TreeInv
    <2>. QED
      BY <2>4, <2>5
  <1>13. CASE ConfigFree
    BY <1>13 DEF ConfigFree, TreeInv
  <1>14. CASE Failed
    BY <1>14 DEF Failed, configVars, TreeInv
  <1>. QED
    BY <1>2, <1>3, <1>4, <1>5, <1>6, <1>7, <1>8, <1>9, <1>10, <1>11, <1>12, <1>13, <1>14
    DEF ConfigNext

\* The head and the mappings begun, from which every element is met
Roots == {1} \union Unattached
AllReached ==
  \A S \in SUBSET DOMAIN heap :
    Roots \subseteq S /\ (\A e \in S : Links(e) \subseteq S) => S = DOMAIN heap

\* What is met neither from the head nor from the mappings begun: nothing.
LEMMA LostOnlyBegun ==
  ASSUME AllReached
  PROVE  Lost \subseteq MetFrom(Unattached)
  <1>1. SUFFICES ASSUME NEW e \in DOMAIN heap, e \notin MetFrom({1}), e \notin MetFrom(Unattached)
                 PROVE  FALSE
    BY DEF Lost
  <1>2. PICK A \in SUBSET DOMAIN heap :
          {1} \subseteq A /\ (\A x \in A : Links(x) \subseteq A) /\ e \notin A
    BY <1>1 DEF MetFrom
  <1>3. PICK B \in SUBSET DOMAIN heap :
          Unattached \subseteq B /\ (\A x \in B : Links(x) \subseteq B) /\ e \notin B
    BY <1>1 DEF MetFrom
  <1>4. PICK C : C = A \union B
    OBVIOUS
  <1>5. C \in SUBSET DOMAIN heap /\ Roots \subseteq C /\ \A x \in C : Links(x) \subseteq C
    BY <1>2, <1>3, <1>4 DEF Roots
  <1>6. C = DOMAIN heap
    BY <1>5 DEF AllReached
  <1>. QED
    BY <1>1, <1>2, <1>3, <1>4, <1>6

\* What a tree shows of its links.
LEMMA TreeShows ==
  ASSUME TreeInv, state \in {"parsing", "loaded"}
  PROVE  TreeOwned
  <1>1. PICK q : Tree(heap, stack, q, docs)
    BY DEF TreeInv
  <1>2. Heaped(heap) /\ Stacked(heap, stack, q)
    BY <1>1 DEF Tree
  <1>3. PICK N \in Nat : N = Len(heap) /\ N >= 1
    BY <1>2, HeapFacts
  <1>4. DOMAIN heap = 1 .. N
    BY <1>2, <1>3, HeapFacts
  <1>5. \A e \in 1 .. N : \A x : x \in Links(e) <=> PointsTo(heap, e, x)
    BY DEF Links, PointsTo
  <1>6. \A e \in 1 .. N : \A x : PointsTo(heap, e, x) => x \in 1 .. N /\ e < x
    BY ONLY <1>2, <1>3, HeapFacts
  <1>7. \A e \in 1 .. N : 1 \notin Links(e)
    BY <1>3, <1>5, <1>6
  <1>8. ASSUME NEW e \in 1 .. N, NEW f \in 1 .. N, e # f
        PROVE  Links(e) \intersect Links(f) = {}
    <2>1. ASSUME NEW x, PointsTo(heap, e, x), PointsTo(heap, f, x) PROVE FALSE
      <3>1. x \in 1 .. N
        BY <1>6, <2>1
      <3>. QED
        BY <1>2, <1>3, <1>8, <2>1, <3>1 DEF Heaped
    <2>. QED
      BY <1>5, <2>1
  <1>9. \A e \in 1 .. N : heap[e].type = "dict" /\ heap[e].value # 0 => heap[e].value # heap[e].next
    BY <1>2, <1>3 DEF Heaped
  <1>10. ASSUME docs <= 1 PROVE AllReached
    <2>1. \A e \in 2 .. N : \/ \E r \in 1 .. q : stack[2 * r - 1].dict = e
                            \/ \E p \in 1 .. N : PointsTo(heap, p, e)
      BY <1>1, <1>3, <1>10 DEF Tree, Fresh
    <2>2. \A r \in 1 .. q : stack[2 * r - 1].dict \in Roots
      <3>1. ASSUME NEW r \in 1 .. q
            PROVE  2 * r - 1 \in DOMAIN stack /\ stack[2 * r - 1].in = "mapping"
        <4>1. 2 * r - 1 \in 1 .. Len(stack)
          BY ONLY <1>2, r \in 1 .. q, MappingFrame
        <4>2. stack \in Seq(Frames)
          BY <1>2 DEF Stacked
        <4>3. Begun(heap, stack, r)
          BY <1>2 DEF Stacked
        <4>. QED
          BY <4>1, <4>2, <4>3 DEF Begun
      <3>. QED
        BY <3>1 DEF Roots, Unattached
    <2>3. SUFFICES ASSUME NEW S \in SUBSET DOMAIN heap, Roots \subseteq S,
                          \A e \in S : Links(e) \subseteq S, S # DOMAIN heap
                   PROVE  FALSE
      BY DEF AllReached
    <2>4. PICK F : F = (1 .. N) \ S
      OBVIOUS
    <2>5. F \subseteq Nat /\ F # {}
      <3>1. S \subseteq 1 .. N /\ S # 1 .. N
        BY <1>4, <2>3
      <3>2. \E x \in 1 .. N : x \notin S
        BY <3>1
      <3>. QED
        BY <2>4, <3>2
    <2>6. PICK e \in F : \A f \in F : e <= f
      BY ONLY <2>5, LeastOf
    <2>7. e \in 1 .. N /\ e \notin S /\ 1 \in S
      BY <2>3, <2>4, <2>6 DEF Roots
    <2>8. e \in 2 .. N
      BY <1>3, <2>7
    <2>9. \A r \in 1 .. q : stack[2 * r - 1].dict # e
      BY <2>2, <2>3, <2>7
    <2>10. PICK p \in 1 .. N : PointsTo(heap, p, e)
      BY <2>1, <2>8, <2>9
    <2>11. p < e
      BY <1>6, <2>10
    <2>12. p \in S
      BY <1>3, <2>4, <2>6, <2>7, <2>11
    <2>. QED
      BY <1>5, <2>3, <2>7, <2>10, <2>12
  <1>. QED
    BY <1>4, <1>7, <1>8, <1>9, <1>10, LostOnlyBegun DEF TreeOwned

LostInv == state = "closed" /\ docs <= 1 => lost = 0

\* Nothing but freeing what was loaded closes the file.
LEMMA Closes ==
  ASSUME ConfigNext, state' = "closed"
  PROVE  ConfigFree
  <1>1. ~Opens /\ ~OpenFails /\ ~ParserFails /\ ~Unexpected /\ ~StreamEnds
    BY DEF Opens, OpenFails, ParserFails, Unexpected, Failing, StreamEnds
  <1>2. ~DocumentStarts /\ ~ListStarts /\ ~ListEnds
    BY DEF DocumentStarts, ListStarts, ListEnds, AtTop, Waits
  <1>3. ~MappingStarts /\ ~MappingEnds /\ ~Failed
    BY DEF MappingStarts, MappingEnds, Failed, Waits, configVars
  <1>4. /\ \A k \in Keys : ~KeyEvent(k)
        /\ \A s \in Scalars : ~ScalarEvent(s)
        /\ \A s \in Words : ~ListItem(s)
    BY DEF KeyEvent, ScalarEvent, ListItem, Waits
  <1>. QED
    BY <1>1, <1>2, <1>3, <1>4 DEF ConfigNext

\* What is freed after it was loaded has no mapping that is only begun.
LEMMA LostStep ==
  ASSUME TreeInv, ConfigNext
  PROVE  LostInv'
  <1>1. SUFFICES ASSUME state' = "closed", docs' <= 1 PROVE lost' = 0
    BY DEF LostInv
  <1>2. state = "loaded" /\ lost' = Cardinality(Lost) /\ docs <= 1
    BY <1>1, Closes DEF ConfigFree
  <1>3. stack = <<>>
    BY <1>2 DEF TreeInv
  <1>4. Unattached = {}
    BY <1>3 DEF Unattached
  <1>5. MetFrom(Unattached) = {}
    BY <1>4 DEF MetFrom
  <1>6. Lost \subseteq MetFrom(Unattached)
    BY <1>2, TreeShows DEF TreeOwned
  <1>7. Lost = {}
    BY <1>5, <1>6
  <1>. QED
    BY <1>2, <1>7, FS_EmptySet

\* Between two files nothing is allocated.
LEMMA NothingOwned ==
  ASSUME heap = <<>>, LostInv
  PROVE  TreeOwned
  <1>1. DOMAIN heap = {}
    OBVIOUS
  <1>2. Lost = {}
    BY <1>1 DEF Lost
  <1>. QED
    BY <1>1, <1>2 DEF TreeOwned, LostInv

\* In a configuration file of any size, with any number of documents, no element is
\* pointed to twice, so that config_dict_free frees each once.  A file of one document
\* that was loaded loses none; one that fails loses none but those of the mappings
\* it was in below a key (config_dict.c:17-41, config_parse_key.c:31-40).
THEOREM ConfigTreeOwned == ConfigSpec => []TreeOwned
  <1>1. ConfigInit => TreeInv /\ LostInv
    BY DEF ConfigInit, TreeInv, LostInv
  <1>2. TreeInv /\ LostInv /\ [ConfigNext]_(configVars) => TreeInv' /\ LostInv'
    <2>1. ASSUME TreeInv, LostInv, UNCHANGED configVars PROVE TreeInv' /\ LostInv'
      BY <2>1 DEF configVars, TreeInv, LostInv
    <2>. QED
      BY <2>1, TreeStep, LostStep
  <1>3. TreeInv /\ LostInv => TreeOwned
    <2>1. ASSUME TreeInv, LostInv, state \in {"closed", "failed"} PROVE TreeOwned
      BY <2>1, NothingOwned DEF TreeInv
    <2>2. ASSUME TreeInv, state \in {"parsing", "loaded"} PROVE TreeOwned
      BY <2>2, TreeShows
    <2>3. TreeInv => state \in {"closed", "failed"} \/ state \in {"parsing", "loaded"}
      BY DEF TreeInv
    <2>. QED
      BY <2>1, <2>2, <2>3
  <1>. QED
    BY <1>1, <1>2, <1>3, PTL DEF ConfigSpec

-----------------------------------------------------------------------------
(* Configuration: the outline of the last document *)

Entries == [depth : Nat \ {0}, key : Keys, type : {NULL, "dict", "scalar", "list"},
            value : Scalars \union {NULL}]

\* Entry j is the next beside entry i; the next entry is below entry i.
NextSib(t, i, j) ==
  i < j /\ t[j].depth = t[i].depth /\ \A k \in i + 1 .. j - 1 : t[k].depth > t[i].depth
Child(t, i) == i < Len(t) /\ t[i + 1].depth = t[i].depth + 1

\* Element x is a key whose value is not complete.
Opened(s, q, x) == \E r \in 1 .. q : 2 * r <= Len(s) /\ s[2 * r].in = "key" /\ s[2 * r].node = x

\* Element v is the head of a mapping without keys.
Vacant(h, v) == h[v].key = NULL /\ h[v].next = 0

\* The mapping of level r is at entry i.
Cur(s, t, el, r, i) ==
  el[i] = s[2 * r - 1].elm /\ t[i].depth = r /\ \A j \in i + 1 .. Len(t) : t[j].depth > r

\* el gives the element of each entry.
Marked(h, t, el) ==
  /\ t \in Seq(Entries) /\ el \in [1 .. Len(t) -> 1 .. Len(h)]
  /\ \A i, j \in 1 .. Len(t) : i < j => el[i] < el[j]
  /\ t # <<>> => el[1] = 1 /\ t[1].depth = 1
  /\ \A i \in 1 .. Len(t) : h[el[i]].key = t[i].key
  /\ \A i \in 1 .. Len(t) : i < Len(t) => t[i + 1].depth <= t[i].depth + 1

\* The elements say and link what the entries do.
Kept(h, s, q, t, el) ==
  /\ \A i \in 1 .. Len(t) : ~Opened(s, q, el[i]) =>
       /\ h[el[i]].type = t[i].type
       /\ t[i].type = "scalar" => h[el[i]].value = t[i].value
       /\ Child(t, i) => h[el[i]].value = el[i + 1]
  /\ \A i \in 1 .. Len(t) : Child(t, i) => t[i].type = "dict"
  /\ \A i, j \in 1 .. Len(t) : NextSib(t, i, j) => h[el[i]].next = el[j]

\* They link nothing else.
Only(h, s, q, t, el) ==
  /\ \A i \in 1 .. Len(t) : (\A j \in 1 .. Len(t) : ~NextSib(t, i, j)) => h[el[i]].next = 0
  /\ \A i \in 1 .. Len(t) : ~Opened(s, q, el[i]) /\ t[i].type = "dict" /\ ~Child(t, i) =>
       h[el[i]].value = 0 \/ Vacant(h, h[el[i]].value)
  /\ t = <<>> => Vacant(h, 1)
  /\ t # <<>> => q = 0 \/ s[1].elm # 0

\* Each frame is at an entry, and its mapping below the entry of the frame before.
Placed(h, s, q, t, el) ==
  /\ \A r \in 1 .. q : s[2 * r - 1].elm # 0 => \E i \in 1 .. Len(t) : Cur(s, t, el, r, i)
  /\ q >= 1 /\ Len(s) = 2 * q => t # <<>> /\ s[2 * q - 1].elm = el[Len(t)]
  /\ \A r \in 2 .. q : \E p \in 1 .. Len(t) :
       /\ Cur(s, t, el, r - 1, p) /\ t[p].type = "dict"
       /\ s[2 * r - 1].elm = 0 => /\ p = Len(t) /\ Vacant(h, s[2 * r - 1].dict)
                                  /\ \A i \in 1 .. Len(t) : el[i] < s[2 * r - 1].dict
       /\ s[2 * r - 1].elm # 0 => Child(t, p) /\ s[2 * r - 1].dict = el[p + 1]

Outline(h, s, q, t, n, el) ==
  /\ Marked(h, t, el) /\ Kept(h, s, q, t, el) /\ Placed(h, s, q, t, el)
  /\ n <= 1 => Only(h, s, q, t, el)
  /\ n = 0 => t = <<>>

LEMMA MarkedFacts ==
  ASSUME NEW h, NEW t, NEW el, Heaped(h), Marked(h, t, el), NULL \notin Keys
  PROVE  /\ Len(t) \in Nat /\ t \in Seq(Entries) /\ (t = <<>> <=> Len(t) = 0)
         /\ \A i \in 1 .. Len(t) : /\ el[i] \in 1 .. Len(h) /\ h[el[i]].key # NULL
                                   /\ t[i].depth \in Nat /\ t[i].depth >= 1
                                   /\ t[i] \in Entries /\ t[i].key \in Keys
         /\ \A i, j \in 1 .. Len(t) : el[i] = el[j] => i = j
  <1>1. Len(t) \in Nat /\ t \in Seq(Entries) /\ (t = <<>> <=> Len(t) = 0)
    BY DEF Marked
  <1>2. \A i \in 1 .. Len(t) : el[i] \in 1 .. Len(h) /\ h[el[i]].key = t[i].key
    BY DEF Marked
  <1>3. \A i \in 1 .. Len(t) : t[i] \in Entries
    BY <1>1, ElementOfSeq
  <1>4. \A i \in 1 .. Len(t) : t[i].key \in Keys /\ t[i].depth \in Nat /\ t[i].depth >= 1
    BY <1>3 DEF Entries
  <1>5. Len(h) \in Nat
    BY HeapFacts
  <1>6. ASSUME NEW i \in 1 .. Len(t), NEW j \in 1 .. Len(t), el[i] = el[j] PROVE i = j
    <2>1. i < j => el[i] < el[j]
      BY DEF Marked
    <2>2. j < i => el[j] < el[i]
      BY DEF Marked
    <2>3. el[i] \in Nat /\ el[j] \in Nat
      BY <1>2, <1>5
    <2>. QED
      BY <1>1, <1>6, <2>1, <2>2, <2>3
  <1>. QED
    BY <1>1, <1>2, <1>3, <1>4, <1>6

\* Element e of entry c, whose value is read at level p, has its value y; the frames
\* above the mapping of level p are dropped, but a list.
Valuing(h, s, q, t, n, el, p, e, y, h2, s2, t2, c) ==
  /\ p \in 1 .. q /\ 2 * p <= Len(s)
  /\ q = p \/ (q = p + 1 /\ Len(s) = 2 * q - 1)
  /\ c \in 1 .. Len(t) /\ e = s[2 * p].node /\ el[c] = e
  /\ Grown(h, e, y, h2) /\ Len(h2) = Len(h) /\ y.next = h[e].next /\ y.key = h[e].key
  /\ t2 \in Seq(Entries) /\ Len(t2) = Len(t)
  /\ t2[c].depth = t[c].depth /\ t2[c].key = t[c].key
  /\ \A i \in 1 .. Len(t) : i # c => t2[i] = t[i]
  /\ y.type = t2[c].type
  /\ t2[c].type = "scalar" => y.value = t2[c].value
  /\ Child(t, c) => t2[c].type = "dict" /\ y.value = el[c + 1]
  /\ n <= 1 /\ t2[c].type = "dict" /\ ~Child(t, c) =>
       y.value = 0 \/ (y.value \in 1 .. Len(h) /\ Vacant(h, y.value))
  /\ s2 \in Seq(Frames)
  /\ \A i \in 1 .. 2 * p - 1 : s2[i] = s[i]
  /\ Len(s2) = 2 * p - 1 \/ (Len(s2) = 2 * p /\ s2[2 * p].in = "list" /\ c = Len(t))

LEMMA OutlineValued ==
  ASSUME NULL \notin Keys,
         NEW h, NEW s, NEW q, NEW t, NEW n, NEW el, Tree(h, s, q, n), Outline(h, s, q, t, n, el),
         NEW p, NEW e, NEW y, NEW h2, NEW s2, NEW t2, NEW c,
         Valuing(h, s, q, t, n, el, p, e, y, h2, s2, t2, c)
  PROVE  Outline(h2, s2, p, t2, n, el)
  <1>17. 
    /\ p \in 1 .. q /\ 2 * p <= Len(s)
    /\ q = p \/ (q = p + 1 /\ Len(s) = 2 * q - 1)
    /\ c \in 1 .. Len(t) /\ e = s[2 * p].node /\ el[c] = e
    /\ Grown(h, e, y, h2) /\ Len(h2) = Len(h) /\ y.next = h[e].next /\ y.key = h[e].key
    /\ t2 \in Seq(Entries) /\ Len(t2) = Len(t)
    /\ t2[c].depth = t[c].depth /\ t2[c].key = t[c].key
    /\ \A i \in 1 .. Len(t) : i # c => t2[i] = t[i]
    /\ y.type = t2[c].type
    /\ t2[c].type = "scalar" => y.value = t2[c].value
    /\ Child(t, c) => t2[c].type = "dict" /\ y.value = el[c + 1]
    /\ n <= 1 /\ t2[c].type = "dict" /\ ~Child(t, c) =>
         y.value = 0 \/ (y.value \in 1 .. Len(h) /\ Vacant(h, y.value))
    /\ s2 \in Seq(Frames)
    /\ \A i \in 1 .. 2 * p - 1 : s2[i] = s[i]
    /\ Len(s2) = 2 * p - 1 \/ (Len(s2) = 2 * p /\ s2[2 * p].in = "list" /\ c = Len(t))
    BY DEF Valuing
  <1>. USE <1>17
  <1>1. /\ Heaped(h) /\ Stacked(h, s, q) /\ Marked(h, t, el) /\ Kept(h, s, q, t, el)
        /\ Placed(h, s, q, t, el) /\ (n <= 1 => Only(h, s, q, t, el)) /\ (n = 0 => t = <<>>)
    BY ONLY Tree(h, s, q, n), Outline(h, s, q, t, n, el) DEF Tree, Outline
  <1>2. PICK m \in Nat : m = Len(t)
    BY <1>1 DEF Marked
  <1>3. /\ Len(t) = m /\ t \in Seq(Entries) /\ (t = <<>> <=> m = 0)
        /\ \A i \in 1 .. m : /\ el[i] \in 1 .. Len(h) /\ h[el[i]].key # NULL
                             /\ t[i].depth \in Nat /\ t[i].depth >= 1
                             /\ t[i] \in Entries /\ t[i].key \in Keys
        /\ \A i, j \in 1 .. m : el[i] = el[j] => i = j
    <2>1. Heaped(h) /\ Marked(h, t, el)
      BY <1>1
    <2>. QED
      BY ONLY <1>2, <2>1, NULL \notin Keys, MarkedFacts
  <1>4. /\ q \in Nat /\ Len(s) \in Nat /\ p \in Nat /\ p >= 1 /\ p <= q /\ c \in 1 .. m
        /\ p \in 1 .. q /\ 2 * p <= Len(s) /\ (q = p \/ (q = p + 1 /\ Len(s) = 2 * q - 1))
    <2>1. q \in Nat /\ Len(s) \in Nat
      BY ONLY <1>1, StackFacts
    <2>. QED
      BY <1>2, <2>1
  <1>5. /\ Len(h) \in Nat /\ h2[e] = y /\ e \in 1 .. Len(h) /\ Len(h2) = Len(h)
        /\ \A f \in 1 .. Len(h) : f # e => h2[f] = h[f]
    BY ONLY <1>1, Grown(h, e, y, h2), Len(h2) = Len(h), GrownFacts
  <1>6. \A i \in 1 .. m : i # c => el[i] # e /\ h2[el[i]] = h[el[i]] /\ t2[i] = t[i]
    <2>1. \A i \in 1 .. m : i # c => el[i] # e
      BY ONLY <1>3, <1>4, el[c] = e
    <2>. QED
      BY <1>2, <1>3, <1>5, <2>1
  <1>7. Len(t2) = m /\ \A i \in 1 .. m : t2[i].depth = t[i].depth /\ t2[i].key = t[i].key
    BY <1>2, <1>6
  <1>8. /\ \A i \in 1 .. m : Child(t2, i) <=> Child(t, i)
        /\ \A i, j \in 1 .. m : NextSib(t2, i, j) <=> NextSib(t, i, j)
    <2>1. \A i \in 1 .. m : i < m => i + 1 \in 1 .. m
      OBVIOUS
    <2>2. \A i \in 1 .. m : Child(t2, i) <=> Child(t, i)
      BY ONLY <1>3, <1>7, <2>1 DEF Child
    <2>3. \A i, j \in 1 .. m : \A k \in i + 1 .. j - 1 : k \in 1 .. m
      BY <1>2
    <2>4. \A i, j \in 1 .. m : NextSib(t2, i, j) <=> NextSib(t, i, j)
      BY ONLY <1>7, <2>3 DEF NextSib
    <2>. QED
      BY <2>2, <2>4
  <1>9. Marked(h2, t2, el)
    <2>1. \A i \in 1 .. m : h2[el[i]].key = t2[i].key
      <3>1. \A i \in 1 .. m : h[el[i]].key = t[i].key
        BY ONLY <1>1, <1>3 DEF Marked
      <3>2. h2[el[c]].key = t2[c].key
        BY <1>4, <1>5, <3>1
      <3>. QED
        BY ONLY <1>6, <3>1, <3>2
    <2>2. el \in [1 .. m -> 1 .. Len(h2)] /\ \A i, j \in 1 .. m : i < j => el[i] < el[j]
      BY ONLY <1>1, <1>3, <1>5 DEF Marked
    <2>3. t2 # <<>> => el[1] = 1 /\ t2[1].depth = 1
      <3>1. t # <<>> => el[1] = 1 /\ t[1].depth = 1
        BY ONLY <1>1 DEF Marked
      <3>2. t # <<>> /\ 1 \in 1 .. m
        BY ONLY <1>2, <1>3, <1>4
      <3>. QED
        BY ONLY <1>7, <3>1, <3>2
    <2>4. \A i \in 1 .. m : i < m => t2[i + 1].depth <= t2[i].depth + 1
      <3>1. \A i \in 1 .. m : i < m => t[i + 1].depth <= t[i].depth + 1
        BY ONLY <1>1, <1>3 DEF Marked
      <3>2. \A i \in 1 .. m : i < m => i + 1 \in 1 .. m
        OBVIOUS
      <3>. QED
        BY ONLY <1>7, <3>1, <3>2
    <2>5. t2 \in Seq(Entries)
      OBVIOUS
    <2>. QED
      BY ONLY <1>7, <2>1, <2>2, <2>3, <2>4, <2>5 DEF Marked
  <1>10. ASSUME NEW i \in 1 .. m, i # c, ~Opened(s2, p, el[i]) PROVE ~Opened(s, q, el[i])
    <2>1. SUFFICES ASSUME Opened(s, q, el[i]) PROVE FALSE
      OBVIOUS
    <2>2. PICK r \in 1 .. q : 2 * r <= Len(s) /\ s[2 * r].in = "key" /\ s[2 * r].node = el[i]
      BY <2>1 DEF Opened
    <2>3. r <= p
      BY ONLY <1>4, <2>2
    <2>4. r # p
      BY ONLY <1>6, <1>10, <2>2, e = s[2 * p].node
    <2>5. r \in 1 .. p /\ 2 * r \in 1 .. 2 * p - 1 /\ 2 * r <= Len(s2)
      <3>1. Len(s2) = 2 * p - 1 \/ Len(s2) = 2 * p
        OBVIOUS
      <3>. QED
        BY ONLY <1>4, <2>2, <2>3, <2>4, <3>1
    <2>6. s2[2 * r] = s[2 * r]
      BY <2>5
    <2>7. Opened(s2, p, el[i])
      BY ONLY <2>2, <2>5, <2>6 DEF Opened
    <2>. QED
      BY <1>10, <2>7
  <1>11. Kept(h2, s2, p, t2, el)
    <2>1. ASSUME NEW i \in 1 .. m, ~Opened(s2, p, el[i])
          PROVE  /\ h2[el[i]].type = t2[i].type
                 /\ t2[i].type = "scalar" => h2[el[i]].value = t2[i].value
                 /\ Child(t2, i) => h2[el[i]].value = el[i + 1]
      <3>1. CASE i = c
        BY <1>5, <1>8, <3>1
      <3>2. CASE i # c
        <4>1. ~Opened(s, q, el[i])
          BY <1>10, <2>1, <3>2
        <4>2. /\ h[el[i]].type = t[i].type
              /\ t[i].type = "scalar" => h[el[i]].value = t[i].value
              /\ Child(t, i) => h[el[i]].value = el[i + 1]
          BY ONLY <1>1, <1>3, <4>1, i \in 1 .. m DEF Kept
        <4>. QED
          BY ONLY <1>6, <1>8, <3>2, <4>2, i \in 1 .. m
      <3>. QED
        BY <3>1, <3>2
    <2>2. ASSUME NEW i \in 1 .. m, Child(t2, i) PROVE t2[i].type = "dict"
      <3>1. Child(t, i)
        BY <1>8, <2>2
      <3>2. t[i].type = "dict"
        BY ONLY <1>1, <1>3, <3>1, i \in 1 .. m DEF Kept
      <3>. QED
        BY <1>6, <3>1, <3>2
    <2>3. ASSUME NEW i \in 1 .. m, NEW j \in 1 .. m, NextSib(t2, i, j)
          PROVE  h2[el[i]].next = el[j]
      <3>1. NextSib(t, i, j)
        BY <1>8, <2>3
      <3>2. h[el[i]].next = el[j]
        <4>1. Kept(h, s, q, t, el) /\ Len(t) = m
          BY <1>1, <1>3
        <4>. QED
          BY ONLY <3>1, <4>1, i \in 1 .. m, j \in 1 .. m DEF Kept
      <3>3. CASE i = c
        BY ONLY <1>5, <3>2, <3>3, el[c] = e, y.next = h[e].next
      <3>4. CASE i # c
        BY ONLY <1>6, <3>2, <3>4, i \in 1 .. m
      <3>. QED
        BY ONLY <3>3, <3>4
    <2>. QED
      BY ONLY <1>7, <2>1, <2>2, <2>3 DEF Kept
  <1>12. ASSUME NEW r \in 1 .. p
         PROVE  s2[2 * r - 1] = s[2 * r - 1] /\ r \in 1 .. q /\ s[2 * r - 1].elm # 0
    <2>1. 2 * r - 1 \in 1 .. 2 * p - 1 /\ r \in 1 .. q /\ 2 * r <= Len(s)
      BY ONLY <1>4, r \in 1 .. p
    <2>2. s[2 * r - 1].elm # 0
      BY ONLY <1>1, <2>1, KeyFacts
    <2>. QED
      BY <2>1, <2>2
  <1>13. \A r \in 1 .. p, i \in 1 .. m : Cur(s, t, el, r, i) => Cur(s2, t2, el, r, i)
    <2>1. \A i \in 1 .. m : \A j \in i + 1 .. m : j \in 1 .. m
      BY <1>2
    <2>. QED
      BY ONLY <1>3, <1>7, <1>12, <2>1 DEF Cur
  <1>14. Placed(h2, s2, p, t2, el)
    <2>1. ASSUME NEW r \in 1 .. p PROVE \E i \in 1 .. m : Cur(s2, t2, el, r, i)
      <3>1. \E i \in 1 .. m : Cur(s, t, el, r, i)
        BY ONLY <1>1, <1>3, <1>12, r \in 1 .. p DEF Placed
      <3>. QED
        BY <1>13, <3>1
    <2>2. Len(s2) = 2 * p => t2 # <<>> /\ s2[2 * p - 1].elm = el[Len(t2)]
      <3>1. t2 # <<>>
        BY ONLY <1>4, <1>7
      <3>2. s[2 * p].node = s[2 * p - 1].elm
        <4>1. Stacked(h, s, q) /\ p \in 1 .. q /\ 2 * p <= Len(s)
          BY <1>1, <1>4
        <4>2. s[2 * p].node = s[2 * p - 1].elm /\ s[2 * p - 1].elm # 0
          BY ONLY <4>1, KeyFacts
        <4>. QED
          BY <4>2
      <3>3. s2[2 * p - 1] = s[2 * p - 1]
        <4>1. p \in 1 .. p
          BY <1>4
        <4>. QED
          BY <1>12, <4>1
      <3>4. Len(s2) = 2 * p => c = m
        BY <1>2, <1>4
      <3>. QED
        BY ONLY <1>7, <3>1, <3>2, <3>3, <3>4, e = s[2 * p].node, el[c] = e
    <2>3. ASSUME NEW r \in 2 .. p
          PROVE  \E x \in 1 .. m : /\ Cur(s2, t2, el, r - 1, x) /\ t2[x].type = "dict"
                                   /\ Child(t2, x) /\ s2[2 * r - 1].dict = el[x + 1]
      <3>1. r \in 1 .. p /\ r - 1 \in 1 .. p /\ r \in 2 .. q /\ r \in 1 .. q /\ r - 1 \in 1 .. q
        BY ONLY <1>4, r \in 2 .. p
      <3>2. s2[2 * r - 1] = s[2 * r - 1] /\ s[2 * r - 1].elm # 0
        BY <1>12, <3>1
      <3>3. PICK x \in 1 .. m : /\ Cur(s, t, el, r - 1, x) /\ t[x].type = "dict"
                                /\ Child(t, x) /\ s[2 * r - 1].dict = el[x + 1]
        BY ONLY <1>1, <1>3, <3>1, <3>2 DEF Placed
      <3>4. x # c
        <4>1. PICK b : b = r - 1
          OBVIOUS
        <4>2. b < p /\ b \in 1 .. q /\ 2 * b <= Len(s)
          BY ONLY <1>4, <4>1, r \in 2 .. p
        <4>3. s[2 * b].node = s[2 * b - 1].elm /\ s[2 * b].node \in 1 .. Len(h)
          BY ONLY <1>1, <4>2, KeyFacts
        <4>4. s[2 * b].node < s[2 * p - 1].dict
          BY ONLY <1>1, <1>4, <4>2 DEF Stacked
        <4>5. s[2 * p - 1].dict <= s[2 * p].node /\ s[2 * p].node \in 1 .. Len(h)
          BY ONLY <1>1, <1>4, KeyFacts
        <4>6. s[2 * p - 1].dict \in 1 .. Len(h)
          BY ONLY <1>1, <1>4, StackFacts
        <4>7. el[x] = s[2 * b - 1].elm
          BY ONLY <3>3, <4>1 DEF Cur
        <4>. QED
          BY ONLY <1>5, <4>3, <4>4, <4>5, <4>6, <4>7, e = s[2 * p].node, el[c] = e
      <3>5. Cur(s2, t2, el, r - 1, x)
        BY <1>13, <3>1, <3>3
      <3>. QED
        BY <1>6, <1>8, <3>2, <3>3, <3>4, <3>5
    <2>4. \A r \in 2 .. p : s2[2 * r - 1].elm # 0
      <3>1. \A r \in 2 .. p : r \in 1 .. p
        OBVIOUS
      <3>. QED
        BY <1>12, <3>1
    <2>. QED
      BY ONLY <1>7, <2>1, <2>2, <2>3, <2>4 DEF Placed
  <1>15. ASSUME n <= 1 PROVE Only(h2, s2, p, t2, el)
    <2>1. Only(h, s, q, t, el)
      BY <1>1, <1>15
    <2>2. ASSUME NEW i \in 1 .. m, \A j \in 1 .. m : ~NextSib(t2, i, j)
          PROVE  h2[el[i]].next = 0
      <3>1. \A j \in 1 .. m : ~NextSib(t, i, j)
        BY <1>8, <2>2
      <3>2. h[el[i]].next = 0
        BY ONLY <1>3, <2>1, <3>1, i \in 1 .. m DEF Only
      <3>. QED
        BY <1>5, <1>6, <3>2
    <2>3. ASSUME NEW v \in 1 .. Len(h), Vacant(h, v) PROVE Vacant(h2, v)
      <3>1. v # e
        BY ONLY <1>3, <1>4, <2>3, el[c] = e DEF Vacant
      <3>. QED
        BY ONLY <1>5, <2>3, <3>1, v \in 1 .. Len(h) DEF Vacant
    <2>4. ASSUME NEW i \in 1 .. m, ~Opened(s2, p, el[i]), t2[i].type = "dict", ~Child(t2, i)
          PROVE  h2[el[i]].value = 0 \/ Vacant(h2, h2[el[i]].value)
      <3>1. CASE i = c
        <4>1. y.value = 0 \/ (y.value \in 1 .. Len(h) /\ Vacant(h, y.value))
          BY <1>8, <1>15, <2>4, <3>1
        <4>. QED
          BY <1>5, <2>3, <3>1, <4>1
      <3>2. CASE i # c
        <4>1. ~Opened(s, q, el[i]) /\ t[i].type = "dict" /\ ~Child(t, i)
          BY <1>6, <1>8, <1>10, <2>4, <3>2
        <4>2. h[el[i]].value = 0 \/ Vacant(h, h[el[i]].value)
          BY ONLY <1>3, <2>1, <4>1, i \in 1 .. m DEF Only
        <4>3. h[el[i]].type = "dict"
          BY ONLY <1>1, <1>3, <4>1, i \in 1 .. m DEF Kept
        <4>4. h[el[i]].value = 0 \/ h[el[i]].value \in 1 .. Len(h)
          BY ONLY <1>1, <1>3, <4>3, i \in 1 .. m DEF Heaped
        <4>. QED
          BY <1>6, <2>3, <3>2, <4>2, <4>4
      <3>. QED
        BY <3>1, <3>2
    <2>5. s2[1].elm # 0 /\ t2 # <<>>
      <3>1. PICK r \in 1 .. p : 2 * r - 1 = 1
        <4>1. 1 \in 1 .. p /\ 2 * 1 - 1 = 1
          BY <1>4
        <4>. QED
          BY ONLY <4>1
      <3>2. s2[2 * r - 1].elm # 0
        BY <1>12
      <3>3. t2 # <<>>
        BY ONLY <1>4, <1>7
      <3>. QED
        BY ONLY <3>1, <3>2, <3>3
    <2>. QED
      BY ONLY <1>7, <2>2, <2>4, <2>5 DEF Only
  <1>16. n # 0
    BY ONLY <1>1, <1>3, <1>4
  <1>. QED
    BY ONLY <1>9, <1>11, <1>14, <1>15, <1>16 DEF Outline

\* What a key does to the tree and the outline: the first of a mapping fills its head,
\* any other hangs a new element at the entry c the mapping was at.
Keying(h, s, q, t, n, el, e, y, h2, E, c) ==
  /\ Grown(h, e, y, h2) /\ y.type = h[e].type /\ y.value = h[e].value /\ E \in 1 .. Len(h2)
  /\ \/ /\ s[2 * q - 1].elm = 0 /\ e = s[2 * q - 1].dict /\ E = e /\ y.next = h[e].next
        /\ q = 1 => t = <<>>
     \/ /\ s[2 * q - 1].elm # 0 /\ c \in 1 .. Len(t) /\ Cur(s, t, el, q, c) /\ e = el[c]
        /\ y.key = h[e].key /\ y.next = E /\ E = Len(h) + 1 /\ h2[E].next = 0

\* And to the stack; the key is the last entry of the outline.
Reading(s, q, s2, E) ==
  /\ Len(s2) = 2 * q /\ s2 \in Seq(Frames)
  /\ \A i \in 1 .. 2 * q - 2 : s2[i] = s[i]
  /\ s2[2 * q - 1].dict = s[2 * q - 1].dict /\ s2[2 * q - 1].elm = E
  /\ s2[2 * q].in = "key" /\ s2[2 * q].node = E

Entering(t, el, h2, m, q, k, E, t2, el2) ==
  /\ t2 \in Seq(Entries) /\ Len(t2) = m + 1
  /\ \A i \in 1 .. m : t2[i] = t[i]
  /\ t2[m + 1].depth = q /\ t2[m + 1].key = k
  /\ el2 \in [1 .. m + 1 -> 1 .. Len(h2)]
  /\ \A i \in 1 .. m : el2[i] = el[i]
  /\ el2[m + 1] = E

LEMMA OutlineKeyed ==
  ASSUME NULL \notin Keys, NEW k \in Keys,
         NEW h, NEW s, NEW q, NEW t, NEW n, NEW el, Tree(h, s, q, n), Outline(h, s, q, t, n, el),
         Len(s) = 2 * q - 1, q >= 1,
         NEW e, NEW y, NEW h2, NEW s2, NEW t2, NEW el2, NEW E, NEW c, NEW m, m = Len(t),
         Keying(h, s, q, t, n, el, e, y, h2, E, c), h2[E].key = k,
         Reading(s, q, s2, E), Entering(t, el, h2, m, q, k, E, t2, el2)
  PROVE  Outline(h2, s2, q, t2, n, el2)
  <1>23.
    /\ Len(s2) = 2 * q /\ s2 \in Seq(Frames) /\ \A i \in 1 .. 2 * q - 2 : s2[i] = s[i]
    /\ s2[2 * q - 1].dict = s[2 * q - 1].dict /\ s2[2 * q - 1].elm = E
    /\ s2[2 * q].in = "key" /\ s2[2 * q].node = E
    /\ t2 \in Seq(Entries) /\ Len(t2) = m + 1 /\ \A i \in 1 .. m : t2[i] = t[i]
    /\ t2[m + 1].depth = q /\ t2[m + 1].key = k
    /\ el2 \in [1 .. m + 1 -> 1 .. Len(h2)] /\ (\A i \in 1 .. m : el2[i] = el[i]) /\ el2[m + 1] = E
    BY DEF Reading, Entering
  <1>. USE <1>23
  <1>1. /\ Heaped(h) /\ Stacked(h, s, q) /\ Marked(h, t, el) /\ Kept(h, s, q, t, el)
        /\ Placed(h, s, q, t, el) /\ (n <= 1 => Only(h, s, q, t, el)) /\ (n = 0 => s = <<>>)
    BY ONLY Tree(h, s, q, n), Outline(h, s, q, t, n, el) DEF Tree, Outline
  <1>2. /\ m \in Nat /\ Len(t) = m /\ t \in Seq(Entries) /\ (t = <<>> <=> m = 0)
        /\ \A i \in 1 .. m : /\ el[i] \in 1 .. Len(h) /\ h[el[i]].key # NULL
                             /\ t[i].depth \in Nat /\ t[i].depth >= 1
                             /\ t[i] \in Entries /\ t[i].key \in Keys
        /\ \A i, j \in 1 .. m : el[i] = el[j] => i = j
    BY ONLY <1>1, m = Len(t), NULL \notin Keys, MarkedFacts
  <1>3. /\ q \in Nat /\ q >= 1 /\ Len(s) \in Nat /\ Len(s) = 2 * q - 1 /\ Len(s2) = 2 * q
        /\ q \in 1 .. q
    <2>1. q \in Nat /\ Len(s) \in Nat
      BY ONLY <1>1, StackFacts
    <2>. QED
      BY <2>1
  <1>4. /\ Len(h) \in Nat /\ Len(h2) \in Nat /\ Len(h) <= Len(h2) /\ h2[e] = y /\ e \in 1 .. Len(h)
        /\ \A f \in 1 .. Len(h) : f # e => h2[f] = h[f]
    <2>1. Grown(h, e, y, h2)
      BY ONLY Keying(h, s, q, t, n, el, e, y, h2, E, c) DEF Keying
    <2>. QED
      BY ONLY <1>1, <2>1, GrownFacts
  <1>5. /\ y.type = h[e].type /\ y.value = h[e].value /\ E \in 1 .. Len(h2)
        /\ \/ /\ s[2 * q - 1].elm = 0 /\ e = s[2 * q - 1].dict /\ E = e /\ y.next = h[e].next
              /\ q = 1 => t = <<>>
           \/ /\ s[2 * q - 1].elm # 0 /\ c \in 1 .. m /\ Cur(s, t, el, q, c) /\ e = el[c]
              /\ y.key = h[e].key /\ y.next = E /\ E = Len(h) + 1 /\ h2[E].next = 0
    BY ONLY <1>2, Keying(h, s, q, t, n, el, e, y, h2, E, c) DEF Keying
  <1>6. \A r \in 1 .. q : r # q =>
          /\ r < q /\ 2 * r < Len(s) /\ 2 * r < Len(s2) /\ 2 * r <= Len(s)
          /\ s2[2 * r - 1] = s[2 * r - 1] /\ s2[2 * r] = s[2 * r] /\ s[2 * r - 1].elm # 0
    <2>1. ASSUME NEW r \in 1 .. q, r # q
          PROVE  /\ r < q /\ 2 * r < Len(s) /\ 2 * r < Len(s2) /\ 2 * r <= Len(s)
                 /\ s2[2 * r - 1] = s[2 * r - 1] /\ s2[2 * r] = s[2 * r] /\ s[2 * r - 1].elm # 0
      <3>1. /\ 2 * r - 1 \in 1 .. 2 * q - 2 /\ 2 * r \in 1 .. 2 * q - 2
            /\ r < q /\ 2 * r < Len(s) /\ 2 * r < Len(s2) /\ 2 * r <= Len(s)
        BY ONLY <1>3, <2>1
      <3>2. s[2 * r - 1].elm # 0
        BY ONLY <1>1, <3>1, r \in 1 .. q, KeyFacts
      <3>. QED
        BY <3>1, <3>2
    <2>. QED
      BY <2>1
  \* The first key of a mapping: the entry it is below is the last.
  <1>7. ASSUME s[2 * q - 1].elm = 0, q > 1
        PROVE  /\ m >= 1 /\ t[m].depth = q - 1 /\ t[m].type = "dict" /\ Vacant(h, e)
               /\ \A i \in 1 .. m : el[i] < e
               /\ Cur(s, t, el, q - 1, m)
    <2>1. q \in 2 .. q /\ e = s[2 * q - 1].dict
      BY <1>3, <1>5, <1>7
    <2>2. PICK p \in 1 .. m : /\ Cur(s, t, el, q - 1, p) /\ t[p].type = "dict"
                              /\ p = m /\ Vacant(h, s[2 * q - 1].dict)
                              /\ \A i \in 1 .. m : el[i] < s[2 * q - 1].dict
      BY ONLY <1>1, <1>2, <1>7, <2>1 DEF Placed
    <2>3. t[p].depth = q - 1
      BY <2>2 DEF Cur
    <2>. QED
      BY <1>2, <2>1, <2>2, <2>3
  <1>8. ASSUME s[2 * q - 1].elm = 0, q = 1 PROVE m = 0 /\ e = 1 /\ E = 1
    <2>1. s[2 * q - 1].dict = 1
      BY ONLY <1>1, <1>3, <1>8 DEF Stacked, Begun
    <2>. QED
      BY ONLY <1>2, <1>5, <1>8, <2>1
  <1>9. \A i \in 1 .. m : el[i] < E
    <2>1. CASE s[2 * q - 1].elm = 0
      <3>1. CASE q = 1
        BY ONLY <1>3, <1>8, <2>1, <3>1
      <3>2. CASE q # 1
        <4>1. q > 1
          BY ONLY <1>3, <3>2
        <4>2. E = e
          BY ONLY <1>5, <2>1
        <4>. QED
          BY ONLY <1>7, <2>1, <4>1, <4>2
      <3>. QED
        BY ONLY <3>1, <3>2
    <2>2. CASE s[2 * q - 1].elm # 0
      BY ONLY <1>2, <1>4, <1>5, <2>2
    <2>. QED
      BY <2>1, <2>2
  \* What is not its own entry's keeps its links, but at entry c.
  <1>10. \A i \in 1 .. m : /\ el2[i] = el[i] /\ t2[i] = t[i] /\ i \in 1 .. m + 1
                           /\ h2[el[i]].key = h[el[i]].key /\ h2[el[i]].type = h[el[i]].type
                           /\ h2[el[i]].value = h[el[i]].value
                           /\ s[2 * q - 1].elm = 0 \/ i # c => h2[el[i]].next = h[el[i]].next
    <2>1. ASSUME NEW i \in 1 .. m
          PROVE  /\ h2[el[i]].key = h[el[i]].key /\ h2[el[i]].type = h[el[i]].type
                 /\ h2[el[i]].value = h[el[i]].value
                 /\ s[2 * q - 1].elm = 0 \/ i # c => h2[el[i]].next = h[el[i]].next
      <3>1. CASE el[i] # e
        BY <1>2, <1>4, <3>1
      <3>2. CASE el[i] = e
        <4>1. s[2 * q - 1].elm # 0
          <5>1. e < E /\ e \in Nat
            BY <1>4, <1>9, <3>2
          <5>. QED
            BY <1>5, <5>1
        <4>2. i = c
          BY <1>2, <1>5, <3>2, <4>1
        <4>. QED
          BY <1>4, <1>5, <3>2, <4>1, <4>2
      <3>. QED
        BY <3>1, <3>2
    <2>. QED
      BY <1>2, <2>1
  <1>11. \A i \in 1 .. m + 1 : i \in 1 .. m \/ i = m + 1
    BY <1>2
  <1>12. /\ \A i \in 1 .. m : i < m => (Child(t2, i) <=> Child(t, i))
         /\ \A i, j \in 1 .. m : NextSib(t2, i, j) <=> NextSib(t, i, j)
         /\ ~Child(t2, m + 1) /\ \A i \in 1 .. m : Child(t, i) => i < m /\ i + 1 \in 1 .. m
    <2>1. \A i \in 1 .. m : i < m => i + 1 \in 1 .. m /\ i < m + 1
      BY <1>2
    <2>2. \A i \in 1 .. m : i < m => (Child(t2, i) <=> Child(t, i))
      <3>1. ASSUME NEW i \in 1 .. m, i < m PROVE Child(t2, i) <=> Child(t, i)
        <4>1. t2[i] = t[i] /\ t2[i + 1] = t[i + 1] /\ i < Len(t2) /\ i < Len(t)
          BY <1>2, <1>10, <2>1, <3>1
        <4>. QED
          BY ONLY <4>1 DEF Child
      <3>. QED
        BY <3>1
    <2>3. \A i, j \in 1 .. m : \A x \in i + 1 .. j - 1 : x \in 1 .. m
      BY <1>2
    <2>4. \A i, j \in 1 .. m : NextSib(t2, i, j) <=> NextSib(t, i, j)
      BY ONLY <1>10, <2>3 DEF NextSib
    <2>5. ~Child(t2, m + 1)
      BY ONLY <1>2, Len(t2) = m + 1 DEF Child
    <2>6. \A i \in 1 .. m : Child(t, i) => i < m /\ i + 1 \in 1 .. m
      BY ONLY <1>2 DEF Child
    <2>. QED
      BY <2>2, <2>4, <2>5, <2>6
  \* The entry before: the new one is below it only when it is the first of its mapping.
  <1>13. ASSUME m >= 1
         PROVE  /\ q <= t[m].depth + 1
                /\ Child(t2, m) => s[2 * q - 1].elm = 0 /\ q > 1
    <2>1. CASE s[2 * q - 1].elm = 0
      <3>1. q > 1
        BY <1>3, <1>8, <1>13, <2>1
      <3>. QED
        BY <1>3, <1>7, <2>1, <3>1
    <2>2. CASE s[2 * q - 1].elm # 0
      <3>1. c \in 1 .. m /\ t[c].depth = q /\ \A j \in c + 1 .. m : t[j].depth > q
        BY ONLY <1>2, <1>5, <2>2 DEF Cur
      <3>2. t[m].depth >= q
        <4>1. c = m \/ m \in c + 1 .. m
          BY ONLY <1>2, <3>1
        <4>. QED
          BY ONLY <1>2, <1>3, <1>13, <3>1, <4>1
      <3>3. m \in 1 .. m
        BY ONLY <1>2, <1>13
      <3>4. t[m].depth \in Nat /\ t2[m] = t[m]
        BY <1>2, <1>10, <3>3
      <3>5. ~Child(t2, m)
        BY ONLY <1>2, <1>3, <3>2, <3>4, Len(t2) = m + 1, t2[m + 1].depth = q DEF Child
      <3>. QED
        BY ONLY <1>3, <3>2, <3>4, <3>5
    <2>. QED
      BY <2>1, <2>2
  \* And it is the next one beside entry c.
  <1>14. \A i \in 1 .. m : NextSib(t2, i, m + 1) <=> s[2 * q - 1].elm # 0 /\ i = c
    <2>1. ASSUME NEW i \in 1 .. m, NextSib(t2, i, m + 1) PROVE s[2 * q - 1].elm # 0 /\ i = c
      <3>1. t[i].depth = q /\ \A x \in i + 1 .. m : t[x].depth > q
        <4>1. t2[i].depth = q /\ \A x \in i + 1 .. (m + 1) - 1 : t2[x].depth > q
          BY ONLY <2>1, t2[m + 1].depth = q DEF NextSib
        <4>2. \A x \in i + 1 .. m : x \in 1 .. m /\ x \in i + 1 .. (m + 1) - 1
          BY <1>2
        <4>. QED
          BY ONLY <1>10, <4>1, <4>2, i \in 1 .. m
      <3>2. CASE s[2 * q - 1].elm = 0
        <4>1. q > 1
          BY <1>2, <1>3, <1>8, <3>2
        <4>2. t[m].depth = q - 1
          BY <1>7, <3>2, <4>1
        <4>3. i = m \/ m \in i + 1 .. m
          BY <1>2
        <4>. QED
          BY ONLY <1>3, <3>1, <4>2, <4>3
      <3>3. CASE s[2 * q - 1].elm # 0
        <4>1. c \in 1 .. m /\ t[c].depth = q /\ \A j \in c + 1 .. m : t[j].depth > q
          BY ONLY <1>2, <1>5, <3>3 DEF Cur
        <4>2. i = c \/ c \in i + 1 .. m \/ i \in c + 1 .. m
          BY ONLY <1>2, <4>1, i \in 1 .. m
        <4>. QED
          BY ONLY <1>3, <3>1, <3>3, <4>1, <4>2
      <3>. QED
        BY <3>2, <3>3
    <2>2. ASSUME s[2 * q - 1].elm # 0 PROVE NextSib(t2, c, m + 1)
      <3>1. c \in 1 .. m /\ t[c].depth = q /\ \A j \in c + 1 .. m : t[j].depth > q
        BY ONLY <1>2, <1>5, <2>2 DEF Cur
      <3>2. \A x \in c + 1 .. (m + 1) - 1 : x \in 1 .. m /\ x \in c + 1 .. m
        BY ONLY <1>2, <3>1
      <3>3. c < m + 1
        BY ONLY <1>2, <3>1
      <3>. QED
        BY ONLY <1>10, <3>1, <3>2, <3>3, t2[m + 1].depth = q DEF NextSib
    <2>. QED
      BY <2>1, <2>2
  <1>15. Marked(h2, t2, el2)
    <2>1. \A i, j \in 1 .. m + 1 : i < j => el2[i] < el2[j]
      <3>1. \A i, j \in 1 .. m : i < j => el[i] < el[j]
        BY ONLY <1>1, <1>2 DEF Marked
      <3>2. \A i, j \in 1 .. m + 1 : i < j => i \in 1 .. m
        BY <1>2
      <3>. QED
        BY ONLY <1>9, <1>10, <1>11, <3>1, <3>2, el2[m + 1] = E
    <2>2. el2[1] = 1 /\ t2[1].depth = 1
      <3>1. CASE m = 0
        <4>1. q = 1 /\ s[2 * q - 1].elm = 0
          BY <1>3, <1>5, <1>7, <3>1
        <4>2. E = 1 /\ m + 1 = 1
          BY <1>8, <3>1, <4>1
        <4>. QED
          BY ONLY <4>1, <4>2, el2[m + 1] = E, t2[m + 1].depth = q
      <3>2. CASE m # 0
        <4>1. 1 \in 1 .. m /\ t # <<>>
          BY ONLY <1>2, <3>2
        <4>2. el[1] = 1 /\ t[1].depth = 1
          BY ONLY <1>1, <4>1 DEF Marked
        <4>. QED
          BY ONLY <1>10, <4>1, <4>2
      <3>. QED
        BY <3>1, <3>2
    <2>3. \A i \in 1 .. m + 1 : h2[el2[i]].key = t2[i].key
      <3>1. \A i \in 1 .. m : h[el[i]].key = t[i].key
        BY ONLY <1>1, <1>2 DEF Marked
      <3>. QED
        BY ONLY <1>10, <1>11, <3>1, el2[m + 1] = E, h2[E].key = k, t2[m + 1].key = k
    <2>4. \A i \in 1 .. m + 1 : i < m + 1 => t2[i + 1].depth <= t2[i].depth + 1
      <3>1. \A i \in 1 .. m : i < m => t[i + 1].depth <= t[i].depth + 1
        BY ONLY <1>1, <1>2 DEF Marked
      <3>2. ASSUME NEW i \in 1 .. m + 1, i < m + 1
            PROVE  t2[i + 1].depth <= t2[i].depth + 1
        <4>1. CASE i < m
          <5>1. i \in 1 .. m /\ i + 1 \in 1 .. m
            BY ONLY <1>2, <4>1, i \in 1 .. m + 1
          <5>. QED
            BY ONLY <1>10, <3>1, <4>1, <5>1
        <4>2. CASE ~(i < m)
          <5>1. i = m /\ m >= 1 /\ m \in 1 .. m
            BY ONLY <1>2, <3>2, <4>2, i \in 1 .. m + 1
          <5>2. q <= t[m].depth + 1
            BY <1>13, <5>1
          <5>. QED
            BY ONLY <1>10, <5>1, <5>2, t2[m + 1].depth = q
        <4>. QED
          BY <4>1, <4>2
      <3>. QED
        BY <3>2
    <2>. QED
      BY ONLY <2>1, <2>2, <2>3, <2>4, t2 \in Seq(Entries), Len(t2) = m + 1,
              el2 \in [1 .. m + 1 -> 1 .. Len(h2)] DEF Marked
  <1>16. ASSUME NEW i \in 1 .. m + 1, ~Opened(s2, q, el2[i])
         PROVE  i \in 1 .. m /\ ~Opened(s, q, el[i])
    <2>1. i # m + 1
      <3>1. ASSUME i = m + 1 PROVE FALSE
        <4>1. 2 * q <= Len(s2)
          BY <1>3
        <4>. QED
          BY ONLY <1>3, <1>16, <3>1, <4>1, el2[m + 1] = E, s2[2 * q].in = "key", s2[2 * q].node = E DEF Opened
      <3>. QED
        BY <3>1
    <2>2. i \in 1 .. m
      BY <1>11, <2>1
    <2>3. SUFFICES ASSUME Opened(s, q, el[i]) PROVE FALSE
      BY <2>2
    <2>4. PICK r \in 1 .. q : 2 * r <= Len(s) /\ s[2 * r].in = "key" /\ s[2 * r].node = el[i]
      BY <2>3 DEF Opened
    <2>5. r # q
      BY <1>3, <2>4
    <2>6. s2[2 * r] = s[2 * r] /\ 2 * r <= Len(s2)
      BY <1>3, <1>6, <2>5
    <2>. QED
      BY ONLY <1>10, <1>16, <2>2, <2>4, <2>6 DEF Opened
  <1>17. Child(t2, m) /\ m >= 1 => Opened(s2, q, el2[m])
    <2>1. SUFFICES ASSUME Child(t2, m), m >= 1 PROVE Opened(s2, q, el2[m])
      OBVIOUS
    <2>2. s[2 * q - 1].elm = 0 /\ q > 1
      BY <1>13, <2>1
    <2>3. Cur(s, t, el, q - 1, m)
      BY <1>7, <2>2
    <2>4. PICK r \in 1 .. q : r = q - 1 /\ r # q
      BY <1>3, <2>2
    <2>5. /\ s2[2 * r] = s[2 * r] /\ 2 * r <= Len(s2) /\ 2 * r <= Len(s) /\ 2 * r < Len(s)
      BY <1>3, <1>6, <2>4
    <2>6. s[2 * r].in = "key"
      <3>1. Keyed(s, r)
        BY ONLY <1>1, <2>5, r \in 1 .. q DEF Stacked
      <3>. QED
        BY ONLY <2>5, <3>1 DEF Keyed
    <2>7. s[2 * r].node = s[2 * r - 1].elm
      BY ONLY <1>1, <2>5, r \in 1 .. q, KeyFacts
    <2>8. el[m] = s[2 * r - 1].elm
      BY ONLY <2>3, <2>4 DEF Cur
    <2>9. el2[m] = el[m]
      BY ONLY <1>2, <1>10, <2>1
    <2>. QED
      BY ONLY <2>5, <2>6, <2>7, <2>8, <2>9, r \in 1 .. q DEF Opened
  <1>18. Kept(h2, s2, q, t2, el2)
    <2>1. ASSUME NEW i \in 1 .. m + 1, ~Opened(s2, q, el2[i])
          PROVE  /\ h2[el2[i]].type = t2[i].type
                 /\ t2[i].type = "scalar" => h2[el2[i]].value = t2[i].value
                 /\ Child(t2, i) => h2[el2[i]].value = el2[i + 1]
      <3>1. i \in 1 .. m /\ ~Opened(s, q, el[i])
        BY <1>16, <2>1
      <3>2. /\ h[el[i]].type = t[i].type
            /\ t[i].type = "scalar" => h[el[i]].value = t[i].value
            /\ Child(t, i) => h[el[i]].value = el[i + 1]
        BY ONLY <1>1, <1>2, <3>1 DEF Kept
      <3>3. ASSUME Child(t2, i) PROVE h2[el2[i]].value = el2[i + 1]
        <4>1. i # m
          BY <1>2, <1>17, <2>1, <3>1, <3>3
        <4>2. i < m
          BY ONLY <1>2, <3>1, <4>1
        <4>3. Child(t, i)
          BY ONLY <1>12, <3>1, <3>3, <4>2
        <4>. QED
          BY ONLY <1>10, <1>12, <3>1, <3>2, <4>3
      <3>. QED
        BY ONLY <1>10, <3>1, <3>2, <3>3
    <2>2. ASSUME NEW i \in 1 .. m + 1, Child(t2, i) PROVE t2[i].type = "dict"
      <3>1. i \in 1 .. m
        BY <1>11, <1>12, <2>2
      <3>2. CASE i < m
        <4>1. Child(t, i)
          BY <1>12, <2>2, <3>1, <3>2
        <4>2. t[i].type = "dict"
          BY ONLY <1>1, <1>2, <3>1, <4>1 DEF Kept
        <4>. QED
          BY <1>10, <3>1, <4>2
      <3>3. CASE ~(i < m)
        <4>1. i = m /\ m >= 1
          BY ONLY <1>2, <3>1, <3>3
        <4>2. s[2 * q - 1].elm = 0 /\ q > 1
          BY <1>13, <2>2, <4>1
        <4>3. t[m].type = "dict"
          BY <1>7, <4>2
        <4>. QED
          BY ONLY <1>10, <3>1, <4>1, <4>3
      <3>. QED
        BY <3>2, <3>3
    <2>3. ASSUME NEW i \in 1 .. m + 1, NEW j \in 1 .. m + 1, NextSib(t2, i, j)
          PROVE  h2[el2[i]].next = el2[j]
      <3>1. i < j
        BY <2>3 DEF NextSib
      <3>2. i \in 1 .. m
        BY ONLY <1>2, <3>1, i \in 1 .. m + 1, j \in 1 .. m + 1
      <3>3. CASE j \in 1 .. m
        <4>1. NextSib(t, i, j)
          BY <1>12, <2>3, <3>2, <3>3
        <4>2. h[el[i]].next = el[j]
          BY ONLY <1>1, <1>2, <3>2, <3>3, <4>1 DEF Kept
        <4>3. s[2 * q - 1].elm = 0 \/ i # c
          <5>1. SUFFICES ASSUME s[2 * q - 1].elm # 0, i = c PROVE FALSE
            OBVIOUS
          <5>2. t[c].depth = q /\ \A x \in c + 1 .. m : t[x].depth > q
            BY ONLY <1>2, <1>5, <5>1 DEF Cur
          <5>3. t[j].depth = q
            BY ONLY <4>1, <5>1, <5>2 DEF NextSib
          <5>4. j \in c + 1 .. m
            BY ONLY <1>2, <3>1, <3>2, <3>3, <5>1
          <5>. QED
            BY ONLY <1>3, <5>2, <5>3, <5>4
        <4>. QED
          BY ONLY <1>10, <3>2, <3>3, <4>2, <4>3
      <3>4. CASE j = m + 1
        <4>1. s[2 * q - 1].elm # 0 /\ i = c
          BY <1>14, <2>3, <3>2, <3>4
        <4>. QED
          BY ONLY <1>4, <1>5, <1>10, <3>2, <3>4, <4>1, el2[m + 1] = E
      <3>. QED
        BY <1>11, <3>3, <3>4
    <2>. QED
      BY ONLY <2>1, <2>2, <2>3, Len(t2) = m + 1 DEF Kept
  <1>19. ASSUME NEW r \in 1 .. q, NEW i \in 1 .. m, Cur(s, t, el, r, i), r # q
         PROVE  Cur(s2, t2, el2, r, i)
    <2>1. el[i] = s[2 * r - 1].elm /\ t[i].depth = r /\ \A j \in i + 1 .. m : t[j].depth > r
      BY ONLY <1>2, <1>19 DEF Cur
    <2>2. \A j \in i + 1 .. m + 1 : (j \in i + 1 .. m /\ j \in 1 .. m) \/ j = m + 1
      BY ONLY m \in Nat, i \in 1 .. m
    <2>3. r < q
      BY <1>6, <1>19
    <2>4. \A j \in i + 1 .. m + 1 : t2[j].depth > r
      BY ONLY <1>3, <1>10, <2>1, <2>2, <2>3, t2[m + 1].depth = q
    <2>5. el2[i] = s2[2 * r - 1].elm /\ t2[i].depth = r
      BY <1>6, <1>10, <1>19, <2>1
    <2>. QED
      BY ONLY <2>4, <2>5, Len(t2) = m + 1 DEF Cur
  <1>20. Placed(h2, s2, q, t2, el2)
    <2>1. ASSUME NEW r \in 1 .. q PROVE \E i \in 1 .. m + 1 : Cur(s2, t2, el2, r, i)
      <3>1. CASE r = q
        <4>1. \A j \in m + 2 .. m + 1 : FALSE
          BY <1>2
        <4>2. (m + 1) + 1 = m + 2 /\ m + 1 \in 1 .. m + 1
          BY <1>2
        <4>3. Cur(s2, t2, el2, q, m + 1)
          BY ONLY <4>1, <4>2, Len(t2) = m + 1, el2[m + 1] = E, s2[2 * q - 1].elm = E,
                  t2[m + 1].depth = q DEF Cur
        <4>. QED
          BY <3>1, <4>2, <4>3
      <3>2. CASE r # q
        <4>1. s[2 * r - 1].elm # 0
          BY <1>6, <3>2
        <4>2. PICK i \in 1 .. m : Cur(s, t, el, r, i)
          BY ONLY <1>1, <1>2, <4>1, r \in 1 .. q DEF Placed
        <4>. QED
          BY <1>10, <1>19, <3>2, <4>2
      <3>. QED
        BY <3>1, <3>2
    <2>2. t2 # <<>> /\ s2[2 * q - 1].elm = el2[Len(t2)]
      BY <1>2
    <2>3. ASSUME NEW r \in 2 .. q
          PROVE  \E x \in 1 .. m + 1 : /\ Cur(s2, t2, el2, r - 1, x) /\ t2[x].type = "dict"
                                       /\ Child(t2, x) /\ s2[2 * r - 1].dict = el2[x + 1]
      <3>1. PICK b \in 1 .. q : b = r - 1 /\ b # q
        BY <1>3
      <3>2. r \in 1 .. q
        BY <1>3
      <3>3. s2[2 * r - 1].dict = s[2 * r - 1].dict
        BY <1>6, <3>2
      <3>4. CASE s[2 * r - 1].elm # 0
        <4>1. PICK x \in 1 .. m : /\ Cur(s, t, el, r - 1, x) /\ t[x].type = "dict"
                                  /\ Child(t, x) /\ s[2 * r - 1].dict = el[x + 1]
          BY ONLY <1>1, <1>2, <3>4, r \in 2 .. q DEF Placed
        <4>2. Cur(s, t, el, b, x)
          BY ONLY <3>1, <4>1
        <4>3. Cur(s2, t2, el2, b, x)
          BY ONLY <1>19, <3>1, <4>2
        <4>4. Cur(s2, t2, el2, r - 1, x)
          BY ONLY <3>1, <4>3
        <4>5. Child(t2, x) /\ x + 1 \in 1 .. m
          BY ONLY <1>12, <4>1
        <4>. QED
          BY ONLY <1>10, <3>3, <4>1, <4>4, <4>5
      <3>5. CASE s[2 * r - 1].elm = 0
        <4>1. r = q
          BY <1>6, <3>2, <3>5
        <4>2. q > 1 /\ s[2 * q - 1].elm = 0
          BY <1>3, <3>5, <4>1
        <4>3. m >= 1 /\ t[m].depth = q - 1 /\ t[m].type = "dict" /\ Cur(s, t, el, q - 1, m)
          BY <1>7, <4>2
        <4>4. m \in 1 .. m /\ m < m + 1
          BY ONLY <1>2, <4>3
        <4>5. Cur(s, t, el, b, m)
          BY ONLY <3>1, <4>1, <4>3
        <4>6. Cur(s2, t2, el2, b, m)
          BY ONLY <1>19, <3>1, <4>4, <4>5
        <4>7. Cur(s2, t2, el2, r - 1, m)
          BY ONLY <3>1, <4>6
        <4>8. Child(t2, m)
          BY ONLY <1>3, <1>10, <4>3, <4>4, Len(t2) = m + 1, t2[m + 1].depth = q DEF Child
        <4>9. s2[2 * r - 1].dict = el2[m + 1]
          BY ONLY <1>5, <3>3, <4>1, <4>2, el2[m + 1] = E
        <4>. QED
          BY ONLY <1>10, <4>3, <4>4, <4>7, <4>8, <4>9
      <3>. QED
        BY <3>4, <3>5
    <2>4. \A r \in 2 .. q : s2[2 * r - 1].elm # 0
      <3>1. E # 0
        BY <1>4, <1>5
      <3>2. \A r \in 2 .. q : r \in 1 .. q
        OBVIOUS
      <3>. QED
        BY <1>6, <3>1, <3>2
    <2>. QED
      BY ONLY <2>1, <2>2, <2>3, <2>4, Len(t2) = m + 1 DEF Placed
  <1>21. ASSUME n <= 1 PROVE Only(h2, s2, q, t2, el2)
    <2>1. Only(h, s, q, t, el)
      BY <1>1, <1>21
    <2>2. ASSUME NEW i \in 1 .. m + 1, \A j \in 1 .. m + 1 : ~NextSib(t2, i, j)
          PROVE  h2[el2[i]].next = 0
      <3>1. CASE i \in 1 .. m
        <4>1. \A j \in 1 .. m : ~NextSib(t, i, j)
          BY <1>10, <1>12, <2>2, <3>1
        <4>2. h[el[i]].next = 0
          BY ONLY <1>2, <2>1, <3>1, <4>1 DEF Only
        <4>3. s[2 * q - 1].elm = 0 \/ i # c
          <5>1. m + 1 \in 1 .. m + 1
            BY <1>2
          <5>. QED
            BY <1>14, <2>2, <3>1, <5>1
        <4>. QED
          BY ONLY <1>10, <3>1, <4>2, <4>3
      <3>2. CASE i = m + 1
        <4>1. CASE s[2 * q - 1].elm = 0
          <5>1. Vacant(h, e)
            <6>1. CASE q > 1
              BY <1>7, <4>1, <6>1
            <6>2. CASE q = 1
              <7>1. m = 0 /\ e = 1
                BY <1>8, <4>1, <6>2
              <7>. QED
                BY ONLY <1>2, <2>1, <7>1 DEF Only
            <6>. QED
              BY <1>3, <6>1, <6>2
          <5>. QED
            BY ONLY <1>4, <1>5, <3>2, <4>1, <5>1, el2[m + 1] = E DEF Vacant
        <4>2. CASE s[2 * q - 1].elm # 0
          BY ONLY <1>5, <3>2, <4>2, el2[m + 1] = E
        <4>. QED
          BY <4>1, <4>2
      <3>. QED
        BY <1>11, <3>1, <3>2
    <2>3. ASSUME NEW i \in 1 .. m + 1, ~Opened(s2, q, el2[i]), t2[i].type = "dict", ~Child(t2, i)
          PROVE  h2[el2[i]].value = 0 \/ Vacant(h2, h2[el2[i]].value)
      <3>1. i \in 1 .. m /\ ~Opened(s, q, el[i])
        BY <1>16, <2>3
      <3>2. t[i].type = "dict" /\ ~Child(t, i)
        BY <1>10, <1>12, <2>3, <3>1
      <3>3. h[el[i]].value = 0 \/ Vacant(h, h[el[i]].value)
        BY ONLY <1>2, <2>1, <3>1, <3>2 DEF Only
      <3>4. h[el[i]].type = "dict"
        BY ONLY <1>1, <1>2, <3>1, <3>2 DEF Kept
      <3>5. h[el[i]].value = 0 \/ h[el[i]].value \in 1 .. Len(h)
        BY ONLY <1>1, <1>2, <3>1, <3>4 DEF Heaped
      <3>6. ASSUME h[el[i]].value # 0 PROVE Vacant(h2, h[el[i]].value)
        <4>1. PICK v \in 1 .. Len(h) : v = h[el[i]].value /\ Vacant(h, v)
          BY ONLY <3>3, <3>5, <3>6
        <4>2. v # e
          <5>1. CASE s[2 * q - 1].elm # 0
            BY ONLY <1>2, <1>5, <4>1, <5>1 DEF Vacant
          <5>2. CASE s[2 * q - 1].elm = 0
            <6>1. q > 1
              BY <1>2, <1>3, <1>8, <3>1, <5>2
            <6>2. ~PointsTo(h, el[i], s[2 * q - 1].dict)
              BY ONLY <1>1, <1>2, <1>3, <3>1, <6>1 DEF Stacked, Begun
            <6>. QED
              BY ONLY <1>5, <3>4, <3>6, <4>1, <5>2, <6>2 DEF PointsTo
          <5>. QED
            BY <5>1, <5>2
        <4>3. h2[v] = h[v]
          BY <1>4, <4>2
        <4>. QED
          BY ONLY <4>1, <4>3 DEF Vacant
      <3>. QED
        BY <1>10, <3>1, <3>6
    <2>4. t2 # <<>> /\ s2[1].elm # 0
      <3>1. PICK r \in 1 .. q : r = 1 /\ 2 * r - 1 = 1
        BY <1>3
      <3>2. E # 0
        BY <1>4, <1>5
      <3>3. s2[2 * r - 1].elm # 0
        BY <1>6, <3>2
      <3>4. t2 # <<>>
        BY <1>2
      <3>. QED
        BY ONLY <3>1, <3>3, <3>4
    <2>. QED
      BY ONLY <2>2, <2>3, <2>4, Len(t2) = m + 1 DEF Only
  <1>22. n # 0
    BY <1>1, <1>3
  <1>. QED
    BY ONLY <1>15, <1>18, <1>20, <1>21, <1>22 DEF Outline

-----------------------------------------------------------------------------
(* Configuration: the outline, event by event *)

\* The outline, with the type and the value of its last entry.
Saying(t, type, value) == [t EXCEPT ![Len(t)] = [@ EXCEPT !.type = type, !.value = value]]

Sayable(t, type, value) ==
  /\ t \in Seq(Entries) /\ t # <<>>
  /\ type \in {NULL, "dict", "scalar", "list"} /\ value \in Scalars \union {NULL}

\* t2 says so of its last entry, and of the others what t says.
SaysSo(t, type, value, t2) ==
  /\ t2 \in Seq(Entries) /\ Len(t2) = Len(t)
  /\ t2[Len(t)].depth = t[Len(t)].depth /\ t2[Len(t)].key = t[Len(t)].key
  /\ t2[Len(t)].type = type /\ t2[Len(t)].value = value
  /\ \A i \in 1 .. Len(t) : i # Len(t) => t2[i] = t[i]

LEMMA SayingIs ==
  ASSUME NEW t, NEW type, NEW value, Sayable(t, type, value)
  PROVE  SaysSo(t, type, value, Saying(t, type, value))
  <1>. USE DEF Sayable
  <1>1. Len(t) \in Nat /\ Len(t) \in 1 .. Len(t)
    OBVIOUS
  <1>2. PICK x : x = [t[Len(t)] EXCEPT !.type = type, !.value = value]
    OBVIOUS
  <1>3. t[Len(t)] \in Entries
    BY <1>1, ElementOfSeq
  <1>4. /\ x \in Entries /\ x.depth = t[Len(t)].depth /\ x.key = t[Len(t)].key
        /\ x.type = type /\ x.value = value
    BY <1>2, <1>3 DEF Entries
  <1>7. PICK t2 : t2 = Saying(t, type, value)
    OBVIOUS
  <1>5. t2 = [t EXCEPT ![Len(t)] = x]
    BY <1>2, <1>7 DEF Saying
  <1>6. /\ t2 \in Seq(Entries) /\ Len(t2) = Len(t) /\ t2[Len(t)] = x
        /\ \A i \in 1 .. Len(t) : i # Len(t) => t2[i] = t[i]
    <2>1. t \in Seq(Entries)
      OBVIOUS
    <2>. QED
      BY ONLY <1>1, <1>4, <1>5, <2>1, ChangeIs
  <1>. QED
    BY <1>1, <1>4, <1>6, <1>7 DEF SaysSo

\* The entry of what is read on top is the last.
LEMMA OutlineTop ==
  ASSUME NULL \notin Keys,
         NEW h, NEW s, NEW q, NEW t, NEW n, NEW el, Tree(h, s, q, n), Outline(h, s, q, t, n, el),
         s # <<>>, s[Len(s)].in # "mapping"
  PROVE  /\ Len(t) \in Nat /\ Len(t) \in 1 .. Len(t) /\ t \in Seq(Entries) /\ t # <<>>
         /\ el[Len(t)] = s[2 * q].node /\ ~Child(t, Len(t))
         /\ s[2 * q].in = s[Len(s)].in /\ s[2 * q].node = s[Len(s)].node
         /\ q \in 1 .. q /\ Len(s) = 2 * q /\ 2 * q <= Len(s) /\ Heaped(h) /\ s \in Seq(Frames)
         /\ s[2 * q].node \in 1 .. Len(h)
  <1>1. /\ Heaped(h) /\ Stacked(h, s, q) /\ s \in Seq(Frames) /\ q \in 1 .. q
        /\ q \in Nat /\ q >= 1 /\ Len(s) = 2 * q /\ 2 * q <= Len(s) /\ Len(s) \in Nat
        /\ s[2 * q].node \in 1 .. Len(h)
        /\ s[2 * q].in = s[Len(s)].in /\ s[2 * q].node = s[Len(s)].node
    BY ONLY Tree(h, s, q, n), s # <<>>, s[Len(s)].in # "mapping", KeyTop
  <1>2. Marked(h, t, el) /\ Placed(h, s, q, t, el)
    BY ONLY Outline(h, s, q, t, n, el) DEF Outline
  <1>3. t # <<>> /\ s[2 * q - 1].elm = el[Len(t)]
    BY ONLY <1>1, <1>2 DEF Placed
  <1>4. s[2 * q].node = s[2 * q - 1].elm
    <2>1. PICK r \in 1 .. q : r = q
      BY ONLY <1>1
    <2>2. Stacked(h, s, q) /\ 2 * r <= Len(s)
      BY ONLY <1>1, <2>1
    <2>3. s[2 * r].node = s[2 * r - 1].elm
      BY ONLY <2>2, r \in 1 .. q, KeyFacts
    <2>. QED
      BY ONLY <2>1, <2>3
  <1>5. t \in Seq(Entries)
    BY ONLY <1>2 DEF Marked
  <1>6. Len(t) \in Nat /\ Len(t) \in 1 .. Len(t)
    BY ONLY <1>3, <1>5
  <1>7. ~Child(t, Len(t))
    BY ONLY <1>6 DEF Child
  <1>. QED
    BY ONLY <1>1, <1>3, <1>4, <1>5, <1>6, <1>7

\* A scalar, and a list that begins.
LEMMA OutlineValue ==
  ASSUME NULL \notin Keys,
         NEW h, NEW s, NEW q, NEW t, NEW n, NEW el, Tree(h, s, q, n), Outline(h, s, q, t, n, el),
         s # <<>>, s[Len(s)].in = "key",
         NEW type \in {"scalar", "list"}, NEW v \in Scalars \union Seq(Words),
         NEW w \in Scalars \union {NULL}, type = "scalar" => v = w,
         NEW h2, h2 = Valued(h, s[Len(s)].node, type, v), NEW t2, t2 = Saying(t, type, w),
         NEW s2, s2 \in Seq(Frames), \A i \in 1 .. 2 * q - 1 : s2[i] = s[i],
         Len(s2) = 2 * q - 1 \/ (Len(s2) = 2 * q /\ s2[2 * q].in = "list")
  PROVE  Outline(h2, s2, q, t2, n, el)
  <1>1. s[Len(s)].in # "mapping"
    OBVIOUS
  <1>2. PICK c, e : c = Len(t) /\ e = s[2 * q].node
    OBVIOUS
  <1>3. /\ c \in 1 .. Len(t) /\ t \in Seq(Entries) /\ t # <<>>
        /\ el[c] = e /\ ~Child(t, c) /\ s[Len(s)].node = e
        /\ q \in 1 .. q /\ 2 * q <= Len(s) /\ Heaped(h) /\ e \in 1 .. Len(h)
    BY ONLY NULL \notin Keys, Tree(h, s, q, n), Outline(h, s, q, t, n, el), s # <<>>, <1>1, <1>2,
            OutlineTop
  <1>4. PICK y : /\ Grown(h, e, y, h2) /\ Len(h2) = Len(h) /\ y.next = h[e].next
                 /\ y.type = type /\ y.value = v /\ y.key = h[e].key
    <2>1. h2 = Valued(h, e, type, v)
      BY <1>3
    <2>2. Regrown(h, e, type, v, h2)
      BY ONLY <1>3, <2>1, type \in {"scalar", "list"}, v \in Scalars \union Seq(Words), ValueGrows
    <2>. QED
      BY ONLY <2>2 DEF Regrown
  <1>5. /\ t2 \in Seq(Entries) /\ Len(t2) = Len(t)
        /\ t2[c].depth = t[c].depth /\ t2[c].key = t[c].key
        /\ t2[c].type = type /\ t2[c].value = w
        /\ \A i \in 1 .. Len(t) : i # c => t2[i] = t[i]
    <2>1. Sayable(t, type, w)
      BY <1>3 DEF Sayable
    <2>2. SaysSo(t, type, w, t2)
      BY <2>1, SayingIs
    <2>. QED
      BY ONLY <1>2, <2>2 DEF SaysSo
  <1>6. /\ y.type = t2[c].type /\ t2[c].type # "dict" /\ (t2[c].type = "scalar" => y.value = t2[c].value)
    BY <1>4, <1>5
  <1>7. Len(s2) = 2 * q - 1 \/ (Len(s2) = 2 * q /\ s2[2 * q].in = "list" /\ c = Len(t))
    BY <1>2
  <1>8. q \in Nat /\ q # q + 1
    BY <1>3, StackFacts DEF Tree
  <1>9. Valuing(h, s, q, t, n, el, q, e, y, h2, s2, t2, c)
    BY ONLY <1>2, <1>3, <1>4, <1>5, <1>6, <1>7, <1>8, s2 \in Seq(Frames),
            \A i \in 1 .. 2 * q - 1 : s2[i] = s[i] DEF Valuing
  <1>. QED
    BY ONLY NULL \notin Keys, Tree(h, s, q, n), Outline(h, s, q, t, n, el), <1>9, OutlineValued

\* The entry of a list that is read.
LEMMA OutlineList ==
  ASSUME NULL \notin Keys,
         NEW h, NEW s, NEW q, NEW t, NEW n, NEW el, Tree(h, s, q, n), Outline(h, s, q, t, n, el),
         s # <<>>, s[Len(s)].in = "list", Listing(h, s)
  PROVE  /\ t[Len(t)].type = "list" /\ h[s[2 * q].node].type = "list"
         /\ h[s[2 * q].node].value \in Seq(Words)
  <1>1. /\ Len(t) \in 1 .. Len(t) /\ el[Len(t)] = s[2 * q].node
        /\ s[2 * q].in = "list" /\ s[2 * q].node = s[Len(s)].node
        /\ q \in 1 .. q /\ Len(s) = 2 * q /\ 2 * q <= Len(s)
    <2>1. s[Len(s)].in # "mapping"
      OBVIOUS
    <2>. QED
      BY ONLY NULL \notin Keys, Tree(h, s, q, n), Outline(h, s, q, t, n, el), s # <<>>, <2>1,
              s[Len(s)].in = "list", OutlineTop
  <1>2. h[s[2 * q].node].type = "list" /\ h[s[2 * q].node].value \in Seq(Words)
    BY <1>1 DEF Listing
  <1>3. Stacked(h, s, q) /\ Kept(h, s, q, t, el) /\ Heaped(h)
    BY ONLY Tree(h, s, q, n), Outline(h, s, q, t, n, el) DEF Tree, Outline
  <1>4. q \in Nat /\ Len(s) \in Nat /\ Len(h) \in Nat
    <2>1. q \in Nat /\ Len(s) \in Nat
      BY ONLY <1>3, StackFacts
    <2>2. Len(h) \in Nat
      BY ONLY <1>3, HeapFacts
    <2>. QED
      BY <2>1, <2>2
  <1>5. ASSUME NEW r \in 1 .. q, s[2 * r].in = "key" PROVE s[2 * r].node # s[2 * q].node
    <2>1. r # q
      BY ONLY <1>1, <1>5
    <2>2. r < q /\ 2 * r <= Len(s)
      BY ONLY <1>1, <1>4, <2>1, r \in 1 .. q
    <2>3. s[2 * r].node < s[2 * q - 1].dict
      BY ONLY <1>1, <1>3, <2>2, r \in 1 .. q DEF Stacked
    <2>4. s[2 * q - 1].dict <= s[2 * q].node /\ s[2 * q].node \in 1 .. Len(h)
      BY ONLY <1>1, <1>3, KeyFacts
    <2>5. s[2 * r].node \in 1 .. Len(h)
      BY ONLY <2>2, <1>3, r \in 1 .. q, KeyFacts
    <2>6. s[2 * q - 1].dict \in 1 .. Len(h)
      BY ONLY <1>1, <1>3, StackFacts
    <2>. QED
      BY ONLY <1>4, <2>3, <2>4, <2>5, <2>6
  <1>6. ~Opened(s, q, el[Len(t)])
    BY ONLY <1>1, <1>5 DEF Opened
  <1>7. h[el[Len(t)]].type = t[Len(t)].type
    BY ONLY <1>1, <1>3, <1>6 DEF Kept
  <1>. QED
    BY ONLY <1>1, <1>2, <1>7

\* An item of a list is no entry.
LEMMA OutlineListItem ==
  ASSUME NULL \notin Keys,
         NEW h, NEW s, NEW q, NEW t, NEW n, NEW el, Tree(h, s, q, n), Outline(h, s, q, t, n, el),
         s # <<>>, s[Len(s)].in = "list", Listing(h, s),
         NEW v \in Words, NEW h2, h2 = Itemed(h, s[Len(s)].node, v)
  PROVE  Outline(h2, s, q, t, n, el)
  <1>1. PICK c, e : c = Len(t) /\ e = s[2 * q].node
    OBVIOUS
  <1>2. /\ c \in 1 .. Len(t) /\ t \in Seq(Entries) /\ el[c] = e /\ ~Child(t, c)
        /\ s[Len(s)].node = e /\ s[2 * q].in = "list" /\ s \in Seq(Frames)
        /\ q \in 1 .. q /\ Len(s) = 2 * q /\ 2 * q <= Len(s) /\ Heaped(h) /\ e \in 1 .. Len(h)
    <2>1. s[Len(s)].in # "mapping"
      OBVIOUS
    <2>. QED
      BY ONLY NULL \notin Keys, Tree(h, s, q, n), Outline(h, s, q, t, n, el), s # <<>>, <2>1, <1>1,
              s[Len(s)].in = "list", OutlineTop
  <1>3. t[c].type = "list" /\ h[e].type = "list" /\ h[e].value \in Seq(Words)
    <2>1. /\ t[Len(t)].type = "list" /\ h[s[2 * q].node].type = "list"
          /\ h[s[2 * q].node].value \in Seq(Words)
      BY ONLY NULL \notin Keys, Tree(h, s, q, n), Outline(h, s, q, t, n, el), s # <<>>,
              s[Len(s)].in = "list", Listing(h, s), OutlineList
    <2>. QED
      BY ONLY <1>1, <2>1
  <1>4. PICK y : /\ Grown(h, e, y, h2) /\ Len(h2) = Len(h) /\ y.next = h[e].next
                 /\ y.type = "list" /\ y.key = h[e].key
    <2>1. h2 = Itemed(h, e, v)
      BY <1>2
    <2>. QED
      BY ONLY <1>2, <1>3, <2>1, v \in Words, ItemGrows
  <1>5. q \in Nat /\ q # q + 1 /\ \A i \in 1 .. 2 * q - 1 : s[i] = s[i]
    BY <1>2, StackFacts DEF Tree
  <1>6. Valuing(h, s, q, t, n, el, q, e, y, h2, s, t, c)
    <2>1. t[c].type # "dict" /\ t[c].type # "scalar" /\ y.type = t[c].type
      BY ONLY <1>3, <1>4
    <2>2. Len(s) = 2 * q /\ s[2 * q].in = "list" /\ c = Len(t)
      BY ONLY <1>1, <1>2
    <2>. QED
      BY ONLY <1>1, <1>2, <1>4, <1>5, <2>1, <2>2 DEF Valuing
  <1>. QED
    BY ONLY NULL \notin Keys, Tree(h, s, q, n), Outline(h, s, q, t, n, el), <1>6, OutlineValued

\* Nor is its end.
LEMMA OutlineListEnds ==
  ASSUME NULL \notin Keys,
         NEW h, NEW s, NEW q, NEW t, NEW n, NEW el, Tree(h, s, q, n), Outline(h, s, q, t, n, el),
         s # <<>>, s[Len(s)].in = "list", Listing(h, s), NEW s2, s2 = Front(s)
  PROVE  Outline(h, s2, q, t, n, el)
  <1>1. PICK c, e : c = Len(t) /\ e = s[2 * q].node
    OBVIOUS
  <1>2. /\ c \in 1 .. Len(t) /\ t \in Seq(Entries) /\ el[c] = e /\ ~Child(t, c)
        /\ s[Len(s)].node = e /\ s[2 * q].in = "list" /\ s \in Seq(Frames)
        /\ q \in 1 .. q /\ Len(s) = 2 * q /\ 2 * q <= Len(s) /\ Heaped(h) /\ e \in 1 .. Len(h)
    <2>1. s[Len(s)].in # "mapping"
      OBVIOUS
    <2>. QED
      BY ONLY NULL \notin Keys, Tree(h, s, q, n), Outline(h, s, q, t, n, el), s # <<>>, <2>1, <1>1,
              s[Len(s)].in = "list", OutlineTop
  <1>3. t[c].type = "list" /\ h[e].type = "list"
    <2>1. t[Len(t)].type = "list" /\ h[s[2 * q].node].type = "list"
      BY ONLY NULL \notin Keys, Tree(h, s, q, n), Outline(h, s, q, t, n, el), s # <<>>,
              s[Len(s)].in = "list", Listing(h, s), OutlineList
    <2>. QED
      BY ONLY <1>1, <2>1
  <1>4. PICK y : y = h[e]
    OBVIOUS
  <1>5. Grown(h, e, y, h)
    <2>1. h \in Seq(Elements) /\ y \in Elements /\ Len(h) \in Nat
      BY ONLY <1>2, <1>4, HeapFacts
    <2>2. Len(h) # Len(h) + 1
      BY <2>1
    <2>3. y.type # "dict" /\ y.next = h[e].next
      BY <1>3, <1>4
    <2>. QED
      BY ONLY <1>2, <1>4, <2>1, <2>2, <2>3 DEF Grown
  <1>6. q \in Nat
    BY <1>2, StackFacts DEF Tree
  <1>7. s2 \in Seq(Frames) /\ Len(s2) = 2 * q - 1 /\ \A i \in 1 .. 2 * q - 1 : s2[i] = s[i]
    <2>1. s2 \in Seq(Frames) /\ Len(s2) = Len(s) - 1 /\ \A i \in 1 .. Len(s2) : s2[i] = s[i]
      BY ONLY <1>2, s # <<>>, s2 = Front(s), FrontIs
    <2>. QED
      BY ONLY <1>2, <1>6, <2>1
  <1>8. Valuing(h, s, q, t, n, el, q, e, y, h, s2, t, c)
    <2>1. t[c].type # "dict" /\ t[c].type # "scalar" /\ y.type = t[c].type
          /\ y.next = h[e].next /\ y.key = h[e].key /\ Len(h) = Len(h)
      BY ONLY <1>3, <1>4
    <2>. QED
      BY ONLY <1>1, <1>2, <1>5, <1>7, <2>1 DEF Valuing
  <1>. QED
    BY ONLY NULL \notin Keys, Tree(h, s, q, n), Outline(h, s, q, t, n, el), <1>8, OutlineValued

\* A mapping in a mapping ends: what is below its entry is its value.
LEMMA OutlineMappingEnds ==
  ASSUME NULL \notin Keys,
         NEW h, NEW s, NEW q, NEW t, NEW n, NEW el, Tree(h, s, q, n), Outline(h, s, q, t, n, el),
         s # <<>>, s[Len(s)].in = "mapping", Len(s) # 1,
         NEW g, g = Front(s), NEW s2, s2 = Front(g),
         NEW h2, h2 = Closed(h, g[Len(g)].node, s[Len(s)].dict)
  PROVE  Outline(h2, s2, q - 1, t, n, el)
  <1>1. /\ Heaped(h) /\ Stacked(h, s, q) /\ Marked(h, t, el) /\ Placed(h, s, q, t, el)
    BY ONLY Tree(h, s, q, n), Outline(h, s, q, t, n, el) DEF Tree, Outline
  <1>2. /\ s \in Seq(Frames) /\ q \in 1 .. q /\ q \in Nat /\ q >= 1 /\ Len(s) = 2 * q - 1
        /\ Len(s) \in Nat
    BY ONLY <1>1, s # <<>>, s[Len(s)].in = "mapping", StackFacts
  <1>3. PICK p \in Nat : p = q - 1
    BY <1>2
  <1>4. p \in 1 .. q /\ q = p + 1 /\ q # p /\ 2 * p <= Len(s) /\ p < q /\ Len(s) = 2 * p + 1
        /\ 2 * p < Len(s) /\ p >= 1 /\ q \in 2 .. q
    BY <1>2, <1>3
  <1>5. g \in Seq(Frames) /\ Len(g) = 2 * p /\ \A i \in 1 .. 2 * p : g[i] = s[i]
    <2>1. g \in Seq(Frames) /\ Len(g) = Len(s) - 1 /\ \A i \in 1 .. Len(g) : g[i] = s[i]
      BY ONLY <1>2, s # <<>>, g = Front(s), FrontIs
    <2>. QED
      BY ONLY <1>3, <1>4, <2>1
  <1>6. s2 \in Seq(Frames) /\ Len(s2) = 2 * p - 1 /\ \A i \in 1 .. 2 * p - 1 : s2[i] = s[i]
    <2>1. g # <<>>
      BY ONLY <1>3, <1>4, <1>5
    <2>2. s2 \in Seq(Frames) /\ Len(s2) = Len(g) - 1 /\ \A i \in 1 .. Len(s2) : s2[i] = g[i]
      BY ONLY <1>5, <2>1, s2 = Front(g), FrontIs
    <2>. QED
      BY ONLY <1>3, <1>5, <2>2
  <1>7. PICK e, d : e = s[2 * p].node /\ d = s[2 * q - 1].dict
    OBVIOUS
  <1>8. e \in 1 .. Len(h) /\ e < d /\ d \in 1 .. Len(h) /\ \A f \in 1 .. Len(h) : ~PointsTo(h, f, d)
    <2>1. Begun(h, s, q) /\ q > 1
      BY <1>1, <1>2, <1>4 DEF Stacked
    <2>2. s[2 * p].node < s[2 * q - 1].dict
      BY <1>1, <1>2, <1>4 DEF Stacked
    <2>3. s[2 * p].node \in 1 .. Len(h)
      BY ONLY <1>1, <1>4, KeyFacts
    <2>. QED
      BY <1>7, <2>1, <2>2, <2>3 DEF Begun
  <1>9. h2 = Closed(h, e, d)
    <2>1. g[Len(g)].node = e /\ s[Len(s)].dict = d
      BY ONLY <1>2, <1>3, <1>4, <1>5, <1>7
    <2>. QED
      BY <2>1
  <1>10. PICK y : /\ Grown(h, e, y, h2) /\ Len(h2) = Len(h) /\ y.next = h[e].next
                  /\ y.type = "dict" /\ y.value = d /\ y.key = h[e].key
    BY ONLY <1>1, <1>8, <1>9, CloseGrows
  <1>11. PICK c \in 1 .. Len(t) :
           /\ Cur(s, t, el, p, c) /\ t[c].type = "dict"
           /\ s[2 * q - 1].elm = 0 => c = Len(t) /\ Vacant(h, d)
           /\ s[2 * q - 1].elm # 0 => Child(t, c) /\ d = el[c + 1]
    BY ONLY <1>1, <1>3, <1>4, <1>7 DEF Placed
  <1>12. Child(t, c) <=> s[2 * q - 1].elm # 0
    <2>1. Len(t) \in Nat
      BY ONLY <1>1 DEF Marked
    <2>2. c = Len(t) => ~Child(t, c)
      BY ONLY <2>1 DEF Child
    <2>. QED
      BY ONLY <1>11, <2>2
  <1>13. el[c] = e
    <2>1. s[2 * p].node = s[2 * p - 1].elm
      BY ONLY <1>1, <1>4, KeyFacts
    <2>. QED
      BY ONLY <1>7, <1>11, <2>1 DEF Cur
  <1>14. Valuing(h, s, q, t, n, el, p, e, y, h2, s2, t, c)
    <2>1. t \in Seq(Entries) /\ t[c].type # "scalar" /\ y.type = t[c].type
      BY ONLY <1>1, <1>10, <1>11 DEF Marked
    <2>2. Child(t, c) => t[c].type = "dict" /\ y.value = el[c + 1]
      BY ONLY <1>10, <1>11, <1>12
    <2>3. ~Child(t, c) => y.value \in 1 .. Len(h) /\ Vacant(h, y.value)
      BY ONLY <1>8, <1>10, <1>11, <1>12
    <2>4. Len(s) = 2 * q - 1 /\ q = p + 1 /\ p \in 1 .. q /\ 2 * p <= Len(s)
      BY ONLY <1>2, <1>4
    <2>. QED
      BY ONLY <1>6, <1>7, <1>10, <1>13, <2>1, <2>2, <2>3, <2>4, c \in 1 .. Len(t) DEF Valuing
  <1>15. Outline(h2, s2, p, t, n, el)
    BY ONLY NULL \notin Keys, Tree(h, s, q, n), Outline(h, s, q, t, n, el), <1>14, OutlineValued
  <1>. QED
    BY <1>3, <1>15

\* A mapping begins: its entry is the last, and nothing is below it yet.
LEMMA OutlineMappingStarts ==
  ASSUME NULL \notin Keys,
         NEW h, NEW s, NEW q, NEW t, NEW n, NEW el, Tree(h, s, q, n), Outline(h, s, q, t, n, el),
         s # <<>>, s[Len(s)].in = "key",
         NEW h2, h2 = Append(h, NewDict), NEW x, x = Mapping(Len(h) + 1),
         NEW s2, s2 = Append(s, x), NEW t2, t2 = Saying(t, "dict", NULL)
  PROVE  Outline(h2, s2, q + 1, t2, n, el)
  <1>1. /\ Heaped(h) /\ Stacked(h, s, q) /\ Marked(h, t, el) /\ Kept(h, s, q, t, el)
        /\ Placed(h, s, q, t, el) /\ (n <= 1 => Only(h, s, q, t, el)) /\ (n = 0 => t = <<>>)
    BY ONLY Tree(h, s, q, n), Outline(h, s, q, t, n, el) DEF Tree, Outline
  <1>2. PICK m \in Nat : m = Len(t)
    BY <1>1 DEF Marked
  <1>3. /\ Len(t) = m /\ t \in Seq(Entries) /\ (t = <<>> <=> m = 0)
        /\ \A i \in 1 .. m : /\ el[i] \in 1 .. Len(h) /\ h[el[i]].key # NULL
                             /\ t[i].depth \in Nat /\ t[i].depth >= 1
        /\ \A i, j \in 1 .. m : el[i] = el[j] => i = j
    BY ONLY <1>1, <1>2, NULL \notin Keys, MarkedFacts
  <1>4. /\ m \in 1 .. m /\ t # <<>> /\ el[m] = s[2 * q].node /\ ~Child(t, m)
        /\ s[2 * q].in = "key" /\ q \in 1 .. q /\ Len(s) = 2 * q /\ 2 * q <= Len(s)
        /\ s \in Seq(Frames) /\ q \in Nat /\ Len(s) \in Nat
    <2>1. s[Len(s)].in # "mapping"
      OBVIOUS
    <2>2. /\ Len(t) \in 1 .. Len(t) /\ t # <<>> /\ el[Len(t)] = s[2 * q].node /\ ~Child(t, Len(t))
          /\ s[2 * q].in = "key" /\ q \in 1 .. q /\ Len(s) = 2 * q /\ 2 * q <= Len(s)
          /\ s \in Seq(Frames)
      BY ONLY NULL \notin Keys, Tree(h, s, q, n), Outline(h, s, q, t, n, el), s # <<>>, <2>1,
              s[Len(s)].in = "key", OutlineTop
    <2>3. q \in Nat /\ Len(s) \in Nat
      BY ONLY <1>1, StackFacts
    <2>. QED
      BY ONLY <1>2, <2>2, <2>3
  <1>5. PICK E : E = Len(h) + 1
    OBVIOUS
  <1>6. /\ Len(h) \in Nat /\ E \in Nat /\ Len(h2) = E /\ h2[E] = NewDict /\ E \notin 1 .. Len(h)
        /\ \A f \in 1 .. Len(h) : h2[f] = h[f] /\ f \in 1 .. Len(h2) /\ f < E
    <2>1. Len(h) \in Nat /\ h \in Seq(Elements) /\ NewDict \in Elements
      BY ONLY <1>1, HeapFacts
    <2>2. Len(h2) = Len(h) + 1 /\ h2[Len(h) + 1] = NewDict /\ \A f \in 1 .. Len(h) : h2[f] = h[f]
      BY ONLY <2>1, h2 = Append(h, NewDict), HeapAppend
    <2>. QED
      BY ONLY <1>5, <2>1, <2>2
  <1>7. Vacant(h2, E)
    BY ONLY <1>6 DEF Vacant, NewDict
  <1>8. x \in Frames /\ x.in = "mapping" /\ x.dict = E /\ x.elm = 0
    BY <1>5, <1>6 DEF Mapping, Frames
  <1>9. /\ s2 \in Seq(Frames) /\ Len(s2) = 2 * q + 1 /\ s2[2 * q + 1] = x
        /\ \A i \in 1 .. 2 * q : s2[i] = s[i]
    <2>1. /\ s2 \in Seq(Frames) /\ Len(s2) = Len(s) + 1 /\ s2[Len(s) + 1] = x
          /\ \A i \in 1 .. Len(s) : s2[i] = s[i]
      <3>1. s \in Seq(Frames) /\ x \in Frames
        BY <1>4, <1>8
      <3>. QED
        BY ONLY <3>1, s2 = Append(s, x), AppendIs
    <2>. QED
      BY ONLY <1>4, <2>1
  <1>10. \A r \in 1 .. q : /\ s2[2 * r - 1] = s[2 * r - 1] /\ s2[2 * r] = s[2 * r]
                           /\ 2 * r <= Len(s) /\ 2 * r <= Len(s2) /\ r \in 1 .. q + 1
                           /\ s[2 * r - 1].elm # 0
    <2>1. \A r \in 1 .. q : /\ 2 * r - 1 \in 1 .. 2 * q /\ 2 * r \in 1 .. 2 * q /\ r \in 1 .. q + 1
                            /\ 2 * r <= Len(s) /\ 2 * r <= Len(s2)
      BY ONLY <1>4, <1>9
    <2>2. ASSUME NEW r \in 1 .. q PROVE s[2 * r - 1].elm # 0
      <3>1. 2 * r <= Len(s)
        BY <2>1
      <3>. QED
        BY ONLY <1>1, <3>1, r \in 1 .. q, KeyFacts
    <2>. QED
      BY ONLY <1>9, <2>1, <2>2
  <1>11. /\ t2 \in Seq(Entries) /\ Len(t2) = m /\ t2[m].type = "dict"
         /\ \A i \in 1 .. m : i # m => t2[i] = t[i]
         /\ \A i \in 1 .. m : t2[i].depth = t[i].depth /\ t2[i].key = t[i].key
    <2>1. Sayable(t, "dict", NULL)
      BY <1>3, <1>4 DEF Sayable
    <2>2. SaysSo(t, "dict", NULL, t2)
      BY <2>1, SayingIs
    <2>3. t2 \in Seq(Entries) /\ Len(t2) = m /\ t2[m].type = "dict"
      BY ONLY <1>2, <2>2 DEF SaysSo
    <2>4. \A i \in 1 .. m : i # m => t2[i] = t[i]
      BY ONLY <1>2, <2>2 DEF SaysSo
    <2>5. t2[m].depth = t[m].depth /\ t2[m].key = t[m].key
      BY ONLY <1>2, <2>2 DEF SaysSo
    <2>. QED
      BY ONLY <2>3, <2>4, <2>5
  <1>12. /\ \A i \in 1 .. m : Child(t2, i) <=> Child(t, i)
         /\ \A i, j \in 1 .. m : NextSib(t2, i, j) <=> NextSib(t, i, j)
    <2>1. \A i \in 1 .. m : i < m => i + 1 \in 1 .. m
      OBVIOUS
    <2>2. \A i \in 1 .. m : Child(t2, i) <=> Child(t, i)
      BY ONLY <1>3, <1>11, <2>1 DEF Child
    <2>3. \A i, j \in 1 .. m : \A k \in i + 1 .. j - 1 : k \in 1 .. m
      BY <1>2
    <2>4. \A i, j \in 1 .. m : NextSib(t2, i, j) <=> NextSib(t, i, j)
      BY ONLY <1>11, <2>3 DEF NextSib
    <2>. QED
      BY <2>2, <2>4
  <1>13. \A i \in 1 .. m : h2[el[i]] = h[el[i]]
    BY <1>3, <1>6
  <1>14. \A i \in 1 .. m : ~Opened(s2, q + 1, el[i]) => i # m /\ ~Opened(s, q, el[i])
    <2>1. Opened(s2, q + 1, el[m])
      <3>1. s2[2 * q].in = "key" /\ s2[2 * q].node = el[m] /\ 2 * q <= Len(s2) /\ q \in 1 .. q + 1
        BY ONLY <1>4, <1>10
      <3>. QED
        BY ONLY <3>1 DEF Opened
    <2>2. \A i \in 1 .. m : Opened(s, q, el[i]) => Opened(s2, q + 1, el[i])
      BY ONLY <1>10 DEF Opened
    <2>. QED
      BY <2>1, <2>2
  <1>15. Marked(h2, t2, el)
    <2>1. \A i \in 1 .. m : h2[el[i]].key = t2[i].key
      <3>1. \A i \in 1 .. m : h[el[i]].key = t[i].key
        BY ONLY <1>1, <1>3 DEF Marked
      <3>. QED
        BY ONLY <1>11, <1>13, <3>1
    <2>2. el \in [1 .. m -> 1 .. Len(h2)] /\ \A i, j \in 1 .. m : i < j => el[i] < el[j]
      <3>1. el \in [1 .. m -> 1 .. Len(h)] /\ \A i, j \in 1 .. m : i < j => el[i] < el[j]
        BY ONLY <1>1, <1>3 DEF Marked
      <3>. QED
        BY ONLY <1>6, <3>1
    <2>3. t2 # <<>> => el[1] = 1 /\ t2[1].depth = 1
      <3>1. el[1] = 1 /\ t[1].depth = 1
        BY ONLY <1>1, <1>4 DEF Marked
      <3>2. 1 \in 1 .. m
        BY ONLY <1>2, <1>4
      <3>. QED
        BY ONLY <1>11, <3>1, <3>2
    <2>4. \A i \in 1 .. m : i < m => t2[i + 1].depth <= t2[i].depth + 1
      <3>1. \A i \in 1 .. m : i < m => t[i + 1].depth <= t[i].depth + 1
        BY ONLY <1>1, <1>3 DEF Marked
      <3>2. \A i \in 1 .. m : i < m => i + 1 \in 1 .. m
        OBVIOUS
      <3>. QED
        BY ONLY <1>11, <3>1, <3>2
    <2>. QED
      BY ONLY <1>11, <2>1, <2>2, <2>3, <2>4 DEF Marked
  <1>16. Kept(h2, s2, q + 1, t2, el)
    <2>1. ASSUME NEW i \in 1 .. m, ~Opened(s2, q + 1, el[i])
          PROVE  /\ h2[el[i]].type = t2[i].type
                 /\ t2[i].type = "scalar" => h2[el[i]].value = t2[i].value
                 /\ Child(t2, i) => h2[el[i]].value = el[i + 1]
      <3>1. ~Opened(s, q, el[i]) /\ i # m
        BY <1>14, <2>1
      <3>2. /\ h[el[i]].type = t[i].type
            /\ t[i].type = "scalar" => h[el[i]].value = t[i].value
            /\ Child(t, i) => h[el[i]].value = el[i + 1]
        BY ONLY <1>1, <1>3, <3>1, i \in 1 .. m DEF Kept
      <3>. QED
        BY ONLY <1>11, <1>12, <1>13, <3>1, <3>2, i \in 1 .. m
    <2>2. ASSUME NEW i \in 1 .. m, Child(t2, i) PROVE t2[i].type = "dict"
      <3>1. Child(t, i)
        BY <1>12, <2>2
      <3>2. t[i].type = "dict"
        BY ONLY <1>1, <1>3, <3>1, i \in 1 .. m DEF Kept
      <3>. QED
        BY <1>11, <3>2
    <2>3. ASSUME NEW i \in 1 .. m, NEW j \in 1 .. m, NextSib(t2, i, j)
          PROVE  h2[el[i]].next = el[j]
      <3>1. NextSib(t, i, j)
        BY <1>12, <2>3
      <3>2. h[el[i]].next = el[j]
        BY ONLY <1>1, <1>3, <3>1, i \in 1 .. m, j \in 1 .. m DEF Kept
      <3>. QED
        BY <1>13, <3>2
    <2>. QED
      BY ONLY <1>11, <2>1, <2>2, <2>3 DEF Kept
  <1>17. \A r \in 1 .. q, i \in 1 .. m : Cur(s, t, el, r, i) => Cur(s2, t2, el, r, i)
    <2>1. \A i \in 1 .. m : \A j \in i + 1 .. m : j \in 1 .. m
      BY <1>2
    <2>. QED
      BY ONLY <1>3, <1>10, <1>11, <2>1 DEF Cur
  <1>18. \A r \in 1 .. q + 1 : r \in 1 .. q \/ r = q + 1
    BY <1>4
  <1>19. \A r \in 1 .. q : \E i \in 1 .. m : Cur(s, t, el, r, i)
    BY ONLY <1>1, <1>3, <1>10 DEF Placed
  <1>20. Cur(s2, t2, el, q, m)
    <2>1. PICK i \in 1 .. m : Cur(s, t, el, q, i)
      BY ONLY <1>4, <1>19
    <2>2. el[i] = s[2 * q - 1].elm
      BY ONLY <2>1 DEF Cur
    <2>3. s[2 * q].node = s[2 * q - 1].elm
      BY ONLY <1>1, <1>4, KeyFacts
    <2>4. i = m
      BY ONLY <1>3, <1>4, <2>2, <2>3, i \in 1 .. m
    <2>. QED
      BY ONLY <1>4, <1>17, <2>1, <2>4
  <1>21. s2[2 * (q + 1) - 1] = x
    <2>1. 2 * (q + 1) - 1 = 2 * q + 1
      BY <1>4
    <2>. QED
      BY <1>9, <2>1
  <1>22. Placed(h2, s2, q + 1, t2, el)
    <2>1. ASSUME NEW r \in 1 .. q + 1, s2[2 * r - 1].elm # 0
          PROVE  \E i \in 1 .. m : Cur(s2, t2, el, r, i)
      <3>1. r \in 1 .. q
        BY <1>8, <1>18, <1>21, <2>1
      <3>. QED
        BY ONLY <1>17, <1>19, <3>1
    <2>2. Len(s2) # 2 * (q + 1)
      BY <1>4, <1>9
    <2>3. ASSUME NEW r \in 2 .. q + 1
          PROVE  \E p \in 1 .. m :
                   /\ Cur(s2, t2, el, r - 1, p) /\ t2[p].type = "dict"
                   /\ s2[2 * r - 1].elm = 0 => /\ p = m /\ Vacant(h2, s2[2 * r - 1].dict)
                                               /\ \A i \in 1 .. m : el[i] < s2[2 * r - 1].dict
                   /\ s2[2 * r - 1].elm # 0 => Child(t2, p) /\ s2[2 * r - 1].dict = el[p + 1]
      <3>1. CASE r = q + 1
        <4>1. s2[2 * r - 1] = x
          BY <1>21, <3>1
        <4>2. Cur(s2, t2, el, r - 1, m)
          <5>1. r - 1 = q
            BY <1>4, <3>1
          <5>. QED
            BY <1>20, <5>1
        <4>3. m \in 1 .. m /\ t2[m].type = "dict" /\ s2[2 * r - 1].elm = 0 /\ Vacant(h2, s2[2 * r - 1].dict)
          BY <1>4, <1>7, <1>8, <1>11, <4>1
        <4>4. \A i \in 1 .. m : el[i] < s2[2 * r - 1].dict
          <5>1. s2[2 * r - 1].dict = E
            BY ONLY <1>8, <4>1
          <5>. QED
            BY ONLY <1>3, <1>6, <5>1
        <4>. QED
          BY ONLY <4>2, <4>3, <4>4
      <3>2. CASE r # q + 1
        <4>1. r \in 2 .. q /\ r \in 1 .. q /\ r - 1 \in 1 .. q
          BY ONLY <1>4, <3>2, r \in 2 .. q + 1
        <4>2. s2[2 * r - 1] = s[2 * r - 1] /\ s[2 * r - 1].elm # 0
          BY <1>10, <4>1
        <4>3. PICK p \in 1 .. m : /\ Cur(s, t, el, r - 1, p) /\ t[p].type = "dict"
                                  /\ Child(t, p) /\ s[2 * r - 1].dict = el[p + 1]
          BY ONLY <1>1, <1>3, <4>1, <4>2 DEF Placed
        <4>4. Cur(s2, t2, el, r - 1, p)
          BY ONLY <1>17, <4>1, <4>3
        <4>5. t2[p].type = "dict" /\ Child(t2, p)
          BY ONLY <1>11, <1>12, <4>3
        <4>. QED
          BY ONLY <4>2, <4>3, <4>4, <4>5
      <3>. QED
        BY <3>1, <3>2
    <2>. QED
      BY ONLY <1>11, <2>1, <2>2, <2>3 DEF Placed
  <1>23. ASSUME n <= 1 PROVE Only(h2, s2, q + 1, t2, el)
    <2>1. Only(h, s, q, t, el)
      BY <1>1, <1>23
    <2>2. ASSUME NEW i \in 1 .. m, \A j \in 1 .. m : ~NextSib(t2, i, j)
          PROVE  h2[el[i]].next = 0
      <3>1. \A j \in 1 .. m : ~NextSib(t, i, j)
        BY <1>12, <2>2
      <3>2. h[el[i]].next = 0
        BY ONLY <1>3, <2>1, <3>1, i \in 1 .. m DEF Only
      <3>. QED
        BY <1>13, <3>2
    <2>3. ASSUME NEW i \in 1 .. m, ~Opened(s2, q + 1, el[i]), t2[i].type = "dict", ~Child(t2, i)
          PROVE  h2[el[i]].value = 0 \/ Vacant(h2, h2[el[i]].value)
      <3>1. i # m /\ ~Opened(s, q, el[i])
        BY <1>14, <2>3
      <3>2. t[i].type = "dict" /\ ~Child(t, i)
        BY <1>11, <1>12, <2>3, <3>1
      <3>3. h[el[i]].value = 0 \/ Vacant(h, h[el[i]].value)
        BY ONLY <1>3, <2>1, <3>1, <3>2, i \in 1 .. m DEF Only
      <3>4. h[el[i]].type = "dict"
        BY ONLY <1>1, <1>3, <3>1, <3>2, i \in 1 .. m DEF Kept
      <3>5. h[el[i]].value = 0 \/ h[el[i]].value \in 1 .. Len(h)
        BY ONLY <1>1, <1>3, <3>4, i \in 1 .. m DEF Heaped
      <3>6. \A v \in 1 .. Len(h) : Vacant(h, v) => Vacant(h2, v)
        BY ONLY <1>6 DEF Vacant
      <3>. QED
        BY ONLY <1>13, <3>3, <3>5, <3>6, i \in 1 .. m
    <2>4. t2 # <<>> /\ s2[1].elm # 0
      <3>1. PICK r \in 1 .. q : r = 1 /\ 2 * r - 1 = 1
        BY <1>4
      <3>2. s2[2 * r - 1].elm # 0
        BY <1>10
      <3>3. t2 # <<>>
        BY ONLY <1>4, <1>11
      <3>. QED
        BY ONLY <3>1, <3>2, <3>3
    <2>. QED
      BY ONLY <1>11, <2>2, <2>3, <2>4 DEF Only
  <1>24. n # 0
    BY ONLY <1>1, <1>4
  <1>. QED
    BY ONLY <1>15, <1>16, <1>22, <1>23, <1>24 DEF Outline

\* A document begins and ends; before it a file has no entry.
LEMMA OutlineDocumentStarts ==
  ASSUME NEW h, NEW q, NEW t, NEW n, NEW el, Tree(h, <<>>, q, n), Outline(h, <<>>, q, t, n, el),
         NEW s2, s2 = <<Mapping(1)>>
  PROVE  Outline(h, s2, 1, t, n + 1, el)
  <1>1. /\ Marked(h, t, el) /\ Kept(h, <<>>, q, t, el) /\ n \in Nat
        /\ n = 0 => t = <<>> /\ h = <<NewDict>>
    BY DEF Tree, Outline
  <1>2. Len(s2) = 1 /\ s2[1].elm = 0
    BY DEF Mapping
  <1>3. \A x : ~Opened(s2, 1, x)
    BY <1>2 DEF Opened
  <1>4. \A x : ~Opened(<<>>, q, x)
    <2>1. \A r \in 1 .. q : ~(2 * r <= Len(<<>>))
      <3>1. q \in Nat
        BY DEF Tree, Stacked
      <3>. QED
        BY <3>1
    <2>. QED
      BY <2>1 DEF Opened
  <1>5. Kept(h, s2, 1, t, el)
    BY ONLY <1>1, <1>3, <1>4 DEF Kept
  <1>6. Placed(h, s2, 1, t, el)
    <2>1. \A r \in 1 .. 1 : s2[2 * r - 1].elm = 0
      BY <1>2
    <2>2. Len(s2) # 2 * 1 /\ \A r \in 2 .. 1 : FALSE
      BY <1>2
    <2>. QED
      BY ONLY <2>1, <2>2 DEF Placed
  <1>7. ASSUME n + 1 <= 1 PROVE Only(h, s2, 1, t, el)
    <2>1. t = <<>> /\ h[1] = NewDict
      BY <1>1, <1>7
    <2>2. Vacant(h, 1)
      BY <2>1 DEF Vacant, NewDict
    <2>3. Len(t) = 0 /\ \A i \in 1 .. Len(t) : FALSE
      BY <2>1
    <2>. QED
      BY ONLY <2>1, <2>2, <2>3 DEF Only
  <1>8. n + 1 # 0
    BY <1>1
  <1>. QED
    BY <1>1, <1>5, <1>6, <1>7, <1>8 DEF Outline

LEMMA OutlineDocumentEnds ==
  ASSUME NEW h, NEW s, NEW q, NEW t, NEW n, NEW el, Tree(h, s, q, n), Outline(h, s, q, t, n, el),
         Len(s) = 1
  PROVE  Outline(h, <<>>, 0, t, n, el)
  <1>1. /\ Marked(h, t, el) /\ Kept(h, s, q, t, el) /\ (n <= 1 => Only(h, s, q, t, el))
        /\ (n = 0 => t = <<>>)
    BY DEF Outline
  <1>2. \A x : ~Opened(s, q, x) /\ ~Opened(<<>>, 0, x)
    <2>1. \A r \in 1 .. q : ~(2 * r <= Len(s))
      <3>1. q \in Nat
        BY DEF Tree, Stacked
      <3>. QED
        BY <3>1
    <2>. QED
      BY <2>1 DEF Opened
  <1>3. Kept(h, <<>>, 0, t, el)
    BY ONLY <1>1, <1>2 DEF Kept
  <1>4. Placed(h, <<>>, 0, t, el)
    BY DEF Placed
  <1>5. n <= 1 => Only(h, <<>>, 0, t, el)
    BY ONLY <1>1, <1>2 DEF Only
  <1>. QED
    BY <1>1, <1>3, <1>4, <1>5 DEF Outline

LEMMA OutlineOpens ==
  ASSUME NEW h, h = <<NewDict>>
  PROVE  \E el : Outline(h, <<>>, 0, <<>>, 0, el)
  <1>1. Vacant(h, 1)
    BY DEF Vacant, NewDict
  <1>2. PICK el : el = [i \in 1 .. 0 |-> 1]
    OBVIOUS
  <1>3. Len(<<>>) = 0 /\ <<>> \in Seq(Entries) /\ (\A i \in 1 .. 0 : FALSE) /\ el \in [1 .. 0 -> 1 .. Len(h)]
    BY <1>2
  <1>4. Marked(h, <<>>, el)
    BY ONLY <1>3 DEF Marked
  <1>5. Kept(h, <<>>, 0, <<>>, el) /\ Placed(h, <<>>, 0, <<>>, el)
    BY <1>3 DEF Kept, Placed
  <1>6. Only(h, <<>>, 0, <<>>, el)
    BY ONLY <1>1, <1>3 DEF Only
  <1>. QED
    BY <1>4, <1>5, <1>6 DEF Outline

\* The first key of a document: what the document before said counts no more.
LEMMA OutlineForgets ==
  ASSUME NEW h, NEW s, NEW q, NEW t, NEW n, NEW el, Tree(h, s, q, n), Outline(h, s, q, t, n, el),
         q = 1, Len(s) = 1, s[1].elm = 0
  PROVE  \E f : Outline(h, s, q, <<>>, n, f)
  <1>1. n <= 1 => Only(h, s, q, t, el)
    BY DEF Outline
  <1>2. n <= 1 => Vacant(h, 1)
    BY ONLY <1>1, q = 1, s[1].elm = 0 DEF Only
  <1>3. PICK f : f = [i \in 1 .. 0 |-> 1]
    OBVIOUS
  <1>4. Len(<<>>) = 0 /\ <<>> \in Seq(Entries) /\ (\A i \in 1 .. 0 : FALSE) /\ f \in [1 .. 0 -> 1 .. Len(h)]
    BY <1>3
  <1>5. Marked(h, <<>>, f) /\ Kept(h, s, q, <<>>, f)
    BY ONLY <1>4 DEF Marked, Kept
  <1>6. Placed(h, s, q, <<>>, f)
    <2>1. \A r \in 1 .. 1 : s[2 * r - 1].elm = 0
      OBVIOUS
    <2>2. Len(s) # 2 * 1 /\ \A r \in 2 .. 1 : FALSE
      OBVIOUS
    <2>. QED
      BY ONLY <2>1, <2>2, q = 1 DEF Placed
  <1>7. n <= 1 => Only(h, s, q, <<>>, f)
    BY ONLY <1>2, <1>4 DEF Only
  <1>. QED
    BY <1>5, <1>6, <1>7 DEF Outline

LEMMA ReadingIs ==
  ASSUME NEW h, NEW s, NEW q, Stacked(h, s, q), s # <<>>, s[Len(s)].in = "mapping",
         NEW E \in Nat, NEW s2, s2 = Pushed(s, E)
  PROVE  Reading(s, q, s2, E)
  <1>1. /\ q >= 1 /\ Len(s) = 2 * q - 1 /\ Len(s2) = 2 * q /\ s2 \in Seq(Frames)
        /\ \A i \in 1 .. 2 * q - 2 : s2[i] = s[i]
        /\ s2[2 * q - 1] = [in |-> "mapping", dict |-> s[2 * q - 1].dict, elm |-> E]
        /\ s2[2 * q] = [in |-> "key", node |-> E]
    BY ONLY Stacked(h, s, q), s # <<>>, s[Len(s)].in = "mapping", E \in Nat, s2 = Pushed(s, E), KeyPushes
  <1>. QED
    BY ONLY <1>1 DEF Reading

LEMMA EnteringIs ==
  ASSUME NEW h, NEW t, NEW el, Marked(h, t, el), NEW h2, Len(h) \in Nat, Len(h2) \in Nat,
         Len(h) <= Len(h2), NEW m, m = Len(t), NEW q, NEW k, NEW E \in 1 .. Len(h2),
         NEW x \in Entries, x.depth = q, x.key = k, NEW t2, t2 = Append(t, x)
  PROVE  \E el2 : Entering(t, el, h2, m, q, k, E, t2, el2)
  <1>1. t \in Seq(Entries) /\ el \in [1 .. m -> 1 .. Len(h)] /\ m \in Nat
    BY DEF Marked
  <1>2. /\ t2 \in Seq(Entries) /\ Len(t2) = m + 1 /\ t2[m + 1] = x
        /\ \A i \in 1 .. m : t2[i] = t[i]
    <2>1. t \in Seq(Entries)
      BY <1>1
    <2>2. /\ Len(t) \in Nat /\ Len(t2) = Len(t) + 1 /\ t2 \in Seq(Entries) /\ t2[Len(t) + 1] = x
          /\ \A i \in 1 .. Len(t) : t2[i] = t[i]
      BY ONLY <2>1, x \in Entries, t2 = Append(t, x), AppendIs
    <2>. QED
      BY ONLY <2>2, m = Len(t)
  <1>3. PICK el2 : el2 = [i \in 1 .. m + 1 |-> IF i \in 1 .. m THEN el[i] ELSE E]
    OBVIOUS
  <1>4. el2[m + 1] = E /\ \A i \in 1 .. m : el2[i] = el[i]
    BY <1>1, <1>3
  <1>5. \A i \in 1 .. m + 1 : el2[i] \in 1 .. Len(h2)
    <2>1. Len(h) \in Nat /\ Len(h2) \in Nat /\ \A i \in 1 .. m : el[i] \in 1 .. Len(h)
      BY <1>1, HeapFacts
    <2>2. \A v \in 1 .. Len(h) : v \in 1 .. Len(h2)
      BY ONLY <2>1, Len(h) <= Len(h2)
    <2>3. \A i \in 1 .. m + 1 : i \in 1 .. m \/ i = m + 1
      BY ONLY <1>1
    <2>. QED
      BY ONLY <1>4, <2>1, <2>2, <2>3, E \in 1 .. Len(h2)
  <1>6. el2 \in [1 .. m + 1 -> 1 .. Len(h2)]
    BY <1>3, <1>5
  <1>7. Entering(t, el, h2, m, q, k, E, t2, el2)
    BY ONLY <1>2, <1>4, <1>6, x.depth = q, x.key = k DEF Entering
  <1>. QED
    BY <1>7

\* The first key of a mapping.
LEMMA OutlineKeyFirst ==
  ASSUME NULL \notin Keys, NEW k \in Keys,
         NEW h, NEW s, NEW q, NEW t, NEW n, NEW el, Tree(h, s, q, n), Outline(h, s, q, t, n, el),
         q = 1 => t = <<>>,
         s # <<>>, s[Len(s)].in = "mapping", s[Len(s)].elm = 0, NEW d, d = s[Len(s)].dict,
         NEW h2, h2 = Headed(h, d, k), NEW s2, s2 = Pushed(s, d),
         NEW x \in Entries, x.depth = q, x.key = k, NEW t2, t2 = Append(t, x)
  PROVE  \E el2 : Outline(h2, s2, q, t2, n, el2)
  <1>1. Heaped(h) /\ Stacked(h, s, q) /\ Marked(h, t, el)
    BY ONLY Tree(h, s, q, n), Outline(h, s, q, t, n, el) DEF Tree, Outline
  <1>2. /\ s \in Seq(Frames) /\ q \in 1 .. q /\ q \in Nat /\ q >= 1 /\ Len(s) = 2 * q - 1
    BY ONLY <1>1, s # <<>>, s[Len(s)].in = "mapping", StackFacts
  <1>3. d = s[2 * q - 1].dict /\ s[2 * q - 1].elm = 0
    BY <1>2
  <1>4. d \in 1 .. Len(h) /\ Len(h) \in Nat /\ d \in Nat
    <2>1. s[2 * q - 1].dict \in 1 .. Len(h)
      BY ONLY <1>1, <1>2, StackFacts
    <2>2. Len(h) \in Nat
      BY ONLY <1>1, HeapFacts
    <2>. QED
      BY <1>3, <2>1, <2>2
  <1>5. PICK y : /\ Grown(h, d, y, h2) /\ y.next = h[d].next /\ y.type = h[d].type
                 /\ y.value = h[d].value /\ y.key = k /\ Len(h2) = Len(h)
    BY ONLY <1>1, <1>4, k \in Keys, h2 = Headed(h, d, k), KeyGrows
  <1>6. h2[d] = y
    BY ONLY <1>5 DEF Grown
  <1>7. Reading(s, q, s2, d)
    BY ONLY <1>1, <1>4, s # <<>>, s[Len(s)].in = "mapping", s2 = Pushed(s, d), ReadingIs
  <1>8. PICK m : m = Len(t)
    OBVIOUS
  <1>9. PICK el2 : Entering(t, el, h2, m, q, k, d, t2, el2)
    <2>1. Len(h2) \in Nat /\ Len(h) <= Len(h2) /\ d \in 1 .. Len(h2) /\ Len(h) \in Nat
      BY ONLY <1>4, <1>5
    <2>. QED
      BY ONLY <1>1, <1>8, <2>1, x \in Entries, x.depth = q, x.key = k, t2 = Append(t, x), EnteringIs
  <1>10. Keying(h, s, q, t, n, el, d, y, h2, d, 0)
    BY ONLY <1>3, <1>4, <1>5, q = 1 => t = <<>> DEF Keying
  <1>11. h2[d].key = k
    BY <1>5, <1>6
  <1>12. Len(s) = 2 * q - 1 /\ q >= 1
    BY <1>2
  <1>13. Outline(h2, s2, q, t2, n, el2)
    BY ONLY NULL \notin Keys, k \in Keys, Tree(h, s, q, n), Outline(h, s, q, t, n, el),
            <1>7, <1>8, <1>9, <1>10, <1>11, <1>12, OutlineKeyed
  <1>. QED
    BY <1>13

\* A key beside the one before.
LEMMA OutlineKeyNext ==
  ASSUME NULL \notin Keys, NEW k \in Keys,
         NEW h, NEW s, NEW q, NEW t, NEW n, NEW el, Tree(h, s, q, n), Outline(h, s, q, t, n, el),
         s # <<>>, s[Len(s)].in = "mapping", s[Len(s)].elm # 0,
         NEW h2, h2 = Hung(h, s[Len(s)].elm, k), NEW s2, s2 = Pushed(s, Len(h) + 1),
         NEW x \in Entries, x.depth = q, x.key = k, NEW t2, t2 = Append(t, x)
  PROVE  \E el2 : Outline(h2, s2, q, t2, n, el2)
  <1>1. Heaped(h) /\ Stacked(h, s, q) /\ Marked(h, t, el) /\ Placed(h, s, q, t, el)
    BY ONLY Tree(h, s, q, n), Outline(h, s, q, t, n, el) DEF Tree, Outline
  <1>2. /\ s \in Seq(Frames) /\ q \in 1 .. q /\ q \in Nat /\ q >= 1 /\ Len(s) = 2 * q - 1
    BY ONLY <1>1, s # <<>>, s[Len(s)].in = "mapping", StackFacts
  <1>3. PICK e, E : e = s[2 * q - 1].elm /\ E = Len(h) + 1
    OBVIOUS
  <1>4. e # 0 /\ s[Len(s)].elm = e
    BY <1>2, <1>3
  <1>5. PICK c \in 1 .. Len(t) : Cur(s, t, el, q, c)
    BY ONLY <1>1, <1>2, <1>3, <1>4 DEF Placed
  <1>6. e = el[c]
    BY ONLY <1>3, <1>5 DEF Cur
  <1>7. Len(h) \in Nat /\ E \in Nat /\ e \in 1 .. Len(h)
    <2>1. Len(h) \in Nat
      BY ONLY <1>1, HeapFacts
    <2>2. el[c] \in 1 .. Len(h)
      BY ONLY <1>1, <1>5 DEF Marked
    <2>. QED
      BY <1>3, <1>6, <2>1, <2>2
  <1>8. PICK y : /\ Grown(h, e, y, h2) /\ y.next = E /\ y.type = h[e].type
                 /\ y.value = h[e].value /\ y.key = h[e].key
                 /\ Len(h2) = E /\ Blank(h2, E) /\ h2[E].key = k
    <2>1. h2 = Hung(h, e, k)
      BY <1>4
    <2>2. \E y : /\ Grown(h, e, y, h2) /\ y.next = Len(h) + 1 /\ y.type = h[e].type
                 /\ y.value = h[e].value /\ y.key = h[e].key
                 /\ Len(h2) = Len(h) + 1 /\ Blank(h2, Len(h) + 1) /\ h2[Len(h) + 1].key = k
      BY ONLY <1>1, <1>7, <2>1, k \in Keys, NextGrows
    <2>. QED
      BY ONLY <1>3, <2>2
  <1>9. Reading(s, q, s2, E)
    <2>1. s2 = Pushed(s, E)
      BY <1>3
    <2>. QED
      BY ONLY <1>1, <1>7, <2>1, s # <<>>, s[Len(s)].in = "mapping", ReadingIs
  <1>10. PICK m : m = Len(t)
    OBVIOUS
  <1>11. E \in 1 .. Len(h2) /\ Len(h2) \in Nat /\ Len(h) <= Len(h2) /\ Len(h) \in Nat
    BY ONLY <1>3, <1>7, <1>8
  <1>12. PICK el2 : Entering(t, el, h2, m, q, k, E, t2, el2)
    BY ONLY <1>1, <1>10, <1>11, x \in Entries, x.depth = q, x.key = k, t2 = Append(t, x), EnteringIs
  <1>13. Keying(h, s, q, t, n, el, e, y, h2, E, c)
    <2>1. h2[E].next = 0
      BY ONLY <1>8 DEF Blank
    <2>. QED
      BY ONLY <1>3, <1>4, <1>5, <1>6, <1>8, <1>11, <2>1 DEF Keying
  <1>14. h2[E].key = k
    BY <1>8
  <1>15. Len(s) = 2 * q - 1 /\ q >= 1
    BY <1>2
  <1>16. Outline(h2, s2, q, t2, n, el2)
    BY ONLY NULL \notin Keys, k \in Keys, Tree(h, s, q, n), Outline(h, s, q, t, n, el),
            <1>9, <1>10, <1>12, <1>13, <1>14, <1>15, OutlineKeyed
  <1>. QED
    BY <1>16

-----------------------------------------------------------------------------
(* Configuration: the depth *)

\* The depth of a key is the number of mappings on the stack.
LEMMA DepthIs ==
  ASSUME NEW h, NEW q, Stacked(h, stack, q)
  PROVE  Depth = q
  <1>1. q \in Nat /\ Len(stack) \in Nat /\ stack \in Seq(Frames)
    BY StackFacts
  <1>2. PICK D : D = {k \in DOMAIN stack : stack[k].in = "mapping"}
    OBVIOUS
  <1>3. DOMAIN stack = 1 .. Len(stack)
    BY <1>1
  <1>4. \A r \in 1 .. q : 2 * r - 1 \in D
    <2>1. ASSUME NEW r \in 1 .. q PROVE 2 * r - 1 \in 1 .. Len(stack) /\ stack[2 * r - 1].in = "mapping"
      <3>1. 2 * r - 1 \in 1 .. Len(stack)
        BY ONLY Stacked(h, stack, q), r \in 1 .. q, MappingFrame
      <3>2. Begun(h, stack, r)
        BY DEF Stacked
      <3>. QED
        BY <3>1, <3>2 DEF Begun
    <2>. QED
      BY <1>2, <1>3, <2>1
  <1>5. ASSUME NEW k \in D PROVE \E r \in 1 .. q : k = 2 * r - 1
    <2>1. k \in 1 .. Len(stack) /\ stack[k].in = "mapping"
      BY <1>2, <1>3
    <2>2. Len(stack) = 2 * q \/ Len(stack) = 2 * q - 1
      BY DEF Stacked
    <2>3. (\E r \in 1 .. q : k = 2 * r - 1) \/ (\E r \in 1 .. q : k = 2 * r)
      <3>1. PICK j \in Nat : k = 2 * j \/ k = 2 * j + 1
        <4>1. k \in Nat /\ k \div 2 \in Nat /\ (k = 2 * (k \div 2) \/ k = 2 * (k \div 2) + 1)
          BY <1>1, <2>1
        <4>. QED
          BY <4>1
      <3>2. CASE k = 2 * j
        <4>1. j \in 1 .. q
          BY <1>1, <2>1, <2>2, <3>2
        <4>. QED
          BY <3>2, <4>1
      <3>3. CASE k = 2 * j + 1
        <4>1. PICK r : r = j + 1
          OBVIOUS
        <4>2. r \in 1 .. q /\ k = 2 * r - 1
          BY <1>1, <2>1, <2>2, <3>3, <4>1
        <4>. QED
          BY <4>2
      <3>. QED
        BY <3>1, <3>2, <3>3
    <2>4. ASSUME NEW r \in 1 .. q, k = 2 * r PROVE FALSE
      <3>1. 2 * r <= Len(stack)
        BY <2>1, <2>4
      <3>2. Keyed(stack, r)
        BY <3>1 DEF Stacked
      <3>. QED
        BY <2>1, <2>4, <3>2 DEF Keyed
    <2>. QED
      BY <2>3, <2>4
  <1>6. PICK f : f = [r \in 1 .. q |-> 2 * r - 1]
    OBVIOUS
  <1>7. f \in [1 .. q -> D] /\ \A r \in 1 .. q : f[r] = 2 * r - 1
    BY <1>4, <1>6
  <1>8. f \in Bijection(1 .. q, D)
    <2>1. \A a, b \in 1 .. q : f[a] = f[b] => a = b
      BY <1>1, <1>7
    <2>2. \A k \in D : \E r \in 1 .. q : f[r] = k
      BY <1>5, <1>7
    <2>. QED
      BY <1>7, <2>1, <2>2 DEF Bijection, Injection, Surjection, IsInjective
  <1>9. Cardinality(D) = q
    <2>1. IsFiniteSet(1 .. q) /\ Cardinality(1 .. q) = q
      BY <1>1, FS_Interval
    <2>2. ExistsBijection(1 .. q, D)
      BY <1>8 DEF ExistsBijection
    <2>. QED
      BY ONLY <2>1, <2>2, FS_Bijection
  <1>. QED
    BY <1>2, <1>9 DEF Depth

-----------------------------------------------------------------------------
(* Configuration: the outline, in every state *)

Outlined(h, s, t, n) == \E q, el : Tree(h, s, q, n) /\ Outline(h, s, q, t, n, el)

OutlineInv ==
  /\ TreeInv
  /\ state \in {"parsing", "loaded"} => Outlined(heap, stack, text, docs)
  /\ state \in {"closed", "failed"} => text = <<>>

LEMMA OutlineKeyEvent ==
  ASSUME NULL \notin Keys, OutlineInv, NEW k \in Keys, KeyEvent(k)
  PROVE  Outlined(heap', stack', text', docs')
  <1>1. PICK q, el : Tree(heap, stack, q, docs) /\ Outline(heap, stack, q, text, docs, el)
    BY DEF OutlineInv, KeyEvent, Waits, Outlined
  <1>2. PICK h, s, n, t : h = heap /\ s = stack /\ n = docs /\ t = text
    OBVIOUS
  <1>3. PICK f : f = s[Len(s)]
    OBVIOUS
  <1>4. q = Depth
    BY <1>1, DepthIs DEF Tree
  <1>5. PICK x : x = [depth |-> q, key |-> k, type |-> NULL, value |-> NULL]
    OBVIOUS
  <1>6. /\ Tree(h, s, q, n) /\ Outline(h, s, q, t, n, el) /\ s # <<>> /\ s[Len(s)].in = "mapping"
        /\ heap' = Linked(h, f, k)
        /\ stack' = Append([s EXCEPT ![Len(s)].elm = IF f.elm = 0 THEN f.dict ELSE Len(h) + 1],
                           [in |-> "key", node |-> IF f.elm = 0 THEN f.dict ELSE Len(h) + 1])
        /\ docs' = n
        /\ text' = Append(IF q = 1 /\ f.elm = 0 THEN <<>> ELSE t, x)
    BY <1>1, <1>2, <1>3, <1>4, <1>5
    DEF KeyEvent, Waits, Top, Last, Element
  <1>7. x \in Entries /\ x.depth = q /\ x.key = k
    <2>1. Stacked(h, s, q)
      BY <1>6 DEF Tree
    <2>2. q \in Nat /\ q >= 1
      BY ONLY <1>6, <2>1, StackFacts
    <2>. QED
      BY <1>5, <2>2 DEF Entries
  <1>8. PICK h2, s2, t2 : h2 = heap' /\ s2 = stack' /\ t2 = text'
    OBVIOUS
  <1>9. CASE s[Len(s)].elm = 0
    <2>1. PICK d : d = s[Len(s)].dict
      OBVIOUS
    <2>2. h2 = Headed(h, d, k) /\ s2 = Pushed(s, d)
      BY <1>3, <1>6, <1>8, <1>9, <2>1 DEF Linked, Headed, Pushed
    <2>3. PICK u, g : Outline(h, s, q, u, n, g) /\ (q = 1 => u = <<>>) /\ (q # 1 => u = t)
      <3>1. CASE q = 1
        <4>1. Stacked(h, s, q)
          BY <1>6 DEF Tree
        <4>2. Len(s) = 2 * q - 1
          BY ONLY <1>6, <4>1, StackFacts
        <4>3. Len(s) = 1 /\ s[1].elm = 0
          BY <1>9, <3>1, <4>2
        <4>4. \E g : Outline(h, s, q, <<>>, n, g)
          BY ONLY <1>6, <3>1, <4>3, OutlineForgets
        <4>. QED
          BY ONLY <3>1, <4>4
      <3>2. CASE q # 1
        BY ONLY <1>6, <3>2
      <3>. QED
        BY <3>1, <3>2
    <2>4. t2 = Append(u, x)
      BY ONLY <1>3, <1>6, <1>8, <1>9, <2>3
    <2>5. Tree(h2, s2, q, n)
      BY ONLY k \in Keys, <1>6, <1>9, <2>1, <2>2, TreeKeyFirst
    <2>6. \E el2 : Outline(h2, s2, q, t2, n, el2)
      <3>1. s # <<>> /\ s[Len(s)].in = "mapping"
        BY <1>6
      <3>2. q = 1 => u = <<>>
        BY <2>3
      <3>3. Tree(h, s, q, n) /\ Outline(h, s, q, u, n, g)
        BY <1>6, <2>3
      <3>. QED
        BY ONLY NULL \notin Keys, k \in Keys, <3>1, <3>2, <3>3, <1>7, <1>9, <2>1, <2>2, <2>4,
                OutlineKeyFirst, ZenonT(60)
    <2>7. Outlined(h2, s2, t2, n)
      BY ONLY <2>5, <2>6 DEF Outlined
    <2>. QED
      BY ONLY <1>6, <1>8, <2>7
  <1>10. CASE s[Len(s)].elm # 0
    <2>1. h2 = Hung(h, s[Len(s)].elm, k) /\ s2 = Pushed(s, Len(h) + 1)
      BY <1>3, <1>6, <1>8, <1>10 DEF Linked, Hung, Pushed
    <2>2. t2 = Append(t, x)
      BY ONLY <1>3, <1>6, <1>8, <1>10
    <2>3. Tree(h2, s2, q, n)
      BY ONLY k \in Keys, <1>6, <1>10, <2>1, TreeKeyNext
    <2>4. \E el2 : Outline(h2, s2, q, t2, n, el2)
      <3>1. s # <<>> /\ s[Len(s)].in = "mapping" /\ Tree(h, s, q, n) /\ Outline(h, s, q, t, n, el)
        BY <1>6
      <3>. QED
        BY ONLY NULL \notin Keys, k \in Keys, <3>1, <1>7, <1>10, <2>1, <2>2, OutlineKeyNext
    <2>5. Outlined(h2, s2, t2, n)
      BY ONLY <2>3, <2>4 DEF Outlined
    <2>. QED
      BY ONLY <1>6, <1>8, <2>5
  <1>. QED
    BY <1>9, <1>10

LEMMA OutlineStep ==
  ASSUME NULL \notin Keys, OutlineInv, ConfigNext
  PROVE  OutlineInv'
  <1>. DEFINE Goes == Outlined(heap', stack', text', docs')
  <1>0. TreeInv'
    <2>1. TreeInv
      BY DEF OutlineInv
    <2>. QED
      BY <2>1, TreeStep
  <1>1. ASSUME Goes, state' \notin {"closed", "failed"} PROVE OutlineInv'
    BY <1>0, <1>1 DEF OutlineInv
  <1>2. PICK h, s, n, t : h = heap /\ s = stack /\ n = docs /\ t = text
    OBVIOUS
  <1>3. state = "parsing" => \E q, el : Tree(h, s, q, n) /\ Outline(h, s, q, t, n, el)
    BY <1>2 DEF OutlineInv, Outlined
  <1>4. state = "parsing" => Listing(h, s)
    BY <1>2 DEF OutlineInv, TreeInv
  <1>5. PICK h2, s2, t2 : h2 = heap' /\ s2 = stack' /\ t2 = text'
    OBVIOUS
  <1>6. ASSUME Failing PROVE OutlineInv'
    BY <1>0, <1>6 DEF Failing, OutlineInv
  <1>7. CASE Opens
    <2>1. heap' = <<NewDict>> /\ stack' = <<>> /\ docs' = 0 /\ text' = <<>> /\ state' = "parsing"
      BY <1>7 DEF Opens, OutlineInv, TreeInv
    <2>2. PICK g : g = <<NewDict>>
      OBVIOUS
    <2>3. Tree(g, <<>>, 0, 0)
      BY <2>2, TreeOpens
    <2>4. \E el : Outline(g, <<>>, 0, <<>>, 0, el)
      BY <2>2, OutlineOpens
    <2>5. Goes
      BY <2>1, <2>2, <2>3, <2>4 DEF Outlined
    <2>. QED
      BY <1>1, <2>1, <2>5
  <1>8. CASE OpenFails \/ ParserFails \/ Unexpected
    BY <1>6, <1>8 DEF OpenFails, ParserFails, Unexpected
  <1>9. CASE StreamEnds
    <2>1. heap' = h /\ stack' = s /\ docs' = n /\ text' = t /\ state' = "loaded" /\ state = "parsing"
      BY <1>2, <1>9 DEF StreamEnds, AtTop
    <2>2. Goes
      BY <1>3, <2>1 DEF Outlined
    <2>. QED
      BY <1>1, <2>1, <2>2
  <1>10. CASE DocumentStarts
    <2>1. /\ s = <<>> /\ s2 = <<Mapping(1)>> /\ heap' = h /\ docs' = n + 1
          /\ text' = t /\ state' = "parsing" /\ state = "parsing"
      BY <1>2, <1>5, <1>10 DEF DocumentStarts, AtTop
    <2>2. PICK q, el : Tree(h, <<>>, q, n) /\ Outline(h, <<>>, q, t, n, el)
      BY <1>3, <2>1
    <2>3. s2 = <<Mapping(1)>>
      BY <2>1
    <2>4. Tree(h, s2, 1, n + 1)
      BY ONLY <2>2, <2>3, TreeDocumentStarts
    <2>5. Outline(h, s2, 1, t, n + 1, el)
      BY ONLY <2>2, <2>3, OutlineDocumentStarts
    <2>6. Goes
      BY <1>5, <2>1, <2>4, <2>5 DEF Outlined
    <2>. QED
      BY <1>1, <2>1, <2>6
  <1>11. ASSUME NEW k \in Keys, KeyEvent(k) PROVE OutlineInv'
    <2>1. Goes
      BY <1>11, OutlineKeyEvent
    <2>2. state' = "parsing"
      BY <1>11 DEF KeyEvent, Waits
    <2>. QED
      BY <1>1, <2>1, <2>2
  <1>12. ASSUME NEW v \in Scalars, ScalarEvent(v) PROVE OutlineInv'
    <2>1. /\ s # <<>> /\ s[Len(s)].in = "key" /\ s2 = Front(s)
          /\ h2 = Valued(h, s[Len(s)].node, "scalar", v)
          /\ t2 = Saying(t, "scalar", v)
          /\ docs' = n /\ state = "parsing" /\ state' = "parsing"
      BY <1>2, <1>5, <1>12
      DEF ScalarEvent, Waits, Top, Last, Says, Valued, Saying
    <2>2. PICK q, el : Tree(h, s, q, n) /\ Outline(h, s, q, t, n, el)
      BY <1>3, <2>1
    <2>3. Tree(h2, s2, q, n)
      BY ONLY v \in Scalars, <2>1, <2>2, TreeScalar
    <2>4. s2 \in Seq(Frames) /\ Len(s2) = 2 * q - 1 /\ \A i \in 1 .. 2 * q - 1 : s2[i] = s[i]
      <3>1. s \in Seq(Frames) /\ Len(s) = 2 * q /\ q \in Nat /\ s # <<>>
        <4>1. s # <<>> /\ s[Len(s)].in # "mapping"
          BY <2>1
        <4>. QED
          BY ONLY <2>2, <4>1, KeyTop
      <3>2. s2 \in Seq(Frames) /\ Len(s2) = Len(s) - 1 /\ \A i \in 1 .. Len(s2) : s2[i] = s[i]
        BY ONLY <2>1, <3>1, FrontIs
      <3>. QED
        BY ONLY <3>1, <3>2
    <2>5. Outline(h2, s2, q, t2, n, el)
      <3>1. PICK type \in {"scalar", "list"}, w \in Scalars \union {NULL},
                 x \in Scalars \union Seq(Words) : type = "scalar" /\ w = v /\ x = v
        OBVIOUS
      <3>2. h2 = Valued(h, s[Len(s)].node, type, x) /\ t2 = Saying(t, type, w)
        BY <2>1, <3>1
      <3>3. s # <<>> /\ s[Len(s)].in = "key" /\ (type = "scalar" => x = w)
        BY <2>1, <3>1
      <3>. QED
        BY ONLY NULL \notin Keys, type \in {"scalar", "list"}, w \in Scalars \union {NULL},
                x \in Scalars \union Seq(Words), <2>2, <2>4, <3>2, <3>3, OutlineValue
    <2>6. Goes
      BY <1>5, <2>1, <2>3, <2>5 DEF Outlined
    <2>. QED
      BY <1>1, <2>1, <2>6
  <1>13. ASSUME NEW v \in Words, ListItem(v) PROVE OutlineInv'
    <2>1. /\ s # <<>> /\ s[Len(s)].in = "list" /\ s2 = s
          /\ h2 = Itemed(h, s[Len(s)].node, v) /\ t2 = t
          /\ docs' = n /\ state = "parsing" /\ state' = "parsing"
      BY <1>2, <1>5, <1>13 DEF ListItem, Waits, Top, Last, Itemed
    <2>2. PICK q, el : Tree(h, s, q, n) /\ Outline(h, s, q, t, n, el)
      BY <1>3, <2>1
    <2>3. Listing(h, s)
      BY <1>4, <2>1
    <2>4. Tree(h2, s, q, n)
      BY ONLY v \in Words, <2>1, <2>2, <2>3, TreeListItem
    <2>5. Outline(h2, s, q, t, n, el)
      BY ONLY NULL \notin Keys, v \in Words, <2>1, <2>2, <2>3, OutlineListItem
    <2>6. Goes
      BY <1>5, <2>1, <2>4, <2>5 DEF Outlined
    <2>. QED
      BY <1>1, <2>1, <2>6
  <1>14. CASE ListStarts
    <2>1. PICK z : z = [in |-> "list", node |-> s[Len(s)].node]
      OBVIOUS
    <2>2. /\ s # <<>> /\ s[Len(s)].in = "key" /\ s2 = Append(Front(s), z)
          /\ h2 = Valued(h, s[Len(s)].node, "list", <<>>)
          /\ t2 = Saying(t, "list", NULL)
          /\ docs' = n /\ state = "parsing" /\ state' = "parsing"
      BY <1>2, <1>5, <1>14, <2>1
      DEF ListStarts, Waits, Top, Last, Says, Valued, Saying
    <2>3. PICK q, el : Tree(h, s, q, n) /\ Outline(h, s, q, t, n, el)
      BY <1>3, <2>2
    <2>4. s \in Seq(Frames) /\ Len(s) = 2 * q /\ q \in Nat /\ s # <<>> /\ z \in Frames
          /\ z.in = "list" /\ z.node = s[Len(s)].node
      <3>1. Heaped(h)
        BY <2>3 DEF Tree
      <3>2. Len(h) \in Nat
        BY ONLY <3>1, HeapFacts
      <3>3. s # <<>> /\ s[Len(s)].in # "mapping"
        BY <2>2
      <3>4. s \in Seq(Frames) /\ Len(s) = 2 * q /\ q \in Nat
            /\ s[2 * q].node \in 1 .. Len(h) /\ s[2 * q].node = s[Len(s)].node
        BY ONLY <2>3, <3>3, KeyTop
      <3>. QED
        BY <2>1, <2>2, <3>2, <3>4 DEF Frames
    <2>5. /\ s2 \in Seq(Frames) /\ Len(s2) = 2 * q /\ \A i \in 1 .. 2 * q - 1 : s2[i] = s[i]
          /\ s2[2 * q].in = "list"
      <3>1. PICK g : g = Front(s)
        OBVIOUS
      <3>2. g \in Seq(Frames) /\ Len(g) = Len(s) - 1 /\ \A i \in 1 .. Len(g) : g[i] = s[i]
        BY ONLY <2>4, <3>1, FrontIs
      <3>3. s2 = Append(g, z)
        BY ONLY <2>2, <3>1
      <3>4. z \in Frames
        BY <2>4
      <3>5. /\ s2 \in Seq(Frames) /\ Len(s2) = Len(g) + 1 /\ s2[Len(g) + 1] = z
            /\ \A i \in 1 .. Len(g) : s2[i] = g[i]
        BY ONLY <3>2, <3>3, <3>4, AppendIs
      <3>. QED
        BY ONLY <2>4, <3>2, <3>5
    <2>6. Tree(h2, s2, q, n)
      BY ONLY <2>2, <2>3, <2>4, TreeListStarts
    <2>7. Outline(h2, s2, q, t2, n, el)
      <3>1. PICK type \in {"scalar", "list"}, w \in Scalars \union {NULL},
                 x \in Scalars \union Seq(Words) : type = "list" /\ w = NULL /\ x = <<>>
        <4>1. <<>> \in Scalars \union Seq(Words) /\ NULL \in Scalars \union {NULL}
              /\ "list" \in {"scalar", "list"}
          OBVIOUS
        <4>. QED
          BY ONLY <4>1
      <3>2. h2 = Valued(h, s[Len(s)].node, type, x) /\ t2 = Saying(t, type, w)
        BY <2>2, <3>1
      <3>3. s # <<>> /\ s[Len(s)].in = "key" /\ (type = "scalar" => x = w)
        BY <2>2, <3>1
      <3>. QED
        BY ONLY NULL \notin Keys, type \in {"scalar", "list"}, w \in Scalars \union {NULL},
                x \in Scalars \union Seq(Words), <2>3, <2>5, <3>2, <3>3, OutlineValue
    <2>8. Goes
      BY <1>5, <2>2, <2>6, <2>7 DEF Outlined
    <2>. QED
      BY <1>1, <2>2, <2>8
  <1>15. CASE ListEnds
    <2>1. /\ s # <<>> /\ s[Len(s)].in = "list" /\ s2 = Front(s) /\ h2 = h /\ t2 = t
          /\ docs' = n /\ state = "parsing" /\ state' = "parsing"
      BY <1>2, <1>5, <1>15 DEF ListEnds, Waits, Top, Last
    <2>2. PICK q, el : Tree(h, s, q, n) /\ Outline(h, s, q, t, n, el)
      BY <1>3, <2>1
    <2>3. Listing(h, s)
      BY <1>4, <2>1
    <2>4. Tree(h, s2, q, n)
      BY ONLY <2>1, <2>2, <2>3, TreeListEnds
    <2>5. Outline(h, s2, q, t, n, el)
      BY ONLY NULL \notin Keys, <2>1, <2>2, <2>3, OutlineListEnds
    <2>6. Goes
      BY <1>5, <2>1, <2>4, <2>5 DEF Outlined
    <2>. QED
      BY <1>1, <2>1, <2>6
  <1>16. CASE MappingStarts
    <2>1. PICK x : x = Mapping(Len(h) + 1)
      OBVIOUS
    <2>2. /\ s # <<>> /\ s[Len(s)].in = "key" /\ s2 = Append(s, x)
          /\ h2 = Append(h, NewDict) /\ t2 = Saying(t, "dict", NULL)
          /\ docs' = n /\ state = "parsing" /\ state' = "parsing"
      BY <1>2, <1>5, <1>16, <2>1
      DEF MappingStarts, Waits, Top, Last, Says, Saying
    <2>3. PICK q, el : Tree(h, s, q, n) /\ Outline(h, s, q, t, n, el)
      BY <1>3, <2>2
    <2>4. Tree(h2, s2, q + 1, n)
      BY ONLY <2>1, <2>2, <2>3, TreeMappingStarts
    <2>5. Outline(h2, s2, q + 1, t2, n, el)
      BY ONLY NULL \notin Keys, <2>1, <2>2, <2>3, OutlineMappingStarts
    <2>6. Goes
      BY <1>5, <2>2, <2>4, <2>5 DEF Outlined
    <2>. QED
      BY <1>1, <2>2, <2>6
  <1>17. CASE MappingEnds
    <2>1. PICK g : g = Front(s)
      OBVIOUS
    <2>2. /\ s # <<>> /\ s[Len(s)].in = "mapping"
          /\ docs' = n /\ state = "parsing" /\ state' = "parsing" /\ t2 = t
          /\ Len(s) = 1 => s2 = <<>> /\ h2 = h
          /\ Len(s) # 1 => /\ s2 = Front(g)
                           /\ h2 = Closed(h, g[Len(g)].node, s[Len(s)].dict)
      BY <1>2, <1>5, <1>17, <2>1 DEF MappingEnds, Waits, Top, Last
    <2>3. PICK q, el : Tree(h, s, q, n) /\ Outline(h, s, q, t, n, el)
      BY <1>3, <2>2
    <2>4. CASE Len(s) = 1
      <3>1. Tree(h, <<>>, 0, n)
        BY ONLY <2>2, <2>3, <2>4, TreeDocumentEnds
      <3>2. Outline(h, <<>>, 0, t, n, el)
        BY ONLY <2>3, <2>4, OutlineDocumentEnds
      <3>3. Goes
        BY <1>5, <2>2, <2>4, <3>1, <3>2 DEF Outlined
      <3>. QED
        BY <1>1, <2>2, <3>3
    <2>5. CASE Len(s) # 1
      <3>1. Tree(h2, s2, q - 1, n)
        BY ONLY <2>1, <2>2, <2>3, <2>5, TreeMappingEnds
      <3>2. Outline(h2, s2, q - 1, t, n, el)
        BY ONLY NULL \notin Keys, <2>1, <2>2, <2>3, <2>5, OutlineMappingEnds
      <3>3. Goes
        BY <1>5, <2>2, <3>1, <3>2 DEF Outlined
      <3>. QED
        BY <1>1, <2>2, <3>3
    <2>. QED
      BY <2>4, <2>5
  <1>18. CASE ConfigFree
    BY <1>0, <1>18 DEF ConfigFree, OutlineInv
  <1>19. CASE Failed
    BY <1>0, <1>19 DEF Failed, configVars, OutlineInv
  <1>. QED
    BY <1>7, <1>8, <1>9, <1>10, <1>11, <1>12, <1>13, <1>14, <1>15, <1>16, <1>17, <1>18, <1>19
    DEF ConfigNext

-----------------------------------------------------------------------------
(* Configuration: what a lookup finds *)

\* F answers the elements from m on, and 0.
Finds(F, h, k, m) ==
  /\ DOMAIN F = {0} \union (m .. Len(h)) /\ F[0] = 0 /\ F = [e \in DOMAIN F |-> F[e]]
  /\ \A e \in m .. Len(h) : F[e] = IF h[e].key = k THEN e ELSE F[h[e].next]

LEMMA FindsExist ==
  ASSUME NEW h, Heaped(h), NEW k
  PROVE  \E F : Finds(F, h, k, 1)
  <1>1. PICK N \in Nat : N = Len(h)
    BY HeapFacts
  <1>2. \A e \in 1 .. N : h[e].next = 0 \/ (h[e].next \in 1 .. N /\ e < h[e].next)
    BY <1>1 DEF Heaped
  <1>3. PICK C : C = {m \in 1 .. N + 1 : \E F : Finds(F, h, k, m)}
    OBVIOUS
  <1>4. N + 1 \in C
    <2>1. PICK F : F = [e \in {0} |-> 0]
      OBVIOUS
    <2>2. N + 1 .. N = {} /\ N + 1 \in 1 .. N + 1
      OBVIOUS
    <2>3. Finds(F, h, k, N + 1)
      BY ONLY <1>1, <2>1, <2>2 DEF Finds
    <2>. QED
      BY <1>3, <2>2, <2>3
  <1>5. ASSUME NEW m \in 2 .. N + 1, m \in C PROVE m - 1 \in C
    <2>1. PICK F : Finds(F, h, k, m)
      BY <1>3, <1>5
    <2>2. PICK b : b = m - 1
      OBVIOUS
    <2>3. PICK y : y = IF h[b].key = k THEN b ELSE F[h[b].next]
      OBVIOUS
    <2>4. PICK G : G = [e \in {0} \union (b .. N) |-> IF e = b THEN y ELSE F[e]]
      OBVIOUS
    <2>5. b \in 1 .. N /\ b # 0 /\ b \in 1 .. N + 1
      BY ONLY <2>2, N \in Nat, m \in 2 .. N + 1
    <2>6. \A e \in b .. N : e = b \/ (e \in m .. N /\ e # b)
      BY ONLY <2>2, <2>5, N \in Nat, m \in 2 .. N + 1
    <2>7. \A e \in b .. N : e \in 1 .. N /\ (h[e].next = 0 \/ (h[e].next \in b .. N /\ h[e].next # b))
      BY ONLY <1>2, <2>5, N \in Nat
    <2>8. DOMAIN G = {0} \union (b .. N) /\ G[0] = 0 /\ G = [e \in DOMAIN G |-> G[e]]
      BY ONLY <2>1, <2>4, <2>5 DEF Finds
    <2>9. \A e \in b .. N : e # b => G[e] = F[e]
      BY ONLY <2>4
    <2>10. \A e \in b .. N : G[h[e].next] = F[h[e].next]
      BY ONLY <2>1, <2>4, <2>7, <2>5, <2>8, <2>9 DEF Finds
    <2>11. ASSUME NEW e \in b .. N PROVE G[e] = IF h[e].key = k THEN e ELSE G[h[e].next]
      <3>1. CASE e = b
        <4>1. G[e] = y
          BY ONLY <2>4, <3>1, e \in b .. N
        <4>. QED
          BY ONLY <2>3, <2>10, <3>1, <4>1, e \in b .. N
      <3>2. CASE e # b
        <4>1. F[e] = IF h[e].key = k THEN e ELSE F[h[e].next]
          BY ONLY <1>1, <2>1, <2>6, <3>2, e \in b .. N DEF Finds
        <4>. QED
          BY ONLY <2>9, <2>10, <3>2, <4>1, e \in b .. N
      <3>. QED
        BY <3>1, <3>2
    <2>12. Finds(G, h, k, b)
      BY ONLY <1>1, <2>8, <2>11 DEF Finds
    <2>. QED
      BY <1>3, <2>2, <2>5, <2>12
  <1>6. C \subseteq Nat /\ C # {}
    BY <1>3, <1>4
  <1>7. PICK m \in C : \A x \in C : m <= x
    BY ONLY <1>6, LeastOf
  <1>8. m \in 1 .. N + 1
    BY <1>3
  <1>9. m = 1
    <2>1. m # 1 => m \in 2 .. N + 1 /\ ~(m <= m - 1)
      BY <1>8
    <2>. QED
      BY <1>5, <1>7, <2>1
  <1>. QED
    BY <1>3, <1>9

LEMMA FindIs ==
  ASSUME Heaped(heap), NEW k
  PROVE  /\ FindKey(0, k) = 0
         /\ \A e \in 1 .. Len(heap) :
              FindKey(e, k) = IF heap[e].key = k THEN e ELSE FindKey(heap[e].next, k)
  <1>. DEFINE Rec(f) == f = [e \in 0 .. Len(heap) |->
                               IF e = 0 THEN 0 ELSE IF heap[e].key = k THEN e ELSE f[heap[e].next]]
  <1>1. PICK f : f = CHOOSE g : Rec(g)
    OBVIOUS
  <1>2. \A e : FindKey(e, k) = f[e]
    BY <1>1 DEF FindKey
  <1>3. PICK N \in Nat : N = Len(heap)
    BY HeapFacts
  <1>4. PICK F : Finds(F, heap, k, 1)
    BY FindsExist
  <1>5. Rec(F)
    <2>1. DOMAIN F = 0 .. N
      <3>1. {0} \union (1 .. N) = 0 .. N
        OBVIOUS
      <3>. QED
        BY <1>3, <1>4, <3>1 DEF Finds
    <2>2. ASSUME NEW e \in 0 .. N
          PROVE  F[e] = IF e = 0 THEN 0 ELSE IF heap[e].key = k THEN e ELSE F[heap[e].next]
      <3>1. CASE e = 0
        BY <1>4, <3>1 DEF Finds
      <3>2. CASE e # 0
        <4>1. e \in 1 .. N
          BY <3>2
        <4>. QED
          BY <1>3, <1>4, <3>2, <4>1 DEF Finds
      <3>. QED
        BY <3>1, <3>2
    <2>3. F = [e \in 0 .. N |-> F[e]]
      BY <1>4, <2>1 DEF Finds
    <2>. QED
      BY <1>3, <2>2, <2>3
  <1>6. Rec(f)
    <2>. HIDE DEF Rec
    <2>. QED
      BY <1>1, <1>5
  <1>7. \A e \in 0 .. N : f[e] = IF e = 0 THEN 0 ELSE IF heap[e].key = k THEN e ELSE f[heap[e].next]
    BY <1>3, <1>6
  <1>8. f[0] = 0
    BY <1>7
  <1>9. \A e \in 1 .. N : f[e] = IF heap[e].key = k THEN e ELSE f[heap[e].next]
    BY <1>7
  <1>. QED
    BY <1>2, <1>3, <1>8, <1>9

\* A path of one key, and of two.
LEMMA SubdictOne ==
  ASSUME NEW k
  PROVE  GetSubdict(<<k>>) = FindKey(1, k)
  <1>. DEFINE Rec(f) == f = [d \in 1 .. Len(<<k>>) |->
                FindKey(IF d = 1 THEN 1 ELSE Below(f[d - 1]), <<k>>[d])]
  <1>1. PICK f : f = CHOOSE g : Rec(g)
    OBVIOUS
  <1>2. GetSubdict(<<k>>) = f[1]
    BY <1>1 DEF GetSubdict
  <1>3. PICK g : g = [d \in 1 .. 1 |-> FindKey(1, k)]
    OBVIOUS
  <1>4. Rec(g)
    <2>1. \A d \in 1 .. 1 : d = 1
      OBVIOUS
    <2>. QED
      BY <1>3, <2>1
  <1>5. Rec(f)
    <2>. HIDE DEF Rec
    <2>. QED
      BY <1>1, <1>4
  <1>6. f[1] = FindKey(1, k)
    BY <1>5
  <1>. QED
    BY <1>2, <1>6

LEMMA SubdictTwo ==
  ASSUME NEW k, NEW l
  PROVE  GetSubdict(<<k, l>>) = FindKey(Below(FindKey(1, k)), l)
  <1>. DEFINE Rec(f) == f = [d \in 1 .. Len(<<k, l>>) |->
                FindKey(IF d = 1 THEN 1 ELSE Below(f[d - 1]), <<k, l>>[d])]
  <1>1. PICK f : f = CHOOSE g : Rec(g)
    OBVIOUS
  <1>2. GetSubdict(<<k, l>>) = f[2]
    BY <1>1 DEF GetSubdict
  <1>3. PICK a, b : a = FindKey(1, k) /\ b = FindKey(Below(a), l)
    OBVIOUS
  <1>4. PICK g : g = [d \in 1 .. 2 |-> IF d = 1 THEN a ELSE b]
    OBVIOUS
  <1>5. Rec(g)
    <2>1. \A d \in 1 .. 2 : d = 1 \/ (d = 2 /\ d # 1 /\ d - 1 = 1)
      OBVIOUS
    <2>2. g[1] = a /\ g[2] = b
      BY <1>4
    <2>3. ASSUME NEW d \in 1 .. 2
          PROVE  g[d] = FindKey(IF d = 1 THEN 1 ELSE Below(g[d - 1]), <<k, l>>[d])
      BY <1>3, <2>1, <2>2
    <2>4. g = [d \in 1 .. 2 |-> g[d]]
      BY <1>4
    <2>. QED
      BY <2>3, <2>4
  <1>6. Rec(f)
    <2>. HIDE DEF Rec
    <2>. QED
      BY <1>1, <1>5
  <1>7. f[1] = a
    BY <1>3, <1>6
  <1>8. f[2] = b
    BY <1>3, <1>6, <1>7
  <1>. QED
    BY <1>2, <1>3, <1>8

-----------------------------------------------------------------------------
(* Configuration: a lookup goes from sibling to sibling *)

\* A set of numbers up to m that is not empty has a greatest element.
LEMMA GreatestOf ==
  ASSUME NEW m \in Nat, NEW F, F \subseteq 1 .. m, F # {}
  PROVE  \E x \in F : \A y \in F : y <= x
  <1>1. PICK G : G = {m - x : x \in F}
    OBVIOUS
  <1>2. G \subseteq Nat /\ G # {}
    <2>1. \A x \in 1 .. m : m - x \in Nat
      OBVIOUS
    <2>2. G \subseteq Nat
      BY <1>1, <2>1
    <2>3. PICK x \in F : TRUE
      OBVIOUS
    <2>4. m - x \in G
      BY <1>1
    <2>. QED
      BY <2>2, <2>4
  <1>3. PICK z \in G : \A y \in G : z <= y
    BY ONLY <1>2, LeastOf
  <1>4. PICK x \in F : z = m - x
    BY <1>1
  <1>5. ASSUME NEW y \in F PROVE y <= x
    <2>1. m - y \in G
      BY <1>1
    <2>2. m - x <= m - y
      BY <1>3, <1>4, <2>1
    <2>3. x \in 1 .. m /\ y \in 1 .. m
      OBVIOUS
    <2>. QED
      BY ONLY <2>2, <2>3, m \in Nat
  <1>. QED
    BY <1>5

\* What the elements of a configuration say when nothing is read any more.
Told(el) ==
  /\ Heaped(heap) /\ Marked(heap, text, el)
  /\ \A i \in 1 .. Len(text) :
       /\ heap[el[i]].type = text[i].type
       /\ text[i].type = "scalar" => heap[el[i]].value = text[i].value
       /\ Child(text, i) => text[i].type = "dict" /\ heap[el[i]].value = el[i + 1]
  /\ \A i, j \in 1 .. Len(text) : NextSib(text, i, j) => heap[el[i]].next = el[j]
  /\ docs <= 1 =>
       /\ \A i \in 1 .. Len(text) : (\A j \in 1 .. Len(text) : ~NextSib(text, i, j)) => heap[el[i]].next = 0
       /\ \A i \in 1 .. Len(text) : text[i].type = "dict" /\ ~Child(text, i) =>
            heap[el[i]].value = 0 \/ Vacant(heap, heap[el[i]].value)
       /\ text = <<>> => Vacant(heap, 1)

LEMMA LoadedTold ==
  ASSUME OutlineInv, state \in {"parsing", "loaded"}, stack = <<>>
  PROVE  \E el : Told(el)
  <1>1. PICK q, el : Tree(heap, stack, q, docs) /\ Outline(heap, stack, q, text, docs, el)
    BY DEF OutlineInv, Outlined
  <1>3. q = 0
    BY <1>1, StackFacts DEF Tree
  <1>4. \A x : ~Opened(stack, q, x)
    BY <1>3 DEF Opened
  <1>5. /\ Heaped(heap) /\ Marked(heap, text, el) /\ Kept(heap, stack, q, text, el)
        /\ (docs <= 1 => Only(heap, stack, q, text, el))
    BY <1>1 DEF Tree, Outline
  <1>6. /\ \A i \in 1 .. Len(text) :
             /\ heap[el[i]].type = text[i].type
             /\ text[i].type = "scalar" => heap[el[i]].value = text[i].value
             /\ Child(text, i) => text[i].type = "dict" /\ heap[el[i]].value = el[i + 1]
        /\ \A i, j \in 1 .. Len(text) : NextSib(text, i, j) => heap[el[i]].next = el[j]
    BY ONLY <1>4, <1>5 DEF Kept
  <1>7. docs <= 1 =>
          /\ \A i \in 1 .. Len(text) : (\A j \in 1 .. Len(text) : ~NextSib(text, i, j)) => heap[el[i]].next = 0
          /\ \A i \in 1 .. Len(text) : text[i].type = "dict" /\ ~Child(text, i) =>
               heap[el[i]].value = 0 \/ Vacant(heap, heap[el[i]].value)
          /\ text = <<>> => Vacant(heap, 1)
    BY ONLY <1>4, <1>5 DEF Only
  <1>8. Told(el)
    BY ONLY <1>5, <1>6, <1>7 DEF Told
  <1>. QED
    BY <1>8

\* Entry i is b or a later one beside it.
Beside(t, b, i) ==
  b <= i /\ t[i].depth = t[b].depth /\ \A x \in b .. i : t[x].depth >= t[b].depth

LEMMA ToldFacts ==
  ASSUME NULL \notin Keys, NEW el, Told(el)
  PROVE  /\ Heaped(heap) /\ Len(heap) \in Nat /\ Len(text) \in Nat
         /\ (text = <<>> <=> Len(text) = 0) /\ text \in Seq(Entries) /\ DOMAIN text = 1 .. Len(text)
         /\ \A i \in 1 .. Len(text) : /\ el[i] \in 1 .. Len(heap) /\ el[i] # 0
                                      /\ heap[el[i]].key = text[i].key
                                      /\ text[i].depth \in Nat /\ text[i].depth >= 1
                                      /\ text[i].key \in Keys
         /\ text # <<>> => 1 \in 1 .. Len(text) /\ el[1] = 1 /\ text[1].depth = 1
         /\ \A i \in 1 .. Len(text) : i < Len(text) => text[i + 1].depth <= text[i].depth + 1
  <1>1. Heaped(heap) /\ Marked(heap, text, el)
    BY DEF Told
  <1>2. /\ Len(text) \in Nat /\ text \in Seq(Entries) /\ (text = <<>> <=> Len(text) = 0)
        /\ \A i \in 1 .. Len(text) : /\ el[i] \in 1 .. Len(heap)
                                     /\ text[i].depth \in Nat /\ text[i].depth >= 1
                                     /\ text[i].key \in Keys
    BY ONLY <1>1, NULL \notin Keys, MarkedFacts
  <1>3. Len(heap) \in Nat
    BY <1>1, HeapFacts
  <1>4. /\ \A i \in 1 .. Len(text) : heap[el[i]].key = text[i].key
        /\ text # <<>> => el[1] = 1 /\ text[1].depth = 1
        /\ \A i \in 1 .. Len(text) : i < Len(text) => text[i + 1].depth <= text[i].depth + 1
    BY ONLY <1>1 DEF Marked
  <1>5. text # <<>> => 1 \in 1 .. Len(text)
    BY <1>2
  <1>6. DOMAIN text = 1 .. Len(text)
    BY <1>2
  <1>7. \A i \in 1 .. Len(text) : el[i] # 0
    BY <1>2, <1>3
  <1>. QED
    BY <1>1, <1>2, <1>3, <1>4, <1>5, <1>6, <1>7

\* A lookup goes on from entry j to the one beside it.
LEMMA GoesOn ==
  ASSUME NULL \notin Keys, NEW el, Told(el), NEW k, NEW j \in 1 .. Len(text), text[j].key # k
  PROVE  /\ \A x \in 1 .. Len(text) : NextSib(text, j, x) =>
              FindKey(el[j], k) = FindKey(el[x], k)
         /\ docs <= 1 /\ (\A x \in 1 .. Len(text) : ~NextSib(text, j, x)) =>
              FindKey(el[j], k) = 0
  <1>1. Heaped(heap) /\ el[j] \in 1 .. Len(heap) /\ heap[el[j]].key = text[j].key
    BY ToldFacts
  <1>2. FindKey(el[j], k) = FindKey(heap[el[j]].next, k) /\ FindKey(0, k) = 0
    BY <1>1, FindIs
  <1>. QED
    BY <1>2 DEF Told

\* Of two entries beside b, the earlier one has a next.
LEMMA NextBeside ==
  ASSUME NEW el, NULL \notin Keys, Told(el), NEW b \in 1 .. Len(text), NEW i \in 1 .. Len(text),
         NEW j \in 1 .. Len(text), Beside(text, b, i), Beside(text, b, j), j < i
  PROVE  \E x \in 1 .. Len(text) : x <= i /\ NextSib(text, j, x)
  <1>1. PICK m \in Nat : m = Len(text)
    BY ToldFacts
  <1>2. \A x \in 1 .. m : text[x].depth \in Nat
    BY <1>1, ToldFacts
  <1>3. i \in 1 .. m /\ b \in 1 .. m /\ j \in 1 .. m
    BY <1>1
  <1>4. /\ b <= i /\ text[i].depth = text[b].depth /\ \A y \in b .. i : text[y].depth >= text[b].depth
        /\ b <= j /\ text[j].depth = text[b].depth /\ \A y \in b .. j : text[y].depth >= text[b].depth
    BY DEF Beside
  <1>5. PICK F : F = {y \in j + 1 .. i : text[y].depth = text[b].depth}
    OBVIOUS
  <1>6. F \subseteq Nat
    BY <1>3, <1>5
  <1>7. i \in F
    <2>1. i \in j + 1 .. i
      BY ONLY <1>3, j < i, m \in Nat
    <2>. QED
      BY <1>4, <1>5, <2>1
  <1>8. PICK x \in F : \A y \in F : x <= y
    <2>1. F # {}
      BY <1>7
    <2>. QED
      BY ONLY <1>6, <2>1, LeastOf
  <1>9. x \in j + 1 .. i /\ text[x].depth = text[b].depth /\ x \in 1 .. m
    <2>1. x \in j + 1 .. i /\ text[x].depth = text[b].depth
      BY <1>5
    <2>. QED
      BY ONLY <1>3, <2>1, m \in Nat
  <1>10. \A y \in j + 1 .. x - 1 : y \in b .. i /\ y \in j + 1 .. i /\ y \in 1 .. m /\ ~(x <= y)
    BY ONLY <1>3, <1>4, <1>9, m \in Nat
  <1>11. ASSUME NEW y \in j + 1 .. x - 1 PROVE text[y].depth > text[b].depth
    <2>1. text[y].depth # text[b].depth
      BY <1>5, <1>8, <1>10
    <2>2. text[y].depth >= text[b].depth
      BY <1>4, <1>10
    <2>. QED
      BY <1>2, <1>3, <1>10, <2>1, <2>2
  <1>12. j < x /\ x <= i /\ text[x].depth = text[j].depth
    BY ONLY <1>3, <1>4, <1>9
  <1>13. NextSib(text, j, x)
    BY <1>4, <1>11, <1>12 DEF NextSib
  <1>. QED
    BY <1>1, <1>9, <1>12, <1>13

\* What is next to an entry beside b is beside b.
LEMMA SiblingBeside ==
  ASSUME NEW el, NULL \notin Keys, Told(el), NEW b \in 1 .. Len(text), NEW x \in 1 .. Len(text),
         NEW j \in 1 .. Len(text), Beside(text, b, j), NextSib(text, j, x)
  PROVE  Beside(text, b, x)
  <1>1. PICK m \in Nat : m = Len(text)
    BY ToldFacts
  <1>2. \A y \in 1 .. m : text[y].depth \in Nat
    BY <1>1, ToldFacts
  <1>3. x \in 1 .. m /\ b \in 1 .. m /\ j \in 1 .. m
    BY <1>1
  <1>4. j < x /\ text[x].depth = text[j].depth /\ \A y \in j + 1 .. x - 1 : text[y].depth > text[j].depth
    BY DEF NextSib
  <1>5. b <= j /\ text[j].depth = text[b].depth /\ \A y \in b .. j : text[y].depth >= text[b].depth
    BY DEF Beside
  <1>6. \A y \in b .. x : (y \in b .. j \/ y \in j + 1 .. x - 1 \/ y = x) /\ y \in 1 .. m
    BY ONLY <1>3, <1>4, <1>5, m \in Nat
  <1>7. \A y \in b .. x : text[y].depth >= text[b].depth
    BY ONLY <1>2, <1>3, <1>4, <1>5, <1>6
  <1>8. b <= x
    BY ONLY <1>3, <1>4, <1>5, m \in Nat
  <1>. QED
    BY ONLY <1>4, <1>5, <1>7, <1>8 DEF Beside

LEMMA BesideSelf ==
  ASSUME NEW el, NULL \notin Keys, Told(el), NEW b \in 1 .. Len(text)
  PROVE  Beside(text, b, b)
  <1>1. text[b].depth \in Nat /\ Len(text) \in Nat
    BY ToldFacts
  <1>2. b <= b /\ text[b].depth >= text[b].depth
    BY <1>1
  <1>3. \A x \in b .. b : x = b
    BY <1>1
  <1>. QED
    BY <1>2, <1>3 DEF Beside

\* From b on, a lookup finds the first entry beside it with the key.
FirstBeside(t, b, i, k) ==
  /\ Beside(t, b, i) /\ t[i].key = k
  /\ \A j \in 1 .. Len(t) : Beside(t, b, j) /\ j < i => t[j].key # k

LEMMA FindsFirst ==
  ASSUME NEW el, NULL \notin Keys, Told(el), NEW k, NEW b \in 1 .. Len(text),
         NEW i \in 1 .. Len(text), FirstBeside(text, b, i, k)
  PROVE  FindKey(el[b], k) = el[i]
  <1>0. /\ Beside(text, b, i) /\ text[i].key = k
        /\ \A j \in 1 .. Len(text) : Beside(text, b, j) /\ j < i => text[j].key # k
    BY DEF FirstBeside
  <1>. USE <1>0
  <1>1. PICK m \in Nat : m = Len(text)
    BY ToldFacts
  <1>2. PICK C : C = {j \in 1 .. m : /\ j <= i /\ Beside(text, b, j)
                                       /\ FindKey(el[b], k) = FindKey(el[j], k)}
    OBVIOUS
  <1>3. b <= i
    BY DEF Beside
  <1>4. b \in C /\ C \subseteq 1 .. m
    BY <1>1, <1>2, <1>3, BesideSelf
  <1>5. PICK j \in C : \A y \in C : y <= j
    <2>1. C # {}
      BY <1>4
    <2>. QED
      BY ONLY <1>4, <2>1, m \in Nat, GreatestOf
  <1>6. j \in 1 .. m /\ j <= i /\ Beside(text, b, j) /\ FindKey(el[b], k) = FindKey(el[j], k)
    BY <1>2
  <1>7. j \in 1 .. Len(text)
    BY <1>1, <1>6
  <1>8. ASSUME j < i PROVE FALSE
    <2>1. PICK x \in 1 .. Len(text) : x <= i /\ NextSib(text, j, x)
      BY <1>6, <1>7, <1>8, NextBeside
    <2>2. Beside(text, b, x)
      BY <1>6, <1>7, <2>1, SiblingBeside
    <2>3. text[j].key # k
      BY <1>6, <1>7, <1>8
    <2>4. FindKey(el[j], k) = FindKey(el[x], k)
      BY <1>7, <2>1, <2>3, GoesOn
    <2>5. x \in C
      BY <1>1, <1>2, <1>6, <2>1, <2>2, <2>4
    <2>6. j < x
      BY <2>1 DEF NextSib
    <2>. QED
      BY <1>1, <1>5, <1>6, <2>5, <2>6
  <1>9. j = i
    BY <1>1, <1>6, <1>8
  <1>10. Heaped(heap) /\ el[i] \in 1 .. Len(heap) /\ heap[el[i]].key = k
    BY ToldFacts
  <1>11. FindKey(el[i], k) = el[i]
    BY <1>10, FindIs
  <1>. QED
    BY <1>6, <1>9, <1>11

\* It finds nothing when there is none.
LEMMA FindsNothing ==
  ASSUME NEW el, NULL \notin Keys, Told(el), docs <= 1, NEW k, NEW b \in 1 .. Len(text),
         \A j \in 1 .. Len(text) : Beside(text, b, j) => text[j].key # k
  PROVE  FindKey(el[b], k) = 0
  <1>1. PICK m \in Nat : m = Len(text)
    BY ToldFacts
  <1>2. PICK C : C = {j \in 1 .. m : Beside(text, b, j)
                                       /\ FindKey(el[b], k) = FindKey(el[j], k)}
    OBVIOUS
  <1>3. b \in C /\ C \subseteq 1 .. m
    BY <1>1, <1>2, BesideSelf
  <1>4. PICK j \in C : \A y \in C : y <= j
    <2>1. C # {}
      BY <1>3
    <2>. QED
      BY ONLY <1>3, <2>1, m \in Nat, GreatestOf
  <1>5. j \in 1 .. m /\ Beside(text, b, j) /\ FindKey(el[b], k) = FindKey(el[j], k)
    BY <1>2
  <1>6. j \in 1 .. Len(text)
    BY <1>1, <1>5
  <1>7. text[j].key # k
    BY <1>5, <1>6
  <1>8. ASSUME NEW x \in 1 .. Len(text), NextSib(text, j, x) PROVE FALSE
    <2>1. Beside(text, b, x)
      BY <1>5, <1>6, <1>8, SiblingBeside
    <2>2. FindKey(el[j], k) = FindKey(el[x], k)
      BY <1>6, <1>7, <1>8, GoesOn
    <2>3. x \in C
      BY <1>1, <1>2, <1>5, <2>1, <2>2
    <2>4. j < x
      BY <1>8 DEF NextSib
    <2>. QED
      BY <1>1, <1>4, <1>5, <2>3, <2>4
  <1>9. FindKey(el[j], k) = 0
    BY <1>6, <1>7, <1>8, GoesOn
  <1>. QED
    BY <1>5, <1>9

-----------------------------------------------------------------------------
(* Configuration: where an entry of the outline is *)

LEMMA MaxIs ==
  ASSUME NEW m \in Nat, NEW F, F \subseteq 1 .. m, NEW x \in F, \A y \in F : y <= x
  PROVE  Max(F) = x
  <1>1. PICK z : z = CHOOSE u \in F : \A y \in F : u >= y
    OBVIOUS
  <1>2. x \in F /\ \A y \in F : x >= y
    OBVIOUS
  <1>3. z \in F /\ \A y \in F : z >= y
    BY ONLY <1>1, <1>2
  <1>4. z >= x /\ z <= x /\ x \in Nat /\ z \in Nat
    BY <1>3
  <1>. QED
    BY <1>1, <1>4 DEF Max

LEMMA OneIs ==
  ASSUME NEW S, NEW t \in Seq(S), Len(t) = 1
  PROVE  t = <<t[1]>>
  <1>1. t = [i \in 1 .. 1 |-> t[i]]
    OBVIOUS
  <1>2. \A i \in 1 .. 1 : i = 1
    OBVIOUS
  <1>3. [i \in 1 .. 1 |-> t[i]] = [i \in 1 .. 1 |-> t[1]]
    BY <1>2
  <1>4. PICK a : a = t[1]
    OBVIOUS
  <1>5. [i \in 1 .. 1 |-> a] = <<a>>
    BY ONLY <1>2
  <1>. QED
    BY <1>1, <1>3, <1>4, <1>5

LEMMA TwoIs ==
  ASSUME NEW S, NEW t \in Seq(S), Len(t) = 2
  PROVE  t = <<t[1], t[2]>>
  <1>1. t = [i \in 1 .. 2 |-> t[i]]
    OBVIOUS
  <1>2. \A i \in 1 .. 2 : i = 1 \/ (i = 2 /\ i # 1)
    OBVIOUS
  <1>3. [i \in 1 .. 2 |-> t[i]] = [i \in 1 .. 2 |-> IF i = 1 THEN t[1] ELSE t[2]]
    BY <1>2
  <1>4. PICK a, b : a = t[1] /\ b = t[2]
    OBVIOUS
  <1>5. [i \in 1 .. 2 |-> IF i = 1 THEN a ELSE b] = <<a, b>>
    OBVIOUS
  <1>. QED
    BY <1>1, <1>3, <1>4, <1>5

\* Short sequences and their beginnings.
LEMMA Shorts ==
  ASSUME NEW a, NEW b
  PROVE  /\ SubSeq(<<a>>, 1, 0) = <<>> /\ SubSeq(<<a>>, 1, 1) = <<a>>
         /\ SubSeq(<<a, b>>, 1, 0) = <<>> /\ SubSeq(<<a, b>>, 1, 1) = <<a>>
         /\ SubSeq(<<a, b>>, 1, 2) = <<a, b>>
         /\ Front(<<a>>) = <<>> /\ Front(<<a, b>>) = <<a>>
  <1>1. SubSeq(<<a>>, 1, 0) = <<>> /\ SubSeq(<<a, b>>, 1, 0) = <<>>
    OBVIOUS
  <1>2. SubSeq(<<a>>, 1, 1) = <<a>>
    <2>1. PICK t : t = SubSeq(<<a>>, 1, 1)
      OBVIOUS
    <2>2. <<a>> \in Seq({a}) /\ <<a>>[1] = a
      OBVIOUS
    <2>3. t \in Seq({a}) /\ Len(t) = 1 /\ t[1] = a
      BY ONLY <2>1, <2>2, SubSeqProperties
    <2>. QED
      BY <2>1, <2>3, OneIs
  <1>3. SubSeq(<<a, b>>, 1, 1) = <<a>>
    <2>1. PICK t : t = SubSeq(<<a, b>>, 1, 1)
      OBVIOUS
    <2>2. <<a, b>> \in Seq({a, b}) /\ <<a, b>>[1] = a
      OBVIOUS
    <2>3. t \in Seq({a, b}) /\ Len(t) = 1 /\ t[1] = a
      BY ONLY <2>1, <2>2, SubSeqProperties
    <2>. QED
      BY <2>1, <2>3, OneIs
  <1>4. SubSeq(<<a, b>>, 1, 2) = <<a, b>>
    <2>1. PICK t : t = SubSeq(<<a, b>>, 1, 2)
      OBVIOUS
    <2>2. <<a, b>> \in Seq({a, b}) /\ <<a, b>>[1] = a /\ <<a, b>>[2] = b /\ 1 \in 1 .. 2 /\ 2 \in 1 .. 2
      OBVIOUS
    <2>3. t \in Seq({a, b}) /\ Len(t) = 2 /\ t[1] = a /\ t[2] = b
      BY ONLY <2>1, <2>2, SubSeqProperties
    <2>. QED
      BY <2>1, <2>3, TwoIs
  <1>5. Len(<<a>>) - 1 = 0 /\ Len(<<a, b>>) - 1 = 1
    OBVIOUS
  <1>6. Front(<<a>>) = <<>> /\ Front(<<a, b>>) = <<a>>
    BY <1>1, <1>3, <1>5 DEF Front
  <1>. QED
    BY <1>1, <1>2, <1>3, <1>4, <1>6

\* Entry i is an entry of the mapping of entry p, which is at the top.
Under(t, p, i) ==
  /\ p < i /\ t[p].depth = 1 /\ t[i].depth = 2
  /\ \A x \in p + 1 .. i : t[x].depth >= 2

LEMMA TopIs ==
  ASSUME NULL \notin Keys, NEW el, Told(el), NEW i \in 1 .. Len(text), text[i].depth = 1
  PROVE  Above(i) = <<i>> /\ Path(i) = <<text[i].key>>
  <1>1. Len(text) \in Nat
    BY ToldFacts
  <1>2. PICK F : F = {j \in 1 .. i : text[j].depth = 1}
    OBVIOUS
  <1>3. i \in F /\ F \subseteq 1 .. Len(text) /\ \A y \in F : y <= i
    BY <1>1, <1>2
  <1>4. Max(F) = i
    BY ONLY <1>1, <1>3, MaxIs
  <1>5. Above(i) = <<i>>
    <2>1. \A d \in 1 .. 1 : d = 1
      OBVIOUS
    <2>. QED
      BY <1>2, <1>4, <2>1 DEF Above
  <1>6. Path(i) = <<text[i].key>>
    <2>1. \A d \in 1 .. 1 : d = 1
      OBVIOUS
    <2>. QED
      BY <1>5, <2>1 DEF Path
  <1>. QED
    BY <1>5, <1>6

LEMMA UnderIs ==
  ASSUME NULL \notin Keys, NEW el, Told(el), NEW i \in 1 .. Len(text), NEW p \in 1 .. Len(text),
         Under(text, p, i)
  PROVE  /\ Above(i) = <<p, i>> /\ Path(i) = <<text[p].key, text[i].key>>
         /\ Child(text, p) /\ p + 1 \in 1 .. Len(text) /\ Beside(text, p + 1, i)
  <1>1. PICK m \in Nat : m = Len(text)
    BY ToldFacts
  <1>2. p < i /\ text[p].depth = 1 /\ text[i].depth = 2 /\ (\A x \in p + 1 .. i : text[x].depth >= 2)
    BY DEF Under
  <1>3. i \in 1 .. m /\ p \in 1 .. m /\ \A x \in 1 .. m : text[x].depth \in Nat
    BY <1>1, ToldFacts
  <1>4. PICK F : F = {j \in 1 .. i : text[j].depth = 1}
    OBVIOUS
  <1>5. p \in F /\ F \subseteq 1 .. m
    BY <1>2, <1>3, <1>4
  <1>6. ASSUME NEW y \in F PROVE y <= p
    <2>1. y \in 1 .. i /\ text[y].depth = 1
      BY <1>4
    <2>2. ~(y \in p + 1 .. i)
      BY <1>2, <2>1
    <2>. QED
      BY ONLY <1>3, <2>1, <2>2, m \in Nat
  <1>7. Max(F) = p
    BY ONLY <1>5, <1>6, m \in Nat, MaxIs
  <1>8. PICK G : G = {j \in 1 .. i : text[j].depth = 2}
    OBVIOUS
  <1>9. i \in G /\ G \subseteq 1 .. m /\ \A y \in G : y <= i
    BY <1>2, <1>3, <1>8
  <1>10. Max(G) = i
    BY ONLY <1>9, m \in Nat, MaxIs
  <1>11. \A d \in 1 .. 2 : d = 1 \/ (d = 2 /\ d # 1)
    OBVIOUS
  <1>12. Above(i) = <<p, i>>
    <2>1. \A d \in 1 .. 2 : Max({j \in 1 .. i : text[j].depth = d}) = IF d = 1 THEN p ELSE i
      BY <1>4, <1>7, <1>8, <1>10, <1>11
    <2>2. Above(i) = [d \in 1 .. 2 |-> IF d = 1 THEN p ELSE i]
      BY <1>2, <2>1 DEF Above
    <2>3. [d \in 1 .. 2 |-> IF d = 1 THEN p ELSE i] = <<p, i>>
      OBVIOUS
    <2>. QED
      BY <2>2, <2>3
  <1>13. Path(i) = <<text[p].key, text[i].key>>
    <2>1. Path(i) = [d \in 1 .. 2 |-> text[<<p, i>>[d]].key]
      BY <1>2, <1>12 DEF Path
    <2>2. \A d \in 1 .. 2 : text[<<p, i>>[d]].key = <<text[p].key, text[i].key>>[d]
      BY <1>11
    <2>. QED
      BY <2>1, <2>2
  <1>14. p + 1 \in 1 .. m /\ p < m /\ p + 1 \in p + 1 .. i
    BY ONLY <1>2, <1>3, m \in Nat
  <1>15. text[p + 1].depth = 2
    <2>1. text[p + 1].depth <= text[p].depth + 1
      BY <1>1, <1>14, ToldFacts
    <2>2. text[p + 1].depth >= 2 /\ text[p + 1].depth \in Nat
      BY <1>2, <1>3, <1>14
    <2>. QED
      BY <1>2, <2>1, <2>2
  <1>16. Child(text, p)
    BY <1>1, <1>2, <1>14, <1>15 DEF Child
  <1>17. p + 1 <= i
    BY ONLY <1>2, <1>3, m \in Nat
  <1>18. Beside(text, p + 1, i)
    BY ONLY <1>2, <1>15, <1>17 DEF Beside
  <1>. QED
    BY <1>1, <1>12, <1>13, <1>14, <1>16, <1>18

LEMMA BesideUnder ==
  ASSUME NULL \notin Keys, NEW el, Told(el), NEW i \in 1 .. Len(text), NEW p \in 1 .. Len(text),
         text[p].depth = 1, Child(text, p), Beside(text, p + 1, i)
  PROVE  Under(text, p, i)
  <1>1. Len(text) \in Nat
    BY ToldFacts
  <1>2. text[p + 1].depth = 2
    BY DEF Child
  <1>3. p + 1 <= i /\ text[i].depth = 2 /\ \A x \in p + 1 .. i : text[x].depth >= 2
    BY <1>2 DEF Beside
  <1>4. p < i
    BY ONLY <1>1, <1>3, i \in 1 .. Len(text), p \in 1 .. Len(text)
  <1>. QED
    BY <1>3, <1>4 DEF Under

LEMMA UnderExists ==
  ASSUME NULL \notin Keys, NEW el, Told(el), NEW i \in 1 .. Len(text), text[i].depth = 2
  PROVE  \E p \in 1 .. Len(text) : Under(text, p, i)
  <1>1. PICK m \in Nat : m = Len(text)
    BY ToldFacts
  <1>2. \A x \in 1 .. m : text[x].depth \in Nat /\ text[x].depth >= 1
    BY <1>1, ToldFacts
  <1>3. i \in 1 .. m /\ 1 \in 1 .. i /\ text[1].depth = 1
    BY <1>1, ToldFacts
  <1>4. PICK F : F = {j \in 1 .. i : text[j].depth = 1}
    OBVIOUS
  <1>5. 1 \in F /\ F \subseteq 1 .. m
    BY <1>3, <1>4
  <1>6. PICK p \in F : \A y \in F : y <= p
    <2>1. F # {}
      BY <1>5
    <2>. QED
      BY ONLY <1>5, <2>1, m \in Nat, GreatestOf
  <1>7. p \in 1 .. i /\ text[p].depth = 1 /\ p # i
    BY <1>4
  <1>8. ASSUME NEW x \in p + 1 .. i PROVE text[x].depth >= 2
    <2>1. x \in 1 .. i /\ ~(x <= p) /\ x \in 1 .. m
      BY <1>3, <1>7
    <2>2. text[x].depth # 1
      BY <1>4, <1>6, <2>1
    <2>. QED
      BY <1>2, <2>1, <2>2
  <1>9. p < i /\ p \in 1 .. m
    BY <1>3, <1>7
  <1>. QED
    BY <1>1, <1>7, <1>8, <1>9 DEF Under

\* A path of one key is that of an entry at the top, one of two that of an entry under one.
LEMMA PathOne ==
  ASSUME NULL \notin Keys, NEW el, Told(el), NEW i \in 1 .. Len(text), NEW k
  PROVE  Path(i) = <<k>> <=> text[i].depth = 1 /\ text[i].key = k
  <1>1. PICK d \in Nat : d = text[i].depth
    BY ToldFacts
  <1>2. ASSUME Path(i) = <<k>> PROVE text[i].depth = 1 /\ text[i].key = k
    <2>1. DOMAIN Path(i) = 1 .. d
      BY <1>1 DEF Path
    <2>2. DOMAIN <<k>> = 1 .. 1
      OBVIOUS
    <2>3. 1 .. d = 1 .. 1
      BY <1>2, <2>1, <2>2
    <2>4. d = 1
      <3>1. 1 \in 1 .. d /\ 2 \notin 1 .. d
        BY <2>3
      <3>. QED
        BY <3>1
    <2>5. <<text[i].key>> = <<k>>
      BY <1>1, <1>2, <2>4, TopIs
    <2>. QED
      BY <1>1, <2>4, <2>5
  <1>3. ASSUME text[i].depth = 1, text[i].key = k PROVE Path(i) = <<k>>
    BY <1>3, TopIs
  <1>. QED
    BY <1>2, <1>3

LEMMA PathTwo ==
  ASSUME NULL \notin Keys, NEW el, Told(el), NEW i \in 1 .. Len(text), NEW k, NEW l
  PROVE  /\ Path(i) = <<k, l>> =>
              \E p \in 1 .. Len(text) : Under(text, p, i) /\ text[p].key = k /\ text[i].key = l
         /\ \A p \in 1 .. Len(text) :
              Under(text, p, i) /\ text[p].key = k /\ text[i].key = l => Path(i) = <<k, l>>
  <1>1. PICK d \in Nat : d = text[i].depth
    BY ToldFacts
  <1>2. ASSUME Path(i) = <<k, l>>
        PROVE  \E p \in 1 .. Len(text) : Under(text, p, i) /\ text[p].key = k /\ text[i].key = l
    <2>1. DOMAIN Path(i) = 1 .. d
      BY <1>1 DEF Path
    <2>2. DOMAIN <<k, l>> = 1 .. 2
      OBVIOUS
    <2>3. 1 .. d = 1 .. 2
      BY <1>2, <2>1, <2>2
    <2>4. d = 2
      <3>1. 2 \in 1 .. d /\ 3 \notin 1 .. d
        BY <2>3
      <3>. QED
        BY <3>1
    <2>5. PICK p \in 1 .. Len(text) : Under(text, p, i)
      BY <1>1, <2>4, UnderExists
    <2>6. <<text[p].key, text[i].key>> = <<k, l>>
      BY <1>2, <2>5, UnderIs
    <2>. QED
      BY <2>5, <2>6
  <1>3. ASSUME NEW p \in 1 .. Len(text), Under(text, p, i), text[p].key = k, text[i].key = l
        PROVE  Path(i) = <<k, l>>
    BY <1>3, UnderIs
  <1>. QED
    BY <1>2, <1>3

-----------------------------------------------------------------------------
(* Configuration: which entries a lookup may answer *)

LEMMA HidesTop ==
  ASSUME NULL \notin Keys, NEW el, Told(el), NEW i \in 1 .. Len(text), NEW j \in 1 .. Len(text),
         text[i].depth = 1
  PROVE  Hides(j, i) <=> text[j].depth = 1 /\ j < i /\ text[j].key = text[i].key
  <1>1. text[j].depth \in Nat /\ text[j].depth >= 1
    BY ToldFacts
  <1>2. Above(i) = <<i>> /\ Path(i) = <<text[i].key>>
    BY TopIs
  <1>3. CASE text[j].depth # 1
    <2>1. ~(text[j].depth <= text[i].depth)
      BY <1>1, <1>3
    <2>. QED
      BY <1>3, <2>1 DEF Hides
  <1>4. CASE text[j].depth = 1
    <2>1. Above(j) = <<j>> /\ Path(j) = <<text[j].key>>
      BY <1>4, TopIs
    <2>2. /\ <<i>>[1] = i /\ SubSeq(<<text[i].key>>, 1, 1) = <<text[i].key>>
          /\ Front(<<j>>) = <<>> /\ SubSeq(<<i>>, 1, 0) = <<>> /\ 1 - 1 = 0
      <3>1. <<i>>[1] = i /\ 1 - 1 = 0
        OBVIOUS
      <3>2. SubSeq(<<text[i].key>>, 1, 1) = <<text[i].key>>
        BY ONLY Shorts
      <3>3. Front(<<j>>) = <<>> /\ SubSeq(<<i>>, 1, 0) = <<>>
        BY ONLY Shorts
      <3>. QED
        BY <3>1, <3>2, <3>3
    <2>3. (<<text[j].key>> = <<text[i].key>>) <=> text[j].key = text[i].key
      OBVIOUS
    <2>4. Hides(j, i) <=> /\ 1 <= 1 /\ j < <<i>>[1]
                          /\ <<text[j].key>> = SubSeq(<<text[i].key>>, 1, 1)
                          /\ Front(<<j>>) = SubSeq(<<i>>, 1, 1 - 1)
      BY <1>2, <1>4, <2>1 DEF Hides
    <2>. QED
      BY <1>4, <2>2, <2>3, <2>4
  <1>. QED
    BY <1>3, <1>4

LEMMA HidesUnder ==
  ASSUME NULL \notin Keys, NEW el, Told(el), NEW i \in 1 .. Len(text), NEW j \in 1 .. Len(text),
         NEW p \in 1 .. Len(text), Under(text, p, i)
  PROVE  Hides(j, i) <=>
           \/ text[j].depth = 1 /\ j < p /\ text[j].key = text[p].key
           \/ Under(text, p, j) /\ j < i /\ text[j].key = text[i].key
  <1>1. text[j].depth \in Nat /\ text[j].depth >= 1
    BY ToldFacts
  <1>2. Above(i) = <<p, i>> /\ Path(i) = <<text[p].key, text[i].key>>
    BY UnderIs
  <1>3. text[i].depth = 2 /\ <<p, i>>[1] = p /\ <<p, i>>[2] = i
    BY DEF Under
  <1>4. CASE text[j].depth = 1
    <2>1. Above(j) = <<j>> /\ Path(j) = <<text[j].key>>
      BY <1>4, TopIs
    <2>2. /\ SubSeq(<<text[p].key, text[i].key>>, 1, 1) = <<text[p].key>>
          /\ Front(<<j>>) = <<>> /\ SubSeq(<<p, i>>, 1, 0) = <<>> /\ 1 - 1 = 0
      <3>1. SubSeq(<<text[p].key, text[i].key>>, 1, 1) = <<text[p].key>>
        BY ONLY Shorts
      <3>2. Front(<<j>>) = <<>> /\ SubSeq(<<p, i>>, 1, 0) = <<>>
        BY ONLY Shorts
      <3>. QED
        BY <3>1, <3>2
    <2>3. (<<text[j].key>> = <<text[p].key>>) <=> text[j].key = text[p].key
      OBVIOUS
    <2>4. Hides(j, i) <=> /\ 1 <= 2 /\ j < <<p, i>>[1]
                          /\ <<text[j].key>> = SubSeq(<<text[p].key, text[i].key>>, 1, 1)
                          /\ Front(<<j>>) = SubSeq(<<p, i>>, 1, 1 - 1)
      BY <1>2, <1>3, <1>4, <2>1 DEF Hides
    <2>5. ~Under(text, p, j)
      BY <1>4 DEF Under
    <2>. QED
      BY <1>3, <1>4, <2>2, <2>3, <2>4, <2>5
  <1>5. CASE text[j].depth = 2
    <2>1. PICK r \in 1 .. Len(text) : Under(text, r, j)
      BY <1>5, UnderExists
    <2>2. Above(j) = <<r, j>> /\ Path(j) = <<text[r].key, text[j].key>>
      BY <2>1, UnderIs
    <2>3. /\ SubSeq(<<text[p].key, text[i].key>>, 1, 2) = <<text[p].key, text[i].key>>
          /\ Front(<<r, j>>) = <<r>> /\ SubSeq(<<p, i>>, 1, 1) = <<p>> /\ 2 - 1 = 1
      <3>1. SubSeq(<<text[p].key, text[i].key>>, 1, 2) = <<text[p].key, text[i].key>>
        BY ONLY Shorts
      <3>2. Front(<<r, j>>) = <<r>> /\ SubSeq(<<p, i>>, 1, 1) = <<p>>
        BY ONLY Shorts
      <3>. QED
        BY <3>1, <3>2
    <2>4. /\ (<<text[r].key, text[j].key>> = <<text[p].key, text[i].key>>)
                <=> text[r].key = text[p].key /\ text[j].key = text[i].key
          /\ (<<r>> = <<p>>) <=> r = p
      OBVIOUS
    <2>5. Hides(j, i) <=>
            /\ 2 <= 2 /\ j < <<p, i>>[2]
            /\ <<text[r].key, text[j].key>> = SubSeq(<<text[p].key, text[i].key>>, 1, 2)
            /\ Front(<<r, j>>) = SubSeq(<<p, i>>, 1, 2 - 1)
      BY <1>2, <1>3, <1>5, <2>2 DEF Hides
    <2>6. Hides(j, i) <=> r = p /\ j < i /\ text[j].key = text[i].key
      BY <1>3, <2>3, <2>4, <2>5
    <2>7. Under(text, p, j) <=> r = p
      <3>1. ASSUME Under(text, p, j) PROVE r = p
        <4>1. Above(j) = <<p, j>>
          BY <3>1, UnderIs
        <4>2. <<r, j>>[1] = <<p, j>>[1]
          BY <2>2, <4>1
        <4>. QED
          BY <4>2
      <3>. QED
        BY <2>1, <3>1
    <2>. QED
      BY <1>5, <2>6, <2>7
  <1>6. CASE text[j].depth # 1 /\ text[j].depth # 2
    <2>1. ~(text[j].depth <= text[i].depth)
      BY <1>1, <1>3, <1>6
    <2>2. ~Under(text, p, j)
      BY <1>6 DEF Under
    <2>. QED
      BY <1>6, <2>1, <2>2 DEF Hides
  <1>. QED
    BY <1>4, <1>5, <1>6

\* Entry i is the first with key k at the top, or the first with key l under p.
FirstTop(t, i, k) ==
  /\ t[i].depth = 1 /\ t[i].key = k
  /\ \A j \in 1 .. Len(t) : t[j].depth = 1 /\ j < i => t[j].key # k
FirstUnder(t, p, i, l) ==
  /\ Under(t, p, i) /\ t[i].key = l
  /\ \A j \in 1 .. Len(t) : Under(t, p, j) /\ j < i => t[j].key # l

LEMMA AnswersOne ==
  ASSUME NULL \notin Keys, NEW el, Told(el), NEW i \in 1 .. Len(text), NEW k
  PROVE  i \in Answers(<<k>>) <=> FirstTop(text, i, k)
  <1>1. DOMAIN text = 1 .. Len(text)
    BY ToldFacts
  <1>2. i \in Answers(<<k>>) <=>
          Path(i) = <<k>> /\ \A j \in 1 .. Len(text) : ~Hides(j, i)
    BY <1>1 DEF Answers
  <1>3. Path(i) = <<k>> <=> text[i].depth = 1 /\ text[i].key = k
    BY PathOne
  <1>4. ASSUME text[i].depth = 1, text[i].key = k
        PROVE  \A j \in 1 .. Len(text) :
                 Hides(j, i) <=> text[j].depth = 1 /\ j < i /\ text[j].key = k
    BY <1>4, HidesTop
  <1>. QED
    BY ONLY <1>2, <1>3, <1>4 DEF FirstTop

LEMMA AnswersTwo ==
  ASSUME NULL \notin Keys, NEW el, Told(el), NEW i \in 1 .. Len(text), NEW k, NEW l
  PROVE  i \in Answers(<<k, l>>) <=>
           \E p \in 1 .. Len(text) : FirstTop(text, p, k) /\ FirstUnder(text, p, i, l)
  <1>1. DOMAIN text = 1 .. Len(text)
    BY ToldFacts
  <1>2. i \in Answers(<<k, l>>) <=>
          Path(i) = <<k, l>> /\ \A j \in 1 .. Len(text) : ~Hides(j, i)
    BY <1>1 DEF Answers
  <1>3. Path(i) = <<k, l>> <=>
          \E p \in 1 .. Len(text) : Under(text, p, i) /\ text[p].key = k /\ text[i].key = l
    <2>1. ASSUME Path(i) = <<k, l>>
          PROVE  \E p \in 1 .. Len(text) : Under(text, p, i) /\ text[p].key = k /\ text[i].key = l
      BY <2>1, PathTwo
    <2>2. ASSUME NEW p \in 1 .. Len(text), Under(text, p, i), text[p].key = k, text[i].key = l
          PROVE  Path(i) = <<k, l>>
      BY <2>2, PathTwo
    <2>. QED
      BY <2>1, <2>2
  <1>4. ASSUME NEW p \in 1 .. Len(text), Under(text, p, i), text[p].key = k, text[i].key = l
        PROVE  /\ text[p].depth = 1
               /\ \A j \in 1 .. Len(text) :
                    Hides(j, i) <=> \/ text[j].depth = 1 /\ j < p /\ text[j].key = k
                                    \/ Under(text, p, j) /\ j < i /\ text[j].key = l
    <2>1. text[p].depth = 1
      BY <1>4 DEF Under
    <2>. QED
      BY <1>4, <2>1, HidesUnder
  <1>5. ASSUME NEW p \in 1 .. Len(text), Under(text, p, i), text[p].key = k, text[i].key = l
        PROVE  (\A j \in 1 .. Len(text) : ~Hides(j, i)) <=>
                 FirstTop(text, p, k) /\ FirstUnder(text, p, i, l)
    BY ONLY <1>4, <1>5 DEF FirstTop, FirstUnder
  <1>6. ASSUME NEW p \in 1 .. Len(text), FirstTop(text, p, k), FirstUnder(text, p, i, l)
        PROVE  Under(text, p, i) /\ text[p].key = k /\ text[i].key = l
    BY <1>6 DEF FirstTop, FirstUnder
  <1>. QED
    BY ONLY <1>2, <1>3, <1>5, <1>6

-----------------------------------------------------------------------------
(* Configuration: what a lookup answers *)

LEMMA BesideTop ==
  ASSUME NULL \notin Keys, NEW el, Told(el), NEW i \in 1 .. Len(text)
  PROVE  1 \in 1 .. Len(text) /\ el[1] = 1 /\ (Beside(text, 1, i) <=> text[i].depth = 1)
  <1>1. PICK m \in Nat : m = Len(text)
    BY ToldFacts
  <1>2. \A x \in 1 .. m : text[x].depth \in Nat /\ text[x].depth >= 1
    BY <1>1, ToldFacts
  <1>3. i \in 1 .. m
    BY <1>1
  <1>4. 1 \in 1 .. Len(text) /\ el[1] = 1 /\ text[1].depth = 1
    <2>1. text # <<>>
      BY <1>1, <1>3, ToldFacts
    <2>. QED
      BY <2>1, ToldFacts
  <1>5. 1 <= i /\ \A x \in 1 .. i : x \in 1 .. m
    BY ONLY <1>3, m \in Nat
  <1>6. \A x \in 1 .. i : text[x].depth >= 1
    BY <1>2, <1>5
  <1>7. Beside(text, 1, i) <=> text[i].depth = 1
    BY ONLY <1>4, <1>5, <1>6 DEF Beside
  <1>. QED
    BY <1>4, <1>7

LEMMA VacantFinds ==
  ASSUME Heaped(heap), NEW v \in 1 .. Len(heap), Vacant(heap, v), NEW k, k # NULL
  PROVE  FindKey(v, k) = 0
  <1>1. heap[v].key # k /\ heap[v].next = 0
    BY DEF Vacant
  <1>. QED
    BY <1>1, FindIs

LEMMA FindsTop ==
  ASSUME NULL \notin Keys, NEW el, Told(el), NEW k, NEW i \in 1 .. Len(text), FirstTop(text, i, k)
  PROVE  FindKey(1, k) = el[i]
  <1>1. 1 \in 1 .. Len(text) /\ el[1] = 1
        /\ \A j \in 1 .. Len(text) : Beside(text, 1, j) <=> text[j].depth = 1
    BY BesideTop
  <1>2. /\ text[i].depth = 1 /\ text[i].key = k
        /\ \A j \in 1 .. Len(text) : text[j].depth = 1 /\ j < i => text[j].key # k
    BY DEF FirstTop
  <1>3. Beside(text, 1, i) /\ \A j \in 1 .. Len(text) : Beside(text, 1, j) /\ j < i => text[j].key # k
    BY <1>1, <1>2
  <1>4. FindKey(el[1], k) = el[i]
    <2>1. PICK b \in 1 .. Len(text) : b = 1
      BY <1>1
    <2>2. FirstBeside(text, b, i, k)
      BY ONLY <1>2, <1>3, <2>1 DEF FirstBeside
    <2>3. FindKey(el[b], k) = el[i]
      BY <2>2, FindsFirst
    <2>. QED
      BY <2>1, <2>3
  <1>. QED
    BY <1>1, <1>4

\* Where no entry at the top has the key, there is no first one.
LEMMA NoTop ==
  ASSUME NULL \notin Keys, NEW el, Told(el), NEW k,
         \A i \in 1 .. Len(text) : ~FirstTop(text, i, k)
  PROVE  \A i \in 1 .. Len(text) : text[i].depth = 1 => text[i].key # k
  <1>1. SUFFICES ASSUME NEW i \in 1 .. Len(text), text[i].depth = 1, text[i].key = k PROVE FALSE
    OBVIOUS
  <1>2. PICK F : F = {j \in 1 .. Len(text) : text[j].depth = 1 /\ text[j].key = k}
    OBVIOUS
  <1>3. F \subseteq Nat /\ i \in F
    BY <1>1, <1>2
  <1>4. PICK x \in F : \A y \in F : x <= y
    <2>1. F # {}
      BY <1>3
    <2>. QED
      BY ONLY <1>3, <2>1, LeastOf
  <1>5. x \in 1 .. Len(text) /\ text[x].depth = 1 /\ text[x].key = k
    BY <1>2
  <1>6. ASSUME NEW j \in 1 .. Len(text), text[j].depth = 1, j < x PROVE text[j].key # k
    <2>1. ASSUME text[j].key = k PROVE FALSE
      <3>1. x <= j
        BY <1>2, <1>4, <1>6, <2>1
      <3>. QED
        BY <1>3, <1>6, <3>1
    <2>. QED
      BY <2>1
  <1>7. FirstTop(text, x, k)
    BY <1>5, <1>6 DEF FirstTop
  <1>. QED
    BY <1>5, <1>7

LEMMA NoUnder ==
  ASSUME NULL \notin Keys, NEW el, Told(el), NEW l, NEW p,
         \A i \in 1 .. Len(text) : ~FirstUnder(text, p, i, l)
  PROVE  \A i \in 1 .. Len(text) : Under(text, p, i) => text[i].key # l
  <1>1. SUFFICES ASSUME NEW i \in 1 .. Len(text), Under(text, p, i), text[i].key = l PROVE FALSE
    OBVIOUS
  <1>2. PICK F : F = {j \in 1 .. Len(text) : Under(text, p, j) /\ text[j].key = l}
    OBVIOUS
  <1>3. F \subseteq Nat /\ i \in F
    BY <1>1, <1>2
  <1>4. PICK x \in F : \A y \in F : x <= y
    <2>1. F # {}
      BY <1>3
    <2>. QED
      BY ONLY <1>3, <2>1, LeastOf
  <1>5. x \in 1 .. Len(text) /\ Under(text, p, x) /\ text[x].key = l
    BY <1>2
  <1>6. ASSUME NEW j \in 1 .. Len(text), Under(text, p, j), j < x PROVE text[j].key # l
    <2>1. ASSUME text[j].key = l PROVE FALSE
      <3>1. x <= j
        BY <1>2, <1>4, <1>6, <2>1
      <3>. QED
        BY <1>3, <1>6, <3>1
    <2>. QED
      BY <2>1
  <1>7. FirstUnder(text, p, x, l)
    BY <1>5, <1>6 DEF FirstUnder
  <1>. QED
    BY <1>5, <1>7

LEMMA FindsNoTop ==
  ASSUME NULL \notin Keys, NEW el, Told(el), docs <= 1, NEW k \in Keys,
         \A i \in 1 .. Len(text) : ~FirstTop(text, i, k)
  PROVE  FindKey(1, k) = 0
  <1>1. \A i \in 1 .. Len(text) : text[i].depth = 1 => text[i].key # k
    BY NoTop
  <1>2. CASE text = <<>>
    <2>1. Heaped(heap) /\ Vacant(heap, 1)
      BY <1>2 DEF Told
    <2>2. 1 \in 1 .. Len(heap)
      BY <2>1, HeapFacts
    <2>. QED
      BY <2>1, <2>2, VacantFinds
  <1>3. CASE text # <<>>
    <2>1. 1 \in 1 .. Len(text)
      BY <1>3, ToldFacts
    <2>2. el[1] = 1 /\ \A i \in 1 .. Len(text) : Beside(text, 1, i) => text[i].key # k
      BY <1>1, <2>1, BesideTop
    <2>3. FindKey(el[1], k) = 0
      BY <2>1, <2>2, FindsNothing
    <2>. QED
      BY <2>2, <2>3
  <1>. QED
    BY <1>2, <1>3

\* Under entry p.
LEMMA FindsUnder ==
  ASSUME NULL \notin Keys, NEW el, Told(el), NEW l, NEW p \in 1 .. Len(text),
         NEW i \in 1 .. Len(text), FirstUnder(text, p, i, l)
  PROVE  FindKey(Below(el[p]), l) = el[i]
  <1>1. /\ Under(text, p, i) /\ text[i].key = l
        /\ \A j \in 1 .. Len(text) : Under(text, p, j) /\ j < i => text[j].key # l
    BY DEF FirstUnder
  <1>2. Child(text, p) /\ p + 1 \in 1 .. Len(text) /\ Beside(text, p + 1, i)
    BY <1>1, UnderIs
  <1>3. heap[el[p]].type = "dict" /\ heap[el[p]].value = el[p + 1] /\ el[p] # 0
    BY <1>2, ToldFacts DEF Told
  <1>4. Below(el[p]) = el[p + 1]
    BY <1>3 DEF Below
  <1>5. text[p].depth = 1
    BY <1>1 DEF Under
  <1>6. ASSUME NEW j \in 1 .. Len(text), Beside(text, p + 1, j), j < i PROVE text[j].key # l
    <2>1. Under(text, p, j)
      BY <1>2, <1>5, <1>6, BesideUnder
    <2>. QED
      BY <1>1, <1>6, <2>1
  <1>7. PICK b \in 1 .. Len(text) : b = p + 1
    BY <1>2
  <1>8. FindKey(el[b], l) = el[i]
    <2>1. text[i].key = l /\ Beside(text, b, i)
      BY <1>1, <1>2, <1>7
    <2>2. \A j \in 1 .. Len(text) : Beside(text, b, j) /\ j < i => text[j].key # l
      BY <1>6, <1>7
    <2>3. FirstBeside(text, b, i, l)
      BY ONLY <2>1, <2>2 DEF FirstBeside
    <2>. QED
      BY <2>3, FindsFirst
  <1>. QED
    BY <1>4, <1>7, <1>8

LEMMA FindsNoUnder ==
  ASSUME NULL \notin Keys, NEW el, Told(el), docs <= 1, NEW l \in Keys, NEW p \in 1 .. Len(text),
         text[p].depth = 1, \A i \in 1 .. Len(text) : ~FirstUnder(text, p, i, l)
  PROVE  FindKey(Below(el[p]), l) = 0
  <1>1. \A i \in 1 .. Len(text) : Under(text, p, i) => text[i].key # l
    BY NoUnder
  <1>2. Heaped(heap) /\ el[p] \in 1 .. Len(heap) /\ el[p] # 0
    BY ToldFacts
  <1>3. heap[el[p]].type = text[p].type
    BY DEF Told
  <1>4. FindKey(0, l) = 0
    BY <1>2, FindIs
  <1>5. CASE Child(text, p)
    <2>1. p < Len(text) /\ Len(text) \in Nat
      BY <1>5, ToldFacts DEF Child
    <2>2. PICK b \in 1 .. Len(text) : b = p + 1
      BY <2>1
    <2>3. heap[el[p]].type = "dict" /\ heap[el[p]].value = el[b]
      BY <1>5, <2>2 DEF Told
    <2>4. Below(el[p]) = el[b]
      BY <1>2, <2>3 DEF Below
    <2>5. ASSUME NEW j \in 1 .. Len(text), Beside(text, b, j) PROVE text[j].key # l
      <3>1. Under(text, p, j)
        BY <1>5, <2>2, <2>5, BesideUnder
      <3>. QED
        BY <1>1, <3>1
    <2>6. FindKey(el[b], l) = 0
      BY <2>5, FindsNothing
    <2>. QED
      BY <2>4, <2>6
  <1>6. CASE ~Child(text, p) /\ text[p].type = "dict"
    <2>1. heap[el[p]].type = "dict" /\ Below(el[p]) = heap[el[p]].value
      BY <1>2, <1>3, <1>6 DEF Below
    <2>2. heap[el[p]].value = 0 \/ Vacant(heap, heap[el[p]].value)
      BY <1>6 DEF Told
    <2>3. heap[el[p]].value = 0 \/ heap[el[p]].value \in 1 .. Len(heap)
      BY <1>2, <2>1 DEF Heaped
    <2>4. CASE heap[el[p]].value = 0
      BY <1>4, <2>1, <2>4
    <2>5. CASE heap[el[p]].value # 0
      BY <1>2, <2>1, <2>2, <2>3, <2>5, VacantFinds
    <2>. QED
      BY <2>4, <2>5
  <1>7. CASE text[p].type # "dict"
    <2>1. Below(el[p]) = 0
      BY <1>3, <1>7 DEF Below
    <2>. QED
      BY <1>4, <2>1
  <1>. QED
    BY <1>5, <1>6, <1>7

-----------------------------------------------------------------------------
(* Configuration: the first entry of each key counts *)

LEMMA AnswersAre == \A keys : Answers(keys) \subseteq DOMAIN text
  BY DEF Answers

LEMMA LookupOne ==
  ASSUME NULL \notin Keys, NEW el, Told(el), NEW k \in Keys
  PROVE  /\ \A i \in Answers(<<k>>) : GetSubdict(<<k>>) = el[i]
         /\ Answers(<<k>>) = {} /\ docs <= 1 => GetSubdict(<<k>>) = 0
  <1>1. GetSubdict(<<k>>) = FindKey(1, k)
    BY SubdictOne
  <1>2. DOMAIN text = 1 .. Len(text)
    BY ToldFacts
  <1>3. ASSUME NEW i \in Answers(<<k>>) PROVE FindKey(1, k) = el[i]
    <2>1. i \in 1 .. Len(text)
      BY <1>2, AnswersAre
    <2>2. FirstTop(text, i, k)
      BY <2>1, AnswersOne
    <2>. QED
      BY <2>1, <2>2, FindsTop
  <1>4. ASSUME Answers(<<k>>) = {}, docs <= 1 PROVE FindKey(1, k) = 0
    <2>1. \A i \in 1 .. Len(text) : ~FirstTop(text, i, k)
      BY <1>4, AnswersOne
    <2>. QED
      BY <1>4, <2>1, FindsNoTop
  <1>. QED
    BY <1>1, <1>3, <1>4

LEMMA LookupTwo ==
  ASSUME NULL \notin Keys, NEW el, Told(el), NEW k \in Keys, NEW l \in Keys
  PROVE  /\ \A i \in Answers(<<k, l>>) : GetSubdict(<<k, l>>) = el[i]
         /\ Answers(<<k, l>>) = {} /\ docs <= 1 => GetSubdict(<<k, l>>) = 0
  <1>1. GetSubdict(<<k, l>>) = FindKey(Below(FindKey(1, k)), l)
    BY SubdictTwo
  <1>2. DOMAIN text = 1 .. Len(text)
    BY ToldFacts
  <1>3. ASSUME NEW i \in Answers(<<k, l>>)
        PROVE  FindKey(Below(FindKey(1, k)), l) = el[i]
    <2>1. i \in 1 .. Len(text)
      BY <1>2, AnswersAre
    <2>2. PICK p \in 1 .. Len(text) : FirstTop(text, p, k) /\ FirstUnder(text, p, i, l)
      BY <2>1, AnswersTwo
    <2>3. FindKey(1, k) = el[p]
      BY <2>2, FindsTop
    <2>4. FindKey(Below(el[p]), l) = el[i]
      BY <2>1, <2>2, FindsUnder
    <2>. QED
      BY <2>3, <2>4
  <1>4. ASSUME Answers(<<k, l>>) = {}, docs <= 1
        PROVE  FindKey(Below(FindKey(1, k)), l) = 0
    <2>1. CASE \A p \in 1 .. Len(text) : ~FirstTop(text, p, k)
      <3>1. FindKey(1, k) = 0
        BY <1>4, <2>1, FindsNoTop
      <3>2. Below(0) = 0
        BY DEF Below
      <3>3. FindKey(0, l) = 0
        BY FindIs DEF Told
      <3>. QED
        BY <3>1, <3>2, <3>3
    <2>2. ASSUME NEW p \in 1 .. Len(text), FirstTop(text, p, k)
          PROVE  FindKey(Below(FindKey(1, k)), l) = 0
      <3>1. FindKey(1, k) = el[p]
        BY <2>2, FindsTop
      <3>2. \A i \in 1 .. Len(text) : ~FirstUnder(text, p, i, l)
        <4>1. SUFFICES ASSUME NEW i \in 1 .. Len(text), FirstUnder(text, p, i, l) PROVE FALSE
          OBVIOUS
        <4>2. i \in Answers(<<k, l>>)
          BY <2>2, <4>1, AnswersTwo
        <4>. QED
          BY <1>4, <4>2
      <3>3. text[p].depth = 1
        BY <2>2 DEF FirstTop
      <3>4. FindKey(Below(el[p]), l) = 0
        BY <1>4, <3>2, <3>3, FindsNoUnder
      <3>. QED
        BY <3>1, <3>4
    <2>. QED
      BY <2>1, <2>2
  <1>. QED
    BY <1>1, <1>3, <1>4

\* A lookup of a path answers the element of its first entry, or none.
LEMMA Lookup ==
  ASSUME NULL \notin Keys, NEW el, Told(el), NEW keys \in Paths
  PROVE  /\ \A i \in Answers(keys) : GetSubdict(keys) = el[i]
         /\ Answers(keys) = {} /\ docs <= 1 => GetSubdict(keys) = 0
  <1>1. (\E k \in Keys : keys = <<k>>) \/ (\E k, l \in Keys : keys = <<k, l>>)
    BY DEF Paths
  <1>2. ASSUME NEW k \in Keys, keys = <<k>>
        PROVE  /\ \A i \in Answers(keys) : GetSubdict(keys) = el[i]
               /\ Answers(keys) = {} /\ docs <= 1 => GetSubdict(keys) = 0
    BY <1>2, LookupOne
  <1>3. ASSUME NEW k \in Keys, NEW l \in Keys, keys = <<k, l>>
        PROVE  /\ \A i \in Answers(keys) : GetSubdict(keys) = el[i]
               /\ Answers(keys) = {} /\ docs <= 1 => GetSubdict(keys) = 0
    BY <1>3, LookupTwo
  <1>. QED
    BY <1>1, <1>2, <1>3

LEMMA OutlineShows ==
  ASSUME NULL \notin Keys, OutlineInv
  PROVE  FirstEntryCounts
  <1>1. SUFFICES ASSUME state = "loaded", NEW keys \in Paths
                 PROVE  /\ \A i \in Answers(keys) :
                             /\ GetSubdict(keys) # 0
                             /\ heap[GetSubdict(keys)].type = text[i].type
                             /\ text[i].type = "scalar" =>
                                  heap[GetSubdict(keys)].value = text[i].value
                        /\ Answers(keys) = {} /\ docs <= 1 => GetSubdict(keys) = 0
    BY DEF FirstEntryCounts
  <1>2. PICK el : Told(el)
    <2>1. stack = <<>>
      BY <1>1 DEF OutlineInv, TreeInv
    <2>. QED
      BY <1>1, <2>1, LoadedTold
  <1>3. ASSUME NEW i \in Answers(keys)
        PROVE  /\ GetSubdict(keys) # 0
               /\ heap[GetSubdict(keys)].type = text[i].type
               /\ text[i].type = "scalar" => heap[GetSubdict(keys)].value = text[i].value
    <2>1. i \in 1 .. Len(text) /\ el[i] # 0
      BY <1>2, AnswersAre, ToldFacts
    <2>2. GetSubdict(keys) = el[i]
      BY <1>2, Lookup
    <2>. QED
      BY <1>2, <2>1, <2>2 DEF Told
  <1>4. Answers(keys) = {} /\ docs <= 1 => GetSubdict(keys) = 0
    BY <1>2, Lookup
  <1>. QED
    BY <1>3, <1>4

\* In a configuration file of any size and depth, whatever it nests, the first entry
\* with a path of one or two keys is what a lookup answers, and one that is not there
\* is not found: config_parse_mapping links the entries in their order
\* (config_dict.c:39-55, config_parse_mapping.c:16-22).
THEOREM ConfigFirstEntryCounts ==
  ASSUME NULL \notin Keys
  PROVE  ConfigSpec => []FirstEntryCounts
  <1>1. ConfigInit => OutlineInv
    BY DEF ConfigInit, OutlineInv, TreeInv
  <1>2. OutlineInv /\ [ConfigNext]_(configVars) => OutlineInv'
    <2>1. ASSUME OutlineInv, UNCHANGED configVars PROVE OutlineInv'
      BY <2>1 DEF configVars, OutlineInv, TreeInv
    <2>. QED
      BY <2>1, OutlineStep
  <1>3. OutlineInv => FirstEntryCounts
    BY OutlineShows
  <1>. QED
    BY <1>1, <1>2, <1>3, PTL DEF ConfigSpec

-----------------------------------------------------------------------------
(* Configuration: the settings follow the file *)

\* The assumptions of Config that its numbers are about.
Numerical ==
  /\ NULL \notin Keys /\ NULL \notin Numbers
  /\ {"poll_interval", "cache", "max_size_mb"} \subseteq Keys
  /\ Written \in [Numbers -> Nat] /\ IntMax \in Nat \ {0} /\ MiB \in Nat \ {0}

LEMMA SmallMod ==
  ASSUME NEW a \in Nat, NEW b \in Nat, a < b
  PROVE  a % b = a
  OBVIOUS

LEMMA WrapSmall ==
  ASSUME IntMax \in Nat \ {0}, NEW a \in Nat, a < IntMax
  PROVE  Wrap(a) = a
  <1>1. 2 * IntMax \in Nat /\ a < 2 * IntMax
    OBVIOUS
  <1>2. a % (2 * IntMax) = a
    BY ONLY <1>1, a \in Nat, SmallMod
  <1>. QED
    BY <1>2 DEF Wrap

LEMMA ScalarIsSaid ==
  ASSUME NULL \notin Keys, NEW el, Told(el), docs <= 1, NEW keys \in Paths
  PROVE  GetScalar(keys) = Said(keys)
  <1>1. PICK A : A = Answers(keys)
    OBVIOUS
  <1>2. PICK i : i = CHOOSE x \in A : TRUE
    OBVIOUS
  <1>3. Said(keys) = IF A # {} /\ text[i].type = "scalar" THEN text[i].value ELSE NULL
    BY <1>1, <1>2 DEF Said
  <1>4. PICK e : e = GetSubdict(keys)
    OBVIOUS
  <1>5. GetScalar(keys) = IF e # 0 /\ heap[e].type = "scalar" THEN heap[e].value ELSE NULL
    BY <1>4 DEF GetScalar
  <1>6. CASE A = {}
    <2>1. e = 0
      BY <1>1, <1>4, <1>6, Lookup
    <2>. QED
      BY <1>3, <1>5, <1>6, <2>1
  <1>7. CASE A # {}
    <2>1. i \in A
      BY <1>2, <1>7
    <2>2. i \in 1 .. Len(text)
      BY <1>1, <2>1, AnswersAre, ToldFacts
    <2>3. e = el[i]
      BY <1>1, <1>4, <2>1, Lookup
    <2>4. e # 0
      BY <2>2, <2>3, ToldFacts
    <2>5. heap[e].type = text[i].type /\ (text[i].type = "scalar" => heap[e].value = text[i].value)
      BY <2>2, <2>3 DEF Told
    <2>. QED
      BY <1>3, <1>5, <1>7, <2>4, <2>5
  <1>. QED
    BY <1>6, <1>7

LEMMA PollFollows ==
  ASSUME Numerical, NEW s, s = GetScalar(<<"poll_interval">>),
         NEW c, c = Interval(<<"poll_interval">>, 60)
  PROVE  /\ s \notin Numbers => c = 60
         /\ s \in Numbers /\ Written[s] < IntMax => c = Written[s]
  <1>1. PICK v : v = Atoi(s, -1)
    OBVIOUS
  <1>2. c = IF v = -1 THEN 60 ELSE v
    BY <1>1 DEF Interval
  <1>3. v = IF s \in Numbers THEN Wrap(Written[s]) ELSE -1
    BY <1>1 DEF Atoi
  <1>4. ASSUME s \in Numbers, Written[s] < IntMax PROVE c = Written[s]
    <2>1. PICK w \in Nat : w = Written[s]
      BY <1>4 DEF Numerical
    <2>2. Wrap(w) = w
      BY <1>4, <2>1, WrapSmall DEF Numerical
    <2>3. v = w /\ v # -1
      BY <1>3, <1>4, <2>1, <2>2
    <2>. QED
      BY <1>2, <2>1, <2>3
  <1>. QED
    BY <1>2, <1>3, <1>4

LEMMA SizeFollows ==
  ASSUME Numerical, NEW s, s = GetScalar(<<"cache", "max_size_mb">>),
         NEW c, c = MaxCacheSize
  PROVE  /\ s \notin Numbers => c = 30 * MiB
         /\ s \in Numbers /\ Written[s] * MiB < IntMax => c = Written[s] * MiB
  <1>1. c = IF s \in Numbers THEN Wrap(Atoi(s, 0) * MiB) ELSE 30 * MiB
    BY DEF MaxCacheSize
  <1>2. ASSUME s \in Numbers, Written[s] * MiB < IntMax PROVE c = Written[s] * MiB
    <2>1. PICK w \in Nat : w = Written[s]
      BY <1>2 DEF Numerical
    <2>2. PICK b \in Nat : b = MiB /\ b >= 1
      BY DEF Numerical
    <2>3. w * b \in Nat /\ w <= w * b
      BY ONLY <2>1, <2>2
    <2>4. IntMax \in Nat \ {0} /\ w < IntMax /\ w * b < IntMax
      BY <1>2, <2>1, <2>2, <2>3 DEF Numerical
    <2>5. Wrap(w) = w /\ Wrap(w * b) = w * b
      BY ONLY <2>1, <2>3, <2>4, WrapSmall
    <2>6. Atoi(s, 0) = w
      BY <1>2, <2>1, <2>5 DEF Atoi
    <2>. QED
      BY <1>1, <1>2, <2>1, <2>2, <2>5, <2>6
  <1>. QED
    BY <1>1, <1>2

\* What SettingsFollow says of settings c, of a file that says poll and size.
Complies(c, poll, size) ==
  /\ poll \notin Numbers => c.poll_interval = 60
  /\ poll \in Numbers /\ Written[poll] < IntMax => c.poll_interval = Written[poll]
  /\ size \notin Numbers => c.max_cache_size = 30 * MiB
  /\ size \in Numbers /\ Written[size] * MiB < IntMax => c.max_cache_size = Written[size] * MiB

\* What the outline says, of the outline alone.
SaidOf(t, keys) ==
  LET above(i) == [d \in 1 .. t[i].depth |-> Max({j \in 1 .. i : t[j].depth = d})]
      path(i) == [d \in 1 .. t[i].depth |-> t[above(i)[d]].key]
      hides(j, i) ==
        LET d == t[j].depth
        IN  /\ d <= t[i].depth /\ j < above(i)[d]
            /\ path(j) = SubSeq(path(i), 1, d)
            /\ Front(above(j)) = SubSeq(above(i), 1, d - 1)
      answers == {i \in DOMAIN t : path(i) = keys /\ \A j \in DOMAIN t : ~hides(j, i)}
      x == CHOOSE y \in answers : TRUE
  IN  IF answers # {} /\ t[x].type = "scalar" THEN t[x].value ELSE NULL

LEMMA SaidIs == \A keys : Said(keys) = SaidOf(text, keys)
  BY DEF Said, SaidOf, Answers, Hides, Path, Above

Settled == state = "loaded" /\ docs <= 1 =>
             Complies(config, SaidOf(text, <<"poll_interval">>), SaidOf(text, <<"cache", "max_size_mb">>))

LEMMA SettledIs == Settled <=> SettingsFollow
  BY SaidIs DEF Settled, SettingsFollow, Complies

LEMMA SetupFollows ==
  ASSUME Numerical, NEW el, Told(el), docs <= 1
  PROVE  Complies(SetupConfig, SaidOf(text, <<"poll_interval">>), SaidOf(text, <<"cache", "max_size_mb">>))
  <1>1. PICK a, b : a = <<"poll_interval">> /\ b = <<"cache", "max_size_mb">>
    OBVIOUS
  <1>2. NULL \notin Keys
    BY DEF Numerical
  <1>3. a \in Paths /\ b \in Paths
    BY <1>1 DEF Numerical, Paths
  <1>4. GetScalar(a) = SaidOf(text, a) /\ GetScalar(b) = SaidOf(text, b)
    BY <1>2, <1>3, ScalarIsSaid, SaidIs
  <1>5. PICK c : c = SetupConfig
    OBVIOUS
  <1>6. c.poll_interval = Interval(a, 60) /\ c.max_cache_size = MaxCacheSize
    BY <1>1, <1>5 DEF SetupConfig
  <1>7. /\ SaidOf(text, a) \notin Numbers => c.poll_interval = 60
        /\ SaidOf(text, a) \in Numbers /\ Written[SaidOf(text, a)] < IntMax =>
             c.poll_interval = Written[SaidOf(text, a)]
    BY <1>1, <1>4, <1>6, PollFollows
  <1>8. /\ SaidOf(text, b) \notin Numbers => c.max_cache_size = 30 * MiB
        /\ SaidOf(text, b) \in Numbers /\ Written[SaidOf(text, b)] * MiB < IntMax =>
             c.max_cache_size = Written[SaidOf(text, b)] * MiB
    BY <1>1, <1>4, <1>6, SizeFollows
  <1>9. Complies(c, SaidOf(text, a), SaidOf(text, b))
    BY ONLY <1>7, <1>8 DEF Complies
  <1>. QED
    BY <1>1, <1>5, <1>9

\* Nothing but the end of the stream loads a file.
LEMMA Loads ==
  ASSUME ConfigNext, state' = "loaded"
  PROVE  StreamEnds
  <1>1. SUFFICES ASSUME ~StreamEnds PROVE FALSE
    OBVIOUS
  <1>2. ~Opens /\ ~OpenFails /\ ~ParserFails /\ ~Unexpected
    BY DEF Opens, OpenFails, ParserFails, Unexpected, Failing
  <1>3. ~DocumentStarts /\ ~ListStarts /\ ~ListEnds
    BY DEF DocumentStarts, ListStarts, ListEnds, AtTop, Waits
  <1>4. ~MappingStarts /\ ~MappingEnds /\ ~ConfigFree /\ ~Failed
    BY DEF MappingStarts, MappingEnds, ConfigFree, Failed, Waits, configVars
  <1>5. /\ \A k \in Keys : ~KeyEvent(k)
        /\ \A s \in Scalars : ~ScalarEvent(s)
        /\ \A s \in Words : ~ListItem(s)
    BY DEF KeyEvent, ScalarEvent, ListItem, Waits
  <1>. QED
    BY <1>1, <1>2, <1>3, <1>4, <1>5 DEF ConfigNext

LEMMA SettledStep ==
  ASSUME Numerical, OutlineInv, Settled, [ConfigNext]_(configVars)
  PROVE  Settled'
  <1>1. CASE UNCHANGED configVars
    BY <1>1 DEF configVars, Settled
  <1>2. CASE ConfigNext
    <2>1. SUFFICES ASSUME state' = "loaded", docs' <= 1
                   PROVE  Complies(config', SaidOf(text', <<"poll_interval">>),
                                           SaidOf(text', <<"cache", "max_size_mb">>))
      BY DEF Settled
    <2>2. StreamEnds
      BY <1>2, <2>1, Loads
    <2>3. /\ state = "parsing" /\ stack = <<>> /\ config' = SetupConfig
          /\ text' = text /\ docs' = docs
      BY <2>2 DEF StreamEnds, AtTop
    <2>4. PICK el : Told(el)
      BY <2>3, LoadedTold
    <2>5. Complies(SetupConfig, SaidOf(text, <<"poll_interval">>), SaidOf(text, <<"cache", "max_size_mb">>))
      BY <2>1, <2>3, <2>4, SetupFollows
    <2>. QED
      BY <2>3, <2>5
  <1>. QED
    BY <1>1, <1>2

\* The settings that a file of one document leaves: the number it says for the poll
\* interval and the size of the cache wherever that fits an int, the default where it
\* says something else or nothing (setup_config.c:25-34, 96-117, 230-242).
THEOREM ConfigSettingsFollow ==
  ASSUME Numerical
  PROVE  ConfigSpec => []SettingsFollow
  <1>1. ConfigInit => OutlineInv /\ Settled
    BY DEF ConfigInit, OutlineInv, TreeInv, Settled
  <1>2. OutlineInv /\ Settled /\ [ConfigNext]_(configVars) => OutlineInv' /\ Settled'
    <2>1. NULL \notin Keys
      BY DEF Numerical
    <2>2. ASSUME OutlineInv, UNCHANGED configVars PROVE OutlineInv'
      BY <2>2 DEF configVars, OutlineInv, TreeInv
    <2>. QED
      BY <2>1, <2>2, OutlineStep, SettledStep
  <1>3. Settled => SettingsFollow
    BY SettledIs
  <1>. QED
    BY <1>1, <1>2, <1>3, PTL DEF ConfigSpec
=============================================================================
