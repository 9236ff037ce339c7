-------------------------- MODULE MetricListProofs --------------------------
(***************************************************************************)
(* Theorems about MetricList and Wire, for every set of lists, every       *)
(* finite memory, every size of its nodes and all metrics they may hold:   *)
(* the pointers are those of lists, the count of bytes is exact, the code  *)
(* implements Queues, and a list written is read back by any host.         *)
(*                                                                         *)
(* The invariant is that there are sequences c[l] whose nodes the pointers *)
(* follow from first to last (Linked), that have no node twice, share none *)
(* and hold every node allocated, and that the loop of remove_if stands at *)
(* a node of one of them with prev before it.  Each operation is shown to  *)
(* make such sequences of such sequences.  That the walks of MetricList    *)
(* then meet these nodes, and what the nodes weigh, is shown by taking the *)
(* first place where it would be otherwise (LeastOf).                      *)
(*                                                                         *)
(* That a list is read as it was written follows from the invariant in     *)
(* each state: what has been written before a metric is where the reader   *)
(* stands when it comes to it (TurnsRead), by counting up from the first.  *)
(***************************************************************************)
EXTENDS Wire, FiniteSetTheorems, SequenceTheorems, WellFoundedInduction, TLAPS

-----------------------------------------------------------------------------
(* Walks *)

\* A set of naturals that is not empty has a least one.
LEMMA LeastOf ==
  ASSUME NEW F, F \subseteq Nat, F # {}
  PROVE  \E x \in F : \A y \in F : x <= y
  <1>1. \E x \in F : \A y \in F : ~(<<y, x>> \in OpToRel(<, Nat))
    BY NatLessThanWellFounded, WFMin
  <1>2. \A x, y \in Nat : <<y, x>> \in OpToRel(<, Nat) <=> y < x
    BY DEF OpToRel
  <1>3. PICK x \in F : \A y \in F : ~(y < x)
    BY <1>1, <1>2
  <1>. QED
    BY <1>3

\* Walk, for the pointers nx.
WalkIn(nx, n) ==
  LET at[i \in 0 .. Cardinality(Nodes)] ==
        IF i = 0 THEN n ELSE IF at[i - 1] = NULL THEN NULL ELSE nx[at[i - 1]]
  IN  at

Distinct(s) == \A i, j \in 1 .. Len(s) : s[i] = s[j] => i = j

\* The pointers nx lead from f to l along the nodes of s.
Linked(s, f, l, nx) ==
  /\ s \in Seq(Nodes) /\ Distinct(s)
  /\ f = IF s = <<>> THEN NULL ELSE s[1]
  /\ l = IF s = <<>> THEN NULL ELSE s[Len(s)]
  /\ \A i \in 1 .. Len(s) : nx[s[i]] = IF i = Len(s) THEN NULL ELSE s[i + 1]

\* No more nodes than there is memory.
LEMMA DistinctFits ==
  ASSUME NEW s \in Seq(Nodes), Distinct(s)
  PROVE  /\ Cardinality(Nodes) \in Nat /\ Len(s) <= Cardinality(Nodes)
         /\ Cardinality(Range(s)) = Len(s)
  <1>1. IsFiniteSet(Nodes) /\ Cardinality(Nodes) \in Nat
    BY MetricListAssumption, FS_CardinalityType
  <1>2. Len(s) \in Nat /\ s \in [1 .. Len(s) -> Nodes]
    OBVIOUS
  <1>3. IsFiniteSet(1 .. Len(s)) /\ Cardinality(1 .. Len(s)) = Len(s)
    BY <1>2, FS_Interval
  <1>4. s \in Injection(1 .. Len(s), Nodes)
    BY <1>2 DEF Injection, IsInjective, Distinct
  <1>5. Len(s) <= Cardinality(Nodes)
    BY <1>1, <1>3, <1>4, FS_Injection
  <1>6. s \in Surjection(1 .. Len(s), Range(s)) /\ s \in Injection(1 .. Len(s), Range(s))
    BY <1>2 DEF Surjection, Injection, IsInjective, Distinct, Range
  <1>7. Cardinality(Range(s)) = Len(s)
    BY <1>3, <1>6, FS_Surjection
  <1>. QED
    BY <1>1, <1>5, <1>7

\* A walk along s meets its nodes in turn, and NULL after them.
LEMMA WalkAlong ==
  ASSUME NEW s, NEW f, NEW l, NEW nx, Linked(s, f, l, nx)
  PROVE  WalkIn(nx, f)
           = [i \in 0 .. Cardinality(Nodes) |-> IF i < Len(s) THEN s[i + 1] ELSE NULL]
  <1>. DEFINE N == Cardinality(Nodes)
              Body(h, i) == IF i = 0 THEN f ELSE IF h[i - 1] = NULL THEN NULL ELSE nx[h[i - 1]]
              Rec(h) == h = [i \in 0 .. N |-> Body(h, i)]
              g == [i \in 0 .. N |-> IF i < Len(s) THEN s[i + 1] ELSE NULL]
              W == WalkIn(nx, f)
  <1>1. /\ s \in Seq(Nodes) /\ Distinct(s) /\ Len(s) \in Nat
        /\ f = IF s = <<>> THEN NULL ELSE s[1]
        /\ \A i \in 1 .. Len(s) : s[i] \in Nodes /\ s[i] # NULL
        /\ \A i \in 1 .. Len(s) : nx[s[i]] = IF i = Len(s) THEN NULL ELSE s[i + 1]
    BY MetricListAssumption DEF Linked
  <1>2. N \in Nat /\ Len(s) <= N
    BY <1>1, DistinctFits
  <1>3. W = CHOOSE h : Rec(h)
    BY DEF WalkIn
  <1>. HIDE DEF N, W
  <1>4. ASSUME NEW i \in 0 .. N PROVE g[i] = Body(g, i)
    <2>1. CASE i = 0
      <3>1. s = <<>> <=> Len(s) = 0
        BY <1>1
      <3>. QED
        BY <1>1, <1>2, <2>1, <3>1
    <2>2. CASE i # 0
      <3>1. i - 1 \in 0 .. N /\ i - 1 + 1 = i
        BY <1>2, <2>2
      <3>2. CASE i <= Len(s)
        <4>1. g[i - 1] = s[i] /\ i \in 1 .. Len(s)
          BY <1>1, <1>2, <2>2, <3>1, <3>2
        <4>2. Body(g, i) = nx[s[i]]
          BY <1>1, <2>2, <4>1
        <4>3. g[i] = IF i = Len(s) THEN NULL ELSE s[i + 1]
          BY <1>1, <3>2
        <4>. QED
          BY <1>1, <4>1, <4>2, <4>3
      <3>3. CASE ~(i <= Len(s))
        <4>1. g[i - 1] = NULL /\ g[i] = NULL
          BY <1>1, <1>2, <3>1, <3>3
        <4>. QED
          BY <2>2, <4>1
      <3>. QED
        BY <3>2, <3>3
    <2>. QED
      BY <2>1, <2>2
  <1>5. Rec(g)
    <2>1. g = [i \in 0 .. N |-> g[i]]
      OBVIOUS
    <2>. HIDE DEF g, Body
    <2>. QED
      BY <1>4, <2>1
  <1>6. Rec(W)
    <2>. HIDE DEF Rec, g
    <2>. QED
      BY <1>3, <1>5
  <1>7. W = g
    <2>. DEFINE D == {i \in 0 .. N : W[i] # g[i]}
    <2>1. D = {}
      <3>. SUFFICES ASSUME D # {} PROVE FALSE
        OBVIOUS
      <3>1. PICK i \in D : \A j \in D : i <= j
        <4>1. D \subseteq Nat
          BY <1>2
        <4>. HIDE DEF D
        <4>. QED
          BY <4>1, LeastOf
      <3>2. i \in 0 .. N /\ W[i] # g[i] /\ (i # 0 => W[i - 1] = g[i - 1])
        <4>1. i \in 0 .. N /\ W[i] # g[i]
          OBVIOUS
        <4>2. i # 0 => i - 1 \in 0 .. N /\ i - 1 \notin D
          BY <1>2, <3>1
        <4>. QED
          BY <4>1, <4>2
      <3>3. W[i] = Body(W, i)
        <4>. HIDE DEF Body
        <4>. QED
          BY <1>6, <3>2
      <3>. HIDE DEF g
      <3>. QED
        BY <1>4, <3>2, <3>3
    <2>2. DOMAIN W = 0 .. N /\ W = [i \in 0 .. N |-> W[i]]
      <3>. HIDE DEF Body
      <3>. QED
        BY <1>6
    <2>. QED
      BY <2>1, <2>2
  <1>. QED
    BY <1>7 DEF N, W

\* So the chain and the nodes in reach are those of s.
LEMMA ChainIs ==
  ASSUME NEW s, NEW f, NEW l, NEW nx, Linked(s, f, l, nx)
  PROVE  /\ [i \in 1 .. Len(s) |-> WalkIn(nx, f)[i - 1]] = s
         /\ Range(WalkIn(nx, f)) \ {NULL} = Range(s)
         /\ Cardinality(Range(s)) = Len(s)
  <1>. DEFINE N == Cardinality(Nodes)
              W == WalkIn(nx, f)
  <1>1. /\ s \in Seq(Nodes) /\ Distinct(s) /\ Len(s) \in Nat
        /\ s = [i \in 1 .. Len(s) |-> s[i]]
        /\ DOMAIN s = 1 .. Len(s)
        /\ \A i \in 1 .. Len(s) : s[i] \in Nodes /\ s[i] # NULL
    BY MetricListAssumption DEF Linked
  <1>2. N \in Nat /\ Len(s) <= N /\ Cardinality(Range(s)) = Len(s)
    BY <1>1, DistinctFits
  <1>3. W = [i \in 0 .. N |-> IF i < Len(s) THEN s[i + 1] ELSE NULL]
    BY WalkAlong
  <1>. HIDE DEF N, W
  <1>4. \A i \in 1 .. Len(s) : i - 1 \in 0 .. N /\ W[i - 1] = s[i]
    BY <1>1, <1>2, <1>3
  <1>5. [i \in 1 .. Len(s) |-> W[i - 1]] = s
    BY <1>1, <1>4
  <1>6. Range(W) = {W[i] : i \in 0 .. N}
    BY <1>3 DEF Range
  <1>7. \A i \in 0 .. N : W[i] = NULL \/ (i + 1 \in 1 .. Len(s) /\ W[i] = s[i + 1])
    BY <1>1, <1>2, <1>3
  <1>8. Range(W) \ {NULL} = {s[i] : i \in 1 .. Len(s)}
    BY <1>1, <1>4, <1>6, <1>7
  <1>. QED
    BY <1>1, <1>2, <1>5, <1>8 DEF W, Range

-----------------------------------------------------------------------------
(* What nodes weigh *)

\* The sums of Weighs, for the weights w.
SumIn(w, s) ==
  LET sum[k \in 0 .. Len(s)] == IF k = 0 THEN 0 ELSE sum[k - 1] + w[s[k]]
  IN  sum

\* h gives these sums up to n.
SumsTo(h, w, s, n) ==
  /\ h \in [0 .. n -> Nat] /\ h[0] = 0
  /\ \A k \in 1 .. n : h[k] = h[k - 1] + w[s[k]]

LEMMA SumsExist ==
  ASSUME NEW w \in [Nodes -> Nat], NEW s \in Seq(Nodes)
  PROVE  \E h : SumsTo(h, w, s, Len(s))
  <1>. DEFINE C == {n \in 0 .. Len(s) : ~ \E h : SumsTo(h, w, s, n)}
  <1>0. Len(s) \in Nat /\ \A k \in 1 .. Len(s) : w[s[k]] \in Nat
    OBVIOUS
  <1>1. C = {}
    <2>. SUFFICES ASSUME C # {} PROVE FALSE
      OBVIOUS
    <2>1. PICK n \in C : \A y \in C : n <= y
      <3>1. C \subseteq Nat
        BY <1>0
      <3>. HIDE DEF C
      <3>. QED
        BY <3>1, LeastOf
    <2>2. CASE n = 0
      <3>1. SumsTo([i \in 0 .. 0 |-> 0], w, s, 0)
        BY DEF SumsTo
      <3>. QED
        BY <2>1, <2>2, <3>1
    <2>3. CASE n # 0
      <3>a. n \in 0 .. Len(s)
        OBVIOUS
      <3>1. n \in 1 .. Len(s) /\ n - 1 \in 0 .. Len(s) /\ n - 1 \notin C
        <4>1. n - 1 < n /\ n \in 1 .. Len(s) /\ n - 1 \in 0 .. Len(s)
          BY <1>0, <2>3, <3>a
        <4>. HIDE DEF C
        <4>. QED
          BY <2>1, <4>1
      <3>2. PICK h : SumsTo(h, w, s, n - 1)
        BY <3>1
      <3>. DEFINE y == h[n - 1] + w[s[n]]
                  g == [i \in 0 .. n |-> IF i = n THEN y ELSE h[i]]
      <3>3. h \in [0 .. n - 1 -> Nat] /\ h[0] = 0 /\ y \in Nat
        BY <1>0, <3>1, <3>2 DEF SumsTo
      <3>. HIDE DEF y
      <3>4. g \in [0 .. n -> Nat] /\ g[0] = 0
        BY <1>0, <3>1, <3>3
      <3>5. ASSUME NEW k \in 1 .. n PROVE g[k] = g[k - 1] + w[s[k]]
        <4>1. CASE k = n
          <5>1. g[k] = y /\ g[k - 1] = h[n - 1]
            BY <1>0, <3>1, <4>1
          <5>. QED
            BY <4>1, <5>1 DEF y
        <4>2. CASE k # n
          <5>1. k \in 1 .. n - 1 /\ g[k] = h[k] /\ g[k - 1] = h[k - 1]
            BY <1>0, <3>1, <4>2
          <5>. HIDE DEF g
          <5>. QED
            BY <3>2, <5>1 DEF SumsTo
        <4>. QED
          BY <4>1, <4>2
      <3>6. SumsTo(g, w, s, n)
        <4>. HIDE DEF g
        <4>. QED
          BY <3>4, <3>5 DEF SumsTo
      <3>. QED
        BY <2>1, <3>6
    <2>. QED
      BY <2>2, <2>3
  <1>. QED
    BY <1>0, <1>1

LEMMA SumIs ==
  ASSUME NEW w \in [Nodes -> Nat], NEW s \in Seq(Nodes)
  PROVE  SumsTo(SumIn(w, s), w, s, Len(s))
  <1>. DEFINE n == Len(s)
              Rec(h) == h = [k \in 0 .. n |-> IF k = 0 THEN 0 ELSE h[k - 1] + w[s[k]]]
  <1>1. PICK h : SumsTo(h, w, s, n)
    BY SumsExist
  <1>2. n \in Nat
    OBVIOUS
  <1>3. SumIn(w, s) = CHOOSE g : Rec(g)
    BY DEF SumIn
  <1>. HIDE DEF n
  <1>4. Rec(h)
    <2>1. h = [k \in 0 .. n |-> h[k]]
      BY <1>1 DEF SumsTo
    <2>2. \A k \in 0 .. n : h[k] = IF k = 0 THEN 0 ELSE h[k - 1] + w[s[k]]
      BY <1>1, <1>2 DEF SumsTo
    <2>. QED
      BY <2>1, <2>2
  <1>5. Rec(SumIn(w, s))
    <2>. HIDE DEF Rec
    <2>. QED
      BY <1>3, <1>4
  <1>. DEFINE S == SumIn(w, s)
  <1>. HIDE DEF S
  <1>6. Rec(S)
    BY <1>5 DEF S
  <1>7. S = h
    <2>. DEFINE D == {i \in 0 .. n : S[i] # h[i]}
    <2>1. D = {}
      <3>. SUFFICES ASSUME D # {} PROVE FALSE
        OBVIOUS
      <3>1. PICK i \in D : \A j \in D : i <= j
        <4>1. D \subseteq Nat
          BY <1>2
        <4>. HIDE DEF D
        <4>. QED
          BY <4>1, LeastOf
      <3>2. i \in 0 .. n /\ S[i] # h[i]
        OBVIOUS
      <3>3. i # 0 => i - 1 \in 0 .. n /\ i - 1 \notin D
        BY <1>2, <3>1
      <3>4. i # 0 => S[i - 1] = h[i - 1]
        BY <3>3
      <3>. QED
        BY <1>4, <1>6, <3>2, <3>4
    <2>2. S = [i \in 0 .. n |-> S[i]] /\ h = [i \in 0 .. n |-> h[i]]
      BY <1>4, <1>6
    <2>. QED
      BY <2>1, <2>2
  <1>. QED
    BY <1>1, <1>7 DEF S, n

\* m nodes of s, after the first a, weigh what as many of t do, after the first b.
Alike(w, v, s, t, a, b, m) ==
  /\ a + m <= Len(s) /\ b + m <= Len(t)
  /\ \A k \in 1 .. m : w[s[a + k]] = v[t[b + k]]

Moved(w, v, s, t, a, b, m) ==
  SumIn(w, s)[a + m] + SumIn(v, t)[b] = SumIn(v, t)[b + m] + SumIn(w, s)[a]

\* They add as much.
LEMMA AlikeMoves ==
  ASSUME NEW w \in [Nodes -> Nat], NEW v \in [Nodes -> Nat],
         NEW s \in Seq(Nodes), NEW t \in Seq(Nodes),
         NEW a \in Nat, NEW b \in Nat, NEW m \in Nat, Alike(w, v, s, t, a, b, m)
  PROVE  Moved(w, v, s, t, a, b, m)
  <1>. SUFFICES ASSUME a + m <= Len(s), b + m <= Len(t),
                       \A k \in 1 .. m : w[s[a + k]] = v[t[b + k]]
                PROVE  SumIn(w, s)[a + m] + SumIn(v, t)[b] = SumIn(v, t)[b + m] + SumIn(w, s)[a]
    BY DEF Alike, Moved
  <1>. DEFINE S == SumIn(w, s)
              T == SumIn(v, t)
              D == {k \in 0 .. m : S[a + k] + T[b] # T[b + k] + S[a]}
  <1>1. SumsTo(S, w, s, Len(s)) /\ SumsTo(T, v, t, Len(t))
    BY SumIs
  <1>2. /\ Len(s) \in Nat /\ Len(t) \in Nat /\ a \in Nat /\ b \in Nat /\ m \in Nat
        /\ a + m <= Len(s) /\ b + m <= Len(t)
    OBVIOUS
  <1>. HIDE DEF S, T, D
  <1>3. /\ \A k \in 0 .. m : S[a + k] \in Nat /\ T[b + k] \in Nat
        /\ \A k \in 1 .. m : /\ S[a + k] = S[a + k - 1] + w[s[a + k]]
                             /\ T[b + k] = T[b + k - 1] + v[t[b + k]]
                             /\ w[s[a + k]] \in Nat
    <2>1. \A k \in 0 .. m : a + k \in 0 .. Len(s) /\ b + k \in 0 .. Len(t)
      BY <1>2
    <2>2. \A k \in 1 .. m : a + k \in 1 .. Len(s) /\ b + k \in 1 .. Len(t)
      BY ONLY <1>2
    <2>3. \A k \in 1 .. m : w[s[a + k]] \in Nat
      <3>1. \A i \in 1 .. Len(s) : w[s[i]] \in Nat
        OBVIOUS
      <3>. QED
        BY ONLY <2>2, <3>1
    <2>4. /\ \A i \in 0 .. Len(s) : S[i] \in Nat
          /\ \A i \in 0 .. Len(t) : T[i] \in Nat
          /\ \A i \in 1 .. Len(s) : S[i] = S[i - 1] + w[s[i]]
          /\ \A i \in 1 .. Len(t) : T[i] = T[i - 1] + v[t[i]]
      BY <1>1 DEF SumsTo
    <2>5. \A k \in 0 .. m : S[a + k] \in Nat /\ T[b + k] \in Nat
      BY <2>1, <2>4
    <2>6. \A k \in 1 .. m : S[a + k] = S[a + k - 1] + w[s[a + k]]
      BY <2>2, <2>4
    <2>7. \A k \in 1 .. m : T[b + k] = T[b + k - 1] + v[t[b + k]]
      BY <2>2, <2>4
    <2>. QED
      BY <2>3, <2>5, <2>6, <2>7
  <1>4. D = {}
    <2>. SUFFICES ASSUME D # {} PROVE FALSE
      OBVIOUS
    <2>1. PICK k \in D : \A j \in D : k <= j
      <3>1. D \subseteq Nat
        BY DEF D
      <3>. QED
        BY <3>1, LeastOf
    <2>2. k \in 0 .. m /\ S[a + k] + T[b] # T[b + k] + S[a]
      BY DEF D
    <2>3. S[a] \in Nat /\ T[b] \in Nat
      <3>1. 0 \in 0 .. m /\ a + 0 = a /\ b + 0 = b
        OBVIOUS
      <3>2. S[a + 0] \in Nat /\ T[b + 0] \in Nat
        BY <1>3, <3>1
      <3>. QED
        BY <3>1, <3>2
    <2>4. CASE k = 0
      BY <2>2, <2>3, <2>4
    <2>5. CASE k # 0
      <3>1. k - 1 \in 0 .. m /\ k - 1 \notin D /\ k \in 1 .. m
        <4>1. k - 1 < k /\ k - 1 \in 0 .. m /\ k \in 1 .. m
          BY ONLY <1>2, <2>2, <2>5
        <4>. QED
          BY <2>1, <4>1
      <3>2. S[a + (k - 1)] + T[b] = T[b + (k - 1)] + S[a]
        BY <3>1 DEF D
      <3>3. a + (k - 1) = a + k - 1 /\ b + (k - 1) = b + k - 1
        BY <3>1
      <3>4. /\ S[a + k] = S[a + (k - 1)] + w[s[a + k]]
            /\ T[b + k] = T[b + (k - 1)] + w[s[a + k]]
            /\ w[s[a + k]] \in Nat /\ S[a + (k - 1)] \in Nat /\ T[b + (k - 1)] \in Nat
        BY <1>3, <3>1, <3>3
      <3>5. PICK x, y, p, q, u \in Nat : /\ x = S[a + (k - 1)] /\ y = T[b + (k - 1)]
                                         /\ p = T[b] /\ q = S[a] /\ u = w[s[a + k]]
        BY <2>3, <3>4
      <3>6. x + p = y + q
        BY <3>2, <3>5
      <3>7. (x + u) + p = (y + u) + q
        BY <3>6
      <3>8. S[a + k] = x + u /\ T[b + k] = y + u
        BY <3>4, <3>5
      <3>. QED
        BY <2>2, <3>5, <3>7, <3>8
    <2>. QED
      BY <2>4, <2>5
  <1>5. m \in 0 .. m /\ m \notin D
    BY <1>4
  <1>. QED
    BY <1>5 DEF S, T, D


\* Weighs, for the weights w.
WeighsIn(w, s) == SumIn(w, s)[Len(s)]

LEMMA SumFacts ==
  ASSUME NEW w \in [Nodes -> Nat], NEW s \in Seq(Nodes)
  PROVE  /\ SumIn(w, s)[0] = 0 /\ WeighsIn(w, s) \in Nat
         /\ \A k \in 0 .. Len(s) : SumIn(w, s)[k] \in Nat
         /\ \A k \in 1 .. Len(s) : SumIn(w, s)[k] = SumIn(w, s)[k - 1] + w[s[k]]
  <1>1. SumsTo(SumIn(w, s), w, s, Len(s))
    BY SumIs
  <1>2. Len(s) \in 0 .. Len(s)
    OBVIOUS
  <1>. QED
    BY <1>1, <1>2 DEF SumsTo, WeighsIn

LEMMA WeighsSame ==
  ASSUME NEW w \in [Nodes -> Nat], NEW v \in [Nodes -> Nat], NEW s \in Seq(Nodes),
         \A i \in 1 .. Len(s) : v[s[i]] = w[s[i]]
  PROVE  WeighsIn(v, s) = WeighsIn(w, s)
  <1>1. Len(s) \in Nat /\ \A i \in 1 .. Len(s) : v[s[0 + i]] = w[s[0 + i]]
    OBVIOUS
  <1>2. SumIn(v, s)[0 + Len(s)] + SumIn(w, s)[0] = SumIn(w, s)[0 + Len(s)] + SumIn(v, s)[0]
    <2>1. Alike(v, w, s, s, 0, 0, Len(s))
      BY <1>1 DEF Alike
    <2>4. Moved(v, w, s, s, 0, 0, Len(s))
      BY <1>1, <2>1, AlikeMoves
    <2>. QED
      BY <2>4 DEF Moved
  <1>3. /\ SumIn(v, s)[0] = 0 /\ SumIn(w, s)[0] = 0
        /\ WeighsIn(v, s) \in Nat /\ WeighsIn(w, s) \in Nat
    BY SumFacts
  <1>. QED
    BY <1>1, <1>2, <1>3 DEF WeighsIn

\* A node more at the end.
LEMMA WeighsAppend ==
  ASSUME NEW w \in [Nodes -> Nat], NEW v \in [Nodes -> Nat], NEW s \in Seq(Nodes),
         NEW n \in Nodes, \A i \in 1 .. Len(s) : v[s[i]] = w[s[i]]
  PROVE  WeighsIn(v, Append(s, n)) = WeighsIn(w, s) + v[n]
  <1>. DEFINE t == Append(s, n)
              L == Len(s)
  <1>1. /\ t \in Seq(Nodes) /\ Len(t) = L + 1 /\ L \in Nat
        /\ \A i \in 1 .. L : t[i] = s[i]
        /\ t[L + 1] = n
    BY AppendProperties
  <1>. HIDE DEF t, L
  <1>2. L = Len(s)
    BY DEF L
  <1>3. SumIn(v, t)[0 + L] + SumIn(w, s)[0] = SumIn(w, s)[0 + L] + SumIn(v, t)[0]
    <2>1. Alike(v, w, t, s, 0, 0, L)
      <3>1. \A i \in 1 .. L : 0 + i = i /\ v[t[i]] = w[s[i]]
        BY <1>1, <1>2
      <3>. QED
        BY <1>1, <1>2, <3>1 DEF Alike
    <2>4. Moved(v, w, t, s, 0, 0, L)
      BY <1>1, <2>1, AlikeMoves
    <2>. QED
      BY <2>4 DEF Moved
  <1>4. /\ SumIn(v, t)[0] = 0 /\ SumIn(w, s)[0] = 0
        /\ SumIn(v, t)[L] \in Nat /\ SumIn(w, s)[L] \in Nat
        /\ SumIn(v, t)[L + 1] = SumIn(v, t)[(L + 1) - 1] + v[t[L + 1]]
    <2>1. L \in 0 .. Len(t) /\ L + 1 \in 1 .. Len(t) /\ L \in 0 .. Len(s)
      BY <1>1, <1>2
    <2>. QED
      BY <1>1, <2>1, SumFacts
  <1>5. SumIn(v, t)[L] = SumIn(w, s)[L] /\ (L + 1) - 1 = L
    BY <1>1, <1>3, <1>4
  <1>6. SumIn(v, t)[Len(t)] = SumIn(w, s)[L] + v[n]
    BY <1>1, <1>4, <1>5
  <1>. QED
    BY <1>2, <1>6 DEF WeighsIn, t

\* t is s without its node i.
Without(t, s, i) ==
  /\ t \in Seq(Nodes) /\ i \in 1 .. Len(s) /\ Len(t) = Len(s) - 1
  /\ \A k \in 1 .. Len(t) : t[k] = IF k < i THEN s[k] ELSE s[k + 1]

LEMMA WeighsWithout ==
  ASSUME NEW w \in [Nodes -> Nat], NEW s \in Seq(Nodes), NEW t, NEW i, Without(t, s, i)
  PROVE  WeighsIn(w, t) = WeighsIn(w, s) - w[s[i]] /\ WeighsIn(w, t) \in Nat
  <1>1. /\ t \in Seq(Nodes) /\ Len(s) \in Nat /\ Len(t) = Len(s) - 1 /\ i \in 1 .. Len(s)
        /\ Len(t) \in Nat /\ i \in Nat /\ i - 1 \in Nat /\ Len(s) - i \in Nat
    BY DEF Without
  <1>. DEFINE S == SumIn(w, s)
              T == SumIn(w, t)
              L == Len(t)
              r == Len(s) - i
  <1>2. S[0 + (i - 1)] + T[0] = T[0 + (i - 1)] + S[0]
    <2>1. ASSUME NEW k \in 1 .. i - 1 PROVE w[s[0 + k]] = w[t[0 + k]]
      <3>1. k \in 1 .. Len(t) /\ k < i /\ 0 + k = k
        BY <1>1
      <3>2. t[k] = s[k]
        BY <3>1 DEF Without
      <3>. QED
        BY <3>1, <3>2
    <2>2. 0 + (i - 1) <= Len(s) /\ 0 + (i - 1) <= Len(t)
      BY <1>1
    <2>3. Alike(w, w, s, t, 0, 0, i - 1)
      BY <1>1, <2>1, <2>2 DEF Alike
    <2>4. Moved(w, w, s, t, 0, 0, i - 1)
      BY <1>1, <2>3, AlikeMoves
    <2>. QED
      BY <2>4 DEF Moved
  <1>3. S[i + r] + T[i - 1] = T[(i - 1) + r] + S[i]
    <2>1. \A k \in 1 .. r : w[s[i + k]] = w[t[(i - 1) + k]]
      <3>. SUFFICES ASSUME NEW k \in 1 .. r PROVE t[(i - 1) + k] = s[i + k]
        OBVIOUS
      <3>1. /\ (i - 1) + k \in 1 .. Len(t) /\ ~((i - 1) + k < i)
            /\ ((i - 1) + k) + 1 = i + k
        BY <1>1
      <3>. QED
        BY <3>1 DEF Without
    <2>2. i + r <= Len(s) /\ (i - 1) + r <= Len(t) /\ r \in Nat
      BY <1>1
    <2>. HIDE DEF r
    <2>3. Alike(w, w, s, t, i, i - 1, r)
      BY <1>1, <2>1, <2>2 DEF Alike
    <2>4. Moved(w, w, s, t, i, i - 1, r)
      BY <1>1, <2>2, <2>3, AlikeMoves
    <2>. QED
      BY <2>4 DEF Moved
  <1>4. /\ S[0] = 0 /\ T[0] = 0 /\ S[Len(s)] \in Nat /\ T[L] \in Nat
        /\ S[i] = S[i - 1] + w[s[i]] /\ S[i - 1] \in Nat /\ S[i] \in Nat
        /\ T[i - 1] \in Nat
    <2>1. i - 1 \in 0 .. Len(s) /\ i \in 0 .. Len(s) /\ i - 1 \in 0 .. Len(t)
      BY <1>1
    <2>2. Len(s) \in 0 .. Len(s) /\ Len(t) \in 0 .. Len(t)
      BY <1>1
    <2>. QED
      BY <1>1, <2>1, <2>2, SumFacts
  <1>5. i + r = Len(s) /\ (i - 1) + r = L /\ 0 + (i - 1) = i - 1
    BY <1>1
  <1>6. w[s[i]] \in Nat
    BY <1>1
  <1>. HIDE DEF S, T, L, r
  <1>7. PICK x, y, p, q, a, u \in Nat :
           /\ x = S[Len(s)] /\ y = T[L] /\ p = T[i - 1] /\ q = S[i] /\ a = S[i - 1]
           /\ u = w[s[i]]
    BY <1>4, <1>6
  <1>8. a + 0 = p + 0 /\ x + p = y + q /\ q = a + u
    BY <1>2, <1>3, <1>4, <1>5, <1>7
  <1>9. y = x - u
    BY <1>8
  <1>. QED
    BY <1>4, <1>7, <1>9 DEF WeighsIn, S, T, L

LEMMA WeighsConcat ==
  ASSUME NEW w \in [Nodes -> Nat], NEW s \in Seq(Nodes), NEW t \in Seq(Nodes)
  PROVE  WeighsIn(w, s \o t) = WeighsIn(w, s) + WeighsIn(w, t)
  <1>. DEFINE c == s \o t
              L == Len(s)
              M == Len(t)
  <1>1. /\ c \in Seq(Nodes) /\ Len(c) = L + M /\ L \in Nat /\ M \in Nat
        /\ \A k \in 1 .. L : c[k] = s[k]
        /\ \A k \in 1 .. M : c[L + k] = t[k]
    <2>1. L \in Nat /\ M \in Nat /\ c \in Seq(Nodes) /\ Len(c) = L + M
      OBVIOUS
    <2>2. \A k \in 1 .. L + M : c[k] = IF k <= L THEN s[k] ELSE t[k - L]
      OBVIOUS
    <2>. HIDE DEF c, L, M
    <2>3. ASSUME NEW k \in 1 .. M PROVE c[L + k] = t[k]
      <3>1. L + k \in 1 .. L + M /\ ~(L + k <= L) /\ (L + k) - L = k
        BY <2>1
      <3>. QED
        BY <2>2, <3>1
    <2>4. \A k \in 1 .. L : k \in 1 .. L + M /\ k <= L
      BY <2>1
    <2>. QED
      BY <2>1, <2>2, <2>3, <2>4
  <1>. DEFINE S == SumIn(w, s)
              T == SumIn(w, t)
              C == SumIn(w, c)
  <1>2. L = Len(s) /\ M = Len(t)
    OBVIOUS
  <1>. HIDE DEF c, L, M
  <1>3. C[0 + L] + S[0] = S[0 + L] + C[0]
    <2>1. \A k \in 1 .. L : w[c[0 + k]] = w[s[0 + k]]
      BY <1>1
    <2>2. 0 + L <= Len(c) /\ 0 + L <= Len(s)
      BY <1>1, <1>2
    <2>3. Alike(w, w, c, s, 0, 0, L)
      BY <1>1, <2>1, <2>2 DEF Alike
    <2>4. Moved(w, w, c, s, 0, 0, L)
      BY <1>1, <2>3, AlikeMoves
    <2>. QED
      BY <2>4 DEF Moved
  <1>4. C[L + M] + T[0] = T[0 + M] + C[L]
    <2>1. \A k \in 1 .. M : w[c[L + k]] = w[t[0 + k]]
      <3>1. \A k \in 1 .. M : 0 + k = k
        BY ONLY <1>1
      <3>2. \A k \in 1 .. M : c[L + k] = t[k]
        BY ONLY <1>1
      <3>. QED
        BY ONLY <3>1, <3>2
    <2>2. L + M <= Len(c) /\ 0 + M <= Len(t)
      BY <1>1, <1>2
    <2>3. Alike(w, w, c, t, L, 0, M)
      BY <1>1, <2>1, <2>2 DEF Alike
    <2>4. Moved(w, w, c, t, L, 0, M)
      BY <1>1, <2>3, AlikeMoves
    <2>. QED
      BY <2>4 DEF Moved
  <1>5. /\ S[0] = 0 /\ T[0] = 0 /\ C[0] = 0
        /\ S[L] \in Nat /\ T[M] \in Nat /\ C[L] \in Nat /\ C[L + M] \in Nat
    <2>1. L \in 0 .. Len(s) /\ M \in 0 .. Len(t) /\ L \in 0 .. Len(c) /\ L + M \in 0 .. Len(c)
      BY <1>1, <1>2
    <2>. QED
      BY <1>1, <2>1, SumFacts
  <1>6. 0 + L = L /\ 0 + M = M
    BY <1>1
  <1>. HIDE DEF S, T, C
  <1>7. PICK x, y, p, q \in Nat : x = S[L] /\ y = T[M] /\ p = C[L] /\ q = C[L + M]
    BY <1>5
  <1>8. p + 0 = x + 0 /\ q + 0 = y + p
    BY <1>3, <1>4, <1>5, <1>6, <1>7
  <1>9. q = x + y
    BY <1>8
  <1>. QED
    BY <1>1, <1>2, <1>7, <1>9 DEF WeighsIn, S, T, C, c


-----------------------------------------------------------------------------
(* Lists *)

\* Pointers that are changed elsewhere.
LEMMA LinkedElsewhere ==
  ASSUME NEW s, NEW f, NEW l, NEW nx, Linked(s, f, l, nx), NEW ny,
         \A i \in 1 .. Len(s) : ny[s[i]] = nx[s[i]]
  PROVE  Linked(s, f, l, ny)
  BY DEF Linked

\* The nodes of a list are allocated memory, and none is NULL.
LEMMA LinkedFacts ==
  ASSUME NEW s, NEW f, NEW l, NEW nx, Linked(s, f, l, nx)
  PROVE  /\ s \in Seq(Nodes) /\ Distinct(s) /\ Len(s) \in Nat
         /\ s = <<>> <=> Len(s) = 0
         /\ s = <<>> <=> f = NULL
         /\ \A i \in 1 .. Len(s) : s[i] \in Nodes /\ s[i] # NULL
         /\ s # <<>> => /\ f = s[1] /\ l = s[Len(s)]
                        /\ 1 \in 1 .. Len(s) /\ Len(s) \in 1 .. Len(s)
         /\ s = <<>> => l = NULL
         /\ \A i \in 1 .. Len(s) : nx[s[i]] = IF i = Len(s) THEN NULL ELSE s[i + 1]
  <1>1. /\ s \in Seq(Nodes) /\ Distinct(s)
        /\ f = IF s = <<>> THEN NULL ELSE s[1]
        /\ l = IF s = <<>> THEN NULL ELSE s[Len(s)]
        /\ \A i \in 1 .. Len(s) : nx[s[i]] = IF i = Len(s) THEN NULL ELSE s[i + 1]
    BY DEF Linked
  <1>2. Len(s) \in Nat /\ (s = <<>> <=> Len(s) = 0)
    BY <1>1
  <1>3. \A i \in 1 .. Len(s) : s[i] \in Nodes /\ s[i] # NULL
    BY <1>1, MetricListAssumption
  <1>4. s # <<>> => 1 \in 1 .. Len(s) /\ Len(s) \in 1 .. Len(s)
    BY <1>2
  <1>5. s = <<>> <=> f = NULL
    BY <1>1, <1>3, <1>4
  <1>. QED
    BY <1>1, <1>2, <1>3, <1>4, <1>5

\* push_node: n comes after the last node.
LEMMA LinkedAppend ==
  ASSUME NEW s, NEW f, NEW l, NEW nx, Linked(s, f, l, nx), NEW n \in Nodes,
         \A i \in 1 .. Len(s) : s[i] # n,
         NEW ny, ny[n] = NULL, s # <<>> => ny[l] = n,
         \A i \in 1 .. Len(s) : i # Len(s) => ny[s[i]] = nx[s[i]]
  PROVE  Linked(Append(s, n), IF s = <<>> THEN n ELSE f, n, ny)
  <1>. DEFINE t == Append(s, n)
  <1>1. /\ s \in Seq(Nodes) /\ Distinct(s) /\ Len(s) \in Nat
        /\ s = <<>> <=> Len(s) = 0
        /\ s # <<>> => f = s[1] /\ l = s[Len(s)] /\ 1 \in 1 .. Len(s)
        /\ \A i \in 1 .. Len(s) : nx[s[i]] = IF i = Len(s) THEN NULL ELSE s[i + 1]
    BY LinkedFacts
  <1>2. /\ t \in Seq(Nodes) /\ Len(t) = Len(s) + 1
        /\ \A i \in 1 .. Len(s) : t[i] = s[i]
        /\ t[Len(s) + 1] = n /\ t # <<>>
    BY <1>1, AppendProperties
  <1>. HIDE DEF t
  <1>3. \A i \in 1 .. Len(t) : i \in 1 .. Len(s) \/ i = Len(t)
    BY <1>1, <1>2
  <1>4. Distinct(t)
    BY <1>1, <1>2, <1>3 DEF Distinct
  <1>5. ASSUME NEW i \in 1 .. Len(t)
        PROVE  ny[t[i]] = IF i = Len(t) THEN NULL ELSE t[i + 1]
    <2>1. CASE i = Len(t)
      BY <1>2, <2>1
    <2>2. CASE i # Len(t)
      <3>1. i \in 1 .. Len(s) /\ t[i] = s[i]
        BY <1>2, <1>3, <2>2
      <3>2. CASE i = Len(s)
        <4>1. s # <<>> /\ s[i] = l /\ i + 1 = Len(t)
          BY <1>1, <1>2, <3>1, <3>2
        <4>. QED
          BY <1>2, <2>2, <3>1, <4>1
      <3>3. CASE i # Len(s)
        <4>1. i + 1 \in 1 .. Len(s)
          BY <1>1, <3>1, <3>3
        <4>2. ny[s[i]] = nx[s[i]] /\ nx[s[i]] = s[i + 1]
          BY <1>1, <3>1, <3>3
        <4>. QED
          BY <1>2, <2>2, <3>1, <4>1, <4>2
      <3>. QED
        BY <3>2, <3>3
    <2>. QED
      BY <2>1, <2>2
  <1>6. t[1] = IF s = <<>> THEN n ELSE f
    BY <1>1, <1>2
  <1>7. t[Len(t)] = n
    BY <1>2
  <1>8. Linked(t, IF s = <<>> THEN n ELSE f, n, ny)
    BY <1>2, <1>4, <1>5, <1>6, <1>7 DEF Linked
  <1>. QED
    BY <1>8 DEF t

\* What was before the node i leads to what was after it.
Skips(s, i, nx, ny) ==
  /\ i # 1 => ny[s[i - 1]] = nx[s[i]]
  /\ \A k \in 1 .. Len(s) : k # i /\ k # i - 1 => ny[s[k]] = nx[s[k]]

\* A node i is unlinked.
LEMMA LinkedWithout ==
  ASSUME NEW s, NEW f, NEW l, NEW nx, Linked(s, f, l, nx), NEW t, NEW i, Without(t, s, i),
         NEW ny, Skips(s, i, nx, ny)
  PROVE  Linked(t, IF i = 1 THEN nx[s[1]] ELSE f,
                   IF i # Len(s) THEN l ELSE IF i = 1 THEN NULL ELSE s[i - 1], ny)
  <1>0. /\ i # 1 => ny[s[i - 1]] = nx[s[i]]
        /\ \A k \in 1 .. Len(s) : k # i /\ k # i - 1 => ny[s[k]] = nx[s[k]]
    BY DEF Skips
  <1>1. /\ s \in Seq(Nodes) /\ Distinct(s) /\ Len(s) \in Nat
        /\ s # <<>> => f = s[1] /\ l = s[Len(s)]
        /\ \A k \in 1 .. Len(s) : nx[s[k]] = IF k = Len(s) THEN NULL ELSE s[k + 1]
    BY LinkedFacts
  <1>2. /\ t \in Seq(Nodes) /\ i \in 1 .. Len(s) /\ Len(t) = Len(s) - 1
        /\ \A k \in 1 .. Len(t) : t[k] = IF k < i THEN s[k] ELSE s[k + 1]
    BY DEF Without
  <1>3. /\ s # <<>> /\ Len(t) \in Nat
        /\ t = <<>> <=> Len(t) = 0
    BY <1>1, <1>2
  <1>4. \A k \in 1 .. Len(t) : k \in 1 .. Len(s) /\ k + 1 \in 1 .. Len(s) /\ k \in Nat
    BY <1>1, <1>2
  <1>5. Distinct(t)
    <2>. SUFFICES ASSUME NEW j \in 1 .. Len(t), NEW k \in 1 .. Len(t), t[j] = t[k]
                  PROVE  j = k
      BY DEF Distinct
    <2>. DEFINE p(m) == IF m < i THEN m ELSE m + 1
    <2>1. /\ p(j) \in 1 .. Len(s) /\ t[j] = s[p(j)]
          /\ p(k) \in 1 .. Len(s) /\ t[k] = s[p(k)]
      BY <1>2, <1>4
    <2>2. p(j) = p(k)
      <3>. HIDE DEF p
      <3>. QED
        BY <1>1, <2>1 DEF Distinct
    <2>. QED
      BY <1>2, <1>4, <2>2
  <1>6. ASSUME NEW k \in 1 .. Len(t)
        PROVE  ny[t[k]] = IF k = Len(t) THEN NULL ELSE t[k + 1]
    <2>1. CASE k < i - 1
      <3>1. t[k] = s[k] /\ k + 1 < i /\ k # i /\ k # i - 1 /\ k # Len(s) /\ k # Len(t)
        BY <1>1, <1>2, <1>4, <2>1
      <3>2. k + 1 \in 1 .. Len(t) /\ t[k + 1] = s[k + 1]
        BY <1>1, <1>2, <1>4, <3>1
      <3>3. ny[s[k]] = nx[s[k]] /\ nx[s[k]] = s[k + 1]
        BY <1>0, <1>1, <1>4, <3>1
      <3>. QED
        BY <3>1, <3>2, <3>3
    <2>2. CASE k = i - 1
      <3>1. t[k] = s[i - 1] /\ i # 1
        BY <1>2, <1>4, <2>2
      <3>2. ny[t[k]] = nx[s[i]] /\ nx[s[i]] = IF i = Len(s) THEN NULL ELSE s[i + 1]
        BY <1>0, <1>1, <1>2, <3>1
      <3>3. CASE i = Len(s)
        BY <1>2, <2>2, <3>2, <3>3
      <3>4. CASE i # Len(s)
        <4>1. k # Len(t) /\ k + 1 \in 1 .. Len(t) /\ k + 1 = i
          BY <1>1, <1>2, <1>4, <2>2, <3>4
        <4>2. t[k + 1] = s[i + 1]
          BY <1>2, <4>1
        <4>. QED
          BY <3>2, <3>4, <4>1, <4>2
      <3>. QED
        BY <3>3, <3>4
    <2>3. CASE ~(k < i - 1) /\ k # i - 1
      <3>1. ~(k < i) /\ k + 1 # i /\ k + 1 # i - 1
        BY <1>1, <1>2, <1>4, <2>3
      <3>2. t[k] = s[k + 1]
        BY <1>2, <3>1
      <3>3. ny[s[k + 1]] = nx[s[k + 1]]
        BY <1>0, <1>4, <3>1
      <3>4. nx[s[k + 1]] = IF k + 1 = Len(s) THEN NULL ELSE s[(k + 1) + 1]
        BY <1>1, <1>4
      <3>5. CASE k = Len(t)
        BY <1>1, <1>2, <3>2, <3>3, <3>4, <3>5
      <3>6. CASE k # Len(t)
        <4>1. k + 1 \in 1 .. Len(t) /\ k + 1 # Len(s) /\ ~(k + 1 < i)
          BY <1>1, <1>2, <1>4, <3>1, <3>6
        <4>2. t[k + 1] = s[(k + 1) + 1]
          BY <1>2, <4>1
        <4>. QED
          BY <3>2, <3>3, <3>4, <3>6, <4>1, <4>2
      <3>. QED
        BY <3>5, <3>6
    <2>. QED
      BY <2>1, <2>2, <2>3
  <1>7. (IF i = 1 THEN nx[s[1]] ELSE f) = IF t = <<>> THEN NULL ELSE t[1]
    <2>1. CASE i = 1
      <3>1. nx[s[1]] = IF 1 = Len(s) THEN NULL ELSE s[1 + 1]
        BY <1>1, <1>2, <2>1
      <3>2. t # <<>> => 1 \in 1 .. Len(t) /\ t[1] = s[1 + 1]
        BY <1>2, <1>3, <2>1
      <3>. QED
        BY <1>1, <1>2, <1>3, <2>1, <3>1, <3>2
    <2>2. CASE i # 1
      <3>1. 1 \in 1 .. Len(t) /\ 1 < i
        BY <1>1, <1>2, <2>2
      <3>. QED
        BY <1>1, <1>2, <1>3, <2>2, <3>1
    <2>. QED
      BY <2>1, <2>2
  <1>8. (IF i # Len(s) THEN l ELSE IF i = 1 THEN NULL ELSE s[i - 1])
          = IF t = <<>> THEN NULL ELSE t[Len(t)]
    <2>1. CASE i # Len(s)
      <3>1. Len(t) \in 1 .. Len(t) /\ ~(Len(t) < i) /\ Len(t) + 1 = Len(s)
        BY <1>1, <1>2, <1>3, <2>1
      <3>. QED
        BY <1>1, <1>2, <1>3, <2>1, <3>1
    <2>2. CASE i = Len(s) /\ i = 1
      BY <1>2, <1>3, <2>2
    <2>3. CASE i = Len(s) /\ i # 1
      <3>1. Len(t) \in 1 .. Len(t) /\ Len(t) < i /\ Len(t) = i - 1
        BY <1>1, <1>2, <1>3, <2>3
      <3>. QED
        BY <1>2, <1>3, <2>3, <3>1
    <2>. QED
      BY <2>1, <2>2, <2>3
  <1>. QED
    BY <1>2, <1>5, <1>6, <1>7, <1>8 DEF Linked

\* The end l of s leads to the start g of t.
Bridges(s, t, l, g, nx, ny) ==
  /\ ny[l] = g
  /\ \A i \in 1 .. Len(s) : i # Len(s) => ny[s[i]] = nx[s[i]]
  /\ \A j \in 1 .. Len(t) : ny[t[j]] = nx[t[j]]

\* monikor_metric_list_concat, of two lists that have nodes.
LEMMA LinkedConcat ==
  ASSUME NEW s, NEW f, NEW l, NEW nx, Linked(s, f, l, nx),
         NEW t, NEW g, NEW m, Linked(t, g, m, nx), s # <<>>, t # <<>>,
         \A i \in 1 .. Len(s) : \A j \in 1 .. Len(t) : s[i] # t[j],
         NEW ny, Bridges(s, t, l, g, nx, ny)
  PROVE  Linked(s \o t, f, m, ny)
  <1>. DEFINE c == s \o t
              L == Len(s)
              M == Len(t)
  <1>0. /\ ny[l] = g
        /\ \A i \in 1 .. Len(s) : i # Len(s) => ny[s[i]] = nx[s[i]]
        /\ \A j \in 1 .. Len(t) : ny[t[j]] = nx[t[j]]
    BY DEF Bridges
  <1>1. /\ s \in Seq(Nodes) /\ Distinct(s) /\ f = s[1] /\ l = s[L]
        /\ 1 \in 1 .. L /\ L \in 1 .. L /\ L \in Nat
        /\ \A i \in 1 .. L : nx[s[i]] = IF i = L THEN NULL ELSE s[i + 1]
    BY LinkedFacts
  <1>2. /\ t \in Seq(Nodes) /\ Distinct(t) /\ g = t[1] /\ m = t[M]
        /\ 1 \in 1 .. M /\ M \in 1 .. M /\ M \in Nat
        /\ \A i \in 1 .. M : nx[t[i]] = IF i = M THEN NULL ELSE t[i + 1]
    BY LinkedFacts
  <1>3. c \in Seq(Nodes) /\ Len(c) = L + M
    BY <1>1, <1>2
  <1>4. \A k \in 1 .. L + M : c[k] = IF k <= L THEN s[k] ELSE t[k - L]
    BY <1>1, <1>2
  <1>5. L = Len(s) /\ M = Len(t)
    OBVIOUS
  <1>. HIDE DEF c, L, M
  <1>6. \A k \in 1 .. L + M : IF k <= L THEN k \in 1 .. L ELSE k - L \in 1 .. M
    BY <1>1, <1>2
  <1>7. Distinct(c)
    <2>. SUFFICES ASSUME NEW i \in 1 .. Len(c), NEW j \in 1 .. Len(c), c[i] = c[j]
                  PROVE  i = j
      BY DEF Distinct
    <2>1. i \in 1 .. L + M /\ j \in 1 .. L + M /\ i \in Nat /\ j \in Nat
      BY <1>1, <1>2, <1>3
    <2>2. CASE i <= L /\ j <= L
      BY <1>1, <1>4, <1>5, <1>6, <2>1, <2>2 DEF Distinct
    <2>3. CASE ~(i <= L) /\ ~(j <= L)
      <3>1. i - L \in 1 .. M /\ j - L \in 1 .. M /\ t[i - L] = t[j - L]
        BY <1>4, <1>6, <2>1, <2>3
      <3>2. i - L = j - L
        BY <1>2, <1>5, <3>1 DEF Distinct
      <3>. QED
        BY <1>1, <2>1, <3>2
    <2>4. CASE i <= L /\ ~(j <= L)
      <3>1. i \in 1 .. L /\ j - L \in 1 .. M /\ c[i] = s[i] /\ c[j] = t[j - L]
        BY <1>4, <1>6, <2>1, <2>4
      <3>. QED
        BY <1>5, <3>1
    <2>5. CASE ~(i <= L) /\ j <= L
      <3>1. j \in 1 .. L /\ i - L \in 1 .. M /\ c[j] = s[j] /\ c[i] = t[i - L]
        BY <1>4, <1>6, <2>1, <2>5
      <3>. QED
        BY <1>5, <3>1
    <2>. QED
      BY <2>2, <2>3, <2>4, <2>5
  <1>8. ASSUME NEW k \in 1 .. Len(c)
        PROVE  ny[c[k]] = IF k = Len(c) THEN NULL ELSE c[k + 1]
    <2>1. k \in 1 .. L + M /\ k \in Nat
      BY <1>1, <1>2, <1>3
    <2>2. CASE k < L
      <3>1. /\ k \in 1 .. L /\ k # L /\ k + 1 \in 1 .. L + M /\ k + 1 <= L
            /\ k <= L /\ k # L + M
        BY <1>1, <1>2, <2>1, <2>2
      <3>2. c[k] = s[k] /\ c[k + 1] = s[k + 1]
        BY <1>4, <2>1, <3>1
      <3>3. ny[s[k]] = s[k + 1]
        BY <1>0, <1>1, <1>5, <3>1
      <3>. QED
        BY <1>3, <3>1, <3>2, <3>3
    <2>3. CASE k = L
      <3>1. /\ k <= L /\ k + 1 \in 1 .. L + M /\ ~(k + 1 <= L) /\ (k + 1) - L = 1
            /\ k # L + M
        BY <1>1, <1>2, <2>1, <2>3
      <3>2. c[k] = l /\ c[k + 1] = t[1]
        BY <1>1, <1>4, <2>1, <2>3, <3>1
      <3>. QED
        BY <1>0, <1>2, <1>3, <3>1, <3>2
    <2>4. CASE k > L
      <3>. DEFINE j == k - L
      <3>1. /\ j \in 1 .. M /\ ~(k <= L) /\ (k = L + M <=> j = M)
        BY <1>1, <1>2, <2>1, <2>4
      <3>2. c[k] = t[j] /\ ny[t[j]] = IF j = M THEN NULL ELSE t[j + 1]
        BY <1>0, <1>2, <1>4, <1>5, <2>1, <3>1
      <3>3. k # L + M => k + 1 \in 1 .. L + M /\ ~(k + 1 <= L) /\ (k + 1) - L = j + 1
        BY <1>1, <1>2, <2>1, <2>4
      <3>4. k # L + M => c[k + 1] = t[j + 1]
        BY <1>4, <3>3
      <3>. QED
        BY <1>3, <3>1, <3>2, <3>4
    <2>. QED
      BY <1>1, <2>1, <2>2, <2>3, <2>4
  <1>9. c # <<>> /\ c[1] = f /\ c[Len(c)] = m
    <2>1. /\ 1 \in 1 .. L + M /\ 1 <= L /\ L + M \in 1 .. L + M /\ ~(L + M <= L)
          /\ (L + M) - L = M /\ L + M # 0
      BY <1>1, <1>2
    <2>2. c[1] = s[1] /\ c[L + M] = t[M]
      BY <1>4, <2>1
    <2>. QED
      BY <1>1, <1>2, <1>3, <2>1, <2>2
  <1>10. Linked(c, f, m, ny)
    BY <1>3, <1>7, <1>8, <1>9 DEF Linked
  <1>. QED
    BY <1>10 DEF c

\* The nodes of the front and of any place are left out so.
LEMMA TailIs ==
  ASSUME NEW s \in Seq(Nodes), s # <<>>
  PROVE  Without(Tail(s), s, 1)
  BY DEF Without

LEMMA RemoveAtIs ==
  ASSUME NEW s \in Seq(Nodes), NEW i \in 1 .. Len(s)
  PROVE  Without(RemoveAt(s, i), s, i)
  <1>. DEFINE a == SubSeq(s, 1, i - 1)
              b == SubSeq(s, i + 1, Len(s))
  <1>1. /\ a \in Seq(Nodes) /\ Len(a) = i - 1
        /\ \A k \in 1 .. i - 1 : a[k] = s[k]
    OBVIOUS
  <1>2. /\ b \in Seq(Nodes) /\ Len(b) = Len(s) - i
        /\ \A k \in 1 .. Len(s) - i : b[k] = s[i + k]
    OBVIOUS
  <1>. HIDE DEF a, b
  <1>3. a \o b \in Seq(Nodes) /\ Len(a \o b) = Len(s) - 1
    <2>1. a \in Seq(Nodes) /\ b \in Seq(Nodes)
      BY <1>1, <1>2
    <2>2. a \o b \in Seq(Nodes) /\ Len(a \o b) = Len(a) + Len(b)
      BY ONLY <2>1, ConcatProperties
    <2>. QED
      BY <1>1, <1>2, <2>2
  <1>4. ASSUME NEW k \in 1 .. Len(s) - 1
        PROVE  (a \o b)[k] = IF k < i THEN s[k] ELSE s[k + 1]
    <2>1. CASE k < i
      BY <1>1, <1>2, <2>1
    <2>2. CASE ~(k < i)
      <3>1. (a \o b)[k] = b[k - (i - 1)]
        BY <1>1, <1>2, <2>2
      <3>. QED
        BY <1>2, <2>2, <3>1
    <2>. QED
      BY <2>1, <2>2
  <1>. QED
    BY <1>3, <1>4 DEF RemoveAt, a, b, Without

-----------------------------------------------------------------------------
(* The invariant *)

\* A list whose nodes are s.
IsList(s, f, l, z, b, nx, w) ==
  Linked(s, f, l, nx) /\ z = Len(s) /\ b = WeighsIn(w, s)

\* The sequences c share no node,
Apart(c) ==
  \A l, k \in Lists : l # k =>
    \A i \in 1 .. Len(c[l]) : \A j \in 1 .. Len(c[k]) : c[l][i] # c[k][j]

\* they hold what is allocated,
Held(c) == \A n \in Nodes : n \in allocated <=> \E l \in Lists : \E i \in 1 .. Len(c[l]) : c[l][i] = n

\* and the loop of remove_if is at a node of one of them.
LoopIn(c) ==
  scanned # NULL =>
    \E j \in 1 .. Len(c[scanned]) :
      node = c[scanned][j] /\ prev = IF j = 1 THEN NULL ELSE c[scanned][j - 1]

AllLists(c) ==
  \A l \in Lists : IsList(c[l], first[l], last[l], size[l], data_size[l], next, weight)

Owns(c) == c \in [Lists -> Seq(Nodes)] /\ AllLists(c) /\ Apart(c) /\ Held(c) /\ LoopIn(c)

IInv == TypeOK /\ \E c : Owns(c)

\* The types, except for the bounds that Owns gives.
Shapes ==
  /\ allocated \subseteq Nodes
  /\ next \in [Nodes -> Nodes \union {NULL}]
  /\ weight \in [Nodes -> Weights]
  /\ first \in [Lists -> Nodes \union {NULL}]
  /\ last \in [Lists -> Nodes \union {NULL}]
  /\ size = [l \in Lists |-> size[l]]
  /\ data_size = [l \in Lists |-> data_size[l]]
  /\ scanned \in Lists \union {NULL}
  /\ node \in Nodes \union {NULL}
  /\ prev \in Nodes \union {NULL}

LEMMA WeightsAreNat ==
  ASSUME weight \in [Nodes -> Weights]
  PROVE  weight \in [Nodes -> Nat]
  BY MetricListAssumption

\* What is known of the nodes of a list.
LEMMA IsListFacts ==
  ASSUME NEW w \in [Nodes -> Nat], NEW s, NEW f, NEW l, NEW z, NEW b, NEW nx,
         IsList(s, f, l, z, b, nx, w)
  PROVE  z \in 0 .. Cardinality(Nodes) /\ b \in Nat
  <1>1. s \in Seq(Nodes) /\ Distinct(s) /\ z = Len(s) /\ b = WeighsIn(w, s)
    BY DEF IsList, Linked
  <1>2. Len(s) \in Nat /\ Len(s) <= Cardinality(Nodes) /\ Cardinality(Nodes) \in Nat
    BY <1>1, DistinctFits
  <1>3. WeighsIn(w, s) \in Nat
    BY <1>1, SumFacts
  <1>. QED
    BY <1>1, <1>2, <1>3

LEMMA TypesFollow ==
  ASSUME Shapes, NEW c, Owns(c)
  PROVE  IInv
  <1>1. weight \in [Nodes -> Nat]
    BY WeightsAreNat DEF Shapes
  <1>2. \A l \in Lists : IsList(c[l], first[l], last[l], size[l], data_size[l], next, weight)
    BY DEF Owns, AllLists
  <1>3. \A l \in Lists : size[l] \in 0 .. Cardinality(Nodes) /\ data_size[l] \in Nat
    BY <1>1, <1>2, IsListFacts
  <1>4. TypeOK
    BY <1>3 DEF TypeOK, Shapes
  <1>. QED
    BY <1>4 DEF IInv

\* The nodes of s lead where they did, and weigh what they did.
SameNodes(s, nx, w, ny, v) ==
  \A i \in 1 .. Len(s) : ny[s[i]] = nx[s[i]] /\ v[s[i]] = w[s[i]]

\* A list whose nodes a step leaves alone.
LEMMA IsListElsewhere ==
  ASSUME NEW w \in [Nodes -> Nat], NEW v \in [Nodes -> Nat],
         NEW s, NEW f, NEW l, NEW z, NEW b, NEW nx, IsList(s, f, l, z, b, nx, w), NEW ny,
         SameNodes(s, nx, w, ny, v)
  PROVE  IsList(s, f, l, z, b, ny, v)
  <1>1. /\ s \in Seq(Nodes) /\ Linked(s, f, l, nx) /\ z = Len(s) /\ b = WeighsIn(w, s)
        /\ \A i \in 1 .. Len(s) : ny[s[i]] = nx[s[i]] /\ v[s[i]] = w[s[i]]
    BY DEF IsList, Linked, SameNodes
  <1>2. Linked(s, f, l, ny)
    BY ONLY <1>1, LinkedElsewhere, SMTT(20)
  <1>3. WeighsIn(v, s) = WeighsIn(w, s)
    BY <1>1, WeighsSame
  <1>. QED
    BY <1>1, <1>2, <1>3 DEF IsList

\* A list that has no node.
LEMMA IsListEmpty ==
  ASSUME NEW w \in [Nodes -> Nat], NEW nx
  PROVE  IsList(<<>>, NULL, NULL, 0, 0, nx, w)
  <1>1. <<>> \in Seq(Nodes) /\ Len(<<>>) = 0 /\ Distinct(<<>>)
    BY DEF Distinct
  <1>2. Linked(<<>>, NULL, NULL, nx)
    BY <1>1 DEF Linked
  <1>3. WeighsIn(w, <<>>) = 0
    BY <1>1, SumFacts DEF WeighsIn
  <1>. QED
    BY <1>1, <1>2, <1>3 DEF IsList

\* A step of Queues from c to d, or none.
Moves(c, d) ==
  \/ d = c
  \/ \E l \in Lists, n \in Nodes : /\ \A k \in Lists : n \notin Range(c[k])
                                   /\ d = [c EXCEPT ![l] = Append(@, n)]
  \/ \E l \in Lists : c[l] # <<>> /\ d = [c EXCEPT ![l] = Tail(@)]
  \/ \E h, t \in Lists : h # t /\ d = [c EXCEPT ![h] = c[h] \o c[t], ![t] = <<>>]
  \/ \E l \in Lists : \E i \in DOMAIN c[l] : d = [c EXCEPT ![l] = RemoveAt(@, i)]
  \/ \E l \in Lists : d = [c EXCEPT ![l] = <<>>]

\* What c owns, list by list.
LEMMA OwnsFacts ==
  ASSUME TypeOK, NEW c, Owns(c), NEW l \in Lists
  PROVE  /\ weight \in [Nodes -> Nat]
         /\ c \in [Lists -> Seq(Nodes)] /\ c[l] \in Seq(Nodes) /\ Len(c[l]) \in Nat
         /\ c[l] = <<>> <=> Len(c[l]) = 0
         /\ IsList(c[l], first[l], last[l], size[l], data_size[l], next, weight)
         /\ Linked(c[l], first[l], last[l], next)
         /\ size[l] = Len(c[l]) /\ data_size[l] = WeighsIn(weight, c[l])
         /\ \A i \in 1 .. Len(c[l]) : c[l][i] \in allocated /\ c[l][i] \in Nodes /\ c[l][i] # NULL
         /\ c[l] = <<>> <=> first[l] = NULL
         /\ c[l] # <<>> => /\ 1 \in 1 .. Len(c[l]) /\ Len(c[l]) \in 1 .. Len(c[l])
                           /\ first[l] = c[l][1] /\ last[l] = c[l][Len(c[l])]
         /\ c[l] = <<>> => last[l] = NULL
  <1>1. weight \in [Nodes -> Nat]
    BY WeightsAreNat DEF TypeOK
  <1>2. /\ c \in [Lists -> Seq(Nodes)]
        /\ IsList(c[l], first[l], last[l], size[l], data_size[l], next, weight)
    BY DEF Owns, AllLists
  <1>3. /\ Linked(c[l], first[l], last[l], next)
        /\ size[l] = Len(c[l]) /\ data_size[l] = WeighsIn(weight, c[l])
    BY <1>2 DEF IsList
  <1>4. /\ c[l] \in Seq(Nodes) /\ Len(c[l]) \in Nat
        /\ c[l] = <<>> <=> Len(c[l]) = 0
        /\ c[l] = <<>> <=> first[l] = NULL
        /\ \A i \in 1 .. Len(c[l]) : c[l][i] \in Nodes /\ c[l][i] # NULL
        /\ c[l] # <<>> => /\ first[l] = c[l][1] /\ last[l] = c[l][Len(c[l])]
                          /\ 1 \in 1 .. Len(c[l]) /\ Len(c[l]) \in 1 .. Len(c[l])
        /\ c[l] = <<>> => last[l] = NULL
    BY <1>3, LinkedFacts
  <1>5. \A i \in 1 .. Len(c[l]) : c[l][i] \in allocated
    BY <1>4 DEF Owns, Held
  <1>. QED
    BY <1>1, <1>2, <1>3, <1>4, <1>5

LEMMA PushOwns ==
  ASSUME TypeOK, NEW c, Owns(c), NEW l \in Lists, NEW n \in Nodes, NEW w \in Weights,
         Push(l, n, w)
  PROVE  Shapes' /\ \E d : Owns(d)' /\ Moves(c, d)
  <1>. DEFINE s == c[l]
              d == [c EXCEPT ![l] = Append(s, n)]
  <1>1. /\ weight \in [Nodes -> Nat] /\ c \in [Lists -> Seq(Nodes)]
        /\ s \in Seq(Nodes) /\ Len(s) \in Nat /\ size[l] = Len(s)
        /\ s = <<>> <=> Len(s) = 0
        /\ Linked(s, first[l], last[l], next) /\ data_size[l] = WeighsIn(weight, s)
    BY OwnsFacts
  <1>2. /\ scanned = NULL /\ n \notin allocated
        /\ allocated' = allocated \union {n}
        /\ weight' = [weight EXCEPT ![n] = w]
        /\ next' = IF size[l] = 0
                   THEN [next EXCEPT ![n] = NULL]
                   ELSE [next EXCEPT ![n] = NULL, ![last[l]] = n]
        /\ first' = IF size[l] = 0 THEN [first EXCEPT ![l] = n] ELSE first
        /\ last' = [last EXCEPT ![l] = n]
        /\ size' = [size EXCEPT ![l] = @ + 1]
        /\ data_size' = [data_size EXCEPT ![l] = @ + w]
        /\ scanned' = scanned /\ node' = node /\ prev' = prev
    BY DEF Push, Free, Idle, loop
  <1>3. Shapes'
    BY <1>2 DEF Shapes, TypeOK
  <1>4. weight' \in [Nodes -> Nat] /\ weight'[n] = w /\ w \in Nat
    BY <1>1, <1>2, MetricListAssumption
  <1>5. /\ \A k \in Lists : \A i \in 1 .. Len(c[k]) :
              c[k][i] \in allocated /\ c[k][i] \in Nodes /\ c[k][i] # n
        /\ s # <<>> => /\ last[l] = s[Len(s)] /\ last[l] \in Nodes /\ last[l] # n
                       /\ Len(s) \in 1 .. Len(s)
    BY <1>2, OwnsFacts
  <1>6. \A k \in Lists : \A i \in 1 .. Len(c[k]) : weight'[c[k][i]] = weight[c[k][i]]
    BY <1>1, <1>2, <1>5
  <1>7. /\ next'[n] = NULL
        /\ s # <<>> => next'[last[l]] = n
        /\ \A x \in Nodes : x # n /\ (s = <<>> \/ x # last[l]) => next'[x] = next[x]
    <2>1. next \in [Nodes -> Nodes \union {NULL}]
      BY DEF TypeOK
    <2>. QED
      BY <1>1, <1>2, <1>5, <2>1
  <1>8. IsList(Append(s, n), IF s = <<>> THEN n ELSE first[l], n, size[l] + 1,
               data_size[l] + w, next', weight')
    <2>1. \A i \in 1 .. Len(s) : i # Len(s) => next'[s[i]] = next[s[i]]
      <3>1. Distinct(s)
        BY <1>1 DEF Linked
      <3>2. \A i \in 1 .. Len(s) : i # Len(s) => s[i] # s[Len(s)] /\ s # <<>>
        BY <1>1, <3>1 DEF Distinct
      <3>. QED
        BY <1>5, <1>7, <3>2
    <2>2. \A i \in 1 .. Len(s) : s[i] # n
      BY <1>5
    <2>3. Linked(Append(s, n), IF s = <<>> THEN n ELSE first[l], n, next')
      <3>. HIDE DEF s
      <3>. QED
        BY <1>1, <1>7, <2>1, <2>2, LinkedAppend
    <2>4. WeighsIn(weight', Append(s, n)) = WeighsIn(weight, s) + w
      <3>1. \A i \in 1 .. Len(s) : weight'[s[i]] = weight[s[i]]
        BY <1>6
      <3>. HIDE DEF s
      <3>. QED
        BY <1>1, <1>4, <3>1, WeighsAppend
    <2>5. Len(Append(s, n)) = Len(s) + 1
      BY <1>1
    <2>. QED
      BY <1>1, <2>3, <2>4, <2>5 DEF IsList
  <1>9. ASSUME NEW k \in Lists, k # l
        PROVE  IsList(c[k], first[k], last[k], size[k], data_size[k], next', weight')
    <2>1. \A i \in 1 .. Len(c[k]) : s # <<>> => c[k][i] # last[l]
      BY <1>5, <1>9 DEF Owns, Apart
    <2>2. SameNodes(c[k], next, weight, next', weight')
      BY <1>5, <1>6, <1>7, <2>1 DEF SameNodes
    <2>3. IsList(c[k], first[k], last[k], size[k], data_size[k], next, weight)
      BY OwnsFacts
    <2>. QED
      BY <1>1, <1>4, <2>2, <2>3, IsListElsewhere
  <1>10. PICK e : e = d
    OBVIOUS
  <1>11. /\ e \in [Lists -> Seq(Nodes)] /\ e[l] = Append(s, n)
         /\ \A k \in Lists : k # l => e[k] = c[k]
    BY <1>1, <1>10
  <1>12. /\ Len(e[l]) = Len(s) + 1 /\ e[l][Len(s) + 1] = n
         /\ \A i \in 1 .. Len(s) : e[l][i] = s[i]
         /\ \A i \in 1 .. Len(e[l]) : i \in 1 .. Len(s) \/ e[l][i] = n
         /\ Len(s) + 1 \in 1 .. Len(e[l])
    BY <1>1, <1>11
  <1>13. AllLists(e)'
    <2>1. ASSUME NEW k \in Lists
          PROVE  IsList(e[k], first'[k], last'[k], size'[k], data_size'[k], next', weight')
      <3>1. CASE k = l
        <4>1. /\ first'[l] = IF s = <<>> THEN n ELSE first[l]
              /\ last'[l] = n /\ size'[l] = size[l] + 1 /\ data_size'[l] = data_size[l] + w
          BY <1>1, <1>2 DEF TypeOK
        <4>. QED
          BY <1>8, <1>11, <3>1, <4>1
      <3>2. CASE k # l
        <4>1. /\ first'[k] = first[k] /\ last'[k] = last[k]
              /\ size'[k] = size[k] /\ data_size'[k] = data_size[k]
          BY <1>2, <3>2 DEF TypeOK
        <4>. QED
          BY <1>9, <1>11, <3>2, <4>1
      <3>. QED
        BY <3>1, <3>2
    <2>. QED
      BY <2>1 DEF AllLists
  <1>14. \A k \in Lists : \A i \in 1 .. Len(e[k]) :
           (k = l /\ e[k][i] = n) \/ (i \in 1 .. Len(c[k]) /\ e[k][i] = c[k][i])
    BY <1>11, <1>12
  <1>15. Apart(e)'
    <2>. SUFFICES ASSUME NEW k \in Lists, NEW m \in Lists, k # m,
                         NEW i \in 1 .. Len(e[k]), NEW j \in 1 .. Len(e[m])
                  PROVE  e[k][i] # e[m][j]
      BY DEF Apart
    <2>1. CASE i \in 1 .. Len(c[k]) /\ e[k][i] = c[k][i] /\ j \in 1 .. Len(c[m]) /\ e[m][j] = c[m][j]
      BY <2>1 DEF Owns, Apart
    <2>2. CASE k = l /\ e[k][i] = n
      BY <1>5, <1>14, <2>2
    <2>3. CASE m = l /\ e[m][j] = n
      BY <1>5, <1>14, <2>3
    <2>. QED
      BY <1>14, <2>1, <2>2, <2>3
  <1>16. Held(e)'
    <2>1. ASSUME NEW x \in Nodes, NEW k \in Lists, NEW i \in 1 .. Len(c[k]), c[k][i] = x
          PROVE  \E j \in 1 .. Len(e[k]) : e[k][j] = x
      <3>1. CASE k = l
        <4>1. i \in 1 .. Len(s) /\ s[i] = x
          BY <2>1, <3>1
        <4>2. i \in 1 .. Len(e[l]) /\ e[l][i] = x
          <5>1. i \in 1 .. Len(s) + 1
            BY <1>1, <4>1
          <5>. QED
            BY <1>12, <4>1, <5>1
        <4>. QED
          BY <3>1, <4>2
      <3>2. CASE k # l
        BY <1>11, <2>1, <3>2
      <3>. QED
        BY <3>1, <3>2
    <2>2. \A x \in allocated : \E k \in Lists : \E i \in 1 .. Len(c[k]) : c[k][i] = x
      BY DEF Owns, Held, TypeOK
    <2>3. \A x \in allocated' : \E k \in Lists : \E j \in 1 .. Len(e[k]) : e[k][j] = x
      BY <1>2, <1>12, <2>1, <2>2 DEF TypeOK
    <2>4. \A k \in Lists : \A j \in 1 .. Len(e[k]) : e[k][j] \in allocated'
      BY <1>2, <1>5, <1>14
    <2>. QED
      BY <2>3, <2>4 DEF Held
  <1>17. LoopIn(e)'
    BY <1>2 DEF LoopIn
  <1>18. Moves(c, e)
    <2>1. \A k \in Lists : n \notin Range(c[k])
      <3>. SUFFICES ASSUME NEW k \in Lists PROVE n \notin Range(c[k])
        OBVIOUS
      <3>1. c[k] \in Seq(Nodes)
        BY OwnsFacts
      <3>2. DOMAIN c[k] = 1 .. Len(c[k])
        BY <3>1
      <3>. QED
        BY <1>5, <3>2 DEF Range
    <2>. QED
      BY <1>10, <2>1 DEF Moves
  <1>. QED
    BY <1>3, <1>11, <1>13, <1>15, <1>16, <1>17, <1>18 DEF Owns

\* The step that unlinks and frees node i of list l, whose nodes are s.
Unlinks(l, s, i) ==
  /\ next' = IF i = 1 THEN next ELSE [next EXCEPT ![s[i - 1]] = next[s[i]]]
  /\ first' = IF i = 1 THEN [first EXCEPT ![l] = next[s[i]]] ELSE first
  /\ last' = IF i # Len(s) THEN last
             ELSE [last EXCEPT ![l] = IF i = 1 THEN NULL ELSE s[i - 1]]
  /\ size' = [size EXCEPT ![l] = @ - 1]
  /\ data_size' = [data_size EXCEPT ![l] = @ - weight[s[i]]]
  /\ allocated' = allocated \ {s[i]}
  /\ weight' = weight

LEMMA UnlinkOwns ==
  ASSUME TypeOK, NEW c, Owns(c), NEW l \in Lists, NEW i \in 1 .. Len(c[l]),
         Unlinks(l, c[l], i), NEW t, Without(t, c[l], i)
  PROVE  \A d : d = [c EXCEPT ![l] = t] =>
           d \in [Lists -> Seq(Nodes)] /\ AllLists(d)' /\ Apart(d)' /\ Held(d)'
  <1>. SUFFICES ASSUME NEW d, d = [c EXCEPT ![l] = t]
                PROVE  d \in [Lists -> Seq(Nodes)] /\ AllLists(d)' /\ Apart(d)' /\ Held(d)'
    OBVIOUS
  <1>. DEFINE s == c[l]
  <1>1. /\ weight \in [Nodes -> Nat] /\ c \in [Lists -> Seq(Nodes)]
        /\ s \in Seq(Nodes) /\ Len(s) \in Nat /\ size[l] = Len(s)
        /\ Linked(s, first[l], last[l], next) /\ data_size[l] = WeighsIn(weight, s)
    BY OwnsFacts
  <1>2. Distinct(s) /\ Without(t, s, i)
    BY <1>1 DEF Linked
  <1>3. /\ t \in Seq(Nodes) /\ i \in 1 .. Len(s) /\ Len(t) = Len(s) - 1 /\ Len(t) \in Nat
        /\ \A k \in 1 .. Len(t) : t[k] = IF k < i THEN s[k] ELSE s[k + 1]
    BY <1>1, <1>2 DEF Without
  <1>4. /\ d \in [Lists -> Seq(Nodes)] /\ d[l] = t
        /\ \A k \in Lists : k # l => d[k] = c[k]
    BY <1>1, <1>3
  <1>5. /\ next' = IF i = 1 THEN next ELSE [next EXCEPT ![s[i - 1]] = next[s[i]]]
        /\ first' = IF i = 1 THEN [first EXCEPT ![l] = next[s[i]]] ELSE first
        /\ last' = IF i # Len(s) THEN last
                   ELSE [last EXCEPT ![l] = IF i = 1 THEN NULL ELSE s[i - 1]]
        /\ size' = [size EXCEPT ![l] = @ - 1]
        /\ data_size' = [data_size EXCEPT ![l] = @ - weight[s[i]]]
        /\ allocated' = allocated \ {s[i]}
        /\ weight' = weight
    BY DEF Unlinks
  <1>6. /\ \A k \in Lists : \A j \in 1 .. Len(c[k]) : c[k][j] \in allocated /\ c[k][j] \in Nodes
        /\ \A k \in Lists : k # l => \A j \in 1 .. Len(c[k]) : \A m \in 1 .. Len(s) : c[k][j] # s[m]
    <2>1. \A k \in Lists : \A j \in 1 .. Len(c[k]) : c[k][j] \in allocated /\ c[k][j] \in Nodes
      BY OwnsFacts
    <2>. QED
      BY <2>1 DEF Owns, Apart
  <1>7. i # 1 => i - 1 \in 1 .. Len(s) /\ s[i - 1] \in Nodes
    BY <1>1, <1>3
  <1>8. /\ i # 1 => next'[s[i - 1]] = next[s[i]]
        /\ \A x \in Nodes : i = 1 \/ x # s[i - 1] => next'[x] = next[x]
    BY <1>5, <1>7 DEF TypeOK
  <1>. HIDE DEF s
  <1>9. IsList(t, first'[l], last'[l], size'[l], data_size'[l], next', weight')
    <2>1. \A k \in 1 .. Len(s) : k # i /\ k # i - 1 => next'[s[k]] = next[s[k]]
      <3>1. \A k \in 1 .. Len(s) : i # 1 /\ k # i - 1 => s[k] # s[i - 1]
        BY <1>2, <1>7 DEF Distinct
      <3>2. \A k \in 1 .. Len(s) : s[k] \in Nodes
        BY <1>1
      <3>. QED
        BY <1>8, <3>1, <3>2
    <2>2. Linked(t, IF i = 1 THEN next[s[1]] ELSE first[l],
                 IF i # Len(s) THEN last[l] ELSE IF i = 1 THEN NULL ELSE s[i - 1], next')
      <3>1. Skips(s, i, next, next')
        BY <1>8, <2>1 DEF Skips
      <3>. QED
        BY <1>1, <1>2, <3>1, LinkedWithout
    <2>3. /\ first'[l] = IF i = 1 THEN next[s[1]] ELSE first[l]
          /\ last'[l] = IF i # Len(s) THEN last[l] ELSE IF i = 1 THEN NULL ELSE s[i - 1]
          /\ size'[l] = size[l] - 1 /\ data_size'[l] = data_size[l] - weight[s[i]]
      BY <1>5 DEF TypeOK
    <2>4. WeighsIn(weight, t) = WeighsIn(weight, s) - weight[s[i]]
      BY <1>1, <1>2, WeighsWithout
    <2>. QED
      BY <1>1, <1>3, <1>5, <2>2, <2>3, <2>4 DEF IsList
  <1>10. ASSUME NEW k \in Lists, k # l
         PROVE  IsList(c[k], first'[k], last'[k], size'[k], data_size'[k], next', weight')
    <2>1. SameNodes(c[k], next, weight, next', weight')
      BY <1>5, <1>6, <1>7, <1>8, <1>10 DEF SameNodes
    <2>2. IsList(c[k], first[k], last[k], size[k], data_size[k], next, weight)
      BY OwnsFacts
    <2>3. IsList(c[k], first[k], last[k], size[k], data_size[k], next', weight')
      BY <1>1, <1>5, <2>1, <2>2, IsListElsewhere
    <2>4. /\ first'[k] = first[k] /\ last'[k] = last[k]
          /\ size'[k] = size[k] /\ data_size'[k] = data_size[k]
      BY <1>5, <1>10 DEF TypeOK
    <2>. QED
      BY <2>3, <2>4
  <1>11. AllLists(d)'
    BY <1>4, <1>9, <1>10 DEF AllLists
  <1>12. \A j \in 1 .. Len(t) : \E m \in 1 .. Len(s) : m # i /\ t[j] = s[m]
    <2>1. ASSUME NEW j \in 1 .. Len(t)
          PROVE  /\ j < i => j \in 1 .. Len(s) /\ j # i
                 /\ ~(j < i) => j + 1 \in 1 .. Len(s) /\ j + 1 # i
      <3>1. PICK a, b, x \in Nat : a = Len(s) /\ b = Len(t) /\ x = i
        BY <1>1, <1>3
      <3>2. b = a - 1 /\ x \in 1 .. a /\ j \in 1 .. b
        BY <1>3, <3>1
      <3>3. /\ j < x => j \in 1 .. a /\ j # x
            /\ ~(j < x) => j + 1 \in 1 .. a /\ j + 1 # x
        BY ONLY <3>2, a \in Nat, b \in Nat, x \in Nat
      <3>. QED
        BY <3>1, <3>3
    <2>. QED
      BY <1>3, <2>1
  <1>13. \A m \in 1 .. Len(s) : m # i => \E j \in 1 .. Len(t) : t[j] = s[m]
    <2>. SUFFICES ASSUME NEW m \in 1 .. Len(s), m # i PROVE \E j \in 1 .. Len(t) : t[j] = s[m]
      OBVIOUS
    <2>1. CASE m < i
      <3>1. m \in 1 .. Len(s)
        OBVIOUS
      <3>2. m \in 1 .. Len(t)
        BY ONLY <1>1, <1>3, <2>1, <3>1
      <3>3. t[m] = s[m]
        BY <1>3, <2>1, <3>2
      <3>. QED
        BY <3>2, <3>3
    <2>2. CASE m > i
      <3>1. m - 1 \in 1 .. Len(t) /\ ~(m - 1 < i) /\ (m - 1) + 1 = m
        BY <1>1, <1>3, <2>2
      <3>2. t[m - 1] = s[m]
        BY <1>3, <3>1
      <3>. QED
        BY <3>1, <3>2
    <2>. QED
      BY <1>1, <1>3, <2>1, <2>2
  <1>14. Apart(d)'
    <2>1. \A k \in Lists : \A j \in 1 .. Len(d[k]) : \E m \in 1 .. Len(c[k]) : d[k][j] = c[k][m]
      BY <1>4, <1>12 DEF s
    <2>. QED
      BY <2>1 DEF Owns, Apart
  <1>15. Held(d)'
    <2>1. \A k \in Lists : \A j \in 1 .. Len(d[k]) : d[k][j] \in allocated'
      <3>1. \A j \in 1 .. Len(t) : t[j] # s[i] /\ t[j] \in allocated
        BY <1>2, <1>3, <1>6, <1>12 DEF Distinct, s
      <3>2. \A k \in Lists : k # l => \A j \in 1 .. Len(c[k]) : c[k][j] # s[i] /\ c[k][j] \in allocated
        BY <1>3, <1>6
      <3>. QED
        BY <1>4, <1>5, <3>1, <3>2
    <2>2. \A x \in allocated : \E k \in Lists : \E j \in 1 .. Len(c[k]) : c[k][j] = x
      BY DEF Owns, Held, TypeOK
    <2>3. ASSUME NEW x \in allocated, x # s[i]
          PROVE  \E k \in Lists : \E j \in 1 .. Len(d[k]) : d[k][j] = x
      <3>1. PICK k \in Lists : \E j \in 1 .. Len(c[k]) : c[k][j] = x
        BY <2>2
      <3>2. PICK j \in 1 .. Len(c[k]) : c[k][j] = x
        BY <3>1
      <3>3. CASE k = l
        <4>1. j \in 1 .. Len(s) /\ j # i /\ s[j] = x
          BY <2>3, <3>2, <3>3 DEF s
        <4>2. \E m \in 1 .. Len(t) : t[m] = x
          BY <1>13, <4>1
        <4>. QED
          BY <1>4, <4>2
      <3>4. CASE k # l
        BY <1>4, <3>2, <3>4
      <3>. QED
        BY <3>3, <3>4
    <2>. QED
      BY <1>5, <2>1, <2>3 DEF Held
  <1>. QED
    BY <1>4, <1>11, <1>14, <1>15

LEMMA PopOwns ==
  ASSUME TypeOK, NEW c, Owns(c), NEW l \in Lists, Pop(l)
  PROVE  Shapes' /\ \E d : Owns(d)' /\ Moves(c, d)
  <1>. DEFINE s == c[l]
  <1>1. /\ scanned = NULL /\ first[l] # NULL
        /\ first' = [first EXCEPT ![l] = next[first[l]]]
        /\ last' = IF first[l] = last[l] THEN [last EXCEPT ![l] = NULL] ELSE last
        /\ size' = [size EXCEPT ![l] = @ - 1]
        /\ data_size' = [data_size EXCEPT ![l] = @ - weight[first[l]]]
        /\ allocated' = allocated \ {first[l]}
        /\ next' = next /\ weight' = weight
        /\ scanned' = scanned /\ node' = node /\ prev' = prev
    BY DEF Pop, Idle, loop
  <1>2. Shapes'
    BY <1>1 DEF Shapes, TypeOK
  <1>3. /\ c \in [Lists -> Seq(Nodes)] /\ s \in Seq(Nodes) /\ s # <<>>
        /\ 1 \in 1 .. Len(s) /\ Len(s) \in 1 .. Len(s)
        /\ first[l] = s[1] /\ last[l] = s[Len(s)] /\ Linked(s, first[l], last[l], next)
    BY <1>1, OwnsFacts
  <1>4. first[l] = last[l] <=> 1 = Len(s)
    BY <1>3 DEF Linked, Distinct
  <1>5. Unlinks(l, s, 1)
    BY <1>1, <1>3, <1>4 DEF Unlinks
  <1>6. Without(Tail(s), s, 1)
    BY <1>3, TailIs
  <1>7. PICK d : d = [c EXCEPT ![l] = Tail(s)]
    OBVIOUS
  <1>8. d \in [Lists -> Seq(Nodes)] /\ AllLists(d)' /\ Apart(d)' /\ Held(d)'
    BY <1>3, <1>5, <1>6, <1>7, UnlinkOwns
  <1>9. LoopIn(d)'
    BY <1>1 DEF LoopIn
  <1>10. Moves(c, d)
    BY <1>3, <1>7 DEF Moves
  <1>. QED
    BY <1>2, <1>8, <1>9, <1>10 DEF Owns

LEMMA BeginOwns ==
  ASSUME TypeOK, NEW c, Owns(c), NEW l \in Lists, RemoveIfBegin(l)
  PROVE  Shapes' /\ \E d : Owns(d)' /\ Moves(c, d)
  <1>1. /\ first[l] # NULL /\ scanned' = l /\ node' = first[l] /\ prev' = NULL
        /\ allocated' = allocated /\ next' = next /\ weight' = weight /\ first' = first
        /\ last' = last /\ size' = size /\ data_size' = data_size
    BY DEF RemoveIfBegin, heap, fields
  <1>2. Shapes'
    BY <1>1 DEF Shapes, TypeOK
  <1>3. 1 \in 1 .. Len(c[l]) /\ first[l] = c[l][1]
    BY <1>1, OwnsFacts
  <1>4. LoopIn(c)'
    BY <1>1, <1>3 DEF LoopIn
  <1>5. Owns(c)'
    BY <1>1, <1>4 DEF Owns, AllLists, Apart, Held
  <1>. QED
    BY <1>2, <1>5 DEF Moves

\* Where the loop of remove_if is.
LEMMA LoopFacts ==
  ASSUME TypeOK, NEW c, Owns(c), ~Idle
  PROVE  /\ scanned \in Lists
         /\ \E j \in 1 .. Len(c[scanned]) :
              /\ node = c[scanned][j]
              /\ prev = IF j = 1 THEN NULL ELSE c[scanned][j - 1]
              /\ next[node] = IF j = Len(c[scanned]) THEN NULL ELSE c[scanned][j + 1]
              /\ node = first[scanned] <=> j = 1
              /\ node = last[scanned] <=> j = Len(c[scanned])
              /\ prev = NULL <=> j = 1
  <1>1. scanned \in Lists /\ scanned # NULL
    BY DEF TypeOK, Idle
  <1>2. PICK j \in 1 .. Len(c[scanned]) :
          /\ node = c[scanned][j]
          /\ prev = IF j = 1 THEN NULL ELSE c[scanned][j - 1]
    BY <1>1 DEF Owns, LoopIn
  <1>. DEFINE s == c[scanned]
  <1>3. /\ s \in Seq(Nodes) /\ Len(s) \in Nat /\ Linked(s, first[scanned], last[scanned], next)
        /\ \A i \in 1 .. Len(s) : s[i] # NULL
        /\ s # <<>> => /\ 1 \in 1 .. Len(s) /\ Len(s) \in 1 .. Len(s)
                       /\ first[scanned] = s[1] /\ last[scanned] = s[Len(s)]
    BY <1>1, OwnsFacts
  <1>4. s # <<>> /\ j \in 1 .. Len(s)
    BY <1>2, <1>3
  <1>. HIDE DEF s
  <1>5. Distinct(s) /\ \A i \in 1 .. Len(s) : next[s[i]] = IF i = Len(s) THEN NULL ELSE s[i + 1]
    BY <1>3 DEF Linked
  <1>6. node = s[j] /\ prev = IF j = 1 THEN NULL ELSE s[j - 1]
    BY <1>2 DEF s
  <1>7. j # 1 => j - 1 \in 1 .. Len(s)
    BY <1>3, <1>4
  <1>8. /\ node = first[scanned] <=> j = 1
        /\ node = last[scanned] <=> j = Len(s)
    BY <1>3, <1>4, <1>5, <1>6 DEF Distinct
  <1>9. prev = NULL <=> j = 1
    BY <1>3, <1>6, <1>7
  <1>10. next[node] = IF j = Len(s) THEN NULL ELSE s[j + 1]
    BY <1>4, <1>5, <1>6
  <1>. QED
    BY <1>1, <1>4, <1>6, <1>8, <1>9, <1>10 DEF s

LEMMA LeavesOwns ==
  ASSUME TypeOK, NEW c, Owns(c), RemoveIfLeaves
  PROVE  Shapes' /\ \E d : Owns(d)' /\ Moves(c, d)
  <1>1. /\ ~Idle /\ prev' = node /\ node' = next[node]
        /\ scanned' = IF next[node] = NULL THEN NULL ELSE scanned
        /\ allocated' = allocated /\ next' = next /\ weight' = weight /\ first' = first
        /\ last' = last /\ size' = size /\ data_size' = data_size
    BY DEF RemoveIfLeaves, Advance, heap, fields
  <1>2. scanned \in Lists
    BY <1>1, LoopFacts
  <1>3. PICK j \in 1 .. Len(c[scanned]) :
          /\ node = c[scanned][j]
          /\ next[node] = IF j = Len(c[scanned]) THEN NULL ELSE c[scanned][j + 1]
    BY <1>1, LoopFacts
  <1>4. /\ Len(c[scanned]) \in Nat
        /\ \A i \in 1 .. Len(c[scanned]) : c[scanned][i] \in Nodes
    BY <1>2, OwnsFacts
  <1>5. Shapes'
    BY <1>1, <1>2, <1>3, <1>4 DEF Shapes, TypeOK
  <1>6. LoopIn(c)'
    <2>1. CASE next[node] = NULL
      BY <1>1, <2>1 DEF LoopIn
    <2>2. CASE next[node] # NULL
      <3>1. j # Len(c[scanned]) /\ node' = c[scanned][j + 1] /\ scanned' = scanned
        BY <1>1, <1>3, <2>2
      <3>2. j + 1 \in 1 .. Len(c[scanned]) /\ j + 1 # 1 /\ (j + 1) - 1 = j
        BY <1>4, <3>1
      <3>3. prev' = IF j + 1 = 1 THEN NULL ELSE c[scanned][(j + 1) - 1]
        BY <1>1, <1>3, <3>2
      <3>. QED
        BY <3>1, <3>2, <3>3 DEF LoopIn
    <2>. QED
      BY <2>1, <2>2
  <1>7. Owns(c)'
    BY <1>1, <1>6 DEF Owns, AllLists, Apart, Held
  <1>. QED
    BY <1>5, <1>7 DEF Moves

LEMMA TakesOwns ==
  ASSUME TypeOK, NEW c, Owns(c), RemoveIfTakes
  PROVE  Shapes' /\ \E d : Owns(d)' /\ Moves(c, d)
  <1>. DEFINE l == scanned
              s == c[scanned]
  <1>1. /\ ~Idle
        /\ next' = IF prev # NULL THEN [next EXCEPT ![prev] = next[node]] ELSE next
        /\ first' = IF node = first[l] THEN [first EXCEPT ![l] = next[node]] ELSE first
        /\ last' = IF node = last[l] THEN [last EXCEPT ![l] = prev] ELSE last
        /\ size' = [size EXCEPT ![l] = @ - 1]
        /\ data_size' = [data_size EXCEPT ![l] = @ - weight[node]]
        /\ allocated' = allocated \ {node}
        /\ node' = next[node]
        /\ scanned' = IF next[node] = NULL THEN NULL ELSE l
        /\ weight' = weight /\ prev' = prev
    BY DEF RemoveIfTakes, Advance
  <1>2. l \in Lists
    BY <1>1, LoopFacts
  <1>3. PICK j \in 1 .. Len(s) :
          /\ node = s[j]
          /\ prev = IF j = 1 THEN NULL ELSE s[j - 1]
          /\ next[node] = IF j = Len(s) THEN NULL ELSE s[j + 1]
          /\ node = first[l] <=> j = 1
          /\ node = last[l] <=> j = Len(s)
          /\ prev = NULL <=> j = 1
    BY <1>1, LoopFacts
  <1>4. /\ c \in [Lists -> Seq(Nodes)] /\ s \in Seq(Nodes) /\ Len(s) \in Nat
        /\ \A i \in 1 .. Len(s) : s[i] \in Nodes
    BY <1>2, OwnsFacts
  <1>5. Shapes'
    BY <1>1, <1>2, <1>3, <1>4 DEF Shapes, TypeOK
  <1>6. Unlinks(l, s, j)
    BY <1>1, <1>3 DEF Unlinks
  <1>7. Without(RemoveAt(s, j), s, j)
    BY <1>4, RemoveAtIs
  <1>8. PICK d : d = [c EXCEPT ![l] = RemoveAt(s, j)]
    OBVIOUS
  <1>9. d \in [Lists -> Seq(Nodes)] /\ AllLists(d)' /\ Apart(d)' /\ Held(d)'
    BY <1>2, <1>6, <1>7, <1>8, UnlinkOwns
  <1>10. LoopIn(d)'
    <2>1. CASE next[node] = NULL
      BY <1>1, <2>1 DEF LoopIn
    <2>2. CASE next[node] # NULL
      <3>1. j # Len(s) /\ node' = s[j + 1] /\ scanned' = scanned
        BY <1>1, <1>3, <2>2
      <3>2. PICK t : t = RemoveAt(s, j)
        OBVIOUS
      <3>3. d[scanned] = t
        BY <1>2, <1>4, <1>8, <3>2
      <3>4. /\ Len(t) = Len(s) - 1
            /\ \A k \in 1 .. Len(t) : t[k] = IF k < j THEN s[k] ELSE s[k + 1]
        BY <1>7, <3>2 DEF Without
      <3>. HIDE DEF s
      <3>5. j \in 1 .. Len(t) /\ ~(j < j) /\ (j # 1 => j - 1 \in 1 .. Len(t) /\ j - 1 < j)
        BY <1>3, <1>4, <3>1, <3>4
      <3>6. t[j] = s[j + 1] /\ (j # 1 => t[j - 1] = s[j - 1])
        BY <3>4, <3>5
      <3>7. node' = t[j] /\ prev' = IF j = 1 THEN NULL ELSE t[j - 1]
        BY <1>1, <1>3, <3>1, <3>6
      <3>. QED
        BY <3>1, <3>3, <3>5, <3>7 DEF LoopIn
    <2>. QED
      BY <2>1, <2>2
  <1>11. Moves(c, d)
    <2>1. j \in DOMAIN c[l]
      BY <1>4
    <2>. QED
      BY <1>2, <1>8, <2>1 DEF Moves
  <1>. QED
    BY <1>5, <1>9, <1>10, <1>11 DEF Owns

LEMMA EmptyOwns ==
  ASSUME TypeOK, NEW c, Owns(c), NEW l \in Lists, Empty(l)
  PROVE  Shapes' /\ \E d : Owns(d)' /\ Moves(c, d)
  <1>1. /\ scanned = NULL
        /\ allocated' = allocated \ Reachable(first[l])
        /\ first' = [first EXCEPT ![l] = NULL]
        /\ last' = [last EXCEPT ![l] = NULL]
        /\ size' = [size EXCEPT ![l] = 0]
        /\ data_size' = [data_size EXCEPT ![l] = 0]
        /\ next' = next /\ weight' = weight
        /\ scanned' = scanned /\ node' = node /\ prev' = prev
    BY DEF Empty, Idle, loop
  <1>2. Shapes'
    BY <1>1 DEF Shapes, TypeOK
  <1>3. /\ weight \in [Nodes -> Nat] /\ c \in [Lists -> Seq(Nodes)]
        /\ c[l] \in Seq(Nodes) /\ Linked(c[l], first[l], last[l], next)
    BY OwnsFacts
  <1>4. Reachable(first[l]) = Range(c[l])
    <2>1. Range(WalkIn(next, first[l])) \ {NULL} = Range(c[l])
      BY <1>3, ChainIs
    <2>. QED
      BY <2>1 DEF Reachable, Walk, WalkIn
  <1>5. Range(c[l]) = {c[l][i] : i \in 1 .. Len(c[l])}
    BY <1>3 DEF Range
  <1>6. PICK d : d = [c EXCEPT ![l] = <<>>]
    OBVIOUS
  <1>7. /\ d \in [Lists -> Seq(Nodes)] /\ d[l] = <<>> /\ Len(<<>>) = 0
        /\ \A k \in Lists : k # l => d[k] = c[k]
    BY <1>3, <1>6
  <1>8. AllLists(d)'
    <2>1. IsList(<<>>, NULL, NULL, 0, 0, next, weight)
      BY <1>3, IsListEmpty
    <2>2. \A k \in Lists : IsList(c[k], first[k], last[k], size[k], data_size[k], next, weight)
      BY DEF Owns, AllLists
    <2>3. /\ first'[l] = NULL /\ last'[l] = NULL /\ size'[l] = 0 /\ data_size'[l] = 0
          /\ \A k \in Lists : k # l => /\ first'[k] = first[k] /\ last'[k] = last[k]
                                       /\ size'[k] = size[k] /\ data_size'[k] = data_size[k]
      BY <1>1 DEF TypeOK
    <2>. QED
      BY <1>1, <1>7, <2>1, <2>2, <2>3 DEF AllLists
  <1>9. \A k \in Lists : \A i \in 1 .. Len(d[k]) : k # l /\ i \in 1 .. Len(c[k]) /\ d[k][i] = c[k][i]
    BY <1>7
  <1>10. Apart(d)'
    BY <1>9 DEF Owns, Apart
  <1>11. Held(d)'
    <2>1. \A k \in Lists : \A i \in 1 .. Len(d[k]) : d[k][i] \in allocated'
      <3>1. \A k \in Lists : \A i \in 1 .. Len(c[k]) : c[k][i] \in allocated
        BY OwnsFacts
      <3>2. \A k \in Lists : k # l => \A i \in 1 .. Len(c[k]) : c[k][i] \notin Range(c[l])
        BY <1>5 DEF Owns, Apart
      <3>. QED
        BY <1>1, <1>4, <1>9, <3>1, <3>2
    <2>2. \A x \in allocated : \E k \in Lists : \E i \in 1 .. Len(c[k]) : c[k][i] = x
      BY DEF Owns, Held, TypeOK
    <2>3. ASSUME NEW x \in allocated, x \notin Range(c[l])
          PROVE  \E k \in Lists : \E i \in 1 .. Len(d[k]) : d[k][i] = x
      <3>1. PICK k \in Lists : \E i \in 1 .. Len(c[k]) : c[k][i] = x
        BY <2>2
      <3>2. k # l
        BY <1>5, <2>3, <3>1
      <3>. QED
        BY <1>7, <3>1, <3>2
    <2>. QED
      BY <1>1, <1>4, <2>1, <2>3 DEF Held
  <1>12. LoopIn(d)'
    BY <1>1 DEF LoopIn
  <1>13. Moves(c, d)
    BY <1>6 DEF Moves
  <1>. QED
    BY <1>2, <1>7, <1>8, <1>10, <1>11, <1>12, <1>13 DEF Owns

LEMMA ConcatOwns ==
  ASSUME TypeOK, NEW c, Owns(c), NEW h \in Lists, NEW t \in Lists, Concat(h, t)
  PROVE  Shapes' /\ \E d : Owns(d)' /\ Moves(c, d)
  <1>. DEFINE s == c[h]
              r == c[t]
  <1>1. /\ scanned = NULL /\ h # t
        /\ next' = IF size[h] # 0 /\ size[t] # 0
                   THEN [next EXCEPT ![last[h]] = first[t]] ELSE next
        /\ first' = [first EXCEPT ![h] = IF size[h] = 0 /\ size[t] # 0 THEN first[t] ELSE @,
                                  ![t] = NULL]
        /\ last' = [last EXCEPT ![h] = IF size[t] # 0 THEN last[t] ELSE @, ![t] = NULL]
        /\ size' = [size EXCEPT ![h] = @ + size[t], ![t] = 0]
        /\ data_size' = [data_size EXCEPT ![h] = @ + data_size[t], ![t] = 0]
        /\ allocated' = allocated /\ weight' = weight
        /\ scanned' = scanned /\ node' = node /\ prev' = prev
    BY DEF Concat, Idle, loop
  <1>2. Shapes'
    BY <1>1 DEF Shapes, TypeOK
  <1>3. /\ weight \in [Nodes -> Nat] /\ c \in [Lists -> Seq(Nodes)]
        /\ s \in Seq(Nodes) /\ Len(s) \in Nat /\ size[h] = Len(s)
        /\ s = <<>> <=> Len(s) = 0
        /\ Linked(s, first[h], last[h], next) /\ data_size[h] = WeighsIn(weight, s)
        /\ \A i \in 1 .. Len(s) : s[i] \in Nodes
        /\ s # <<>> => Len(s) \in 1 .. Len(s) /\ last[h] = s[Len(s)]
        /\ IsList(s, first[h], last[h], size[h], data_size[h], next, weight)
        /\ s = <<>> <=> first[h] = NULL
        /\ s = <<>> => last[h] = NULL
    BY OwnsFacts
  <1>4. /\ r \in Seq(Nodes) /\ Len(r) \in Nat /\ size[t] = Len(r)
        /\ r = <<>> <=> Len(r) = 0
        /\ Linked(r, first[t], last[t], next) /\ data_size[t] = WeighsIn(weight, r)
        /\ \A i \in 1 .. Len(r) : r[i] \in Nodes
        /\ IsList(r, first[t], last[t], size[t], data_size[t], next, weight)
    BY OwnsFacts
  <1>5. \A i \in 1 .. Len(s) : \A j \in 1 .. Len(r) : s[i] # r[j]
    BY <1>1 DEF Owns, Apart
  <1>6. \A k \in Lists : k # h => \A i \in 1 .. Len(c[k]) : \A j \in 1 .. Len(s) : c[k][i] # s[j]
    BY DEF Owns, Apart
  <1>7. /\ s # <<>> /\ r # <<>> => next'[last[h]] = first[t]
        /\ \A x \in Nodes : (s # <<>> => x # last[h]) => next'[x] = next[x]
        /\ s = <<>> \/ r = <<>> => next' = next
    <2>1. s # <<>> => last[h] \in Nodes
      BY <1>3
    <2>. QED
      BY <1>1, <1>3, <1>4, <2>1 DEF TypeOK
  <1>8. /\ first'[t] = NULL /\ last'[t] = NULL /\ size'[t] = 0 /\ data_size'[t] = 0
        /\ first'[h] = IF size[h] = 0 /\ size[t] # 0 THEN first[t] ELSE first[h]
        /\ last'[h] = IF size[t] # 0 THEN last[t] ELSE last[h]
        /\ size'[h] = size[h] + size[t] /\ data_size'[h] = data_size[h] + data_size[t]
        /\ \A k \in Lists : k # h /\ k # t => /\ first'[k] = first[k] /\ last'[k] = last[k]
                                              /\ size'[k] = size[k] /\ data_size'[k] = data_size[k]
    BY <1>1 DEF TypeOK
  <1>9. PICK d : d = [c EXCEPT ![h] = s \o r, ![t] = <<>>]
    OBVIOUS
  <1>10. s \o r \in Seq(Nodes) /\ Len(s \o r) = Len(s) + Len(r)
    <2>. HIDE DEF s, r
    <2>. QED
      BY ONLY <1>3, <1>4, ConcatProperties
  <1>11. /\ d \in [Lists -> Seq(Nodes)] /\ d[h] = s \o r /\ d[t] = <<>>
         /\ \A k \in Lists : k # h /\ k # t => d[k] = c[k]
    <2>1. ASSUME NEW u \in Seq(Nodes), NEW z \in Seq(Nodes), d = [c EXCEPT ![h] = u, ![t] = z]
          PROVE  /\ d \in [Lists -> Seq(Nodes)] /\ d[h] = u /\ d[t] = z
                 /\ \A k \in Lists : k # h /\ k # t => d[k] = c[k]
      BY <1>1, <1>3, <2>1
    <2>2. <<>> \in Seq(Nodes)
      OBVIOUS
    <2>. HIDE DEF s, r
    <2>. QED
      BY <1>9, <1>10, <2>1, <2>2
  <1>. HIDE DEF s, r
  <1>12. IsList(s \o r, first'[h], last'[h], size'[h], data_size'[h], next', weight')
    <2>1. WeighsIn(weight, s \o r) = WeighsIn(weight, s) + WeighsIn(weight, r)
      BY <1>3, <1>4, WeighsConcat
    <2>2. Linked(s \o r, first'[h], last'[h], next')
      <3>1. CASE s = <<>>
        <4>1. s \o r = r
          BY <1>4, <3>1
        <4>2. first'[h] = first[t] /\ last'[h] = last[t] /\ next' = next
          <5>1. r = <<>> => first[t] = NULL /\ last[t] = NULL
            BY <1>4 DEF Linked
          <5>. QED
            BY <1>3, <1>4, <1>7, <1>8, <3>1, <5>1
        <4>. QED
          BY <1>4, <4>1, <4>2
      <3>2. CASE s # <<>> /\ r = <<>>
        <4>1. s \o r = s
          BY <1>3, <3>2
        <4>2. first'[h] = first[h] /\ last'[h] = last[h] /\ next' = next
          BY <1>3, <1>4, <1>7, <1>8, <3>2
        <4>. QED
          BY <1>3, <4>1, <4>2
      <3>3. CASE s # <<>> /\ r # <<>>
        <4>1. first'[h] = first[h] /\ last'[h] = last[t] /\ next'[last[h]] = first[t]
          BY <1>3, <1>4, <1>7, <1>8, <3>3
        <4>2. \A i \in 1 .. Len(s) : i # Len(s) => next'[s[i]] = next[s[i]]
          <5>1. \A i \in 1 .. Len(s) : i # Len(s) => s[i] # s[Len(s)]
            BY <1>3 DEF Linked, Distinct
          <5>. QED
            BY <1>3, <1>7, <3>3, <5>1
        <4>3. \A j \in 1 .. Len(r) : next'[r[j]] = next[r[j]]
          BY <1>3, <1>4, <1>5, <1>7, <3>3
        <4>4. Bridges(s, r, last[h], first[t], next, next')
          BY <4>1, <4>2, <4>3 DEF Bridges
        <4>5. Linked(s \o r, first[h], last[t], next')
          BY <1>3, <1>4, <1>5, <3>3, <4>4, LinkedConcat
        <4>. QED
          BY <4>1, <4>5
      <3>. QED
        BY <3>1, <3>2, <3>3
    <2>. QED
      BY <1>1, <1>3, <1>4, <1>8, <1>10, <2>1, <2>2 DEF IsList
  <1>13. ASSUME NEW k \in Lists, k # h
         PROVE  IsList(c[k], first[k], last[k], size[k], data_size[k], next', weight')
    <2>1. \A i \in 1 .. Len(c[k]) : c[k][i] \in Nodes /\ (s # <<>> => c[k][i] # last[h])
      BY <1>3, <1>6, <1>13, OwnsFacts
    <2>2. SameNodes(c[k], next, weight, next', weight')
      BY <1>1, <1>7, <2>1 DEF SameNodes
    <2>3. IsList(c[k], first[k], last[k], size[k], data_size[k], next, weight)
      BY OwnsFacts
    <2>. QED
      BY <1>1, <1>3, <2>2, <2>3, IsListElsewhere
  <1>14. IsList(<<>>, NULL, NULL, 0, 0, next', weight')
    BY <1>1, <1>3, IsListEmpty
  <1>15. AllLists(d)'
    <2>1. ASSUME NEW k \in Lists
          PROVE  IsList(d[k], first'[k], last'[k], size'[k], data_size'[k], next', weight')
      <3>1. CASE k = h
        BY <1>11, <1>12, <3>1
      <3>2. CASE k = t
        BY <1>8, <1>11, <1>14, <3>2
      <3>3. CASE k # h /\ k # t
        BY <1>8, <1>11, <1>13, <3>3
      <3>. QED
        BY <3>1, <3>2, <3>3
    <2>. QED
      BY <2>1 DEF AllLists
  <1>16. /\ \A i \in 1 .. Len(s) : i \in 1 .. Len(s \o r) /\ (s \o r)[i] = s[i]
         /\ \A j \in 1 .. Len(r) : Len(s) + j \in 1 .. Len(s \o r) /\ (s \o r)[Len(s) + j] = r[j]
         /\ \A i \in 1 .. Len(s \o r) :
              i \in 1 .. Len(s) \/ (i - Len(s) \in 1 .. Len(r) /\ (s \o r)[i] = r[i - Len(s)])
    <2>1. \A i \in 1 .. Len(s) + Len(r) : (s \o r)[i] = IF i <= Len(s) THEN s[i] ELSE r[i - Len(s)]
      BY <1>3, <1>4
    <2>2. /\ \A i \in 1 .. Len(s) : i \in 1 .. Len(s) + Len(r) /\ i <= Len(s)
          /\ \A j \in 1 .. Len(r) : /\ Len(s) + j \in 1 .. Len(s) + Len(r) /\ ~(Len(s) + j <= Len(s))
                                    /\ (Len(s) + j) - Len(s) = j
          /\ \A i \in 1 .. Len(s) + Len(r) :
               i \in 1 .. Len(s) \/ (~(i <= Len(s)) /\ i - Len(s) \in 1 .. Len(r))
      BY ONLY <1>3, <1>4
    <2>3. \A i \in 1 .. Len(s) : i \in 1 .. Len(s \o r) /\ (s \o r)[i] = s[i]
      BY <1>10, <2>1, <2>2
    <2>4. \A j \in 1 .. Len(r) : Len(s) + j \in 1 .. Len(s \o r) /\ (s \o r)[Len(s) + j] = r[j]
      BY <1>10, <2>1, <2>2
    <2>5. \A i \in 1 .. Len(s \o r) :
            i \in 1 .. Len(s) \/ (i - Len(s) \in 1 .. Len(r) /\ (s \o r)[i] = r[i - Len(s)])
      BY <1>10, <2>1, <2>2
    <2>. QED
      BY <2>3, <2>4, <2>5
  <1>17. \A k \in Lists : \A i \in 1 .. Len(d[k]) :
           \E m \in Lists : \E j \in 1 .. Len(c[m]) :
             d[k][i] = c[m][j] /\ (m = k \/ (m = t /\ k = h))
    <2>. SUFFICES ASSUME NEW k \in Lists, NEW i \in 1 .. Len(d[k])
                  PROVE  \E m \in Lists : \E j \in 1 .. Len(c[m]) :
                           d[k][i] = c[m][j] /\ (m = k \/ (m = t /\ k = h))
      OBVIOUS
    <2>1. CASE k = h
      BY <1>11, <1>16, <2>1 DEF s, r
    <2>2. CASE k = t
      BY <1>11, <2>2
    <2>3. CASE k # h /\ k # t
      BY <1>11, <2>3
    <2>. QED
      BY <2>1, <2>2, <2>3
  <1>18. Apart(d)'
    <2>. SUFFICES ASSUME NEW k \in Lists, NEW q \in Lists, k # q,
                         NEW i \in 1 .. Len(d[k]), NEW j \in 1 .. Len(d[q])
                  PROVE  d[k][i] # d[q][j]
      BY DEF Apart
    <2>1. k # t /\ q # t
      BY <1>11
    <2>2. PICK m \in Lists : \E a \in 1 .. Len(c[m]) :
                 d[k][i] = c[m][a] /\ (m = k \/ (m = t /\ k = h))
      BY <1>17
    <2>3. PICK n \in Lists : \E b \in 1 .. Len(c[n]) :
                 d[q][j] = c[n][b] /\ (n = q \/ (n = t /\ q = h))
      BY <1>17
    <2>4. m # n
      BY <2>1, <2>2, <2>3
    <2>. QED
      BY <2>2, <2>3, <2>4 DEF Owns, Apart
  <1>19. Held(d)'
    <2>1. \A k \in Lists : \A i \in 1 .. Len(d[k]) : d[k][i] \in allocated'
      <3>1. \A k \in Lists : \A i \in 1 .. Len(c[k]) : c[k][i] \in allocated
        BY OwnsFacts
      <3>. QED
        BY <1>1, <1>17, <3>1
    <2>2. \A x \in allocated : \E k \in Lists : \E i \in 1 .. Len(c[k]) : c[k][i] = x
      BY DEF Owns, Held, TypeOK
    <2>3. ASSUME NEW x \in allocated
          PROVE  \E k \in Lists : \E i \in 1 .. Len(d[k]) : d[k][i] = x
      <3>1. PICK k \in Lists : \E i \in 1 .. Len(c[k]) : c[k][i] = x
        BY <2>2
      <3>2. CASE k = h
        <4>1. PICK i \in 1 .. Len(s) : s[i] = x
          BY <3>1, <3>2 DEF s
        <4>2. i \in 1 .. Len(d[h]) /\ d[h][i] = x
          BY <1>11, <1>16, <4>1
        <4>. QED
          BY <4>2
      <3>3. CASE k = t
        <4>1. PICK j \in 1 .. Len(r) : r[j] = x
          BY <3>1, <3>3 DEF r
        <4>2. Len(s) + j \in 1 .. Len(d[h]) /\ d[h][Len(s) + j] = x
          BY <1>11, <1>16, <4>1
        <4>. QED
          BY <4>2
      <3>4. CASE k # h /\ k # t
        BY <1>11, <3>1, <3>4
      <3>. QED
        BY <3>2, <3>3, <3>4
    <2>. QED
      BY <1>1, <2>1, <2>3 DEF Held
  <1>20. LoopIn(d)'
    BY <1>1 DEF LoopIn
  <1>21. Moves(c, d)
    BY <1>1, <1>9 DEF Moves, s, r
  <1>. QED
    BY <1>2, <1>11, <1>15, <1>18, <1>19, <1>20, <1>21 DEF Owns

-----------------------------------------------------------------------------
(* Every step keeps it *)

LEMMA InitIInv == Init => IInv
  <1>. SUFFICES ASSUME Init PROVE IInv
    OBVIOUS
  <1>1. Min(Weights) \in Weights
    <2>1. PICK x \in Weights : \A y \in Weights : x <= y
      BY MetricListAssumption, LeastOf
    <2>. QED
      BY <2>1 DEF Min
  <1>2. Shapes
    BY <1>1 DEF Init, Shapes
  <1>3. PICK c : c = [l \in Lists |-> <<>>]
    OBVIOUS
  <1>4. c \in [Lists -> Seq(Nodes)] /\ \A l \in Lists : c[l] = <<>> /\ Len(c[l]) = 0
    BY <1>3
  <1>5. AllLists(c)
    <2>1. weight \in [Nodes -> Nat]
      BY <1>2, WeightsAreNat DEF Shapes
    <2>2. IsList(<<>>, NULL, NULL, 0, 0, next, weight)
      BY <2>1, IsListEmpty
    <2>. QED
      BY <1>4, <2>2 DEF AllLists, Init
  <1>6. Apart(c) /\ Held(c) /\ LoopIn(c)
    BY <1>4 DEF Apart, Held, LoopIn, Init
  <1>. QED
    BY <1>2, <1>4, <1>5, <1>6, TypesFollow DEF Owns

\* TypesFollow, of the state after a step.
LEMMA TypesFollowNext == (\A d : Shapes /\ Owns(d) => IInv)'
  <1>1. \A d : Shapes /\ Owns(d) => IInv
    BY TypesFollow
  <1>. QED
    BY <1>1, PTL

LEMMA StepOwns ==
  ASSUME TypeOK, NEW c, Owns(c), [Next]_vars
  PROVE  IInv' /\ \E d : Owns(d)' /\ Moves(c, d)
  <1>. SUFFICES Shapes' /\ \E d : Owns(d)' /\ Moves(c, d)
    BY TypesFollowNext
  <1>1. CASE UNCHANGED vars
    <2>1. Shapes
      BY DEF Shapes, TypeOK
    <2>2. Shapes' /\ Owns(c)'
      <3>1. /\ allocated' = allocated /\ next' = next /\ weight' = weight /\ first' = first
            /\ last' = last /\ size' = size /\ data_size' = data_size
            /\ scanned' = scanned /\ node' = node /\ prev' = prev
        BY <1>1 DEF vars
      <3>. QED
        BY <2>1, <3>1 DEF Shapes, Owns, AllLists, Apart, Held, LoopIn
    <2>. QED
      BY <2>2 DEF Moves
  <1>2. CASE \E l \in Lists, n \in Nodes, w \in Weights : Push(l, n, w)
    BY <1>2, PushOwns
  <1>3. CASE \E l \in Lists : Pop(l)
    BY <1>3, PopOwns
  <1>4. CASE \E h, t \in Lists : Concat(h, t)
    BY <1>4, ConcatOwns
  <1>5. CASE \E l \in Lists : Empty(l)
    BY <1>5, EmptyOwns
  <1>6. CASE \E l \in Lists : RemoveIfBegin(l)
    BY <1>6, BeginOwns
  <1>7. CASE RemoveIfTakes
    BY <1>7, TakesOwns
  <1>8. CASE RemoveIfLeaves
    BY <1>8, LeavesOwns
  <1>9. CASE PushFails
    BY <1>1, <1>9 DEF PushFails
  <1>. QED
    BY <1>1, <1>2, <1>3, <1>4, <1>5, <1>6, <1>7, <1>8, <1>9 DEF Next

LEMMA NextIInv == IInv /\ [Next]_vars => IInv'
  BY StepOwns DEF IInv

LEMMA SpecIInv == Spec => []IInv
  BY InitIInv, NextIInv, PTL DEF Spec

-----------------------------------------------------------------------------
(* What follows from it *)

\* The chains met by following the pointers are the sequences.
LEMMA OwnsChains ==
  ASSUME TypeOK, NEW c, Owns(c)
  PROVE  /\ [l \in Lists |-> Chain(l)] = c
         /\ \A l \in Lists : /\ Chain(l) = c[l]
                             /\ Reachable(first[l]) = Range(c[l])
                             /\ Cardinality(Range(c[l])) = Len(c[l])
  <1>1. ASSUME NEW l \in Lists
        PROVE  /\ Chain(l) = c[l] /\ Reachable(first[l]) = Range(c[l])
               /\ Cardinality(Range(c[l])) = Len(c[l])
    <2>1. Linked(c[l], first[l], last[l], next) /\ size[l] = Len(c[l])
      BY OwnsFacts
    <2>2. /\ [i \in 1 .. Len(c[l]) |-> WalkIn(next, first[l])[i - 1]] = c[l]
          /\ Range(WalkIn(next, first[l])) \ {NULL} = Range(c[l])
          /\ Cardinality(Range(c[l])) = Len(c[l])
      BY <2>1, ChainIs
    <2>3. Walk(first[l]) = WalkIn(next, first[l])
      BY DEF Walk, WalkIn
    <2>. QED
      BY <2>1, <2>2, <2>3 DEF Chain, Reachable
  <1>2. c = [l \in Lists |-> c[l]]
    BY DEF Owns
  <1>. HIDE DEF Chain
  <1>. QED
    BY <1>1, <1>2

LEMMA IInvWellFormed == IInv => WellFormed
  <1>. SUFFICES ASSUME IInv PROVE WellFormed
    OBVIOUS
  <1>1. PICK c : Owns(c)
    BY DEF IInv
  <1>2. TypeOK
    BY DEF IInv
  <1>3. \A l \in Lists : /\ Chain(l) = c[l] /\ Reachable(first[l]) = Range(c[l])
                         /\ Cardinality(Range(c[l])) = Len(c[l])
    BY <1>1, <1>2, OwnsChains
  <1>4. \A l \in Lists : /\ c[l] = <<>> <=> Len(c[l]) = 0
                         /\ c[l] = <<>> => last[l] = NULL
                         /\ c[l] # <<>> => last[l] = c[l][Len(c[l])]
                         /\ size[l] = Len(c[l])
    BY <1>1, <1>2, OwnsFacts
  <1>5. EndsMeet
    BY <1>3, <1>4 DEF EndsMeet
  <1>6. \A l \in Lists : Range(c[l]) = {c[l][i] : i \in 1 .. Len(c[l])}
    <2>1. \A l \in Lists : DOMAIN c[l] = 1 .. Len(c[l])
      <3>1. \A l \in Lists : c[l] \in Seq(Nodes)
        BY <1>1, <1>2, OwnsFacts
      <3>. QED
        BY <3>1
    <2>. QED
      BY <2>1 DEF Range
  <1>7. \A l, k \in Lists : l # k => Range(c[l]) \intersect Range(c[k]) = {}
    BY <1>1, <1>6 DEF Owns, Apart
  <1>8. UNION {Range(c[l]) : l \in Lists} = allocated
    <2>1. \A l \in Lists : Range(c[l]) \subseteq allocated
      <3>1. \A l \in Lists : \A i \in 1 .. Len(c[l]) : c[l][i] \in allocated
        BY <1>1, <1>2, OwnsFacts
      <3>. QED
        BY <1>6, <3>1
    <2>2. \A x \in allocated : \E l \in Lists : x \in Range(c[l])
      <3>1. \A x \in allocated : \E l \in Lists : \E i \in 1 .. Len(c[l]) : c[l][i] = x
        BY <1>1, <1>2 DEF Owns, Held, TypeOK
      <3>2. ASSUME NEW x \in allocated PROVE \E l \in Lists : x \in Range(c[l])
        <4>1. PICK l \in Lists : \E i \in 1 .. Len(c[l]) : c[l][i] = x
          BY <3>1
        <4>. QED
          BY <1>6, <4>1
      <3>. QED
        BY <3>2
    <2>. QED
      BY <2>1, <2>2
  <1>9. OneOwner
    <2>1. {Reachable(first[l]) : l \in Lists} = {Range(c[l]) : l \in Lists}
      BY <1>3
    <2>. QED
      BY <1>3, <1>7, <1>8, <2>1 DEF OneOwner
  <1>. QED
    BY <1>2, <1>5, <1>9 DEF WellFormed

LEMMA IInvDataSize == IInv => DataSizeExact
  <1>. SUFFICES ASSUME IInv, NEW l \in Lists PROVE data_size[l] = Weighs(Chain(l))
    BY DEF DataSizeExact
  <1>1. PICK c : Owns(c)
    BY DEF IInv
  <1>2. TypeOK
    BY DEF IInv
  <1>3. data_size[l] = WeighsIn(weight, c[l]) /\ Chain(l) = c[l]
    BY <1>1, <1>2, OwnsFacts, OwnsChains
  <1>4. \A s : Weighs(s) = WeighsIn(weight, s)
    BY DEF Weighs, WeighsIn, SumIn
  <1>. QED
    BY <1>3, <1>4

\* Through every push, pop, concat, empty and removal (metric_list.c:34-162)
\* the pointers of a list lead from its first node to its last, which are as
\* many as it counts; lists share no node, and hold all that is allocated.
THEOREM ListsStayWellFormed == Spec => []WellFormed
  BY SpecIInv, IInvWellFormed, PTL

\* data_size is the sum of what the nodes of the list weigh, so that evicting
\* until it is low enough (metric_store.c:98) meets no empty list.
THEOREM DataSizeStaysExact == Spec => []DataSizeExact
  BY SpecIInv, IInvDataSize, PTL

LEMMA InitMaps == Init => Abstract!Init
  <1>. SUFFICES ASSUME Init PROVE [l \in Lists |-> Chain(l)] = [l \in Lists |-> <<>>]
    BY DEF Abstract!Init
  <1>1. ASSUME NEW l \in Lists PROVE Chain(l) = <<>>
    <2>1. size[l] = 0
      BY DEF Init
    <2>2. Chain(l) = [i \in 1 .. 0 |-> Walk(first[l])[i - 1]]
      BY <2>1 DEF Chain
    <2>. QED
      BY <2>2
  <1>. QED
    BY <1>1

LEMMA MovesMap ==
  ASSUME NEW c, NEW d, c = [l \in Lists |-> Chain(l)], d = [l \in Lists |-> Chain(l)]',
         Moves(c, d)
  PROVE  [Abstract!Next]_([l \in Lists |-> Chain(l)])
  <1>. HIDE DEF Chain
  <1>1. CASE d = c
    BY <1>1
  <1>2. CASE \E l \in Lists, n \in Nodes : /\ \A k \in Lists : n \notin Range(c[k])
                                           /\ d = [c EXCEPT ![l] = Append(@, n)]
    <2>1. PICK l \in Lists, n \in Nodes : /\ \A k \in Lists : n \notin Range(c[k])
                                          /\ d = [c EXCEPT ![l] = Append(@, n)]
      BY <1>2
    <2>2. \A k \in Lists : c[k] = Chain(k) /\ Range(c[k]) = Abstract!Range(Chain(k))
      BY DEF Abstract!Range, Range
    <2>3. \A k \in Lists : n \notin Abstract!Range([x \in Lists |-> Chain(x)][k])
      BY <2>1, <2>2
    <2>4. Abstract!Push(l, n)
      BY <2>1, <2>3 DEF Abstract!Push
    <2>. QED
      BY <2>4 DEF Abstract!Next
  <1>3. CASE \E l \in Lists : c[l] # <<>> /\ d = [c EXCEPT ![l] = Tail(@)]
    BY <1>3 DEF Abstract!Next, Abstract!Pop
  <1>4. CASE \E h, t \in Lists : h # t /\ d = [c EXCEPT ![h] = c[h] \o c[t], ![t] = <<>>]
    BY <1>4 DEF Abstract!Next, Abstract!Concat
  <1>5. CASE \E l \in Lists : \E i \in DOMAIN c[l] : d = [c EXCEPT ![l] = RemoveAt(@, i)]
    BY <1>5 DEF Abstract!Next, Abstract!Discard, Abstract!RemoveAt, RemoveAt
  <1>6. CASE \E l \in Lists : d = [c EXCEPT ![l] = <<>>]
    BY <1>6 DEF Abstract!Next, Abstract!Empty
  <1>. QED
    BY <1>1, <1>2, <1>3, <1>4, <1>5, <1>6 DEF Moves

\* OwnsChains, of the state after a step.
LEMMA OwnsChainsNext == (\A d : TypeOK /\ Owns(d) => [l \in Lists |-> Chain(l)] = d)'
  <1>1. \A d : TypeOK /\ Owns(d) => [l \in Lists |-> Chain(l)] = d
    BY OwnsChains
  <1>. QED
    BY <1>1, PTL

LEMMA NextMaps == IInv /\ [Next]_vars => [Abstract!Next]_([l \in Lists |-> Chain(l)])
  <1>. SUFFICES ASSUME IInv, [Next]_vars
                PROVE  [Abstract!Next]_([l \in Lists |-> Chain(l)])
    OBVIOUS
  <1>1. TypeOK /\ \E c : Owns(c)
    BY DEF IInv
  <1>2. PICK c : Owns(c)
    BY <1>1
  <1>3. TypeOK' /\ \E d : Owns(d)' /\ Moves(c, d)
    BY <1>1, <1>2, StepOwns DEF IInv
  <1>4. PICK d : Owns(d)' /\ Moves(c, d)
    BY <1>3
  <1>5. c = [l \in Lists |-> Chain(l)]
    BY <1>1, <1>2, OwnsChains
  <1>6. d = [l \in Lists |-> Chain(l)]'
    BY <1>3, <1>4, OwnsChainsNext
  <1>. QED
    BY <1>4, <1>5, <1>6, MovesMap

\* The pointer code (metric_list.c:34-162) does to its lists what Queues says,
\* each turn of remove_if included: it takes out the node it is at or none.
THEOREM PointersImplementQueues == Spec => ImplementsQueues
  BY SpecIInv, InitMaps, NextMaps, PTL DEF Spec, ImplementsQueues, Abstract!Spec

-----------------------------------------------------------------------------
(* Lists as bytes *)

\* Counting up from 0.
LEMMA UpTo ==
  ASSUME NEW n \in Nat, NEW C, 0 \in C, \A i \in 1 .. n : i - 1 \in C => i \in C
  PROVE  \A i \in 0 .. n : i \in C
  <1>. DEFINE D == {i \in 0 .. n : i \notin C}
  <1>1. D = {}
    <2>. SUFFICES ASSUME D # {} PROVE FALSE
      OBVIOUS
    <2>1. PICK i \in D : \A j \in D : i <= j
      <3>1. D \subseteq Nat
        OBVIOUS
      <3>. HIDE DEF D
      <3>. QED
        BY <3>1, LeastOf
    <2>2. i \in 1 .. n
      OBVIOUS
    <2>3. i - 1 \in 0 .. n /\ i - 1 \notin D
      BY <2>1, <2>2
    <2>. QED
      BY <2>2, <2>3
  <1>. QED
    BY <1>1

\* h is what n steps make of a, f[i] being the i-th.
Steps(h, S, n, a, f) ==
  /\ h \in [0 .. n -> S] /\ h[0] = a
  /\ \A i \in 1 .. n : h[i] = f[i][h[i - 1]]

LEMMA StepsExist ==
  ASSUME NEW S, NEW n \in Nat, NEW a \in S, NEW f,
         \A i \in 1 .. n : \A x \in S : f[i][x] \in S
  PROVE  \E h : Steps(h, S, n, a, f)
  <1>. DEFINE C == {k \in 0 .. n : \E h : Steps(h, S, k, a, f)}
  <1>1. 0 \in C
    <2>1. Steps([i \in 0 .. 0 |-> a], S, 0, a, f)
      BY DEF Steps
    <2>. QED
      BY <2>1
  <1>2. ASSUME NEW k \in 1 .. n, k - 1 \in C PROVE k \in C
    <2>1. PICK h : Steps(h, S, k - 1, a, f)
      BY <1>2
    <2>2. PICK y : y = f[k][h[k - 1]]
      OBVIOUS
    <2>3. h \in [0 .. k - 1 -> S] /\ h[0] = a /\ k - 1 \in 0 .. k - 1 /\ y \in S
      BY <2>1, <2>2 DEF Steps
    <2>4. PICK g : g = [i \in 0 .. k |-> IF i = k THEN y ELSE h[i]]
      OBVIOUS
    <2>5. g \in [0 .. k -> S] /\ g[0] = a
      BY <2>3, <2>4
    <2>6. ASSUME NEW i \in 1 .. k PROVE g[i] = f[i][g[i - 1]]
      <3>1. CASE i = k
        <4>1. g[i] = y /\ g[i - 1] = h[k - 1]
          BY <2>4, <3>1
        <4>. QED
          BY <2>2, <3>1, <4>1
      <3>2. CASE i # k
        <4>1. i \in 1 .. k - 1 /\ g[i] = h[i] /\ g[i - 1] = h[i - 1]
          BY <2>4, <3>2
        <4>. QED
          BY <2>1, <4>1 DEF Steps
      <3>. QED
        BY <3>1, <3>2
    <2>7. Steps(g, S, k, a, f)
      BY <2>5, <2>6 DEF Steps
    <2>. QED
      BY <2>7
  <1>3. \A i \in 0 .. n : i \in C
    <2>. HIDE DEF C
    <2>. QED
      BY <1>1, <1>2, UpTo
  <1>. QED
    BY <1>3

\* What each of the metrics ms is as bytes.
Pieces(ms, host) == [i \in 1 .. Len(ms) |-> Serialized(ms[i], host)]

\* W holds what has been written after each of the n pieces p.
Accrues(W, p, n, U) ==
  /\ W \in [0 .. n -> Seq(U)] /\ W[0] = <<>>
  /\ \A i \in 1 .. n : p[i] \in Seq(U) /\ W[i] = W[i - 1] \o p[i]

\* What has been written grows by what each metric is as bytes.
LEMMA WrittenIs ==
  ASSUME NEW U, NEW ms, NEW host, Len(ms) \in Nat,
         Pieces(ms, host) \in [1 .. Len(ms) -> Seq(U)]
  PROVE  Accrues(Written(ms, host), Pieces(ms, host), Len(ms), U)
  <1>. DEFINE n == Len(ms)
              p == Pieces(ms, host)
              s(i) == Serialized(ms[i], host)
              Rec(h) == h = [i \in 0 .. n |-> IF i = 0 THEN <<>> ELSE h[i - 1] \o s(i)]
              W == Written(ms, host)
  <1>1. W = CHOOSE h : Rec(h)
    BY DEF Written
  <1>. HIDE DEF W, n, s
  <1>2. n \in Nat /\ \A i \in 1 .. n : s(i) \in Seq(U) /\ p[i] = s(i)
    BY DEF n, s, Pieces
  <1>. HIDE DEF p
  <1>3. PICK f : f = [i \in 1 .. n |-> [x \in Seq(U) |-> x \o s(i)]]
    OBVIOUS
  <1>4. \A i \in 1 .. n : \A x \in Seq(U) : f[i][x] = x \o s(i) /\ f[i][x] \in Seq(U)
    BY <1>2, <1>3
  <1>5. PICK h : Steps(h, Seq(U), n, <<>>, f)
    <2>1. <<>> \in Seq(U)
      OBVIOUS
    <2>. QED
      BY <1>2, <1>4, <2>1, StepsExist
  <1>6. Rec(h)
    <2>1. h \in [0 .. n -> Seq(U)] /\ h[0] = <<>> /\ \A i \in 1 .. n : h[i] = f[i][h[i - 1]]
      BY <1>5 DEF Steps
    <2>2. ASSUME NEW i \in 1 .. n PROVE h[i] = h[i - 1] \o s(i)
      <3>1. i - 1 \in 0 .. n
        BY <1>2
      <3>2. h[i - 1] \in Seq(U)
        BY <2>1, <3>1
      <3>. QED
        BY <1>4, <2>1, <3>2
    <2>3. ASSUME NEW i \in 0 .. n PROVE h[i] = IF i = 0 THEN <<>> ELSE h[i - 1] \o s(i)
      <3>1. CASE i = 0
        BY <2>1, <3>1
      <3>2. CASE i # 0
        <4>1. i \in 1 .. n
          BY <1>2, <3>2
        <4>. QED
          BY <2>2, <3>2, <4>1
      <3>. QED
        BY <3>1, <3>2
    <2>. QED
      BY <2>1, <2>3
  <1>7. Rec(W)
    <2>. HIDE DEF Rec
    <2>. QED
      BY <1>1, <1>6
  <1>8. /\ DOMAIN W = 0 .. n /\ W = [i \in 0 .. n |-> W[i]]
        /\ W[0] = <<>> /\ \A i \in 1 .. n : W[i] = W[i - 1] \o s(i)
    <2>1. DOMAIN W = 0 .. n
      BY <1>7
    <2>2. \A i \in 0 .. n : W[i] = IF i = 0 THEN <<>> ELSE W[i - 1] \o s(i)
      BY <1>7
    <2>3. 0 \in 0 .. n /\ \A i \in 1 .. n : i \in 0 .. n /\ i # 0
      BY <1>2
    <2>4. W = [i \in 0 .. n |-> W[i]]
      BY <1>7, <2>1
    <2>. QED
      BY <2>1, <2>2, <2>3, <2>4
  <1>. HIDE DEF Rec
  <1>9. \A i \in 0 .. n : W[i] \in Seq(U)
    <2>. DEFINE C == {i \in 0 .. n : W[i] \in Seq(U)}
    <2>1. 0 \in C
      <3>1. W[0] = <<>> /\ <<>> \in Seq(U) /\ 0 \in 0 .. n
        BY <1>2, <1>8
      <3>. QED
        BY ONLY <3>1
    <2>2. ASSUME NEW i \in 1 .. n, i - 1 \in C PROVE i \in C
      <3>1. W[i - 1] \in Seq(U) /\ s(i) \in Seq(U) /\ W[i] = W[i - 1] \o s(i)
        BY <1>2, <1>8, <2>2
      <3>2. i \in 0 .. n
        BY <1>2
      <3>3. W[i - 1] \o s(i) \in Seq(U)
        BY <3>1, ConcatProperties
      <3>. QED
        BY <3>1, <3>2, <3>3
    <2>3. \A i \in 0 .. n : i \in C
      <3>. HIDE DEF C
      <3>. QED
        BY <1>2, <2>1, <2>2, UpTo
    <2>. QED
      BY <2>3
  <1>10. W \in [0 .. n -> Seq(U)]
    BY <1>8, <1>9
  <1>11. Accrues(W, p, n, U)
    BY <1>2, <1>8, <1>10 DEF Accrues
  <1>. QED
    BY <1>11 DEF W, n, p

\* And stays what it was, whatever follows.
LEMMA WrittenStays ==
  ASSUME NEW U, NEW W, NEW n \in Nat, NEW p, Accrues(W, p, n, U)
  PROVE  \A j \in 0 .. n : /\ Len(W[j]) <= Len(W[n])
                           /\ \A i \in 1 .. Len(W[j]) : W[n][i] = W[j][i]
  <1>. DEFINE Begins(j, k) == /\ Len(W[j]) <= Len(W[k])
                              /\ \A i \in 1 .. Len(W[j]) : W[k][i] = W[j][i]
              C == {k \in 0 .. n : \A j \in 0 .. k : Begins(j, k)}
  <1>1. \A k \in 0 .. n : W[k] \in Seq(U) /\ Len(W[k]) \in Nat
    BY DEF Accrues
  <1>2. 0 \in C
    BY <1>1
  <1>3. ASSUME NEW k \in 1 .. n, k - 1 \in C PROVE k \in C
    <2>1. k - 1 \in 0 .. n /\ k \in 0 .. n /\ k - 1 + 1 = k
      OBVIOUS
    <2>a. W[k] = W[k - 1] \o p[k] /\ p[k] \in Seq(U)
      BY DEF Accrues
    <2>2. Begins(k - 1, k)
      <3>1. PICK a, b : a = W[k - 1] /\ b = p[k] /\ a \in Seq(U) /\ b \in Seq(U)
        BY <1>1, <2>1, <2>a
      <3>2. Len(a) <= Len(a \o b) /\ \A i \in 1 .. Len(a) : (a \o b)[i] = a[i]
        <4>1. a \in Seq(U) /\ b \in Seq(U)
          BY <3>1
        <4>2. Len(a) \in Nat /\ Len(b) \in Nat /\ Len(a \o b) = Len(a) + Len(b)
          BY <4>1, ConcatProperties
        <4>3. \A i \in 1 .. Len(a) : (a \o b)[i] = a[i]
          BY <4>1, <4>2, ConcatProperties
        <4>. QED
          BY <4>2, <4>3
      <3>. QED
        BY <2>a, <3>1, <3>2
    <2>3. ASSUME NEW j \in 0 .. k PROVE Begins(j, k)
      <3>1. CASE j = k
        <4>1. Len(W[k]) <= Len(W[k])
          BY <1>1, <2>1
        <4>. QED
          BY <3>1, <4>1
      <3>2. CASE j # k
        <4>1. j \in 0 .. n /\ Begins(j, k - 1)
          <5>1. j \in 0 .. k - 1 /\ j \in 0 .. n
            BY <3>2
          <5>. QED
            BY <1>3, <5>1
        <4>2. PICK x, y, z \in Nat : x = Len(W[j]) /\ y = Len(W[k - 1]) /\ z = Len(W[k])
          BY <1>1, <2>1, <4>1
        <4>3. x <= y /\ y <= z
          BY <2>2, <4>1, <4>2
        <4>4. x <= z /\ \A i \in 1 .. x : i \in 1 .. y
          BY ONLY <4>2, <4>3
        <4>5. \A i \in 1 .. x : W[k][i] = W[j][i]
          BY <2>2, <4>1, <4>2, <4>4
        <4>. QED
          BY <4>2, <4>4, <4>5
      <3>. QED
        BY <3>1, <3>2
    <2>. HIDE DEF Begins
    <2>. QED
      BY <2>1, <2>3
  <1>4. \A k \in 0 .. n : k \in C
    <2>. HIDE DEF C
    <2>. QED
      BY <1>2, <1>3, UpTo
  <1>. QED
    BY <1>4

-----------------------------------------------------------------------------
\* Reversing twice is nothing.
LEMMA ReverseReverse ==
  ASSUME NEW v \in Seq(Byte)
  PROVE  Reverse(v) \in Seq(Byte) /\ Len(Reverse(v)) = Len(v) /\ Reverse(Reverse(v)) = v
  <1>1. PICK n \in Nat : n = Len(v)
    OBVIOUS
  <1>2. v = [i \in 1 .. n |-> v[i]] /\ \A i \in 1 .. n : v[i] \in Byte
    BY <1>1
  <1>3. PICK r : r = Reverse(v)
    OBVIOUS
  <1>4. \A i \in 1 .. n : n - i + 1 \in 1 .. n /\ n - (n - i + 1) + 1 = i
    BY ONLY n \in Nat
  <1>5. r = [i \in 1 .. n |-> v[n - i + 1]]
    BY <1>1, <1>3 DEF Reverse
  <1>6. r \in Seq(Byte) /\ Len(r) = n /\ \A i \in 1 .. n : r[i] = v[n - i + 1]
    <2>1. r \in [1 .. n -> Byte] /\ \A i \in 1 .. n : r[i] = v[n - i + 1]
      BY <1>2, <1>4, <1>5
    <2>. QED
      BY <1>1, <2>1
  <1>7. Reverse(r) = [i \in 1 .. n |-> r[n - i + 1]]
    BY <1>6 DEF Reverse
  <1>8. \A i \in 1 .. n : r[n - i + 1] = v[i]
    BY <1>4, <1>6
  <1>9. Reverse(r) = v
    BY <1>2, <1>7, <1>8
  <1>. QED
    BY <1>1, <1>3, <1>6, <1>9

\* On a little-endian host htonll turns an integer round.
LEMMA HtonllTurns ==
  ASSUME NEW v \in Seq(Byte), Len(v) = 4
  PROVE  Htonll(v, "little") = Reverse(v)
  <1>1. PICK a, b : a = SubSeq(v, 1, 2) /\ b = SubSeq(v, 3, 4)
    OBVIOUS
  <1>2. /\ a \in Seq(Byte) /\ Len(a) = 2 /\ a[1] = v[1] /\ a[2] = v[2]
    <2>1. \A i \in 1 .. 2 : v[i] \in Byte
      <3>1. \A i \in 1 .. 2 : i \in 1 .. 4
        OBVIOUS
      <3>2. \A i \in 1 .. 4 : v[i] \in Byte
        <4>1. \A i \in 1 .. Len(v) : v[i] \in Byte
          BY ElementOfSeq
        <4>. QED
          BY <4>1
      <3>. QED
        BY ONLY <3>1, <3>2
    <2>2. PICK w : w = SubSeq(v, 1, 2)
      OBVIOUS
    <2>3. w \in Seq(Byte) /\ Len(w) = 2 /\ \A i \in 1 .. 2 : w[i] = v[1 + i - 1]
      <3>1. 1 \in Int /\ 2 \in Int /\ 1 <= 2 /\ 2 - 1 + 1 = 2
        OBVIOUS
      <3>2. /\ SubSeq(v, 1, 2) \in Seq(Byte)
            /\ Len(SubSeq(v, 1, 2)) = IF 1 <= 2 THEN 2 - 1 + 1 ELSE 0
            /\ \A i \in 1 .. 2 - 1 + 1 : SubSeq(v, 1, 2)[i] = v[1 + i - 1]
        BY ONLY <2>1, <3>1, SubSeqProperties
      <3>. QED
        BY <2>2, <3>1, <3>2
    <2>4. w[1] = v[1] /\ w[2] = v[2]
      BY <2>3
    <2>. QED
      BY <1>1, <2>2, <2>3, <2>4
  <1>3. /\ b \in Seq(Byte) /\ Len(b) = 2 /\ b[1] = v[3] /\ b[2] = v[4]
    <2>1. \A i \in 3 .. 4 : v[i] \in Byte
      <3>1. \A i \in 3 .. 4 : i \in 1 .. 4
        OBVIOUS
      <3>2. \A i \in 1 .. 4 : v[i] \in Byte
        <4>1. \A i \in 1 .. Len(v) : v[i] \in Byte
          BY ElementOfSeq
        <4>. QED
          BY <4>1
      <3>. QED
        BY ONLY <3>1, <3>2
    <2>2. PICK w : w = SubSeq(v, 3, 4)
      OBVIOUS
    <2>3. w \in Seq(Byte) /\ Len(w) = 2 /\ \A i \in 1 .. 2 : w[i] = v[3 + i - 1]
      <3>1. 3 \in Int /\ 4 \in Int /\ 3 <= 4 /\ 4 - 3 + 1 = 2
        OBVIOUS
      <3>2. /\ SubSeq(v, 3, 4) \in Seq(Byte)
            /\ Len(SubSeq(v, 3, 4)) = IF 3 <= 4 THEN 4 - 3 + 1 ELSE 0
            /\ \A i \in 1 .. 4 - 3 + 1 : SubSeq(v, 3, 4)[i] = v[3 + i - 1]
        BY ONLY <2>1, <3>1, SubSeqProperties
      <3>. QED
        BY <2>2, <3>1, <3>2
    <2>4. w[1] = v[3] /\ w[2] = v[4]
      BY <2>3
    <2>. QED
      BY <1>1, <2>2, <2>3, <2>4
  <1>4. PICK x, y, r : x = Reverse(b) /\ y = Reverse(a) /\ r = Reverse(v)
    OBVIOUS
  <1>5. /\ x \in Seq(Byte) /\ Len(x) = 2 /\ y \in Seq(Byte) /\ Len(y) = 2
        /\ r \in Seq(Byte) /\ Len(r) = 4
    BY <1>2, <1>3, <1>4, ReverseReverse
  <1>6. x[1] = b[2] /\ x[2] = b[1] /\ y[1] = a[2] /\ y[2] = a[1]
    BY <1>2, <1>3, <1>4 DEF Reverse
  <1>7. r[1] = v[4] /\ r[2] = v[3] /\ r[3] = v[2] /\ r[4] = v[1]
    BY <1>4 DEF Reverse
  <1>8. PICK z : z = x \o y
    OBVIOUS
  <1>9. z \in Seq(Byte) /\ Len(z) = 4 /\ z[1] = x[1] /\ z[2] = x[2] /\ z[3] = y[1] /\ z[4] = y[2]
    <2>1. Len(x \o y) = Len(x) + Len(y) /\ x \o y \in Seq(Byte)
      BY <1>5, ConcatProperties
    <2>2. \A i \in 1 .. 4 : (x \o y)[i] = IF i <= 2 THEN x[i] ELSE y[i - 2]
      <3>1. \A i \in 1 .. Len(x) + Len(y) : (x \o y)[i] = IF i <= Len(x) THEN x[i] ELSE y[i - Len(x)]
        BY <1>5, ConcatProperties
      <3>2. Len(x) = 2 /\ Len(x) + Len(y) = 4
        BY <1>5
      <3>. QED
        BY <3>1, <3>2
    <2>. QED
      BY <1>5, <1>8, <2>1, <2>2
  <1>10. \A i \in 1 .. 4 : z[i] = r[i]
    BY <1>2, <1>3, <1>6, <1>7, <1>9
  <1>11. z = r
    BY <1>5, <1>9, <1>10
  <1>. QED
    BY <1>1, <1>4, <1>8, <1>11 DEF Htonll, Htonl

\* On a host of either order, an integer goes out from its highest byte on.
LEMMA NetInteger ==
  ASSUME NEW v \in Seq(Byte), Len(v) = 4, NEW h \in {"little", "big"}
  PROVE  Htonll(InMemory(v, h), h) = v /\ InMemory(Htonll(v, h), h) = v
  <1>1. CASE h = "big"
    BY <1>1 DEF Htonll, InMemory
  <1>2. CASE h = "little"
    <2>1. Reverse(v) \in Seq(Byte) /\ Len(Reverse(v)) = 4 /\ Reverse(Reverse(v)) = v
      BY ReverseReverse
    <2>2. Htonll(v, h) = Reverse(v) /\ Htonll(Reverse(v), h) = Reverse(Reverse(v))
      BY <1>2, <2>1, HtonllTurns
    <2>. QED
      BY <1>2, <2>1, <2>2 DEF InMemory
  <1>. QED
    BY <1>1, <1>2

\* Each number below mod is the one its bytes are of.
LEMMA CodesBack ==
  ASSUME NEW code, NEW mod \in Nat \ {0}, NEW w \in Nat, IsCode(code, mod, w), NEW n \in Nat
  PROVE  /\ code[n % mod] \in Seq(Byte) /\ Len(code[n % mod]) = w
         /\ AntiFunction(code)[code[n % mod]] = n % mod
         /\ n < mod => n % mod = n
  <1>1. code \in [0 .. mod - 1 -> [1 .. w -> Byte]]
    BY DEF IsCode
  <1>2. PICK r : r = n % mod
    OBVIOUS
  <1>3. r \in 0 .. mod - 1 /\ (n < mod => r = n)
    BY ONLY <1>2, n \in Nat, mod \in Nat \ {0}
  <1>4. code[r] \in [1 .. w -> Byte]
    BY <1>1, <1>3
  <1>5. code[r] \in Seq(Byte) /\ Len(code[r]) = w
    BY <1>4
  <1>6. \A a, b \in 0 .. mod - 1 : code[a] = code[b] => a = b
    BY <1>1 DEF IsCode, IsInjective
  <1>7. AntiFunction(code)[code[r]] = r
    <2>1. DOMAIN code = 0 .. mod - 1 /\ code[r] \in Range(code)
      BY <1>1, <1>3 DEF Range
    <2>2. AntiFunction(code)[code[r]]
            = CHOOSE s \in 0 .. mod - 1 : code[r] \in Range(code) => code[s] = code[r]
      BY <2>1 DEF AntiFunction, Inverse
    <2>3. \E s \in 0 .. mod - 1 : code[r] \in Range(code) => code[s] = code[r]
      BY <1>3
    <2>4. PICK s : s = AntiFunction(code)[code[r]]
      OBVIOUS
    <2>5. s \in 0 .. mod - 1 /\ code[s] = code[r]
      BY <2>1, <2>2, <2>3, <2>4
    <2>. QED
      BY <1>3, <1>6, <2>4, <2>5
  <1>. QED
    BY <1>2, <1>3, <1>5, <1>7

\* A number of a header arrives as it left, if it fits.
LEMMA NumbersArrive ==
  ASSUME NEW n \in Nat, NEW h \in {"little", "big"}, NEW k \in {"little", "big"}
  PROVE  /\ HostShort(NetShort(n, h), k) = n % ShortMod
         /\ HostLong(NetLong(n, h), k) = n % LongMod
         /\ n < ShortMod => n % ShortMod = n
         /\ n < LongMod => n % LongMod = n
  <1>1. HostShort(NetShort(n, h), k) = n % ShortMod /\ (n < ShortMod => n % ShortMod = n)
    <2>1. PICK v : v = Short[n % ShortMod]
      OBVIOUS
    <2>2. /\ v \in Seq(Byte) /\ AntiFunction(Short)[v] = n % ShortMod
          /\ n < ShortMod => n % ShortMod = n
      BY <2>1, CodesBack, WireAssumption
    <2>3. Reverse(v) \in Seq(Byte) /\ Reverse(Reverse(v)) = v
      BY <2>2, ReverseReverse
    <2>4. NetShort(n, h) = v
      BY <2>1, <2>3 DEF NetShort, Htons, InMemory
    <2>5. InMemory(Htons(v, k), k) = v
      BY <2>3 DEF Htons, InMemory
    <2>. QED
      BY <2>2, <2>4, <2>5 DEF HostShort, ShortOf
  <1>2. HostLong(NetLong(n, h), k) = n % LongMod /\ (n < LongMod => n % LongMod = n)
    <2>1. PICK v : v = Long[n % LongMod]
      OBVIOUS
    <2>2. /\ v \in Seq(Byte) /\ Len(v) = 4 /\ AntiFunction(Long)[v] = n % LongMod
          /\ n < LongMod => n % LongMod = n
      <3>1. Width["integer"] = 4
        BY DEF Width
      <3>2. LongMod \in Nat \ {0} /\ IsCode(Long, LongMod, 4)
        BY <3>1, WireAssumption
      <3>. QED
        BY <2>1, <3>2, CodesBack
    <2>3. NetLong(n, h) = v /\ InMemory(Htonll(v, k), k) = v
      BY <2>1, <2>2, NetInteger DEF NetLong
    <2>. QED
      BY <2>2, <2>3 DEF HostLong, LongOf
  <1>. QED
    BY <1>1, <1>2

\* What one host writes of a value another reads.
LEMMA NetKeeps ==
  ASSUME NEW m, IsMetric(m), NEW h \in {"little", "big"}
  PROVE  /\ Net(m.type, Kept(m.type, m.value, h), h) = m.value
         /\ Kept(m.type, Net(m.type, m.value, h), h) = m.value
         /\ m.value \in Seq(Byte) /\ Len(m.value) = DataSize(m)
  <1>1. /\ m.value \in Seq(Byte) /\ m.type \in {"integer", "float", "string"}
        /\ m.type \in DOMAIN Width => Len(m.value) = Width[m.type]
    BY DEF IsMetric
  <1>2. DOMAIN Width = {"integer", "float"} /\ Width["integer"] = 4 /\ Width["float"] = 2
    BY DEF Width
  <1>3. CASE m.type = "integer"
    <2>1. Len(m.value) = 4
      BY <1>1, <1>2, <1>3
    <2>2. /\ Net(m.type, Kept(m.type, m.value, h), h) = Htonll(InMemory(m.value, h), h)
          /\ Kept(m.type, Net(m.type, m.value, h), h) = InMemory(Htonll(m.value, h), h)
      BY <1>2, <1>3 DEF Net, Kept
    <2>3. DataSize(m) = 4
      BY <1>2, <1>3 DEF DataSize
    <2>. QED
      BY <1>1, <2>1, <2>2, <2>3, NetInteger
  <1>4. CASE m.type = "float"
    <2>1. Len(m.value) = 2
      BY <1>1, <1>2, <1>4
    <2>2. /\ Net(m.type, Kept(m.type, m.value, h), h) = Htonl(InMemory(m.value, h), h)
          /\ Kept(m.type, Net(m.type, m.value, h), h) = InMemory(Htonl(m.value, h), h)
      BY <1>2, <1>4 DEF Net, Kept
    <2>3. DataSize(m) = 2
      BY <1>2, <1>4 DEF DataSize
    <2>4. /\ Htonl(InMemory(m.value, h), h) = m.value
          /\ InMemory(Htonl(m.value, h), h) = m.value
      BY <1>1, ReverseReverse DEF Htonl, InMemory
    <2>. QED
      BY <1>1, <2>1, <2>2, <2>3, <2>4
  <1>5. CASE m.type = "string"
    <2>1. /\ Net(m.type, Kept(m.type, m.value, h), h) = m.value
          /\ Kept(m.type, Net(m.type, m.value, h), h) = m.value
      BY <1>2, <1>5 DEF Net, Kept
    <2>2. DataSize(m) = Len(m.value)
      BY <1>2, <1>5 DEF DataSize
    <2>. QED
      BY <1>1, <2>1, <2>2
  <1>. QED
    BY <1>1, <1>3, <1>4, <1>5

-----------------------------------------------------------------------------
\* The units the metrics ms are written in.
Units(ms, h) == {Header(ms[i], h) : i \in 1 .. Len(ms)} \union {[byte |-> b] : b \in Byte}

\* A metric as bytes: its header, its name, its value.
LEMMA SerializedIs ==
  ASSUME NEW m, IsMetric(m), NEW h \in {"little", "big"}, NEW U,
         Header(m, h) \in U, \A b \in Byte : [byte |-> b] \in U
  PROVE  /\ Serialized(m, h) \in Seq(U)
         /\ Len(m.name) \in Nat /\ DataSize(m) \in Nat
         /\ Len(Serialized(m, h)) = 1 + Len(m.name) + DataSize(m)
         /\ Serialized(m, h)[1] = Header(m, h)
         /\ \A i \in 1 .. Len(m.name) : Serialized(m, h)[1 + i].byte = m.name[i]
         /\ \A i \in 1 .. DataSize(m) :
              Serialized(m, h)[1 + Len(m.name) + i].byte = Net(m.type, Kept(m.type, m.value, h), h)[i]
  <1>1. PICK d : d = Net(m.type, Kept(m.type, m.value, h), h)
    OBVIOUS
  <1>2. d \in Seq(Byte) /\ Len(d) = DataSize(m) /\ m.name \in Seq(Byte)
    BY <1>1, NetKeeps DEF IsMetric
  <1>3. PICK n, k \in Nat : n = Len(m.name) /\ k = DataSize(m) /\ k = Len(d)
    BY <1>2
  <1>4. PICK t : t = m.name \o d
    OBVIOUS
  <1>5. /\ t \in Seq(Byte) /\ Len(t) = n + k
        /\ \A i \in 1 .. n : t[i] = m.name[i]
        /\ \A i \in 1 .. k : t[n + i] = d[i]
    <2>1. Len(t) = n + k /\ t \in Seq(Byte)
      <3>1. d \in Seq(Byte) /\ m.name \in Seq(Byte)
        BY <1>2
      <3>2. Len(m.name \o d) = Len(m.name) + Len(d) /\ m.name \o d \in Seq(Byte)
        BY ONLY <3>1, ConcatProperties
      <3>. QED
        BY ONLY <1>3, <1>4, <3>2
    <2>2. \A i \in 1 .. n + k : t[i] = IF i <= n THEN m.name[i] ELSE d[i - n]
      <3>1. \A i \in 1 .. Len(m.name) + Len(d) :
              (m.name \o d)[i] = IF i <= Len(m.name) THEN m.name[i] ELSE d[i - Len(m.name)]
        BY <1>2, ConcatProperties
      <3>. QED
        BY <1>3, <1>4, <3>1
    <2>3. \A i \in 1 .. n : i \in 1 .. n + k /\ i <= n
      BY ONLY n \in Nat, k \in Nat
    <2>4. \A i \in 1 .. k : n + i \in 1 .. n + k /\ ~(n + i <= n) /\ n + i - n = i
      BY ONLY n \in Nat, k \in Nat
    <2>. QED
      BY <2>1, <2>2, <2>3, <2>4
  <1>6. PICK b : b = Bytes(t)
    OBVIOUS
  <1>7. b \in Seq(U) /\ Len(b) = n + k /\ \A i \in 1 .. n + k : b[i] = [byte |-> t[i]]
    <2>1. DOMAIN t = 1 .. n + k /\ \A i \in 1 .. n + k : t[i] \in Byte
      BY <1>5
    <2>2. b = [i \in 1 .. n + k |-> [byte |-> t[i]]]
      BY <1>6, <2>1 DEF Bytes
    <2>3. b \in [1 .. n + k -> U]
      BY <2>1, <2>2
    <2>4. n + k \in Nat /\ DOMAIN b = 1 .. n + k
      BY <1>3, <2>2
    <2>5. b \in Seq(U) /\ Len(b) = n + k
      BY <2>3, <2>4
    <2>. QED
      BY <2>2, <2>5
  <1>8. PICK a : a = <<Header(m, h)>>
    OBVIOUS
  <1>9. a \in Seq(U) /\ Len(a) = 1 /\ a[1] = Header(m, h)
    BY <1>8
  <1>10. PICK s : s = Serialized(m, h)
    OBVIOUS
  <1>11. s = a \o b
    BY <1>1, <1>4, <1>6, <1>8, <1>10 DEF Serialized
  <1>12. s \in Seq(U) /\ Len(s) = 1 + (n + k) /\ s[1] = Header(m, h)
         /\ \A i \in 1 .. n + k : s[1 + i] = b[i]
    <2>1. s \in Seq(U) /\ Len(s) = 1 + (n + k)
      <3>1. a \o b \in Seq(U) /\ Len(a \o b) = Len(a) + Len(b)
        BY <1>7, <1>9, ConcatProperties
      <3>. QED
        BY <1>7, <1>9, <1>11, <3>1
    <2>2. \A i \in 1 .. 1 + (n + k) : s[i] = IF i <= 1 THEN a[i] ELSE b[i - 1]
      <3>1. \A i \in 1 .. Len(a) + Len(b) : (a \o b)[i] = IF i <= Len(a) THEN a[i] ELSE b[i - Len(a)]
        BY <1>7, <1>9, ConcatProperties
      <3>. QED
        BY <1>7, <1>9, <1>11, <3>1
    <2>3. \A i \in 1 .. n + k : 1 + i \in 1 .. 1 + (n + k) /\ ~(1 + i <= 1) /\ 1 + i - 1 = i
      BY ONLY n \in Nat, k \in Nat
    <2>4. 1 \in 1 .. 1 + (n + k) /\ 1 <= 1
      BY ONLY n \in Nat, k \in Nat
    <2>. QED
      BY <1>9, <2>1, <2>2, <2>3, <2>4
  <1>13. \A i \in 1 .. n : s[1 + i].byte = m.name[i]
    <2>1. \A i \in 1 .. n : i \in 1 .. n + k
      BY ONLY n \in Nat, k \in Nat
    <2>. QED
      BY <1>5, <1>7, <1>12, <2>1
  <1>14. \A i \in 1 .. k : s[1 + n + i].byte = d[i]
    <2>1. \A i \in 1 .. k : n + i \in 1 .. n + k /\ 1 + n + i = 1 + (n + i)
      BY ONLY n \in Nat, k \in Nat
    <2>2. ASSUME NEW i \in 1 .. k PROVE s[1 + n + i].byte = d[i]
      <3>1. PICK j \in 1 .. n + k : j = n + i
        BY <2>1
      <3>2. s[1 + j] = b[j] /\ b[j] = [byte |-> t[j]] /\ 1 + n + i = 1 + j
        BY ONLY <1>7, <1>12, <2>1, <3>1, i \in 1 .. k
      <3>3. t[j] = d[i]
        BY ONLY <1>5, <3>1, i \in 1 .. k
      <3>. QED
        BY ONLY <3>2, <3>3
    <2>. QED
      BY ONLY <2>2
  <1>15. 1 + (n + k) = 1 + n + k
    BY <1>3
  <1>. QED
    BY <1>1, <1>3, <1>10, <1>12, <1>13, <1>14, <1>15

\* The units s are those of body after the first pos.
Holds(body, pos, s) == \A i \in 1 .. Len(s) : body[pos + i] = s[i]

\* Where these bytes are, the metric is read back.
LEMMA ReadBack ==
  ASSUME NEW m, IsMetric(m), NEW h \in {"little", "big"}, NEW k \in {"little", "big"},
         Len(m.name) < ShortMod, DataSize(m) < LongMod, NEW body, NEW pos \in Nat,
         Holds(body, pos, Serialized(m, h))
  PROVE  IsHeader(body[pos + 1]) /\ ReadMetric(body, pos, k) = m
  <1>. DEFINE U == {Header(m, h)} \union {[byte |-> b] : b \in Byte}
  <1>1. PICK s : s = Serialized(m, h)
    OBVIOUS
  <1>2. PICK d : d = Net(m.type, Kept(m.type, m.value, h), h)
    OBVIOUS
  <1>3. PICK n, z \in Nat : n = Len(m.name) /\ z = DataSize(m)
    <2>1. Header(m, h) \in U /\ \A b \in Byte : [byte |-> b] \in U
      OBVIOUS
    <2>. HIDE DEF U
    <2>. QED
      BY <2>1, SerializedIs
  <1>4. /\ Len(s) = 1 + n + z /\ s[1] = Header(m, h)
        /\ \A i \in 1 .. n : s[1 + i].byte = m.name[i]
        /\ \A i \in 1 .. z : s[1 + n + i].byte = d[i]
    <2>1. Header(m, h) \in U /\ \A b \in Byte : [byte |-> b] \in U
      OBVIOUS
    <2>. HIDE DEF U
    <2>. QED
      BY <1>1, <1>2, <1>3, <2>1, SerializedIs
  <1>5. \A i \in 1 .. 1 + n + z : body[pos + i] = s[i]
    BY <1>1, <1>4 DEF Holds
  <1>6. body[pos + 1] = Header(m, h)
    <2>1. 1 \in 1 .. 1 + n + z
      BY <1>3
    <2>. QED
      BY <1>4, <1>5, <2>1
  <1>7. IsHeader(body[pos + 1])
    BY <1>6 DEF IsHeader, Header
  <1>8. PICK hdr : hdr = body[pos + 1]
    OBVIOUS
  <1>a. m.clock \in [sec : 0 .. LongMod - 1, usec : 0 .. LongMod - 1]
    BY DEF IsMetric
  <1>b. PICK sec, usec : sec = m.clock.sec /\ usec = m.clock.usec
    OBVIOUS
  <1>c. /\ sec \in Nat /\ sec < LongMod /\ usec \in Nat /\ usec < LongMod
        /\ m.clock = [sec |-> sec, usec |-> usec]
    <2>1. LongMod \in Nat
      BY WireAssumption
    <2>2. sec \in 0 .. LongMod - 1 /\ usec \in 0 .. LongMod - 1
      BY <1>a, <1>b
    <2>. QED
      BY <1>a, <1>b, <2>1, <2>2
  <1>9. /\ HostLong(hdr.clock_sec, k) = sec /\ HostLong(hdr.clock_usec, k) = usec
        /\ hdr.type = m.type /\ hdr.flags = m.flags
        /\ HostShort(hdr.name_size, k) = n /\ HostLong(hdr.data_size, k) = z
    <2>1. /\ hdr.clock_sec = NetLong(sec, h) /\ hdr.clock_usec = NetLong(usec, h)
          /\ hdr.type = m.type /\ hdr.flags = m.flags
          /\ hdr.name_size = NetShort(n, h) /\ hdr.data_size = NetLong(z, h)
      BY <1>3, <1>6, <1>8, <1>b DEF Header
    <2>2. n < ShortMod /\ z < LongMod
      BY <1>3
    <2>. QED
      BY <1>c, <2>1, <2>2, NumbersArrive
  <1>10. BytesAt(body, pos + 1, n) = m.name
    <2>1. m.name \in Seq(Byte)
      BY DEF IsMetric
    <2>2. m.name = [i \in 1 .. n |-> m.name[i]]
      BY <1>3, <2>1
    <2>3. \A i \in 1 .. n : pos + 1 + i = pos + (1 + i) /\ 1 + i \in 1 .. 1 + n + z
      BY ONLY n \in Nat, z \in Nat, pos \in Nat
    <2>4. \A i \in 1 .. n : body[pos + 1 + i].byte = m.name[i]
      BY <1>4, <1>5, <2>3
    <2>. QED
      BY <2>2, <2>4 DEF BytesAt
  <1>11. BytesAt(body, pos + 1 + n, z) = d
    <2>1. d \in Seq(Byte) /\ Len(d) = z
      BY <1>2, <1>3, NetKeeps
    <2>2. d = [i \in 1 .. z |-> d[i]]
      BY <2>1
    <2>3. \A i \in 1 .. z : pos + 1 + n + i = pos + (1 + n + i) /\ 1 + n + i \in 1 .. 1 + n + z
      BY ONLY n \in Nat, z \in Nat, pos \in Nat
    <2>4. \A i \in 1 .. z : body[pos + 1 + n + i].byte = d[i]
      BY <1>4, <1>5, <2>3
    <2>. QED
      BY <2>2, <2>4 DEF BytesAt
  <1>12. Kept(m.type, Net(m.type, d, k), k) = m.value
    BY <1>2, NetKeeps
  <1>13. m = [name |-> m.name, clock |-> m.clock, type |-> m.type, flags |-> m.flags,
              value |-> m.value]
    BY DEF IsMetric
  <1>14. ReadMetric(body, pos, k) = m
    <2>1. ReadMetric(body, pos, k) = [name |-> m.name, clock |-> m.clock, type |-> m.type,
              flags |-> m.flags, value |-> Kept(m.type, Net(m.type, d, k), k)]
      BY <1>8, <1>9, <1>10, <1>11, <1>c DEF ReadMetric
    <2>. QED
      BY <1>12, <1>13, <2>1
  <1>. QED
    BY <1>7, <1>14

-----------------------------------------------------------------------------
\* The metrics ms, whose names fit the header.
Writable(ms) ==
  /\ Len(ms) \in Nat /\ DOMAIN ms = 1 .. Len(ms)
  /\ \A i \in 1 .. Len(ms) : IsMetric(ms[i]) /\ Len(ms[i].name) < ShortMod

\* Their bytes are those of each of them in turn.
LEMMA WrittenAccrues ==
  ASSUME NEW ms, Writable(ms), NEW h \in {"little", "big"}
  PROVE  Accrues(Written(ms, h), Pieces(ms, h), Len(ms), Units(ms, h))
  <1>. DEFINE U == Units(ms, h)
  <1>1. Len(ms) \in Nat
    BY DEF Writable
  <1>2. ASSUME NEW i \in 1 .. Len(ms) PROVE Serialized(ms[i], h) \in Seq(U)
    <2>1. IsMetric(ms[i])
      BY DEF Writable
    <2>2. Header(ms[i], h) \in U /\ \A b \in Byte : [byte |-> b] \in U
      BY DEF Units
    <2>. HIDE DEF U
    <2>. QED
      BY <2>1, <2>2, SerializedIs
  <1>. HIDE DEF U
  <1>3. Pieces(ms, h) \in [1 .. Len(ms) -> Seq(U)]
    BY <1>2 DEF Pieces
  <1>4. Accrues(Written(ms, h), Pieces(ms, h), Len(ms), U)
    BY <1>1, <1>3, WrittenIs
  <1>. QED
    BY <1>4 DEF U

\* The bytes of ms have come, with a header that counts some of them.
Arrived(body, hdr, ms, h) ==
  /\ body = Written(ms, h)[Len(ms)] /\ Len(body) < LongMod
  /\ hdr.count \in 0 .. Len(ms) /\ hdr.data_size = Len(body)

\* Each turn of the loop reads one of them and stands where it ends.
LEMMA TurnsRead ==
  ASSUME NEW ms, Writable(ms), NEW h \in {"little", "big"}, NEW k \in {"little", "big"},
         NEW body, NEW hdr, Arrived(body, hdr, ms, h)
  PROVE  Turns(body, hdr, k)[hdr.count].got = [j \in 1 .. hdr.count |-> ms[j]]
  <1>0. /\ body = Written(ms, h)[Len(ms)] /\ Len(body) < LongMod
        /\ hdr.count \in 0 .. Len(ms) /\ hdr.data_size = Len(body)
    BY DEF Arrived
  <1>. DEFINE U == Units(ms, h)
              s(i) == Serialized(ms[i], h)
  <1>1. PICK n \in Nat : n = Len(ms)
    BY DEF Writable
  <1>2. PICK m : m = hdr.count
    OBVIOUS
  <1>3. m \in 0 .. n /\ m \in Nat
    BY <1>0, <1>1, <1>2
  <1>4. PICK W : W = Written(ms, h)
    OBVIOUS
  <1>5. ASSUME NEW i \in 1 .. n
        PROVE  /\ IsMetric(ms[i]) /\ Len(ms[i].name) < ShortMod
               /\ Len(ms[i].name) \in Nat /\ DataSize(ms[i]) \in Nat
               /\ s(i) \in Seq(U) /\ Len(s(i)) = 1 + Len(ms[i].name) + DataSize(ms[i])
    <2>1. IsMetric(ms[i]) /\ Len(ms[i].name) < ShortMod
      BY <1>1 DEF Writable
    <2>2. Header(ms[i], h) \in U /\ \A b \in Byte : [byte |-> b] \in U
      BY <1>1 DEF Units
    <2>. HIDE DEF U
    <2>. QED
      BY <2>1, <2>2, SerializedIs
  <1>. HIDE DEF U
  <1>6. \E p : Accrues(W, p, n, U) /\ p = [i \in 1 .. n |-> s(i)]
    BY <1>1, <1>4, WrittenAccrues DEF Pieces, U
  <1>7. \A i \in 0 .. n : /\ W[i] \in Seq(U) /\ Len(W[i]) \in Nat
                          /\ Len(W[i]) <= Len(W[n])
                          /\ \A x \in 1 .. Len(W[i]) : W[n][x] = W[i][x]
    <2>1. PICK p : Accrues(W, p, n, U)
      BY <1>6
    <2>2. \A i \in 0 .. n : Len(W[i]) <= Len(W[n]) /\ \A x \in 1 .. Len(W[i]) : W[n][x] = W[i][x]
      BY <2>1, WrittenStays
    <2>3. \A i \in 0 .. n : W[i] \in Seq(U)
      BY <2>1 DEF Accrues
    <2>. QED
      BY <2>2, <2>3
  <1>a. W[0] = <<>> /\ \A i \in 1 .. n : W[i] = W[i - 1] \o s(i)
    BY <1>6 DEF Accrues
  <1>8. PICK g : g = [i \in 0 .. m |-> [pos |-> Len(W[i]), got |-> [j \in 1 .. i |-> ms[j]]]]
    OBVIOUS
  <1>9. ASSUME NEW i \in 1 .. m PROVE g[i] = ReadOne(body, hdr, g[i - 1], k)
    <2>1. i \in 1 .. n /\ i \in 0 .. n /\ i - 1 \in 0 .. n /\ i - 1 \in 0 .. m /\ i \in 0 .. m
      BY <1>3
    <2>2. PICK a, b, z \in Nat : a = Len(W[i - 1]) /\ b = Len(W[i]) /\ z = Len(s(i))
      <3>1. Len(W[i - 1]) \in Nat /\ Len(W[i]) \in Nat
        BY <1>7, <2>1
      <3>2. Len(s(i)) \in Nat
        BY <1>5, <2>1
      <3>. QED
        BY <3>1, <3>2
    <2>3. /\ b = a + z /\ z = 1 + Len(ms[i].name) + DataSize(ms[i]) /\ 1 <= z
          /\ \A x \in 1 .. a + z : W[i][x] = IF x <= a THEN W[i - 1][x] ELSE s(i)[x - a]
      <3>1. W[i - 1] \in Seq(U) /\ s(i) \in Seq(U) /\ W[i] = W[i - 1] \o s(i)
        BY <1>5, <1>7, <1>a, <2>1
      <3>2. /\ Len(W[i - 1] \o s(i)) = Len(W[i - 1]) + Len(s(i))
            /\ \A x \in 1 .. Len(W[i - 1]) + Len(s(i)) : (W[i - 1] \o s(i))[x]
                 = IF x <= Len(W[i - 1]) THEN W[i - 1][x] ELSE s(i)[x - Len(W[i - 1])]
        <4>1. PICK u, v : u = W[i - 1] /\ v = s(i)
          OBVIOUS
        <4>2. u \in Seq(U) /\ v \in Seq(U)
          BY <3>1, <4>1
        <4>3. Len(u \o v) = Len(u) + Len(v)
          BY <4>2, ConcatProperties
        <4>4. \A x \in 1 .. Len(u) + Len(v) :
                (u \o v)[x] = IF x <= Len(u) THEN u[x] ELSE v[x - Len(u)]
          BY <4>2, ConcatProperties
        <4>. QED
          BY <4>1, <4>3, <4>4
      <3>3. z = 1 + Len(ms[i].name) + DataSize(ms[i]) /\ 1 <= z
        BY <1>5, <2>1, <2>2
      <3>. QED
        BY <2>2, <3>1, <3>2, <3>3
    <2>4. \A x \in 1 .. z : body[a + x] = s(i)[x]
      <3>1. ASSUME NEW x \in 1 .. z PROVE body[a + x] = s(i)[x]
        <4>1. a + x \in 1 .. a + z /\ ~(a + x <= a) /\ (a + x) - a = x
          BY ONLY a \in Nat, z \in Nat, x \in 1 .. z
        <4>2. W[i][a + x] = s(i)[x]
          BY <2>3, <4>1
        <4>3. W[n][a + x] = W[i][a + x]
          BY <1>7, <2>1, <2>2, <2>3, <4>1
        <4>. QED
          BY <1>0, <1>1, <1>4, <4>2, <4>3
      <3>. QED
        BY <3>1
    <2>a. PICK total \in Nat : total = Len(W[n]) /\ hdr.data_size = total /\ total < LongMod
      <3>1. n \in 0 .. n /\ hdr.data_size = Len(W[n]) /\ Len(W[n]) < LongMod
        BY <1>0, <1>1, <1>4
      <3>. QED
        BY <1>7, <3>1
    <2>b. b <= total
      BY <1>7, <2>1, <2>2, <2>a
    <2>5. IsHeader(body[a + 1]) /\ ReadMetric(body, a, k) = ms[i]
      <3>1. Holds(body, a, Serialized(ms[i], h))
        BY <2>2, <2>4 DEF Holds
      <3>2. IsMetric(ms[i]) /\ Len(ms[i].name) < ShortMod
        BY <1>5, <2>1
      <3>3. DataSize(ms[i]) < LongMod
        <4>1. PICK x, y \in Nat : x = Len(ms[i].name) /\ y = DataSize(ms[i])
          BY <1>5, <2>1
        <4>2. b = a + z /\ z = 1 + x + y
          BY <2>3, <4>1
        <4>3. LongMod \in Nat
          BY WireAssumption
        <4>4. y < LongMod
          BY ONLY <2>a, <2>b, <4>2, <4>3, a \in Nat, b \in Nat, z \in Nat, total \in Nat, x \in Nat, y \in Nat
        <4>. QED
          BY <4>1, <4>4
      <3>. QED
        BY <3>1, <3>2, <3>3, ReadBack
    <2>6. ~(a >= hdr.data_size)
      BY <2>2, <2>3, <2>a, <2>b
    <2>7. PICK t : t = g[i - 1]
      OBVIOUS
    <2>8. t.pos = a /\ t.got = [j \in 1 .. i - 1 |-> ms[j]]
      BY <1>8, <2>1, <2>2, <2>7
    <2>9. ReadOne(body, hdr, t, k) = [pos |-> NextMetric(a, ms[i]), got |-> Append(t.got, ms[i])]
      BY <2>5, <2>6, <2>8 DEF ReadOne
    <2>10. NextMetric(a, ms[i]) = b
      <3>1. PICK x, y \in Nat : x = Len(ms[i].name) /\ y = DataSize(ms[i])
        BY <1>5, <2>1
      <3>2. NextMetric(a, ms[i]) = a + 1 + x + y
        BY <3>1 DEF NextMetric
      <3>3. b = a + z /\ z = 1 + x + y
        BY <2>3, <3>1
      <3>. QED
        BY ONLY <3>2, <3>3, a \in Nat, x \in Nat, y \in Nat
    <2>11. Append(t.got, ms[i]) = [j \in 1 .. i |-> ms[j]]
      <3>. DEFINE R == {ms[j] : j \in 1 .. n}
                  f == [j \in 1 .. i - 1 |-> ms[j]]
                  e == [j \in 1 .. i |-> ms[j]]
      <3>1. i - 1 \in Nat /\ i \in Nat /\ \A j \in 1 .. i : j \in 1 .. n
        BY <1>1, <2>1
      <3>2. \A j \in 1 .. n : ms[j] \in R
        OBVIOUS
      <3>. HIDE DEF R
      <3>3. f \in Seq(R) /\ Len(f) = i - 1 /\ \A j \in 1 .. i - 1 : f[j] = ms[j]
        BY <3>1, <3>2
      <3>4. e \in Seq(R) /\ Len(e) = i /\ \A j \in 1 .. i : e[j] = ms[j]
        BY <3>1, <3>2
      <3>5. /\ Append(f, ms[i]) \in Seq(R) /\ Len(Append(f, ms[i])) = Len(f) + 1
            /\ \A j \in 1 .. Len(f) : Append(f, ms[i])[j] = f[j]
            /\ Append(f, ms[i])[Len(f) + 1] = ms[i]
        BY <2>1, <3>2, <3>3, AppendProperties
      <3>6. PICK q : q = Append(f, ms[i])
        OBVIOUS
      <3>7. PICK r : r = e
        OBVIOUS
      <3>. HIDE DEF f, e
      <3>8. q \in Seq(R) /\ Len(q) = i /\ \A j \in 1 .. i : q[j] = ms[j]
        <4>1. Len(q) = i /\ q \in Seq(R) /\ q[i] = ms[i]
          BY <3>1, <3>3, <3>5, <3>6
        <4>2. \A j \in 1 .. i : j = i \/ j \in 1 .. i - 1
          BY <3>1
        <4>3. \A j \in 1 .. i - 1 : q[j] = ms[j]
          BY <3>3, <3>5, <3>6
        <4>. QED
          BY <4>1, <4>2, <4>3
      <3>9. q = r
        BY <3>4, <3>7, <3>8
      <3>. QED
        BY <2>8, <3>6, <3>7, <3>9 DEF f, e
    <2>12. g[i] = [pos |-> b, got |-> [j \in 1 .. i |-> ms[j]]]
      BY <1>8, <2>1, <2>2
    <2>. QED
      BY <2>7, <2>9, <2>10, <2>11, <2>12
  <1>10. PICK z : z = [pos |-> 0, got |-> <<>>]
    OBVIOUS
  <1>11. g[0] = z
    <2>1. 0 \in 0 .. m /\ Len(W[0]) = 0 /\ [j \in 1 .. 0 |-> ms[j]] = <<>>
      BY <1>3, <1>a
    <2>. QED
      BY <1>8, <1>10, <2>1
  <1>. DEFINE Rec(f) == f = [i \in 0 .. m |-> IF i = 0 THEN z ELSE ReadOne(body, hdr, f[i - 1], k)]
  <1>12. Rec(g)
    <2>1. ASSUME NEW i \in 0 .. m PROVE g[i] = IF i = 0 THEN z ELSE ReadOne(body, hdr, g[i - 1], k)
      <3>1. CASE i = 0
        BY <1>11, <3>1
      <3>2. CASE i # 0
        <4>1. i \in 1 .. m
          BY <1>3, <3>2
        <4>. QED
          BY <1>9, <3>2, <4>1
      <3>. QED
        BY <3>1, <3>2
    <2>2. g = [i \in 0 .. m |-> g[i]]
      BY <1>8
    <2>. QED
      BY <2>1, <2>2
  <1>13. PICK T : T = Turns(body, hdr, k)
    OBVIOUS
  <1>14. T = CHOOSE f : Rec(f)
    BY <1>2, <1>10, <1>13 DEF Turns
  <1>15. Rec(T)
    <2>. HIDE DEF Rec
    <2>. QED
      BY <1>12, <1>14
  <1>16. \A i \in 0 .. m : T[i] = g[i]
    <2>. DEFINE C == {i \in 0 .. m : T[i] = g[i]}
    <2>1. 0 \in C
      BY <1>3, <1>11, <1>15
    <2>2. ASSUME NEW i \in 1 .. m, i - 1 \in C PROVE i \in C
      <3>1. i \in 0 .. m /\ i # 0 /\ T[i - 1] = g[i - 1]
        BY <1>3, <2>2
      <3>2. T[i] = ReadOne(body, hdr, T[i - 1], k)
        BY <1>15, <3>1
      <3>. QED
        BY <1>9, <3>1, <3>2
    <2>3. \A i \in 0 .. m : i \in C
      <3>. HIDE DEF C
      <3>. QED
        BY <1>3, <2>1, <2>2, UpTo
    <2>. QED
      BY <2>3
  <1>17. m \in 0 .. m
    BY <1>3
  <1>18. T[m] = g[m] /\ g[m].got = [j \in 1 .. m |-> ms[j]]
    BY <1>8, <1>16, <1>17
  <1>. QED
    BY <1>2, <1>13, <1>18

\* With a list of them as a list's header says it is.
LEMMA ReadIs ==
  ASSUME NEW l \in Lists, NEW c, NEW h \in {"little", "big"}, NEW k \in {"little", "big"},
         Writable(Metrics(l, c)), size[l] = Len(Metrics(l, c)),
         Len(Serialize(l, c, h).body) < LongMod
  PROVE  LET ms == Metrics(l, c) IN
         /\ size[l] % ShortMod \in 0 .. Len(ms)
         /\ Unserialize(Serialize(l, c, h), k) = [j \in 1 .. size[l] % ShortMod |-> ms[j]]
  <1>1. PICK ms : ms = Metrics(l, c)
    OBVIOUS
  <1>2. PICK list : list = Serialize(l, c, h)
    OBVIOUS
  <1>3. /\ list.count = NetShort(size[l], h) /\ list.body = Written(ms, h)[Len(ms)]
        /\ list.data_size = NetLong(Len(list.body), h)
    BY <1>1, <1>2 DEF Serialize
  <1>4. PICK n \in Nat : n = Len(ms) /\ n = size[l]
    BY <1>1 DEF Writable
  <1>5. n % ShortMod \in 0 .. n
    <2>1. ShortMod \in Nat \ {0}
      BY WireAssumption
    <2>. QED
      BY ONLY <2>1, n \in Nat
  <1>a. PICK b : b = Len(list.body)
    OBVIOUS
  <1>b. b \in Nat /\ b < LongMod
    <2>1. Written(ms, h) \in [0 .. n -> Seq(Units(ms, h))]
      BY <1>1, <1>4, WrittenAccrues DEF Accrues
    <2>2. n \in 0 .. n
      BY <1>4
    <2>. QED
      BY <1>2, <1>3, <1>4, <1>a, <2>1, <2>2
  <1>c. PICK hdr : hdr = ListHeader(list, k)
    OBVIOUS
  <1>6. hdr.count = n % ShortMod /\ hdr.data_size = b
    BY <1>3, <1>4, <1>a, <1>b, <1>c, NumbersArrive DEF ListHeader
  <1>7. Turns(list.body, hdr, k)[hdr.count].got = [j \in 1 .. hdr.count |-> ms[j]]
    <2>1. hdr.count \in 0 .. Len(ms) /\ hdr.data_size = Len(list.body) /\ Len(list.body) < LongMod
      BY <1>4, <1>5, <1>6, <1>a, <1>b
    <2>2. Writable(ms)
      BY <1>1
    <2>3. Arrived(list.body, hdr, ms, h)
      BY <1>3, <2>1 DEF Arrived
    <2>. QED
      BY <2>2, <2>3, TurnsRead
  <1>. QED
    BY <1>1, <1>2, <1>4, <1>5, <1>6, <1>7, <1>c DEF Unserialize

LEMMA IInvReads == IInv => ReadAsWritten
  <1>. SUFFICES ASSUME IInv, NEW l \in Lists, NEW c \in Contents, NEW h \in Hosts, NEW k \in Hosts,
                       \A w \in Weights : Len(c[w].name) < ShortMod,
                       Len(Serialize(l, c, h).body) < LongMod
                PROVE  LET read == Unserialize(Serialize(l, c, h), k)
                       IN  /\ IsPrefix(read, Metrics(l, c))
                           /\ size[l] < ShortMod => Len(read) = Cardinality(Reachable(first[l]))
    BY DEF ReadAsWritten
  <1>1. PICK d : Owns(d) /\ TypeOK
    BY DEF IInv
  <1>2. /\ d[l] \in Seq(Nodes) /\ size[l] = Len(d[l])
        /\ Chain(l) = d[l] /\ Cardinality(Reachable(first[l])) = Len(d[l])
    <2>1. d[l] \in Seq(Nodes) /\ size[l] = Len(d[l])
      BY <1>1, OwnsFacts
    <2>2. Chain(l) = d[l] /\ Cardinality(Reachable(first[l])) = Len(d[l])
      BY <1>1, OwnsChains
    <2>. QED
      BY <2>1, <2>2
  <1>3. PICK n \in Nat : n = Len(d[l])
    BY <1>2
  <1>4. PICK ms : ms = Metrics(l, c)
    OBVIOUS
  <1>5. ms = [i \in 1 .. n |-> c[weight[Walk(first[l])[i - 1]]]]
    BY <1>2, <1>3, <1>4 DEF Metrics
  <1>6. \A i \in 1 .. n : weight[Walk(first[l])[i - 1]] \in Weights
    <2>1. \A i \in 1 .. n : Walk(first[l])[i - 1] = d[l][i]
      <3>1. Chain(l) = [i \in 1 .. n |-> Walk(first[l])[i - 1]]
        BY <1>2, <1>3 DEF Chain
      <3>. QED
        BY <1>2, <3>1
    <2>2. \A i \in 1 .. n : d[l][i] \in Nodes
      BY <1>2, <1>3, ElementOfSeq
    <2>3. weight \in [Nodes -> Weights]
      BY <1>1 DEF TypeOK
    <2>. QED
      BY <2>1, <2>2, <2>3
  <1>7. Len(ms) = n /\ DOMAIN ms = 1 .. n
    BY <1>5
  <1>8. Writable(ms)
    <2>1. \A i \in 1 .. n : IsMetric(ms[i]) /\ Len(ms[i].name) < ShortMod
      BY <1>5, <1>6, WireAssumption
    <2>. QED
      BY <1>7, <2>1 DEF Writable
  <1>9. PICK m : m = size[l] % ShortMod
    OBVIOUS
  <1>10. m \in 0 .. n /\ Unserialize(Serialize(l, c, h), k) = [j \in 1 .. m |-> ms[j]]
    <2>1. h \in {"little", "big"} /\ k \in {"little", "big"}
      BY WireAssumption
    <2>2. Writable(Metrics(l, c)) /\ size[l] = Len(Metrics(l, c))
      BY <1>2, <1>3, <1>4, <1>7, <1>8
    <2>. QED
      BY <1>4, <1>7, <1>9, <2>1, <2>2, ReadIs
  <1>11. PICK read : read = Unserialize(Serialize(l, c, h), k)
    OBVIOUS
  <1>12. m \in Nat /\ m <= n /\ read = [j \in 1 .. m |-> ms[j]]
    BY <1>3, <1>10, <1>11
  <1>13. Len(read) = m
    BY <1>12
  <1>14. IsPrefix(read, ms)
    <2>1. \A j \in 1 .. m : j \in 1 .. n /\ read[j] = ms[j]
      BY <1>3, <1>12
    <2>2. SubSeq(read, 1, m) = [j \in 1 .. m |-> read[1 + j - 1]]
      BY <1>12 DEF SubSeq
    <2>3. SubSeq(ms, 1, m) = [j \in 1 .. m |-> ms[1 + j - 1]]
      BY <1>12 DEF SubSeq
    <2>4. \A j \in 1 .. m : 1 + j - 1 = j
      OBVIOUS
    <2>5. SubSeq(read, 1, m) = SubSeq(ms, 1, m)
      BY <2>1, <2>2, <2>3, <2>4
    <2>. QED
      BY <1>7, <1>12, <1>13, <2>5 DEF IsPrefix
  <1>15. size[l] < ShortMod => m = n
    <2>1. ShortMod \in Nat \ {0} /\ size[l] = n
      BY <1>2, <1>3, WireAssumption
    <2>2. n < ShortMod => n % ShortMod = n
      BY ONLY <2>1, n \in Nat
    <2>. QED
      BY <1>9, <2>1, <2>2
  <1>. QED
    BY <1>2, <1>3, <1>4, <1>11, <1>13, <1>14, <1>15

\* What a host of any order writes of a list, a host of any order reads as the
\* beginning of that list, headers and values, and all of it when its size fits the
\* header (metric_list_serialize.c:33-52, metric_list_unserialize.c:34-41, 57-81).
THEOREM ListsReadAsWritten == Spec => []ReadAsWritten
  BY SpecIInv, IInvReads, PTL
=============================================================================
