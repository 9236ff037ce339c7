------------------------- MODULE MetricStoreProofs -------------------------
(***************************************************************************)
(* Theorems about MetricStore, for every set of inputs, any number of      *)
(* pushes and every width of the integers and of the clock.                *)
(*                                                                         *)
(* What the store counts are sums over its lists (Total), and each push    *)
(* changes one term or adds one.  That the sums then change by as much is  *)
(* shown by induction, for which UpTo stands: a set of numbers that has 0  *)
(* and with each number the next one has them all.                         *)
(*                                                                         *)
(* The types and the bytes hold however the clock moves.  That a baseline  *)
(* is the last delta of its name, and so that the differences add up,      *)
(* needs clocks that go forward; the hypotheses say how far.               *)
(***************************************************************************)
EXTENDS MetricStore, WellFoundedInduction, TLAPS

-----------------------------------------------------------------------------
(* Induction and sums *)

LEMMA LeastOf ==
  ASSUME NEW D, D \subseteq Nat, D # {}
  PROVE  \E x \in D : \A y \in D : x <= y
  <1>1. \E x \in D : \A y \in D : ~(<<y, x>> \in OpToRel(<, Nat))
    BY NatLessThanWellFounded, WFMin
  <1>2. \A x, y \in Nat : <<y, x>> \in OpToRel(<, Nat) <=> y < x
    BY DEF OpToRel
  <1>3. PICK x \in D : \A y \in D : ~(y < x)
    BY <1>1, <1>2
  <1>. QED
    BY <1>3

LEMMA UpTo ==
  ASSUME NEW n \in Nat, NEW C, C \subseteq 0 .. n, 0 \in C,
         \A k \in 1 .. n : k - 1 \in C => k \in C
  PROVE  C = 0 .. n
  <1>. SUFFICES ASSUME (0 .. n) \ C # {} PROVE FALSE
    OBVIOUS
  <1>1. PICK x \in (0 .. n) \ C : \A y \in (0 .. n) \ C : x <= y
    <2>. DEFINE D == (0 .. n) \ C
    <2>1. D \subseteq Nat /\ D # {}
      OBVIOUS
    <2>. HIDE DEF D
    <2>2. \E x \in D : \A y \in D : x <= y
      BY <2>1, LeastOf
    <2>. QED
      BY <2>2 DEF D
  <1>2. x \in 1 .. n /\ x - 1 \in 0 .. n /\ x - 1 < x
    <2>1. x \in 0 .. n /\ x # 0
      OBVIOUS
    <2>. QED
      BY ONLY <2>1, n \in Nat
  <1>3. x - 1 \in C
    BY <1>1, <1>2
  <1>. QED
    BY <1>2, <1>3

\* The sums of Total, for the n numbers of f.
Sums(f, n) ==
  LET sum[k \in 0 .. n] == IF k = 0 THEN 0 ELSE sum[k - 1] + f[k]
  IN  sum

\* h gives the sums up to n.
SumsTo(h, f, n) ==
  /\ h \in [0 .. n -> Int] /\ h[0] = 0
  /\ \A k \in 1 .. n : h[k] = h[k - 1] + f[k]

LEMMA SumsExist ==
  ASSUME NEW n \in Nat, NEW f \in [1 .. n -> Int]
  PROVE  \E h : SumsTo(h, f, n)
  <1>. DEFINE C == {m \in 0 .. n : \E h : SumsTo(h, f, m)}
  <1>1. 0 \in C
    <2>1. SumsTo([i \in 0 .. 0 |-> 0], f, 0)
      BY DEF SumsTo
    <2>. QED
      BY <2>1
  <1>2. ASSUME NEW m \in 1 .. n, m - 1 \in C PROVE m \in C
    <2>1. PICK h : SumsTo(h, f, m - 1)
      BY <1>2
    <2>. DEFINE y == h[m - 1] + f[m]
                g == [i \in 0 .. m |-> IF i = m THEN y ELSE h[i]]
    <2>2. m \in Nat /\ m # 0 /\ m - 1 \in 0 .. m - 1
      OBVIOUS
    <2>3. h \in [0 .. m - 1 -> Int] /\ h[0] = 0 /\ y \in Int
      BY <2>1, <2>2 DEF SumsTo
    <2>. HIDE DEF y
    <2>4. g \in [0 .. m -> Int] /\ g[0] = 0
      BY <2>2, <2>3
    <2>5. ASSUME NEW k \in 1 .. m PROVE g[k] = g[k - 1] + f[k]
      <3>1. CASE k = m
        <4>1. g[k] = y /\ g[k - 1] = h[m - 1]
          BY <2>2, <3>1
        <4>. QED
          BY <3>1, <4>1 DEF y
      <3>2. CASE k # m
        <4>1. k \in 1 .. m - 1 /\ g[k] = h[k] /\ g[k - 1] = h[k - 1]
          BY <2>2, <3>2
        <4>. HIDE DEF g
        <4>. QED
          BY <2>1, <4>1 DEF SumsTo
      <3>. QED
        BY <3>1, <3>2
    <2>6. SumsTo(g, f, m)
      <3>. HIDE DEF g
      <3>. QED
        BY <2>4, <2>5 DEF SumsTo
    <2>7. m \in 0 .. n
      OBVIOUS
    <2>. QED
      BY <2>6, <2>7
  <1>3. C = 0 .. n
    <2>1. C \subseteq 0 .. n
      OBVIOUS
    <2>. HIDE DEF C
    <2>. QED
      BY <1>1, <1>2, <2>1, UpTo
  <1>4. n \in 0 .. n
    OBVIOUS
  <1>. QED
    BY <1>3, <1>4

LEMMA SumsAre ==
  ASSUME NEW n \in Nat, NEW f \in [1 .. n -> Int]
  PROVE  SumsTo(Sums(f, n), f, n)
  <1>. DEFINE Rec(h) == h = [k \in 0 .. n |-> IF k = 0 THEN 0 ELSE h[k - 1] + f[k]]
              S == Sums(f, n)
  <1>1. PICK h : SumsTo(h, f, n)
    BY SumsExist
  <1>2. S = CHOOSE g : Rec(g)
    BY DEF Sums
  <1>. HIDE DEF S
  <1>3. Rec(h)
    <2>1. h = [k \in 0 .. n |-> h[k]]
      BY <1>1 DEF SumsTo
    <2>2. \A k \in 0 .. n : h[k] = IF k = 0 THEN 0 ELSE h[k - 1] + f[k]
      BY <1>1 DEF SumsTo
    <2>. QED
      BY <2>1, <2>2
  <1>4. Rec(S)
    <2>. HIDE DEF Rec
    <2>. QED
      BY <1>2, <1>3
  <1>. DEFINE C == {k \in 0 .. n : S[k] = h[k]}
  <1>5. 0 \in C
    BY <1>3, <1>4
  <1>6. ASSUME NEW k \in 1 .. n, k - 1 \in C PROVE k \in C
    <2>1. k \in 0 .. n /\ k # 0 /\ S[k - 1] = h[k - 1]
      BY <1>6
    <2>. QED
      BY <1>3, <1>4, <2>1
  <1>7. C = 0 .. n
    <2>1. C \subseteq 0 .. n
      OBVIOUS
    <2>. HIDE DEF C
    <2>. QED
      BY <1>5, <1>6, <2>1, UpTo
  <1>8. S = h
    <2>1. S = [i \in 0 .. n |-> S[i]] /\ h = [i \in 0 .. n |-> h[i]]
      BY <1>3, <1>4
    <2>. QED
      BY <1>7, <2>1
  <1>. QED
    BY <1>1, <1>8 DEF S

LEMMA SumsFacts ==
  ASSUME NEW n \in Nat, NEW f \in [1 .. n -> Int]
  PROVE  /\ Sums(f, n)[0] = 0
         /\ \A k \in 0 .. n : Sums(f, n)[k] \in Int
         /\ \A k \in 1 .. n : Sums(f, n)[k] = Sums(f, n)[k - 1] + f[k]
  BY SumsAre DEF SumsTo

\* f and g are the same up to a, except perhaps at i.
Differ(f, g, a, i) == \A j \in 1 .. a : j # i => g[j] = f[j]

\* So are their sums, by the difference there.
LEMMA SumsDiffer ==
  ASSUME NEW n \in Nat, NEW f \in [1 .. n -> Int], NEW m \in Nat, NEW g \in [1 .. m -> Int],
         NEW a \in Nat, a <= n, a <= m, NEW i \in 0 .. a, Differ(f, g, a, i)
  PROVE  Sums(g, m)[a] = Sums(f, n)[a] + (IF i = 0 THEN 0 ELSE g[i] - f[i])
  <1>. DEFINE F == Sums(f, n)
              G == Sums(g, m)
              d == IF i = 0 THEN 0 ELSE g[i] - f[i]
              C == {k \in 0 .. a : G[k] = F[k] + (IF k < i THEN 0 ELSE d)}
  <1>1. /\ F[0] = 0 /\ \A k \in 0 .. n : F[k] \in Int
        /\ \A k \in 1 .. n : F[k] = F[k - 1] + f[k]
    BY SumsFacts
  <1>2. /\ G[0] = 0 /\ \A k \in 0 .. m : G[k] \in Int
        /\ \A k \in 1 .. m : G[k] = G[k - 1] + g[k]
    BY SumsFacts
  <1>3. d \in Int /\ (i # 0 => d = g[i] - f[i]) /\ (i = 0 => d = 0)
    <2>1. i # 0 => i \in 1 .. n /\ i \in 1 .. m
      OBVIOUS
    <2>2. i # 0 => g[i] \in Int /\ f[i] \in Int
      BY <2>1
    <2>. QED
      BY <2>2
  <1>4. \A j \in 1 .. a : j # i => g[j] = f[j]
    BY DEF Differ
  <1>. HIDE DEF F, G, d
  <1>5. 0 \in C
    <2>1. 0 \in 0 .. a /\ (0 < i \/ i = 0)
      OBVIOUS
    <2>2. G[0] = F[0] + (IF 0 < i THEN 0 ELSE d)
      BY <1>1, <1>2, <1>3, <2>1
    <2>. QED
      BY <2>1, <2>2
  <1>6. ASSUME NEW k \in 1 .. a, k - 1 \in C PROVE k \in C
    <2>1. G[k - 1] = F[k - 1] + (IF k - 1 < i THEN 0 ELSE d)
      BY <1>6
    <2>2. /\ k \in 1 .. n /\ k \in 1 .. m /\ k - 1 \in 0 .. n /\ k - 1 \in 0 .. m
          /\ k \in 0 .. a /\ k \in Nat /\ i \in Nat
      OBVIOUS
    <2>3. PICK x, y, u, v \in Int : x = F[k - 1] /\ y = G[k - 1] /\ u = f[k] /\ v = g[k]
      BY <1>1, <1>2, <2>2
    <2>4. F[k] = x + u /\ G[k] = y + v
      BY <1>1, <1>2, <2>2, <2>3
    <2>5. CASE k < i
      <3>1. y = x /\ v = u
        BY <1>4, <2>1, <2>2, <2>3, <2>5
      <3>. QED
        BY <2>2, <2>4, <2>5, <3>1
    <2>6. CASE k = i
      <3>0. k - 1 < i /\ i # 0 /\ x + 0 = x
        BY <2>2, <2>6
      <3>1. y = x
        BY <2>1, <2>3, <3>0
      <3>2. d = v - u
        BY <1>3, <2>3, <2>6, <3>0
      <3>. QED
        BY <2>2, <2>4, <2>6, <3>1, <3>2
    <2>7. CASE k > i
      <3>1. y = x + d /\ v = u
        BY <1>3, <1>4, <2>1, <2>2, <2>3, <2>7
      <3>. QED
        BY <1>3, <2>2, <2>4, <2>7, <3>1
    <2>. QED
      BY <2>2, <2>5, <2>6, <2>7
  <1>7. C = 0 .. a
    <2>1. C \subseteq 0 .. a
      OBVIOUS
    <2>. HIDE DEF C
    <2>. QED
      BY <1>5, <1>6, <2>1, UpTo
  <1>8. a \in C /\ ~(a < i)
    BY <1>7
  <1>. QED
    BY <1>8 DEF F, G, d

\* The numbers of a list.
LEMMA TotalIs ==
  ASSUME NEW n \in Nat, NEW f \in [1 .. n -> Int]
  PROVE  /\ Total(f) = Sums(f, n)[n] /\ Total(f) \in Int
  <1>1. Len(f) = n
    OBVIOUS
  <1>2. Total(f) = Sums(f, n)[n]
    BY <1>1 DEF Total, Sums
  <1>3. n \in 0 .. n
    OBVIOUS
  <1>. QED
    BY <1>2, <1>3, SumsFacts

LEMMA TotalEmpty ==
  ASSUME NEW f \in [1 .. 0 -> Int]
  PROVE  Total(f) = 0
  BY TotalIs, SumsFacts

\* A number more.
LEMMA TotalMore ==
  ASSUME NEW n \in Nat, NEW f \in [1 .. n -> Int], NEW g \in [1 .. n + 1 -> Int],
         Differ(f, g, n, 0)
  PROVE  Total(g) = Total(f) + g[n + 1]
  <1>1. Sums(g, n + 1)[n] = Sums(f, n)[n]
    <2>1. 0 \in 0 .. n /\ n <= n /\ n <= n + 1 /\ n + 1 \in Nat
      OBVIOUS
    <2>2. Sums(g, n + 1)[n] = Sums(f, n)[n] + (IF 0 = 0 THEN 0 ELSE g[0] - f[0])
      BY <2>1, SumsDiffer
    <2>3. Sums(f, n)[n] \in Int
      BY TotalIs
    <2>. QED
      BY <2>2, <2>3
  <1>2. n + 1 \in 1 .. n + 1 /\ (n + 1) - 1 = n
    OBVIOUS
  <1>3. Sums(g, n + 1)[n + 1] = Sums(g, n + 1)[n] + g[n + 1]
    BY <1>2, SumsFacts
  <1>. QED
    BY <1>1, <1>3, TotalIs

\* A number replaced.
LEMMA TotalChanged ==
  ASSUME NEW n \in Nat, NEW f \in [1 .. n -> Int], NEW g \in [1 .. n -> Int],
         NEW i \in 1 .. n, Differ(f, g, n, i)
  PROVE  Total(g) = Total(f) + (g[i] - f[i])
  <1>1. i \in 0 .. n /\ i # 0 /\ n <= n
    OBVIOUS
  <1>2. Sums(g, n)[n] = Sums(f, n)[n] + (IF i = 0 THEN 0 ELSE g[i] - f[i])
    BY <1>1, SumsDiffer
  <1>. QED
    BY <1>1, <1>2, TotalIs
-----------------------------------------------------------------------------
(* What an eviction leaves *)

AnyMetric == Metric(SUBSET Flags)

\* The lists of Kept.
KeptIn(s, clock) ==
  LET kept[n \in 0 .. Len(s)] ==
        IF n = 0 THEN <<>>
        ELSE IF Evictable(s[n], clock) THEN kept[n - 1] ELSE Append(kept[n - 1], s[n])
  IN  kept

KeptTo(h, s, clock, n) ==
  /\ h \in [0 .. n -> Seq(AnyMetric)] /\ h[0] = <<>>
  /\ \A k \in 1 .. n :
       h[k] = IF Evictable(s[k], clock) THEN h[k - 1] ELSE Append(h[k - 1], s[k])

LEMMA KeptExists ==
  ASSUME NEW s \in Seq(AnyMetric), NEW clock
  PROVE  \E h : KeptTo(h, s, clock, Len(s))
  <1>. DEFINE N == Len(s)
              C == {m \in 0 .. N : \E h : KeptTo(h, s, clock, m)}
  <1>0. N \in Nat /\ \A m \in 1 .. N : s[m] \in AnyMetric
    OBVIOUS
  <1>. HIDE DEF N
  <1>1. 0 \in C
    <2>1. KeptTo([i \in 0 .. 0 |-> <<>>], s, clock, 0)
      BY DEF KeptTo
    <2>. QED
      BY <1>0, <2>1
  <1>2. ASSUME NEW m \in 1 .. N, m - 1 \in C PROVE m \in C
    <2>1. PICK h : KeptTo(h, s, clock, m - 1)
      BY <1>2
    <2>2. m \in Nat /\ m # 0 /\ m - 1 \in 0 .. m - 1 /\ m \in 0 .. N /\ m - 1 \in Nat
      BY <1>0
    <2>3. PICK y : y = IF Evictable(s[m], clock) THEN h[m - 1] ELSE Append(h[m - 1], s[m])
      OBVIOUS
    <2>4. h \in [0 .. m - 1 -> Seq(AnyMetric)] /\ h[0] = <<>> /\ y \in Seq(AnyMetric)
      BY <1>0, <2>1, <2>2, <2>3 DEF KeptTo
    <2>5. PICK g : g = [i \in 0 .. m |-> IF i = m THEN y ELSE h[i]]
      OBVIOUS
    <2>6. g \in [0 .. m -> Seq(AnyMetric)] /\ g[0] = <<>>
      <3>1. ASSUME NEW i \in 0 .. m PROVE g[i] \in Seq(AnyMetric)
        <4>1. CASE i = m
          BY <2>2, <2>4, <2>5, <4>1
        <4>2. CASE i # m
          <5>1. i \in 0 .. m - 1 /\ g[i] = h[i]
            BY <2>2, <2>5, <4>2
          <5>. QED
            BY <2>4, <5>1
        <4>. QED
          BY <4>1, <4>2
      <3>2. g = [i \in 0 .. m |-> g[i]]
        BY <2>5
      <3>3. 0 \in 0 .. m /\ 0 # m
        BY <2>2
      <3>. QED
        BY <2>4, <2>5, <3>1, <3>2, <3>3
    <2>7. ASSUME NEW k \in 1 .. m
          PROVE  g[k] = IF Evictable(s[k], clock) THEN g[k - 1] ELSE Append(g[k - 1], s[k])
      <3>1. CASE k = m
        <4>1. g[k] = y /\ g[k - 1] = h[m - 1]
          BY <2>2, <2>5, <3>1
        <4>. QED
          BY <2>3, <3>1, <4>1
      <3>2. CASE k # m
        <4>1. k \in 1 .. m - 1 /\ g[k] = h[k] /\ g[k - 1] = h[k - 1]
          BY <2>2, <2>5, <3>2
        <4>. QED
          BY <2>1, <4>1 DEF KeptTo
      <3>. QED
        BY <3>1, <3>2
    <2>8. KeptTo(g, s, clock, m)
      BY <2>6, <2>7 DEF KeptTo
    <2>. QED
      BY <2>2, <2>8
  <1>3. C = 0 .. N
    <2>1. C \subseteq 0 .. N
      OBVIOUS
    <2>. HIDE DEF C
    <2>. QED
      BY <1>0, <1>1, <1>2, <2>1, UpTo
  <1>4. N \in 0 .. N
    BY <1>0
  <1>. QED
    BY <1>3, <1>4 DEF N

LEMMA KeptIs ==
  ASSUME NEW s \in Seq(AnyMetric), NEW clock
  PROVE  KeptTo(KeptIn(s, clock), s, clock, Len(s)) /\ Kept(s, clock) = KeptIn(s, clock)[Len(s)]
  <1>. DEFINE n == Len(s)
              K == KeptIn(s, clock)
              Next1(h, k) ==
                IF k = 0 THEN <<>>
                ELSE IF Evictable(s[k], clock) THEN h[k - 1] ELSE Append(h[k - 1], s[k])
              Rec(h) == h = [k \in 0 .. n |-> Next1(h, k)]
  <1>0. n \in Nat
    OBVIOUS
  <1>1. PICK h : KeptTo(h, s, clock, n)
    BY KeptExists
  <1>2. K = CHOOSE g : Rec(g)
    BY DEF KeptIn
  <1>9. Kept(s, clock) = K[n]
    BY DEF Kept, KeptIn
  <1>. HIDE DEF K, n
  <1>3. Rec(h)
    <2>1. h = [k \in 0 .. n |-> h[k]]
      BY <1>1 DEF KeptTo
    <2>2. \A k \in 0 .. n : h[k] = Next1(h, k)
      <3>1. h[0] = <<>> /\ \A k \in 1 .. n :
              h[k] = IF Evictable(s[k], clock) THEN h[k - 1] ELSE Append(h[k - 1], s[k])
        BY <1>1 DEF KeptTo
      <3>2. \A k \in 0 .. n : k = 0 \/ (k # 0 /\ k \in 1 .. n)
        BY <1>0
      <3>. QED
        BY <3>1, <3>2
    <2>. HIDE DEF Next1
    <2>. QED
      BY <2>1, <2>2
  <1>4. Rec(K)
    <2>. HIDE DEF Rec
    <2>. QED
      BY <1>2, <1>3
  <1>. DEFINE C == {k \in 0 .. n : K[k] = h[k]}
  <1>a. \A k \in 0 .. n : K[k] = Next1(K, k) /\ h[k] = Next1(h, k)
    <2>. HIDE DEF Next1
    <2>. QED
      BY <1>3, <1>4
  <1>5. 0 \in C
    BY <1>0, <1>a
  <1>6. ASSUME NEW k \in 1 .. n, k - 1 \in C PROVE k \in C
    <2>1. k \in 0 .. n /\ k # 0 /\ K[k - 1] = h[k - 1]
      BY <1>0, <1>6
    <2>2. Next1(K, k) = Next1(h, k)
      BY <2>1
    <2>. HIDE DEF Next1
    <2>. QED
      BY <1>a, <2>1, <2>2
  <1>7. C = 0 .. n
    <2>1. C \subseteq 0 .. n
      OBVIOUS
    <2>. HIDE DEF C
    <2>. QED
      BY <1>0, <1>5, <1>6, <2>1, UpTo
  <1>8. K = h
    <2>1. K = [i \in 0 .. n |-> K[i]] /\ h = [i \in 0 .. n |-> h[i]]
      <3>. HIDE DEF Next1
      <3>. QED
        BY <1>3, <1>4
    <2>. QED
      BY <1>7, <2>1
  <1>. QED
    BY <1>1, <1>8, <1>9 DEF K, n

\* What the metrics of s weigh, and those that an eviction takes.
Sizes(s) == [i \in DOMAIN s |-> NodeSize(s[i])]

Lost(s, clock) == [i \in DOMAIN s |-> IF Evictable(s[i], clock) THEN NodeSize(s[i]) ELSE 0]

LEMMA SizesFacts ==
  ASSUME NEW s \in Seq(AnyMetric), NEW clock
  PROVE  /\ Sizes(s) \in [1 .. Len(s) -> Int] /\ Lost(s, clock) \in [1 .. Len(s) -> Int]
         /\ \A i \in 1 .. Len(s) :
              /\ Sizes(s)[i] = NodeSize(s[i])
              /\ Lost(s, clock)[i] = IF Evictable(s[i], clock) THEN NodeSize(s[i]) ELSE 0
  <1>1. DOMAIN s = 1 .. Len(s) /\ \A i \in 1 .. Len(s) : s[i] \in AnyMetric
    OBVIOUS
  <1>2. \A m \in AnyMetric : NodeSize(m) \in Int
    BY DEF AnyMetric, Metric, NodeSize
  <1>. HIDE DEF NodeSize
  <1>. QED
    BY <1>1, <1>2 DEF Sizes, Lost

\* A metric more weighs as much more.
LEMMA SizesMore ==
  ASSUME NEW s \in Seq(AnyMetric), NEW m \in AnyMetric
  PROVE  Total(Sizes(Append(s, m))) = Total(Sizes(s)) + NodeSize(m)
  <1>. DEFINE t == Append(s, m)
              n == Len(s)
  <1>1. /\ t \in Seq(AnyMetric) /\ n \in Nat /\ Len(t) = n + 1 /\ t[n + 1] = m
        /\ \A i \in 1 .. n : t[i] = s[i]
    OBVIOUS
  <1>2. /\ Sizes(s) \in [1 .. n -> Int]
        /\ \A i \in 1 .. n : Sizes(s)[i] = NodeSize(s[i])
    BY SizesFacts
  <1>. HIDE DEF t
  <1>3. /\ Sizes(t) \in [1 .. n + 1 -> Int]
        /\ \A i \in 1 .. n + 1 : Sizes(t)[i] = NodeSize(t[i])
    BY <1>1, SizesFacts
  <1>. HIDE DEF NodeSize, n
  <1>4. (1 .. n) \subseteq 1 .. n + 1 /\ n + 1 \in 1 .. n + 1
    BY <1>1
  <1>5. Differ(Sizes(s), Sizes(t), n, 0) /\ Sizes(t)[n + 1] = NodeSize(m)
    BY <1>1, <1>2, <1>3, <1>4 DEF Differ
  <1>6. Total(Sizes(t)) = Total(Sizes(s)) + Sizes(t)[n + 1]
    BY <1>1, <1>2, <1>3, <1>5, TotalMore
  <1>. QED
    BY <1>5, <1>6 DEF t

\* The metrics left are some of the metrics there were, in their order,
LEMMA KeptAreOf ==
  ASSUME NEW s \in Seq(AnyMetric), NEW clock
  PROVE  /\ Kept(s, clock) \in Seq(AnyMetric)
         /\ \A j \in 1 .. Len(Kept(s, clock)) : \E i \in 1 .. Len(s) :
              Kept(s, clock)[j] = s[i] /\ ~Evictable(s[i], clock)
  <1>. DEFINE n == Len(s)
              K == KeptIn(s, clock)
              Of(k) == \A j \in 1 .. Len(K[k]) : \E i \in 1 .. k : K[k][j] = s[i] /\ ~Evictable(s[i], clock)
              C == {k \in 0 .. n : Of(k)}
  <1>1. /\ n \in Nat /\ K \in [0 .. n -> Seq(AnyMetric)] /\ K[0] = <<>>
        /\ Kept(s, clock) = K[n]
        /\ \A k \in 1 .. n :
             K[k] = IF Evictable(s[k], clock) THEN K[k - 1] ELSE Append(K[k - 1], s[k])
    BY KeptIs DEF KeptTo
  <1>. HIDE DEF n, K
  <1>2. 0 \in C
    BY <1>1
  <1>3. ASSUME NEW k \in 1 .. n, k - 1 \in C PROVE k \in C
    <2>1. k - 1 \in 0 .. n /\ k \in 0 .. n /\ 1 .. k - 1 \subseteq 1 .. k /\ k \in 1 .. k
      BY <1>1
    <2>2. K[k - 1] \in Seq(AnyMetric) /\ Of(k - 1)
      BY <1>1, <1>3, <2>1
    <2>3. CASE Evictable(s[k], clock)
      <3>1. K[k] = K[k - 1]
        BY <1>1, <2>3
      <3>2. Of(k)
        BY <2>1, <2>2, <3>1
      <3>. QED
        BY <2>1, <3>2
    <2>4. CASE ~Evictable(s[k], clock)
      <3>1. K[k] = Append(K[k - 1], s[k])
        BY <1>1, <2>4
      <3>2. \A j \in 1 .. Len(K[k]) : (j \in 1 .. Len(K[k - 1]) /\ K[k][j] = K[k - 1][j]) \/ K[k][j] = s[k]
        BY <2>2, <3>1
      <3>3. Of(k)
        BY <2>1, <2>2, <2>4, <3>2
      <3>. QED
        BY <2>1, <3>3
    <2>. QED
      BY <2>3, <2>4
  <1>4. C = 0 .. n
    <2>1. C \subseteq 0 .. n
      OBVIOUS
    <2>. HIDE DEF C
    <2>. QED
      BY <1>1, <1>2, <1>3, <2>1, UpTo
  <1>5. n \in C /\ n \in 0 .. n
    <2>1. n \in 0 .. n
      BY <1>1
    <2>. HIDE DEF C
    <2>. QED
      BY <1>4, <2>1
  <1>. QED
    BY <1>1, <1>5 DEF n

\* those that have a key to themselves still do,
LEMMA KeptKeys ==
  ASSUME NEW s \in Seq(AnyMetric), NEW clock,
         \A i, j \in 1 .. Len(s) : s[i].key = s[j].key => i = j
  PROVE  \A i, j \in 1 .. Len(Kept(s, clock)) :
           Kept(s, clock)[i].key = Kept(s, clock)[j].key => i = j
  <1>. DEFINE n == Len(s)
              K == KeptIn(s, clock)
              Of(k) == \A j \in 1 .. Len(K[k]) : \E i \in 1 .. k : K[k][j] = s[i]
              Own(k) == \A i, j \in 1 .. Len(K[k]) : K[k][i].key = K[k][j].key => i = j
              C == {k \in 0 .. n : Of(k) /\ Own(k)}
  <1>1. /\ n \in Nat /\ K \in [0 .. n -> Seq(AnyMetric)] /\ K[0] = <<>>
        /\ Kept(s, clock) = K[n]
        /\ \A k \in 1 .. n :
             K[k] = IF Evictable(s[k], clock) THEN K[k - 1] ELSE Append(K[k - 1], s[k])
    BY KeptIs DEF KeptTo
  <1>. HIDE DEF n, K
  <1>2. 0 \in C
    BY <1>1
  <1>3. ASSUME NEW k \in 1 .. n, k - 1 \in C PROVE k \in C
    <2>1. /\ k - 1 \in 0 .. n /\ k \in 0 .. n /\ 1 .. k - 1 \subseteq 1 .. k /\ k \in 1 .. k
          /\ k \notin 1 .. k - 1 /\ 1 .. k \subseteq 1 .. n
      BY <1>1
    <2>2. K[k - 1] \in Seq(AnyMetric) /\ Of(k - 1) /\ Own(k - 1) /\ Len(K[k - 1]) \in Nat
      BY <1>1, <1>3, <2>1
    <2>3. CASE Evictable(s[k], clock)
      <3>1. K[k] = K[k - 1]
        BY <1>1, <2>3
      <3>2. Of(k) /\ Own(k)
        BY <2>1, <2>2, <3>1
      <3>. QED
        BY <2>1, <3>2
    <2>4. CASE ~Evictable(s[k], clock)
      <3>1. K[k] = Append(K[k - 1], s[k])
        BY <1>1, <2>4
      <3>2. \A j \in 1 .. Len(K[k]) : \/ j \in 1 .. Len(K[k - 1]) /\ K[k][j] = K[k - 1][j]
                                      \/ j = Len(K[k - 1]) + 1 /\ K[k][j] = s[k]
        BY <2>2, <3>1
      <3>3. Of(k)
        BY <2>1, <2>2, <3>2
      <3>4. \A j \in 1 .. Len(K[k - 1]) : K[k - 1][j].key # s[k].key
        <4>1. \A i \in 1 .. k - 1 : s[i].key # s[k].key
          BY <2>1 DEF n
        <4>. QED
          BY <2>2, <4>1
      <3>5. Own(k)
        <4>. SUFFICES ASSUME NEW i \in 1 .. Len(K[k]), NEW j \in 1 .. Len(K[k]),
                             K[k][i].key = K[k][j].key
                      PROVE  i = j
          OBVIOUS
        <4>. QED
          BY <2>2, <3>2, <3>4
      <3>. QED
        BY <2>1, <3>3, <3>5
    <2>. QED
      BY <2>3, <2>4
  <1>4. C = 0 .. n
    <2>1. C \subseteq 0 .. n
      OBVIOUS
    <2>. HIDE DEF C
    <2>. QED
      BY <1>1, <1>2, <1>3, <2>1, UpTo
  <1>5. n \in C
    <2>1. n \in 0 .. n
      BY <1>1
    <2>. HIDE DEF C
    <2>. QED
      BY <1>4, <2>1
  <1>. QED
    BY <1>1, <1>5

\* and they weigh what there was less what was taken.
LEMMA KeptWeighs ==
  ASSUME NEW s \in Seq(AnyMetric), NEW clock
  PROVE  Total(Sizes(Kept(s, clock))) = Total(Sizes(s)) - Total(Lost(s, clock))
  <1>. DEFINE n == Len(s)
              K == KeptIn(s, clock)
              A == Sums(Sizes(s), n)
              B == Sums(Lost(s, clock), n)
              C == {k \in 0 .. n : Total(Sizes(K[k])) = A[k] - B[k]}
  <1>1. /\ n \in Nat /\ K \in [0 .. n -> Seq(AnyMetric)] /\ K[0] = <<>>
        /\ Kept(s, clock) = K[n]
        /\ \A k \in 1 .. n :
             K[k] = IF Evictable(s[k], clock) THEN K[k - 1] ELSE Append(K[k - 1], s[k])
    BY KeptIs DEF KeptTo
  <1>2. /\ Sizes(s) \in [1 .. n -> Int] /\ Lost(s, clock) \in [1 .. n -> Int]
        /\ \A i \in 1 .. n :
             /\ Sizes(s)[i] = NodeSize(s[i])
             /\ Lost(s, clock)[i] = IF Evictable(s[i], clock) THEN NodeSize(s[i]) ELSE 0
    BY SizesFacts
  <1>3. /\ A[0] = 0 /\ \A k \in 0 .. n : A[k] \in Int
        /\ \A k \in 1 .. n : A[k] = A[k - 1] + Sizes(s)[k]
    BY <1>1, <1>2, SumsFacts
  <1>4. /\ B[0] = 0 /\ \A k \in 0 .. n : B[k] \in Int
        /\ \A k \in 1 .. n : B[k] = B[k - 1] + Lost(s, clock)[k]
    BY <1>1, <1>2, SumsFacts
  <1>5. Total(Sizes(s)) = A[n] /\ Total(Lost(s, clock)) = B[n]
    BY <1>1, <1>2, TotalIs
  <1>6. \A k \in 1 .. n : s[k] \in AnyMetric /\ NodeSize(s[k]) \in Int
    BY <1>2
  <1>. HIDE DEF n, K, A, B, NodeSize
  <1>7. 0 \in C
    <2>1. Len(<<>>) = 0 /\ <<>> \in Seq(AnyMetric)
      OBVIOUS
    <2>2. Sizes(<<>>) \in [1 .. 0 -> Int]
      BY <2>1, SizesFacts
    <2>3. Total(Sizes(<<>>)) = 0
      BY <2>2, TotalEmpty
    <2>. QED
      BY <1>1, <1>3, <1>4, <2>3
  <1>8. ASSUME NEW k \in 1 .. n, k - 1 \in C PROVE k \in C
    <2>. DEFINE q == K[k - 1]
    <2>1. k - 1 \in 0 .. n /\ k \in 0 .. n
      BY <1>1
    <2>2. q \in Seq(AnyMetric) /\ Len(q) \in Nat /\ Total(Sizes(q)) = A[k - 1] - B[k - 1]
      BY <1>1, <1>8, <2>1
    <2>. HIDE DEF q
    <2>3. PICK x, y, z, t \in Int : /\ x = A[k - 1] /\ y = B[k - 1] /\ z = NodeSize(s[k])
                                    /\ t = Total(Sizes(q))
      BY <1>3, <1>4, <1>6, <2>1, <2>2
    <2>4. A[k] = x + z /\ B[k] = y + (IF Evictable(s[k], clock) THEN z ELSE 0) /\ t = x - y
      BY <1>2, <1>3, <1>4, <2>2, <2>3
    <2>5. CASE Evictable(s[k], clock)
      <3>1. K[k] = q
        BY <1>1, <2>5 DEF q
      <3>2. Total(Sizes(K[k])) = A[k] - B[k]
        <4>1. A[k] = x + z /\ B[k] = y + z /\ t = x - y
          BY <2>4, <2>5
        <4>2. x - y = (x + z) - (y + z)
          OBVIOUS
        <4>. QED
          BY <2>3, <3>1, <4>1, <4>2
      <3>. QED
        BY <2>1, <3>2
    <2>6. CASE ~Evictable(s[k], clock)
      <3>1. K[k] = Append(q, s[k]) /\ s[k] \in AnyMetric
        BY <1>1, <1>6, <2>6 DEF q
      <3>2. Total(Sizes(Append(q, s[k]))) = t + z
        BY <2>2, <2>3, <3>1, SizesMore
      <3>3. Total(Sizes(K[k])) = A[k] - B[k]
        BY <2>3, <2>4, <2>6, <3>1, <3>2
      <3>. QED
        BY <2>1, <3>3
    <2>. QED
      BY <2>5, <2>6
  <1>9. C = 0 .. n
    <2>1. C \subseteq 0 .. n
      OBVIOUS
    <2>. HIDE DEF C
    <2>. QED
      BY <1>1, <1>7, <1>8, <2>1, UpTo
  <1>10. n \in C
    <2>1. n \in 0 .. n
      BY <1>1
    <2>. HIDE DEF C
    <2>. QED
      BY <1>9, <2>1
  <1>. QED
    BY <1>1, <1>5, <1>10

-----------------------------------------------------------------------------
(* Remainders *)

LEMMA ModIs ==
  ASSUME NEW M \in Nat \ {0}, NEW a \in Int
  PROVE  /\ a % M \in 0 .. M - 1
         /\ a \div M \in Int
         /\ a = M * (a \div M) + (a % M)
  OBVIOUS

\* A remainder is the only number below M that is a multiple of M away.
LEMMA ModOnly ==
  ASSUME NEW M \in Nat \ {0}, NEW p \in Int, NEW q \in Int,
         NEW r \in 0 .. M - 1, NEW t \in 0 .. M - 1, M * p + r = M * q + t
  PROVE  r = t
  <1>1. M * (p - q) = t - r
    OBVIOUS
  <1>2. p - q \in Int /\ t - r < M /\ t - r > -M
    OBVIOUS
  <1>3. CASE p - q = 0
    BY <1>1, <1>3
  <1>4. CASE p - q >= 1
    <2>1. M * (p - q) >= M
      BY <1>2, <1>4
    <2>. QED
      BY <1>1, <1>2, <2>1
  <1>5. CASE p - q <= -1
    <2>1. M * (p - q) <= -M
      BY <1>2, <1>5
    <2>. QED
      BY <1>1, <1>2, <2>1
  <1>. QED
    BY <1>2, <1>3, <1>4, <1>5

LEMMA ModAdd ==
  ASSUME NEW M \in Nat \ {0}, NEW a \in Int, NEW b \in Int
  PROVE  ((a % M) + b) % M = (a + b) % M
  <1>. DEFINE x == (a % M) + b
              y == a + b
  <1>1. PICK q \in Int : a = M * q + (a % M)
    BY ModIs
  <1>2. a % M \in Int /\ x \in Int /\ y \in Int
    BY ModIs
  <1>3. PICK p \in Int : x = M * p + (x % M)
    BY <1>2, ModIs
  <1>4. PICK s \in Int : y = M * s + (y % M)
    BY <1>2, ModIs
  <1>5. x % M \in 0 .. M - 1 /\ y % M \in 0 .. M - 1
    BY <1>2, ModIs
  <1>6. PICK u, v, w \in Int : u = x % M /\ v = y % M /\ w = a % M
    <2>1. x % M \in Int /\ y % M \in Int /\ a % M \in Int
      BY <1>2, <1>5
    <2>. HIDE DEF x, y
    <2>. QED
      BY <2>1
  <1>7. M * (q + p) + u = M * s + v
    <2>1. M * p + u = w + b /\ M * s + v = a + b /\ a = M * q + w
      BY <1>1, <1>3, <1>4, <1>6
    <2>2. M * (q + p) = M * q + M * p
      OBVIOUS
    <2>3. M * q \in Int /\ M * p \in Int /\ M * s \in Int
      OBVIOUS
    <2>. QED
      BY <2>1, <2>2, <2>3
  <1>8. q + p \in Int
    OBVIOUS
  <1>. HIDE DEF x, y
  <1>9. u = v
    BY <1>5, <1>6, <1>7, <1>8, ModOnly
  <1>. QED
    BY <1>6, <1>9 DEF x, y

\* A number below M is its own remainder.
LEMMA ModSmall ==
  ASSUME NEW M \in Nat \ {0}, NEW a \in 0 .. M - 1
  PROVE  a % M = a
  <1>1. PICK q \in Int : a = M * q + (a % M)
    <2>1. a \in Int
      OBVIOUS
    <2>. QED
      BY <2>1, ModIs
  <1>2. a % M \in 0 .. M - 1 /\ M * 0 + a = M * q + (a % M) /\ 0 \in Int
    BY <1>1, ModIs
  <1>. QED
    BY <1>2, ModOnly

\* Clocks that differ by less than half the range of an int compare as they should.
LEMMA TimeCmpIs ==
  ASSUME NEW a \in Int, NEW b \in Int,
         a - b < ClockLimit \div 2, b - a < ClockLimit \div 2
  PROVE  TimeCmp(a, b) = a - b
  <1>. DEFINE h == ClockLimit \div 2
              d == a - b
  <1>1. ClockLimit \in Nat \ {0} /\ h \in Nat /\ h + h <= ClockLimit /\ h < ClockLimit
    BY MetricStoreAssumption
  <1>2. d \in Int /\ d + h \in 0 .. ClockLimit - 1
    BY <1>1
  <1>3. (d + h) % ClockLimit = d + h
    BY <1>1, <1>2, ModSmall
  <1>4. AsInt(d) = (d + h) - h
    BY <1>3 DEF AsInt
  <1>. QED
    BY <1>1, <1>2, <1>4 DEF TimeCmp

-----------------------------------------------------------------------------
(* Pushes to the current list *)

CurrentMetric == Metric(SUBSET {"aggregate"})

LEMMA MinIs ==
  ASSUME NEW D, D \subseteq Nat, D # {}
  PROVE  Min(D) \in D
  <1>1. \E x \in D : \A y \in D : x <= y
    BY LeastOf
  <1>. QED
    BY <1>1 DEF Min

\* The integers of ValuesConserved, and what m is to them.
Ints(cur, k) ==
  [i \in DOMAIN cur |-> IF cur[i].key = k /\ cur[i].type = "int" THEN cur[i].value ELSE 0]

Part(m, k) == IF m.key = k /\ m.type = "int" THEN m.value ELSE 0

LEMMA IntsFacts ==
  ASSUME NEW cur \in Seq(CurrentMetric), NEW k
  PROVE  /\ Ints(cur, k) \in [1 .. Len(cur) -> Int]
         /\ \A i \in 1 .. Len(cur) : Ints(cur, k)[i] = Part(cur[i], k)
         /\ Total(Ints(cur, k)) \in Int
  <1>1. DOMAIN cur = 1 .. Len(cur) /\ Len(cur) \in Nat /\ \A i \in 1 .. Len(cur) : cur[i] \in CurrentMetric
    OBVIOUS
  <1>2. \A m \in CurrentMetric : Part(m, k) \in Int
    BY DEF CurrentMetric, Metric, Part
  <1>3. /\ Ints(cur, k) \in [1 .. Len(cur) -> Int]
        /\ \A i \in 1 .. Len(cur) : Ints(cur, k)[i] = Part(cur[i], k)
    BY <1>1, <1>2 DEF Ints, Part
  <1>. QED
    BY <1>1, <1>3, TotalIs

LEMMA IntsMore ==
  ASSUME NEW s \in Seq(CurrentMetric), NEW m \in CurrentMetric, NEW k
  PROVE  Total(Ints(Append(s, m), k)) = Total(Ints(s, k)) + Part(m, k)
  <1>. DEFINE t == Append(s, m)
              n == Len(s)
  <1>1. /\ t \in Seq(CurrentMetric) /\ n \in Nat /\ Len(t) = n + 1 /\ t[n + 1] = m
        /\ \A i \in 1 .. n : t[i] = s[i]
    OBVIOUS
  <1>2. /\ Ints(s, k) \in [1 .. n -> Int]
        /\ \A i \in 1 .. n : Ints(s, k)[i] = Part(s[i], k)
    BY IntsFacts
  <1>. HIDE DEF t
  <1>3. /\ Ints(t, k) \in [1 .. n + 1 -> Int]
        /\ \A i \in 1 .. n + 1 : Ints(t, k)[i] = Part(t[i], k)
    BY <1>1, IntsFacts
  <1>. HIDE DEF n
  <1>4. (1 .. n) \subseteq 1 .. n + 1 /\ n + 1 \in 1 .. n + 1
    BY <1>1
  <1>5. Differ(Ints(s, k), Ints(t, k), n, 0) /\ Ints(t, k)[n + 1] = Part(m, k)
    BY <1>1, <1>2, <1>3, <1>4 DEF Differ
  <1>6. Total(Ints(t, k)) = Total(Ints(s, k)) + Ints(t, k)[n + 1]
    BY <1>1, <1>2, <1>3, <1>5, TotalMore
  <1>. QED
    BY <1>5, <1>6 DEF t

\* Wherever a value is added or appended, the sum of its key grows by as much.
LEMMA PushValueAdds ==
  ASSUME NEW cur \in Seq(CurrentMetric), NEW m \in CurrentMetric
  PROVE  /\ PushValue(cur, m) \in Seq(CurrentMetric)
         /\ \A k \in Keys : Total(Ints(PushValue(cur, m), k)) % IntLimit
                              = (Total(Ints(cur, k)) + Part(m, k)) % IntLimit
  <1>. DEFINE same == {i \in DOMAIN cur : /\ cur[i].key = m.key
                                          /\ cur[i].type = m.type
                                          /\ m.type # "string"}
              n == Len(cur)
              i == Min(same)
              d == MetricAdd(cur[i], m)
              t == [cur EXCEPT ![i] = d]
  <1>0. /\ IntLimit \in Nat \ {0} /\ n \in Nat /\ DOMAIN cur = 1 .. n
        /\ \A j \in 1 .. n : cur[j] \in CurrentMetric
    BY MetricStoreAssumption
  <1>1. CASE PushValue(cur, m) = Append(cur, m)
    <2>1. \A k \in Keys : Total(Ints(Append(cur, m), k)) = Total(Ints(cur, k)) + Part(m, k)
      BY IntsMore
    <2>2. Append(cur, m) \in Seq(CurrentMetric)
      OBVIOUS
    <2>. QED
      BY <1>1, <2>1, <2>2
  <1>2. CASE same # {} /\ PushValue(cur, m) = t
    <2>1. i \in 1 .. n /\ cur[i].key = m.key /\ cur[i].type = m.type /\ m.type # "string"
      <3>1. same \subseteq Nat
        BY <1>0
      <3>. HIDE DEF same
      <3>2. i \in same
        BY <1>2, <3>1, MinIs
      <3>. QED
        BY <1>0, <3>2 DEF same
    <2>. HIDE DEF same, i
    <2>2. cur[i] \in CurrentMetric
      BY <1>0, <2>1
    <2>3. PICK a, b \in Int : a = cur[i].value /\ b = m.value
      BY <2>2 DEF CurrentMetric, Metric
    <2>4. /\ d \in CurrentMetric /\ d.key = m.key /\ d.type = m.type
          /\ d.value = IF m.type = "int" THEN (a + b) % IntLimit ELSE a + b
      <3>1. (a + b) % IntLimit \in Int /\ a + b \in Int
        BY <1>0, ModIs
      <3>2. d = [cur[i] EXCEPT !.value = IF m.type = "int" THEN (a + b) % IntLimit ELSE a + b]
        BY <2>1, <2>3 DEF MetricAdd
      <3>. QED
        BY <2>1, <2>2, <3>1, <3>2 DEF CurrentMetric, Metric
    <2>. HIDE DEF d
    <2>5. /\ t \in Seq(CurrentMetric) /\ Len(t) = n /\ t[i] = d
          /\ \A j \in 1 .. n : j # i => t[j] = cur[j]
      BY <1>0, <2>1, <2>4
    <2>. HIDE DEF t, n
    <2>6. ASSUME NEW k \in Keys
          PROVE  Total(Ints(t, k)) % IntLimit = (Total(Ints(cur, k)) + Part(m, k)) % IntLimit
      <3>1. /\ Ints(cur, k) \in [1 .. n -> Int] /\ Total(Ints(cur, k)) \in Int
            /\ \A j \in 1 .. n : Ints(cur, k)[j] = Part(cur[j], k)
        BY IntsFacts DEF n
      <3>2. /\ Ints(t, k) \in [1 .. n -> Int] /\ Total(Ints(t, k)) \in Int
            /\ \A j \in 1 .. n : Ints(t, k)[j] = Part(t[j], k)
        BY <2>5, IntsFacts
      <3>3. Differ(Ints(cur, k), Ints(t, k), n, i)
        BY <2>5, <3>1, <3>2 DEF Differ
      <3>4. Total(Ints(t, k)) = Total(Ints(cur, k)) + (Ints(t, k)[i] - Ints(cur, k)[i])
        BY <1>0, <2>1, <3>1, <3>2, <3>3, TotalChanged
      <3>5. Ints(t, k)[i] = Part(d, k) /\ Ints(cur, k)[i] = Part(cur[i], k)
        BY <2>1, <2>5, <3>1, <3>2
      <3>6. CASE m.key = k /\ m.type = "int"
        <4>1. PICK x, y, r \in Int : x = Total(Ints(cur, k)) /\ y = Total(Ints(t, k)) /\ r = (a + b) % IntLimit
          <5>1. (a + b) % IntLimit \in Int
            BY <1>0, ModIs
          <5>. QED
            BY <3>1, <3>2, <5>1
        <4>2. Part(d, k) = r /\ Part(cur[i], k) = a /\ Part(m, k) = b
          BY <2>1, <2>3, <2>4, <3>6, <4>1 DEF Part
        <4>3. y = r + (x - a)
          BY <3>4, <3>5, <4>1, <4>2
        <4>4. (((a + b) % IntLimit) + (x - a)) % IntLimit = ((a + b) + (x - a)) % IntLimit
          <5>1. a + b \in Int /\ x - a \in Int
            OBVIOUS
          <5>. QED
            BY ONLY <1>0, <5>1, ModAdd
        <4>5. (a + b) + (x - a) = x + b
          OBVIOUS
        <4>. QED
          BY <4>1, <4>2, <4>3, <4>4, <4>5
      <3>7. CASE ~(m.key = k /\ m.type = "int")
        <4>1. Part(d, k) = 0 /\ Part(cur[i], k) = 0 /\ Part(m, k) = 0
          BY <2>1, <2>4, <3>7 DEF Part
        <4>2. Total(Ints(t, k)) = Total(Ints(cur, k)) + Part(m, k)
          BY <3>1, <3>4, <3>5, <4>1
        <4>. QED
          BY <4>2
      <3>. QED
        BY <3>6, <3>7
    <2>. QED
      BY <1>2, <2>5, <2>6
  <1>. QED
    BY <1>1, <1>2 DEF PushValue, PushAggregate

LEMMA TimeCmpSame ==
  ASSUME NEW a \in Int
  PROVE  TimeCmp(a, a) = 0
  <1>. DEFINE h == ClockLimit \div 2
  <1>1. ClockLimit \in Nat \ {0} /\ h \in 0 .. ClockLimit - 1
    BY MetricStoreAssumption
  <1>2. h % ClockLimit = h
    BY <1>1, ModSmall
  <1>3. a - a = 0 /\ 0 + h = h /\ h - h = 0
    BY <1>1
  <1>4. AsInt(0) = ((0 + h) % ClockLimit) - h
    BY DEF AsInt
  <1>5. AsInt(a - a) = 0
    BY <1>2, <1>3, <1>4
  <1>. QED
    BY <1>5 DEF TimeCmp

-----------------------------------------------------------------------------
(* The types and the bytes *)

DeltaMetric == Metric({f \in SUBSET Flags : "delta" \in f})

LEMMA MetricsAre ==
  /\ CurrentMetric \subseteq AnyMetric /\ DeltaMetric \subseteq AnyMetric
  /\ \A m \in DeltaMetric : "delta" \in m.flags
  /\ \A m \in AnyMetric : /\ m.key \in Keys /\ m.type \in Types /\ m.flags \subseteq Flags
                          /\ m.value \in Int /\ m.clock \in Int
  BY DEF CurrentMetric, DeltaMetric, AnyMetric, Metric, Flags

\* The difference of two deltas is a metric of the current list.
LEMMA ComputedIs ==
  ASSUME NEW a \in DeltaMetric, NEW m \in DeltaMetric, Comparable(a, m),
         TimeCmp(m.clock, a.clock) # 0
  PROVE  /\ ComputeDelta(a, m) \in CurrentMetric
         /\ ComputeDelta(a, m).key = a.key
         /\ ComputeDelta(a, m).type = IF "rate" \in a.flags THEN "float" ELSE a.type
         /\ a.type = "int" /\ "rate" \notin a.flags
              => ComputeDelta(a, m).value = Increase(a, m)
  <1>1. /\ a.value \in Int /\ m.value \in Int /\ a.clock \in Int /\ m.clock \in Int
        /\ a.flags \subseteq Flags /\ a.type \in Types /\ RateScale \in Int
    BY MetricsAre, MetricStoreAssumption
  <1>2. m.clock - a.clock \in Int /\ m.clock - a.clock # 0
    BY <1>1, TimeCmpSame
  <1>3. \A x, d \in Int : d # 0 => Quotient(x, d) \in Int
    BY DEF Quotient
  <1>4. Increase(a, m) \in Int
    BY <1>1 DEF Increase
  <1>5. PICK x, d, r \in Int : x = Increase(a, m) /\ d = m.clock - a.clock /\ r = RateScale
    BY <1>1, <1>2, <1>4
  <1>6. DeltaValue(a, m) \in Int
    <2>1. x * r \in Int /\ x * 1 \in Int /\ m.value - a.value \in Int
      BY <1>1
    <2>2. Quotient(x * r, d) \in Int /\ Quotient(x * 1, d) \in Int
      BY <1>2, <1>3, <1>5, <2>1
    <2>. QED
      BY <1>5, <2>1, <2>2 DEF DeltaValue
  <1>7. a.type = "int" /\ "rate" \notin a.flags => DeltaValue(a, m) = Increase(a, m)
    BY DEF DeltaValue
  <1>8. /\ (a.flags \ {"delta", "rate"}) \in SUBSET {"aggregate"}
        /\ (IF "rate" \in a.flags THEN "float" ELSE a.type) \in Types
    BY <1>1 DEF Flags, Types
  <1>. HIDE DEF DeltaValue
  <1>. QED
    BY <1>6, <1>7, <1>8 DEF ComputeDelta, CurrentMetric, DeltaMetric, Metric

LEMMA SizesChanged ==
  ASSUME NEW s \in Seq(AnyMetric), NEW i \in 1 .. Len(s), NEW m \in AnyMetric,
         NodeSize(m) = NodeSize(s[i])
  PROVE  Total(Sizes([s EXCEPT ![i] = m])) = Total(Sizes(s))
  <1>. DEFINE t == [s EXCEPT ![i] = m]
              n == Len(s)
  <1>1. /\ t \in Seq(AnyMetric) /\ n \in Nat /\ Len(t) = n /\ t[i] = m
        /\ \A j \in 1 .. n : j # i => t[j] = s[j]
    OBVIOUS
  <1>2. /\ Sizes(s) \in [1 .. n -> Int]
        /\ \A j \in 1 .. n : Sizes(s)[j] = NodeSize(s[j])
    BY SizesFacts
  <1>. HIDE DEF t
  <1>3. /\ Sizes(t) \in [1 .. n -> Int]
        /\ \A j \in 1 .. n : Sizes(t)[j] = NodeSize(t[j])
    BY <1>1, SizesFacts
  <1>. HIDE DEF NodeSize
  <1>4. Differ(Sizes(s), Sizes(t), n, i) /\ Sizes(t)[i] = Sizes(s)[i] /\ Sizes(s)[i] \in Int
    BY <1>1, <1>2, <1>3 DEF Differ
  <1>5. Total(Sizes(t)) = Total(Sizes(s)) + (Sizes(t)[i] - Sizes(s)[i])
    BY <1>1, <1>2, <1>3, <1>4, TotalChanged
  <1>6. Total(Sizes(s)) \in Int
    BY <1>1, <1>2, TotalIs
  <1>. QED
    BY <1>4, <1>5, <1>6 DEF t

LEMMA SizesNat ==
  ASSUME NEW s \in Seq(AnyMetric), \A i \in 1 .. Len(s) : s[i].value \in Nat
  PROVE  Total(Sizes(s)) \in Nat
  <1>. DEFINE n == Len(s)
              S == Sums(Sizes(s), n)
              C == {k \in 0 .. n : S[k] \in Nat}
  <1>1. /\ n \in Nat /\ Sizes(s) \in [1 .. n -> Int]
        /\ \A i \in 1 .. n : Sizes(s)[i] = NodeSize(s[i])
    BY SizesFacts
  <1>2. \A i \in 1 .. n : Sizes(s)[i] \in Nat
    BY <1>1 DEF NodeSize
  <1>3. /\ S[0] = 0 /\ Total(Sizes(s)) = S[n]
        /\ \A k \in 1 .. n : S[k] = S[k - 1] + Sizes(s)[k]
    BY <1>1, SumsFacts, TotalIs
  <1>. HIDE DEF n, S
  <1>4. 0 \in C
    BY <1>1, <1>3
  <1>5. ASSUME NEW k \in 1 .. n, k - 1 \in C PROVE k \in C
    <2>1. k \in 0 .. n /\ S[k - 1] \in Nat
      BY <1>1, <1>5
    <2>. QED
      BY <1>2, <1>3, <2>1
  <1>6. C = 0 .. n
    <2>1. C \subseteq 0 .. n
      OBVIOUS
    <2>. HIDE DEF C
    <2>. QED
      BY <1>1, <1>4, <1>5, <2>1, UpTo
  <1>7. n \in C
    <2>1. n \in 0 .. n
      BY <1>1
    <2>. HIDE DEF C
    <2>. QED
      BY <1>6, <2>1
  <1>. QED
    BY <1>3, <1>7

Base ==
  /\ current \in Seq(CurrentMetric)
  /\ delta \in Seq(DeltaMetric)
  /\ \A i \in 1 .. Len(delta) : delta[i].value \in Nat /\ last[delta[i].key] \in AnyMetric
  /\ delta_bytes = Total(Sizes(delta))
  /\ now \in Int
  /\ pushes \in 0 .. MaxPush
  /\ last \in [Keys -> AnyMetric \union {None}]
  /\ owed \in [Keys -> 0 .. IntLimit - 1]

LEMMA BaseFacts ==
  ASSUME Base
  PROVE  /\ current \in Seq(CurrentMetric)
         /\ delta \in Seq(DeltaMetric) /\ delta \in Seq(AnyMetric) /\ Len(delta) \in Nat
         /\ DOMAIN delta = 1 .. Len(delta)
         /\ \A i \in 1 .. Len(delta) : /\ delta[i] \in DeltaMetric /\ delta[i].value \in Nat
                                       /\ last[delta[i].key] \in AnyMetric
         /\ delta_bytes = Total(Sizes(delta)) /\ delta_bytes \in Nat
         /\ now \in Int /\ pushes \in 0 .. MaxPush
         /\ last \in [Keys -> AnyMetric \union {None}]
         /\ owed \in [Keys -> 0 .. IntLimit - 1]
  <1>1. delta \in Seq(AnyMetric)
    BY MetricsAre DEF Base
  <1>2. delta_bytes \in Nat
    BY <1>1, SizesNat DEF Base
  <1>. QED
    BY <1>1, <1>2 DEF Base

LEMMA BaseTypes == Base => TypeOK
  BY BaseFacts DEF Base, TypeOK, CurrentMetric, DeltaMetric, AnyMetric

LEMMA BaseBytes == Base => DeltaBytesExact
  BY DEF Base, DeltaBytesExact, Sizes

\* What is pushed.
Pushed(m) ==
  /\ m \in AnyMetric /\ m.value \in Nat
  /\ IF "delta" \in m.flags THEN m \in DeltaMetric ELSE m \in CurrentMetric

LEMMA InputIs ==
  ASSUME NEW in \in Inputs, NEW c \in Int
  PROVE  Pushed([key |-> in.key, type |-> in.type, flags |-> in.flags,
                 value |-> in.value, clock |-> c])
  <1>1. /\ in.key \in Keys /\ in.type \in Types /\ in.flags \subseteq Flags
        /\ in.value \in Nat
        /\ "delta" \notin in.flags => "rate" \notin in.flags
    BY MetricStoreAssumption DEF Keys
  <1>2. "delta" \notin in.flags => in.flags \in SUBSET {"aggregate"}
    BY <1>1 DEF Flags
  <1>3. in.value \in Int
    BY <1>1
  <1>. QED
    BY <1>1, <1>2, <1>3 DEF Pushed, AnyMetric, DeltaMetric, CurrentMetric, Metric

\* The baseline a push is compared with.
LEMMA BaselineIs ==
  ASSUME Base, NEW m, Baselines(m) # {}
  PROVE  LET i == Min(Baselines(m)) IN
           /\ i \in 1 .. Len(delta) /\ delta[i] \in DeltaMetric /\ delta[i].value \in Nat
           /\ delta[i].key = m.key /\ TimeCmp(m.clock, delta[i].clock) # 0
  <1>1. DOMAIN delta = 1 .. Len(delta)
    BY BaseFacts
  <1>2. Baselines(m) \subseteq Nat
    BY <1>1 DEF Baselines
  <1>3. Min(Baselines(m)) \in Baselines(m)
    BY <1>2, MinIs
  <1>4. /\ Min(Baselines(m)) \in 1 .. Len(delta)
        /\ delta[Min(Baselines(m))].key = m.key
        /\ TimeCmp(m.clock, delta[Min(Baselines(m))].clock) # 0
    BY <1>1, <1>3 DEF Baselines
  <1>. QED
    BY <1>4, BaseFacts

\* What a push that finds a baseline i does.
Computes(m, i, c) ==
  /\ i \in 1 .. Len(delta) /\ delta[i].key = m.key
  /\ c \in CurrentMetric /\ c.key = m.key
  /\ c.type = IF "rate" \in delta[i].flags THEN "float" ELSE m.type
  /\ m.type = "int" /\ "rate" \notin delta[i].flags => c.value = Increase(delta[i], m)
  /\ current' = PushValue(current, c)
  /\ delta' = [delta EXCEPT ![i] = m]
  /\ Total(Sizes(delta')) = Total(Sizes(delta))

LEMMA PushComputes ==
  ASSUME Base, NEW m \in DeltaMetric, PushComputed(m)
  PROVE  \E i, c : Computes(m, i, c)
  <1>. DEFINE i == Min(Baselines(m))
  <1>1. /\ i \in 1 .. Len(delta) /\ delta[i] \in DeltaMetric /\ delta[i].value \in Nat
        /\ delta[i].key = m.key /\ TimeCmp(m.clock, delta[i].clock) # 0
    BY BaselineIs DEF PushComputed
  <1>2. /\ Comparable(delta[i], m) /\ delta' = [delta EXCEPT ![i] = m]
        /\ current' = PushValue(current, ComputeDelta(delta[i], m))
    BY DEF PushComputed
  <1>. HIDE DEF i
  <1>3. delta[i].type = m.type /\ m.type # "string"
    BY <1>2 DEF Comparable
  <1>4. /\ ComputeDelta(delta[i], m) \in CurrentMetric
        /\ ComputeDelta(delta[i], m).key = m.key
        /\ ComputeDelta(delta[i], m).type = IF "rate" \in delta[i].flags THEN "float" ELSE m.type
        /\ m.type = "int" /\ "rate" \notin delta[i].flags
             => ComputeDelta(delta[i], m).value = Increase(delta[i], m)
    BY <1>1, <1>2, <1>3, ComputedIs
  <1>5. Total(Sizes(delta')) = Total(Sizes(delta))
    <2>1. NodeSize(m) = NodeSize(delta[i])
      BY <1>3 DEF NodeSize
    <2>2. m \in AnyMetric
      BY MetricsAre
    <2>. QED
      BY <1>1, <1>2, <2>1, <2>2, BaseFacts, SizesChanged
  <1>6. Computes(m, i, ComputeDelta(delta[i], m))
    BY <1>1, <1>2, <1>4, <1>5 DEF Computes
  <1>. QED
    BY <1>6

LEMMA OwedTyped ==
  ASSUME Base, NEW k \in Keys, NEW n \in Int, Owe(k, n)
  PROVE  owed' \in [Keys -> 0 .. IntLimit - 1]
  <1>1. owed \in [Keys -> 0 .. IntLimit - 1] /\ IntLimit \in Nat \ {0}
    BY BaseFacts, MetricStoreAssumption
  <1>2. owed' = [owed EXCEPT ![k] = (owed[k] + n) % IntLimit]
    BY DEF Owe
  <1>3. owed[k] + n \in Int
    BY <1>1
  <1>4. (owed[k] + n) % IntLimit \in 0 .. IntLimit - 1
    BY <1>1, <1>3, ModIs
  <1>. QED
    BY <1>1, <1>2, <1>4

LEMMA BaseInit == Init => Base
  <1>. SUFFICES ASSUME Init PROVE Base
    OBVIOUS
  <1>1. Len(<<>>) = 0 /\ <<>> \in Seq(CurrentMetric) /\ <<>> \in Seq(DeltaMetric)
        /\ <<>> \in Seq(AnyMetric)
    OBVIOUS
  <1>2. Total(Sizes(<<>>)) = 0
    <2>1. Sizes(<<>>) \in [1 .. 0 -> Int]
      BY <1>1, SizesFacts
    <2>. QED
      BY <2>1, TotalEmpty
  <1>3. 0 \in 0 .. IntLimit - 1 /\ 0 \in 0 .. MaxPush
    BY MetricStoreAssumption
  <1>. QED
    BY <1>1, <1>2, <1>3 DEF Init, Base

\* A push, by what is pushed.
Push(m) ==
  IF "delta" \in m.flags
  THEN PushBaseline(m) \/ PushComputed(m) \/ PushRefused(m)
  ELSE /\ current' = PushValue(current, m)
       /\ IF m.type = "int" THEN Owe(m.key, m.value) ELSE UNCHANGED owed
       /\ UNCHANGED <<delta, delta_bytes, last>>

LEMMA PushIs ==
  ASSUME Base, NEW in \in Inputs, NEW step \in Steps, MetricStorePush(in, step)
  PROVE  /\ pushes' \in 0 .. MaxPush /\ now' = now + step /\ now' \in Int /\ horizon' = horizon
         /\ \E m : /\ Pushed(m) /\ Push(m)
                  /\ m.key = in.key /\ m.flags = in.flags /\ m.clock = now'
  <1>. DEFINE m == [key |-> in.key, type |-> in.type, flags |-> in.flags,
                    value |-> in.value, clock |-> now + step]
  <1>1. step \in Int /\ MaxPush \in Nat /\ now \in Int /\ pushes \in 0 .. MaxPush
    BY MetricStoreAssumption, BaseFacts
  <1>2. pushes < MaxPush /\ pushes' = pushes + 1 /\ now' = now + step /\ horizon' = horizon /\ Push(m)
    BY DEF MetricStorePush, Push
  <1>3. now + step \in Int
    BY <1>1
  <1>4. Pushed(m)
    BY <1>3, InputIs
  <1>5. m.key = in.key /\ m.flags = in.flags /\ m.clock = now'
    BY <1>2
  <1>. HIDE DEF m
  <1>. QED
    BY <1>1, <1>2, <1>3, <1>4, <1>5

LEMMA BasePush ==
  ASSUME Base, NEW m, Pushed(m), Push(m), pushes' \in 0 .. MaxPush, now' \in Int
  PROVE  Base'
  <1>1. /\ m \in AnyMetric /\ m.value \in Nat /\ m.value \in Int /\ m.key \in Keys
        /\ IF "delta" \in m.flags THEN m \in DeltaMetric ELSE m \in CurrentMetric
    BY MetricsAre DEF Pushed
  <1>2. /\ current \in Seq(CurrentMetric)
        /\ delta \in Seq(DeltaMetric) /\ delta \in Seq(AnyMetric) /\ Len(delta) \in Nat
        /\ \A i \in 1 .. Len(delta) : /\ delta[i] \in DeltaMetric /\ delta[i].value \in Nat
                                      /\ last[delta[i].key] \in AnyMetric /\ delta[i].key \in Keys
        /\ delta_bytes = Total(Sizes(delta))
        /\ last \in [Keys -> AnyMetric \union {None}]
        /\ owed \in [Keys -> 0 .. IntLimit - 1]
    BY BaseFacts, MetricsAre
  <1>3. CASE "delta" \in m.flags /\ PushBaseline(m)
    <2>1. /\ delta' = Append(delta, m) /\ delta_bytes' = delta_bytes + NodeSize(m)
          /\ last' = [last EXCEPT ![m.key] = m] /\ current' = current /\ owed' = owed
      BY <1>3 DEF PushBaseline
    <2>2. Total(Sizes(Append(delta, m))) = Total(Sizes(delta)) + NodeSize(m)
      BY <1>1, <1>2, SizesMore
    <2>3. m \in DeltaMetric
      BY <1>1, <1>3
    <2>a. delta' \in Seq(DeltaMetric)
      BY <1>2, <2>1, <2>3
    <2>b. \A i \in 1 .. Len(delta') : (i \in 1 .. Len(delta) /\ delta'[i] = delta[i]) \/ delta'[i] = m
      BY <1>2, <2>1
    <2>5. /\ last' \in [Keys -> AnyMetric \union {None}] /\ last'[m.key] = m
          /\ \A k \in Keys : last[k] \in AnyMetric => last'[k] \in AnyMetric
      BY <1>1, <1>2, <2>1
    <2>4. \A i \in 1 .. Len(delta') : delta'[i].value \in Nat /\ last'[delta'[i].key] \in AnyMetric
      BY <1>1, <1>2, <2>b, <2>5
    <2>6. delta_bytes' = Total(Sizes(delta'))
      BY <1>2, <2>1, <2>2
    <2>. QED
      BY <1>2, <2>1, <2>a, <2>4, <2>5, <2>6 DEF Base
  <1>4. CASE "delta" \in m.flags /\ PushComputed(m)
    <2>1. m \in DeltaMetric
      BY <1>1, <1>4
    <2>2. PICK i, c : Computes(m, i, c)
      BY <1>4, <2>1, PushComputes
    <2>3. /\ i \in 1 .. Len(delta) /\ c \in CurrentMetric /\ current' = PushValue(current, c)
          /\ delta' = [delta EXCEPT ![i] = m] /\ Total(Sizes(delta')) = Total(Sizes(delta))
      BY <2>2 DEF Computes
    <2>4. /\ last' = [last EXCEPT ![m.key] = m] /\ delta_bytes' = delta_bytes
          /\ owed' = owed \/ Owe(m.key, Increase(last[m.key], m))
      BY <1>4 DEF PushComputed
    <2>5. current' \in Seq(CurrentMetric)
      BY <1>2, <2>3, PushValueAdds
    <2>a. delta' \in Seq(DeltaMetric)
      BY <1>2, <2>1, <2>3
    <2>b. \A j \in 1 .. Len(delta') : (j \in 1 .. Len(delta) /\ delta'[j] = delta[j]) \/ delta'[j] = m
      BY <1>2, <2>3
    <2>7. /\ last' \in [Keys -> AnyMetric \union {None}] /\ last'[m.key] = m
          /\ \A k \in Keys : last[k] \in AnyMetric => last'[k] \in AnyMetric
      BY <1>1, <1>2, <2>4
    <2>6. \A j \in 1 .. Len(delta') : delta'[j].value \in Nat /\ last'[delta'[j].key] \in AnyMetric
      BY <1>1, <1>2, <2>b, <2>7
    <2>8. owed' \in [Keys -> 0 .. IntLimit - 1]
      <3>1. CASE owed' = owed
        BY <1>2, <3>1
      <3>2. CASE Owe(m.key, Increase(last[m.key], m))
        <4>1. last[m.key].value \in Int
          BY <1>2, <2>2, MetricsAre DEF Computes
        <4>2. Increase(last[m.key], m) \in Int
          BY <1>1, <4>1 DEF Increase
        <4>. QED
          BY <1>1, <3>2, <4>2, OwedTyped
      <3>. QED
        BY <2>4, <3>1, <3>2
    <2>9. delta_bytes' = Total(Sizes(delta'))
      BY <1>2, <2>3, <2>4
    <2>. QED
      BY <2>a, <2>5, <2>6, <2>7, <2>8, <2>9 DEF Base
  <1>5. CASE "delta" \in m.flags /\ PushRefused(m)
    BY <1>5 DEF PushRefused, Base
  <1>6. CASE "delta" \notin m.flags
    <2>1. /\ current' = PushValue(current, m) /\ delta' = delta /\ delta_bytes' = delta_bytes
          /\ last' = last /\ (owed' = owed \/ Owe(m.key, m.value))
      BY <1>6 DEF Push
    <2>2. current' \in Seq(CurrentMetric)
      BY <1>1, <1>2, <1>6, <2>1, PushValueAdds
    <2>3. owed' \in [Keys -> 0 .. IntLimit - 1]
      BY <1>1, <1>2, <2>1, OwedTyped
    <2>. QED
      BY <2>1, <2>2, <2>3 DEF Base
  <1>. QED
    BY <1>3, <1>4, <1>5, <1>6 DEF Push

LEMMA EvictIs ==
  ASSUME Base, EvictDelta
  PROVE  /\ delta' = Kept(delta, now - MaxAge) /\ delta' \in Seq(DeltaMetric)
         /\ \A j \in 1 .. Len(delta') : \E i \in 1 .. Len(delta) :
              delta'[j] = delta[i] /\ ~Evictable(delta[i], now - MaxAge)
         /\ delta_bytes' = Total(Sizes(delta'))
         /\ horizon' = now - MaxAge /\ current' = current /\ now' = now
         /\ pushes' = pushes /\ last' = last /\ owed' = owed
  <1>. DEFINE clock == now - MaxAge
  <1>1. /\ delta' = Kept(delta, clock)
        /\ delta_bytes' = delta_bytes - Total(Lost(delta, clock))
        /\ horizon' = clock /\ current' = current /\ now' = now
        /\ pushes' = pushes /\ last' = last /\ owed' = owed
    BY DEF EvictDelta, Lost
  <1>2. /\ delta \in Seq(AnyMetric) /\ delta_bytes = Total(Sizes(delta))
        /\ \A i \in 1 .. Len(delta) : delta[i] \in DeltaMetric
    BY BaseFacts
  <1>. HIDE DEF clock
  <1>3. /\ Kept(delta, clock) \in Seq(AnyMetric)
        /\ \A j \in 1 .. Len(Kept(delta, clock)) : \E i \in 1 .. Len(delta) :
             Kept(delta, clock)[j] = delta[i] /\ ~Evictable(delta[i], clock)
    BY <1>2, KeptAreOf
  <1>4. Total(Sizes(Kept(delta, clock))) = Total(Sizes(delta)) - Total(Lost(delta, clock))
    BY <1>2, KeptWeighs
  <1>5. delta' \in Seq(DeltaMetric)
    <2>1. \A j \in 1 .. Len(delta') : delta'[j] \in DeltaMetric
      BY <1>1, <1>2, <1>3
    <2>2. delta' \in Seq(AnyMetric)
      BY <1>1, <1>3
    <2>. QED
      BY <2>1, <2>2
  <1>6. delta_bytes' = Total(Sizes(delta'))
    BY <1>1, <1>2, <1>4
  <1>. QED
    BY <1>1, <1>3, <1>5, <1>6 DEF clock

\* The lists after a send or a flush.
LEMMA NothingLeft ==
  /\ <<>> \in Seq(CurrentMetric) /\ <<>> \in Seq(DeltaMetric) /\ Len(<<>>) = 0
  /\ Total(Sizes(<<>>)) = 0
  /\ \A k : Total(Ints(<<>>, k)) = 0
  /\ 0 \in 0 .. IntLimit - 1
  <1>1. Len(<<>>) = 0 /\ <<>> \in Seq(CurrentMetric) /\ <<>> \in Seq(DeltaMetric)
        /\ <<>> \in Seq(AnyMetric)
    OBVIOUS
  <1>2. Total(Sizes(<<>>)) = 0
    <2>1. Sizes(<<>>) \in [1 .. 0 -> Int]
      BY <1>1, SizesFacts
    <2>. QED
      BY <2>1, TotalEmpty
  <1>3. ASSUME NEW k PROVE Total(Ints(<<>>, k)) = 0
    <2>1. Ints(<<>>, k) \in [1 .. 0 -> Int]
      BY <1>1, IntsFacts
    <2>. QED
      BY <2>1, TotalEmpty
  <1>4. 0 \in 0 .. IntLimit - 1
    BY MetricStoreAssumption
  <1>. QED
    BY <1>1, <1>2, <1>3, <1>4

LEMMA BaseNext == Base /\ [Next]_vars => Base'
  <1>. SUFFICES ASSUME Base, [Next]_vars PROVE Base'
    OBVIOUS
  <1>1. ASSUME NEW in \in Inputs, NEW step \in Steps, MetricStorePush(in, step)
        PROVE  Base'
    BY <1>1, PushIs, BasePush
  <1>2. CASE EvictDelta
    <2>1. \A j \in 1 .. Len(delta') : \E i \in 1 .. Len(delta) : delta'[j] = delta[i]
      BY <1>2, EvictIs
    <2>2. \A j \in 1 .. Len(delta') : delta'[j].value \in Nat /\ last[delta'[j].key] \in AnyMetric
      BY <2>1, BaseFacts
    <2>. QED
      BY <1>2, <2>2, EvictIs DEF Base
  <1>3. CASE MetricStoreCache
    <2>1. owed' \in [Keys -> 0 .. IntLimit - 1]
      BY <1>3, NothingLeft DEF MetricStoreCache
    <2>. QED
      BY <1>3, <2>1, NothingLeft DEF Base, MetricStoreCache
  <1>4. CASE MetricStoreFlushAll
    <2>1. owed' \in [Keys -> 0 .. IntLimit - 1]
      BY <1>4, NothingLeft DEF MetricStoreFlushAll
    <2>2. /\ current' = <<>> /\ delta' = <<>> /\ delta_bytes' = 0
          /\ now' = now /\ pushes' = pushes /\ last' = last
      BY <1>4 DEF MetricStoreFlushAll
    <2>3. \A i \in 1 .. Len(delta') : FALSE
      BY <2>2, NothingLeft
    <2>. QED
      BY <2>1, <2>2, <2>3, NothingLeft, BaseFacts DEF Base
  <1>5. CASE UNCHANGED vars
    BY <1>5 DEF Base, vars
  <1>. QED
    BY <1>1, <1>2, <1>3, <1>4, <1>5 DEF Next

LEMMA SpecBase == Spec => []Base
  BY BaseInit, BaseNext, PTL DEF Spec

\* No delta is among the metrics to send (metric_store.c:53-58,
\* metric_compute.c:48), however the clock moves.
THEOREM TypesHold == Spec => []TypeOK
  BY SpecBase, BaseTypes, PTL

\* The bytes of the list of baselines are counted exactly, through the
\* replacements that bypass the list (metric_store.c:55-57) and the evictions.
THEOREM BytesAreExact == Spec => []DeltaBytesExact
  BY SpecBase, BaseBytes, PTL

-----------------------------------------------------------------------------
(* Baselines and sums, when the clock goes forward *)

\* The wall clock is not set back.
ClocksRise == Steps \subseteq Nat

\* The metrics of a poll have one clock, each a name of its own: a delta has not
\* the clock of the baseline with its name.
OnePerClock ==
  \A in \in Inputs, step \in Steps :
    MetricStorePush(in, step) /\ "delta" \in in.flags
      => \A i \in DOMAIN delta : delta[i].key = in.key => delta[i].clock # now'

\* The clocks of the store are less than half the range of an int apart, so that
\* _timecmp does not overflow: 68 years.
InTime == now + MaxAge < ClockLimit \div 2

Ordered ==
  /\ now \in Nat /\ horizon \in Int /\ horizon <= now
  /\ \A i \in 1 .. Len(delta) : /\ delta[i].clock <= now /\ delta[i].clock >= 0
                                /\ delta[i].clock >= horizon
                                /\ delta[i] = last[delta[i].key]
  /\ \A i, j \in 1 .. Len(delta) : delta[i].key = delta[j].key => i = j

LEMMA OrderedInit == Init => Ordered
  <1>. SUFFICES ASSUME Init PROVE Ordered
    OBVIOUS
  <1>1. MaxAge \in Nat /\ Len(<<>>) = 0
    BY MetricStoreAssumption
  <1>. QED
    BY <1>1 DEF Init, Ordered

LEMMA OrderedPush ==
  ASSUME Base, Ordered, NEW m, Pushed(m), Push(m),
         m.clock = now', now' \in Nat, now' >= now, horizon' = horizon,
         now' < ClockLimit \div 2,
         "delta" \in m.flags =>
           \A i \in 1 .. Len(delta) : delta[i].key = m.key => delta[i].clock # now'
  PROVE  Ordered'
  <1>1. m \in AnyMetric /\ m.key \in Keys /\ m.clock \in Int
    BY MetricsAre DEF Pushed
  <1>2. /\ delta \in Seq(AnyMetric) /\ Len(delta) \in Nat /\ DOMAIN delta = 1 .. Len(delta)
        /\ last \in [Keys -> AnyMetric \union {None}]
        /\ \A i \in 1 .. Len(delta) : delta[i] \in AnyMetric /\ delta[i].clock \in Int /\ delta[i].key \in Keys
    BY BaseFacts, MetricsAre
  <1>3. /\ now \in Nat /\ horizon \in Int /\ horizon <= now
        /\ \A i \in 1 .. Len(delta) : /\ delta[i].clock <= now /\ delta[i].clock >= 0
                                      /\ delta[i].clock >= horizon
                                      /\ delta[i] = last[delta[i].key]
        /\ \A i, j \in 1 .. Len(delta) : delta[i].key = delta[j].key => i = j
    BY DEF Ordered
  <1>4. horizon' \in Int /\ horizon' <= now' /\ m.clock <= now' /\ m.clock >= 0 /\ m.clock >= horizon'
    BY <1>3
  <1>5. ASSUME "delta" \in m.flags, NEW i \in 1 .. Len(delta), delta[i].key = m.key
        PROVE  TimeCmp(m.clock, delta[i].clock) # 0
    <2>1. PICK c \in Int : c = delta[i].clock /\ c <= now /\ c >= 0 /\ c # now'
      BY <1>2, <1>3, <1>5
    <2>2. PICK h \in Int : h = ClockLimit \div 2 /\ h >= 0
      BY MetricStoreAssumption
    <2>3. now' - c < h /\ c - now' < h /\ now' - c # 0
      BY <1>3, <2>1, <2>2
    <2>4. TimeCmp(now', c) = now' - c
      <3>. HIDE DEF TimeCmp
      <3>. QED
        BY <2>2, <2>3, TimeCmpIs
    <2>. QED
      BY <2>1, <2>3, <2>4
  <1>6. ASSUME delta' = delta, last' = last PROVE Ordered'
    <2>1. \A i \in 1 .. Len(delta) : delta[i].clock <= now'
      <3>. SUFFICES ASSUME NEW i \in 1 .. Len(delta) PROVE delta[i].clock <= now'
        OBVIOUS
      <3>1. PICK c \in Int : c = delta[i].clock /\ c <= now
        BY <1>2, <1>3
      <3>. QED
        BY <1>3, <3>1
    <2>. QED
      BY <1>3, <1>4, <1>6, <2>1 DEF Ordered
  <1>7. \A i \in 1 .. Len(delta) : delta[i].clock <= now'
    <2>. SUFFICES ASSUME NEW i \in 1 .. Len(delta) PROVE delta[i].clock <= now'
      OBVIOUS
    <2>1. PICK c \in Int : c = delta[i].clock /\ c <= now
      BY <1>2, <1>3
    <2>. QED
      BY <1>3, <2>1
  <1>8. CASE PushBaseline(m) /\ "delta" \in m.flags
    <2>1. /\ delta' = Append(delta, m) /\ last' = [last EXCEPT ![m.key] = m]
          /\ \A i \in 1 .. Len(delta) : delta[i].key # m.key
      BY <1>2, <1>5, <1>8 DEF PushBaseline, Baselines
    <2>2. \A i \in 1 .. Len(delta') : \/ i \in 1 .. Len(delta) /\ delta'[i] = delta[i]
                                      \/ i = Len(delta) + 1 /\ delta'[i] = m
      BY <1>2, <2>1
    <2>3. last'[m.key] = m /\ \A k \in Keys : k # m.key => last'[k] = last[k]
      BY <1>1, <1>2, <2>1
    <2>4. \A i \in 1 .. Len(delta') : /\ delta'[i].clock <= now' /\ delta'[i].clock >= 0
                                      /\ delta'[i].clock >= horizon'
                                      /\ delta'[i] = last'[delta'[i].key]
      BY <1>2, <1>3, <1>4, <1>7, <2>1, <2>2, <2>3
    <2>5. \A i, j \in 1 .. Len(delta') : delta'[i].key = delta'[j].key => i = j
      BY <1>3, <2>1, <2>2
    <2>. QED
      BY <1>4, <2>4, <2>5 DEF Ordered
  <1>9. CASE PushComputed(m) /\ m \in DeltaMetric
    <2>1. PICK i, c : Computes(m, i, c)
      BY <1>9, PushComputes
    <2>2. /\ i \in 1 .. Len(delta) /\ delta[i].key = m.key /\ delta' = [delta EXCEPT ![i] = m]
          /\ last' = [last EXCEPT ![m.key] = m]
      BY <1>9, <2>1 DEF Computes, PushComputed
    <2>3. /\ Len(delta') = Len(delta)
          /\ \A j \in 1 .. Len(delta) : delta'[j] = IF j = i THEN m ELSE delta[j]
      BY <1>2, <2>2
    <2>4. last'[m.key] = m /\ \A k \in Keys : k # m.key => last'[k] = last[k]
      BY <1>1, <1>2, <2>2
    <2>5. \A j \in 1 .. Len(delta) : j # i => delta[j].key # m.key
      BY <1>3, <2>2
    <2>6. \A j \in 1 .. Len(delta') : /\ delta'[j].clock <= now' /\ delta'[j].clock >= 0
                                      /\ delta'[j].clock >= horizon'
                                      /\ delta'[j] = last'[delta'[j].key]
      BY <1>2, <1>3, <1>4, <1>7, <2>3, <2>4, <2>5
    <2>7. \A j, k \in 1 .. Len(delta') : delta'[j].key = delta'[k].key => j = k
      BY <1>3, <2>2, <2>3
    <2>. QED
      BY <1>4, <2>6, <2>7 DEF Ordered
  <1>10. CASE PushRefused(m) \/ "delta" \notin m.flags
    BY <1>6, <1>10 DEF PushRefused, Push, PushBaseline, PushComputed
  <1>. QED
    BY <1>8, <1>9, <1>10 DEF Push, Pushed

LEMMA OrderedNext ==
  ASSUME ClocksRise
  PROVE  Base /\ Ordered /\ InTime /\ InTime' /\ [OnePerClock]_vars /\ [Next]_vars => Ordered'
  <1>. SUFFICES ASSUME Base, Ordered, InTime, InTime', [OnePerClock]_vars, [Next]_vars
                PROVE  Ordered'
    OBVIOUS
  <1>0. /\ now \in Nat /\ MaxAge \in Nat /\ ClockLimit \div 2 \in Nat
        /\ now + MaxAge < ClockLimit \div 2 /\ now' + MaxAge < ClockLimit \div 2
    BY MetricStoreAssumption DEF Ordered, InTime
  <1>1. ASSUME NEW in \in Inputs, NEW step \in Steps, MetricStorePush(in, step)
        PROVE  Ordered'
    <2>1. /\ now' = now + step /\ now' \in Int /\ horizon' = horizon
          /\ pushes' # pushes
      <3>1. pushes \in 0 .. MaxPush /\ MaxPush \in Nat /\ pushes' = pushes + 1
        BY <1>1, BaseFacts, MetricStoreAssumption DEF MetricStorePush
      <3>. QED
        BY <1>1, <3>1, PushIs
    <2>2. PICK m : /\ Pushed(m) /\ Push(m)
                   /\ m.key = in.key /\ m.flags = in.flags /\ m.clock = now'
      BY <1>1, PushIs
    <2>3. now' \in Nat /\ now' >= now /\ now' < ClockLimit \div 2
      <3>1. step \in Nat
        BY DEF ClocksRise
      <3>. QED
        BY <1>0, <2>1, <3>1
    <2>4. OnePerClock
      BY <2>1 DEF vars
    <2>5. "delta" \in m.flags =>
            \A i \in 1 .. Len(delta) : delta[i].key = m.key => delta[i].clock # now'
      BY <1>1, <2>2, <2>4, BaseFacts DEF OnePerClock
    <2>. QED
      BY <2>1, <2>2, <2>3, <2>5, OrderedPush
  <1>2. CASE EvictDelta
    <2>. DEFINE clock == now - MaxAge
    <2>1. /\ delta' = Kept(delta, clock) /\ horizon' = clock /\ now' = now /\ last' = last
          /\ \A j \in 1 .. Len(delta') : \E i \in 1 .. Len(delta) :
               delta'[j] = delta[i] /\ ~Evictable(delta[i], clock)
      BY <1>2, EvictIs
    <2>2. clock \in Int /\ clock <= now
      BY <1>0
    <2>3. ASSUME NEW i \in 1 .. Len(delta), ~Evictable(delta[i], clock)
          PROVE  delta[i].clock >= clock
      <3>1. delta[i].clock \in Int
        BY BaseFacts, MetricsAre
      <3>2. PICK c \in Int : c = delta[i].clock /\ c <= now /\ c >= 0
        BY <3>1 DEF Ordered
      <3>3. PICK h \in Int : h = ClockLimit \div 2 /\ now + MaxAge < h
        BY <1>0
      <3>4. c - clock < h /\ clock - c < h
        BY <1>0, <3>2, <3>3
      <3>5. TimeCmp(c, clock) = c - clock
        <4>. HIDE DEF TimeCmp, clock
        <4>. QED
          BY <2>2, <3>3, <3>4, TimeCmpIs
      <3>6. ~(c - clock < 0)
        <4>. HIDE DEF clock
        <4>. QED
          BY <2>3, <3>2, <3>5 DEF Evictable
      <3>. QED
        BY <2>2, <3>2, <3>6
    <2>4. \A i, j \in 1 .. Len(delta') : delta'[i].key = delta'[j].key => i = j
      <3>1. delta \in Seq(AnyMetric)
        BY BaseFacts
      <3>2. \A i, j \in 1 .. Len(delta) : delta[i].key = delta[j].key => i = j
        BY DEF Ordered
      <3>3. \A i, j \in 1 .. Len(Kept(delta, clock)) :
              Kept(delta, clock)[i].key = Kept(delta, clock)[j].key => i = j
        <4>. HIDE DEF clock
        <4>. QED
          BY <3>1, <3>2, KeptKeys
      <3>. QED
        BY <2>1, <3>3
    <2>. HIDE DEF clock
    <2>5. \A i \in 1 .. Len(delta') : /\ delta'[i].clock <= now' /\ delta'[i].clock >= 0
                                      /\ delta'[i].clock >= horizon'
                                      /\ delta'[i] = last'[delta'[i].key]
      BY <2>1, <2>3 DEF Ordered
    <2>. QED
      BY <1>0, <2>1, <2>2, <2>4, <2>5 DEF Ordered
  <1>3. CASE MetricStoreCache
    BY <1>3 DEF MetricStoreCache, Ordered
  <1>4. CASE MetricStoreFlushAll
    <2>1. delta' = <<>> /\ now' = now /\ horizon' = horizon
      BY <1>4 DEF MetricStoreFlushAll
    <2>2. \A i \in 1 .. Len(delta') : FALSE
      BY <2>1, NothingLeft
    <2>. QED
      BY <2>1, <2>2 DEF Ordered
  <1>5. CASE UNCHANGED vars
    BY <1>5 DEF Ordered, vars
  <1>. QED
    BY <1>1, <1>2, <1>3, <1>4, <1>5 DEF Next

LEMMA OrderedFresh == Base /\ Ordered => WellFormed
  <1>. SUFFICES ASSUME Base, Ordered PROVE WellFormed
    OBVIOUS
  <1>1. DOMAIN delta = 1 .. Len(delta)
    BY BaseFacts
  <1>. QED
    BY <1>1, BaseTypes, BaseBytes DEF Ordered, WellFormed, BaselinesFresh

LEMMA OrderedLast == Base /\ Ordered => BaselineIsLast
  <1>. SUFFICES ASSUME Base, Ordered PROVE BaselineIsLast
    OBVIOUS
  <1>1. DOMAIN delta = 1 .. Len(delta)
    BY BaseFacts
  <1>. QED
    BY <1>1 DEF Ordered, BaselineIsLast

\* The integers of each key add up to what was pushed for it.
Summed == \A k \in Keys : Total(Ints(current, k)) % IntLimit = owed[k]

LEMMA SummedIs == Summed => ValuesConserved
  BY DEF Summed, ValuesConserved, Ints

\* c is pushed to current, and its integer is owed.
LEMMA SummedAdd ==
  ASSUME Base, Summed, NEW c \in CurrentMetric, current' = PushValue(current, c),
         IF c.type = "int" THEN Owe(c.key, c.value) ELSE owed' = owed
  PROVE  Summed'
  <1>1. /\ current \in Seq(CurrentMetric) /\ owed \in [Keys -> 0 .. IntLimit - 1]
        /\ c.key \in Keys /\ c.value \in Int /\ IntLimit \in Nat \ {0}
    BY BaseFacts, MetricsAre, MetricStoreAssumption
  <1>. SUFFICES ASSUME NEW k \in Keys
                PROVE  Total(Ints(current', k)) % IntLimit = owed'[k]
    BY DEF Summed
  <1>2. PICK t \in Int : t = Total(Ints(current, k))
    BY <1>1, IntsFacts
  <1>3. Total(Ints(current', k)) % IntLimit = (t + Part(c, k)) % IntLimit
    BY <1>1, <1>2, PushValueAdds
  <1>4. t % IntLimit = owed[k]
    BY <1>2 DEF Summed
  <1>5. CASE c.type = "int" /\ c.key = k
    <2>1. owed'[k] = (owed[k] + c.value) % IntLimit
      BY <1>1, <1>5 DEF Owe
    <2>2. ((t % IntLimit) + c.value) % IntLimit = (t + c.value) % IntLimit
      BY <1>1, ModAdd
    <2>3. Part(c, k) = c.value
      BY <1>5 DEF Part
    <2>. QED
      BY <1>3, <1>4, <2>1, <2>2, <2>3
  <1>6. CASE ~(c.type = "int" /\ c.key = k)
    <2>1. owed'[k] = owed[k]
      BY <1>1, <1>6 DEF Owe
    <2>2. Part(c, k) = 0 /\ t + 0 = t
      BY <1>6 DEF Part
    <2>. QED
      BY <1>3, <1>4, <2>1, <2>2
  <1>. QED
    BY <1>5, <1>6

LEMMA SummedNext == Base /\ Ordered /\ Summed /\ [Next]_vars => Summed'
  <1>. SUFFICES ASSUME Base, Ordered, Summed, [Next]_vars PROVE Summed'
    OBVIOUS
  <1>1. ASSUME NEW in \in Inputs, NEW step \in Steps, MetricStorePush(in, step)
        PROVE  Summed'
    <2>1. PICK m : Pushed(m) /\ Push(m)
      BY <1>1, PushIs
    <2>2. CASE "delta" \in m.flags /\ PushComputed(m)
      <3>1. m \in DeltaMetric
        BY <2>1, <2>2 DEF Pushed
      <3>2. PICK i, c : Computes(m, i, c)
        BY <2>2, <3>1, PushComputes
      <3>3. /\ i \in 1 .. Len(delta) /\ delta[i].key = m.key
            /\ c \in CurrentMetric /\ c.key = m.key
            /\ c.type = IF "rate" \in delta[i].flags THEN "float" ELSE m.type
            /\ m.type = "int" /\ "rate" \notin delta[i].flags => c.value = Increase(delta[i], m)
            /\ current' = PushValue(current, c)
        BY <3>2 DEF Computes
      <3>4. delta[i] = last[m.key]
        BY <3>3 DEF Ordered
      <3>5. IF m.type = "int" /\ "rate" \notin last[m.key].flags
            THEN Owe(m.key, Increase(last[m.key], m)) ELSE owed' = owed
        BY <2>2 DEF PushComputed
      <3>6. IF c.type = "int" THEN Owe(c.key, c.value) ELSE owed' = owed
        BY <3>3, <3>4, <3>5
      <3>. QED
        BY <3>3, <3>6, SummedAdd
    <2>3. CASE "delta" \notin m.flags
      <3>1. m \in CurrentMetric
        BY <2>1, <2>3 DEF Pushed
      <3>2. /\ current' = PushValue(current, m)
            /\ IF m.type = "int" THEN Owe(m.key, m.value) ELSE owed' = owed
        BY <2>1, <2>3 DEF Push
      <3>. QED
        BY <3>1, <3>2, SummedAdd
    <2>4. CASE PushBaseline(m) \/ PushRefused(m)
      BY <2>4 DEF PushBaseline, PushRefused, Summed
    <2>. QED
      BY <2>1, <2>2, <2>3, <2>4 DEF Push
  <1>2. CASE current' = <<>> /\ owed' = [k \in Keys |-> 0]
    <2>1. 0 % IntLimit = 0
      BY NothingLeft, MetricStoreAssumption, ModSmall
    <2>. QED
      BY <1>2, <2>1, NothingLeft DEF Summed
  <1>3. CASE current' = current /\ owed' = owed
    BY <1>3 DEF Summed
  <1>. QED
    BY <1>1, <1>2, <1>3
    DEF Next, EvictDelta, MetricStoreCache, MetricStoreFlushAll, vars

LEMMA SummedInit == Init => Summed
  <1>1. 0 % IntLimit = 0
    BY NothingLeft, MetricStoreAssumption, ModSmall
  <1>. QED
    BY <1>1, NothingLeft DEF Init, Summed

LEMMA SpecOrdered ==
  ASSUME ClocksRise
  PROVE  Spec /\ []InTime /\ [][OnePerClock]_vars => [](Base /\ Ordered /\ Summed)
  <1>1. Base /\ Ordered /\ Summed /\ InTime /\ InTime' /\ [OnePerClock]_vars /\ [Next]_vars
          => (Base /\ Ordered /\ Summed)'
    BY BaseNext, OrderedNext, SummedNext
  <1>. QED
    BY <1>1, BaseInit, OrderedInit, SummedInit, PTL DEF Spec

\* Whatever is pushed, sent and evicted, the types hold, the bytes of the list of
\* baselines are exact, and no baseline is older than the last eviction let
\* through (metric_store.c:45-74, evict.c:9-10).
THEOREM StoreStaysWellFormed ==
  ASSUME ClocksRise
  PROVE  Spec /\ []InTime /\ [][OnePerClock]_vars => []WellFormed
  BY SpecOrdered, OrderedFresh, PTL

\* A key has one baseline, the last delta accepted for it
\* (metric_store.c:49-62).
THEOREM DifferencesAreOfTheLast ==
  ASSUME ClocksRise
  PROVE  Spec /\ []InTime /\ [][OnePerClock]_vars => []BaselineIsLast
  BY SpecOrdered, OrderedLast, PTL

\* Modulo 2^64, the integers to send with a key add up to what was pushed for
\* it, over any number of pushes, sums and sends (metric_store.c:64-74,
\* metric_compute.c:25-39, 63-73).
THEOREM NoValueIsLost ==
  ASSUME ClocksRise
  PROVE  Spec /\ []InTime /\ [][OnePerClock]_vars => []ValuesConserved
  BY SpecOrdered, SummedIs, PTL

=============================================================================
