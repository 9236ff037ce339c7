--------------------------- MODULE LifecycleProofs ---------------------------
(***************************************************************************)
(* Theorems about Lifecycle: for every set of configurations, every number *)
(* of modules in them and every number of reloads.  Loading and unloading  *)
(* go through lists of any length: what they do is proved by looking at    *)
(* the first module, if any, after which it would not hold (LeastOf).      *)
(***************************************************************************)
EXTENDS Lifecycle, FiniteSetTheorems, WellFoundedInduction, TLAPS

-----------------------------------------------------------------------------
(* The invariant *)

Images == [handles : [Libs -> Int], gen : [Libs -> Int],
           command : Passwords \union {NULL, "freed"}]

Types ==
  /\ conf \in Configs
  /\ modules \in Seq(Instances)
  /\ image \in Images
  /\ reloads \in Nat
  /\ \A r \in requests : r.lib \in Http \union {"info"} /\ r.epoch \in 0 .. reloads
  /\ asked = [ids |-> asked.ids, before |-> asked.before]

\* Outside of the loop, nothing is loaded and nothing is asked.
Quiet ==
  at # "loop" => modules = <<>> /\ image = Unmapped /\ requests = {}

\* While the host id is not known, every id answered is the one remembered.
HostIdKnown ==
  /\ points => conf.hostid = ""
  /\ ~points => /\ conf.hostid = "" => asked.ids \subseteq {instance_id}
                /\ conf.hostid = "" => asked.before = instance_id

\* The process between the forks writes one file, once, and nothing comes after an exit.
PidFileKnown ==
  /\ pidfiles \subseteq {named}
  /\ middle \in {"none", "writing"} => pidfiles = {}
  /\ at = "start" => middle = "none"
  /\ cause = "exit" => at = "ended"
  /\ PidFileRemoved

IInv == Types /\ Quiet /\ CodeLoaded /\ PasswordsOwn /\ HostIdKnown /\ PidFileKnown

-----------------------------------------------------------------------------
(* Recursion *)

\* A set of naturals that is not empty has a least element.
LEMMA LeastOf ==
  ASSUME NEW F, F \subseteq Nat, F # {}
  PROVE  \E x \in F : \A y \in F : x <= y
  <1>1. \E x \in F : \A y \in F : ~(<<y, x>> \in OpToRel(<, Nat))
    BY NatLessThanWellFounded, WFMin
  <1>2. \A x, y \in Nat : <<y, x>> \in OpToRel(<, Nat) <=> y < x
    BY DEF OpToRel
  <1>3. PICK x \in F : \A y \in F : ~(y < x)
    BY <1>1, <1>2
  <1>. QED
    BY <1>3

\* F[<<y, k>>] is what turn k of a loop of n turns makes of y.
Turns(F, n, T) == F \in [T \X (1 .. n) -> T]

\* f gives the states of that loop from x.
States(f, F, n, T, x) ==
  /\ f \in [0 .. n -> T]
  /\ f[0] = x
  /\ \A k \in 1 .. n : f[k] = F[<<f[k - 1], k>>]

\* A loop has states.
LEMMA Recursion ==
  ASSUME NEW n \in Nat, NEW T, NEW x \in T, NEW F, Turns(F, n, T)
  PROVE  \E f : States(f, F, n, T, x)
  <1>. DEFINE Steps(f, j) == /\ f \in [0 .. j -> T] /\ f[0] = x
                             /\ \A k \in 1 .. j : f[k] = F[<<f[k - 1], k>>]
              C == {j \in 0 .. n : ~ \E f : Steps(f, j)}
  <1>1. C = {}
    <2>. SUFFICES ASSUME C # {} PROVE FALSE
      OBVIOUS
    <2>1. PICK j \in C : \A y \in C : j <= y
      <3>1. C \subseteq Nat
        OBVIOUS
      <3>. HIDE DEF C
      <3>. QED
        BY <3>1, LeastOf
    <2>. USE DEF Turns
    <2>2. CASE j = 0
      <3>1. Steps([i \in 0 .. 0 |-> x], 0)
        OBVIOUS
      <3>. QED
        BY <2>1, <2>2, <3>1
    <2>3. CASE j # 0
      <3>1. j - 1 \in 0 .. n /\ j - 1 \notin C /\ j \in 1 .. n
        BY <2>1, <2>3
      <3>2. PICK f : Steps(f, j - 1)
        BY <3>1
      <3>. DEFINE y == F[<<f[j - 1], j>>]
                  g == [i \in 0 .. j |-> IF i = j THEN y ELSE f[i]]
      <3>3. f \in [0 .. j - 1 -> T] /\ f[0] = x /\ j - 1 \in 0 .. j - 1
        BY <3>1, <3>2
      <3>4. y \in T
        BY <3>1, <3>3
      <3>. HIDE DEF y
      <3>5. g \in [0 .. j -> T] /\ g[0] = x
        BY <3>1, <3>3, <3>4
      <3>6. ASSUME NEW k \in 1 .. j
            PROVE  g[k] = F[<<g[k - 1], k>>]
        <4>1. CASE k = j
          <5>1. g[k] = y /\ g[k - 1] = f[j - 1]
            BY <3>1, <4>1
          <5>. QED
            BY <4>1, <5>1 DEF y
        <4>2. CASE k # j
          <5>1. k \in 1 .. j - 1 /\ g[k] = f[k] /\ g[k - 1] = f[k - 1]
            BY <3>1, <4>2
          <5>. HIDE DEF g
          <5>. QED
            BY <3>2, <5>1
        <4>. QED
          BY <4>1, <4>2
      <3>7. Steps(g, j)
        BY <3>5, <3>6
      <3>. QED
        BY <2>1, <3>7
    <2>. QED
      BY <2>2, <2>3
  <1>2. n \in 0 .. n
    OBVIOUS
  <1>. QED
    BY <1>1, <1>2 DEF States

-----------------------------------------------------------------------------
(* Libraries *)

\* dlopen counts one handle more, and maps the library if it was not.
LEMMA OpensEffect ==
  ASSUME NEW im \in Images, NEW l \in Libs
  PROVE  /\ Opens(im, l) \in Images
         /\ im.handles[l] \in Nat =>
              Opens(im, l).handles = [im.handles EXCEPT ![l] = im.handles[l] + 1]
         /\ Opens(im, l).command =
              IF l = "redis" /\ ~(im.handles[l] > 0) THEN NULL ELSE im.command
  <1>1. /\ im.handles \in [Libs -> Int] /\ im.gen \in [Libs -> Int]
        /\ im.command \in Passwords \union {NULL, "freed"}
        /\ im = [handles |-> im.handles, gen |-> im.gen, command |-> im.command]
    BY DEF Images
  <1>2. CASE im.handles[l] > 0
    <2>1. Opens(im, l) = [handles |-> [im.handles EXCEPT ![l] = im.handles[l] + 1],
                          gen |-> im.gen, command |-> im.command]
      BY <1>1, <1>2 DEF Opens
    <2>. QED
      BY <1>1, <1>2, <2>1 DEF Images
  <1>3. CASE ~(im.handles[l] > 0)
    <2>1. Opens(im, l) = [handles |-> [im.handles EXCEPT ![l] = 1],
                          gen |-> [im.gen EXCEPT ![l] = im.gen[l] + 1],
                          command |-> IF l = "redis" THEN NULL ELSE im.command]
      BY <1>1, <1>3 DEF Opens
    <2>2. im.handles[l] \in Nat => im.handles[l] + 1 = 1
      BY <1>3
    <2>. QED
      BY <1>1, <1>3, <2>1, <2>2 DEF Images
  <1>. QED
    BY <1>2, <1>3

LEMMA ClosesEffect ==
  ASSUME NEW im \in Images, NEW l \in Libs
  PROVE  /\ Closes(im, l) \in Images
         /\ Closes(im, l).handles = [im.handles EXCEPT ![l] = im.handles[l] - 1]
         /\ Closes(im, l).command = im.command
  BY DEF Closes, Images

\* A library that lacks a function leaves no handle (load_module.c:79-82).
LEMMA RefusedEffect ==
  ASSUME NEW im \in Images, NEW l \in Libs
  PROVE  /\ Refused(im, l) \in Images
         /\ im.handles[l] \in Nat => Refused(im, l).handles = im.handles
         /\ Refused(im, l).command =
              IF l = "redis" /\ ~(im.handles[l] > 0) THEN NULL ELSE im.command
  <1>. DEFINE o == Opens(im, l)
  <1>1. /\ o \in Images
        /\ im.handles[l] \in Nat => o.handles = [im.handles EXCEPT ![l] = im.handles[l] + 1]
        /\ o.command = IF l = "redis" /\ ~(im.handles[l] > 0) THEN NULL ELSE im.command
    BY OpensEffect
  <1>2. Refused(im, l) = Closes(o, l)
    BY DEF Refused
  <1>. HIDE DEF o
  <1>3. /\ Closes(o, l) \in Images
        /\ Closes(o, l).handles = [o.handles EXCEPT ![l] = o.handles[l] - 1]
        /\ Closes(o, l).command = o.command
    BY <1>1, ClosesEffect
  <1>4. ASSUME im.handles[l] \in Nat
        PROVE  Closes(o, l).handles = im.handles
    <2>1. im.handles \in [Libs -> Int]
      BY DEF Images
    <2>2. (im.handles[l] + 1) - 1 = im.handles[l]
      BY <1>4
    <2>. QED
      BY <1>1, <1>3, <1>4, <2>1, <2>2
  <1>. QED
    BY <1>1, <1>2, <1>3, <1>4

LEMMA InitsEffect ==
  ASSUME NEW im \in Images, NEW m \in Instances
  PROVE  /\ Inits(im, m) \in Images
         /\ Inits(im, m).handles = im.handles
         /\ Inits(im, m).command =
              IF m.lib = "redis" /\ m.auth # NULL THEN m.auth ELSE im.command
  BY DEF Inits, Images, Instances

\* monikor_mod_destroy closes one handle.
LEMMA DestroyEffect ==
  ASSUME NEW im \in Images, NEW m \in Instances
  PROVE  /\ Destroy(im, m) \in Images
         /\ Destroy(im, m).handles = [im.handles EXCEPT ![m.lib] = im.handles[m.lib] - 1]
  <1>. DEFINE freed == IF m.lib = "redis" /\ im.command # NULL
                       THEN [im EXCEPT !.command = "freed"] ELSE im
  <1>1. freed \in Images /\ freed.handles = im.handles /\ m.lib \in Libs
    BY DEF Images, Instances
  <1>2. Destroy(im, m) = Closes(freed, m.lib)
    BY DEF Destroy
  <1>. HIDE DEF freed
  <1>. QED
    BY <1>1, <1>2, ClosesEffect

-----------------------------------------------------------------------------
(* Counting modules *)

\* The modules loaded from library l, among the first k of s
From(s, k, l) == {j \in 1 .. k : s[j].lib = l}

LEMMA FromNone ==
  ASSUME NEW s, NEW l
  PROVE  Cardinality(From(s, 0, l)) = 0
  <1>1. From(s, 0, l) = {}
    BY DEF From
  <1>. QED
    BY <1>1, FS_EmptySet

LEMMA FromFinite ==
  ASSUME NEW s, NEW k \in Nat, NEW l
  PROVE  /\ IsFiniteSet(From(s, k, l)) /\ Cardinality(From(s, k, l)) \in Nat
         /\ \A j \in From(s, k, l) : Cardinality(From(s, k, l)) > 0
  <1>1. IsFiniteSet(1 .. k)
    BY FS_Interval
  <1>2. From(s, k, l) \subseteq 1 .. k
    BY DEF From
  <1>3. IsFiniteSet(From(s, k, l))
    BY <1>1, <1>2, FS_Subset
  <1>4. Cardinality(From(s, k, l)) \in Nat
    BY <1>3, FS_CardinalityType
  <1>5. Cardinality(From(s, k, l)) = 0 <=> From(s, k, l) = {}
    BY <1>3, FS_EmptySet
  <1>. QED
    BY <1>3, <1>4, <1>5

LEMMA FromOneMore ==
  ASSUME NEW s, NEW k \in Nat, NEW l
  PROVE  Cardinality(From(s, k + 1, l)) =
           Cardinality(From(s, k, l)) + (IF s[k + 1].lib = l THEN 1 ELSE 0)
  <1>. DEFINE S == From(s, k, l)
  <1>1. IsFiniteSet(S) /\ Cardinality(S) \in Nat
    BY FromFinite
  <1>2. k + 1 \notin S
    BY DEF From
  <1>3. CASE s[k + 1].lib = l
    <2>1. From(s, k + 1, l) = S \union {k + 1}
      BY <1>3 DEF From
    <2>. HIDE DEF S
    <2>2. Cardinality(S \union {k + 1}) = Cardinality(S) + 1
      BY <1>1, <1>2, FS_AddElement
    <2>. QED
      BY <1>3, <2>1, <2>2 DEF S
  <1>4. CASE s[k + 1].lib # l
    <2>1. From(s, k + 1, l) = S
      BY <1>4 DEF From
    <2>. HIDE DEF S
    <2>. QED
      BY <1>1, <1>4, <2>1 DEF S
  <1>. QED
    BY <1>3, <1>4

\* The count of a list does not depend on what is behind it.
LEMMA FromSame ==
  ASSUME NEW s, NEW t, NEW k \in Nat, NEW l, \A j \in 1 .. k : s[j] = t[j]
  PROVE  From(s, k, l) = From(t, k, l)
  BY DEF From

-----------------------------------------------------------------------------
(* Unloading *)

\* monikor_cleanup_modules closes as many handles of a library as there are
\* modules from it.
LEMMA CleanupEffect ==
  ASSUME image \in Images, modules \in Seq(Instances)
  PROVE  /\ CleanupModules \in Images
         /\ \A l \in Libs : CleanupModules.handles[l]
              = image.handles[l] - Cardinality(From(modules, Len(modules), l))
  <1>. DEFINE n == Len(modules)
              Def(f) == f = [k \in 0 .. n |-> IF k = 0 THEN image
                                              ELSE Destroy(f[k - 1], modules[k])]
              g == CHOOSE f : Def(f)
              F == [p \in Images \X (1 .. n) |-> Destroy(p[1], modules[p[2]])]
  <1>1. n \in Nat /\ \A k \in 1 .. n : modules[k] \in Instances
    OBVIOUS
  <1>2. Turns(F, n, Images)
    <2>. SUFFICES ASSUME NEW im \in Images, NEW k \in 1 .. n
                  PROVE  Destroy(im, modules[k]) \in Images
      BY DEF Turns
    <2>. QED
      BY <1>1, DestroyEffect
  <1>3. PICK f : States(f, F, n, Images, image)
    <2>1. n \in Nat
      BY <1>1
    <2>. HIDE DEF F, n
    <2>. QED
      BY <1>2, <2>1, Recursion
  <1>4. \A k \in 1 .. n : f[k - 1] \in Images /\ f[k] = Destroy(f[k - 1], modules[k])
    <2>. SUFFICES ASSUME NEW k \in 1 .. n
                  PROVE  f[k - 1] \in Images /\ f[k] = Destroy(f[k - 1], modules[k])
      OBVIOUS
    <2>1. f[k - 1] \in Images
      BY <1>1, <1>3 DEF States
    <2>2. F[<<f[k - 1], k>>] = Destroy(f[k - 1], modules[k])
      BY <2>1
    <2>. QED
      BY <1>3, <2>1, <2>2 DEF States
  <1>. HIDE DEF F
  <1>5. Def(f)
    BY <1>1, <1>3, <1>4 DEF States
  <1>6. Def(g)
    BY <1>5
  <1>7. CleanupModules = g[n]
    BY DEF CleanupModules
  <1>. HIDE DEF g
  <1>8. /\ g[0] = image
        /\ \A k \in 1 .. n : g[k] = Destroy(g[k - 1], modules[k])
    BY <1>1, <1>6
  <1>. DEFINE Left(k) == /\ g[k] \in Images
                         /\ \A l \in Libs : g[k].handles[l]
                              = image.handles[l] - Cardinality(From(modules, k, l))
              C == {k \in 0 .. n : ~Left(k)}
  <1>9. C = {}
    <2>. SUFFICES ASSUME C # {} PROVE FALSE
      OBVIOUS
    <2>1. PICK k \in C : \A y \in C : k <= y
      <3>1. C \subseteq Nat
        OBVIOUS
      <3>. HIDE DEF C
      <3>. QED
        BY <3>1, LeastOf
    <2>2. Left(0)
      <3>1. \A l \in Libs : image.handles[l] \in Int
        BY DEF Images
      <3>. QED
        BY <1>8, <3>1, FromNone
    <2>3. k # 0
      BY <2>1, <2>2
    <2>4. k \in 1 .. n /\ k - 1 \in 0 .. n /\ k - 1 \notin C /\ (k - 1) + 1 = k /\ k - 1 \in Nat
      BY <1>1, <2>1, <2>3
    <2>5. Left(k - 1)
      BY <2>4
    <2>. HIDE DEF C
    <2>. DEFINE m == modules[k]
    <2>6. /\ g[k] \in Images
          /\ g[k].handles = [g[k - 1].handles EXCEPT ![m.lib] = g[k - 1].handles[m.lib] - 1]
      <3>1. g[k - 1] \in Images /\ m \in Instances /\ g[k] = Destroy(g[k - 1], m)
        BY <1>1, <1>8, <2>4, <2>5
      <3>. DEFINE y == g[k - 1]
      <3>2. y \in Images /\ m \in Instances
        BY <3>1
      <3>. HIDE DEF m, y
      <3>3. /\ Destroy(y, m) \in Images
            /\ Destroy(y, m).handles = [y.handles EXCEPT ![m.lib] = y.handles[m.lib] - 1]
        BY <3>2, DestroyEffect
      <3>. QED
        BY <3>1, <3>3 DEF y
    <2>7. ASSUME NEW l \in Libs
          PROVE  g[k].handles[l] = image.handles[l] - Cardinality(From(modules, k, l))
      <3>1. Cardinality(From(modules, k, l))
              = Cardinality(From(modules, k - 1, l)) + (IF m.lib = l THEN 1 ELSE 0)
        BY <2>4, FromOneMore
      <3>2. Cardinality(From(modules, k - 1, l)) \in Nat /\ image.handles[l] \in Int
        BY <2>4, FromFinite DEF Images
      <3>3. g[k].handles[l] = g[k - 1].handles[l] - (IF m.lib = l THEN 1 ELSE 0)
        <4>1. g[k - 1].handles \in [Libs -> Int]
          BY <2>5 DEF Images
        <4>. HIDE DEF m, Left
        <4>. QED
          BY <2>6, <4>1
      <3>4. g[k - 1].handles[l] = image.handles[l] - Cardinality(From(modules, k - 1, l))
        BY <2>5
      <3>. HIDE DEF m, Left
      <3>. QED
        BY <3>1, <3>2, <3>3, <3>4
    <2>8. Left(k)
      BY <2>6, <2>7
    <2>. QED
      BY <2>1, <2>8 DEF C
  <1>10. Left(n)
    BY <1>1, <1>9
  <1>. QED
    BY <1>7, <1>10

-----------------------------------------------------------------------------
(* Loading *)

\* What monikor_load_one_module works on
Stages == [image : Images, modules : Seq(Instances)]

\* Two of the first k modules of configuration c are for Redis.
Several(c, k) ==
  \E p, q \in 1 .. k : p # q /\ c.mods[p].lib = "redis" /\ c.mods[q].lib = "redis"

\* st comes of the first k modules of configuration c.
Loaded(st, c, k) ==
  /\ st \in Stages
  /\ \A l \in Libs :
       st.image.handles[l] = Cardinality(From(st.modules, Len(st.modules), l))
  /\ \A j \in 1 .. Len(st.modules) : \E q \in 1 .. k : c.mods[q] = st.modules[j]
  /\ \A j \in 1 .. Len(st.modules) : st.modules[j].lib = "redis" =>
       /\ st.image.command # "freed"
       /\ st.image.command = st.modules[j].auth \/ Several(c, k)

\* The cases of monikor_load_one_module
LEMMA LoadCases ==
  ASSUME NEW st \in Stages, NEW m \in Instances, NEW how \in Outcomes
  PROVE  \/ LoadOne(st, m, how) = st
         \/ LoadOne(st, m, how) = [image |-> Refused(st.image, m.lib), modules |-> st.modules]
         \/ LoadOne(st, m, how) = [image   |-> Inits(Opens(st.image, m.lib), m),
                                   modules |-> Append(st.modules, m)]
  <1>1. st = [image |-> st.image, modules |-> st.modules]
    BY DEF Stages
  <1>2. CASE ~m.on \/ how = "open"
    BY <1>2 DEF LoadOne
  <1>3. CASE m.on /\ how = "symbol"
    BY <1>1, <1>3 DEF LoadOne
  <1>4. CASE m.on /\ how = "ok"
    BY <1>4 DEF LoadOne
  <1>5. m.on \in BOOLEAN
    BY DEF Instances
  <1>. QED
    BY <1>2, <1>3, <1>4, <1>5 DEF Outcomes

LEMMA LoadTyped ==
  ASSUME NEW st \in Stages, NEW m \in Instances, NEW how \in Outcomes
  PROVE  LoadOne(st, m, how) \in Stages
  <1>1. /\ st.image \in Images /\ st.modules \in Seq(Instances) /\ m.lib \in Libs
        /\ Append(st.modules, m) \in Seq(Instances)
    BY DEF Stages, Instances
  <1>2. Refused(st.image, m.lib) \in Images /\ Opens(st.image, m.lib) \in Images
    BY <1>1, RefusedEffect, OpensEffect
  <1>3. Inits(Opens(st.image, m.lib), m) \in Images
    BY <1>2, InitsEffect
  <1>. QED
    BY <1>1, <1>2, <1>3, LoadCases DEF Stages

LEMMA LoadKeeps ==
  ASSUME NEW c \in Configs, NEW k \in 1 .. Len(c.mods), NEW how \in Outcomes,
         NEW st, Loaded(st, c, k - 1)
  PROVE  Loaded(LoadOne(st, c.mods[k], how), c, k)
  <1>. DEFINE m  == c.mods[k]
              im == st.image
              ms == st.modules
              n  == Len(ms)
              lo == LoadOne(st, m, how)
  <1>1. /\ c.mods \in Seq(Instances) /\ Len(c.mods) \in Nat /\ m \in Instances
        /\ k - 1 \in Nat /\ k \in Nat
    BY LifecycleAssumption DEF LifecycleAssumption
  <1>2. /\ st \in Stages /\ im \in Images /\ ms \in Seq(Instances) /\ n \in Nat
        /\ \A l \in Libs : im.handles[l] = Cardinality(From(ms, n, l))
        /\ m.lib \in Libs /\ \A j \in 1 .. n : ms[j] \in Instances
    <2>1. st \in Stages /\ im \in Images /\ ms \in Seq(Instances) /\ n \in Nat
      BY DEF Loaded, Stages
    <2>2. \A l \in Libs : im.handles[l] = Cardinality(From(ms, n, l))
      BY DEF Loaded
    <2>3. m.lib \in Libs
      BY <1>1 DEF Instances
    <2>4. \A j \in 1 .. n : ms[j] \in Instances
      BY <2>1
    <2>. QED
      BY <2>1, <2>2, <2>3, <2>4
  <1>3. ASSUME NEW l \in Libs PROVE im.handles[l] \in Nat
    <2>1. Cardinality(From(ms, n, l)) \in Nat
      BY <1>2, FromFinite
    <2>. QED
      BY <1>2, <2>1
  <1>4. ASSUME Several(c, k - 1) PROVE Several(c, k)
    BY <1>1, <1>4 DEF Several
  <1>5. \A j \in 1 .. n : \E q \in 1 .. k - 1 : c.mods[q] = ms[j]
    BY DEF Loaded
  <1>6. \A j \in 1 .. n : ms[j].lib = "redis" =>
          /\ im.command # "freed"
          /\ im.command = ms[j].auth \/ Several(c, k - 1)
    BY DEF Loaded
  <1>7. ASSUME NEW j \in 1 .. n, ms[j].lib = "redis", m.lib = "redis"
        PROVE  Several(c, k)
    <2>1. PICK q \in 1 .. k - 1 : c.mods[q] = ms[j]
      BY <1>5
    <2>2. q \in 1 .. k /\ k \in 1 .. k /\ q # k
      BY <1>1
    <2>. QED
      BY <1>7, <2>1, <2>2 DEF Several
  <1>8. ASSUME NEW j \in 1 .. n, ms[j].lib = "redis"
        PROVE  im.handles["redis"] > 0
    <2>1. j \in From(ms, n, "redis")
      BY <1>8 DEF From
    <2>2. Cardinality(From(ms, n, "redis")) > 0
      BY <1>2, <2>1, FromFinite
    <2>. QED
      BY <1>2, <2>2 DEF Libs
  <1>9. lo \in Stages
    BY <1>1, <1>2, LoadTyped
  <1>10. \A j \in 1 .. n : \E q \in 1 .. k : c.mods[q] = ms[j]
    <2>1. \A q \in 1 .. k - 1 : q \in 1 .. k
      BY <1>1
    <2>. QED
      BY <1>5, <2>1
  <1>. SUFFICES Loaded(lo, c, k)
    OBVIOUS
  <1>. HIDE DEF lo, m, im, ms, n
  <1>11. CASE lo = st
    BY <1>2, <1>4, <1>6, <1>9, <1>10, <1>11 DEF Loaded, im, ms, n
  <1>12. CASE lo = [image |-> Refused(im, m.lib), modules |-> ms]
    <2>. DEFINE re == Refused(im, m.lib)
    <2>1. /\ re.handles = im.handles
          /\ re.command = IF m.lib = "redis" /\ ~(im.handles[m.lib] > 0) THEN NULL
                                                                       ELSE im.command
      BY <1>2, <1>3, RefusedEffect
    <2>. HIDE DEF re
    <2>2. \A j \in 1 .. n : ms[j].lib = "redis" => re.command = im.command
      BY <1>8, <2>1
    <2>3. lo.image = re /\ lo.modules = ms
      BY <1>12 DEF re
    <2>4. \A l \in Libs : re.handles[l] = Cardinality(From(ms, n, l))
      BY <1>2, <2>1
    <2>5. \A j \in 1 .. n : ms[j].lib = "redis" =>
            re.command # "freed" /\ (re.command = ms[j].auth \/ Several(c, k))
      BY <1>4, <1>6, <2>2
    <2>. QED
      BY <1>9, <1>10, <2>3, <2>4, <2>5 DEF Loaded, n
  <1>13. CASE lo = [image |-> Inits(Opens(im, m.lib), m), modules |-> Append(ms, m)]
    <2>. DEFINE op == Opens(im, m.lib)
                ii == Inits(op, m)
                new == Append(ms, m)
    <2>1. /\ op \in Images
          /\ op.handles = [im.handles EXCEPT ![m.lib] = im.handles[m.lib] + 1]
          /\ op.command = IF m.lib = "redis" /\ ~(im.handles[m.lib] > 0) THEN NULL
                                                                       ELSE im.command
      BY <1>2, <1>3, OpensEffect
    <2>. HIDE DEF op
    <2>2. /\ ii.handles = op.handles
          /\ ii.command = IF m.lib = "redis" /\ m.auth # NULL THEN m.auth ELSE op.command
      BY <1>1, <2>1, InitsEffect DEF m
    <2>. HIDE DEF ii
    <2>3. lo.image = ii /\ lo.modules = new
      BY <1>13 DEF ii, op
    <2>4. /\ Len(new) = n + 1 /\ new[n + 1] = m
          /\ \A j \in 1 .. n : new[j] = ms[j]
      BY <1>1, <1>2 DEF n, m
    <2>. HIDE DEF new
    <2>5. ASSUME NEW l \in Libs
          PROVE  ii.handles[l] = Cardinality(From(new, n + 1, l))
      <3>1. Cardinality(From(new, n + 1, l))
              = Cardinality(From(new, n, l)) + (IF m.lib = l THEN 1 ELSE 0)
        BY <1>2, <2>4, FromOneMore
      <3>2. From(new, n, l) = From(ms, n, l)
        BY <1>2, <2>4, FromSame
      <3>3. ii.handles[l] = im.handles[l] + (IF m.lib = l THEN 1 ELSE 0)
        <4>1. im.handles \in [Libs -> Int]
          BY <1>2 DEF Images
        <4>. QED
          BY <1>2, <2>1, <2>2, <4>1
      <3>. QED
        BY <1>2, <3>1, <3>2, <3>3
    <2>6. \A j \in 1 .. n + 1 : \E q \in 1 .. k : c.mods[q] = new[j]
      <3>1. k \in 1 .. k /\ c.mods[k] = new[n + 1]
        BY <1>1, <2>4 DEF m
      <3>2. \A j \in 1 .. n : \E q \in 1 .. k : c.mods[q] = new[j]
        BY <1>10, <2>4
      <3>. QED
        BY <1>2, <3>1, <3>2
    <2>7. ASSUME NEW j \in 1 .. n + 1, new[j].lib = "redis"
          PROVE  ii.command # "freed" /\ (ii.command = new[j].auth \/ Several(c, k))
      <3>1. m.auth \in Passwords \union {NULL} /\ m.auth # "freed"
        BY <1>1, LifecycleAssumption DEF Instances, LifecycleAssumption, m
      <3>2. CASE m.lib # "redis"
        <4>1. j \in 1 .. n /\ new[j] = ms[j]
          BY <1>2, <2>4, <2>7, <3>2
        <4>2. ii.command = im.command
          BY <2>1, <2>2, <3>2
        <4>. QED
          BY <1>4, <1>6, <2>7, <4>1, <4>2
      <3>3. CASE m.lib = "redis" /\ im.handles["redis"] > 0
        <4>1. From(ms, n, "redis") # {}
          <5>1. im.handles["redis"] = Cardinality(From(ms, n, "redis"))
            BY <1>2 DEF Libs
          <5>2. From(ms, n, "redis") = {} => Cardinality(From(ms, n, "redis")) = 0
            BY FS_EmptySet
          <5>. QED
            BY <3>3, <5>1, <5>2
        <4>2. PICK i \in 1 .. n : ms[i].lib = "redis"
          BY <4>1 DEF From
        <4>3. Several(c, k)
          BY <1>7, <3>3, <4>2
        <4>4. op.command = im.command /\ im.command # "freed"
          BY <1>6, <2>1, <3>3, <4>2
        <4>. QED
          BY <2>2, <3>1, <4>3, <4>4
      <3>4. CASE m.lib = "redis" /\ ~(im.handles["redis"] > 0)
        <4>1. j = n + 1
          <5>1. ~(j \in 1 .. n)
            BY <1>8, <2>4, <2>7, <3>4
          <5>. QED
            BY <1>2, <5>1
        <4>2. op.command = NULL
          BY <2>1, <3>4
        <4>3. ii.command = m.auth
          BY <2>2, <3>4, <4>2
        <4>. QED
          BY <2>4, <3>1, <4>1, <4>3
      <3>. QED
        BY <3>2, <3>3, <3>4
    <2>. QED
      BY <1>9, <2>3, <2>4, <2>5, <2>6, <2>7 DEF Loaded
  <1>. QED
    BY <1>1, <1>2, <1>11, <1>12, <1>13, LoadCases DEF lo, im, ms

\* monikor_init_modules, when no library is open
LEMMA InitEffect ==
  ASSUME NEW c \in Configs, NEW im \in Images, \A l \in Libs : im.handles[l] = 0,
         InitModules(c, im)
  PROVE  /\ conf' = c
         /\ Loaded([image |-> image', modules |-> modules'], c, Len(c.mods))
  <1>. DEFINE n == Len(c.mods)
  <1>1. PICK how \in [1 .. n -> Outcomes] :
          LET st[k \in 0 .. n] == IF k = 0 THEN [image |-> im, modules |-> <<>>]
                                  ELSE LoadOne(st[k - 1], c.mods[k], how[k])
          IN  /\ image' = st[n].image
              /\ modules' = st[n].modules
              /\ conf' = c
    BY DEF InitModules
  <1>. DEFINE first == [image |-> im, modules |-> <<>>]
              Def(f) == f = [k \in 0 .. n |-> IF k = 0 THEN first
                                              ELSE LoadOne(f[k - 1], c.mods[k], how[k])]
              g == CHOOSE f : Def(f)
              F == [p \in Stages \X (1 .. n) |-> LoadOne(p[1], c.mods[p[2]], how[p[2]])]
  <1>2. image' = g[n].image /\ modules' = g[n].modules /\ conf' = c
    BY <1>1
  <1>3. n \in Nat /\ \A k \in 1 .. n : c.mods[k] \in Instances /\ how[k] \in Outcomes
    BY LifecycleAssumption DEF LifecycleAssumption
  <1>4. Turns(F, n, Stages)
    <2>. SUFFICES ASSUME NEW st \in Stages, NEW k \in 1 .. n
                  PROVE  LoadOne(st, c.mods[k], how[k]) \in Stages
      BY DEF Turns
    <2>. QED
      BY <1>3, LoadTyped
  <1>5. first \in Stages
    BY DEF Stages
  <1>6. PICK f : States(f, F, n, Stages, first)
    <2>1. n \in Nat
      BY <1>3
    <2>. HIDE DEF F, n, first
    <2>. QED
      BY <1>4, <1>5, <2>1, Recursion
  <1>. HIDE DEF first
  <1>7. \A k \in 1 .. n : f[k - 1] \in Stages /\ f[k] = LoadOne(f[k - 1], c.mods[k], how[k])
    <2>. SUFFICES ASSUME NEW k \in 1 .. n
                  PROVE  f[k - 1] \in Stages /\ f[k] = LoadOne(f[k - 1], c.mods[k], how[k])
      OBVIOUS
    <2>1. f[k - 1] \in Stages
      BY <1>3, <1>6 DEF States
    <2>2. F[<<f[k - 1], k>>] = LoadOne(f[k - 1], c.mods[k], how[k])
      BY <2>1
    <2>. QED
      BY <1>6, <2>1, <2>2 DEF States
  <1>. HIDE DEF F
  <1>8. Def(f)
    BY <1>3, <1>6, <1>7 DEF States
  <1>9. Def(g)
    BY <1>8
  <1>. HIDE DEF g
  <1>10. /\ g[0] = first
         /\ \A k \in 1 .. n : g[k] = LoadOne(g[k - 1], c.mods[k], how[k])
    BY <1>3, <1>9
  <1>. DEFINE C == {k \in 0 .. n : ~Loaded(g[k], c, k)}
  <1>11. C = {}
    <2>. SUFFICES ASSUME C # {} PROVE FALSE
      OBVIOUS
    <2>1. PICK k \in C : \A y \in C : k <= y
      <3>1. C \subseteq Nat
        OBVIOUS
      <3>. HIDE DEF C
      <3>. QED
        BY <3>1, LeastOf
    <2>2. Loaded(g[0], c, 0)
      <3>1. g[0].image = im /\ g[0].modules = <<>> /\ Len(<<>>) = 0
        BY <1>10 DEF first
      <3>2. \A l \in Libs : Cardinality(From(<<>>, 0, l)) = 0
        BY FromNone
      <3>3. g[0] \in Stages
        BY <1>5, <1>10
      <3>. QED
        BY <3>1, <3>2, <3>3 DEF Loaded
    <2>3. k # 0
      BY <2>1, <2>2
    <2>4. k \in 1 .. n /\ k - 1 \in 0 .. n /\ k - 1 \notin C
      BY <1>3, <2>1, <2>3
    <2>5. Loaded(g[k - 1], c, k - 1)
      BY <2>4
    <2>6. Loaded(LoadOne(g[k - 1], c.mods[k], how[k]), c, k)
      BY <1>3, <2>4, <2>5, LoadKeeps
    <2>7. Loaded(g[k], c, k)
      BY <1>10, <2>4, <2>6
    <2>. QED
      BY <2>1, <2>7
  <1>12. Loaded(g[n], c, n)
    BY <1>3, <1>11
  <1>13. g[n] = [image |-> g[n].image, modules |-> g[n].modules]
    BY <1>12 DEF Loaded, Stages
  <1>. QED
    BY <1>2, <1>12, <1>13

-----------------------------------------------------------------------------
(* The invariant is inductive *)

LEMMA SeveralCounts ==
  ASSUME NEW c \in Configs, Several(c, Len(c.mods))
  PROVE  Cardinality({j \in DOMAIN c.mods : c.mods[j].lib = "redis"}) > 1
  <1>. DEFINE n == Len(c.mods)
              S == {j \in DOMAIN c.mods : c.mods[j].lib = "redis"}
  <1>1. n \in Nat /\ DOMAIN c.mods = 1 .. n
    BY LifecycleAssumption DEF LifecycleAssumption
  <1>2. PICK p \in 1 .. n, q \in 1 .. n : p # q /\ p \in S /\ q \in S
    BY <1>1 DEF Several
  <1>3. S = From(c.mods, n, "redis")
    BY <1>1 DEF From
  <1>4. IsFiniteSet(S) /\ Cardinality(S) \in Nat
    BY <1>1, <1>3, FromFinite
  <1>. HIDE DEF S
  <1>5. /\ IsFiniteSet(S \ {p}) /\ Cardinality(S \ {p}) = Cardinality(S) - 1
    BY <1>2, <1>4, FS_RemoveElement
  <1>6. q \in S \ {p}
    BY <1>2
  <1>7. Cardinality(S \ {p}) # 0
    BY <1>5, <1>6, FS_EmptySet
  <1>8. Cardinality(S \ {p}) \in Nat
    BY <1>5, FS_CardinalityType
  <1>. QED
    BY <1>4, <1>5, <1>7, <1>8 DEF S

\* What was loaded satisfies what the invariant says of modules.
LEMMA LoadedInvariant ==
  ASSUME NEW c \in Configs, conf' = c,
         Loaded([image |-> image', modules |-> modules'], c, Len(c.mods))
  PROVE  /\ conf' \in Configs /\ modules' \in Seq(Instances) /\ image' \in Images
         /\ \A l \in Libs : image'.handles[l]
              = Cardinality({k \in DOMAIN modules' : modules'[k].lib = l})
         /\ PasswordsOwn'
  <1>. DEFINE ms == modules'
              im == image'
              st == [image |-> im, modules |-> ms]
  <1>1. /\ st.image = im /\ st.modules = ms
        /\ st \in Stages
    BY DEF Loaded
  <1>2. /\ ms \in Seq(Instances) /\ im \in Images /\ DOMAIN ms = 1 .. Len(ms)
    BY <1>1 DEF Stages
  <1>3. \A l \in Libs : From(ms, Len(ms), l) = {k \in DOMAIN ms : ms[k].lib = l}
    BY <1>2 DEF From
  <1>4. \A l \in Libs : im.handles[l] = Cardinality({k \in DOMAIN ms : ms[k].lib = l})
    BY <1>1, <1>3 DEF Loaded
  <1>5. \A j \in DOMAIN ms : ms[j].lib = "redis" =>
          /\ im.command # "freed"
          /\ \/ im.command = ms[j].auth
             \/ Cardinality({i \in DOMAIN c.mods : c.mods[i].lib = "redis"}) > 1
    BY <1>1, <1>2, SeveralCounts DEF Loaded
  <1>6. PasswordsOwn'
    BY <1>5 DEF PasswordsOwn, RedisLoaded
  <1>. QED
    BY <1>2, <1>4, <1>6

\* No library is open before the start, nor after the modules were cleaned up.
LEMMA CleanupCloses ==
  ASSUME Types, CodeLoaded
  PROVE  CleanupModules \in Images /\ \A l \in Libs : CleanupModules.handles[l] = 0
  <1>1. image \in Images /\ modules \in Seq(Instances)
    BY DEF Types
  <1>2. /\ CleanupModules \in Images
        /\ \A l \in Libs : CleanupModules.handles[l]
             = image.handles[l] - Cardinality(From(modules, Len(modules), l))
    BY <1>1, CleanupEffect
  <1>3. \A l \in Libs : image.handles[l] = Cardinality(From(modules, Len(modules), l))
    BY <1>1 DEF CodeLoaded, From
  <1>4. \A l \in Libs : image.handles[l] \in Int
    BY <1>1 DEF Images
  <1>. QED
    BY <1>2, <1>3, <1>4

LEMMA UnmappedImage ==
  Unmapped \in Images /\ \A l \in Libs : Unmapped.handles[l] = 0
  BY DEF Unmapped, Images

\* Nothing is loaded: what the invariant says of modules is trivially true.
LEMMA NothingLoaded ==
  ASSUME modules = <<>>, image = Unmapped, requests = {}
  PROVE  CodeLoaded /\ PasswordsOwn
  <1>1. DOMAIN modules = {}
    OBVIOUS
  <1>2. \A l \in Libs : {k \in DOMAIN modules : modules[k].lib = l} = {}
    BY <1>1
  <1>3. Cardinality({}) = 0
    BY FS_EmptySet
  <1>4. \A l \in Libs : image.handles[l] = 0
    BY UnmappedImage
  <1>5. CodeLoaded
    BY <1>2, <1>3, <1>4 DEF CodeLoaded
  <1>6. PasswordsOwn
    BY <1>1 DEF PasswordsOwn, RedisLoaded
  <1>. QED
    BY <1>5, <1>6

LEMMA NoModules ==
  ASSUME NEW s, s = <<>>
  PROVE  s \in Seq(Instances) /\ DOMAIN s = {}
  OBVIOUS

LEMMA InitIInv == Init => IInv
  <1>. SUFFICES ASSUME Init PROVE IInv
    OBVIOUS
  <1>1. CodeLoaded /\ PasswordsOwn
    BY NothingLoaded DEF Init
  <1>2. Types
    <2>1. modules \in Seq(Instances) /\ image \in Images /\ reloads \in Nat /\ conf \in Configs
      BY UnmappedImage, NoModules DEF Init
    <2>2. asked = [ids |-> asked.ids, before |-> asked.before]
      BY DEF Init, Nothing
    <2>. QED
      BY <2>1, <2>2 DEF Init, Types
  <1>3. Quiet /\ HostIdKnown /\ PidFileKnown
    BY DEF Init, Quiet, HostIdKnown, PidFileKnown, PidFileRemoved, Nothing
  <1>. QED
    BY <1>1, <1>2, <1>3 DEF IInv

\* The pid files after an end that is no exit, or where nothing was done for them
LEMMA PidFilesKept ==
  ASSUME PidFileKnown, UNCHANGED <<middle, named, pidfiles, cause>>, at # "ended",
         at' # "start"
  PROVE  PidFileKnown'
  BY DEF PidFileKnown, PidFileRemoved

LEMMA PidFilesLeft ==
  ASSUME PidFileKnown, NEW why, why # "exit", Ends(why), pidfiles' \subseteq pidfiles
  PROVE  PidFileKnown'
  BY DEF PidFileKnown, PidFileRemoved, Ends

\* The end of the process
LEMMA EndsKeeps ==
  ASSUME IInv, NEW why, Ends(why), PidFileKnown'
  PROVE  IInv'
  <1>1. /\ modules' = <<>> /\ image' = Unmapped /\ requests' = {} /\ at' = "ended"
        /\ ~points' /\ instance_id' = "" /\ asked' = Nothing
        /\ UNCHANGED <<conf, reloads>>
    BY DEF Ends
  <1>2. CodeLoaded' /\ PasswordsOwn'
    <2>1. DOMAIN modules' = {}
      BY <1>1, NoModules
    <2>2. \A l \in Libs : {k \in DOMAIN modules' : modules'[k].lib = l} = {}
      BY <2>1
    <2>3. Cardinality({}) = 0
      BY FS_EmptySet
    <2>4. \A l \in Libs : image'.handles[l] = 0
      BY <1>1, UnmappedImage
    <2>5. CodeLoaded'
      BY <1>1, <2>2, <2>3, <2>4 DEF CodeLoaded
    <2>6. PasswordsOwn'
      BY <2>1 DEF PasswordsOwn, RedisLoaded
    <2>. QED
      BY <2>5, <2>6
  <1>3. Types'
    <2>1. /\ modules' \in Seq(Instances) /\ image' \in Images
          /\ reloads' \in Nat /\ conf' \in Configs
      BY <1>1, UnmappedImage, NoModules DEF IInv, Types
    <2>2. asked' = [ids |-> asked'.ids, before |-> asked'.before]
      BY <1>1 DEF Nothing
    <2>. QED
      BY <1>1, <2>1, <2>2 DEF Types
  <1>4. Quiet' /\ HostIdKnown'
    BY <1>1 DEF Quiet, HostIdKnown, Nothing
  <1>. QED
    BY <1>2, <1>3, <1>4 DEF IInv

LEMMA IInvNext == IInv /\ [Next]_vars => IInv'
  <1>. SUFFICES ASSUME IInv, [Next]_vars PROVE IInv'
    OBVIOUS
  <1>1. /\ Types /\ Quiet /\ CodeLoaded /\ PasswordsOwn /\ HostIdKnown /\ PidFileKnown
    BY DEF IInv
  <1>2. /\ conf \in Configs /\ modules \in Seq(Instances) /\ image \in Images /\ reloads \in Nat
        /\ \A r \in requests : r.lib \in Http \union {"info"} /\ r.epoch \in 0 .. reloads
        /\ asked = [ids |-> asked.ids, before |-> asked.before]
    BY <1>1 DEF Types
  \* The steps that leave the modules alone
  <1>3. ASSUME UNCHANGED <<modules, image, reloads, conf>>, requests' \subseteq requests,
               at' = "loop" => at = "loop"
        PROVE  CodeLoaded' /\ PasswordsOwn'
    BY <1>1, <1>3 DEF CodeLoaded, PasswordsOwn, RedisLoaded, Mapped
  <1>4. CASE InitFails
    <2>1. Ends("error") /\ UNCHANGED pidfiles
      BY <1>4 DEF InitFails
    <2>. QED
      BY <1>1, <2>1, PidFilesLeft, EndsKeeps
  <1>5. CASE Daemonizes \/ StaysInForeground
    <2>1. /\ UNCHANGED loaded /\ UNCHANGED <<pidfiles, cause>> /\ at = "start" /\ at' = "child"
          /\ middle' = "writing" \/ UNCHANGED <<middle, named>>
      BY <1>5 DEF Daemonizes, StaysInForeground, files
    <2>2. /\ UNCHANGED <<modules, image, reloads, conf, requests>>
          /\ UNCHANGED <<asked, instance_id, points>>
      BY <2>1 DEF loaded
    <2>3. CodeLoaded' /\ PasswordsOwn'
      BY <1>3, <2>1, <2>2
    <2>4. PidFileKnown'
      BY <1>1, <2>1 DEF PidFileKnown, PidFileRemoved
    <2>. QED
      BY <1>1, <2>1, <2>2, <2>3, <2>4 DEF IInv, Types, Quiet, HostIdKnown
  <1>6. CASE WritePid
    <2>1. /\ UNCHANGED <<at, modules, image, reloads, conf, requests>>
          /\ UNCHANGED <<asked, instance_id, points, named, cause>>
          /\ middle = "writing" /\ pidfiles' \subseteq pidfiles \union {named}
          /\ middle' \in {"gone", "late"} /\ (at = "ended" => middle' = "late")
      BY <1>6 DEF WritePid, loaded
    <2>2. CodeLoaded' /\ PasswordsOwn'
      BY <1>3, <2>1
    <2>3. PidFileKnown'
      BY <1>1, <2>1 DEF PidFileKnown, PidFileRemoved
    <2>. QED
      BY <1>1, <2>1, <2>2, <2>3 DEF IInv, Types, Quiet, HostIdKnown
  <1>7. CASE ChildFails
    <2>1. Ends("error") /\ UNCHANGED pidfiles
      BY <1>7 DEF ChildFails
    <2>. QED
      BY <1>1, <2>1, PidFilesLeft, EndsKeeps
  <1>8. CASE StartModules
    <2>1. /\ InitModules(conf, image) /\ at = "child" /\ at' = "loop"
          /\ UNCHANGED <<requests, instance_id, points, asked, reloads>>
          /\ UNCHANGED <<middle, named, pidfiles, cause>>
      BY <1>8 DEF StartModules, files
    <2>2. requests = {} /\ \A l \in Libs : image.handles[l] = 0
      BY <1>1, <2>1, UnmappedImage DEF Quiet
    <2>3. /\ conf' = conf
          /\ Loaded([image |-> image', modules |-> modules'], conf, Len(conf.mods))
      BY <1>2, <2>1, <2>2, InitEffect
    <2>4. /\ conf' \in Configs /\ modules' \in Seq(Instances) /\ image' \in Images
          /\ \A l \in Libs : image'.handles[l]
               = Cardinality({k \in DOMAIN modules' : modules'[k].lib = l})
          /\ PasswordsOwn'
      BY <1>2, <2>3, LoadedInvariant
    <2>5. CodeLoaded'
      BY <2>1, <2>2, <2>4 DEF CodeLoaded
    <2>6. PidFileKnown'
      BY <1>1, <2>1, PidFilesKept
    <2>. QED
      BY <1>1, <2>1, <2>2, <2>3, <2>4, <2>5, <2>6 DEF IInv, Types, Quiet, HostIdKnown
  <1>9. CASE MonikorReload
    <2>1. PICK c \in Configs : InitModules(c, CleanupModules)
      BY <1>9 DEF MonikorReload
    <2>2. CleanupModules \in Images /\ \A l \in Libs : CleanupModules.handles[l] = 0
      BY <1>1, CleanupCloses
    <2>3. conf' = c /\ Loaded([image |-> image', modules |-> modules'], c, Len(c.mods))
      BY <2>1, <2>2, InitEffect
    <2>4. /\ conf' \in Configs /\ modules' \in Seq(Instances) /\ image' \in Images
          /\ \A l \in Libs : image'.handles[l]
               = Cardinality({k \in DOMAIN modules' : modules'[k].lib = l})
          /\ PasswordsOwn'
      BY <2>3, LoadedInvariant
    <2>5. /\ at = "loop" /\ at' = "loop" /\ reloads' = reloads + 1 /\ ~points'
          /\ asked' = [ids |-> {}, before |-> instance_id]
          /\ UNCHANGED <<requests, instance_id>>
          /\ UNCHANGED <<middle, named, pidfiles, cause>>
      BY <1>9 DEF MonikorReload, files
    <2>6. \A r \in requests' : r.epoch \in 0 .. reloads' /\ r.epoch # reloads'
      BY <1>2, <2>5
    <2>7. CodeLoaded'
      BY <2>4, <2>6 DEF CodeLoaded
    <2>8. Types'
      <3>1. asked' = [ids |-> asked'.ids, before |-> asked'.before] /\ reloads' \in Nat
        BY <1>2, <2>5
      <3>2. \A r \in requests' : r.lib \in Http \union {"info"}
        BY <1>2, <2>5
      <3>. QED
        BY <2>4, <2>6, <3>1, <3>2 DEF Types
    <2>9. Quiet' /\ HostIdKnown'
      BY <1>1, <2>5 DEF Quiet, HostIdKnown
    <2>10. PidFileKnown'
      BY <1>1, <2>5, PidFilesKept
    <2>. QED
      BY <2>4, <2>7, <2>8, <2>9, <2>10 DEF IInv
  <1>10. CASE ReloadFails
    <2>1. Ends("error") /\ UNCHANGED pidfiles
      BY <1>10 DEF ReloadFails
    <2>. QED
      BY <1>1, <2>1, PidFilesLeft, EndsKeeps
  <1>11. CASE MonikorExit
    <2>1. pidfiles' = pidfiles \ ({conf.pidfile} \intersect Removable) /\ Ends("exit")
      BY <1>11 DEF MonikorExit, Unlinked
    <2>2. at' = "ended" /\ UNCHANGED <<conf, middle, named>>
      BY <2>1 DEF Ends
    <2>3. {conf'.pidfile} \intersect pidfiles' \intersect Removable = {}
      BY <2>1, <2>2
    <2>4. pidfiles' \subseteq pidfiles
      BY <2>1
    <2>5. PidFileKnown'
      BY <1>1, <2>2, <2>3, <2>4 DEF PidFileKnown, PidFileRemoved
    <2>. QED
      BY <2>1, <2>5, EndsKeeps
  <1>12. CASE FreesTwice
    <2>1. Ends("crash") /\ pidfiles' \subseteq pidfiles
      BY <1>12 DEF FreesTwice, Unlinked
    <2>. QED
      BY <1>1, <2>1, PidFilesLeft, EndsKeeps
  \* The requests: what PollHttp adds, and what an answer takes away
  <1>13. ASSUME UNCHANGED <<at, conf, modules, image, reloads>>, at = "loop", Types',
                HostIdKnown', CodeLoaded', UNCHANGED files
         PROVE  IInv'
    <2>1. PasswordsOwn' /\ Quiet'
      BY <1>1, <1>13 DEF PasswordsOwn, RedisLoaded, Quiet
    <2>2. PidFileKnown'
      BY <1>1, <1>13, PidFilesKept DEF files
    <2>. QED
      BY <1>13, <2>1, <2>2 DEF IInv
  <1>14. CASE PollHttp
    <2>1. PICK k \in DOMAIN modules :
            /\ modules[k].lib \in Http
            /\ requests' = requests \union
                 {[lib |-> modules[k].lib, gen |-> image.gen[modules[k].lib], epoch |-> reloads]}
      BY <1>14 DEF PollHttp
    <2>2. /\ at = "loop" /\ UNCHANGED <<at, conf, modules, image, reloads, files>>
          /\ UNCHANGED <<instance_id, points, asked>>
      BY <1>14 DEF PollHttp
    <2>. DEFINE new == [lib |-> modules[k].lib, gen |-> image.gen[modules[k].lib], epoch |-> reloads]
    <2>3. image.handles[new.lib] > 0
      <3>1. new.lib \in Libs /\ image.handles[new.lib]
              = Cardinality({j \in DOMAIN modules : modules[j].lib = new.lib})
        BY <1>1, <2>1 DEF CodeLoaded, Libs
      <3>2. k \in From(modules, Len(modules), new.lib) /\ Len(modules) \in Nat
            /\ From(modules, Len(modules), new.lib)
                 = {j \in DOMAIN modules : modules[j].lib = new.lib}
        BY <1>2 DEF From
      <3>3. Cardinality(From(modules, Len(modules), new.lib)) > 0
        BY <3>2, FromFinite
      <3>. QED
        BY <3>1, <3>2, <3>3
    <2>4. new.gen = image.gen[new.lib] /\ new.epoch = reloads /\ new.lib \in Http
      BY <2>1
    <2>. HIDE DEF new
    <2>5. requests' = requests \union {new}
      BY <2>1 DEF new
    <2>6. CodeLoaded'
      BY <1>1, <2>2, <2>3, <2>4, <2>5 DEF CodeLoaded, Mapped
    <2>7. Types'
      BY <1>2, <2>2, <2>4, <2>5 DEF Types
    <2>8. HostIdKnown'
      BY <1>1, <2>2 DEF HostIdKnown
    <2>. QED
      BY <1>13, <2>2, <2>6, <2>7, <2>8
  <1>15. CASE PollCloud
    <2>. DEFINE new == [lib |-> "info", gen |-> 0, epoch |-> reloads]
    <2>1. /\ at = "loop" /\ UNCHANGED <<at, conf, modules, image, reloads, files>>
          /\ UNCHANGED <<instance_id, points, asked>>
          /\ requests' = requests \union {new}
      BY <1>15 DEF PollCloud
    <2>2. new.lib = "info" /\ new.epoch = reloads
      OBVIOUS
    <2>. HIDE DEF new
    <2>3. CodeLoaded'
      BY <1>1, <2>1, <2>2 DEF CodeLoaded, Mapped
    <2>4. Types'
      BY <1>2, <2>1, <2>2 DEF Types
    <2>5. HostIdKnown'
      BY <1>1, <2>1 DEF HostIdKnown
    <2>. QED
      BY <1>13, <2>1, <2>3, <2>4, <2>5
  <1>16. ASSUME NEW r \in requests, HttpCrashes(r) \/ CloudCrashes(r)
         PROVE  IInv'
    <2>1. Ends("crash") /\ UNCHANGED pidfiles
      BY <1>16 DEF HttpCrashes, CloudCrashes
    <2>. QED
      BY <1>1, <2>1, PidFilesLeft, EndsKeeps
  <1>17. ASSUME NEW r \in requests,
                \/ HttpAnswered(r) \/ HttpAnsweredByLuck(r) \/ CloudFails(r)
                \/ \E id \in Ids : CloudAnswered(r, id)
         PROVE  IInv'
    <2>1. /\ at = "loop" /\ UNCHANGED <<at, conf, modules, image, reloads, files>>
          /\ requests' = requests \ {r}
      BY <1>17 DEF HttpAnswered, HttpAnsweredByLuck, CloudFails, CloudAnswered
    <2>2. CodeLoaded'
      BY <1>3, <2>1
    <2>3. /\ HostIdKnown'
          /\ asked' = [ids |-> asked'.ids, before |-> asked'.before]
      <3>1. CASE UNCHANGED <<instance_id, points, asked>>
        BY <1>1, <1>2, <2>1, <3>1 DEF HostIdKnown
      <3>2. ASSUME NEW id \in Ids, CloudAnswered(r, id)
            PROVE  /\ HostIdKnown'
                   /\ asked' = [ids |-> asked'.ids, before |-> asked'.before]
        <4>1. asked' = [ids |-> asked.ids \union ({id} \ {""}), before |-> asked.before]
          BY <1>2, <3>2 DEF CloudAnswered
        <4>2. asked'.ids = asked.ids \union ({id} \ {""}) /\ asked'.before = asked.before
          BY <4>1
        <4>3. CASE id \in {"", instance_id}
          <5>1. UNCHANGED <<instance_id, points>>
            BY <3>2, <4>3 DEF CloudAnswered
          <5>. QED
            BY <1>1, <2>1, <4>1, <4>2, <4>3, <5>1 DEF HostIdKnown
        <4>4. CASE id \notin {"", instance_id}
          <5>1. points' = (points \/ conf.hostid = "")
            BY <3>2, <4>4 DEF CloudAnswered, Points
          <5>. QED
            BY <1>1, <2>1, <4>1, <4>2, <5>1 DEF HostIdKnown
        <4>. QED
          BY <4>3, <4>4
      <3>. QED
        BY <1>17, <3>1, <3>2 DEF HttpAnswered, HttpAnsweredByLuck, CloudFails
    <2>4. Types'
      BY <1>2, <2>1, <2>3 DEF Types
    <2>. QED
      BY <1>13, <2>1, <2>2, <2>3, <2>4
  <1>18. CASE Ended \/ UNCHANGED vars
    <2>1. /\ UNCHANGED <<at, modules, image, reloads, conf, requests>>
          /\ UNCHANGED <<asked, instance_id, points>>
          /\ UNCHANGED <<middle, named, pidfiles, cause>>
      BY <1>18 DEF Ended, vars, loaded, files
    <2>2. CodeLoaded' /\ PasswordsOwn'
      BY <1>3, <2>1
    <2>3. PidFileKnown'
      BY <1>1, <2>1 DEF PidFileKnown, PidFileRemoved
    <2>. QED
      BY <1>1, <2>1, <2>2, <2>3 DEF IInv, Types, Quiet, HostIdKnown
  <1>. QED
    BY <1>4, <1>5, <1>6, <1>7, <1>8, <1>9, <1>10, <1>11, <1>12, <1>14, <1>15, <1>16,
       <1>17, <1>18 DEF Next

LEMMA Inductive == Spec => []IInv
  BY InitIInv, IInvNext, PTL DEF Spec

-----------------------------------------------------------------------------
(* The properties *)

\* A library is open once for every module loaded from it, and the code that a request
\* of the present configuration will call is there (load_module.c:79-82, module.c:32-33).
THEOREM CodeIsLoaded == Spec => []CodeLoaded
  <1>1. IInv => CodeLoaded
    BY DEF IInv
  <1>. QED
    BY <1>1, Inductive, PTL

\* A single instance of Redis sends its own password, never freed memory
\* (redis.c:33-36, 55).
THEOREM PasswordsAreOwn == Spec => []PasswordsOwn
  <1>1. IInv => PasswordsOwn
    BY DEF IInv
  <1>. QED
    BY <1>1, Inductive, PTL

\* The instance id is used once it is answered, unless a reload has come
\* (info_module.c:91-95).
THEOREM HostIdIsUsed == Spec => []HostIdUsed
  <1>1. IInv => HostIdUsed
    BY DEF IInv, HostIdKnown, HostIdUsed
  <1>. QED
    BY <1>1, Inductive, PTL

\* An agent that ends on a signal leaves a pid file of its own only where it was to
\* write it, and there only if it was written after the end, or if the configuration
\* read last gives another path, or one it may not remove (exit.c:8, daemonize.c:40-49).
THEOREM PidFileIsRemoved == Spec => []PidFileRemoved
  <1>1. IInv => PidFileRemoved
    BY DEF IInv, PidFileKnown
  <1>. QED
    BY <1>1, Inductive, PTL
=============================================================================
