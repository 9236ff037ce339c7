-------------------------- MODULE NetExchangeProofs --------------------------
(***************************************************************************)
(* Theorems about NetExchange, for every set of instances and of handlers, *)
(* and every bound.  HandlersOwned is not inductive: that no close hits    *)
(* the descriptor of another handler needs that no two handlers are for    *)
(* one exchange, and that a callback runs needs that its handler is still  *)
(* in the list while the thread reads.                                     *)
(***************************************************************************)
EXTENDS NetExchange, FiniteSetTheorems, WellFoundedInduction, TLAPS

-----------------------------------------------------------------------------
(* The invariant *)

\* A read takes no more than was sent, the walk is over when the thread is in the
\* loop, and the thread reads for a handler that is in the list.
Sane ==
  /\ \A h \in Handlers : received[h] <= sent[h]
  /\ at = <<"loop">> => due = {}
  /\ \A h \in Handlers : at = <<"read", h>> => h \in registered /\ mode[h] = "RD"

\* One exchange for each handler of the list, of a poll that has begun.
OwnExchange ==
  /\ \A h \in registered : exchange[h] \in 1 .. polls
  /\ \A g, h \in registered : exchange[g] = exchange[h] => g = h

IInv == TypeOK /\ HandlersOwned /\ Sane /\ OwnExchange

-----------------------------------------------------------------------------
(* Descriptors *)

LEMMA LowestIsOne ==
  ASSUME NEW F, F \subseteq Nat, F # {}
  PROVE  Lowest(F) \in F
  <1>1. \E x \in F : \A y \in F : ~(<<y, x>> \in OpToRel(<, Nat))
    BY NatLessThanWellFounded, WFMin
  <1>2. \A x, y \in Nat : <<y, x>> \in OpToRel(<, Nat) <=> y < x
    BY DEF OpToRel
  <1>3. PICK x \in F : \A y \in F : ~(y < x)
    BY <1>1, <1>2
  <1>4. \A y \in F : x <= y
    BY <1>3
  <1>. QED
    BY <1>4 DEF Lowest

\* A socket takes a descriptor that was free, and no other.
LEMMA OpenedOne ==
  ASSUME NEW o \in [Fds -> 0 .. MaxPolls], FreeFds(o) # {}, NEW e \in 0 .. MaxPolls
  PROVE  /\ Lowest(FreeFds(o)) \in Fds /\ o[Lowest(FreeFds(o))] = 0
         /\ Opened(o, e) \in [Fds -> 0 .. MaxPolls]
         /\ Opened(o, e)[Lowest(FreeFds(o))] = e
         /\ \A f \in Fds : f # Lowest(FreeFds(o)) => Opened(o, e)[f] = o[f]
  <1>1. FreeFds(o) \subseteq Nat
    BY NetAssumption DEF FreeFds, Fds
  <1>2. Lowest(FreeFds(o)) \in FreeFds(o)
    BY <1>1, LowestIsOne
  <1>. QED
    BY <1>2 DEF FreeFds, Opened

LEMMA CloseType ==
  ASSUME NEW o \in [Fds -> 0 .. MaxPolls], NEW F
  PROVE  /\ Close(o, F) \in [Fds -> 0 .. MaxPolls]
         /\ \A f \in Fds : Close(o, F)[f] = IF f \in F THEN 0 ELSE o[f]
  BY NetAssumption DEF Close

\* The data of handlers is of its types when it is freed.
LEMMA FreesDataType ==
  ASSUME TypeOK, Sane, NEW H, FreesData(H)
  PROVE  /\ ai_cur' \in [Handlers -> 1 .. Addresses]
         /\ link' \in [Handlers -> {"pending", "refused", "open"}]
         /\ sent' \in [Handlers -> 0 .. MaxResponse]
         /\ received' \in [Handlers -> 0 .. MaxResponse]
         /\ hungup' \in [Handlers -> BOOLEAN]
         /\ \A h \in Handlers : received'[h] <= sent'[h]
  <1>1. 1 \in 1 .. Addresses /\ 0 \in 0 .. MaxResponse
    BY NetAssumption
  <1>2. /\ ai_cur \in [Handlers -> 1 .. Addresses]
        /\ link \in [Handlers -> {"pending", "refused", "open"}]
        /\ hungup \in [Handlers -> BOOLEAN]
    BY DEF TypeOK
  <1>3. /\ ai_cur' \in [Handlers -> 1 .. Addresses]
        /\ link' \in [Handlers -> {"pending", "refused", "open"}]
        /\ hungup' \in [Handlers -> BOOLEAN]
    BY <1>1, <1>2 DEF FreesData, Freed
  <1>4. /\ sent \in [Handlers -> 0 .. MaxResponse]
        /\ received \in [Handlers -> 0 .. MaxResponse]
    BY DEF TypeOK
  <1>5. /\ sent' \in [Handlers -> 0 .. MaxResponse]
        /\ received' \in [Handlers -> 0 .. MaxResponse]
    BY <1>1, <1>4 DEF FreesData, Freed
  <1>6. \A h \in Handlers : received'[h] <= sent'[h]
    BY <1>4 DEF FreesData, Freed, Sane
  <1>. QED
    BY <1>3, <1>5, <1>6

\* So are the handlers.
LEMMA FreesHandlersType ==
  ASSUME TypeOK, NEW H, FreesHandlers(H)
  PROVE  /\ fd' \in [Handlers -> Fds \union {None}]
         /\ mode' \in [Handlers -> {"WR", "RD", "none"}]
         /\ exchange' \in [Handlers -> 0 .. MaxPolls]
         /\ \A h \in Handlers \ H : /\ fd'[h] = fd[h] /\ mode'[h] = mode[h]
                                    /\ exchange'[h] = exchange[h]
  <1>1. 0 \in 0 .. MaxPolls
    BY NetAssumption
  <1>2. /\ fd \in [Handlers -> Fds \union {None}]
        /\ mode \in [Handlers -> {"WR", "RD", "none"}]
        /\ exchange \in [Handlers -> 0 .. MaxPolls]
    BY DEF TypeOK
  <1>. QED
    BY <1>1, <1>2 DEF FreesHandlers, Freed

-----------------------------------------------------------------------------
(* Initial states *)

LEMMA InvInit == Init => IInv
  <1>. SUFFICES ASSUME Init PROVE IInv
    OBVIOUS
  <1>1. TypeOK
    BY NetAssumption DEF Init, TypeOK
  <1>2. HandlersOwned
    BY NetAssumption DEF Init, HandlersOwned, Held
  <1>3. Sane
    BY DEF Init, Sane
  <1>4. OwnExchange
    BY DEF Init, OwnExchange
  <1>. QED
    BY <1>1, <1>2, <1>3, <1>4 DEF IInv

-----------------------------------------------------------------------------
(* Handlers *)

\* What the list holds of the handlers of one module and of the others.
LEMMA HeldFacts ==
  ASSUME IInv, NEW i \in Instances
  PROVE  /\ Held(i) \subseteq registered /\ Held(i) \subseteq Handlers
         /\ Others(i) = registered \ Held(i)
         /\ Others(i) \subseteq {io_handler[j] : j \in Instances \ {i}}
         /\ Others(i) = UNION {Held(j) : j \in Instances \ {i}}
  <1>1. io_handler \in [Instances -> Handlers \union {NULL}] /\ registered \subseteq Handlers
    BY DEF IInv, TypeOK
  <1>2. registered = UNION {Held(j) : j \in Instances}
    BY DEF IInv, HandlersOwned
  <1>3. \A j, k \in Instances : j # k => Held(j) \intersect Held(k) = {}
    BY DEF IInv, HandlersOwned
  <1>4. \A h : h \in registered <=> \E j \in Instances : h = io_handler[j] /\ h # NULL
    BY <1>2 DEF Held
  <1>5. NULL \notin registered
    BY <1>1, NetAssumption
  <1>6. Others(i) = registered \ Held(i)
    BY <1>5 DEF Others, Held
  <1>7. Held(i) \subseteq registered
    BY <1>4 DEF Held
  <1>8. \A h : h \in Others(i) <=> \E j \in Instances \ {i} : h \in Held(j)
    <2>1. \A h : h \in Others(i) <=> h \notin Held(i) /\ \E j \in Instances : h \in Held(j)
      BY <1>2, <1>6
    <2>. QED
      BY <1>3, <2>1
  <1>9. Others(i) = UNION {Held(j) : j \in Instances \ {i}}
    BY <1>8
  <1>10. Others(i) \subseteq {io_handler[j] : j \in Instances \ {i}}
    BY <1>8 DEF Held
  <1>. QED
    BY <1>1, <1>6, <1>7, <1>9, <1>10

\* A descriptor that is open is that of one handler, which has an exchange.
LEMMA OwnFd ==
  ASSUME IInv, NEW g \in registered
  PROVE  /\ fd[g] # None <=> Unfinished(g)
         /\ Unfinished(g) => /\ fd[g] \in Fds /\ owner[fd[g]] = exchange[g]
                             /\ exchange[g] # 0
         /\ \A h \in registered : fd[g] # None /\ fd[h] = fd[g] => h = g
  <1>1. \A h \in registered :
          /\ fd[h] # None <=> Unfinished(h)
          /\ Unfinished(h) => owner[fd[h]] = exchange[h]
    BY DEF IInv, HandlersOwned
  <1>2. fd[g] \in Fds \union {None} /\ exchange[g] \in 1 .. polls
    BY DEF IInv, TypeOK, OwnExchange
  <1>3. exchange[g] # 0
    BY <1>2
  <1>4. \A h \in registered : exchange[h] = exchange[g] => h = g
    BY DEF IInv, OwnExchange
  <1>. QED
    BY <1>1, <1>2, <1>3, <1>4

\* Two handlers have two descriptors.
LEMMA OthersFd ==
  ASSUME IInv, NEW g \in registered, NEW h \in registered, g # h, Unfinished(g)
  PROVE  /\ fd[g] \in Fds /\ fd[g] # None /\ exchange[g] # 0
         /\ owner[fd[g]] = exchange[g] /\ fd[g] # fd[h]
  <1>1. /\ fd[g] \in Fds /\ fd[g] # None /\ exchange[g] # 0
        /\ owner[fd[g]] = exchange[g]
    BY OwnFd
  <1>2. fd[h] = fd[g] => h = g
    BY <1>1, OwnFd
  <1>. QED
    BY <1>1, <1>2

\* Closing the descriptors of others leaves it to its handler.
LEMMA ClosesOwn ==
  ASSUME IInv, NEW g \in registered, Unfinished(g), NEW H, H \subseteq registered, g \notin H
  PROVE  Close(owner, Open(H))[fd[g]] = exchange[g]
  <1>1. fd[g] \in Fds /\ owner[fd[g]] = exchange[g] /\ fd[g] # None
    BY OwnFd
  <1>2. \A h \in H : fd[h] # fd[g]
    BY <1>1, OwnFd
  <1>3. fd[g] \notin Open(H)
    BY <1>2 DEF Open
  <1>4. owner \in [Fds -> 0 .. MaxPolls]
    BY DEF IInv, TypeOK
  <1>. QED
    BY <1>1, <1>3, <1>4, CloseType

-----------------------------------------------------------------------------
(* Polls *)

LEMMA PollDropsTypes ==
  ASSUME IInv, NEW i \in Instances, PollDrops(i)
  PROVE  /\ polls' \in 1 .. MaxPolls /\ polls' = polls + 1 /\ polls \in Nat
         /\ dropped' \subseteq Exchanges
  <1>1. polls \in 0 .. MaxPolls /\ dropped \subseteq Exchanges
    BY DEF IInv, TypeOK
  <1>2. polls' = polls + 1 /\ polls < MaxPolls
    BY DEF PollDrops
  <1>3. \A h \in Held(i) : exchange[h] \in Exchanges
    <2>1. \A h \in Held(i) : exchange[h] \in 1 .. polls
      BY HeldFacts DEF IInv, OwnExchange
    <2>. QED
      BY <1>1, <2>1, NetAssumption DEF Exchanges
  <1>4. dropped' \subseteq Exchanges
    BY <1>1, <1>3 DEF PollDrops
  <1>. QED
    BY <1>1, <1>2, <1>4, NetAssumption

\* A poll that starts an exchange puts a handler of its own in the list, with a
\* descriptor that was free once that of the last exchange is closed.
LEMMA PollStartsFacts ==
  ASSUME IInv, NEW i \in Instances, PollStarts(i)
  PROVE  \E h \in Handlers, new \in Fds :
           /\ h \notin Others(i) /\ registered' = Others(i) \union {h}
           /\ io_handler' = [io_handler EXCEPT ![i] = h]
           /\ fd' \in [Handlers -> Fds \union {None}]
           /\ mode' \in [Handlers -> {"WR", "RD", "none"}]
           /\ exchange' \in [Handlers -> 0 .. MaxPolls]
           /\ fd'[h] = new /\ mode'[h] = "WR" /\ exchange'[h] = polls'
           /\ \A g \in Others(i) : /\ fd'[g] = fd[g] /\ mode'[g] = mode[g]
                                   /\ exchange'[g] = exchange[g]
           /\ Close(owner, Open(Held(i)))[new] = 0 /\ owner'[new] = polls'
           /\ owner' \in [Fds -> 0 .. MaxPolls]
           /\ \A f \in Fds : f # new => owner'[f] = Close(owner, Open(Held(i)))[f]
           /\ FreesData(Held(i))
  <1>. DEFINE o == Close(owner, Open(Held(i)))
              new == Lowest(FreeFds(o))
  <1>1. PICK h \in Handlers \ {io_handler[j] : j \in Instances \ {i}} :
          /\ FreeFds(o) # {}
          /\ owner' = Opened(o, polls')
          /\ io_handler' = [io_handler EXCEPT ![i] = h]
          /\ registered' = Others(i) \union {h}
          /\ fd' = [Freed(fd, Held(i), None) EXCEPT ![h] = new]
          /\ mode' = [Freed(mode, Held(i), "none") EXCEPT ![h] = "WR"]
          /\ exchange' = [Freed(exchange, Held(i), 0) EXCEPT ![h] = polls']
          /\ FreesData(Held(i))
    BY DEF PollStarts
  <1>3. /\ polls' \in 1 .. MaxPolls /\ polls' = polls + 1 /\ polls \in Nat
    BY PollDropsTypes DEF PollStarts
  <1>4. /\ Held(i) \subseteq registered /\ Held(i) \subseteq Handlers
        /\ Others(i) = registered \ Held(i) /\ h \notin Others(i)
    BY <1>1, HeldFacts
  <1>5. o \in [Fds -> 0 .. MaxPolls]
    BY CloseType DEF IInv, TypeOK
  <1>6. /\ new \in Fds /\ o[new] = 0 /\ owner' \in [Fds -> 0 .. MaxPolls]
        /\ owner'[new] = polls'
        /\ \A f \in Fds : f # new => owner'[f] = o[f]
    <2>1. polls' \in 0 .. MaxPolls
      BY <1>3, NetAssumption
    <2>2. FreeFds(o) # {} /\ owner' = Opened(o, polls')
      BY <1>1
    <2>. QED
      BY <1>5, <2>1, <2>2, OpenedOne
  <1>7. /\ fd \in [Handlers -> Fds \union {None}]
        /\ mode \in [Handlers -> {"WR", "RD", "none"}]
        /\ exchange \in [Handlers -> 0 .. MaxPolls]
    BY DEF IInv, TypeOK
  <1>8. /\ fd' \in [Handlers -> Fds \union {None}]
        /\ mode' \in [Handlers -> {"WR", "RD", "none"}]
        /\ exchange' \in [Handlers -> 0 .. MaxPolls]
    BY <1>1, <1>3, <1>6, <1>7, NetAssumption DEF Freed
  <1>9. fd'[h] = new /\ mode'[h] = "WR" /\ exchange'[h] = polls'
    BY <1>1, <1>7 DEF Freed
  <1>10. \A g \in Others(i) : /\ fd'[g] = fd[g] /\ mode'[g] = mode[g]
                              /\ exchange'[g] = exchange[g]
    BY <1>1, <1>4, <1>7 DEF Freed, IInv, TypeOK
  <1>. QED
    BY <1>1, <1>4, <1>6, <1>8, <1>9, <1>10

LEMMA PollStartsKeeps ==
  ASSUME IInv, NEW i \in Instances, PollStarts(i)
  PROVE  IInv'
  <1>. DEFINE o == Close(owner, Open(Held(i)))
  <1>1. PICK h \in Handlers, new \in Fds :
          /\ h \notin Others(i) /\ registered' = Others(i) \union {h}
          /\ io_handler' = [io_handler EXCEPT ![i] = h]
          /\ fd' \in [Handlers -> Fds \union {None}]
          /\ mode' \in [Handlers -> {"WR", "RD", "none"}]
          /\ exchange' \in [Handlers -> 0 .. MaxPolls]
          /\ fd'[h] = new /\ mode'[h] = "WR" /\ exchange'[h] = polls'
          /\ \A g \in Others(i) : /\ fd'[g] = fd[g] /\ mode'[g] = mode[g]
                                  /\ exchange'[g] = exchange[g]
          /\ o[new] = 0 /\ owner'[new] = polls'
          /\ owner' \in [Fds -> 0 .. MaxPolls]
          /\ \A f \in Fds : f # new => owner'[f] = o[f]
          /\ FreesData(Held(i))
    BY PollStartsFacts
  <1>2. /\ at = <<"loop">> /\ at' = at /\ due' = due /\ due = {}
        /\ UNCHANGED <<cleaned, partial, failed>>
    BY DEF PollStarts, PollDrops, IInv, Sane
  <1>3. /\ polls' \in 1 .. MaxPolls /\ polls' = polls + 1 /\ polls \in Nat
        /\ dropped' \subseteq Exchanges
    BY PollDropsTypes DEF PollStarts
  <1>4. /\ Held(i) \subseteq registered /\ Held(i) \subseteq Handlers
        /\ Others(i) = registered \ Held(i)
        /\ Others(i) = UNION {Held(j) : j \in Instances \ {i}}
    BY HeldFacts
  <1>5. TypeOK'
    <2>1. memory' \subseteq {"data", "ai"} \X Exchanges
      BY <1>3 DEF PollStarts, IInv, TypeOK, Data, Exchanges
    <2>2. /\ io_handler' \in [Instances -> Handlers \union {NULL}]
          /\ registered' \subseteq Handlers /\ due' \subseteq registered'
      BY <1>1, <1>2, <1>4 DEF IInv, TypeOK
    <2>3. /\ ai_cur' \in [Handlers -> 1 .. Addresses]
          /\ link' \in [Handlers -> {"pending", "refused", "open"}]
          /\ sent' \in [Handlers -> 0 .. MaxResponse]
          /\ received' \in [Handlers -> 0 .. MaxResponse]
          /\ hungup' \in [Handlers -> BOOLEAN]
      BY <1>1, FreesDataType DEF IInv
    <2>4. /\ at' \in {<<"loop">>} /\ polls' \in 0 .. MaxPolls /\ failed' \in Nat
          /\ cleaned' \subseteq Exchanges /\ partial' \subseteq Exchanges
      BY <1>2, <1>3 DEF IInv, TypeOK
    <2>. QED
      BY <1>1, <1>3, <2>1, <2>2, <2>3, <2>4 DEF TypeOK
  <1>6. HandlersOwned'
    <2>1. io_handler \in [Instances -> Handlers \union {NULL}]
      BY DEF IInv, TypeOK
    <2>2. Held(i)' = {h} /\ \A j \in Instances \ {i} : Held(j)' = Held(j)
      BY <1>1, <2>1, NetAssumption DEF Held
    <2>3. registered' = UNION {Held(j)' : j \in Instances}
      BY <1>1, <1>4, <2>2
    <2>4. \A j \in Instances \ {i} : h \notin Held(j)
      BY <1>1, <1>4
    <2>5. \A j, k \in Instances : j # k => Held(j)' \intersect Held(k)' = {}
      BY <2>2, <2>4 DEF IInv, HandlersOwned
    <2>6. ASSUME NEW g \in Others(i)
          PROVE  IF Unfinished(g)' THEN fd'[g] # None /\ owner'[fd'[g]] = exchange'[g]
                                   ELSE fd'[g] = None
      <3>1. g \in registered /\ g \notin Held(i) /\ (Unfinished(g)' <=> Unfinished(g))
        BY <1>1, <1>4, <2>6 DEF Unfinished
      <3>2. CASE Unfinished(g)
        <4>1. /\ fd[g] \in Fds /\ fd[g] # None /\ exchange[g] # 0
              /\ o[fd[g]] = exchange[g]
          BY <1>4, <3>1, <3>2, OwnFd, ClosesOwn
        <4>2. owner'[fd[g]] = exchange[g]
          BY <1>1, <4>1
        <4>. QED
          BY <1>1, <2>6, <3>1, <3>2, <4>1, <4>2
      <3>3. CASE ~Unfinished(g)
        BY <1>1, <3>1, <3>3, OwnFd
      <3>. QED
        BY <3>2, <3>3
    <2>7. /\ Unfinished(h)' /\ fd'[h] # None /\ owner'[fd'[h]] = exchange'[h]
      BY <1>1, NetAssumption DEF Unfinished, Fds, None
    <2>. QED
      BY <1>1, <2>3, <2>5, <2>6, <2>7 DEF HandlersOwned
  <1>7. Sane'
    BY <1>1, <1>2, FreesDataType DEF Sane, IInv
  <1>8. OwnExchange'
    <2>1. \A g \in Others(i) : exchange'[g] \in 1 .. polls
      BY <1>1, <1>4 DEF IInv, OwnExchange
    <2>2. \A g \in Others(i) : exchange'[g] # polls'
      BY <1>3, <2>1
    <2>3. \A g, k \in Others(i) : exchange'[g] = exchange'[k] => g = k
      BY <1>1, <1>4 DEF IInv, OwnExchange
    <2>4. \A g \in registered' : exchange'[g] \in 1 .. polls'
      BY <1>1, <1>3, <2>1
    <2>. QED
      BY <1>1, <2>2, <2>3, <2>4 DEF OwnExchange
  <1>. QED
    BY <1>5, <1>6, <1>7, <1>8 DEF IInv

\* The handlers left when those of H are dropped keep what they have.
LEMMA DropKeeps ==
  ASSUME IInv, NEW H, H \subseteq registered, FreesHandlers(H),
         registered' = registered \ H,
         \A f \in Fds : Close(owner, Open(H))[f] # 0 => owner'[f] = Close(owner, Open(H))[f],
         polls' \in Nat, polls <= polls'
  PROVE  /\ \A g \in registered' :
              IF Unfinished(g)' THEN fd'[g] # None /\ owner'[fd'[g]] = exchange'[g]
                                ELSE fd'[g] = None
         /\ OwnExchange'
  <1>1. \A g \in registered' : /\ g \in registered /\ g \notin H /\ g \in Handlers
                               /\ fd'[g] = fd[g] /\ mode'[g] = mode[g]
                               /\ exchange'[g] = exchange[g]
    BY FreesHandlersType DEF IInv, TypeOK
  <1>2. ASSUME NEW g \in registered'
        PROVE  IF Unfinished(g)' THEN fd'[g] # None /\ owner'[fd'[g]] = exchange'[g]
                                 ELSE fd'[g] = None
    <2>1. Unfinished(g)' <=> Unfinished(g)
      BY <1>1, <1>2 DEF Unfinished
    <2>2. CASE Unfinished(g)
      <3>1. /\ fd[g] \in Fds /\ fd[g] # None /\ exchange[g] # 0
            /\ Close(owner, Open(H))[fd[g]] = exchange[g]
        BY <1>1, <1>2, <2>2, OwnFd, ClosesOwn
      <3>. QED
        BY <1>1, <1>2, <2>1, <2>2, <3>1
    <2>3. CASE ~Unfinished(g)
      BY <1>1, <1>2, <2>1, <2>3, OwnFd
    <2>. QED
      BY <2>2, <2>3
  <1>3. polls \in Nat
    BY NetAssumption DEF IInv, TypeOK
  <1>4. \A g \in registered' : exchange'[g] \in 1 .. polls'
    BY <1>1, <1>3 DEF IInv, OwnExchange
  <1>5. \A g, k \in registered' : exchange'[g] = exchange'[k] => g = k
    BY <1>1 DEF IInv, OwnExchange
  <1>. QED
    BY <1>2, <1>4, <1>5 DEF OwnExchange

LEMMA PollFailsKeeps ==
  ASSUME IInv, NEW i \in Instances, PollFails(i)
  PROVE  IInv'
  <1>. DEFINE o == Close(owner, Open(Held(i)))
  <1>1. /\ io_handler' = [io_handler EXCEPT ![i] = NULL]
        /\ registered' = Others(i) /\ FreesHandlers(Held(i))
        /\ memory' = memory
    BY DEF PollFails
  <1>2. /\ at = <<"loop">> /\ due' = due /\ due = {} /\ UNCHANGED <<cleaned, partial>>
    BY DEF PollFails, PollDrops, IInv, Sane
  <1>3. /\ polls' \in 1 .. MaxPolls /\ polls' = polls + 1 /\ polls \in Nat
        /\ dropped' \subseteq Exchanges
    BY PollDropsTypes DEF PollFails
  <1>4. /\ Held(i) \subseteq registered
        /\ Others(i) = registered \ Held(i)
        /\ Others(i) = UNION {Held(j) : j \in Instances \ {i}}
    BY HeldFacts
  <1>5. o \in [Fds -> 0 .. MaxPolls]
    BY CloseType DEF IInv, TypeOK
  <1>6. /\ at' \in {<<"loop">>, <<"dead">>} /\ failed' \in Nat
        /\ owner' \in [Fds -> 0 .. MaxPolls]
        /\ \A f \in Fds : o[f] # 0 => owner'[f] = o[f]
    <2>1. failed \in Nat
      BY DEF IInv, TypeOK
    <2>2. CASE owner' = o /\ at' \in {<<"loop">>, <<"dead">>} /\ UNCHANGED failed
      BY <1>5, <2>1, <2>2
    <2>3. CASE /\ FreeFds(o) # {} /\ owner' = Opened(o, polls')
               /\ failed' = failed + 1 /\ UNCHANGED at
      <3>1. polls' \in 0 .. MaxPolls
        BY <1>3, NetAssumption
      <3>2. FreeFds(o) # {} /\ owner' = Opened(o, polls')
        BY <2>3
      <3>3. /\ owner' \in [Fds -> 0 .. MaxPolls]
            /\ \A f \in Fds : o[f] # 0 => owner'[f] = o[f]
        BY <1>5, <3>1, <3>2, OpenedOne
      <3>. QED
        BY <1>2, <2>1, <2>3, <3>3
    <2>. QED
      BY <2>2, <2>3 DEF PollFails
  <1>7. TypeOK'
    <2>1. /\ io_handler' \in [Instances -> Handlers \union {NULL}]
          /\ registered' \subseteq Handlers /\ due' \subseteq registered'
      BY <1>1, <1>2, <1>4 DEF IInv, TypeOK
    <2>2. /\ ai_cur' \in [Handlers -> 1 .. Addresses]
          /\ link' \in [Handlers -> {"pending", "refused", "open"}]
          /\ sent' \in [Handlers -> 0 .. MaxResponse]
          /\ received' \in [Handlers -> 0 .. MaxResponse]
          /\ hungup' \in [Handlers -> BOOLEAN]
      BY <1>1, FreesDataType DEF IInv, FreesHandlers
    <2>3. /\ fd' \in [Handlers -> Fds \union {None}]
          /\ mode' \in [Handlers -> {"WR", "RD", "none"}]
          /\ exchange' \in [Handlers -> 0 .. MaxPolls]
      BY <1>1, FreesHandlersType DEF IInv
    <2>4. /\ polls' \in 0 .. MaxPolls
          /\ cleaned' \subseteq Exchanges /\ partial' \subseteq Exchanges
          /\ memory' \subseteq {"data", "ai"} \X Exchanges
      BY <1>1, <1>2, <1>3 DEF IInv, TypeOK
    <2>. QED
      BY <1>3, <1>6, <2>1, <2>2, <2>3, <2>4 DEF TypeOK
  <1>8. /\ OwnExchange'
        /\ \A g \in registered' :
             IF Unfinished(g)' THEN fd'[g] # None /\ owner'[fd'[g]] = exchange'[g]
                               ELSE fd'[g] = None
    <2>1. registered' = registered \ Held(i) /\ polls' \in Nat /\ polls <= polls'
      BY <1>1, <1>3, <1>4
    <2>. QED
      BY <1>1, <1>4, <1>6, <2>1, DropKeeps
  <1>9. HandlersOwned'
    <2>1. io_handler \in [Instances -> Handlers \union {NULL}]
      BY DEF IInv, TypeOK
    <2>2. Held(i)' = {} /\ \A j \in Instances \ {i} : Held(j)' = Held(j)
      BY <1>1, <2>1 DEF Held
    <2>3. registered' = UNION {Held(j)' : j \in Instances}
      BY <1>1, <1>4, <2>2
    <2>4. \A j, k \in Instances : j # k => Held(j)' \intersect Held(k)' = {}
      BY <2>2 DEF IInv, HandlersOwned
    <2>. QED
      BY <1>8, <2>3, <2>4 DEF HandlersOwned
  <1>10. Sane'
    <2>1. \A h \in Handlers : received'[h] <= sent'[h]
      BY <1>1, FreesDataType DEF IInv, FreesHandlers
    <2>. QED
      BY <1>2, <1>6, <2>1 DEF Sane
  <1>. QED
    BY <1>7, <1>8, <1>9, <1>10 DEF IInv

LEMMA ReloadKeeps ==
  ASSUME IInv, Reload
  PROVE  IInv'
  <1>. DEFINE mine == UNION {Held(i) : i \in Instances}
  <1>1. /\ io_handler' = [i \in Instances |-> NULL]
        /\ registered' = registered \ mine
        /\ owner' = Close(owner, Open(mine))
        /\ memory' \subseteq memory
        /\ cleaned' = cleaned \union {exchange[h] : h \in {g \in mine : Unfinished(g)}}
        /\ FreesHandlers(mine)
        /\ UNCHANGED <<at, due, failed, polls, dropped, partial>>
    BY DEF Reload
  <1>2. registered = mine
    BY DEF IInv, HandlersOwned
  <1>3. registered' = {}
    BY <1>1, <1>2
  <1>4. at = <<"loop">> /\ due = {}
    BY DEF Reload, IInv, Sane
  <1>5. \A i \in Instances : Held(i)' = {}
    BY <1>1 DEF Held
  <1>6. TypeOK'
    <2>1. /\ ai_cur' \in [Handlers -> 1 .. Addresses]
          /\ link' \in [Handlers -> {"pending", "refused", "open"}]
          /\ sent' \in [Handlers -> 0 .. MaxResponse]
          /\ received' \in [Handlers -> 0 .. MaxResponse]
          /\ hungup' \in [Handlers -> BOOLEAN]
      BY <1>1, FreesDataType DEF IInv, FreesHandlers
    <2>2. /\ fd' \in [Handlers -> Fds \union {None}]
          /\ mode' \in [Handlers -> {"WR", "RD", "none"}]
          /\ exchange' \in [Handlers -> 0 .. MaxPolls]
      BY <1>1, FreesHandlersType DEF IInv
    <2>3. owner' \in [Fds -> 0 .. MaxPolls]
      BY <1>1, CloseType DEF IInv, TypeOK
    <2>4. cleaned' \subseteq Exchanges
      <3>1. \A h \in registered : exchange[h] \in 1 .. polls
        BY DEF IInv, OwnExchange
      <3>2. polls \in 0 .. MaxPolls /\ cleaned \subseteq Exchanges
        BY DEF IInv, TypeOK
      <3>3. \A h \in registered : exchange[h] \in Exchanges
        BY <3>1, <3>2, NetAssumption DEF Exchanges
      <3>. QED
        BY <1>1, <1>2, <3>2, <3>3
    <2>5. /\ at' \in {<<"loop">>} /\ due' \subseteq registered' /\ registered' \subseteq Handlers
          /\ io_handler' \in [Instances -> Handlers \union {NULL}]
      BY <1>1, <1>3, <1>4
    <2>6. /\ polls' \in 0 .. MaxPolls /\ failed' \in Nat /\ dropped' \subseteq Exchanges
          /\ partial' \subseteq Exchanges /\ memory' \subseteq {"data", "ai"} \X Exchanges
      BY <1>1 DEF IInv, TypeOK
    <2>. QED
      BY <2>1, <2>2, <2>3, <2>4, <2>5, <2>6 DEF TypeOK
  <1>7. HandlersOwned'
    BY <1>3, <1>5 DEF HandlersOwned
  <1>8. Sane'
    <2>1. \A h \in Handlers : received'[h] <= sent'[h]
      BY <1>1, FreesDataType DEF IInv, FreesHandlers
    <2>. QED
      BY <1>1, <1>4, <2>1 DEF Sane
  <1>9. OwnExchange'
    BY <1>3 DEF OwnExchange
  <1>. QED
    BY <1>6, <1>7, <1>8, <1>9 DEF IInv

-----------------------------------------------------------------------------
(* Services, and the loop *)

\* The handlers keep what they have if no one is closed or dropped.
LEMMA ListKept ==
  ASSUME IInv, UNCHANGED <<io_handler, registered, fd, exchange, owner, polls>>,
         \A h \in registered : Unfinished(h)' <=> Unfinished(h)
  PROVE  HandlersOwned' /\ OwnExchange'
  <1>1. \A i \in Instances : Held(i)' = Held(i)
    BY DEF Held
  <1>2. HandlersOwned'
    BY <1>1 DEF IInv, HandlersOwned
  <1>. QED
    BY <1>2 DEF IInv, OwnExchange

LEMMA ServicesKeep ==
  ASSUME IInv, NEW e \in Exchanges,
         LinkSettles(e) \/ ServiceSends(e) \/ ServiceHangsUp(e)
  PROVE  IInv'
  <1>1. HandlersOwned' /\ OwnExchange'
    BY ListKept DEF LinkSettles, ServiceSends, ServiceHangsUp, sockets, history, Unfinished
  <1>2. CASE LinkSettles(e)
    <2>1. link' \in [Handlers -> {"pending", "refused", "open"}]
      BY <1>2 DEF LinkSettles, Connecting, IInv, TypeOK
    <2>. QED
      BY <1>1, <1>2, <2>1 DEF LinkSettles, IInv, TypeOK, Sane, sockets, history
  <1>3. CASE ServiceSends(e)
    <2>1. PICK h \in Handlers : /\ sent[h] < MaxResponse
                                /\ sent' = [sent EXCEPT ![h] = @ + 1]
      BY <1>3 DEF ServiceSends, Reading, IInv, TypeOK
    <2>2. /\ sent \in [Handlers -> 0 .. MaxResponse]
          /\ received \in [Handlers -> 0 .. MaxResponse]
      BY DEF IInv, TypeOK
    <2>3. sent' \in [Handlers -> 0 .. MaxResponse]
      BY <2>1, <2>2, NetAssumption
    <2>4. \A g \in Handlers : received[g] <= sent'[g]
      BY <2>1, <2>2 DEF IInv, Sane
    <2>. QED
      BY <1>1, <1>3, <2>3, <2>4 DEF ServiceSends, IInv, TypeOK, Sane, sockets, history
  <1>4. CASE ServiceHangsUp(e)
    <2>1. hungup' \in [Handlers -> BOOLEAN]
      BY <1>4 DEF ServiceHangsUp, Reading, IInv, TypeOK
    <2>. QED
      BY <1>1, <1>4, <2>1 DEF ServiceHangsUp, IInv, TypeOK, Sane, sockets, history
  <1>. QED
    BY <1>2, <1>3, <1>4

LEMMA SelectReturnsKeeps ==
  ASSUME IInv, SelectReturns
  PROVE  IInv'
  <1>1. HandlersOwned' /\ OwnExchange'
    BY ListKept DEF SelectReturns, handler, sockets, history, Unfinished
  <1>. QED
    BY <1>1 DEF SelectReturns, IInv, TypeOK, Sane, handler, sockets, history

LEMMA WalkEndsKeeps ==
  ASSUME IInv, WalkEnds
  PROVE  IInv'
  <1>1. HandlersOwned' /\ OwnExchange'
    BY ListKept DEF WalkEnds, handler, sockets, history, Unfinished
  <1>. QED
    BY <1>1 DEF WalkEnds, IInv, TypeOK, Sane, handler, sockets, history

LEMMA StaysKeeps ==
  ASSUME IInv, UNCHANGED vars
  PROVE  IInv'
  <1>1. HandlersOwned' /\ OwnExchange'
    BY ListKept DEF vars, handler, sockets, history, Unfinished
  <1>. QED
    BY <1>1 DEF vars, IInv, TypeOK, Sane, handler, sockets, history

-----------------------------------------------------------------------------
(* The callbacks *)

LEMMA WriteRequestKeeps ==
  ASSUME IInv, NEW h \in Handlers, WriteRequest(h)
  PROVE  IInv'
  <1>1. /\ mode[h] = "WR" /\ mode' = [mode EXCEPT ![h] = "RD"]
        /\ mode \in [Handlers -> {"WR", "RD", "none"}]
        /\ registered \subseteq Handlers /\ due \subseteq registered
    BY DEF WriteRequest, IInv, TypeOK
  <1>2. \A g \in registered : Unfinished(g)' <=> Unfinished(g)
    BY <1>1 DEF Unfinished
  <1>3. HandlersOwned' /\ OwnExchange'
    BY <1>2, ListKept DEF WriteRequest, sockets, history
  <1>4. Sane'
    BY <1>1 DEF WriteRequest, IInv, Sane
  <1>5. mode' \in [Handlers -> {"WR", "RD", "none"}]
    BY <1>1
  <1>6. due' \subseteq registered'
    BY <1>1 DEF WriteRequest
  <1>7. TypeOK'
    BY <1>5, <1>6 DEF WriteRequest, IInv, TypeOK, sockets, history
  <1>. QED
    BY <1>3, <1>4, <1>7 DEF IInv

LEMMA ReadBeginsKeeps ==
  ASSUME IInv, NEW h \in Handlers, ReadBegins(h)
  PROVE  IInv'
  <1>1. HandlersOwned' /\ OwnExchange'
    BY ListKept DEF ReadBegins, handler, sockets, history, Unfinished
  <1>2. /\ h \in registered /\ mode[h] = "RD" /\ at' = <<"read", h>>
        /\ UNCHANGED <<registered, mode, received, sent, due>>
    BY DEF ReadBegins, IInv, TypeOK, handler
  <1>3. Sane'
    BY <1>2 DEF IInv, Sane
  <1>4. TypeOK'
    BY <1>2 DEF ReadBegins, IInv, TypeOK, handler, sockets, history
  <1>. QED
    BY <1>1, <1>3, <1>4 DEF IInv

\* While the thread reads, it does so for a handler of the list.
LEMMA ReadsFor ==
  ASSUME IInv, at[1] = "read"
  PROVE  /\ at[2] \in registered /\ at[2] \in Handlers
         /\ mode[at[2]] = "RD" /\ Unfinished(at[2])
         /\ at = <<"read", at[2]>>
  <1>1. at \in {<<"loop">>, <<"walk">>, <<"dead">>} \union {<<"read", h>> : h \in Handlers}
    BY DEF IInv, TypeOK
  <1>2. PICK h \in Handlers : at = <<"read", h>>
    BY <1>1
  <1>3. h \in registered /\ mode[h] = "RD"
    BY <1>2 DEF IInv, Sane
  <1>. QED
    BY <1>2, <1>3 DEF Unfinished

\* A read returns no more than is there and than the buffer holds.
LEMMA ReadBytesFacts ==
  ASSUME IInv, NEW h \in Handlers
  PROVE  /\ sent[h] \in 0 .. MaxResponse /\ received[h] \in 0 .. MaxResponse
         /\ received[h] <= sent[h]
         /\ ReadBytes(h) <= Unread(h)
         /\ ReadBytes(h) # Chunk => ReadBytes(h) = Unread(h)
  BY NetAssumption DEF IInv, TypeOK, Sane, ReadBytes, Unread, Least

LEMMA ReadFullKeeps ==
  ASSUME IInv, ReadFull
  PROVE  IInv'
  <1>. DEFINE h == at[2]
  <1>1. h \in Handlers
    BY ReadsFor DEF ReadFull
  <1>2. HandlersOwned' /\ OwnExchange'
    BY ListKept DEF ReadFull, sockets, history, Unfinished
  <1>3. /\ received' = [received EXCEPT ![h] = @ + Chunk]
        /\ Chunk <= Unread(h) /\ sent' = sent
    BY <1>1, ReadBytesFacts DEF ReadFull, More
  <1>4. /\ \A g \in Handlers : received[g] <= sent[g]
        /\ sent \in [Handlers -> 0 .. MaxResponse]
        /\ received \in [Handlers -> 0 .. MaxResponse]
    BY DEF IInv, Sane, TypeOK
  <1>5. received[h] + Chunk \in 0 .. MaxResponse /\ received[h] + Chunk <= sent[h]
    BY <1>1, <1>3, <1>4, NetAssumption DEF Unread
  <1>6. /\ received' \in [Handlers -> 0 .. MaxResponse]
        /\ \A g \in Handlers : received'[g] <= sent'[g]
    BY <1>1, <1>3, <1>4, <1>5
  <1>. QED
    BY <1>2, <1>6 DEF ReadFull, IInv, TypeOK, Sane, sockets, history

\* The end of an exchange closes its descriptor and none of another handler.
LEMMA EndsKeep ==
  ASSUME IInv, NEW h \in registered, Unfinished(h), ExchangeEnds(h),
         owner' \in [Fds -> 0 .. MaxPolls], failed' \in Nat, partial' \subseteq Exchanges,
         \A f \in Fds : f # fd[h] /\ owner[f] # 0 => owner'[f] = owner[f]
  PROVE  IInv'
  <1>1. /\ fd \in [Handlers -> Fds \union {None}]
        /\ mode \in [Handlers -> {"WR", "RD", "none"}]
        /\ registered \subseteq Handlers /\ due \subseteq registered
    BY DEF IInv, TypeOK
  <1>2. /\ fd' = [fd EXCEPT ![h] = None] /\ mode' = [mode EXCEPT ![h] = "none"]
        /\ memory' \subseteq memory /\ FreesData({h}) /\ due' = due \ {h}
        /\ at' = <<"walk">>
        /\ UNCHANGED <<io_handler, registered, exchange, history>>
    BY DEF ExchangeEnds
  <1>3. TypeOK'
    <2>1. /\ ai_cur' \in [Handlers -> 1 .. Addresses]
          /\ link' \in [Handlers -> {"pending", "refused", "open"}]
          /\ sent' \in [Handlers -> 0 .. MaxResponse]
          /\ received' \in [Handlers -> 0 .. MaxResponse]
          /\ hungup' \in [Handlers -> BOOLEAN]
      BY <1>2, FreesDataType DEF IInv
    <2>2. /\ fd' \in [Handlers -> Fds \union {None}]
          /\ mode' \in [Handlers -> {"WR", "RD", "none"}]
          /\ at' \in {<<"walk">>} /\ due' \subseteq registered'
      BY <1>1, <1>2
    <2>. QED
      BY <1>2, <2>1, <2>2 DEF IInv, TypeOK, history
  <1>4. HandlersOwned'
    <2>1. \A i \in Instances : Held(i)' = Held(i)
      BY <1>2 DEF Held
    <2>2. ASSUME NEW g \in registered
          PROVE  IF Unfinished(g)' THEN fd'[g] # None /\ owner'[fd'[g]] = exchange'[g]
                                   ELSE fd'[g] = None
      <3>1. CASE g = h
        BY <1>1, <1>2, <3>1 DEF Unfinished
      <3>2. CASE g # h
        <4>1. /\ Unfinished(g)' <=> Unfinished(g)
              /\ fd'[g] = fd[g] /\ exchange'[g] = exchange[g]
          BY <1>1, <1>2, <3>2 DEF Unfinished
        <4>2. CASE Unfinished(g)
          <5>1. /\ fd[g] \in Fds /\ fd[g] # None /\ exchange[g] # 0
                /\ owner[fd[g]] = exchange[g] /\ fd[g] # fd[h]
            BY <3>2, <4>2, OthersFd
          <5>. QED
            BY <4>1, <4>2, <5>1
        <4>3. CASE ~Unfinished(g)
          BY <4>1, <4>3, OwnFd
        <4>. QED
          BY <4>2, <4>3
      <3>. QED
        BY <3>1, <3>2
    <2>. QED
      BY <1>2, <2>1, <2>2 DEF IInv, HandlersOwned
  <1>5. Sane'
    BY <1>2, FreesDataType DEF IInv, Sane
  <1>6. OwnExchange'
    BY <1>2 DEF IInv, OwnExchange, history
  <1>. QED
    BY <1>3, <1>4, <1>5, <1>6 DEF IInv

LEMMA NextAddressKeeps ==
  ASSUME IInv, NEW h \in Handlers, NextAddress(h)
  PROVE  IInv'
  <1>. DEFINE new == Lowest(FreeFds(owner))
              o   == Opened(owner, exchange[h])
  <1>1. /\ h \in registered /\ mode[h] = "WR" /\ Unfinished(h) /\ ~NoneLeft(h)
        /\ due \subseteq registered /\ registered \subseteq Handlers
    BY DEF NextAddress, IInv, TypeOK, Unfinished
  <1>2. /\ owner' = Close(o, {fd[h]}) /\ fd' = [fd EXCEPT ![h] = new]
        /\ link' = [link EXCEPT ![h] = "pending"] /\ ai_cur' = [ai_cur EXCEPT ![h] = @ + 1]
        /\ due' = due \ {h}
        /\ UNCHANGED <<at, io_handler, registered, mode, exchange, sent, received, hungup,
                       failed, memory, polls, dropped, cleaned, partial>>
    BY DEF NextAddress, Replaced, history
  <1>3. /\ owner \in [Fds -> 0 .. MaxPolls] /\ exchange[h] \in 0 .. MaxPolls
        /\ fd \in [Handlers -> Fds \union {None}]
    BY DEF IInv, TypeOK
  <1>4. FreeFds(owner) # {}
    BY DEF NextAddress
  <1>5. /\ new \in Fds /\ owner[new] = 0 /\ o \in [Fds -> 0 .. MaxPolls]
        /\ o[new] = exchange[h]
        /\ \A f \in Fds : f # new => o[f] = owner[f]
    BY <1>3, <1>4, OpenedOne
  <1>6. fd[h] \in Fds /\ fd[h] # new
    BY <1>1, <1>5, OwnFd
  <1>7. /\ owner' \in [Fds -> 0 .. MaxPolls] /\ owner'[new] = exchange[h]
        /\ \A f \in Fds : f # fd[h] /\ owner[f] # 0 => owner'[f] = owner[f]
    BY <1>2, <1>5, <1>6, CloseType
  <1>8. TypeOK'
    <2>1. ai_cur \in [Handlers -> 1 .. Addresses] /\ ai_cur[h] # Addresses
      BY <1>1 DEF IInv, TypeOK, NoneLeft
    <2>2. ai_cur' \in [Handlers -> 1 .. Addresses]
      BY <1>2, <2>1, NetAssumption
    <2>3. /\ link' \in [Handlers -> {"pending", "refused", "open"}]
          /\ fd' \in [Handlers -> Fds \union {None}] /\ due' \subseteq registered'
      BY <1>1, <1>2, <1>3, <1>5 DEF IInv, TypeOK
    <2>. QED
      BY <1>2, <1>7, <2>2, <2>3 DEF IInv, TypeOK
  <1>9. HandlersOwned'
    <2>1. \A i \in Instances : Held(i)' = Held(i)
      BY <1>2 DEF Held
    <2>2. new # None
      BY <1>5, NetAssumption DEF Fds, None
    <2>3. ASSUME NEW g \in registered
          PROVE  IF Unfinished(g)' THEN fd'[g] # None /\ owner'[fd'[g]] = exchange'[g]
                                   ELSE fd'[g] = None
      <3>1. Unfinished(g)' <=> Unfinished(g)
        BY <1>2 DEF Unfinished
      <3>2. CASE g = h
        BY <1>1, <1>2, <1>3, <1>7, <2>2, <3>1, <3>2
      <3>3. CASE g # h /\ Unfinished(g)
        <4>1. /\ fd[g] \in Fds /\ fd[g] # None /\ exchange[g] # 0
              /\ owner[fd[g]] = exchange[g] /\ fd[g] # fd[h]
          BY <1>1, <3>3, OthersFd
        <4>2. fd'[g] = fd[g] /\ exchange'[g] = exchange[g]
          BY <1>1, <1>2, <1>3, <3>3
        <4>. QED
          BY <1>7, <3>1, <3>3, <4>1, <4>2
      <3>4. CASE g # h /\ ~Unfinished(g)
        BY <1>1, <1>2, <1>3, <3>1, <3>4, OwnFd
      <3>. QED
        BY <3>2, <3>3, <3>4
    <2>. QED
      BY <1>2, <2>1, <2>3 DEF IInv, HandlersOwned
  <1>10. Sane'
    BY <1>2 DEF IInv, Sane, NextAddress
  <1>11. OwnExchange'
    BY <1>2 DEF IInv, OwnExchange
  <1>. QED
    BY <1>8, <1>9, <1>10, <1>11 DEF IInv

LEMMA NoMoreAddressesKeeps ==
  ASSUME IInv, NEW h \in Handlers, NoMoreAddresses(h)
  PROVE  IInv'
  <1>1. h \in registered /\ Unfinished(h) /\ ExchangeEnds(h) /\ partial' \subseteq Exchanges
    BY DEF NoMoreAddresses, IInv, TypeOK, Unfinished
  <1>2. /\ owner \in [Fds -> 0 .. MaxPolls] /\ exchange[h] \in 0 .. MaxPolls
        /\ failed \in Nat
    BY DEF IInv, TypeOK
  <1>3. CASE owner' = Close(owner, {fd[h]}) /\ UNCHANGED failed
    <2>1. /\ owner' \in [Fds -> 0 .. MaxPolls] /\ failed' \in Nat
          /\ \A f \in Fds : f # fd[h] /\ owner[f] # 0 => owner'[f] = owner[f]
      BY <1>2, <1>3, CloseType
    <2>. QED
      BY <1>1, <2>1, EndsKeep
  <1>4. CASE /\ FreeFds(owner) # {}
             /\ owner' = Close(Opened(owner, exchange[h]), {fd[h]})
             /\ failed' = failed + 1
    <2>1. FreeFds(owner) # {}
      BY <1>4
    <2>2. /\ Opened(owner, exchange[h]) \in [Fds -> 0 .. MaxPolls]
          /\ \A f \in Fds : owner[f] # 0 => Opened(owner, exchange[h])[f] = owner[f]
      BY <1>2, <2>1, OpenedOne
    <2>3. /\ owner' \in [Fds -> 0 .. MaxPolls] /\ failed' \in Nat
          /\ \A f \in Fds : f # fd[h] /\ owner[f] # 0 => owner'[f] = owner[f]
      BY <1>2, <1>4, <2>2, CloseType
    <2>. QED
      BY <1>1, <2>3, EndsKeep
  <1>. QED
    BY <1>3, <1>4 DEF NoMoreAddresses

\* What is left of the ends of an exchange, which close its descriptor and no other.
LEMMA ClosingEndKeeps ==
  ASSUME IInv, NEW h \in registered, Unfinished(h), ExchangeEnds(h),
         owner' = Close(owner, {fd[h]}), UNCHANGED failed, partial' \subseteq Exchanges
  PROVE  IInv'
  <1>1. owner \in [Fds -> 0 .. MaxPolls] /\ failed' \in Nat
    BY DEF IInv, TypeOK
  <1>2. /\ owner' \in [Fds -> 0 .. MaxPolls]
        /\ \A f \in Fds : f # fd[h] /\ owner[f] # 0 => owner'[f] = owner[f]
    BY <1>1, CloseType
  <1>. QED
    BY <1>1, <1>2, EndsKeep

LEMMA WriteFailsKeeps ==
  ASSUME IInv, NEW h \in Handlers, WriteFails(h)
  PROVE  IInv'
  <1>1. /\ h \in registered /\ Unfinished(h) /\ ExchangeEnds(h)
        /\ owner' = Close(owner, {fd[h]}) /\ UNCHANGED failed /\ partial' \subseteq Exchanges
    BY DEF WriteFails, IInv, TypeOK, Unfinished
  <1>. QED
    BY <1>1, ClosingEndKeeps

\* What the last read returns is all that was sent and not read.
LEMMA LastReadWhole ==
  ASSUME IInv, ReadLast
  PROVE  UNCHANGED partial
  <1>1. at[2] \in Handlers
    BY ReadsFor DEF ReadLast
  <1>2. ReadBytes(at[2]) # Chunk /\ Parses(at[2], ReadBytes(at[2]))
    BY DEF ReadLast, More
  <1>3. /\ ReadBytes(at[2]) = Unread(at[2])
        /\ sent[at[2]] \in 0 .. MaxResponse /\ received[at[2]] \in 0 .. MaxResponse
    BY <1>1, <1>2, ReadBytesFacts
  <1>4. ~(ReadBytes(at[2]) < Unread(at[2]))
    BY <1>3, NetAssumption DEF Unread
  <1>. QED
    BY <1>2, <1>4 DEF Parses

LEMMA ReadLastKeeps ==
  ASSUME IInv, ReadLast
  PROVE  IInv'
  <1>1. at[2] \in registered /\ Unfinished(at[2])
    BY ReadsFor DEF ReadLast
  <1>2. /\ owner' = Close(owner, {fd[at[2]]}) /\ ExchangeEnds(at[2]) /\ UNCHANGED failed
    BY DEF ReadLast
  <1>3. partial' \subseteq Exchanges
    BY LastReadWhole DEF IInv, TypeOK
  <1>. QED
    BY <1>1, <1>2, <1>3, ClosingEndKeeps

LEMMA ReadFailsKeeps ==
  ASSUME IInv, ReadFails
  PROVE  IInv'
  <1>1. at[2] \in registered /\ Unfinished(at[2])
    BY ReadsFor DEF ReadFails
  <1>2. /\ owner' = Close(owner, {fd[at[2]]}) /\ ExchangeEnds(at[2]) /\ UNCHANGED failed
        /\ partial' \subseteq Exchanges
    BY DEF ReadFails, IInv, TypeOK
  <1>. QED
    BY <1>1, <1>2, ClosingEndKeeps

-----------------------------------------------------------------------------
(* The theorems *)

LEMMA InvStep == IInv /\ [Next]_vars => IInv'
  <1>. SUFFICES ASSUME IInv, [Next]_vars PROVE IInv'
    OBVIOUS
  <1>1. CASE \E i \in Instances : PollStarts(i) \/ PollFails(i)
    BY <1>1, PollStartsKeeps, PollFailsKeeps
  <1>2. CASE \E e \in Exchanges : LinkSettles(e) \/ ServiceSends(e) \/ ServiceHangsUp(e)
    BY <1>2, ServicesKeep
  <1>3. ASSUME NEW h \in Handlers,
               NextAddress(h) \/ NoMoreAddresses(h) \/ WriteRequest(h)
                 \/ WriteFails(h) \/ ReadBegins(h)
        PROVE  IInv'
    BY <1>3, NextAddressKeeps, NoMoreAddressesKeeps, WriteRequestKeeps, WriteFailsKeeps,
       ReadBeginsKeeps
  <1>4. CASE Reload \/ SelectReturns \/ WalkEnds
    BY <1>4, ReloadKeeps, SelectReturnsKeeps, WalkEndsKeeps
  <1>5. CASE ReadFull \/ ReadLast \/ ReadFails
    BY <1>5, ReadFullKeeps, ReadLastKeeps, ReadFailsKeeps
  <1>6. CASE SelectTimesOut \/ Stays \/ UNCHANGED vars
    BY <1>6, StaysKeeps DEF SelectTimesOut, Stays
  <1>. QED
    BY <1>1, <1>2, <1>3, <1>4, <1>5, <1>6 DEF Next

LEMMA Inductive == Spec => []IInv
  BY InvInit, InvStep, PTL DEF Spec

\* Whatever polls, reloads and failures find under way, the handlers in the list are
\* those the modules hold, and a descriptor is closed by the handler that opened it,
\* for every number of instances, addresses and descriptors (redis.c:50, 67;
\* net.c:87-88, 115).
THEOREM HandlersSafe == Spec => []WellFormed
  <1>1. IInv => WellFormed
    BY DEF IInv, WellFormed
  <1>. QED
    BY Inductive, <1>1, PTL


\* A module is given all that its service had sent when the read ended, for every
\* size of the buffer and of the response (net.c:61-69).
THEOREM ResponsesWhole == Spec => []ParsesWhatArrived
  <1>1. Init => ParsesWhatArrived
    BY DEF Init, ParsesWhatArrived
  <1>2. IInv /\ ParsesWhatArrived /\ [Next]_vars => ParsesWhatArrived'
    <2>. SUFFICES ASSUME IInv, [Next]_vars PROVE UNCHANGED partial
      BY DEF ParsesWhatArrived
    <2>1. CASE \E i \in Instances : PollStarts(i) \/ PollFails(i)
      BY <2>1 DEF PollStarts, PollFails, PollDrops
    <2>2. CASE \E e \in Exchanges : LinkSettles(e) \/ ServiceSends(e) \/ ServiceHangsUp(e)
      BY <2>2 DEF LinkSettles, ServiceSends, ServiceHangsUp
    <2>3. CASE \E h \in Handlers : NextAddress(h) \/ NoMoreAddresses(h) \/ WriteRequest(h)
                                     \/ WriteFails(h) \/ ReadBegins(h)
      BY <2>3 DEF NextAddress, NoMoreAddresses, WriteRequest, WriteFails, ReadBegins
    <2>4. CASE Reload \/ SelectReturns \/ WalkEnds
      BY <2>4 DEF Reload, SelectReturns, WalkEnds
    <2>5. CASE ReadFull \/ ReadFails
      BY <2>5 DEF ReadFull, ReadFails
    <2>6. CASE ReadLast
      BY <2>6, LastReadWhole
    <2>7. CASE SelectTimesOut \/ Stays \/ UNCHANGED vars
      BY <2>7 DEF SelectTimesOut, Stays, vars
    <2>. QED
      BY <2>1, <2>2, <2>3, <2>4, <2>5, <2>6, <2>7 DEF Next
  <1>. QED
    BY Inductive, <1>1, <1>2, PTL DEF Spec


-----------------------------------------------------------------------------
(* Memory *)

\* The exchanges under way among those of the handlers H, and all of them.
GoingIn(H) == {exchange[h] : h \in {g \in H : Unfinished(g)}}
Going      == GoingIn(registered)

\* What is allocated if the data and the addresses are those of D, and the
\* addresses those of A too.
Owed(D, A) == (UNION {Data(e) : e \in D}) \union {<<"ai", e>> : e \in A}

\* Those that are over are over: no exchange under way was dropped.
OverIsOver ==
  /\ Going \intersect (dropped \union cleaned) = {}
  /\ dropped \union cleaned \subseteq 1 .. polls

Memory == OverIsOver /\ memory = Owed(Going \union dropped, cleaned)

LEMMA UnionsJoin ==
  ASSUME NEW X, NEW Y, NEW Z
  PROVE  /\ (X \union Y) \union Z = X \union (Y \union Z)
         /\ UNION (X \union Y) = (UNION X) \union (UNION Y)
  OBVIOUS

LEMMA WithoutOne ==
  ASSUME NEW X, NEW Y, NEW Z, Y \intersect Z = {}
  PROVE  (X \union Y) \ Z = (X \ Z) \union Y
  OBVIOUS

LEMMA OwedHas ==
  ASSUME NEW D, NEW A
  PROVE  Owed(D, A) = {<<"data", e>> : e \in D} \union {<<"ai", e>> : e \in D \union A}
  <1>1. (UNION {Data(e) : e \in D}) = {<<"data", e>> : e \in D} \union {<<"ai", e>> : e \in D}
    BY DEF Data
  <1>2. {<<"ai", e>> : e \in D \union A}
          = {<<"ai", e>> : e \in D} \union {<<"ai", e>> : e \in A}
    OBVIOUS
  <1>3. Owed(D, A) = (UNION {Data(e) : e \in D}) \union {<<"ai", e>> : e \in A}
    BY DEF Owed
  <1>4. Owed(D, A) = ({<<"data", e>> : e \in D} \union {<<"ai", e>> : e \in D})
                     \union {<<"ai", e>> : e \in A}
    BY <1>1, <1>3
  <1>5. Owed(D, A) = {<<"data", e>> : e \in D}
                     \union ({<<"ai", e>> : e \in D} \union {<<"ai", e>> : e \in A})
    BY <1>4, UnionsJoin
  <1>. QED
    BY <1>2, <1>5

LEMMA KindsDiffer ==
  /\ \A e, d : <<"data", e>> # <<"ai", d>>
  /\ \A e, d : <<"data", e>> = <<"data", d>> => e = d
  /\ \A e, d : <<"ai", e>> = <<"ai", d>> => e = d
  OBVIOUS

\* The exchanges of the handlers that stay when those of H are dropped.
LEMMA GoingDrops ==
  ASSUME IInv, NEW H, H \subseteq registered,
         \A g \in registered \ H : mode'[g] = mode[g] /\ exchange'[g] = exchange[g]
  PROVE  /\ {exchange'[h] : h \in {g \in registered \ H : Unfinished(g)'}} = Going \ GoingIn(H)
         /\ GoingIn(H) \subseteq Going
  <1>1. \A g \in registered \ H : Unfinished(g)' <=> Unfinished(g)
    BY DEF Unfinished
  <1>2. \A g, h \in registered : exchange[g] = exchange[h] => g = h
    BY DEF IInv, OwnExchange
  <1>3. GoingIn(H) \subseteq Going
    BY DEF Going, GoingIn
  <1>. QED
    BY <1>1, <1>2, <1>3 DEF Going, GoingIn


LEMMA GoingBegun ==
  ASSUME IInv
  PROVE  Going \subseteq 1 .. polls /\ polls \in Nat
  BY NetAssumption DEF IInv, TypeOK, OwnExchange, Going, GoingIn

\* Memory is accounted for when what is under way, dropped and cleaned moves.
LEMMA PollStartsMemory ==
  ASSUME IInv, Memory, NEW i \in Instances, PollStarts(i)
  PROVE  Memory'
  <1>. DEFINE lost == GoingIn(Held(i))
  <1>1. PICK h \in Handlers :
          /\ registered' = Others(i) \union {h} /\ h \notin Others(i)
          /\ mode'[h] = "WR" /\ exchange'[h] = polls'
          /\ \A g \in Others(i) : mode'[g] = mode[g] /\ exchange'[g] = exchange[g]
    BY PollStartsFacts
  <1>2. Held(i) \subseteq registered /\ Others(i) = registered \ Held(i)
    BY HeldFacts
  <1>3. /\ {exchange'[g] : g \in {k \in Others(i) : Unfinished(k)'}} = Going \ lost
        /\ lost \subseteq Going
    BY <1>1, <1>2, GoingDrops
  <1>4. Going' = (Going \ lost) \union {polls'}
    <2>1. Unfinished(h)'
      BY <1>1 DEF Unfinished
    <2>2. Going' = {exchange'[g] : g \in {k \in Others(i) \union {h} : Unfinished(k)'}}
      BY <1>1 DEF Going, GoingIn
    <2>. QED
      BY <1>1, <1>3, <2>1, <2>2
  <1>5. /\ polls' = polls + 1 /\ dropped' = dropped \union lost /\ cleaned' = cleaned
        /\ memory' = memory \union Data(polls')
    BY DEF PollStarts, PollDrops, GoingIn
  <1>6. Going \subseteq 1 .. polls /\ polls \in Nat
    BY GoingBegun
  <1>7. OverIsOver'
    <2>1. dropped \union cleaned \subseteq 1 .. polls
      BY DEF Memory, OverIsOver
    <2>2. dropped' \union cleaned' \subseteq 1 .. polls
      BY <1>3, <1>5, <1>6, <2>1
    <2>3. polls' \notin dropped' \union cleaned' /\ dropped' \union cleaned' \subseteq 1 .. polls'
      BY <1>5, <1>6, <2>2
    <2>. QED
      BY <1>3, <1>4, <1>5, <2>3 DEF Memory, OverIsOver
  <1>8. Going' \union dropped' = (Going \union dropped) \union {polls'}
    BY <1>3, <1>4, <1>5
  <1>9. memory' = Owed(Going' \union dropped', cleaned')
    BY <1>5, <1>8 DEF Memory, Owed
  <1>. QED
    BY <1>7, <1>9 DEF Memory

LEMMA PollFailsMemory ==
  ASSUME IInv, Memory, NEW i \in Instances, PollFails(i)
  PROVE  Memory'
  <1>. DEFINE lost == GoingIn(Held(i))
  <1>1. registered' = Others(i) /\ FreesHandlers(Held(i))
    BY DEF PollFails
  <1>2. /\ Held(i) \subseteq registered /\ Others(i) = registered \ Held(i)
        /\ registered \subseteq Handlers
    BY HeldFacts DEF IInv, TypeOK
  <1>3. \A g \in registered \ Held(i) : mode'[g] = mode[g] /\ exchange'[g] = exchange[g]
    BY <1>1, <1>2, FreesHandlersType DEF IInv
  <1>4. /\ {exchange'[g] : g \in {k \in Others(i) : Unfinished(k)'}} = Going \ lost
        /\ lost \subseteq Going
    BY <1>2, <1>3, GoingDrops
  <1>5. Going' = Going \ lost
    BY <1>1, <1>4 DEF Going, GoingIn
  <1>6. /\ polls' = polls + 1 /\ dropped' = dropped \union lost /\ cleaned' = cleaned
        /\ memory' = memory
    BY DEF PollFails, PollDrops, GoingIn
  <1>7. Going \subseteq 1 .. polls /\ polls \in Nat
    BY GoingBegun
  <1>8. OverIsOver'
    <2>1. dropped \union cleaned \subseteq 1 .. polls
      BY DEF Memory, OverIsOver
    <2>2. dropped' \union cleaned' \subseteq 1 .. polls
      BY <1>4, <1>6, <1>7, <2>1
    <2>3. 1 .. polls \subseteq 1 .. polls'
      BY <1>6, <1>7
    <2>. QED
      BY <1>4, <1>5, <1>6, <2>2, <2>3 DEF Memory, OverIsOver
  <1>9. Going' \union dropped' = Going \union dropped
    BY <1>4, <1>5, <1>6
  <1>. QED
    BY <1>6, <1>8, <1>9 DEF Memory

LEMMA ReloadMemory ==
  ASSUME IInv, Memory, Reload
  PROVE  Memory'
  <1>. DEFINE mine == UNION {Held(i) : i \in Instances}
  <1>1. registered = mine
    BY DEF IInv, HandlersOwned
  <1>2. /\ registered' = registered \ mine
        /\ memory' = memory \ {<<"data", exchange[h]>> : h \in {g \in mine : Unfinished(g)}}
        /\ cleaned' = cleaned \union {exchange[h] : h \in {g \in mine : Unfinished(g)}}
        /\ UNCHANGED <<polls, dropped>>
    BY DEF Reload
  <1>3. Going' = {}
    BY <1>1, <1>2 DEF Going, GoingIn
  <1>4. cleaned' = cleaned \union Going
    BY <1>1, <1>2 DEF Going, GoingIn
  <1>5. memory' = memory \ {<<"data", e>> : e \in Going}
    BY <1>1, <1>2 DEF Going, GoingIn
  <1>6. OverIsOver'
    BY <1>2, <1>3, <1>4, GoingBegun DEF Memory, OverIsOver
  <1>7. Going \intersect dropped = {}
    BY DEF Memory, OverIsOver
  <1>8. Owed(dropped, cleaned \union Going)
          = Owed(Going \union dropped, cleaned) \ {<<"data", e>> : e \in Going}
    <2>. DEFINE datas == {<<"data", e>> : e \in Going \union dropped}
                over  == {<<"data", e>> : e \in Going}
                ais   == {<<"ai", e>> : e \in (Going \union dropped) \union cleaned}
    <2>1. Owed(Going \union dropped, cleaned) = datas \union ais
      BY OwedHas
    <2>2. dropped \union (cleaned \union Going) = (Going \union dropped) \union cleaned
      OBVIOUS
    <2>3. Owed(dropped, cleaned \union Going) = {<<"data", e>> : e \in dropped} \union ais
      BY <2>2, OwedHas
    <2>4. {<<"data", e>> : e \in dropped} = datas \ over
      BY <1>7, KindsDiffer
    <2>5. ais \intersect over = {}
      BY KindsDiffer
    <2>6. (datas \union ais) \ over = (datas \ over) \union ais
      BY <2>5, WithoutOne
    <2>. QED
      BY <2>1, <2>3, <2>4, <2>6
  <1>9. memory' = Owed(Going' \union dropped', cleaned')
    BY <1>2, <1>3, <1>4, <1>5, <1>8 DEF Memory
  <1>. QED
    BY <1>6, <1>9 DEF Memory

LEMMA EndsMemory ==
  ASSUME IInv, Memory, NEW h \in registered, Unfinished(h), ExchangeEnds(h)
  PROVE  Memory'
  <1>1. /\ mode' = [mode EXCEPT ![h] = "none"] /\ memory' = memory \ Data(exchange[h])
        /\ UNCHANGED <<registered, exchange, polls, dropped, cleaned>>
        /\ mode \in [Handlers -> {"WR", "RD", "none"}] /\ registered \subseteq Handlers
    BY DEF ExchangeEnds, EndFrees, history, IInv, TypeOK
  <1>2. \A g \in registered : Unfinished(g)' <=> Unfinished(g) /\ g # h
    BY <1>1 DEF Unfinished
  <1>3. \A g \in registered : exchange[g] = exchange[h] => g = h
    BY DEF IInv, OwnExchange
  <1>4. Going' = Going \ {exchange[h]} /\ exchange[h] \in Going
    BY <1>1, <1>2, <1>3 DEF Going, GoingIn
  <1>5. OverIsOver'
    BY <1>1, <1>4 DEF Memory, OverIsOver
  <1>6. exchange[h] \notin dropped \union cleaned
    BY <1>4 DEF Memory, OverIsOver
  <1>7. Owed((Going \ {exchange[h]}) \union dropped, cleaned)
          = Owed(Going \union dropped, cleaned) \ Data(exchange[h])
    <2>. DEFINE left == (Going \ {exchange[h]}) \union dropped
    <2>1. /\ Owed(left, cleaned)
               = {<<"data", e>> : e \in left} \union {<<"ai", e>> : e \in left \union cleaned}
          /\ Owed(Going \union dropped, cleaned)
               = {<<"data", e>> : e \in Going \union dropped}
                 \union {<<"ai", e>> : e \in (Going \union dropped) \union cleaned}
      BY OwedHas
    <2>2. /\ left = (Going \union dropped) \ {exchange[h]}
          /\ left \union cleaned = ((Going \union dropped) \union cleaned) \ {exchange[h]}
      BY <1>6
    <2>. QED
      BY <2>1, <2>2, KindsDiffer DEF Data
  <1>. QED
    BY <1>1, <1>4, <1>5, <1>7 DEF Memory

LEMMA OthersMemory ==
  ASSUME Memory, UNCHANGED <<registered, exchange, polls, dropped, cleaned, memory>>,
         \A g \in registered : Unfinished(g)' <=> Unfinished(g)
  PROVE  Memory'
  <1>1. Going' = Going
    BY DEF Going, GoingIn
  <1>. QED
    BY <1>1 DEF Memory, OverIsOver


LEMMA MemoryStep == IInv /\ Memory /\ [Next]_vars => Memory'
  <1>. SUFFICES ASSUME IInv, Memory, [Next]_vars PROVE Memory'
    OBVIOUS
  <1>1. CASE \E i \in Instances : PollStarts(i) \/ PollFails(i)
    BY <1>1, PollStartsMemory, PollFailsMemory
  <1>2. CASE \E e \in Exchanges : LinkSettles(e) \/ ServiceSends(e) \/ ServiceHangsUp(e)
    BY <1>2, OthersMemory
       DEF LinkSettles, ServiceSends, ServiceHangsUp, history, Unfinished
  <1>3. ASSUME NEW h \in Handlers, NextAddress(h) \/ WriteRequest(h) \/ ReadBegins(h)
        PROVE  Memory'
    <2>1. UNCHANGED <<registered, exchange, polls, dropped, cleaned, memory>>
      BY <1>3 DEF NextAddress, WriteRequest, ReadBegins, handler, history
    <2>2. mode \in [Handlers -> {"WR", "RD", "none"}] /\ registered \subseteq Handlers
      BY DEF IInv, TypeOK
    <2>3. mode' = mode \/ (mode[h] = "WR" /\ mode' = [mode EXCEPT ![h] = "RD"])
      BY <1>3 DEF NextAddress, WriteRequest, ReadBegins, handler
    <2>4. \A g \in registered : Unfinished(g)' <=> Unfinished(g)
      BY <2>2, <2>3 DEF Unfinished
    <2>. QED
      BY <2>1, <2>4, OthersMemory
  <1>4. ASSUME NEW h \in Handlers, NoMoreAddresses(h) \/ WriteFails(h)
        PROVE  Memory'
    <2>1. h \in registered /\ Unfinished(h) /\ ExchangeEnds(h)
      BY <1>4 DEF NoMoreAddresses, WriteFails, IInv, TypeOK, Unfinished
    <2>. QED
      BY <2>1, EndsMemory
  <1>5. CASE ReadLast \/ ReadFails
    <2>1. at[2] \in registered /\ Unfinished(at[2]) /\ ExchangeEnds(at[2])
      BY <1>5, ReadsFor DEF ReadLast, ReadFails
    <2>. QED
      BY <2>1, EndsMemory
  <1>6. CASE Reload
    BY <1>6, ReloadMemory
  <1>7. CASE SelectReturns \/ WalkEnds \/ ReadFull \/ SelectTimesOut \/ Stays \/ UNCHANGED vars
    <2>1. UNCHANGED <<registered, exchange, mode, polls, dropped, cleaned, memory>>
      BY <1>7 DEF SelectReturns, WalkEnds, ReadFull, SelectTimesOut, Stays, vars, handler,
                  history
    <2>. QED
      BY <2>1, OthersMemory DEF Unfinished
  <1>. QED
    BY <1>1, <1>2, <1>3, <1>4, <1>5, <1>6, <1>7 DEF Next

LEMMA MemoryInit == Init => Memory
  <1>. SUFFICES ASSUME Init PROVE Memory
    OBVIOUS
  <1>1. Going = {} /\ dropped = {} /\ cleaned = {} /\ memory = {}
    BY DEF Init, Going, GoingIn
  <1>2. Owed({}, {}) = {}
    BY OwedHas
  <1>. QED
    BY <1>1, <1>2 DEF Memory, OverIsOver

\* All that an exchange allocates is freed when it ends; what is never freed is what
\* a poll or a reload leaves of those they find under way, whatever they interrupt
\* (redis.c:52, 68; net.c:87-90).
THEOREM AllFreed == Spec => []MemoryAccounted
  <1>1. Memory => MemoryAccounted
    <2>. SUFFICES ASSUME Memory PROVE MemoryAccounted
      OBVIOUS
    <2>. DEFINE going == {Data(exchange[h]) : h \in {g \in registered : Unfinished(g)}}
                lost  == {Data(e) : e \in dropped}
                left  == {{<<"ai", e>>} : e \in cleaned}
    <2>1. {Data(e) : e \in Going \union dropped} = going \union lost
      BY DEF Going, GoingIn
    <2>2. {<<"ai", e>> : e \in cleaned} = UNION left
      OBVIOUS
    <2>3. memory = (UNION {Data(e) : e \in Going \union dropped})
                   \union {<<"ai", e>> : e \in cleaned}
      BY DEF Memory, Owed
    <2>4. memory = (UNION (going \union lost)) \union (UNION left)
      BY <2>1, <2>2, <2>3
    <2>5. memory = UNION ((going \union lost) \union left)
      BY <2>4, UnionsJoin
    <2>6. MemoryAccounted <=> memory = UNION ((going \union lost) \union left)
      BY DEF MemoryAccounted
    <2>. QED
      BY <2>5, <2>6
  <1>. QED
    BY Inductive, MemoryInit, MemoryStep, <1>1, PTL DEF Spec

-----------------------------------------------------------------------------
(* Descriptors that no handler has *)

Left == {f \in Fds : owner[f] # 0} \ Open(registered)

LEMMA OpenHas ==
  ASSUME NEW H, NEW f \in Fds
  PROVE  f \in Open(H) <=> \E h \in H : f = fd[h]
  <1>1. f # None
    BY NetAssumption DEF Fds, None
  <1>. QED
    BY <1>1 DEF Open

LEMMA LeftHas ==
  ASSUME NEW f \in Fds
  PROVE  f \in Left <=> owner[f] # 0 /\ \A h \in registered : fd[h] # f
  BY OpenHas DEF Left

LEMMA LeftHasNext ==
  ASSUME NEW f \in Fds
  PROVE  f \in Left' <=> owner'[f] # 0 /\ \A h \in registered' : fd'[h] # f
  BY DEF Left, Open, Fds, None

\* Those left by the handlers that stay when those of H are dropped are the same.
LEMMA LeftWithout ==
  ASSUME IInv, NEW H, H \subseteq registered, NEW f \in Fds
  PROVE  f \in Left <=> /\ Close(owner, Open(H))[f] # 0
                        /\ \A h \in registered \ H : fd[h] # f
  <1>1. Close(owner, Open(H))[f] = IF f \in Open(H) THEN 0 ELSE owner[f]
    BY CloseType DEF IInv, TypeOK
  <1>. QED
    BY <1>1, OpenHas, LeftHas

\* A connection that fails at once leaves one more.
LEMMA OneMoreLeft ==
  ASSUME TypeOK, Cardinality(Left) = failed, NEW n \in Fds, n \notin Left,
         Left' = Left \union {n}, failed' = failed + 1
  PROVE  Cardinality(Left') = failed'
  <1>1. IsFiniteSet(Left)
    <2>1. IsFiniteSet(Fds)
      BY NetAssumption, FS_Interval DEF Fds
    <2>2. Left \subseteq Fds
      BY DEF Left
    <2>. QED
      BY <2>1, <2>2, FS_Subset
  <1>2. Cardinality(Left \union {n}) = Cardinality(Left) + 1
    BY <1>1, FS_AddElement
  <1>. QED
    BY <1>2

LEMMA LeftOfFds == Left \subseteq Fds /\ Left' \subseteq Fds
  BY DEF Left

LEMMA PollStartsLeft ==
  ASSUME IInv, NEW i \in Instances, PollStarts(i)
  PROVE  Left' = Left
  <1>. DEFINE o == Close(owner, Open(Held(i)))
  <1>1. PICK h \in Handlers, new \in Fds :
          /\ registered' = Others(i) \union {h}
          /\ fd'[h] = new
          /\ \A g \in Others(i) : fd'[g] = fd[g]
          /\ o[new] = 0
          /\ \A f \in Fds : f # new => owner'[f] = o[f]
    BY PollStartsFacts
  <1>2. Held(i) \subseteq registered /\ Others(i) = registered \ Held(i)
    BY HeldFacts
  <1>3. \A f \in Fds : f \in Left <=> o[f] # 0 /\ \A g \in Others(i) : fd[g] # f
    BY <1>2, LeftWithout
  <1>4. \A f \in Fds : f \in Left' <=> owner'[f] # 0 /\ \A g \in registered' : fd'[g] # f
    BY LeftHasNext
  <1>5. \A f \in Fds : f \in Left' <=> f \in Left
    BY <1>1, <1>3, <1>4
  <1>. QED
    BY <1>5, LeftOfFds


LEMMA PollFailsLeft ==
  ASSUME IInv, Cardinality(Left) = failed, NEW i \in Instances, PollFails(i)
  PROVE  Cardinality(Left') = failed'
  <1>. DEFINE o == Close(owner, Open(Held(i)))
  <1>1. registered' = Others(i) /\ FreesHandlers(Held(i))
    BY DEF PollFails
  <1>2. /\ Held(i) \subseteq registered /\ Others(i) = registered \ Held(i)
        /\ registered \subseteq Handlers
    BY HeldFacts DEF IInv, TypeOK
  <1>3. \A g \in Others(i) : fd'[g] = fd[g]
    BY <1>1, <1>2, FreesHandlersType DEF IInv
  <1>4. \A f \in Fds : f \in Left <=> o[f] # 0 /\ \A g \in Others(i) : fd[g] # f
    BY <1>2, LeftWithout
  <1>5. \A f \in Fds : f \in Left' <=> owner'[f] # 0 /\ \A g \in Others(i) : fd[g] # f
    BY <1>1, <1>3, LeftHasNext
  <1>6. CASE owner' = o /\ UNCHANGED failed
    <2>1. Left' = Left
      BY <1>4, <1>5, <1>6, LeftOfFds
    <2>. QED
      BY <1>6, <2>1
  <1>7. CASE FreeFds(o) # {} /\ owner' = Opened(o, polls') /\ failed' = failed + 1
    <2>. DEFINE new == Lowest(FreeFds(o))
    <2>1. o \in [Fds -> 0 .. MaxPolls]
      BY CloseType DEF IInv, TypeOK
    <2>2. polls' \in 0 .. MaxPolls /\ polls' # 0
      BY PollDropsTypes, NetAssumption DEF PollFails
    <2>3. FreeFds(o) # {} /\ owner' = Opened(o, polls')
      BY <1>7
    <2>4. /\ new \in Fds /\ o[new] = 0 /\ owner'[new] = polls'
          /\ \A f \in Fds : f # new => owner'[f] = o[f]
      BY <2>1, <2>2, <2>3, OpenedOne
    <2>5. \A g \in Others(i) : fd[g] # new
      <3>. SUFFICES ASSUME NEW g \in Others(i), fd[g] = new PROVE FALSE
        OBVIOUS
      <3>1. g \in registered /\ g \notin Held(i) /\ fd[g] # None
        BY <1>2, <2>4, NetAssumption DEF Fds, None
      <3>2. Unfinished(g) /\ exchange[g] # 0
        BY <3>1, OwnFd
      <3>3. o[fd[g]] = exchange[g]
        BY <1>2, <3>1, <3>2, ClosesOwn
      <3>. QED
        BY <2>4, <3>2, <3>3
    <2>6. \A f \in Fds : f \in Left' <=> f \in Left \union {new}
      BY <1>4, <1>5, <2>2, <2>4, <2>5
    <2>7. Left' = Left \union {new} /\ new \notin Left
      BY <1>4, <2>4, <2>6, LeftOfFds
    <2>. QED
      BY <1>7, <2>4, <2>7, OneMoreLeft DEF IInv
  <1>. QED
    BY <1>6, <1>7 DEF PollFails

LEMMA ReloadLeft ==
  ASSUME IInv, Reload
  PROVE  Left' = Left
  <1>. DEFINE mine == UNION {Held(i) : i \in Instances}
  <1>1. registered = mine
    BY DEF IInv, HandlersOwned
  <1>2. registered' = registered \ mine /\ owner' = Close(owner, Open(mine))
    BY DEF Reload
  <1>3. registered' = {} /\ owner' = Close(owner, Open(registered))
    BY <1>1, <1>2
  <1>4. \A f \in Fds : f \in Left' <=> owner'[f] # 0
    BY <1>3, LeftHasNext
  <1>5. \A f \in Fds : f \in Left <=> owner'[f] # 0
    BY <1>3, LeftWithout
  <1>. QED
    BY <1>4, <1>5, LeftOfFds

LEMMA NextAddressLeft ==
  ASSUME IInv, NEW h \in Handlers, NextAddress(h)
  PROVE  Left' = Left
  <1>. DEFINE new == Lowest(FreeFds(owner))
              o   == Opened(owner, exchange[h])
  <1>1. /\ h \in registered /\ Unfinished(h) /\ registered \subseteq Handlers
        /\ owner \in [Fds -> 0 .. MaxPolls] /\ exchange[h] \in 0 .. MaxPolls
        /\ fd \in [Handlers -> Fds \union {None}]
    BY DEF NextAddress, IInv, TypeOK, Unfinished
  <1>2. /\ owner' = Close(o, {fd[h]}) /\ fd' = [fd EXCEPT ![h] = new]
        /\ registered' = registered
    BY DEF NextAddress, Replaced
  <1>3. FreeFds(owner) # {}
    BY DEF NextAddress
  <1>4. /\ new \in Fds /\ owner[new] = 0 /\ o \in [Fds -> 0 .. MaxPolls]
        /\ \A f \in Fds : f # new => o[f] = owner[f]
    BY <1>1, <1>3, OpenedOne
  <1>5. \A f \in Fds : owner'[f] = IF f = fd[h] THEN 0 ELSE o[f]
    BY <1>2, <1>4, CloseType
  <1>6. fd'[h] = new /\ \A g \in registered : g # h => fd'[g] = fd[g]
    BY <1>1, <1>2
  <1>7. ASSUME NEW f \in Fds
        PROVE  f \in Left' <=> f \in Left
    <2>1. f \in Left <=> owner[f] # 0 /\ \A g \in registered : fd[g] # f
      BY LeftHas
    <2>2. f \in Left' <=> owner'[f] # 0 /\ \A g \in registered : fd'[g] # f
      BY <1>2, LeftHasNext
    <2>3. f \in Left => f \in Left'
      BY <1>1, <1>4, <1>5, <1>6, <2>1, <2>2
    <2>4. f \in Left' => f \in Left
      BY <1>1, <1>4, <1>5, <1>6, <2>1, <2>2
    <2>. QED
      BY <2>3, <2>4
  <1>. QED
    BY <1>7, LeftOfFds

\* The descriptors left when exchange h ends are those of owner', of which fd[h] is
\* no more.
LEMMA EndsLeft ==
  ASSUME IInv, NEW h \in registered, Unfinished(h), ExchangeEnds(h),
         owner'[fd[h]] = 0, NEW f \in Fds
  PROVE  f \in Left' <=> owner'[f] # 0 /\ \A g \in registered : fd[g] # f
  <1>1. /\ fd' = [fd EXCEPT ![h] = None] /\ registered' = registered
        /\ fd \in [Handlers -> Fds \union {None}] /\ registered \subseteq Handlers
    BY DEF ExchangeEnds, IInv, TypeOK
  <1>2. f # None
    BY NetAssumption DEF Fds, None
  <1>3. \A g \in registered : fd'[g] = IF g = h THEN None ELSE fd[g]
    BY <1>1
  <1>4. f \in Left' <=> owner'[f] # 0 /\ \A g \in registered : fd'[g] # f
    BY <1>1, LeftHasNext
  <1>. QED
    BY <1>2, <1>3, <1>4

LEMMA ClosingEndLeft ==
  ASSUME IInv, NEW h \in registered, Unfinished(h), ExchangeEnds(h),
         owner' = Close(owner, {fd[h]})
  PROVE  Left' = Left
  <1>1. owner \in [Fds -> 0 .. MaxPolls] /\ fd[h] \in Fds
    BY OwnFd DEF IInv, TypeOK
  <1>2. \A f \in Fds : owner'[f] = IF f = fd[h] THEN 0 ELSE owner[f]
    BY <1>1, CloseType
  <1>3. owner'[fd[h]] = 0
    BY <1>1, <1>2
  <1>4. \A f \in Fds : f \in Left' <=> owner'[f] # 0 /\ \A g \in registered : fd[g] # f
    BY <1>3, EndsLeft
  <1>5. \A f \in Fds : f \in Left' <=> f \in Left
    BY <1>2, <1>4, LeftHas
  <1>. QED
    BY <1>5, LeftOfFds


LEMMA NoMoreAddressesLeft ==
  ASSUME IInv, Cardinality(Left) = failed, NEW h \in Handlers, NoMoreAddresses(h)
  PROVE  Cardinality(Left') = failed'
  <1>1. h \in registered /\ Unfinished(h) /\ ExchangeEnds(h)
    BY DEF NoMoreAddresses, IInv, TypeOK, Unfinished
  <1>2. CASE owner' = Close(owner, {fd[h]}) /\ UNCHANGED failed
    BY <1>1, <1>2, ClosingEndLeft
  <1>3. CASE /\ FreeFds(owner) # {}
             /\ owner' = Close(Opened(owner, exchange[h]), {fd[h]})
             /\ failed' = failed + 1
    <2>. DEFINE new == Lowest(FreeFds(owner))
                o   == Opened(owner, exchange[h])
    <2>1. /\ owner \in [Fds -> 0 .. MaxPolls] /\ exchange[h] \in 0 .. MaxPolls
          /\ fd[h] \in Fds /\ owner[fd[h]] = exchange[h] /\ exchange[h] # 0
      BY <1>1, OwnFd DEF IInv, TypeOK
    <2>2. FreeFds(owner) # {}
      BY <1>3
    <2>3. /\ new \in Fds /\ owner[new] = 0 /\ o \in [Fds -> 0 .. MaxPolls]
          /\ o[new] = exchange[h]
          /\ \A f \in Fds : f # new => o[f] = owner[f]
      BY <2>1, <2>2, OpenedOne
    <2>4. \A f \in Fds : owner'[f] = IF f = fd[h] THEN 0 ELSE o[f]
      BY <1>3, <2>3, CloseType
    <2>5. \A f \in Fds : f \in Left' <=> owner'[f] # 0 /\ \A g \in registered : fd[g] # f
      BY <1>1, <2>1, <2>4, EndsLeft
    <2>6. \A g \in registered : fd[g] # new
      <3>. SUFFICES ASSUME NEW g \in registered, fd[g] = new PROVE FALSE
        OBVIOUS
      <3>1. fd[g] # None
        BY <2>3, NetAssumption DEF Fds, None
      <3>. QED
        BY <2>3, <3>1, OwnFd
    <2>7. new # fd[h]
      BY <1>1, <2>6
    <2>8. \A f \in Fds : f \in Left' <=> f \in Left \union {new}
      <3>1. owner'[new] # 0
        BY <2>1, <2>3, <2>4, <2>7
      <3>2. new \in Left'
        BY <2>3, <2>5, <2>6, <3>1
      <3>3. ASSUME NEW f \in Fds, f # new
            PROVE  f \in Left' <=> f \in Left
        <4>1. f \in Left <=> owner[f] # 0 /\ \A g \in registered : fd[g] # f
          BY LeftHas
        <4>2. f # fd[h] => owner'[f] = owner[f]
          BY <2>3, <2>4, <3>3
        <4>. QED
          BY <1>1, <2>5, <4>1, <4>2
      <3>. QED
        BY <3>2, <3>3
    <2>9. Left' = Left \union {new} /\ new \notin Left
      BY <2>3, <2>8, LeftHas, LeftOfFds
    <2>. QED
      BY <1>3, <2>3, <2>9, OneMoreLeft DEF IInv
  <1>. QED
    BY <1>2, <1>3 DEF NoMoreAddresses

LEMMA LeftStep ==
  ASSUME IInv, [Next]_vars, Cardinality(Left) = failed
  PROVE  Cardinality(Left') = failed'
  <1>1. CASE \E i \in Instances : PollStarts(i)
    <2>1. Left' = Left /\ failed' = failed
      BY <1>1, PollStartsLeft DEF PollStarts
    <2>. QED
      BY <2>1
  <1>2. CASE \E i \in Instances : PollFails(i)
    BY <1>2, PollFailsLeft
  <1>3. CASE \E h \in Handlers : NextAddress(h)
    <2>1. Left' = Left /\ failed' = failed
      BY <1>3, NextAddressLeft DEF NextAddress
    <2>. QED
      BY <2>1
  <1>4. CASE \E h \in Handlers : NoMoreAddresses(h)
    BY <1>4, NoMoreAddressesLeft
  <1>5. CASE Reload
    <2>1. Left' = Left /\ failed' = failed
      BY <1>5, ReloadLeft DEF Reload
    <2>. QED
      BY <2>1
  <1>6. ASSUME NEW h \in Handlers, WriteFails(h)
        PROVE  Cardinality(Left') = failed'
    <2>1. /\ h \in registered /\ Unfinished(h) /\ ExchangeEnds(h)
          /\ owner' = Close(owner, {fd[h]}) /\ failed' = failed
      BY <1>6 DEF WriteFails, IInv, TypeOK, Unfinished
    <2>2. Left' = Left
      BY <2>1, ClosingEndLeft
    <2>. QED
      BY <2>1, <2>2
  <1>7. CASE ReadLast \/ ReadFails
    <2>1. /\ at[2] \in registered /\ Unfinished(at[2]) /\ ExchangeEnds(at[2])
          /\ owner' = Close(owner, {fd[at[2]]}) /\ failed' = failed
      BY <1>7, ReadsFor DEF ReadLast, ReadFails
    <2>2. Left' = Left
      BY <2>1, ClosingEndLeft
    <2>. QED
      BY <2>1, <2>2
  <1>8. ASSUME UNCHANGED <<owner, registered, fd, failed>>
        PROVE  Cardinality(Left') = failed'
    <2>1. Left' = Left
      BY <1>8 DEF Left, Open
    <2>. QED
      BY <1>8, <2>1
  <1>9. CASE \E e \in Exchanges : LinkSettles(e) \/ ServiceSends(e) \/ ServiceHangsUp(e)
    BY <1>8, <1>9 DEF LinkSettles, ServiceSends, ServiceHangsUp, sockets
  <1>10. CASE \E h \in Handlers : WriteRequest(h) \/ ReadBegins(h)
    BY <1>8, <1>10 DEF WriteRequest, ReadBegins, handler, sockets
  <1>11. CASE SelectReturns \/ WalkEnds \/ ReadFull \/ SelectTimesOut \/ Stays
              \/ UNCHANGED vars
    BY <1>8, <1>11 DEF SelectReturns, WalkEnds, ReadFull, SelectTimesOut, Stays, vars,
                       handler, sockets
  <1>. QED
    BY <1>1, <1>2, <1>3, <1>4, <1>5, <1>6, <1>7, <1>9, <1>10, <1>11 DEF Next

\* A descriptor is lost for good by each connection that fails at once, and by
\* nothing else: not by the addresses tried, a reload, or a poll that finds an
\* exchange under way (net.c:48-51, 87-88, 115-117).
THEOREM DescriptorsKept == Spec => []DescriptorsAccounted
  <1>. DEFINE Count == Cardinality(Left) = failed
  <1>1. Init => Count
    <2>. SUFFICES ASSUME Init PROVE Count
      OBVIOUS
    <2>1. Left = {} /\ failed = 0
      BY DEF Init, Left
    <2>. QED
      BY <2>1, FS_EmptySet
  <1>2. IInv /\ Count /\ [Next]_vars => Count'
    BY LeftStep
  <1>3. Count => DescriptorsAccounted
    BY DEF DescriptorsAccounted, Left
  <1>. QED
    BY Inductive, <1>1, <1>2, <1>3, PTL DEF Spec

=============================================================================
