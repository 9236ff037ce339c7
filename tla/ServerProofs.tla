---------------------------- MODULE ServerProofs ----------------------------
(***************************************************************************)
(* Theorems about Server, for every set of clients and every number of     *)
(* slots.  None of the invariants is inductive: that the handlers still to *)
(* visit find their descriptor as select saw it needs that the server's    *)
(* handler is the first of the list, so that an accept is never after a    *)
(* disconnection within a walk; that a stored list is whole needs that the *)
(* parts a client has sent and the agent has read are those its slot       *)
(* counts, and that a client whose list is stored does not come back.      *)
(***************************************************************************)
EXTENDS Server, FiniteSetTheorems, SequenceTheorems, TLAPS

-----------------------------------------------------------------------------
(* The invariant *)

Used == {s \in Slots : socket[s] # None}

\* The server's handler is the first of the list, the others are the clients', and
\* none is there twice.
ListShape ==
  /\ Len(handlers) = n_clients + 1
  /\ \A j, k \in 1 .. Len(handlers) : handlers[j] = handlers[k] => j = k
  /\ \A k \in 1 .. Len(handlers) : client[handlers[k]] = 0 <=> k = 1
  /\ fd[handlers[1]] = Listen

\* A slot in use has one handler and a descriptor of its own.
OneOfEach ==
  /\ n_clients = Cardinality(Used)
  /\ \A k \in 2 .. Len(handlers) : socket[client[handlers[k]]] = fd[handlers[k]]
  /\ \A k \in 2 .. Len(handlers) : fd[handlers[k]] # Listen
  /\ \A j, k \in 2 .. Len(handlers) : client[handlers[j]] = client[handlers[k]] => j = k
  /\ \A s \in Used : \E k \in 2 .. Len(handlers) : client[handlers[k]] = s
  /\ \A s, t \in Used : socket[s] = socket[t] => s = t

\* A client is connected once, by the descriptor of a slot or in the backlog, and
\* not any more when its list is stored.
Connections ==
  /\ \A f \in Fds : conn[f] # NULL <=> \E s \in Slots : socket[s] = f
  /\ \A f, g \in Fds : conn[f] # NULL /\ conn[f] = conn[g] => f = g
  /\ \A i, j \in 1 .. Len(backlog) : backlog[i] = backlog[j] => i = j
  /\ \A f \in Fds : \A i \in 1 .. Len(backlog) : conn[f] # backlog[i]
  /\ \A f \in Fds : conn[f] \notin stored
  /\ \A i \in 1 .. Len(backlog) : backlog[i] \notin stored

\* What is read of a client is what its slot counts.
Amounts ==
  /\ \A c \in Clients : unread[c] <= sent[c]
  /\ \A c \in Clients : header[c] = "none" => sent[c] = 0
  /\ \A i \in 1 .. Len(backlog) : unread[backlog[i]] = sent[backlog[i]]
  /\ \A s \in Used : LET c == conn[socket[s]] IN
       sent[c] - unread[c] = rd[s] /\ rd[s] <= size[c]
  /\ \A s \in Slots \ Used : rd[s] = 0

\* The walk and the read stand in the list, and an accept is before any other callback.
Walk ==
  /\ next # NULL => \E k \in 1 .. Len(handlers) : handlers[k] = next
  /\ \A h \in Handlers : at = <<"read", h>> =>
       /\ \E k \in 2 .. Len(handlers) :
            handlers[k] = h /\ next = IF k = Len(handlers) THEN NULL ELSE handlers[k + 1]
       /\ header[conn[fd[h]]] = "whole"
  /\ at = <<"walk">> /\ next = handlers[1] => \A f \in ready : Readable(f)
  /\ at # <<"select">> =>
       \A j \in 1 .. Len(handlers) : \A k \in j .. Len(handlers) :
         handlers[j] = next /\ fd[handlers[k]] \in ready => Readable(fd[handlers[k]])

IInv == TypeOK /\ ListShape /\ OneOfEach /\ Connections /\ Amounts /\ StoredWhole /\ Walk

-----------------------------------------------------------------------------
(* The list *)

LEMMA RemoveAtFacts ==
  ASSUME NEW S, NEW s \in Seq(S), NEW i \in 1 .. Len(s)
  PROVE  /\ RemoveAt(s, i) \in Seq(S)
         /\ Len(RemoveAt(s, i)) = Len(s) - 1
         /\ \A k \in 1 .. Len(s) - 1 : RemoveAt(s, i)[k] = IF k < i THEN s[k] ELSE s[k + 1]
  <1>. DEFINE a == SubSeq(s, 1, i - 1)
              b == SubSeq(s, i + 1, Len(s))
  <1>1. /\ a \in Seq(S) /\ Len(a) = i - 1
        /\ \A k \in 1 .. i - 1 : a[k] = s[k]
    OBVIOUS
  <1>2. /\ b \in Seq(S) /\ Len(b) = Len(s) - i
        /\ \A k \in 1 .. Len(s) - i : b[k] = s[i + k]
    OBVIOUS
  <1>. HIDE DEF a, b
  <1>3. a \o b \in Seq(S) /\ Len(a \o b) = Len(s) - 1
    <2>1. a \in Seq(S) /\ b \in Seq(S)
      BY <1>1, <1>2
    <2>2. a \o b \in Seq(S) /\ Len(a \o b) = Len(a) + Len(b)
      BY ONLY <2>1, ConcatProperties
    <2>. QED
      BY <1>1, <1>2, <2>2
  <1>4. ASSUME NEW k \in 1 .. Len(s) - 1
        PROVE  (a \o b)[k] = IF k < i THEN s[k] ELSE s[k + 1]
    <2>1. CASE k < i
      BY <1>1, <1>2, <2>1
    <2>2. CASE ~(k < i)
      <3>1. (a \o b)[k] = b[k - (i - 1)]
        BY <1>1, <1>2, <2>2
      <3>. QED
        BY <1>2, <2>2, <3>1
    <2>. QED
      BY <2>1, <2>2
  <1>. QED
    BY <1>3, <1>4 DEF RemoveAt, a, b

LEMMA PlaceIs ==
  ASSUME handlers \in Seq(Handlers), ListShape, NEW k \in 1 .. Len(handlers)
  PROVE  Place(handlers[k]) = k
  BY DEF Place, ListShape


-----------------------------------------------------------------------------
(* What is free *)

LEMMA LeastOf ==
  ASSUME NEW F, F \subseteq Nat, F # {}
  PROVE  \E x \in F : \A y \in F : x <= y
  <1>1. \E x \in F : \A y \in F : ~(<<y, x>> \in OpToRel(<, Nat))
    BY NatLessThanWellFounded, WFMin
  <1>2. \A x, y \in Nat : <<y, x>> \in OpToRel(<, Nat) <=> y < x
    BY DEF OpToRel
  <1>3. PICK x \in F : \A y \in F : ~(y < x)
    BY <1>1, <1>2
  <1>. QED
    BY <1>3

LEMMA SlotsCounted ==
  /\ IsFiniteSet(Slots) /\ Cardinality(Slots) = MaxClients
  /\ IsFiniteSet(Used) /\ Cardinality(Used) \in Nat
  /\ Used \subseteq Slots
  <1>1. IsFiniteSet(Slots) /\ Cardinality(Slots) = MaxClients
    BY ServerAssumption, FS_Interval DEF Slots
  <1>2. Used \subseteq Slots
    BY DEF Used
  <1>. QED
    BY <1>1, <1>2, FS_Subset, FS_CardinalityType

\* As long as a client can be accepted, there is a slot for it.
LEMMA FreeSlotIs ==
  ASSUME IInv, ~Full
  PROVE  FreeSlot \in Slots /\ socket[FreeSlot] = None
  <1>. DEFINE F == {s \in Slots : socket[s] = None}
  <1>1. n_clients < MaxClients /\ n_clients = Cardinality(Used)
    BY ServerAssumption DEF IInv, TypeOK, OneOfEach, Full
  <1>2. F # {}
    <2>. SUFFICES ASSUME F = {} PROVE FALSE
      OBVIOUS
    <2>1. Used = Slots
      BY DEF Used
    <2>. QED
      BY <1>1, <2>1, SlotsCounted, ServerAssumption
  <1>3. F \subseteq Nat
    BY ServerAssumption DEF Slots
  <1>4. PICK s \in F : \A t \in F : s <= t
    BY <1>2, <1>3, LeastOf
  <1>. QED
    BY <1>4 DEF FreeSlot

\* And a descriptor.
LEMMA FreeFdIs ==
  ASSUME IInv, ~Full
  PROVE  FreeFd \in Fds \ {Listen} /\ conn[FreeFd] = NULL
  <1>. DEFINE C == Fds \ {Listen}
              F == {f \in C : conn[f] = NULL}
              g == [f \in C |-> CHOOSE s \in Slots : socket[s] = f]
  <1>1. n_clients < MaxClients /\ n_clients = Cardinality(Used) /\ MaxClients \in Nat
    BY ServerAssumption DEF IInv, TypeOK, OneOfEach, Full
  <1>2. C = 1 .. MaxClients
    BY <1>1 DEF Fds, Listen
  <1>3. Cardinality(C) = MaxClients
    <2>1. Cardinality(1 .. MaxClients) = IF 1 > MaxClients THEN 0 ELSE MaxClients - 1 + 1
      BY <1>1, FS_Interval
    <2>2. Cardinality(1 .. MaxClients) = MaxClients
      BY <2>1, ServerAssumption
    <2>. HIDE DEF C
    <2>. QED
      BY <1>2, <2>2
  <1>4. F # {}
    <2>. SUFFICES ASSUME F = {} PROVE FALSE
      OBVIOUS
    <2>1. \A f \in C : \E s \in Slots : socket[s] = f
      BY DEF IInv, Connections
    <2>2. \A f \in C : f # None
      BY <1>2 DEF None
    <2>3. \A f \in C : g[f] \in Used /\ socket[g[f]] = f
      BY <2>1, <2>2 DEF Used
    <2>4. g \in Injection(C, Used)
      <3>1. g \in [C -> Used]
        BY <2>3
      <3>2. \A e, f \in C : g[e] = g[f] => e = f
        BY <2>3
      <3>. QED
        BY <3>1, <3>2, Zenon DEF Injection, IsInjective
    <2>5. Cardinality(C) <= Cardinality(Used)
      BY <2>4, SlotsCounted, FS_Injection
    <2>6. Cardinality(Used) \in Nat
      BY SlotsCounted
    <2>. QED
      BY <1>1, <1>3, <2>5, <2>6
  <1>5. F \subseteq Nat
    BY <1>2
  <1>6. PICK f \in F : \A t \in F : f <= t
    BY <1>4, <1>5, LeastOf
  <1>. QED
    BY <1>6 DEF FreeFd

-----------------------------------------------------------------------------
(* A client that is disconnected *)

\* The handler of a client has a slot, and the client at its descriptor.
LEMMA HandlerFacts ==
  ASSUME IInv, NEW k \in 2 .. Len(handlers)
  PROVE  LET s == client[handlers[k]] IN
         /\ handlers[k] \in Handlers /\ s \in Used
         /\ socket[s] = fd[handlers[k]] /\ socket[s] \in Fds \ {Listen}
         /\ conn[socket[s]] \in Clients
  <1>. DEFINE h == handlers[k]
  <1>1. handlers \in Seq(Handlers) /\ k \in 1 .. Len(handlers) /\ ListShape
    BY DEF IInv, TypeOK
  <1>2. h \in Handlers /\ client[h] # 0
    BY <1>1 DEF ListShape
  <1>3. client[h] \in Slots /\ fd[h] \in Fds
    BY <1>2, ServerAssumption DEF IInv, TypeOK, Slots
  <1>4. socket[client[h]] = fd[h] /\ fd[h] # Listen
    BY DEF IInv, OneOfEach
  <1>5. fd[h] # None
    BY <1>3, ServerAssumption DEF Fds, None
  <1>6. client[h] \in Used
    BY <1>3, <1>4, <1>5 DEF Used
  <1>7. conn[fd[h]] # NULL
    BY <1>3, <1>4 DEF IInv, Connections
  <1>8. conn[fd[h]] \in Clients
    BY <1>3, <1>7 DEF IInv, TypeOK
  <1>. QED
    BY <1>2, <1>3, <1>4, <1>6, <1>8

\* What Disconnect does, in terms of places of the list.
LEMMA DisconnectFacts ==
  ASSUME IInv, NEW k \in 2 .. Len(handlers), Disconnect(handlers[k])
  PROVE  LET s == client[handlers[k]] IN
         /\ conn' = [conn EXCEPT ![socket[s]] = NULL]
         /\ socket' = [socket EXCEPT ![s] = None]
         /\ rd' = [rd EXCEPT ![s] = 0]
         /\ n_clients' = n_clients - 1
         /\ handlers' \in Seq(Handlers) /\ Len(handlers') = Len(handlers) - 1
         /\ \A j \in 1 .. Len(handlers) - 1 :
              handlers'[j] = IF j < k THEN handlers[j] ELSE handlers[j + 1]
  <1>1. handlers \in Seq(Handlers) /\ k \in 1 .. Len(handlers) /\ ListShape
    BY DEF IInv, TypeOK
  <1>2. Place(handlers[k]) = k
    BY <1>1, PlaceIs
  <1>3. /\ handlers' \in Seq(Handlers) /\ Len(handlers') = Len(handlers) - 1
        /\ \A j \in 1 .. Len(handlers) - 1 :
              handlers'[j] = IF j < k THEN handlers[j] ELSE handlers[j + 1]
    BY <1>1, <1>2, RemoveAtFacts DEF Disconnect
  <1>. QED
    BY <1>3 DEF Disconnect, ClientsLeft

\* The list, the slots and the connections agree after it.
LEMMA DisconnectKeeps ==
  ASSUME IInv, NEW k \in 2 .. Len(handlers), Disconnect(handlers[k]),
         UNCHANGED <<fd, client, backlog, header, size, sent, unread>>,
         stored' \subseteq stored \union {conn[socket[client[handlers[k]]]]}
  PROVE  ListShape' /\ OneOfEach' /\ Connections' /\ Amounts'
  <1>. DEFINE h == handlers[k]
              s == client[h]
              n == Len(handlers)
              old(j) == IF j < k THEN j ELSE j + 1
  <1>1. /\ h \in Handlers /\ s \in Used
        /\ socket[s] = fd[h] /\ socket[s] \in Fds \ {Listen}
        /\ conn[socket[s]] \in Clients
    BY HandlerFacts
  <1>2. /\ conn' = [conn EXCEPT ![socket[s]] = NULL]
        /\ socket' = [socket EXCEPT ![s] = None]
        /\ rd' = [rd EXCEPT ![s] = 0]
        /\ n_clients' = n_clients - 1
    BY DisconnectFacts
  <1>3. /\ handlers' \in Seq(Handlers) /\ Len(handlers') = n - 1
        /\ \A j \in 1 .. n - 1 : handlers'[j] = handlers[old(j)]
    BY DisconnectFacts
  <1>4. /\ n \in Nat /\ k \in 2 .. n
        /\ \A j \in 1 .. n - 1 : old(j) \in 1 .. n /\ old(j) # k
        /\ \A j \in 2 .. n - 1 : old(j) \in 2 .. n
        /\ \A i, j \in 1 .. n - 1 : old(i) = old(j) => i = j
        /\ old(1) = 1
        /\ \A j \in 2 .. n : j # k => \E i \in 2 .. n - 1 : old(i) = j
    <2>1. n \in Nat /\ k \in 2 .. n
      BY DEF IInv, TypeOK
    <2>2. ASSUME NEW j \in 2 .. n, j # k
          PROVE  \E i \in 2 .. n - 1 : old(i) = j
      <3>1. CASE j < k
        BY <2>1, <3>1
      <3>2. CASE j > k
        <4>1. j - 1 \in 2 .. n - 1 /\ old(j - 1) = j
          BY <2>1, <3>2
        <4>. QED
          BY <4>1
      <3>. QED
        BY <2>1, <2>2, <3>1, <3>2
    <2>. QED
      BY <2>1, <2>2
  <1>5. /\ n_clients \in Nat /\ n = n_clients + 1
        /\ socket \in [Slots -> {None} \union (Fds \ {Listen})]
        /\ conn \in [Fds -> Clients \union {NULL}]
        /\ rd \in [Slots -> 0 .. MaxData]
        /\ backlog \in Seq(Clients)
    BY ServerAssumption DEF IInv, TypeOK, ListShape
  <1>6. /\ fd' = fd /\ client' = client /\ backlog' = backlog /\ header' = header
        /\ size' = size /\ sent' = sent /\ unread' = unread
    OBVIOUS
  <1>7. /\ Used' = Used \ {s}
        /\ \A t \in Slots \ {s} : socket'[t] = socket[t] /\ rd'[t] = rd[t]
        /\ \A f \in Fds : f # socket[s] => conn'[f] = conn[f]
        /\ conn'[socket[s]] = NULL /\ socket'[s] = None /\ rd'[s] = 0
        /\ s \in Slots
    BY <1>1, <1>2, <1>5 DEF Used
  <1>. HIDE DEF old, h, s, n
  <1>8. ListShape'
    <2>1. Len(handlers') = n_clients' + 1
      BY <1>2, <1>3, <1>5
    <2>2. ASSUME NEW i \in 1 .. n - 1, NEW j \in 1 .. n - 1, handlers'[i] = handlers'[j]
          PROVE  i = j
      BY <1>3, <1>4, <2>2 DEF IInv, ListShape, n
    <2>3. ASSUME NEW j \in 1 .. n - 1
          PROVE  client[handlers'[j]] = 0 <=> j = 1
      <3>1. handlers'[j] = handlers[old(j)] /\ old(j) \in 1 .. n
        BY <1>3, <1>4
      <3>2. client[handlers[old(j)]] = 0 <=> old(j) = 1
        BY <3>1 DEF IInv, ListShape, n
      <3>3. old(j) = 1 <=> j = 1
        BY <1>4 DEF old
      <3>. QED
        BY <3>1, <3>2, <3>3
    <2>4. fd[handlers'[1]] = Listen
      BY <1>3, <1>4 DEF IInv, ListShape
    <2>. QED
      BY <1>3, <1>6, <2>1, <2>2, <2>3, <2>4 DEF ListShape
  <1>9. OneOfEach'
    <2>1. n_clients' = Cardinality(Used')
      <3>1. Cardinality(Used \ {s}) = Cardinality(Used) - 1
        BY <1>1, SlotsCounted, FS_RemoveElement
      <3>2. n_clients = Cardinality(Used)
        BY DEF IInv, OneOfEach
      <3>. QED
        BY <1>2, <1>7, <3>1, <3>2
    <2>2. ASSUME NEW j \in 2 .. n - 1
          PROVE  /\ handlers'[j] = handlers[old(j)] /\ old(j) \in 2 .. n /\ old(j) # k
                 /\ client[handlers[old(j)]] \in Used \ {s}
                 /\ socket'[client[handlers[old(j)]]] = socket[client[handlers[old(j)]]]
                 /\ socket[client[handlers[old(j)]]] = fd[handlers[old(j)]]
                 /\ fd[handlers[old(j)]] # Listen
      <3>1. handlers'[j] = handlers[old(j)] /\ old(j) \in 2 .. n /\ old(j) # k
        BY <1>3, <1>4
      <3>2. /\ socket[client[handlers[old(j)]]] = fd[handlers[old(j)]]
            /\ fd[handlers[old(j)]] # Listen
        BY <3>1 DEF IInv, OneOfEach, n
      <3>3. client[handlers[old(j)]] # s
        BY <1>4, <3>1 DEF IInv, OneOfEach, s, h, n
      <3>4. handlers[old(j)] \in Handlers
        BY <3>1 DEF IInv, TypeOK, n
      <3>5. client[handlers[old(j)]] \in 0 .. MaxClients /\ fd[handlers[old(j)]] \in Fds
        BY <3>4 DEF IInv, TypeOK
      <3>6. client[handlers[old(j)]] # 0
        BY <3>1 DEF IInv, ListShape, n
      <3>7. client[handlers[old(j)]] \in Slots /\ fd[handlers[old(j)]] # None
        BY <3>5, <3>6, ServerAssumption DEF Slots, Fds, None
      <3>. QED
        BY <1>7, <3>1, <3>2, <3>3, <3>7 DEF Used
    <2>3. ASSUME NEW i \in 2 .. n - 1, NEW j \in 2 .. n - 1,
                 client[handlers'[i]] = client[handlers'[j]]
          PROVE  i = j
      <3>1. old(i) = old(j)
        BY <2>2, <2>3 DEF IInv, OneOfEach, n
      <3>. QED
        BY <1>4, <3>1
    <2>4. ASSUME NEW t \in Used'
          PROVE  \E j \in 2 .. n - 1 : client[handlers'[j]] = t
      <3>1. t \in Used /\ t # s
        BY <1>7
      <3>2. PICK i \in 2 .. n : client[handlers[i]] = t
        BY <3>1 DEF IInv, OneOfEach, n
      <3>3. i # k
        BY <3>1, <3>2 DEF s, h
      <3>. QED
        BY <1>3, <1>4, <3>2, <3>3
    <2>5. \A t, u \in Used' : socket'[t] = socket'[u] => t = u
      BY <1>7 DEF IInv, OneOfEach, Used
    <2>6. ASSUME NEW j \in 2 .. n - 1
          PROVE  socket'[client'[handlers'[j]]] = fd'[handlers'[j]] /\ fd'[handlers'[j]] # Listen
      BY <1>6, <2>2
    <2>. QED
      BY <1>3, <1>6, <2>1, <2>3, <2>4, <2>5, <2>6 DEF OneOfEach
  <1>10. Connections'
    <2>1. ASSUME NEW f \in Fds
          PROVE  conn'[f] # NULL <=> \E t \in Slots : socket'[t] = f
      <3>1. CASE f = socket[s]
        BY <1>1, <1>7, <3>1 DEF IInv, OneOfEach, Used
      <3>2. CASE f # socket[s]
        <4>1. f # None
          BY ServerAssumption DEF Fds, None
        <4>. QED
          BY <1>7, <3>2, <4>1 DEF IInv, Connections
      <3>. QED
        BY <3>1, <3>2
    <2>2. \A f, g \in Fds : conn'[f] # NULL /\ conn'[f] = conn'[g] => f = g
      BY <1>7 DEF IInv, Connections
    <2>3. \A i \in 1 .. Len(backlog) : backlog[i] \in Clients /\ backlog[i] # NULL
      BY <1>5, ServerAssumption
    <2>4. \A f \in Fds : \A i \in 1 .. Len(backlog) : conn'[f] # backlog[i]
      BY <1>7, <2>3 DEF IInv, Connections
    <2>5. NULL \notin stored'
      BY <1>1, ServerAssumption DEF IInv, TypeOK, s, h
    <2>6. \A f \in Fds : conn'[f] \notin stored'
      <3>. SUFFICES ASSUME NEW f \in Fds PROVE conn'[f] \notin stored'
        OBVIOUS
      <3>1. CASE f = socket[s]
        BY <1>7, <2>5, <3>1
      <3>2. CASE f # socket[s] /\ conn[f] = NULL
        BY <1>7, <2>5, <3>2
      <3>3. CASE f # socket[s] /\ conn[f] # NULL
        <4>1. conn[f] # conn[socket[s]]
          BY <1>1, <3>3 DEF IInv, Connections
        <4>2. conn[f] \notin stored
          BY DEF IInv, Connections
        <4>. QED
          BY <1>7, <3>3, <4>1, <4>2 DEF s, h
      <3>. QED
        BY <3>1, <3>2, <3>3
    <2>7. \A i \in 1 .. Len(backlog) : backlog[i] \notin stored'
      BY <1>1 DEF IInv, Connections, s, h
    <2>. QED
      BY <1>6, <2>1, <2>2, <2>4, <2>6, <2>7 DEF IInv, Connections
  <1>11. Amounts'
    <2>1. ASSUME NEW t \in Used'
          PROVE  /\ sent[conn'[socket'[t]]] - unread[conn'[socket'[t]]] = rd'[t]
                 /\ rd'[t] <= size[conn'[socket'[t]]]
      <3>1. t \in Used /\ t # s /\ t \in Slots
        BY <1>7 DEF Used
      <3>2. socket[t] \in Fds /\ socket[t] # socket[s]
        BY <1>1, <1>5, <3>1 DEF IInv, OneOfEach, Used
      <3>3. conn'[socket'[t]] = conn[socket[t]] /\ rd'[t] = rd[t]
        BY <1>7, <3>1, <3>2
      <3>. QED
        BY <3>1, <3>3 DEF IInv, Amounts
    <2>2. \A t \in Slots \ Used' : rd'[t] = 0
      BY <1>7 DEF IInv, Amounts
    <2>. QED
      BY <1>6, <2>1, <2>2 DEF IInv, Amounts
  <1>. QED
    BY <1>8, <1>9, <1>10, <1>11


\* And the types of what it changes.
LEMMA DisconnectTypes ==
  ASSUME IInv, NEW k \in 2 .. Len(handlers), Disconnect(handlers[k])
  PROVE  /\ handlers' \in Seq(Handlers)
         /\ socket' \in [Slots -> {None} \union (Fds \ {Listen})]
         /\ n_clients' \in 0 .. MaxClients
         /\ rd' \in [Slots -> 0 .. MaxData]
         /\ conn' \in [Fds -> Clients \union {NULL}]
  <1>1. /\ socket \in [Slots -> {None} \union (Fds \ {Listen})]
        /\ n_clients \in 0 .. MaxClients
        /\ rd \in [Slots -> 0 .. MaxData]
        /\ conn \in [Fds -> Clients \union {NULL}]
        /\ handlers \in Seq(Handlers)
    BY DEF IInv, TypeOK
  <1>2. 0 \in 0 .. MaxData
    BY ServerAssumption
  <1>3. n_clients - 1 \in 0 .. MaxClients
    <2>1. Len(handlers) = n_clients + 1
      BY DEF IInv, ListShape
    <2>. QED
      BY <1>1, <2>1, ServerAssumption
  <1>4. /\ handlers' \in Seq(Handlers) /\ n_clients' = n_clients - 1
        /\ conn' = [conn EXCEPT ![socket[client[handlers[k]]]] = NULL]
        /\ socket' = [socket EXCEPT ![client[handlers[k]]] = None]
        /\ rd' = [rd EXCEPT ![client[handlers[k]]] = 0]
    BY DisconnectFacts
  <1>. QED
    BY <1>1, <1>2, <1>3, <1>4

\* The descriptors of the handlers that follow in the list are as they were.
LEMMA DisconnectTail ==
  ASSUME IInv, NEW k \in 2 .. Len(handlers), Disconnect(handlers[k]),
         UNCHANGED <<fd, header, gone>>,
         NEW j \in k .. Len(handlers) - 1, Readable(fd[handlers[j + 1]])
  PROVE  Readable(fd[handlers[j]])'
  <1>. DEFINE g == handlers[j + 1]
  <1>1. k \in 2 .. Len(handlers) /\ Len(handlers) \in Nat /\ j + 1 \in 2 .. Len(handlers)
    <2>1. handlers \in Seq(Handlers)
      BY DEF IInv, TypeOK
    <2>. QED
      BY <2>1
  <1>2. handlers'[j] = g
    BY <1>1, DisconnectFacts
  <1>3. client[g] # client[handlers[k]]
    BY <1>1 DEF IInv, OneOfEach
  <1>4. /\ socket[client[g]] = fd[g] /\ client[g] \in Used
        /\ fd[g] \in Fds \ {Listen} /\ conn[fd[g]] \in Clients
    BY <1>1, HandlerFacts
  <1>5. client[handlers[k]] \in Used
    BY HandlerFacts
  <1>6. fd[g] # socket[client[handlers[k]]]
    BY <1>3, <1>4, <1>5 DEF IInv, OneOfEach
  <1>7. conn'[fd[g]] = conn[fd[g]]
    BY <1>4, <1>6, DisconnectFacts DEF IInv, TypeOK
  <1>. QED
    BY <1>2, <1>4, <1>7, ServerAssumption DEF Readable


-----------------------------------------------------------------------------
(* The clients *)

\* The parts of the invariant that depend on the list and the slots only.
LEMMA TablesKept ==
  ASSUME IInv, UNCHANGED <<handlers, fd, client, socket, n_clients>>
  PROVE  ListShape' /\ OneOfEach'
  <1>1. Used' = Used
    BY DEF Used
  <1>. QED
    BY <1>1 DEF IInv, ListShape, OneOfEach

\* The walk goes on as long as what could be read can still be read.
LEMMA WalkKept ==
  ASSUME IInv, UNCHANGED <<at, handlers, fd, next, ready, conn>>,
         \A f \in Fds : Readable(f) => Readable(f)',
         \A c \in Clients : header[c] = "whole" => header'[c] = "whole"
  PROVE  Walk'
  <1>1. /\ handlers \in Seq(Handlers) /\ fd \in [Handlers -> Fds] /\ ready \subseteq Fds
        /\ Len(handlers) \in Nat
    BY DEF IInv, TypeOK
  <1>2. ASSUME NEW h \in Handlers, at = <<"read", h>>
        PROVE  header'[conn[fd[h]]] = "whole"
    <2>1. PICK k \in 2 .. Len(handlers) : handlers[k] = h
      BY <1>2 DEF IInv, Walk
    <2>2. conn[fd[h]] \in Clients
      BY <2>1, HandlerFacts
    <2>. QED
      BY <1>2, <2>2 DEF IInv, Walk
  <1>3. ASSUME NEW j \in 1 .. Len(handlers), NEW k \in j .. Len(handlers),
               at # <<"select">>, handlers[j] = next, fd[handlers[k]] \in ready
        PROVE  Readable(fd[handlers[k]])'
    <2>1. k \in 1 .. Len(handlers)
      BY <1>1
    <2>2. Readable(fd[handlers[k]])
      BY <1>3 DEF IInv, Walk
    <2>3. Readable(fd[handlers[k]])'
      BY <1>1, <1>3, <2>2 DEF Readable
    <2>. QED
      BY <2>3
  <1>4. at = <<"walk">> /\ next = handlers[1] => \A f \in ready : Readable(f)'
    BY <1>1 DEF IInv, Walk
  <1>. QED
    BY <1>2, <1>3, <1>4 DEF IInv, Walk

LEMMA ConnectsInv ==
  ASSUME IInv, NEW c \in Clients, Connects(c)
  PROVE  IInv'
  <1>1. /\ UNCHANGED <<at, handlers, fd, client, next, ready, socket, n_clients, rd>>
        /\ UNCHANGED <<stored, conn, header, size, sent, unread, gone>>
        /\ backlog' = Append(backlog, c) /\ Len(backlog) < MaxClients
        /\ header[c] = "none" /\ c \notin Connected
    BY DEF Connects, list, slots, peers
  <1>2. backlog \in Seq(Clients) /\ conn \in [Fds -> Clients \union {NULL}]
    BY DEF IInv, TypeOK
  <1>3. /\ backlog' \in Seq(Clients) /\ Len(backlog') = Len(backlog) + 1
        /\ Len(backlog) \in Nat
        /\ \A i \in 1 .. Len(backlog) : backlog'[i] = backlog[i]
        /\ backlog'[Len(backlog) + 1] = c
    BY <1>1, <1>2
  <1>4. /\ \A f \in Fds : conn[f] # c
        /\ \A i \in 1 .. Len(backlog) : backlog[i] # c
    BY <1>1, <1>2 DEF Connected, ToSet
  <1>5. TypeOK'
    BY <1>1, <1>3, ServerAssumption DEF IInv, TypeOK
  <1>6. ListShape' /\ OneOfEach'
    BY <1>1, TablesKept
  <1>7. sent[c] = 0 /\ unread[c] = 0 /\ c \notin stored
    <2>1. sent[c] = 0 /\ unread[c] <= sent[c]
      BY <1>1 DEF IInv, Amounts
    <2>2. unread[c] \in Nat
      BY DEF IInv, TypeOK
    <2>. QED
      BY <1>1, <2>1, <2>2 DEF IInv, StoredWhole
  <1>8. Connections'
    <2>1. ASSUME NEW i \in 1 .. Len(backlog'), NEW j \in 1 .. Len(backlog'),
                 backlog'[i] = backlog'[j]
          PROVE  i = j
      BY <1>3, <1>4, <2>1 DEF IInv, Connections
    <2>2. \A f \in Fds : \A i \in 1 .. Len(backlog') : conn[f] # backlog'[i]
      BY <1>3, <1>4 DEF IInv, Connections
    <2>3. \A i \in 1 .. Len(backlog') : backlog'[i] \notin stored
      BY <1>3, <1>7 DEF IInv, Connections
    <2>. QED
      BY <1>1, <2>1, <2>2, <2>3 DEF IInv, Connections
  <1>9. Amounts'
    <2>1. \A i \in 1 .. Len(backlog') : unread[backlog'[i]] = sent[backlog'[i]]
      BY <1>3, <1>7 DEF IInv, Amounts
    <2>2. Used' = Used
      BY <1>1 DEF Used
    <2>. QED
      BY <1>1, <2>1, <2>2 DEF IInv, Amounts
  <1>10. StoredWhole'
    BY <1>1 DEF IInv, StoredWhole
  <1>11. Walk'
    <2>1. \A f \in Fds : Readable(f) => Readable(f)'
      BY <1>1, <1>3 DEF Readable
    <2>. QED
      BY <1>1, <2>1, WalkKept
  <1>. QED
    BY <1>5, <1>6, <1>8, <1>9, <1>10, <1>11 DEF IInv

\* A connected client has no list in the store.
LEMMA ConnectedNotStored ==
  ASSUME IInv, NEW c \in Connected
  PROVE  c \notin stored
  <1>1. backlog \in Seq(Clients)
    BY DEF IInv, TypeOK
  <1>2. (\E f \in Fds : conn[f] = c) \/ \E i \in 1 .. Len(backlog) : backlog[i] = c
    BY <1>1 DEF Connected, ToSet
  <1>. QED
    BY <1>2 DEF IInv, Connections

LEMMA SendsHeaderInv ==
  ASSUME IInv, NEW c \in Clients, SendsHeader(c)
  PROVE  IInv'
  <1>1. /\ UNCHANGED <<at, handlers, fd, client, next, ready, socket, n_clients, rd>>
        /\ UNCHANGED <<stored, conn, backlog, size, sent, unread, gone>>
        /\ header[c] # "whole" /\ c \in Connected
    BY DEF SendsHeader, list, slots
  <1>2. /\ header \in [Clients -> {"none", "part", "whole"}]
        /\ conn \in [Fds -> Clients \union {NULL}]
    BY DEF IInv, TypeOK
  <1>3. /\ header' \in [Clients -> {"none", "part", "whole"}]
        /\ header'[c] # "none"
        /\ \A d \in Clients : d # c => header'[d] = header[d]
    BY <1>2 DEF SendsHeader
  <1>4. TypeOK'
    BY <1>1, <1>3 DEF IInv, TypeOK
  <1>5. ListShape' /\ OneOfEach'
    BY <1>1, TablesKept
  <1>6. Connections'
    BY <1>1 DEF IInv, Connections
  <1>7. Used' = Used
    BY <1>1 DEF Used
  <1>8. Amounts'
    BY <1>1, <1>3, <1>7 DEF IInv, Amounts
  <1>9. StoredWhole'
    <2>1. \A d \in stored : d \in Clients /\ d # c
      BY <1>1, ConnectedNotStored DEF IInv, TypeOK
    <2>. QED
      BY <1>1, <1>3, <2>1 DEF IInv, StoredWhole
  <1>10. Walk'
    <2>1. \A f \in Fds : Readable(f) => Readable(f)'
      BY <1>1, <1>2, <1>3 DEF Readable
    <2>2. \A d \in Clients : header[d] = "whole" => header'[d] = "whole"
      BY <1>1, <1>3
    <2>. QED
      BY <1>1, <2>1, <2>2, WalkKept
  <1>. QED
    BY <1>4, <1>5, <1>6, <1>8, <1>9, <1>10 DEF IInv

LEMMA SendsPartInv ==
  ASSUME IInv, NEW c \in Clients, SendsPart(c)
  PROVE  IInv'
  <1>1. /\ UNCHANGED <<at, handlers, fd, client, next, ready, socket, n_clients, rd>>
        /\ UNCHANGED <<stored, conn, backlog, header, size, gone>>
        /\ header[c] = "whole" /\ c \in Connected /\ sent[c] < MaxData
    BY DEF SendsPart, list, slots
  <1>2. /\ sent \in [Clients -> 0 .. MaxData] /\ unread \in [Clients -> 0 .. MaxData]
        /\ sent' = [sent EXCEPT ![c] = @ + 1] /\ unread' = [unread EXCEPT ![c] = @ + 1]
        /\ unread[c] <= sent[c] /\ MaxData \in Nat
    BY ServerAssumption DEF IInv, TypeOK, SendsPart, Amounts
  <1>3. /\ sent' \in [Clients -> 0 .. MaxData] /\ unread' \in [Clients -> 0 .. MaxData]
        /\ sent'[c] = sent[c] + 1 /\ unread'[c] = unread[c] + 1
        /\ \A d \in Clients : d # c => sent'[d] = sent[d] /\ unread'[d] = unread[d]
    BY <1>1, <1>2
  <1>4. \A d \in Clients : /\ sent'[d] - unread'[d] = sent[d] - unread[d]
                           /\ unread[d] <= sent[d] => unread'[d] <= sent'[d]
                           /\ unread[d] = sent[d] => unread'[d] = sent'[d]
    BY <1>2, <1>3
  <1>5. TypeOK'
    BY <1>1, <1>3 DEF IInv, TypeOK
  <1>6. ListShape' /\ OneOfEach'
    BY <1>1, TablesKept
  <1>7. Connections'
    BY <1>1 DEF IInv, Connections
  <1>8. Used' = Used
    BY <1>1 DEF Used
  <1>9. Amounts'
    <2>1. \A i \in 1 .. Len(backlog) : backlog[i] \in Clients
      BY DEF IInv, TypeOK
    <2>2. \A s \in Used : conn[socket[s]] \in Clients
      <3>. SUFFICES ASSUME NEW s \in Used PROVE conn[socket[s]] \in Clients
        OBVIOUS
      <3>1. PICK k \in 2 .. Len(handlers) : client[handlers[k]] = s
        BY DEF IInv, OneOfEach
      <3>. QED
        BY <3>1, HandlerFacts
    <2>3. \A d \in Clients : header[d] = "none" => sent'[d] = 0
      BY <1>1, <1>3 DEF IInv, Amounts
    <2>. QED
      BY <1>1, <1>4, <1>8, <2>1, <2>2, <2>3 DEF IInv, Amounts
  <1>10. StoredWhole'
    <2>1. \A d \in stored : d \in Clients /\ d # c
      BY <1>1, ConnectedNotStored DEF IInv, TypeOK
    <2>. QED
      BY <1>1, <1>3, <2>1 DEF IInv, StoredWhole
  <1>11. Walk'
    <2>1. \A f \in Fds : Readable(f) => Readable(f)'
      BY <1>1 DEF Readable
    <2>. QED
      BY <1>1, <2>1, WalkKept
  <1>. QED
    BY <1>5, <1>6, <1>7, <1>9, <1>10, <1>11 DEF IInv

LEMMA GoesInv ==
  ASSUME IInv, NEW c \in Clients, Goes(c)
  PROVE  IInv'
  <1>1. /\ UNCHANGED <<at, handlers, fd, client, next, ready, socket, n_clients, rd>>
        /\ UNCHANGED <<stored, conn, backlog, header, size, sent, unread>>
        /\ gone' = gone \union {c}
    BY DEF Goes, list, slots, peers
  <1>2. TypeOK'
    BY <1>1 DEF IInv, TypeOK
  <1>3. ListShape' /\ OneOfEach'
    BY <1>1, TablesKept
  <1>4. Connections' /\ StoredWhole'
    BY <1>1 DEF IInv, Connections, StoredWhole
  <1>5. Used' = Used
    BY <1>1 DEF Used
  <1>6. Amounts'
    BY <1>1, <1>5 DEF IInv, Amounts
  <1>7. Walk'
    <2>1. \A f \in Fds : Readable(f) => Readable(f)'
      BY <1>1 DEF Readable
    <2>. QED
      BY <1>1, <2>1, WalkKept
  <1>. QED
    BY <1>2, <1>3, <1>4, <1>6, <1>7 DEF IInv


-----------------------------------------------------------------------------
(* The walk *)

LEMMA NextInList ==
  ASSUME IInv, next # NULL
  PROVE  \E k \in 1 .. Len(handlers) : handlers[k] = next
  BY DEF IInv, Walk

\* What follows a handler of the list, and that select's answer holds from there on.
LEMMA AfterIs ==
  ASSUME IInv, NEW k \in 1 .. Len(handlers)
  PROVE  LET n == After(handlers[k]) IN
         /\ n = IF k = Len(handlers) THEN NULL ELSE handlers[k + 1]
         /\ n \in Handlers \union {NULL} /\ n # handlers[1]
         /\ n # NULL => \E j \in 1 .. Len(handlers) : handlers[j] = n
         /\ at # <<"select">> /\ next = handlers[k] =>
              \A j \in 1 .. Len(handlers) : \A l \in j .. Len(handlers) :
                handlers[j] = n /\ fd[handlers[l]] \in ready => Readable(fd[handlers[l]])
  <1>. DEFINE n == After(handlers[k])
  <1>1. handlers \in Seq(Handlers) /\ NULL \notin Handlers
    BY ServerAssumption DEF IInv, TypeOK
  <1>2. n = IF k = Len(handlers) THEN NULL ELSE handlers[k + 1]
    BY <1>1, PlaceIs DEF After, IInv
  <1>. HIDE DEF n
  <1>3. CASE k = Len(handlers)
    <2>1. n = NULL /\ 1 \in 1 .. Len(handlers) /\ \A j \in 1 .. Len(handlers) : handlers[j] # NULL
      BY <1>1, <1>2, <1>3
    <2>. QED
      BY <1>2, <2>1 DEF n
  <1>4. CASE k # Len(handlers)
    <2>1. n = handlers[k + 1] /\ k + 1 \in 1 .. Len(handlers) /\ 1 \in 1 .. Len(handlers)
      BY <1>1, <1>2, <1>4
    <2>2. \A j \in 1 .. Len(handlers) : handlers[j] = n => j = k + 1
      BY <2>1 DEF IInv, ListShape
    <2>3. n # handlers[1] /\ n \in Handlers
      BY <1>1, <2>1, <2>2
    <2>4. ASSUME at # <<"select">>, next = handlers[k],
                 NEW j \in 1 .. Len(handlers), NEW l \in j .. Len(handlers),
                 handlers[j] = n, fd[handlers[l]] \in ready
          PROVE  Readable(fd[handlers[l]])
      <3>1. l \in k .. Len(handlers)
        BY <1>1, <2>1, <2>2, <2>4
      <3>. QED
        BY <2>4, <3>1 DEF IInv, Walk
    <2>. QED
      BY <1>2, <2>1, <2>3, <2>4 DEF n
  <1>. QED
    BY <1>3, <1>4

\* A step of the walk that leaves the rest as it is: Pass, ConnectionRefused.
LEMMA StepOverInv ==
  ASSUME IInv, at = <<"walk">>, next # NULL, next' = After(next),
         UNCHANGED <<at, list, ready, slots, stored, conn, backlog, peers, unread, gone>>
  PROVE  IInv'
  <1>1. /\ UNCHANGED <<at, handlers, fd, client, ready, socket, n_clients, rd>>
        /\ UNCHANGED <<stored, conn, backlog, header, size, sent, unread, gone>>
    BY DEF list, slots, peers
  <1>2. PICK k \in 1 .. Len(handlers) : handlers[k] = next
    BY NextInList
  <1>3. /\ next' \in Handlers \union {NULL} /\ next' # handlers[1]
        /\ next' # NULL => \E j \in 1 .. Len(handlers) : handlers[j] = next'
        /\ \A j \in 1 .. Len(handlers) : \A l \in j .. Len(handlers) :
             handlers[j] = next' /\ fd[handlers[l]] \in ready => Readable(fd[handlers[l]])
    BY <1>2, AfterIs
  <1>4. TypeOK'
    BY <1>1, <1>3 DEF IInv, TypeOK
  <1>5. ListShape' /\ OneOfEach'
    BY <1>1, TablesKept
  <1>6. Connections' /\ StoredWhole'
    BY <1>1 DEF IInv, Connections, StoredWhole
  <1>7. Used' = Used
    BY <1>1 DEF Used
  <1>8. Amounts'
    BY <1>1, <1>7 DEF IInv, Amounts
  <1>9. \A f : Readable(f)' <=> Readable(f)
    BY <1>1 DEF Readable
  <1>10. Walk'
    BY <1>1, <1>3, <1>9 DEF Walk
  <1>. QED
    BY <1>4, <1>5, <1>6, <1>8, <1>10 DEF IInv

LEMMA PassInv == ASSUME IInv, Pass PROVE IInv'
  BY StepOverInv DEF Pass

LEMMA ConnectionRefusedInv == ASSUME IInv, ConnectionRefused PROVE IInv'
  BY StepOverInv DEF ConnectionRefused

\* What changes only where the thread is, or what select has answered.
LEMMA TurnKeeps ==
  ASSUME IInv,
         UNCHANGED <<handlers, fd, client, socket, n_clients, rd, stored, conn, backlog>>,
         UNCHANGED <<header, size, sent, unread, gone>>
  PROVE  ListShape' /\ OneOfEach' /\ Connections' /\ Amounts' /\ StoredWhole'
  <1>1. ListShape' /\ OneOfEach'
    BY TablesKept
  <1>2. Connections' /\ StoredWhole'
    BY DEF IInv, Connections, StoredWhole
  <1>3. Used' = Used
    BY DEF Used
  <1>4. Amounts'
    BY <1>3 DEF IInv, Amounts
  <1>. QED
    BY <1>1, <1>2, <1>4

LEMMA WalkEndsInv == ASSUME IInv, WalkEnds PROVE IInv'
  <1>1. /\ UNCHANGED <<handlers, fd, client, socket, n_clients, rd, stored, conn, backlog>>
        /\ UNCHANGED <<header, size, sent, unread, gone, next, ready>>
        /\ at' = <<"select">> /\ next = NULL
    BY DEF WalkEnds, list, slots, peers
  <1>2. TypeOK'
    BY <1>1 DEF IInv, TypeOK
  <1>3. Walk'
    BY <1>1 DEF IInv, Walk
  <1>. QED
    BY <1>1, <1>2, <1>3, TurnKeeps DEF IInv

LEMMA SelectReturnsInv == ASSUME IInv, SelectReturns PROVE IInv'
  <1>1. /\ UNCHANGED <<handlers, fd, client, socket, n_clients, rd, stored, conn, backlog>>
        /\ UNCHANGED <<header, size, sent, unread, gone>>
        /\ at' = <<"walk">> /\ next' = handlers[1] /\ ready' = ReadyFds
    BY DEF SelectReturns, list, slots, peers
  <1>2. handlers \in Seq(Handlers) /\ fd \in [Handlers -> Fds]
    BY DEF IInv, TypeOK
  <1>3. ReadyFds \subseteq Fds /\ \A f \in ReadyFds : Readable(f)
    BY <1>2 DEF ReadyFds, Watched, ToSet
  <1>4. 1 \in 1 .. Len(handlers)
    BY <1>2, ServerAssumption DEF IInv, TypeOK, ListShape
  <1>5. TypeOK'
    BY <1>1, <1>2, <1>3, <1>4 DEF IInv, TypeOK
  <1>6. \A f : Readable(f)' <=> Readable(f)
    BY <1>1 DEF Readable
  <1>7. Walk'
    BY <1>1, <1>3, <1>4, <1>6 DEF Walk
  <1>. QED
    BY <1>1, <1>5, <1>7, TurnKeeps DEF IInv

\* The handler of a client that the walk stands on, or that the thread reads for.
LEMMA OfAClient ==
  ASSUME IInv, next # NULL, client[next] # 0
  PROVE  \E k \in 2 .. Len(handlers) : handlers[k] = next
  <1>1. PICK k \in 1 .. Len(handlers) : handlers[k] = next
    BY NextInList
  <1>2. k # 1
    BY <1>1 DEF IInv, ListShape
  <1>. QED
    BY <1>1, <1>2

LEMMA HandleClientInv == ASSUME IInv, HandleClient PROVE IInv'
  <1>1. /\ UNCHANGED <<handlers, fd, client, socket, n_clients, rd, stored, conn, backlog>>
        /\ UNCHANGED <<header, size, sent, unread, gone, ready>>
        /\ at = <<"walk">> /\ at' = <<"read", next>> /\ next' = After(next)
        /\ next # NULL /\ client[next] # 0 /\ header[conn[fd[next]]] = "whole"
    BY DEF HandleClient, NextOf, list, slots, peers
  <1>2. PICK k \in 2 .. Len(handlers) : handlers[k] = next
    BY <1>1, OfAClient
  <1>3. handlers \in Seq(Handlers) /\ k \in 1 .. Len(handlers)
    BY <1>2 DEF IInv, TypeOK
  <1>4. /\ next' \in Handlers \union {NULL}
        /\ next' = IF k = Len(handlers) THEN NULL ELSE handlers[k + 1]
        /\ next' # NULL => \E j \in 1 .. Len(handlers) : handlers[j] = next'
        /\ \A j \in 1 .. Len(handlers) : \A l \in j .. Len(handlers) :
             handlers[j] = next' /\ fd[handlers[l]] \in ready => Readable(fd[handlers[l]])
    BY <1>1, <1>2, <1>3, AfterIs
  <1>5. next \in Handlers
    BY <1>1 DEF IInv, TypeOK
  <1>6. TypeOK'
    BY <1>1, <1>4, <1>5 DEF IInv, TypeOK
  <1>7. \A f : Readable(f)' <=> Readable(f)
    BY <1>1 DEF Readable
  <1>8. Walk'
    <2>1. \A h \in Handlers : at' = <<"read", h>> =>
             /\ \E j \in 2 .. Len(handlers) :
                  handlers[j] = h /\ next' = IF j = Len(handlers) THEN NULL ELSE handlers[j + 1]
             /\ header[conn[fd[h]]] = "whole"
      BY <1>1, <1>2, <1>4
    <2>. QED
      BY <1>1, <1>4, <1>7, <2>1 DEF Walk
  <1>. QED
    BY <1>1, <1>6, <1>8, TurnKeeps DEF IInv


-----------------------------------------------------------------------------
(* A client that is accepted *)

LEMMA HandleConnectionInv == ASSUME IInv, HandleConnection PROVE IInv'
  <1>. DEFINE s == FreeSlot
              f == FreeFd
              c == Head(backlog)
              n == Len(handlers)
  <1>1. PICK h \in Handlers \ ToSet(handlers) :
             /\ handlers' = Append(handlers, h)
             /\ fd' = [fd EXCEPT ![h] = f]
             /\ client' = [client EXCEPT ![h] = s]
    BY DEF HandleConnection
  <1>2. /\ at = <<"walk">> /\ at' = at /\ next # NULL /\ client[next] = 0
        /\ fd[next] \in ready /\ ready' = ready /\ next' = After(next)
        /\ socket' = [socket EXCEPT ![s] = f] /\ n_clients' = n_clients + 1
        /\ conn' = [conn EXCEPT ![f] = c] /\ backlog' = Tail(backlog)
        /\ rd' = rd /\ stored' = stored /\ unread' = unread /\ gone' = gone
        /\ header' = header /\ size' = size /\ sent' = sent
        /\ ~Full
    BY DEF HandleConnection, peers
  <1>3. /\ handlers \in Seq(Handlers) /\ fd \in [Handlers -> Fds]
        /\ client \in [Handlers -> 0 .. MaxClients]
        /\ socket \in [Slots -> {None} \union (Fds \ {Listen})]
        /\ conn \in [Fds -> Clients \union {NULL}]
        /\ n_clients \in Nat /\ n_clients < MaxClients /\ n = n_clients + 1
        /\ backlog \in Seq(Clients) /\ Len(backlog) <= MaxClients
        /\ rd \in [Slots -> 0 .. MaxData]
    BY <1>2, ServerAssumption DEF IInv, TypeOK, Full, ListShape
  <1>4. s \in Slots /\ socket[s] = None /\ f \in Fds \ {Listen} /\ conn[f] = NULL
    BY <1>2, FreeSlotIs, FreeFdIs
  <1>. HIDE DEF s, f
  <1>5. next = handlers[1] /\ fd[next] = Listen /\ 1 \in 1 .. n /\ n \in Nat
    <2>1. PICK k \in 1 .. n : handlers[k] = next
      BY <1>2, NextInList
    <2>. QED
      BY <1>2, <1>3, <2>1 DEF IInv, ListShape
  <1>6. \A g \in ready : Readable(g)
    BY <1>2, <1>5 DEF IInv, Walk
  <1>7. backlog # <<>>
    <2>1. Listen \in Fds /\ Listen # None
      BY ServerAssumption DEF Fds, Listen, None
    <2>2. \A t \in Slots : socket[t] # Listen
      BY <1>3, <2>1
    <2>3. conn[Listen] = NULL
      BY <2>1, <2>2 DEF IInv, Connections
    <2>. QED
      BY <1>2, <1>5, <1>6, <2>3 DEF Readable
  <1>8. f \notin ready
    BY <1>4, <1>6 DEF Readable
  <1>9. /\ c \in Clients /\ c = backlog[1] /\ 1 \in 1 .. Len(backlog)
        /\ backlog' \in Seq(Clients) /\ Len(backlog') = Len(backlog) - 1
        /\ Len(backlog) \in Nat
        /\ \A i \in 1 .. Len(backlog) - 1 : backlog'[i] = backlog[i + 1]
    BY <1>2, <1>3, <1>7
  <1>. HIDE DEF c
  <1>10. /\ c # NULL /\ c \notin stored /\ \A g \in Fds : conn[g] # c
         /\ unread[c] = sent[c] /\ \A i \in 1 .. Len(backlog) - 1 : backlog'[i] # c
    <2>1. c # NULL
      BY <1>9, ServerAssumption
    <2>2. ASSUME NEW i \in 1 .. Len(backlog) - 1
          PROVE  backlog'[i] # c
      <3>1. i + 1 \in 1 .. Len(backlog) /\ i + 1 # 1 /\ backlog'[i] = backlog[i + 1]
        BY <1>9
      <3>. QED
        BY <1>9, <3>1 DEF IInv, Connections
    <2>. QED
      BY <1>9, <2>1, <2>2 DEF IInv, Connections, Amounts
  <1>11. /\ handlers' \in Seq(Handlers) /\ Len(handlers') = n + 1
         /\ \A k \in 1 .. n : handlers'[k] = handlers[k] /\ handlers[k] # h
                              /\ handlers[k] \in Handlers
         /\ handlers'[n + 1] = h /\ h \in Handlers
    <2>1. \A k \in 1 .. n : handlers[k] # h
      BY <1>1, <1>3 DEF ToSet
    <2>. QED
      BY <1>1, <1>3, <2>1
  <1>12. /\ \A k \in 1 .. n : /\ fd'[handlers'[k]] = fd[handlers[k]]
                              /\ client'[handlers'[k]] = client[handlers[k]]
         /\ fd'[handlers'[n + 1]] = f /\ client'[handlers'[n + 1]] = s
    BY <1>1, <1>3, <1>11
  <1>. HIDE DEF n
  <1>13. /\ s # 0 /\ s \in Slots /\ s \notin Used /\ Used' = Used \union {s}
         /\ f # None /\ socket'[s] = f /\ conn'[f] = c
         /\ \A t \in Slots : t # s => socket'[t] = socket[t]
         /\ \A g \in Fds : g # f => conn'[g] = conn[g]
         /\ \A t \in Slots : socket[t] # f
    <2>1. s # 0 /\ f # None
      BY <1>4, ServerAssumption DEF Slots, Fds, None
    <2>2. \A t \in Slots : socket[t] # f
      BY <1>4 DEF IInv, Connections
    <2>. QED
      BY <1>2, <1>3, <1>4, <2>1, <2>2 DEF Used
  <1>14. TypeOK'
    <2>1. /\ fd' \in [Handlers -> Fds] /\ client' \in [Handlers -> 0 .. MaxClients]
          /\ socket' \in [Slots -> {None} \union (Fds \ {Listen})]
          /\ conn' \in [Fds -> Clients \union {NULL}]
      <3>1. s \in 0 .. MaxClients
        BY <1>4, ServerAssumption DEF Slots
      <3>. QED
        BY <1>1, <1>2, <1>3, <1>4, <1>9, <3>1
    <2>2. n_clients' \in 0 .. MaxClients
      BY <1>2, <1>3, ServerAssumption
    <2>3. next' \in Handlers \union {NULL}
      BY <1>2, <1>5, AfterIs DEF n
    <2>4. Len(backlog') <= MaxClients
      BY <1>3, <1>9, ServerAssumption
    <2>. QED
      BY <1>2, <1>9, <1>11, <2>1, <2>2, <2>3, <2>4 DEF IInv, TypeOK
  <1>15. ListShape'
    <2>1. \A i, j \in 1 .. n + 1 : handlers'[i] = handlers'[j] => i = j
      BY <1>5, <1>11 DEF IInv, ListShape, n
    <2>2. \A k \in 1 .. n + 1 : client'[handlers'[k]] = 0 <=> k = 1
      BY <1>5, <1>12, <1>13 DEF IInv, ListShape, n
    <2>3. fd'[handlers'[1]] = Listen
      BY <1>5, <1>12
    <2>. QED
      BY <1>2, <1>3, <1>11, <2>1, <2>2, <2>3 DEF ListShape, n
  <1>16. OneOfEach'
    <2>1. n_clients' = Cardinality(Used')
      <3>1. Cardinality(Used \union {s}) = Cardinality(Used) + 1
        BY <1>13, SlotsCounted, FS_AddElement
      <3>2. n_clients = Cardinality(Used)
        BY DEF IInv, OneOfEach
      <3>. QED
        BY <1>2, <1>13, <3>1, <3>2
    <2>2. \A k \in 2 .. n : client[handlers[k]] \in Used /\ fd[handlers[k]] \in Fds
      BY HandlerFacts DEF n
    <2>3. ASSUME NEW k \in 2 .. n + 1
          PROVE  socket'[client'[handlers'[k]]] = fd'[handlers'[k]] /\ fd'[handlers'[k]] # Listen
      <3>1. CASE k = n + 1
        BY <1>4, <1>12, <1>13, <3>1
      <3>2. CASE k # n + 1
        <4>1. k \in 2 .. n /\ k \in 1 .. n
          BY <1>5, <3>2
        <4>2. client[handlers[k]] \in Slots /\ client[handlers[k]] # s
          BY <1>13, <2>2, <4>1 DEF Used
        <4>. QED
          BY <1>12, <1>13, <4>1, <4>2 DEF IInv, OneOfEach, n
      <3>. QED
        BY <3>1, <3>2
    <2>4. ASSUME NEW i \in 2 .. n + 1, NEW j \in 2 .. n + 1,
                 client'[handlers'[i]] = client'[handlers'[j]]
          PROVE  i = j
      <3>1. \A k \in 2 .. n + 1 : k # n + 1 => k \in 2 .. n /\ k \in 1 .. n
        BY <1>5
      <3>2. \A k \in 2 .. n + 1 : k # n + 1 => client'[handlers'[k]] # s
        BY <1>12, <1>13, <2>2, <3>1
      <3>. QED
        BY <1>12, <2>4, <3>1, <3>2 DEF IInv, OneOfEach, n
    <2>5. ASSUME NEW t \in Used'
          PROVE  \E k \in 2 .. n + 1 : client'[handlers'[k]] = t
      <3>1. CASE t = s
        BY <1>3, <1>5, <1>12, <3>1 DEF n
      <3>2. CASE t # s
        <4>1. PICK k \in 2 .. n : client[handlers[k]] = t
          BY <1>13, <3>2 DEF IInv, OneOfEach, n
        <4>2. k \in 1 .. n /\ k \in 2 .. n + 1
          BY <1>5
        <4>. QED
          BY <1>12, <4>1, <4>2
      <3>. QED
        BY <3>1, <3>2
    <2>6. \A t, u \in Used' : socket'[t] = socket'[u] => t = u
      BY <1>13 DEF IInv, OneOfEach, Used
    <2>. QED
      BY <1>11, <2>1, <2>3, <2>4, <2>5, <2>6 DEF OneOfEach
  <1>17. Connections'
    <2>1. ASSUME NEW g \in Fds
          PROVE  conn'[g] # NULL <=> \E t \in Slots : socket'[t] = g
      <3>1. CASE g = f
        BY <1>10, <1>13, <3>1
      <3>2. CASE g # f
        <4>1. g # None
          BY ServerAssumption DEF Fds, None
        <4>. QED
          BY <1>4, <1>13, <3>2, <4>1 DEF IInv, Connections
      <3>. QED
        BY <3>1, <3>2
    <2>2. \A g, e \in Fds : conn'[g] # NULL /\ conn'[g] = conn'[e] => g = e
      BY <1>10, <1>13 DEF IInv, Connections
    <2>3. ASSUME NEW i \in 1 .. Len(backlog'), NEW j \in 1 .. Len(backlog'),
                 backlog'[i] = backlog'[j]
          PROVE  i = j
      <3>1. /\ i \in 1 .. Len(backlog) - 1 /\ i + 1 \in 1 .. Len(backlog)
            /\ j \in 1 .. Len(backlog) - 1 /\ j + 1 \in 1 .. Len(backlog)
        BY <1>9
      <3>2. i + 1 = j + 1
        BY <1>9, <2>3, <3>1 DEF IInv, Connections
      <3>. QED
        BY <3>1, <3>2
    <2>4. ASSUME NEW i \in 1 .. Len(backlog')
          PROVE  backlog'[i] \notin stored /\ \A g \in Fds : conn'[g] # backlog'[i]
      <3>1. i \in 1 .. Len(backlog) - 1 /\ i + 1 \in 1 .. Len(backlog)
        BY <1>9
      <3>. QED
        BY <1>9, <1>10, <1>13, <3>1 DEF IInv, Connections
    <2>5. \A g \in Fds : conn'[g] \notin stored
      BY <1>10, <1>13 DEF IInv, Connections
    <2>. QED
      BY <1>2, <2>1, <2>2, <2>3, <2>4, <2>5 DEF Connections
  <1>18. Amounts'
    <2>1. ASSUME NEW t \in Used'
          PROVE  /\ sent[conn'[socket'[t]]] - unread[conn'[socket'[t]]] = rd[t]
                 /\ rd[t] <= size[conn'[socket'[t]]]
      <3>1. CASE t = s
        <4>1. rd[s] = 0
          BY <1>13 DEF IInv, Amounts
        <4>2. sent[c] \in Nat /\ unread[c] = sent[c] /\ size[c] \in Nat
          BY <1>9, <1>10, ServerAssumption DEF IInv, TypeOK
        <4>. QED
          BY <1>13, <3>1, <4>1, <4>2
      <3>2. CASE t # s
        <4>1. t \in Used /\ t \in Slots
          BY <1>13, <3>2 DEF Used
        <4>2. socket[t] \in Fds /\ socket[t] # f
          BY <1>3, <1>13, <4>1 DEF Used
        <4>3. conn'[socket'[t]] = conn[socket[t]]
          BY <1>13, <3>2, <4>1, <4>2
        <4>. QED
          BY <4>1, <4>3 DEF IInv, Amounts
      <3>. QED
        BY <3>1, <3>2
    <2>2. \A t \in Slots \ Used' : rd[t] = 0
      BY <1>13 DEF IInv, Amounts
    <2>3. \A i \in 1 .. Len(backlog) - 1 : unread[backlog'[i]] = sent[backlog'[i]]
      BY <1>9 DEF IInv, Amounts
    <2>. QED
      BY <1>2, <1>9, <2>1, <2>2, <2>3 DEF IInv, Amounts
  <1>19. StoredWhole'
    BY <1>2 DEF IInv, StoredWhole
  <1>20. Walk'
    <2>1. /\ next' # handlers[1] /\ handlers'[1] = handlers[1]
          /\ next' # NULL => \E j \in 1 .. n : handlers[j] = next'
          /\ \A j \in 1 .. n : \A l \in j .. n :
               handlers[j] = next' /\ fd[handlers[l]] \in ready => Readable(fd[handlers[l]])
      BY <1>2, <1>5, <1>11, AfterIs DEF n
    <2>2. next' # NULL => \E j \in 1 .. n + 1 : handlers'[j] = next'
      BY <1>5, <1>11, <2>1
    <2>3. next' # h
      <3>1. h # NULL
        BY ServerAssumption
      <3>. QED
        BY <1>11, <2>1, <3>1
    <2>4. ASSUME NEW j \in 1 .. n + 1, NEW l \in j .. n + 1,
                 handlers'[j] = next', fd'[handlers'[l]] \in ready
          PROVE  Readable(fd[handlers[l]])'
      <3>1. l # n + 1
        BY <1>8, <1>12, <2>4
      <3>2. j \in 1 .. n /\ l \in j .. n /\ l \in 2 .. n /\ l \in 1 .. n
        BY <1>5, <1>11, <2>1, <2>3, <2>4, <3>1
      <3>3. Readable(fd[handlers[l]])
        BY <1>11, <1>12, <2>1, <2>4, <3>2
      <3>4. /\ fd[handlers[l]] \in Fds \ {Listen} /\ conn[fd[handlers[l]]] \in Clients
        BY <3>2, HandlerFacts DEF n
      <3>5. conn'[fd[handlers[l]]] = conn[fd[handlers[l]]]
        BY <1>4, <1>13, <3>4, ServerAssumption
      <3>. QED
        BY <1>2, <1>12, <3>2, <3>3, <3>4, <3>5 DEF Readable
    <2>. QED
      BY <1>2, <1>11, <2>1, <2>2, <2>4 DEF Walk
  <1>. QED
    BY <1>14, <1>15, <1>16, <1>17, <1>18, <1>19, <1>20 DEF IInv


-----------------------------------------------------------------------------
(* A client that is disconnected, or read *)

\* ProtocolError, ReadFails and StoreList: the handler at k is freed, and the walk
\* goes on with the one that was after it.
LEMMA DisconnectedInv ==
  ASSUME IInv, NEW k \in 2 .. Len(handlers), Disconnect(handlers[k]),
         at # <<"select">>, at' = <<"walk">>,
         next' = IF k = Len(handlers) THEN NULL ELSE handlers[k + 1],
         \A l \in k + 1 .. Len(handlers) :
           fd[handlers[l]] \in ready => Readable(fd[handlers[l]]),
         UNCHANGED <<fd, client, ready, backlog, header, size, sent, unread, gone>>,
         stored' \subseteq stored \union {conn[socket[client[handlers[k]]]]},
         StoredWhole'
  PROVE  IInv'
  <1>. DEFINE n == Len(handlers)
  <1>1. /\ handlers \in Seq(Handlers) /\ n \in Nat /\ k \in 2 .. n /\ NULL \notin Handlers
        /\ stored \subseteq Clients /\ ready \subseteq Fds
    BY ServerAssumption DEF IInv, TypeOK
  <1>2. /\ handlers' \in Seq(Handlers) /\ Len(handlers') = n - 1
        /\ \A j \in 1 .. n - 1 : handlers'[j] = IF j < k THEN handlers[j] ELSE handlers[j + 1]
    BY DisconnectFacts
  <1>3. ListShape' /\ OneOfEach' /\ Connections' /\ Amounts'
    BY DisconnectKeeps
  <1>4. /\ next' \in Handlers \union {NULL}
        /\ next' # NULL => k + 1 \in 1 .. n /\ next' = handlers[k + 1]
    BY <1>1
  <1>5. TypeOK'
    <2>1. stored' \subseteq Clients
      BY <1>1, HandlerFacts
    <2>. QED
      BY <1>4, <2>1, DisconnectTypes DEF IInv, TypeOK
  <1>6. Walk'
    <2>1. next' # NULL => k \in 1 .. n - 1 /\ handlers'[k] = next'
      BY <1>1, <1>2, <1>4
    <2>2. next' # handlers'[1]
      <3>1. handlers'[1] = handlers[1] /\ 1 \in 1 .. n /\ handlers[1] \in Handlers
        <4>1. 1 \in 1 .. n - 1 \/ n = 1
          BY <1>1
        <4>2. Len(handlers') = n_clients' + 1 /\ n_clients' \in Nat
          BY <1>3, <1>5, ServerAssumption DEF ListShape, TypeOK
        <4>. QED
          BY <1>1, <1>2, <4>1, <4>2
      <3>2. next' = NULL \/ next' = handlers[k + 1]
        OBVIOUS
      <3>3. next' # NULL => handlers[k + 1] # handlers[1]
        BY <1>1, <1>4, <3>1 DEF IInv, ListShape
      <3>. QED
        BY <1>1, <1>4, <3>1, <3>3
    <2>3. ASSUME NEW j \in 1 .. n - 1, NEW l \in j .. n - 1,
                 handlers'[j] = next', fd[handlers'[l]] \in ready
          PROVE  Readable(fd[handlers[l]])'
      <3>1. next' # NULL
        BY <1>1, <1>2, <2>3
      <3>2. j = k
        BY <1>2, <1>3, <2>1, <2>3, <3>1 DEF ListShape
      <3>3. l \in k .. n - 1 /\ l + 1 \in k + 1 .. n /\ l \in 1 .. n - 1 /\ ~(l < k)
        BY <1>1, <2>3, <3>2
      <3>4. handlers'[l] = handlers[l + 1]
        BY <1>2, <3>3
      <3>5. Readable(fd[handlers[l + 1]])
        BY <2>3, <3>3, <3>4
      <3>. QED
        BY <3>3, <3>5, DisconnectTail
    <2>4. next' # NULL => \E j \in 1 .. Len(handlers') : handlers'[j] = next'
      BY <1>2, <2>1
    <2>. QED
      BY <1>2, <2>2, <2>3, <2>4 DEF Walk
  <1>. QED
    BY <1>3, <1>5, <1>6 DEF IInv

LEMMA ProtocolErrorInv == ASSUME IInv, ProtocolError PROVE IInv'
  <1>1. /\ at = <<"walk">> /\ at' = at /\ next # NULL /\ client[next] # 0
        /\ next' = After(next) /\ Disconnect(next)
        /\ UNCHANGED <<fd, client, ready, stored, backlog, header, size, sent, unread, gone>>
    BY DEF ProtocolError, NextOf, peers
  <1>2. PICK k \in 2 .. Len(handlers) : handlers[k] = next
    BY <1>1, OfAClient
  <1>3. handlers \in Seq(Handlers) /\ k \in 1 .. Len(handlers)
    BY <1>2 DEF IInv, TypeOK
  <1>4. next' = IF k = Len(handlers) THEN NULL ELSE handlers[k + 1]
    BY <1>1, <1>2, <1>3, AfterIs
  <1>5. \A l \in k + 1 .. Len(handlers) :
          fd[handlers[l]] \in ready => Readable(fd[handlers[l]])
    <2>. SUFFICES ASSUME NEW l \in k + 1 .. Len(handlers), fd[handlers[l]] \in ready
                  PROVE  Readable(fd[handlers[l]])
      OBVIOUS
    <2>1. l \in k .. Len(handlers)
      BY <1>3
    <2>. QED
      BY <1>1, <1>2, <1>3, <2>1 DEF IInv, Walk
  <1>6. StoredWhole'
    BY <1>1 DEF IInv, StoredWhole
  <1>. QED
    BY <1>1, <1>2, <1>4, <1>5, <1>6, DisconnectedInv

\* The handler the thread reads for.
LEMMA ReadFacts ==
  ASSUME IInv, at[1] = "read"
  PROVE  \E k \in 2 .. Len(handlers) :
           /\ handlers[k] = at[2] /\ at[2] \in Handlers /\ at = <<"read", at[2]>>
           /\ next = IF k = Len(handlers) THEN NULL ELSE handlers[k + 1]
           /\ \A l \in k + 1 .. Len(handlers) :
                fd[handlers[l]] \in ready => Readable(fd[handlers[l]])
           /\ client[at[2]] \in Used /\ Peer(at[2]) \in Clients
           /\ header[Peer(at[2])] = "whole" /\ Peer(at[2]) \notin stored
  <1>1. PICK h \in Handlers : at = <<"read", h>>
    BY DEF IInv, TypeOK
  <1>2. at[2] = h /\ at # <<"select">>
    BY <1>1
  <1>3. PICK k \in 2 .. Len(handlers) :
          handlers[k] = h /\ next = IF k = Len(handlers) THEN NULL ELSE handlers[k + 1]
    BY <1>1 DEF IInv, Walk
  <1>4. handlers \in Seq(Handlers)
    BY DEF IInv, TypeOK
  <1>5. ASSUME NEW l \in k + 1 .. Len(handlers), fd[handlers[l]] \in ready
        PROVE  Readable(fd[handlers[l]])
    <2>1. k + 1 \in 1 .. Len(handlers) /\ k # Len(handlers)
      BY <1>4
    <2>2. handlers[k + 1] = next
      BY <1>3, <2>1
    <2>. QED
      BY <1>2, <1>5, <2>1, <2>2 DEF IInv, Walk
  <1>6. /\ client[h] \in Used /\ socket[client[h]] = fd[h]
        /\ conn[fd[h]] \in Clients /\ fd[h] \in Fds
    BY <1>3, HandlerFacts
  <1>7. header[conn[fd[h]]] = "whole"
    BY <1>1 DEF IInv, Walk
  <1>8. conn[fd[h]] \notin stored
    BY <1>6 DEF IInv, Connections
  <1>. QED
    BY <1>1, <1>2, <1>3, <1>5, <1>6, <1>7, <1>8 DEF Peer

LEMMA ReadFailsInv == ASSUME IInv, ReadFails PROVE IInv'
  <1>1. /\ at[1] = "read" /\ at' = <<"walk">> /\ Disconnect(at[2])
        /\ UNCHANGED <<fd, client, next, ready, stored, backlog, header, size, sent>>
        /\ UNCHANGED <<unread, gone>>
    BY DEF ReadFails, peers
  <1>2. PICK k \in 2 .. Len(handlers) :
           /\ handlers[k] = at[2] /\ at = <<"read", at[2]>>
           /\ next = IF k = Len(handlers) THEN NULL ELSE handlers[k + 1]
           /\ \A l \in k + 1 .. Len(handlers) :
                fd[handlers[l]] \in ready => Readable(fd[handlers[l]])
    BY <1>1, ReadFacts
  <1>3. at # <<"select">>
    BY <1>2
  <1>4. StoredWhole'
    BY <1>1 DEF IInv, StoredWhole
  <1>. QED
    BY <1>1, <1>2, <1>3, <1>4, DisconnectedInv

LEMMA StoreListInv == ASSUME IInv, StoreList PROVE IInv'
  <1>. DEFINE c == Peer(at[2])
  <1>1. /\ at[1] = "read" /\ at' = <<"walk">> /\ Disconnect(at[2])
        /\ Missing(at[2]) = 0 /\ stored' = stored \union {c}
        /\ UNCHANGED <<fd, client, next, ready, backlog, header, size, sent>>
        /\ UNCHANGED <<unread, gone>>
    BY DEF StoreList, Complete, peers
  <1>2. PICK k \in 2 .. Len(handlers) :
           /\ handlers[k] = at[2] /\ at = <<"read", at[2]>>
           /\ next = IF k = Len(handlers) THEN NULL ELSE handlers[k + 1]
           /\ \A l \in k + 1 .. Len(handlers) :
                fd[handlers[l]] \in ready => Readable(fd[handlers[l]])
           /\ client[at[2]] \in Used /\ c \in Clients /\ header[c] = "whole"
    BY <1>1, ReadFacts
  <1>3. at # <<"select">>
    BY <1>2
  <1>4. sent[c] - unread[c] = size[c]
    <2>1. sent[c] - unread[c] = rd[client[at[2]]]
      BY <1>2 DEF IInv, Amounts, Peer
    <2>2. rd[client[at[2]]] \in Nat /\ size[c] \in Nat
      BY <1>2, ServerAssumption DEF IInv, TypeOK, Used
    <2>. QED
      BY <1>1, <2>1, <2>2 DEF Missing
  <1>5. StoredWhole'
    BY <1>1, <1>2, <1>4 DEF IInv, StoredWhole
  <1>6. c = conn[socket[client[handlers[k]]]]
    BY <1>2 DEF Peer
  <1>. QED
    BY <1>1, <1>2, <1>3, <1>5, <1>6, DisconnectedInv

LEMMA ReadDataInv == ASSUME IInv, ReadData PROVE IInv'
  <1>. DEFINE h == at[2]
              c == Peer(h)
              s == client[h]
              n == IF unread[c] < Missing(h) THEN unread[c] ELSE Missing(h)
  <1>1. /\ UNCHANGED <<at, handlers, fd, client, next, ready, socket, n_clients>>
        /\ UNCHANGED <<stored, conn, backlog, header, size, sent, gone>>
        /\ at[1] = "read" /\ n > 0
        /\ rd' = [rd EXCEPT ![s] = @ + n]
        /\ unread' = [unread EXCEPT ![c] = @ - n]
    BY DEF ReadData, list, peers
  <1>2. s \in Used /\ c \in Clients /\ c \notin stored /\ c = conn[socket[s]]
    BY <1>1, ReadFacts DEF Peer
  <1>3. /\ rd \in [Slots -> 0 .. MaxData] /\ unread \in [Clients -> 0 .. MaxData]
        /\ sent \in [Clients -> 0 .. MaxData] /\ size \in [Clients -> 0 .. MaxData]
        /\ socket \in [Slots -> {None} \union (Fds \ {Listen})]
        /\ conn \in [Fds -> Clients \union {NULL}] /\ backlog \in Seq(Clients)
        /\ MaxData \in Nat
    BY ServerAssumption DEF IInv, TypeOK
  <1>4. /\ sent[c] - unread[c] = rd[s] /\ rd[s] <= size[c] /\ unread[c] <= sent[c]
        /\ s \in Slots
    BY <1>2 DEF IInv, Amounts, Used
  <1>5. Missing(h) = size[c] - rd[s]
    BY DEF Missing
  <1>6. /\ rd[s] \in Nat /\ unread[c] \in Nat /\ size[c] \in 0 .. MaxData /\ sent[c] \in Nat
        /\ unread[c] \in 0 .. MaxData
    BY <1>2, <1>3, <1>4
  <1>. HIDE DEF s, c, h
  <1>7. /\ n \in Nat /\ n <= unread[c] /\ rd[s] + n <= size[c]
    BY <1>4, <1>5, <1>6
  <1>. HIDE DEF n
  <1>8. /\ rd[s] + n \in 0 .. MaxData /\ unread[c] - n \in 0 .. MaxData
        /\ sent[c] - (unread[c] - n) = rd[s] + n /\ unread[c] - n <= sent[c]
    <2>1. rd[s] + n \in 0 .. MaxData
      BY <1>3, <1>6, <1>7
    <2>2. unread[c] - n \in 0 .. MaxData
      BY <1>3, <1>6, <1>7
    <2>3. sent[c] - (unread[c] - n) = rd[s] + n
      BY <1>4, <1>6, <1>7
    <2>4. unread[c] - n <= sent[c]
      BY <1>4, <1>6, <1>7
    <2>. QED
      BY <2>1, <2>2, <2>3, <2>4
  <1>9. /\ rd' \in [Slots -> 0 .. MaxData] /\ unread' \in [Clients -> 0 .. MaxData]
        /\ rd'[s] = rd[s] + n /\ unread'[c] = unread[c] - n
        /\ \A t \in Slots : t # s => rd'[t] = rd[t]
        /\ \A d \in Clients : d # c => unread'[d] = unread[d]
    BY <1>1, <1>2, <1>3, <1>4, <1>8
  <1>10. TypeOK'
    BY <1>1, <1>9 DEF IInv, TypeOK
  <1>11. ListShape' /\ OneOfEach'
    BY <1>1, TablesKept
  <1>12. Connections'
    BY <1>1 DEF IInv, Connections
  <1>13. Used' = Used
    BY <1>1 DEF Used
  <1>14. Amounts'
    <2>1. ASSUME NEW t \in Used
          PROVE  /\ sent[conn[socket[t]]] - unread'[conn[socket[t]]] = rd'[t]
                 /\ rd'[t] <= size[conn[socket[t]]]
      <3>1. CASE t = s
        BY <1>2, <1>7, <1>8, <1>9, <3>1
      <3>2. CASE t # s
        <4>1. /\ t \in Slots /\ socket[t] \in Fds /\ socket[s] \in Fds
              /\ socket[t] # socket[s]
          BY <1>2, <1>3, <3>2 DEF IInv, OneOfEach, Used
        <4>2. conn[socket[t]] # NULL
          BY <4>1 DEF IInv, Connections
        <4>3. conn[socket[t]] # c /\ conn[socket[t]] \in Clients
          BY <1>2, <1>3, <4>1, <4>2 DEF IInv, Connections
        <4>. QED
          BY <1>9, <3>2, <4>1, <4>3 DEF IInv, Amounts
      <3>. QED
        BY <3>1, <3>2
    <2>2. \A t \in Slots \ Used : rd'[t] = 0
      BY <1>2, <1>9 DEF IInv, Amounts
    <2>3. \A i \in 1 .. Len(backlog) : unread'[backlog[i]] = sent[backlog[i]]
      <3>. SUFFICES ASSUME NEW i \in 1 .. Len(backlog)
                    PROVE  unread'[backlog[i]] = sent[backlog[i]]
        OBVIOUS
      <3>1. socket[s] \in Fds
        BY <1>2, <1>3, <1>4 DEF Used
      <3>2. backlog[i] # c /\ backlog[i] \in Clients
        BY <1>2, <1>3, <3>1 DEF IInv, Connections
      <3>. QED
        BY <1>9, <3>2 DEF IInv, Amounts
    <2>4. \A d \in Clients : unread'[d] <= sent[d]
      BY <1>8, <1>9 DEF IInv, Amounts
    <2>. QED
      BY <1>1, <1>13, <2>1, <2>2, <2>3, <2>4 DEF IInv, Amounts
  <1>15. StoredWhole'
    <2>1. \A d \in stored : d \in Clients /\ d # c
      BY <1>2 DEF IInv, TypeOK
    <2>. QED
      BY <1>1, <1>9, <2>1 DEF IInv, StoredWhole
  <1>16. Walk'
    <2>1. \A f \in Fds : Readable(f) => Readable(f)'
      BY <1>1 DEF Readable
    <2>. QED
      BY <1>1, <2>1, WalkKept
  <1>. QED
    BY <1>10, <1>11, <1>12, <1>14, <1>15, <1>16 DEF IInv


-----------------------------------------------------------------------------
(* The theorems *)

LEMMA InvInit == Init => IInv
  <1>. SUFFICES ASSUME Init PROVE IInv
    OBVIOUS
  <1>1. PICK h \in Handlers : handlers = <<h>>
    BY DEF Init
  <1>2. /\ handlers \in Seq(Handlers) /\ Len(handlers) = 1 /\ handlers[1] = h
        /\ 0 \in Fds /\ 0 \in 0 .. MaxClients /\ 0 \in 0 .. MaxData
        /\ Len(backlog) = 0 /\ backlog \in Seq(Clients)
    BY <1>1, ServerAssumption DEF Init, Fds
  <1>3. TypeOK
    <2>1. 0 <= MaxClients /\ \A f \in {Listen} : f \in Fds
      BY <1>2, ServerAssumption DEF Listen
    <2>. QED
      BY <1>2, <2>1 DEF Init, TypeOK
  <1>4. Used = {} /\ Cardinality(Used) = 0
    BY FS_EmptySet DEF Init, Used
  <1>5. ListShape
    BY <1>2 DEF Init, ListShape
  <1>6. OneOfEach
    BY <1>2, <1>4 DEF Init, OneOfEach
  <1>7. Connections
    <2>1. \A f \in Fds : f # None
      BY ServerAssumption DEF Fds, None
    <2>. QED
      BY <1>2, <2>1 DEF Init, Connections
  <1>8. Amounts
    BY <1>2, <1>4 DEF Init, Amounts
  <1>9. StoredWhole
    BY DEF Init, StoredWhole
  <1>10. Walk
    BY DEF Init, Walk
  <1>. QED
    BY <1>3, <1>5, <1>6, <1>7, <1>8, <1>9, <1>10 DEF IInv

LEMMA InvStutter == ASSUME IInv, UNCHANGED vars PROVE IInv'
  <1>1. /\ UNCHANGED <<at, handlers, fd, client, next, ready, socket, n_clients, rd>>
        /\ UNCHANGED <<stored, conn, backlog, header, size, sent, unread, gone>>
    BY DEF vars
  <1>2. TypeOK'
    BY <1>1 DEF IInv, TypeOK
  <1>3. Walk'
    BY <1>1, WalkKept DEF Readable
  <1>. QED
    BY <1>1, <1>2, <1>3, TurnKeeps DEF IInv

LEMMA InvStep == IInv /\ [Next]_vars => IInv'
  <1>. SUFFICES ASSUME IInv, [Next]_vars PROVE IInv'
    OBVIOUS
  <1>1. ASSUME NEW c \in Clients, Connects(c) \/ SendsHeader(c) \/ SendsPart(c) \/ Goes(c)
        PROVE  IInv'
    BY <1>1, ConnectsInv, SendsHeaderInv, SendsPartInv, GoesInv
  <1>2. CASE SelectReturns \/ WalkEnds \/ Pass
    BY <1>2, SelectReturnsInv, WalkEndsInv, PassInv
  <1>3. CASE HandleConnection \/ ConnectionRefused
    BY <1>3, HandleConnectionInv, ConnectionRefusedInv
  <1>4. CASE ProtocolError \/ HandleClient
    BY <1>4, ProtocolErrorInv, HandleClientInv
  <1>5. CASE ReadData \/ ReadFails \/ StoreList
    BY <1>5, ReadDataInv, ReadFailsInv, StoreListInv
  <1>6. CASE SelectTimesOut \/ KeepsHeld \/ UNCHANGED vars
    BY <1>6, InvStutter DEF SelectTimesOut, KeepsHeld
  <1>. QED
    BY <1>1, <1>2, <1>3, <1>4, <1>5, <1>6 DEF Next

LEMMA InvAlways == Spec => []IInv
  BY InvInit, InvStep, PTL DEF Spec

\* In every reachable state the walk stands on a handler that is in the list, and a
\* callback runs for one that is registered (poll.c:94-104, disconnect.c:16-17).
THEOREM WalkIsLive == Spec => []WalkLive
  <1>1. IInv => WalkLive
    <2>. SUFFICES ASSUME IInv PROVE WalkLive
      OBVIOUS
    <2>1. handlers \in Seq(Handlers)
      BY DEF IInv, TypeOK
    <2>2. \A k \in 1 .. Len(handlers) : handlers[k] \in ToSet(handlers)
      BY <2>1 DEF ToSet
    <2>3. next \in ToSet(handlers) \union {NULL}
      BY <2>2, NextInList
    <2>4. at[1] = "read" => at[2] \in ToSet(handlers)
      <3>. SUFFICES ASSUME at[1] = "read" PROVE at[2] \in ToSet(handlers)
        OBVIOUS
      <3>1. PICK k \in 2 .. Len(handlers) : handlers[k] = at[2]
        BY ReadFacts
      <3>2. k \in 1 .. Len(handlers)
        BY <2>1
      <3>. QED
        BY <2>2, <3>1, <3>2
    <2>. QED
      BY <2>3, <2>4 DEF WalkLive
  <1>. QED
    BY <1>1, InvAlways, PTL

\* The count of the clients, the slots, the handlers and the descriptors agree, for
\* any number of slots (handle.c:33, disconnect.c:11-17).
THEOREM TablesAgree == Spec => []WellFormed
  <1>1. IInv => WellFormed
    <2>. SUFFICES ASSUME IInv PROVE SlotsAgree
      BY DEF IInv, WellFormed
    <2>. DEFINE mine == {h \in ToSet(handlers) : client[h] # 0}
    <2>1. handlers \in Seq(Handlers)
      BY DEF IInv, TypeOK
    <2>2. {conn[socket[s]] : s \in Used} = {conn[f] : f \in Fds} \ {NULL}
      <3>1. ASSUME NEW s \in Used
            PROVE  socket[s] \in Fds /\ conn[socket[s]] # NULL
        <4>1. s \in Slots /\ socket[s] \in Fds
          BY DEF IInv, TypeOK, Used
        <4>. QED
          BY <4>1 DEF IInv, Connections
      <3>2. ASSUME NEW f \in Fds, conn[f] # NULL
            PROVE  \E s \in Used : socket[s] = f
        <4>1. f # None
          BY ServerAssumption DEF Fds, None
        <4>. QED
          BY <3>2, <4>1 DEF IInv, Connections, Used
      <3>. QED
        BY <3>1, <3>2
    <2>3. mine = {handlers[k] : k \in 2 .. Len(handlers)}
      <3>1. ASSUME NEW h \in mine
            PROVE  \E k \in 2 .. Len(handlers) : handlers[k] = h
        <4>1. PICK k \in 1 .. Len(handlers) : handlers[k] = h
          BY <2>1 DEF ToSet
        <4>2. k # 1
          BY <4>1 DEF IInv, ListShape
        <4>. QED
          BY <4>1, <4>2
      <3>2. ASSUME NEW k \in 2 .. Len(handlers)
            PROVE  handlers[k] \in mine
        <4>1. k \in 1 .. Len(handlers)
          BY <2>1
        <4>. QED
          BY <2>1, <4>1 DEF ToSet, IInv, ListShape
      <3>. QED
        BY <3>1, <3>2
    <2>4. {<<client[h], fd[h]>> : h \in mine} = {<<s, socket[s]>> : s \in Used}
      <3>1. ASSUME NEW h \in mine
            PROVE  client[h] \in Used /\ fd[h] = socket[client[h]]
        BY <2>3, HandlerFacts
      <3>2. ASSUME NEW s \in Used
            PROVE  \E h \in mine : client[h] = s /\ fd[h] = socket[s]
        <4>1. PICK k \in 2 .. Len(handlers) : client[handlers[k]] = s
          BY DEF IInv, OneOfEach
        <4>2. handlers[k] \in mine
          BY <2>3
        <4>. QED
          BY <3>1, <4>1, <4>2
      <3>. HIDE DEF mine
      <3>. QED
        BY <3>1, <3>2
    <2>. QED
      BY <2>2, <2>4 DEF SlotsAgree, IInv, OneOfEach, ListShape, Used
  <1>. QED
    BY <1>1, InvAlways, PTL

\* The handlers still to visit find their descriptor as select saw it, although
\* numbers of descriptors are used again within a walk (poll.c:97).
THEOREM SelectStaysTrue == Spec => []ReadyIsFresh
  <1>1. IInv => ReadyIsFresh
    <2>. SUFFICES ASSUME IInv, at # <<"select">>, next # NULL,
                         NEW k \in Place(next) .. Len(handlers), fd[handlers[k]] \in ready
                  PROVE  Readable(fd[handlers[k]])
      BY DEF ReadyIsFresh
    <2>1. PICK j \in 1 .. Len(handlers) : handlers[j] = next
      BY NextInList
    <2>2. Place(next) = j
      BY <2>1, PlaceIs DEF IInv, TypeOK
    <2>. QED
      BY <2>1, <2>2 DEF IInv, Walk
  <1>. QED
    BY <1>1, InvAlways, PTL

\* What is in the store is the whole list its client announced, and nothing that
\* follows it (handle.c:52-69).
THEOREM WholeListsOnly == Spec => []StoredWhole
  <1>1. IInv => StoredWhole
    BY DEF IInv
  <1>. QED
    BY <1>1, InvAlways, PTL


=============================================================================
