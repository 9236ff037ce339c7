------------------------------- MODULE Server -------------------------------
(***************************************************************************)
(* The local server of the agent (src/server) on the loop over its         *)
(* descriptors (src/io_handler/poll.c, list.c): clients connect to a Unix  *)
(* socket, send one list of metrics and are disconnected.                  *)
(*                                                                         *)
(* The loop walks the list of handlers with the descriptors select found   *)
(* ready, while the callbacks accept, close, register and free.  A         *)
(* descriptor number is the lowest one free, and the memory of a handler   *)
(* may be given again as soon as it is freed.  The reads of a client block *)
(* the only thread of the agent.                                           *)
(*                                                                         *)
(* A list is a header, which announces a size, then that many parts; a     *)
(* client may send less, or more, and go at any time.                      *)
(***************************************************************************)
EXTENDS Integers, SequencesExt

CONSTANTS
  Clients,      \* the programs that connect to the socket, once each
  MaxClients,   \* MONIKOR_SRV_MAX_CLIENTS
  MaxData,      \* bound on the size a client announces, and on what it sends
  Handlers,     \* memory for monikor_io_handler_t
  NULL

Slots  == 1 .. MaxClients
Listen == 0                          \* server->socket
Fds    == 0 .. MaxClients            \* the descriptors of the server and its clients
None   == -1                         \* MONIKOR_CLIENT_INACTIVE_SOCKET

ASSUME ServerAssumption ==
  /\ MaxClients \in Nat \ {0}
  /\ MaxData \in Nat
  /\ NULL \notin Clients \union Handlers
  /\ IsFiniteSet(Handlers) /\ Cardinality(Handlers) = MaxClients + 1

VARIABLES
  at,         \* where the thread is: select, the walk or a read of a slot's socket
  handlers,   \* mon->io_handlers: the list, in its order
  fd,         \* fd[h]: handler->fd
  client,     \* client[h]: the slot of srv_handler->client, 0 for the server's own
  next,       \* next, in monikor_io_handler_poll
  ready,      \* rdfds after select
  socket,     \* socket[s]: clients[s].socket
  n_clients,  \* server->n_clients
  rd,         \* rd[s]: what is read of the list of slot s
  stored,     \* the clients whose list is in the store
  conn,       \* conn[f]: the client at the other end of f, or NULL
  backlog,    \* the clients that connect and are not accepted yet
  header,     \* header[c]: the header c has sent: "none", "part" or "whole"
  size,       \* size[c]: what its header announces
  sent,       \* sent[c]: the parts it has sent after the header
  unread,     \* unread[c]: those that are not read
  gone        \* the clients that have closed their end

list   == <<handlers, fd, client>>
slots  == <<socket, n_clients, rd>>
peers  == <<header, size, sent>>
vars   == <<at, handlers, fd, client, next, ready, socket, n_clients, rd, stored,
            conn, backlog, header, size, sent, unread, gone>>

Connected == {c \in Clients : \E f \in Fds : conn[f] = c} \union ToSet(backlog)

\* monikor_server_init, and nothing connected
Init ==
  /\ at = <<"select">>
  /\ \E h \in Handlers : handlers = <<h>>
  /\ fd = [h \in Handlers |-> Listen]
  /\ client = [h \in Handlers |-> 0]
  /\ next = NULL
  /\ ready = {}
  /\ socket = [s \in Slots |-> None]
  /\ n_clients = 0
  /\ rd = [s \in Slots |-> 0]
  /\ stored = {}
  /\ conn = [f \in Fds |-> NULL]
  /\ backlog = <<>>
  /\ header = [c \in Clients |-> "none"]
  /\ size \in [Clients -> 0 .. MaxData]
  /\ sent = [c \in Clients |-> 0]
  /\ unread = [c \in Clients |-> 0]
  /\ gone = {}

-----------------------------------------------------------------------------
(* The clients *)

\* connect, as long as the backlog of the socket has room
Connects(c) ==
  /\ header[c] = "none"
  /\ c \notin Connected \union gone
  /\ Len(backlog) < MaxClients
  /\ backlog' = Append(backlog, c)
  /\ UNCHANGED <<at, list, next, ready, slots, stored, conn, peers, unread, gone>>

SendsHeader(c) ==
  /\ c \in Connected \ gone
  /\ header[c] # "whole"
  /\ header' \in {[header EXCEPT ![c] = "part"], [header EXCEPT ![c] = "whole"]}
  /\ UNCHANGED <<at, list, next, ready, slots, stored, conn, backlog, size, sent,
                 unread, gone>>

SendsPart(c) ==
  /\ c \in Connected \ gone
  /\ header[c] = "whole"
  /\ sent[c] < MaxData
  /\ sent' = [sent EXCEPT ![c] = @ + 1]
  /\ unread' = [unread EXCEPT ![c] = @ + 1]
  /\ UNCHANGED <<at, list, next, ready, slots, stored, conn, backlog, header, size,
                 gone>>

Goes(c) ==
  /\ c \in Connected \ gone
  /\ gone' = gone \union {c}
  /\ UNCHANGED <<at, list, next, ready, slots, stored, conn, backlog, peers, unread>>

-----------------------------------------------------------------------------
(* monikor_io_handler_poll *)

\* A read of f, or an accept, would not block
Readable(f) ==
  \/ f = Listen /\ backlog # <<>>
  \/ conn[f] # NULL /\ (header[conn[f]] # "none" \/ conn[f] \in gone)

Watched == {fd[h] : h \in ToSet(handlers)}

\* Mutant: the bits of the previous select are not cleared
ReadyFds_Kept == ready \union {f \in Watched : Readable(f)}

\* set_fd_sets and select
ReadyFds == {f \in Watched : Readable(f)}

SelectReturns ==
  /\ at = <<"select">>
  /\ ReadyFds # {}
  /\ ready' = ReadyFds
  /\ next' = handlers[1]
  /\ at' = <<"walk">>
  /\ UNCHANGED <<list, slots, stored, conn, backlog, peers, unread, gone>>

\* It times out, and the agent turns
SelectTimesOut == at = <<"select">> /\ UNCHANGED vars

WalkEnds ==
  /\ at = <<"walk">>
  /\ next = NULL
  /\ at' = <<"select">>
  /\ UNCHANGED <<list, next, ready, slots, stored, conn, backlog, peers, unread, gone>>

\* Where h is in the list
Place(h) == CHOOSE k \in 1 .. Len(handlers) : handlers[k] = h

\* handler->next
After(h) == IF Place(h) = Len(handlers) THEN NULL ELSE handlers[Place(h) + 1]

\* The handler is not ready
Pass ==
  /\ at = <<"walk">>
  /\ next # NULL
  /\ fd[next] \notin ready
  /\ next' = After(next)
  /\ UNCHANGED <<at, list, ready, slots, stored, conn, backlog, peers, unread, gone>>

-----------------------------------------------------------------------------
(* The callbacks of the server *)

FreeSlot == CHOOSE s \in Slots : /\ socket[s] = None
                                 /\ \A t \in Slots : socket[t] = None => s <= t
FreeFd == CHOOSE f \in Fds \ {Listen} : /\ conn[f] = NULL
                                        /\ \A g \in Fds \ {Listen} : conn[g] = NULL => f <= g

Full == n_clients >= MaxClients

\* monikor_server_handle_connection
HandleConnection ==
  /\ at = <<"walk">>
  /\ next # NULL /\ client[next] = 0
  /\ fd[next] \in ready
  /\ ~Full
  /\ next' = After(next)
  /\ \E h \in Handlers \ ToSet(handlers) :
       /\ handlers' = Append(handlers, h)
       /\ fd' = [fd EXCEPT ![h] = FreeFd]
       /\ client' = [client EXCEPT ![h] = FreeSlot]
  /\ socket' = [socket EXCEPT ![FreeSlot] = FreeFd]
  /\ n_clients' = n_clients + 1
  /\ conn' = [conn EXCEPT ![FreeFd] = Head(backlog)]
  /\ backlog' = Tail(backlog)
  /\ UNCHANGED <<at, ready, rd, stored, peers, unread, gone>>

\* The limit is reached, or accept4 fails
ConnectionRefused ==
  /\ at = <<"walk">>
  /\ next # NULL /\ client[next] = 0
  /\ fd[next] \in ready
  /\ next' = After(next)
  /\ UNCHANGED <<at, list, ready, slots, stored, conn, backlog, peers, unread, gone>>

\* Mutant: the count is left
ClientsLeft_Same == n_clients

ClientsLeft == n_clients - 1

\* monikor_server_disconnect, for the client of handler h
Disconnect(h) ==
  LET s == client[h] IN
  /\ conn' = [conn EXCEPT ![socket[s]] = NULL]
  /\ socket' = [socket EXCEPT ![s] = None]
  /\ rd' = [rd EXCEPT ![s] = 0]
  /\ n_clients' = ClientsLeft
  /\ handlers' = RemoveAt(handlers, Place(h))

\* Mutant: next is read after the callback, from memory that was freed
NextOf_After(h) == h

\* next is read before the callback
NextOf(h) == After(h)

\* monikor_server_handle_client, up to the data: there is no whole header, or no
\* memory for the size it announces
ProtocolError ==
  /\ at = <<"walk">>
  /\ next # NULL /\ client[next] # 0
  /\ fd[next] \in ready
  /\ Readable(fd[next])
  /\ next' = NextOf(next)
  /\ Disconnect(next)
  /\ UNCHANGED <<at, fd, client, ready, stored, backlog, peers, unread, gone>>

\* The header is read; at[2] is the handler the callback runs for
HandleClient ==
  /\ at = <<"walk">>
  /\ next # NULL /\ client[next] # 0
  /\ fd[next] \in ready
  /\ header[conn[fd[next]]] = "whole"
  /\ at' = <<"read", next>>
  /\ next' = NextOf(next)
  /\ UNCHANGED <<list, ready, slots, stored, conn, backlog, peers, unread, gone>>

Peer(h)    == conn[socket[client[h]]]
Missing(h) == size[Peer(h)] - rd[client[h]]

\* A turn of the loop of reads that gets something.  Without data and with the
\* client gone, read returns 0 and the loop turns for ever: at does not move.
ReadData ==
  /\ at[1] = "read"
  /\ LET h == at[2]
         n == IF unread[Peer(h)] < Missing(h) THEN unread[Peer(h)] ELSE Missing(h)
     IN  /\ n > 0
         /\ rd' = [rd EXCEPT ![client[h]] = @ + n]
         /\ unread' = [unread EXCEPT ![Peer(h)] = @ - n]
  /\ UNCHANGED <<at, list, next, ready, socket, n_clients, stored, conn, backlog,
                 peers, gone>>

\* Mutant: what is missing is not looked at
Complete_Any(h) == rd[client[h]] > 0 \/ Missing(h) = 0

Complete(h) == Missing(h) = 0

\* The list is whole: monikor_metric_store_lpush, then monikor_server_disconnect
StoreList ==
  /\ at[1] = "read"
  /\ Complete(at[2])
  /\ stored' = stored \union {Peer(at[2])}
  /\ Disconnect(at[2])
  /\ at' = <<"walk">>
  /\ UNCHANGED <<fd, client, next, ready, backlog, peers, unread, gone>>

\* read returns -1: the err: label
ReadFails ==
  /\ at[1] = "read"
  /\ ~Complete(at[2])
  /\ Disconnect(at[2])
  /\ at' = <<"walk">>
  /\ UNCHANGED <<fd, client, next, ready, stored, backlog, peers, unread, gone>>

\* The read blocks, or turns for ever
Held ==
  /\ at[1] = "read"
  /\ Missing(at[2]) > 0 /\ unread[Peer(at[2])] = 0

KeepsHeld == Held /\ UNCHANGED vars

Next ==
  \/ \E c \in Clients : Connects(c) \/ SendsHeader(c) \/ SendsPart(c) \/ Goes(c)
  \/ SelectReturns \/ SelectTimesOut \/ WalkEnds \/ Pass
  \/ HandleConnection \/ ConnectionRefused
  \/ ProtocolError \/ HandleClient \/ ReadData \/ ReadFails \/ StoreList
  \/ KeepsHeld

Spec == Init /\ [][Next]_vars

\* The loop turns, accept4 does not fail for ever, and a read with data returns
Fairness ==
  /\ WF_vars(SelectReturns) /\ WF_vars(WalkEnds) /\ WF_vars(Pass)
  /\ WF_vars(ConnectionRefused) /\ SF_vars(HandleConnection)
  /\ WF_vars(ProtocolError \/ HandleClient) /\ WF_vars(ReadData) /\ WF_vars(StoreList)

LiveSpec == Spec /\ Fairness

-----------------------------------------------------------------------------
(* Properties *)

TypeOK ==
  /\ at \in {<<"select">>, <<"walk">>} \union {<<"read", h>> : h \in Handlers}
  /\ handlers \in Seq(Handlers)
  /\ fd \in [Handlers -> Fds] /\ client \in [Handlers -> 0 .. MaxClients]
  /\ next \in Handlers \union {NULL}
  /\ ready \subseteq Fds
  /\ socket \in [Slots -> {None} \union (Fds \ {Listen})]
  /\ n_clients \in 0 .. MaxClients
  /\ rd \in [Slots -> 0 .. MaxData]
  /\ stored \subseteq Clients
  /\ conn \in [Fds -> Clients \union {NULL}]
  /\ backlog \in Seq(Clients) /\ Len(backlog) <= MaxClients
  /\ header \in [Clients -> {"none", "part", "whole"}]
  /\ size \in [Clients -> 0 .. MaxData]
  /\ sent \in [Clients -> 0 .. MaxData] /\ unread \in [Clients -> 0 .. MaxData]
  /\ gone \subseteq Clients

\* The walk never stands on a handler that was freed, and a callback runs for one
\* that is registered (poll.c:94-104, disconnect.c:16-17).
WalkLive ==
  /\ next \in ToSet(handlers) \union {NULL}
  /\ at[1] = "read" => at[2] \in ToSet(handlers)

\* The slots, their count (handle.c:33), the handlers and the descriptors agree:
\* each client accepted has one of each, and what is free can be used again.
SlotsAgree ==
  LET used == {s \in Slots : socket[s] # None}
      mine == {h \in ToSet(handlers) : client[h] # 0}
  IN  /\ n_clients = Cardinality(used)
      /\ {conn[socket[s]] : s \in used} = {conn[f] : f \in Fds} \ {NULL}
      /\ Len(handlers) = n_clients + 1
      /\ {<<client[h], fd[h]>> : h \in mine} = {<<s, socket[s]>> : s \in used}

\* What the walk and the slots rely on
WellFormed == TypeOK /\ SlotsAgree

\* The handlers still to visit find their descriptor as select saw it
\* (poll.c:97): no header is waited for on a connection that has sent nothing,
\* although numbers of descriptors are used again within a walk.
ReadyIsFresh ==
  at # <<"select">> /\ next # NULL =>
    \A k \in Place(next) .. Len(handlers) :
      fd[handlers[k]] \in ready => Readable(fd[handlers[k]])

\* A list that is stored is the whole list its client announced, and nothing that
\* follows it (handle.c:52-69).
StoredWhole ==
  \A c \in stored : header[c] = "whole" /\ sent[c] - unread[c] = size[c]

\* A client that has sent its list is answered, unless another one holds the agent
\* in a read or every slot is taken before it is accepted (handle.c:17, 57-64).
ListsTaken ==
  \A c \in Clients :
    (c \in Connected /\ header[c] = "whole" /\ sent[c] >= size[c])
      ~> (\/ c \notin Connected
          \/ Held
          \/ c \in ToSet(backlog) /\ \A s \in Slots : socket[s] # None)
=============================================================================
