----------------------------- MODULE NetExchange -----------------------------
(***************************************************************************)
(* Exchanges of the agent with local services (src/utils/net.c), for the   *)
(* modules that poll through them (lib/modules/redis, lib/modules/         *)
(* memcached): connect to the first address that answers, write a request, *)
(* read a response, give it to the module.  The result comes later than    *)
(* the poll, in the walk of monikor_io_handler_poll; the next poll or a    *)
(* reload drops what has not come.                                         *)
(*                                                                         *)
(* Callbacks touch no handler but their own, so those that are ready run   *)
(* in any order here.  The socket is non-blocking until it is connected:   *)
(* the read of a response blocks the only thread if the one before it      *)
(* filled its buffer and nothing more is there.                            *)
(***************************************************************************)
EXTENDS Integers, FiniteSets

CONSTANTS
  Instances,    \* instances of the Redis and Memcached modules
  Handlers,     \* memory for monikor_io_handler_t
  MaxFd,        \* bound on the descriptors the agent may open for them
  Addresses,    \* the length of the list getaddrinfo returns
  Chunk,        \* MNK_NET_RD_SZ, in parts of a response
  MaxResponse,  \* bound on the parts a service sends in a response
  MaxPolls,     \* bound on the polls of all instances
  NULL

Fds       == 1 .. MaxFd
Exchanges == 1 .. MaxPolls
None      == -1

ASSUME NetAssumption ==
  /\ MaxFd \in Nat /\ Addresses \in Nat \ {0} /\ Chunk \in Nat \ {0}
  /\ MaxResponse \in Nat /\ MaxPolls \in Nat
  /\ NULL \notin Handlers
  /\ IsFiniteSet(Instances)

VARIABLES
  at,         \* where the thread is: the loop, the walk, or the reads of a response
  io_handler, \* io_handler[i]: mod->io_handler
  registered, \* the handlers in mon->io_handlers
  fd,         \* fd[h]: handler->fd
  mode,       \* mode[h]: handler->mode, and the callback that goes with it
  exchange,   \* exchange[h]: the exchange it is for, one per poll
  ai_cur,     \* ai_cur[h]: the rank of the address that is tried
  due,        \* the handlers still to call in the walk
  owner,      \* owner[f]: the exchange that opened descriptor f, 0 if it is free
  link,       \* link[h]: its connection: "pending", "refused" or "open"
  sent,       \* sent[h]: the parts the service has sent on the connection
  received,   \* received[h]: response_size
  hungup,     \* hungup[h]: the service has closed its end
  memory,     \* what monikor_net_exchange has allocated and nobody has freed
  polls,      \* the number of polls, and the exchange of the last one
  failed,     \* the number of connections that failed at once
  dropped,    \* the exchanges a poll found unfinished
  cleaned,    \* those a reload found unfinished
  partial     \* those whose module was given less than had come

handler == <<registered, fd, mode, exchange, ai_cur, link, sent, received, hungup>>
sockets == <<owner, failed>>
history == <<polls, dropped, cleaned>>
vars == <<at, io_handler, handler, due, sockets, memory, history, partial>>

\* redis_init, memcached_init
Init ==
  /\ at = <<"loop">>
  /\ io_handler = [i \in Instances |-> NULL]
  /\ registered = {} /\ due = {}
  /\ fd = [h \in Handlers |-> None]
  /\ mode = [h \in Handlers |-> "none"]
  /\ exchange = [h \in Handlers |-> 0]
  /\ ai_cur = [h \in Handlers |-> 1]
  /\ owner = [f \in Fds |-> 0]
  /\ link = [h \in Handlers |-> "pending"]
  /\ sent = [h \in Handlers |-> 0] /\ received = [h \in Handlers |-> 0]
  /\ hungup = [h \in Handlers |-> FALSE]
  /\ memory = {} /\ dropped = {} /\ cleaned = {} /\ partial = {}
  /\ polls = 0 /\ failed = 0

Unfinished(h) == mode[h] # "none"

\* The handler data of exchange e and its list of addresses
Data(e) == {<<"data", e>>, <<"ai", e>>}

\* Descriptors o, once those in F are closed
Close(o, F) == [f \in Fds |-> IF f \in F THEN 0 ELSE o[f]]

\* Field x of the handlers in H is not there any more, and is v for the next owner
Freed(x, H, v) == [h \in Handlers |-> IF h \in H THEN v ELSE x[h]]

FreesData(H) ==
  /\ ai_cur' = Freed(ai_cur, H, 1) /\ link' = Freed(link, H, "pending")
  /\ sent' = Freed(sent, H, 0) /\ received' = Freed(received, H, 0)
  /\ hungup' = Freed(hungup, H, FALSE)

FreesHandlers(H) ==
  /\ fd' = Freed(fd, H, None) /\ mode' = Freed(mode, H, "none")
  /\ exchange' = Freed(exchange, H, 0)
  /\ FreesData(H)

-----------------------------------------------------------------------------
(* monikor_net_connect *)

FreeFds(o) == {f \in Fds : o[f] = 0}
Lowest(F)  == CHOOSE f \in F : \A g \in F : f <= g

\* The socket of exchange e, on the lowest descriptor that is free
Opened(o, e) == [o EXCEPT ![Lowest(FreeFds(o))] = e]

-----------------------------------------------------------------------------
(* redis_poll, memcached_poll *)

\* Mutant: the handler is freed and stays in the list
Others_All(i) == registered

\* monikor_unregister_io_handler for the handler of i
Others(i) == registered \ {io_handler[i]}

\* The descriptors of the handlers H that are open
Open(H) == {fd[h] : h \in H} \ {None}

Held(i) == {io_handler[i]} \ {NULL}

\* Mutant: an exchange that is under way is waited for
Polled_Waits(i) == \A h \in Held(i) : ~Unfinished(h)

Polled(i) == TRUE

\* What every poll starts with; the data of an exchange under way is not freed
PollDrops(i) ==
  /\ at = <<"loop">>
  /\ polls < MaxPolls /\ polls' = polls + 1
  /\ Polled(i)
  /\ dropped' = dropped \union {exchange[h] : h \in {g \in Held(i) : Unfinished(g)}}
  /\ UNCHANGED <<due, cleaned, partial>>

PollStarts(i) ==
  /\ PollDrops(i)
  /\ \E h \in Handlers \ {io_handler[j] : j \in Instances \ {i}} :
     LET o == Close(owner, Open(Held(i)))
     IN
       /\ FreeFds(o) # {}
       /\ owner' = Opened(o, polls')
       /\ io_handler' = [io_handler EXCEPT ![i] = h]
       /\ registered' = Others(i) \union {h}
       /\ fd' = [Freed(fd, Held(i), None) EXCEPT ![h] = Lowest(FreeFds(o))]
       /\ mode' = [Freed(mode, Held(i), "none") EXCEPT ![h] = "WR"]
       /\ exchange' = [Freed(exchange, Held(i), 0) EXCEPT ![h] = polls']
       /\ FreesData(Held(i))
  /\ memory' = memory \union Data(polls')
  /\ UNCHANGED <<at, failed>>

\* monikor_net_exchange returns NULL: there is no address, no descriptor or no
\* memory, or connect fails at once, and then its socket stays open.  Without an
\* address, freeaddrinfo is given a pointer that was never set.
PollFails(i) ==
  /\ PollDrops(i)
  /\ LET o == Close(owner, Open(Held(i)))
     IN  \/ owner' = o /\ at' \in {<<"loop">>, <<"dead">>} /\ UNCHANGED failed
         \/ /\ FreeFds(o) # {}
            /\ owner' = Opened(o, polls')
            /\ failed' = failed + 1
            /\ UNCHANGED at
  /\ io_handler' = [io_handler EXCEPT ![i] = NULL]
  /\ registered' = Others(i)
  /\ FreesHandlers(Held(i))
  /\ UNCHANGED memory

\* redis_cleanup, memcached_cleanup of every instance, and init again: the data of
\* an exchange under way is freed, its addresses are not
Reload ==
  LET mine == UNION {Held(i) : i \in Instances}
      left == {h \in mine : Unfinished(h)}
  IN
  /\ at = <<"loop">>
  /\ io_handler' = [i \in Instances |-> NULL]
  /\ registered' = registered \ mine
  /\ owner' = Close(owner, Open(mine))
  /\ memory' = memory \ {<<"data", exchange[h]>> : h \in left}
  /\ cleaned' = cleaned \union {exchange[h] : h \in left}
  /\ FreesHandlers(mine)
  /\ UNCHANGED <<at, due, failed, polls, dropped, partial>>

-----------------------------------------------------------------------------
(* The services *)

Connecting(e) == {h \in registered : mode[h] = "WR" /\ exchange[h] = e}
Reading(e)    == {h \in registered : mode[h] = "RD" /\ exchange[h] = e}

\* A connection is accepted, refused, or given up by the kernel
LinkSettles(e) ==
  /\ \E h \in Connecting(e) :
       /\ link[h] = "pending"
       /\ link' \in {[link EXCEPT ![h] = "open"], [link EXCEPT ![h] = "refused"]}
  /\ UNCHANGED <<at, io_handler, registered, fd, mode, exchange, ai_cur, sent, received,
                 hungup, due, sockets, memory, history, partial>>

ServiceSends(e) ==
  /\ \E h \in Reading(e) :
       /\ ~hungup[h] /\ sent[h] < MaxResponse
       /\ sent' = [sent EXCEPT ![h] = @ + 1]
  /\ UNCHANGED <<at, io_handler, registered, fd, mode, exchange, ai_cur, link, received,
                 hungup, due, sockets, memory, history, partial>>

ServiceHangsUp(e) ==
  /\ \E h \in Reading(e) : hungup' = [hungup EXCEPT ![h] = TRUE]
  /\ UNCHANGED <<at, io_handler, registered, fd, mode, exchange, ai_cur, link, sent,
                 received, due, sockets, memory, history, partial>>

-----------------------------------------------------------------------------
(* monikor_io_handler_poll *)

Unread(h) == sent[h] - received[h]

Ready(h) ==
  \/ mode[h] = "WR" /\ link[h] # "pending"
  \/ mode[h] = "RD" /\ (Unread(h) > 0 \/ hungup[h])

SelectReturns ==
  /\ at = <<"loop">>
  /\ due' = {h \in registered : fd[h] # None /\ Ready(h)}
  /\ due' # {}
  /\ at' = <<"walk">>
  /\ UNCHANGED <<io_handler, handler, sockets, memory, history, partial>>

\* It times out, and the agent turns
SelectTimesOut == at = <<"loop">> /\ UNCHANGED vars

WalkEnds ==
  /\ at = <<"walk">>
  /\ due = {}
  /\ at' = <<"loop">>
  /\ UNCHANGED <<io_handler, handler, due, sockets, memory, history, partial>>

\* Mutant: the addresses are not freed
EndFrees_Data(h) == {<<"data", exchange[h]>>}

EndFrees(h) == Data(exchange[h])

\* The end of handle_io_read and of handle_io_connect's err: the handler stays,
\* registered and inert, until the next poll
ExchangeEnds(h) ==
  /\ fd' = [fd EXCEPT ![h] = None]
  /\ mode' = [mode EXCEPT ![h] = "none"]
  /\ memory' = memory \ EndFrees(h)
  /\ FreesData({h})
  /\ due' = due \ {h}
  /\ at' = <<"walk">>
  /\ UNCHANGED <<io_handler, registered, exchange, history>>

\* Mutant: the socket of the address that failed is left open
Replaced_Left(o, h) == o

Replaced(o, h) == Close(o, {fd[h]})

\* handler_data->ai_cur->ai_next is NULL
NoneLeft(h) == ai_cur[h] = Addresses

\* handle_io_connect, with an error: the next address is tried
NextAddress(h) ==
  /\ at = <<"walk">> /\ h \in due
  /\ mode[h] = "WR" /\ link[h] = "refused"
  /\ ~NoneLeft(h)
  /\ FreeFds(owner) # {}
  /\ owner' = Replaced(Opened(owner, exchange[h]), h)
  /\ link' = [link EXCEPT ![h] = "pending"]
  /\ fd' = [fd EXCEPT ![h] = Lowest(FreeFds(owner))]
  /\ ai_cur' = [ai_cur EXCEPT ![h] = @ + 1]
  /\ due' = due \ {h}
  /\ UNCHANGED <<at, io_handler, registered, mode, exchange, sent, received, hungup,
                 failed, memory, history, partial>>

\* There is none left, no descriptor, or the next one fails at once
NoMoreAddresses(h) ==
  /\ at = <<"walk">> /\ h \in due
  /\ mode[h] = "WR" /\ link[h] = "refused"
  /\ \/ /\ NoneLeft(h) \/ FreeFds(owner) = {}
        /\ owner' = Close(owner, {fd[h]})
        /\ UNCHANGED failed
     \/ /\ ~NoneLeft(h) /\ FreeFds(owner) # {}
        /\ owner' = Close(Opened(owner, exchange[h]), {fd[h]})
        /\ failed' = failed + 1
  /\ ExchangeEnds(h)
  /\ UNCHANGED partial

\* handle_io_connect, connected: the request is written
WriteRequest(h) ==
  /\ at = <<"walk">> /\ h \in due
  /\ mode[h] = "WR" /\ link[h] = "open"
  /\ mode' = [mode EXCEPT ![h] = "RD"]
  /\ due' = due \ {h}
  /\ UNCHANGED <<at, io_handler, registered, fd, exchange, ai_cur, link, sent, received,
                 hungup, sockets, memory, history, partial>>

WriteFails(h) ==
  /\ at = <<"walk">> /\ h \in due
  /\ mode[h] = "WR" /\ link[h] = "open"
  /\ ExchangeEnds(h)
  /\ owner' = Close(owner, {fd[h]})
  /\ UNCHANGED <<failed, partial>>

\* handle_io_read is called for h
ReadBegins(h) ==
  /\ at = <<"walk">> /\ h \in due
  /\ mode[h] = "RD"
  /\ at' = <<"read", h>>
  /\ UNCHANGED <<io_handler, handler, due, sockets, memory, history, partial>>

\* Mutant: one read is enough
More_Never(n) == FALSE

\* The condition of the loop of monikor_net_recv
More(n) == n = Chunk

Least(a, b) == IF a < b THEN a ELSE b

\* What a read of the response to h returns
ReadBytes(h) == Least(Unread(h), Chunk)

\* A read that fills the buffer
ReadFull ==
  /\ at[1] = "read"
  /\ More(ReadBytes(at[2]))
  /\ received' = [received EXCEPT ![at[2]] = @ + Chunk]
  /\ UNCHANGED <<at, io_handler, registered, fd, mode, exchange, ai_cur, link, sent,
                 hungup, due, sockets, memory, history, partial>>

\* redis_poll_metrics, memcached_poll_metrics: metrics are made of what was read
Parses(h, n) == partial' = IF n < Unread(h) THEN partial \union {exchange[h]} ELSE partial

\* A short read, or the end of the stream: the module parses what was read
ReadLast ==
  /\ at[1] = "read"
  /\ LET h == at[2] IN
       /\ ~More(ReadBytes(h))
       /\ ReadBytes(h) > 0 \/ hungup[h]
       /\ Parses(h, ReadBytes(h))
       /\ owner' = Close(owner, {fd[h]})
       /\ ExchangeEnds(h)
  /\ UNCHANGED failed

\* realloc or read fails
ReadFails ==
  /\ at[1] = "read"
  /\ owner' = Close(owner, {fd[at[2]]})
  /\ ExchangeEnds(at[2])
  /\ UNCHANGED <<failed, partial>>

\* The read blocks: the service keeps a connection on which all was read
Blocked ==
  /\ at[1] = "read"
  /\ Unread(at[2]) = 0 /\ ~hungup[at[2]]

\* The agent has crashed, or waits for the service
Stays == (at = <<"dead">> \/ Blocked) /\ UNCHANGED vars

Next ==
  \/ \E i \in Instances : PollStarts(i) \/ PollFails(i)
  \/ \E e \in Exchanges : LinkSettles(e) \/ ServiceSends(e) \/ ServiceHangsUp(e)
  \/ \E h \in Handlers : NextAddress(h) \/ NoMoreAddresses(h) \/ WriteRequest(h)
                         \/ WriteFails(h) \/ ReadBegins(h)
  \/ Reload \/ SelectReturns \/ SelectTimesOut \/ WalkEnds
  \/ ReadFull \/ ReadLast \/ ReadFails \/ Stays

Spec == Init /\ [][Next]_vars

Connects(h) == NextAddress(h) \/ NoMoreAddresses(h) \/ WriteRequest(h) \/ WriteFails(h)

\* The loop turns, modules are polled again, the kernel settles connections and a
\* read of what is there returns
Fairness ==
  /\ \A i \in Instances : SF_vars(PollStarts(i) \/ PollFails(i))
  /\ \A e \in Exchanges : WF_vars(LinkSettles(e))
  /\ \A h \in Handlers : WF_vars(Connects(h)) /\ WF_vars(ReadBegins(h))
  /\ SF_vars(SelectReturns) /\ WF_vars(WalkEnds)
  /\ WF_vars(ReadFull) /\ WF_vars(ReadLast)

LiveSpec == Spec /\ Fairness

-----------------------------------------------------------------------------
(* Properties *)

TypeOK ==
  /\ at \in {<<"loop">>, <<"walk">>, <<"dead">>} \union {<<"read", h>> : h \in Handlers}
  /\ io_handler \in [Instances -> Handlers \union {NULL}]
  /\ registered \subseteq Handlers /\ due \subseteq registered
  /\ fd \in [Handlers -> Fds \union {None}]
  /\ mode \in [Handlers -> {"WR", "RD", "none"}]
  /\ exchange \in [Handlers -> 0 .. MaxPolls]
  /\ ai_cur \in [Handlers -> 1 .. Addresses]
  /\ owner \in [Fds -> 0 .. MaxPolls]
  /\ link \in [Handlers -> {"pending", "refused", "open"}]
  /\ sent \in [Handlers -> 0 .. MaxResponse]
  /\ received \in [Handlers -> 0 .. MaxResponse]
  /\ hungup \in [Handlers -> BOOLEAN]
  /\ dropped \subseteq Exchanges /\ cleaned \subseteq Exchanges
  /\ partial \subseteq Exchanges
  /\ memory \subseteq {"data", "ai"} \X Exchanges
  /\ polls \in 0 .. MaxPolls
  /\ failed \in Nat

\* The handlers in the list are those the modules hold, one each, and a handler that
\* is not closed has its own descriptor: no callback runs for memory that a poll or a
\* reload freed, and no close hits a number that was given again (redis.c:50, 67;
\* net.c:87-88).
HandlersOwned ==
  /\ registered = UNION {Held(i) : i \in Instances}
  /\ \A i, j \in Instances : i # j => Held(i) \intersect Held(j) = {}
  /\ \A h \in registered :
       IF Unfinished(h) THEN fd[h] # None /\ owner[fd[h]] = exchange[h] ELSE fd[h] = None

\* What every callback and every poll rely on
WellFormed == TypeOK /\ HandlersOwned

\* The descriptors that are open and no handler has are those of connections that
\* failed at once (net.c:48-51), one each, whatever addresses were tried and
\* whatever polls and reloads found under way.
DescriptorsAccounted ==
  Cardinality({f \in Fds : owner[f] # 0} \ Open(registered)) = failed

\* What an exchange allocated is freed when it ends, except its data and addresses
\* if a poll drops it (redis.c:68) and its addresses if a reload does (redis.c:52).
MemoryAccounted ==
  memory = UNION ({Data(exchange[h]) : h \in {g \in registered : Unfinished(g)}}
                  \union {Data(e) : e \in dropped}
                  \union {{<<"ai", e>>} : e \in cleaned})

\* The module parses what its service had sent on this connection when the read
\* ended, all of it, however many reads it took (net.c:61-69).
ParsesWhatArrived == partial = {}

UnderWay(e) == Connecting(e) \union Reading(e) # {}

\* Exchange e is the one its module holds; its service says nothing to the request
Silent(e) ==
  \E h \in Reading(e) \intersect UNION {Held(i) : i \in Instances} : sent[h] = 0 /\ ~hungup[h]

\* Whenever an exchange is under way it will be over: it ends, or the next poll of its
\* module drops it, even one whose service says nothing (redis.c:64-75).  Only for ever
\* may it stay, in an agent that has crashed or that a service holds in a read
\* (net.c:64-69), or, after the last poll of the bound, as the one its module holds, if
\* the service says nothing for ever.
ExchangesEnd ==
  \A e \in Exchanges :
    \/ []<>~UnderWay(e)
    \/ <>[](at = <<"dead">> \/ Blocked \/ (polls = MaxPolls /\ Silent(e)))
=============================================================================
