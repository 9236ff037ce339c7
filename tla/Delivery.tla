------------------------------ MODULE Delivery ------------------------------
(***************************************************************************)
(* The life of a metric between the moment a module pushes it in the       *)
(* store and the moment the agent gives it up: src/core/send.c, update.c,  *)
(* evict.c, control.c, reload.c and exit.c, over the lists of the metric   *)
(* store (lib/monikor/src/metrics/metric_store.c).                         *)
(*                                                                         *)
(* The agent has one thread: a handler (the update, a signal, the answer   *)
(* of the server, a push) runs to its end before the next one starts, so   *)
(* each is one action.  What interleaves is the answers, which libcurl     *)
(* delivers in any order and any number of updates after the request.      *)
(*                                                                         *)
(* A metric is its rank in the order of the pushes.  The delta baselines   *)
(* of the store are in MetricStore, the lists' pointers in MetricList.     *)
(* Allocation of a list node is assumed to succeed here; MetricList has    *)
(* the failing one.                                                        *)
(***************************************************************************)
EXTENDS Naturals, SequencesExt

CONSTANTS
  MaxMetric,     \* bound on the number of metrics pushed
  Requests,      \* the HTTP requests that can be outstanding at a time
  Size,          \* Size[m]: bytes the list accounts for metric m
  MaxSend,       \* config->server.max_send_size
  MaxCache,      \* config->cache.max_size
  BackoffMax,    \* MONIKOR_UPDATE_BACKOFF_COUNT_MAX
  StackWords     \* what mon.update.backoff_count may hold before it is set

Metric == 1 .. MaxMetric

ASSUME DeliveryAssumption ==
  /\ MaxMetric \in Nat
  /\ Size \in [Metric -> Nat \ {0}]
  /\ MaxSend \in Nat
  /\ MaxCache \in Nat
  /\ BackoffMax \in Nat \ {0}
  /\ StackWords \subseteq Nat

VARIABLES
  current,        \* mon->metrics->current
  cache,          \* mon->metrics->cache
  active,         \* the requests handed to libcurl and not answered yet
  batch,          \* batch[r]: send_data_t.metrics of request r
  backoff_count,  \* mon->update.backoff_count
  running,        \* FALSE once the process has left monikor_run
  pushed,         \* history: number of metrics pushed so far
  requeued,       \* history: metrics an answer brought back to the cache
  recent,         \* history: metrics stored since the last eviction
  leaked,         \* metrics of a store that a reload left allocated
  streak,         \* history: 4xx answers since the last success
  settled         \* history: monikor_update_success has run once

store == <<current, cache>>
net   == <<active, batch>>
hist  == <<pushed, requeued, recent, leaked, streak, settled>>
vars  == <<current, cache, active, batch, backoff_count, running,
           pushed, requeued, recent, leaked, streak, settled>>

-----------------------------------------------------------------------------
(* Sizes and prefixes of lists *)

\* The bytes the list accounts for the metrics of s that are not in X
SizeBut(s, X) ==
  LET sum[i \in 0 .. Len(s)] ==
        IF i = 0 THEN 0 ELSE sum[i - 1] + (IF s[i] \in X THEN 0 ELSE Size[s[i]])
  IN  sum[Len(s)]

\* list->data_size
TotalSize(s) == SizeBut(s, {})

Take(s, k) == SubSeq(s, 1, k)
Drop(s, k) == SubSeq(s, k + 1, Len(s))

\* The loop of monikor_send_all_metrics leaves after k pops: it pops while
\* something is left and the batch is below max_send_size.
BatchEndsAt(s, k) ==
  /\ \A j \in 0 .. k - 1 : TotalSize(Take(s, j)) < MaxSend
  /\ k = Len(s) \/ TotalSize(Take(s, k)) >= MaxSend

\* Mutant: if for while, one metric is evicted at most
EvictionEndsAt_Once(s, n) ==
  n = IF TotalSize(s) > MaxCache THEN 1 ELSE 0

\* The loop of monikor_metric_store_evict_cache leaves after n pops.
EvictionEndsAt(s, n) ==
  /\ \A j \in 0 .. n - 1 : TotalSize(Drop(s, j)) > MaxCache
  /\ TotalSize(Drop(s, n)) <= MaxCache

\* Mutant: a single concat, which puts the cache last
Uncached_Last(c, cur) == cur \o c

\* monikor_metric_store_uncache: the two concats put the cache first
Uncached(c, cur) == c \o cur

Init ==
  /\ current = <<>>
  /\ cache = <<>>
  /\ active = {}
  /\ batch = [r \in Requests |-> <<>>]
  /\ backoff_count \in StackWords
  /\ running = TRUE
  /\ pushed = 0
  /\ requeued = {}
  /\ recent = {}
  /\ leaked = {}
  /\ streak = 0
  /\ settled = FALSE

-----------------------------------------------------------------------------
(* Pushes *)

\* monikor_metric_store_push of a metric that reaches the current list
MetricStorePush ==
  /\ running
  /\ pushed < MaxMetric
  /\ pushed' = pushed + 1
  /\ current' = Append(current, pushed')
  /\ recent' = recent \union {pushed'}
  /\ UNCHANGED <<cache, net, backoff_count, running, requeued, leaked, streak,
                 settled>>

-----------------------------------------------------------------------------
(* Sending, from a cache c: the cache as it is, or as the eviction left it *)

\* monikor_metric_list_new fails: monikor_metric_store_cache and return
SendWithoutList(c) ==
  /\ cache' = c \o current
  /\ UNCHANGED net

\* Mutant: the batch is not given back
SendFails_Dropped(c) ==
  /\ \E k \in 0 .. Len(Uncached(c, current)) :
       /\ BatchEndsAt(Uncached(c, current), k)
       /\ cache' = Drop(Uncached(c, current), k)
  /\ UNCHANGED net

\* monikor_send_metrics fails (no url, no memory, no host name): the batch
\* goes back to the empty cache, before what was left in current
SendFails(c) ==
  /\ \E k \in 0 .. Len(Uncached(c, current)) :
       /\ BatchEndsAt(Uncached(c, current), k)
       /\ cache' = Take(Uncached(c, current), k) \o Drop(Uncached(c, current), k)
  /\ UNCHANGED net

\* Mutant: the batch is copied, not popped
SendStarts_Copied(c, r) ==
  /\ r \notin active
  /\ active' = active \union {r}
  /\ \E k \in 0 .. Len(Uncached(c, current)) :
       /\ BatchEndsAt(Uncached(c, current), k)
       /\ batch' = [batch EXCEPT ![r] = Take(Uncached(c, current), k)]
       /\ cache' = Uncached(c, current)

\* monikor_send_metrics hands the batch to libcurl, the rest becomes the cache
SendStarts(c, r) ==
  /\ r \notin active
  /\ active' = active \union {r}
  /\ \E k \in 0 .. Len(Uncached(c, current)) :
       /\ BatchEndsAt(Uncached(c, current), k)
       /\ batch' = [batch EXCEPT ![r] = Take(Uncached(c, current), k)]
       /\ cache' = Drop(Uncached(c, current), k)

\* monikor_send_all_metrics
SendAllMetrics(c) ==
  \/ /\ current = <<>> /\ c = <<>>
     /\ cache' = c
     /\ UNCHANGED <<current, net>>
  \/ /\ current # <<>> \/ c # <<>>
     /\ current' = <<>>
     /\ \/ SendWithoutList(c)
        \/ SendFails(c)
        \/ \E r \in Requests : SendStarts(c, r)

\* monikor_update, when the update interval has elapsed: evict, then send
MonikorUpdate ==
  /\ running
  /\ \E n \in 0 .. Len(cache) :
       /\ EvictionEndsAt(cache, n)
       /\ SendAllMetrics(Drop(cache, n))
  /\ recent' = Range(current)
  /\ UNCHANGED <<backoff_count, running, pushed, requeued, leaked, streak, settled>>

\* SIGUSR1: monikor_send_all, outside of the schedule and without eviction
MonikorSendAll ==
  /\ running
  /\ SendAllMetrics(cache)
  /\ UNCHANGED <<backoff_count, running, hist>>

-----------------------------------------------------------------------------
(* Answers: handle_server_response *)

\* monikor_metric_store_flush_all, on the two lists modelled here
FlushAll ==
  /\ current' = <<>>
  /\ cache' = <<>>

\* Mutant: the batch outlives its request
RequestOver_Kept(r) ==
  /\ running
  /\ r \in active
  /\ active' = active \ {r}
  /\ UNCHANGED <<batch, running, pushed, leaked>>

\* The request is over: libcurl forgets it and its batch is freed
RequestOver(r) ==
  /\ running
  /\ r \in active
  /\ active' = active \ {r}
  /\ batch' = [batch EXCEPT ![r] = <<>>]
  /\ UNCHANGED <<running, pushed, leaked>>

\* Mutant: a success only undoes one failure
UpdateSuccess_Decrement ==
  /\ backoff_count' = IF backoff_count > 0 THEN backoff_count - 1 ELSE 0
  /\ streak' = 0
  /\ settled' = TRUE

\* monikor_update_success
UpdateSuccess ==
  /\ backoff_count' = 0
  /\ streak' = 0
  /\ settled' = TRUE

\* 200: the batch is freed
ResponseOk(r) ==
  /\ RequestOver(r)
  /\ UpdateSuccess
  /\ UNCHANGED <<store, requeued, recent>>

\* Mutant: the batch is put back where it was taken, before the cache
ResponseFailed_Front(r) ==
  /\ RequestOver(r)
  /\ UpdateSuccess
  /\ cache' = batch[r] \o cache
  /\ requeued' = requeued \union Range(batch[r])
  /\ recent' = recent \union Range(batch[r])
  /\ UNCHANGED current

\* Mutant: the cache is evicted as soon as the batch is back
ResponseFailed_Evicts(r) ==
  /\ RequestOver(r)
  /\ UpdateSuccess
  /\ \E n \in 0 .. Len(cache \o batch[r]) :
       /\ EvictionEndsAt(cache \o batch[r], n)
       /\ cache' = Drop(cache \o batch[r], n)
  /\ requeued' = requeued \union Range(batch[r])
  /\ recent' = recent \union Range(batch[r])
  /\ UNCHANGED current

\* libcurl failed, or 5xx: the batch goes to the end of the cache
ResponseFailed(r) ==
  /\ RequestOver(r)
  /\ UpdateSuccess
  /\ cache' = cache \o batch[r]
  /\ requeued' = requeued \union Range(batch[r])
  /\ recent' = recent \union Range(batch[r])
  /\ UNCHANGED current

\* 4xx: the batch is freed and monikor_update_backoff runs
ResponseRejected(r) ==
  /\ RequestOver(r)
  /\ IF backoff_count > 0 THEN FlushAll ELSE UNCHANGED store
  /\ backoff_count' = IF backoff_count < BackoffMax THEN backoff_count + 1
                                                    ELSE backoff_count
  /\ streak' = IF streak < BackoffMax THEN streak + 1 ELSE streak
  /\ UNCHANGED <<requeued, recent, settled>>

\* Any other code (1xx, 2xx but 200, 3xx): the batch is freed, nothing else
ResponseOther(r) ==
  /\ RequestOver(r)
  /\ UNCHANGED <<store, backoff_count, requeued, recent, streak, settled>>

HandleServerResponse(r) ==
  \/ ResponseOk(r)
  \/ ResponseFailed(r)
  \/ ResponseRejected(r)
  \/ ResponseOther(r)

-----------------------------------------------------------------------------
(* Control *)

\* SIGUSR2: monikor_flush_all
MonikorFlushAll ==
  /\ running
  /\ FlushAll
  /\ UNCHANGED <<net, backoff_count, running, hist>>

\* monikor_reload succeeds: monikor_init_modules installs a new store over the
\* old one, which nobody frees; the requests in flight go on
MonikorReload ==
  /\ running
  /\ current' = <<>>
  /\ cache' = <<>>
  /\ leaked' = leaked \union Range(current) \union Range(cache)
  /\ UNCHANGED <<net, backoff_count, running, pushed, requeued, recent, streak,
                 settled>>

\* monikor_exit, or a reload that fails: the process ends with all it holds
MonikorExit ==
  /\ running
  /\ running' = FALSE
  /\ FlushAll
  /\ active' = {}
  /\ batch' = [r \in Requests |-> <<>>]
  /\ UNCHANGED <<backoff_count, hist>>

\* The process is gone
Stopped ==
  /\ ~running
  /\ UNCHANGED vars

Next ==
  \/ MetricStorePush
  \/ MonikorUpdate
  \/ MonikorSendAll
  \/ \E r \in Requests : HandleServerResponse(r)
  \/ MonikorFlushAll
  \/ MonikorReload
  \/ MonikorExit
  \/ Stopped

Spec == Init /\ [][Next]_vars

\* An update that gets as far as a request
UpdateDispatches ==
  /\ MonikorUpdate
  /\ active' # active

\* monikor_update is due again and again while the loop runs, and memory is
\* not short forever; CURLOPT_TIMEOUT ends every request.
Fairness ==
  /\ SF_vars(UpdateDispatches)
  /\ \A r \in Requests : WF_vars(HandleServerResponse(r))

FairSpec == Spec /\ Fairness

-----------------------------------------------------------------------------
(* Properties *)

Stored == Range(current) \union Range(cache)

InFlight == UNION {Range(batch[r]) : r \in Requests}

Held == Stored \union InFlight

TypeOK ==
  /\ current \in Seq(Metric)
  /\ cache \in Seq(Metric)
  /\ active \subseteq Requests
  /\ batch \in [Requests -> Seq(Metric)]
  /\ \A r \in Requests \ active : batch[r] = <<>>
  /\ backoff_count \in Nat
  /\ running \in BOOLEAN
  /\ pushed \in 0 .. MaxMetric
  /\ requeued \subseteq Metric
  /\ recent \subseteq Metric
  /\ leaked \subseteq Metric
  /\ streak \in 0 .. BackoffMax
  /\ settled \in BOOLEAN

\* A metric is in one list at a time and once in it, through every concat,
\* pop and push of a send (send.c:148-159) and of an answer (send.c:97): it is
\* neither sent twice at a time nor freed while another list holds it.
SingleCustody ==
  /\ IsInjective(current)
  /\ IsInjective(cache)
  /\ Range(current) \intersect Range(cache) = {}
  /\ \A r \in Requests :
       /\ IsInjective(batch[r])
       /\ Range(batch[r]) \intersect Stored = {}
  /\ \A r, s \in Requests :
       r # s => Range(batch[r]) \intersect Range(batch[s]) = {}
  /\ \A m \in Held : m <= pushed

\* Metrics no answer ever brought back stay in the order of their pushes: in
\* the store, whatever sends failed before they started (send.c:155-159), and
\* a request never overtakes one of them that is still stored (send.c:152).
PushOrder ==
  LET queue    == cache \o current
      first(i) == queue[i] \notin requeued
  IN  /\ \A i, j \in 1 .. Len(queue) :
           i < j /\ first(i) /\ first(j) => queue[i] < queue[j]
      /\ \A r \in Requests : \A m \in Range(batch[r]) \ requeued :
           \A i \in 1 .. Len(queue) : first(i) => m < queue[i]

\* A request is over max_send_size by its last metric at most (send.c:152).
RequestBounded ==
  \A r \in Requests :
    batch[r] # <<>> => TotalSize(Front(batch[r])) < MaxSend

\* Past the metrics stored since the last eviction, the store is within the
\* cache's limit (evict.c:11): answers and SIGUSR1 sends, which do not evict,
\* never make older metrics pile up behind it.
StoreBounded ==
  SizeBut(cache \o current, recent) <= MaxCache

\* What limits of the configuration mean
Bounded == RequestBounded /\ StoreBounded

\* From the first success on, the backoff counts the 4xx answers since the
\* last success up to its cap, in whatever order the answers of concurrent
\* requests come (update.c:25-46, send.c:99-101).
BackoffCountsRejections ==
  settled => backoff_count = streak

\* A metric is given up for a reason: it was in a request that is answered,
\* or it was cached and the cache above its limit, or the whole store is
\* dropped with it (a flush, a backoff, a reload, the exit).
LossHasCause ==
  [][\A m \in Held \ Held' :
       \/ \E r \in active \ active' : m \in Range(batch[r])
       \/ m \in Range(cache) /\ TotalSize(cache) > MaxCache
       \/ Stored' = {}]_vars

\* Where a metric is, for Custody
PlaceOf(m) ==
  IF m > pushed THEN "unborn"
  ELSE IF m \in Stored THEN "stored"
  ELSE IF m \in Held THEN "inflight"
  ELSE "gone"

PlaceMap == [m \in Metric |-> PlaceOf(m)]

Abstract == INSTANCE Custody WITH place <- PlaceMap

\* Every handler moves metrics along Custody's edges: a metric given up (freed
\* at send.c:103, popped at metric_store.c:99) is in no list again.
ImplementsCustody == Abstract!Spec

\* A stored metric that was never sent is sent or given up, even while every
\* request fails: a failed batch goes behind it (send.c:97), so it moves to the
\* front of the cache.
EventuallyAttempted ==
  \A m \in Metric :
    (m \in Stored \ requeued) ~> (m \notin Stored \ requeued)

\* metric_store.c:119-121: the cache data stays at the beginning of the list,
\* so that older data is evicted first.  An eviction takes no metric while an
\* older one stays cached.
OldestEvictedFirst ==
  [][\A m \in Range(cache) \ Held', older \in Stored' :
       older < m => older \notin Range(cache)]_vars

\* update.c:26: "We don't backoff on the first failure".  A 4xx answer that is
\* the first since the last success, or since the start, flushes nothing.
NoBackoffOnFirstFailure ==
  [][\A r \in Requests :
       ResponseRejected(r) /\ streak = 0 => UNCHANGED store]_vars
=============================================================================
