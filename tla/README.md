# A verification of quanta-agent

quanta-agent (in its code: *monikor*) is a monitoring agent: modules poll the machine, the
metrics they push are stored, and the store is sent at intervals to the Quanta server over
HTTP. This directory models the agent in TLA+, checks the models with TLC and proves the
results that matter most with TLAPS. Paths below are relative to the repository.

## The system

The agent is one process with one thread. `monikor_run` (src/core/run.c) turns for ever: it
polls the modules that are due, evicts and sends if an update is due, then waits in `select`
until the next tick. Everything else happens inside `select`: signals (through a pipe),
answers of the server (through libcurl's multi interface), clients of the local socket, output
and exit of child processes, answers of the services the modules query. A handler runs to its
end before the next starts; what interleaves is the order of the events, and what a handler
does between an event and its late answer.

| Component | State | Operations | Interacts with |
|---|---|---|---|
| Delivery (send.c, update.c, control.c, reload.c, exit.c) | the batches in flight, `update.backoff_count` | update, send, answer 200 / 4xx / 5xx / other, flush, reload, exit | store, curl, main loop |
| Metric store (metric_store.c, metric_compute.c) | lists `current`, `cache`, `delta` | push (plain, delta, aggregate), evict, cache, uncache, flush | modules push, delivery drains |
| Metric lists (metric_list.c) | first, last, size, data_size, links | push, pop, concat, empty, remove_if | store, batches, server |
| Main loop (run.c, poll.c, update.c, evict.c) | `next_update`, `last_clock`, tick, flags | turn, poll, update, backoff, reload | all |
| Signals (sig.c) | a pipe | one message per signal | main loop |
| I/O handlers (src/io_handler) | lists of descriptors, curl handles, processes | register, unregister, poll | every asynchronous part |
| Commands (command.c, monikor.c) | state bits, output, pid | start, output, exit, reap | varnish module, SIGCHLD |
| Local server (src/server) | client slots | accept, read a list, disconnect | store |
| Network exchanges (net.c) | addresses, socket, mode | connect, write, read | redis, memcached modules |
| Module HTTP (http.c) and host id (info_module.c) | response buffer, `config->hostid` | request, answer | nginx, apache, info modules |
| Modules (src/modules) | loaded modules | load, init, poll, cleanup, unload | reload |
| Configuration (src/config) | dictionaries, settings | load, parse, set up | reload |
| Daemon (daemonize.c) | pid file, privileges | daemonize, exit | init |
| Serialization (metric_list_serialize.c, ...) | - | both ways | delivery, server |
| Probes (lib/modules) | - | parse /proc or a database | store |

What makes each correct:

* *Delivery*: a metric is in one place at a time; it is given up only for a reason; what is
  sent first is what was pushed first; a backoff follows rejections and nothing else.
* *Store*: the difference that is stored is the one between two consecutive metrics of a name;
  nothing is counted twice; the bytes accounted are the bytes held.
* *Lists*: no node in two lists, none freed while linked, sizes exact.
* *Main loop*: neither late nor early, whatever is slow; modules keep their schedule; baselines
  outlive the polls they are compared with.
* *I/O, commands, server, exchanges*: no handler is called after it was freed, no descriptor
  leaks, the thread never blocks for good.

The hard behaviours are: answers in any order and any time later; failures that put back what
newer data has overtaken; a reload that replaces the store, the configuration and the code
while requests are pending; clocks read before and used after a wait; counters and fields of
bounded width; one thread that several calls can block. `PROJECT.json` lists each at its line.

## The modules

| Module | Models | Role |
|---|---|---|
| `Custody` | what a metric goes through: unborn, stored, in flight, gone | abstract specification |
| `Delivery` | send.c, update.c, control.c, reload.c, exit.c over the store's lists | component |
| `DeliveryProofs` | - | theorems about `Delivery` and `Config` |
| `MetricStore` | metric_store.c, metric_compute.c | component |
| `MetricStoreProofs` | - | theorems about `MetricStore` |
| `Queues` | lists as sequences | abstract specification |
| `MetricList` | metric_list.c, pointers included | component |
| `MetricListProofs` | - | theorems about `MetricList` and `Wire` |
| `Scheduler` | run.c, poll.c, update.c, evict.c, load_all_modules.c (intervals) | component |
| `SchedulerProofs` | - | theorems about `Scheduler` |
| `Wire` | the bytes of a list: metric_list_serialize.c, metric_list_unserialize.c, serialize.c | operators over `MetricList` |
| `Commands` | command.c, monikor.c, sig.c, the Varnish module | component |
| `CommandsProofs` | - | theorems about `Commands` |
| `Server` | src/server, the walk of io_handler/poll.c | component |
| `ServerProofs` | - | theorems about `Server` |
| `NetExchange` | net.c, the Redis and Memcached modules, the walk of io_handler/poll.c | component |
| `NetExchangeProofs` | - | theorems about `NetExchange` |
| `Lifecycle` | daemonize.c, init.c, reload.c, exit.c, src/modules, http.c and the modules that use it | component |
| `LifecycleProofs` | - | theorems about `Lifecycle` |
| `Config` | src/config | component |
| `MC...` | small instances | model checking |

### Delivery

A metric is its rank in the order of the pushes. `current`, `cache` and `batch[r]` are the
lists of the code, oldest first, `active` the requests libcurl has. Each handler is one
action, because the agent has one thread: `MonikorUpdate` is the eviction followed by
`monikor_send_all_metrics` (with its three ways to fail or start), `MonikorSendAll` the SIGUSR1
send without eviction, `HandleServerResponse` the callback of a request with its four kinds of
answers. `backoff_count` starts with any of `StackWords`, since the code never sets it
(src/main.c:7). `MonikorReload` empties the lists, because `monikor_init_modules` replaces the
store: what the lists held is leaked, metrics that an answer brought back to the cache included
(`leaked`, a cause of loss). `requeued`, `recent`, `leaked`, `streak` and `settled` are history
variables.

Nodes can always be allocated here. The list of the batch may fail to be, which is
`SendWithoutList`.

### Custody

One variable, the place of each metric, and the edges a metric may take. `Delivery` implements
it under the mapping `PlaceMap`: no metric comes back once it is gone.

### MetricStore

Names are keys; a metric has a key, a type, flags, a clock and a value. `MetricStorePush` is
the whole of `monikor_metric_store_push`: delta metrics are compared with their baseline
(`ComputeDelta`, with the widths of the integers), replace it, and the result or the metric
itself goes to `current`, aggregated or appended. An eviction leaves of the baselines what `Kept`
says, in their order. `last`, `owed` and `horizon` are history variables: the last delta accepted
for each key, what the integers of `current` add up to, and how old a baseline may be.

### MetricList and Queues

The heap is a set of nodes, `next` their links; freeing a node returns it to the heap, so a
dangling pointer would meet its next owner. `monikor_metric_list_remove_if` takes one action
per turn of its loop. `Queues` says the same with sequences, and `MetricList` implements it.

### Wire

Serialization keeps no state, so it is operators over the state of `MetricList`, and its property
is an invariant there: in every state a run reaches, each list is written and read back. Writing
goes along the links, as in the code, while the header takes its count from `size`; a list whose
`size` were wrong would not come back. A buffer is a sequence of units: the header of a metric is
one, each byte of a name or a value another, so what is read at a wrong place is not taken for a
metric. Every number goes out as a word: `Short` and `Long` say which bytes a number below
`ShortMod` (2^16) and `LongMod` (2^64) has, `InMemory` how a host keeps them, and what is read back
is the number of the word the reader has then. `Htonll` swaps the halves and the bytes in them,
`Net` chooses by type; words of 8 and 4 bytes are 4 and 2 here. The clock, the length of the name and
of the value, the number of metrics and the length of the list all go through `Htons` or `Htonll`
on both sides, so a swap that is missing on one of them reads another number.

### Scheduler

Seconds, as in `tv_sec`. A turn of the loop is `NextTick` (the new `next_update`, the rebase),
`PollNextModule` for each module, `MonikorUpdate`, then `SelectBegins` and `SelectEnds` until
the clock read *before* select has reached `next_update`. While `at = "select"`, answers,
signals and deferred metrics come. `SecondPasses` is time in select, up to its timeout;
`Stall` is time anywhere else: a module that blocks, a process stopped, a second that turns
between two readings of the clock. A module has one baseline, the clock of the metrics it
pushed last. `polled_at`, `delayed`, `lost` and `answered` are history variables. The clock is
not set back, and every interval is at least one second (0 is accepted by the code and makes
the loop spin).

### Commands

The agent's side and the system's side of the commands modules run. The agent's: `processes` and
`outputs` are the two lists of handlers, `state`, `output` and `open` the fields of a
`command_exec_t`, `sigpipe` the pipe sig.c reads from; `at` says in which call the thread is
blocked, if any. The system's: `proc` is what a pid stands for, `held` whether some process can
still write to an output, `pending` the SIGCHLD that is raised and not delivered. SIGCHLD is not
queued, so `Raise` drops it while another is pending. A child is stopped and continued too,
since sig.c does not ask for SA_NOCLDSTOP; `waitpid` then blocks (`WaitpidReturns`). The reads of
an output stop at the first short one, and block if none is (`ReadAll`). `VarnishPoll` is the
whole of `varnish_poll`: reap, unregister, free, fork, register. Several instances of Varnish
share the pids and the lists. A reaper frees itself inside the walk of
`monikor_process_exited`, which reads `next` from it afterwards: the link is beyond what free(3)
writes to, and nothing is allocated in between, so the walk goes on as if it had not.

### Server

The list of handlers, the walk with `next` read before the callback, and the callbacks of
src/server: `HandleConnection` and `ConnectionRefused`, `HandleClient` (the header),
`ReadData`, `StoreList`, and the ways to fail. A callback that blocks leaves the walk where it is
(`at[1] = "read"`). Descriptor numbers are the lowest free, handler memory is any that is free.
A client sends a header, whole or cut, then parts; a part is one of the pieces its header
announces. The read that returns 0 for ever (a client gone too early, handle.c:57-64) and the
read that blocks are both `Held`: the model does not move.

### NetExchange

An exchange is numbered by the poll that began it. `PollStarts` and `PollFails` are the whole of
`redis_poll` and `memcached_poll`: the handler of the last exchange is unregistered, closed and
freed, whatever it was doing, and a new one opened. In the walk, `NextAddress`,
`NoMoreAddresses`, `WriteRequest` and `WriteFails` are the ways through `handle_io_connect`;
`ReadBegins`, `ReadFull`, `ReadLast` and `ReadFails` those through `handle_io_read`, one action
per read since a read may block: `Blocked` is the state in which the model does not move.
Handlers, descriptors and what was allocated are explicit: `registered`, `owner` (who opened a
descriptor) and `memory`. The services are three actions: a connection settles, a part arrives,
the other end hangs up. What they send is parts of which a read takes `Chunk`.

The property about descriptors says which ones are lost: the sockets of connections that
fail at once (net.c:48-51), `failed` of them. That about memory does likewise for
what redis.c:68 and redis.c:52 do not free. They would fail if anything else was lost, or if a
descriptor was closed twice; the losses themselves they count.

`ExchangesEnd` says of each exchange that, whenever it is under way, it will be over: a poll that
comes drops the last one, even if its service says nothing. The exchange of the last poll of the
bound is the only one that may stay, and only with a silent service (`Silent`); an agent that a
service holds in a read (`Blocked`) is excepted, because the code has no timeout there.

### Lifecycle

From `main` to the end of the process. `Daemonizes` leaves two processes, the agent and the one
that writes the pid file (`WritePid`), which interleave. `InitModules` loads the modules of a
configuration in order, each with one of three outcomes; `CleanupModules` is the cleanup and the
`dlclose` of each. `image` is what the dynamic loader holds: the handles of each library, how
often it was mapped, and the static `info_command` of the Redis library, which is new when the
library is mapped again and old when a handle was left open. A request remembers the mapping its
callback was in; after a reload its answer finds the code, another mapping at that place
(`HttpAnsweredByLuck`), or nothing (`HttpCrashes`). `instance_id` and `points` are the static
array of the info module and whether `config->hostid` points to it. The configuration file holds
one of `Configs` whenever it is read, each with the path of its pid file. `pidfiles` are the files
that hold the agent's pid: the process between the forks writes the one it was `named`, `MonikorExit`
removes that of the present configuration, if the privileges that were kept allow it (`Removable`),
and so does an exit that then ends in the second `free` of Redis's password (`FreesTwice`).

### Config

Each event of libyaml is an action, and the calls of the parser that wait for their next event
are the frames of `stack`. `heap` holds the elements of the dictionary with their links, as the
code allocates them; `GetSubdict` follows them. `text` is the file as its author would read it,
an outline of keys, kept beside the tree to compare with. `SetupConfig` is `monikor_setup_config`
when the stream ends: the numbers with `atoi` and the width of an int, the paths of the modules
without the `/` at their end (`Trimmed`), the other settings as they are written. Freeing the tree
goes along its links from the head; what it does not meet (`Lost`) stays allocated, and `lost` counts
it: a file that fails inside a mapping below a key loses that mapping's elements, since
config_parse_key.c:33-37 returns without attaching or freeing it. A second document is read into the same head, as in the code; it is not an
error there. Its specification is called `ConfigSpec`, so that one module can extend it and
`Delivery`. Files of modules go through the same parser and dictionary.

## What is checked

| Run | Instance | Shows |
|---|---|---|
| `delivery` | 4 metrics, one of double size, 2 requests, cache of 3, batches of 2, backoff cap 2, with fairness | single custody, order of the metrics never brought back, batch and store bounds, backoff count, no loss without a cause; `Delivery` implements `Custody`; a stored metric is eventually sent or given up |
| `eviction_order` | small | **violation**: newer metrics are evicted before older ones |
| `first_failure` | small | **violation**: a backoff on the first failure |
| `store_values` | 2 keys, 4 pushes, 3 clocks | baselines, differences, aggregates, bytes |
| `metric_list` | 3 lists, 4 nodes, 2 weights | well-formed, disjoint lists, exact sizes; `MetricList` implements `Queues`; lists are read from their bytes as they were written |
| `scheduler` | 2 modules, 2 configurations, 6 seconds, 1 stall, 2 requests | the wake-ups, lags, backoffs and the life of baselines |
| `commands` | 2 instances of Varnish, 2 commands, 2 pids, 2 parts of output, 1 stop, 1 reload | outputs are parsed whole and once, children keep a handler, freed commands have none, zombies are announced |
| `server` | 3 clients, 2 slots | live walk, fresh descriptors, slots given back |
| `server_progress` | 2 clients, 1 slot, lists of 2 parts, with fairness | whole lists, answers |
| `net_exchange` | 2 instances, 3 descriptors, 2 addresses, responses of 3 parts, 3 polls, reloads, with fairness | live handlers with descriptors of their own, descriptors and memory accounted for, responses parsed as they arrived, exchanges end |
| `lifecycle` | 3 configurations, 2 pid files of which 1 may be removed, 2 reloads, 2 instance ids | handles and code of modules, passwords, the host id, the pid file |
| `config` | 3 keys, 3 scalars, 2 documents, 4 elements, ints of 8 bits | lookups answer the first entry, the elements form a tree that is freed once and of which no more is lost than the code is known to, settings follow the file |

### The bounds

* Delivery: four metrics are enough for a batch in flight, one failed and put back, one cached
  and a newer one to overtake them; two requests for answers out of order; the double-sized
  metric for a batch that is over its limit and a cache that evicts two for one.
* MetricStore: four pushes reach baseline, difference, replacement and the aggregation of
  two results; types and flags change between pushes.
* MetricList: four nodes give a list with an interior to remove from and another one to
  append; a third list checks that what is not concerned stays as it is.
* Scheduler: the update interval is no multiple of the poll interval in one configuration, the
  file of a module asks for more than the global interval in the other; six seconds cover
  several turns after a stall of four, a backoff and a reload.
* Commands: two parts where a read takes two give full, partial and empty reads. Two commands are
  enough for one to be dropped for the other, and for both to be current at once; a pid is
  given again while the first command's handler still waits for its output. A pipe of one
  message fills while the loop is busy (the real one has room for 512: the bound stands for a
  stall with that many signals).
* Wire: a list of four wraps a count modulo 4 (`ShortMod`), one of three does not; hosts have both
  byte orders, the contents words whose bytes differ, a name of no bytes, a string of none, and two kinds of metrics in one list.
* NetExchange: two addresses for one to fail and the other to be tried, three descriptors for
  two exchanges and one that leaks, so that the last poll may find none; a response of three parts
  is one full read and a short one, of two a full one and a read that blocks. Three polls drop an
  exchange of one module while the other's goes on.
* Lifecycle: two reloads load a library again after it was closed, and one that was not. The
  configurations have one instance of Redis with a password, two with two, and one without.
* Config: four elements give a key below a key, one hidden by another of its name, and a third
  beside them; in an int of a byte, 40 fits, and 40 mebibytes of 3 do, just.
* Server: three clients on two slots give a refusal, a slot and a descriptor used again while
  another is in use, and two ready handlers in one walk.

### Fairness

`delivery`: `monikor_update` runs again and again while the loop turns,
and memory is not short for ever: strong fairness of an update that gets as far as a request,
since failing updates in between are allowed. `CURLOPT_TIMEOUT` ends every request, and the
loop polls libcurl at each wait: weak fairness of each answer. Which answer comes is left open,
so the property also holds when every request fails.

`server_progress`: the loop turns; accept4 fails now and then, not for ever (strong fairness).
Nothing is assumed of the clients.

`net_exchange`: modules are polled again as long as the loop turns (strong, since the loop may be
in a walk or a read); connections settle, which the kernel sees to; the walk calls the
handlers that are ready, and a read of what is there returns. Nothing is assumed of the services:
what they owe is what the property excepts.

### What the properties except

Some hazards are what the code does, not what could go wrong in it. The models do it too, and
the properties that are near say where: a second baseline for a push at the same clock is left out
of the runs; merged SIGCHLDs and a full pipe are excepted by `ZombieAnnounced`, clients that hold the
loop by `ListsTaken`, services that do by `ExchangesEnd`; sockets of failed connections and the data of
dropped exchanges are terms of `DescriptorsAccounted` and `MemoryAccounted`; what comes after the
read that ended a response is not asked for by `ParsesWhatArrived`; several instances of Redis,
requests that a reload has overtaken, an id that is the same after one and a pid file written after
the end are excepted in `Lifecycle`; of a list whose count wraps only a beginning is read, and a setting
that wraps may be anything; a second document may lose elements. The notes of the hazards in
`PROJECT.json` say what is caught beside each.

### What the violations say

* `eviction_order`: metric_store.c:119-121 announces that older data is evicted first. A failed
  batch is put at the *end* of the cache (send.c:97), after metrics pushed later.
* `first_failure`: update.c:26 announces no backoff on the first failure. Nothing sets
  `backoff_count` before the first answer.

## What is proved

Eight modules hold the proofs. Every safety property that a run checks is a theorem there, for every
value of the constants.

`DeliveryProofs`, for every number of metrics and requests, every size and limit:

* `TypeCorrect`: `TypeOK` is an invariant. It is inductive as it stands once it says that a
  request that is over holds no batch.
* `Custodied`: `SingleCustody` is an invariant. It is inductive with `TypeOK`: a push needs that
  nothing beyond `pushed` is held, a send that a request that starts holds nothing. The
  lemmas state what `\o`, `SubSeq` and `Append` keep of "once in the list".
* `Implements`: `Spec` implements `Custody` under `PlaceMap`. Each action moves metrics along
  `Custody`'s edges; `SingleCustody` is what makes the edges hold, since a metric in two lists
  would be stored and gone.
* `LossesHaveCauses` (`LossHasCause`): a step gives a metric up only for one of the causes the
  property names. `HasCause` says it for one metric, each action has it or keeps the metric.
* `PushesKeepOrder` (`PushOrder`): the metrics that no answer brought back are in the order of
  their pushes in `cache \o current` and in each batch, and no batch is ahead of the store. A
  failed batch may go anywhere without harm, since its metrics are `requeued` from then on
  (`OrderOfRequeue`).
* `LimitsHold` (`Bounded`): a batch is below `max_send_size` without its last metric, and what was
  stored before the last eviction, metrics pushed or brought back since left out, fits the
  cache. The sums of sizes add up over `\o` and cuts.
* `BackoffExact` (`BackoffCountsRejections`).

The same module proves the properties of `Config`, which reads the limits of `Delivery` from the
file: for files of every length and depth, with any number of documents.

* `ConfigTreeOwned` (`TreeOwned`), from `TreeInv`: an element points only to elements that were
  allocated later, no two point to the same one, and the frames of `stack` are, in turn, a
  mapping and a key or list whose element is the last of that mapping. While no second document
  has begun, each element but the head and the beginnings of open mappings has one that points to
  it, so following the links from these meets all (`AllReached`), and what the head alone does not
  lead to is below an open mapping (`LostOnlyBegun`). A loaded file has none open: freeing it
  loses nothing (`LostStep`).
* `ConfigFirstEntryCounts` (`FirstEntryCounts`), from `OutlineInv`: the entries of the outline are
  the elements they made, with the same keys, types and values, siblings where entries are beside
  each other, a mapping's first element where one is the first below another; what is not yet so
  is what the open frames will do. It was model-checked as an invariant before it was proved. A
  lookup is then followed along the siblings, up to the last one it gets to, and meets the entry
  that nothing hides. That `NULL` is no key is needed: a fresh element has it for one.
* `ConfigSettingsFollow` (`SettingsFollow`), from `Settled`, that the settings of a loaded file are
  those its outline gives, since each lookup returns what the outline says. `Numerical` is the part
  of `ConfigAssumption` it uses.

`MetricStoreProofs`, for every set of inputs, number of pushes and width of integers and clocks:

* `TypesHold` and `BytesAreExact`: the types and the bytes of the baselines, whatever the clock
  does. Two baselines compared have the same type and different clocks, so a difference has
  a value; the metric that takes a baseline's place without a word to the list is a number as
  it was, and weighs as much.
* `StoreStaysWellFormed` (`WellFormed`), `DifferencesAreOfTheLast` (`BaselineIsLast`) and
  `NoValueIsLost` (`ValuesConserved`), from `Base`, `Ordered` and `Summed`. They have three
  hypotheses, which are conditions of the code and not of the proofs: `ClocksRise`, the wall clock
  is not set back (the comparison in `evict_delta_predicate` and the age of a baseline would mean
  nothing); `OnePerClock`, a name is pushed once per clock (`is_cached_metric` passes over a
  baseline with the clock of the metric, and a second one is appended); `InTime`, clocks are less
  than 2^31 seconds apart (`_timecmp` returns an int). `ValuesConserved` needs `Ordered` because
  what is owed is said of the last delta, and what is pushed comes from a baseline.

`MetricListProofs`, for every set of lists, every finite memory and any weights:

* `ListsStayWellFormed` (`WellFormed`) and `DataSizeStaysExact` (`DataSizeExact`). The
  invariant, `Owns`, says that there is a sequence of nodes for each list that the pointers
  follow, without a node twice or in two of them, which hold all that is allocated; and that
  `remove_if` stands at a node of one, its `prev` before it. The lemmas say what unlinking, pushing
  and concatenating do to such sequences, and that the walk of the model (`Chain`) meets them.
* `PointersImplementQueues` (`ImplementsQueues`): every step of the pointer code is a step of
  `Queues` on these sequences or none of it.
* `ListsReadAsWritten` (`ReadAsWritten`), for lists of every length, names and values of every
  length, hosts of either order. The nodes of a list give its metrics, by the invariant above. A
  metric that stands whole at a place of a buffer is read there as it is: the swaps of `Htons`,
  `Htonll` and `Net` on the two hosts cancel, in the numbers of the header and in the value, and the
  lengths in its header are those of what follows. So the
  place where the reading loop is after a turn is where the writing was after as many metrics,
  and what it has read is what was written up to there; the count of the header says how many
  turns there are.

`SchedulerProofs`, for every number of modules, every set of configurations, any stalls:

* `SchedulerTypes`: `TypeOK`. A set of naturals has a minimum, which the library's
  well-founded relations give; so the tick is a second at least and no longer than any
  module's interval.
* `WakesUp` (`WakesInTime`) and `BackoffKept` (`BackoffHolds`), from one invariant, `Window`:
  at the top of the loop `next_update` is not ahead of the clock, after it at most a tick
  ahead, and never before the last turn and the backoffs since. The two properties say nothing
  of the top of the loop, where the rebase happens, and so are not inductive without it.
* `LagBounded` (`LagIsLostTime`), from `Lag`: what each place of the loop knows of a module's
  lag. A module not yet polled in the turn may be an interval further behind, and the
  timeout of select is a tick from where every module stands.
* `BaselinesLive` (`BaselinesOutlivePolls`), from `Young`: a baseline is no older than the
  poll it is from, and a module behind the loop's place was polled or was not due.

`CommandsProofs`, for every number of instances of the module, any pids and bounds:

* `CommandsTypes`: `TypeOK`. It needs that a command that was started has a pid and one that
  was not has no state, and that what was read and what was not is at most what was written.
* `HandlersLive` (`OnlyCurrent`) and `NoChildForgotten` (`ChildrenWatched`), from one invariant,
  `Care`. Being watched is not inductive: the handler of a command already told of an exit may
  be the one that goes. `Tended` says which handler will wait for a child: a reaper, or that of
  a current command without the "process" bit, which is exactly what `varnish_poll` reaps when
  it drops a command. That only the exit of its own pid sets the bit comes from
  `OnlyCurrent`, and that from no two instances holding one command.
* `OutputsBecomeMetrics` (`OutputsParsed`), from `Whole` and `Once`. `Whole` follows a command
  from its process to its bits: which of the processes that had its pid is its own
  (`OneProcess`), which exit its handler was told of (`ExitsTold`), and that an output at its end
  was read to the last byte (`ReadsWhole`). `Once` says that a child that nothing disturbed is
  announced once, in the signal pending, the pipe or the call under way, and so told once.
* `ZombiesAreAnnounced` (`ZombieAnnounced`), inductive with the types and `ChildrenWatched`: a
  message is taken from the pipe only for a process that some handler waits for.

`ServerProofs`, for every number of clients, slots and handlers, from `IInv`:

* `TablesAgree` (`WellFormed`): the slots, the handlers and the descriptors are in step
  (`OneOfEach`), handler by handler; their numbers agree because of that.
* `WalkIsLive` (`WalkLive`) and `SelectStaysTrue` (`ReadyIsFresh`), from `Walk`: the handlers from
  `next` on find their descriptor as `select` saw it. It needs that the server's handler is the
  first of the list (`ListShape`): an accept, which may take a number that was just given back,
  comes before any disconnection of the walk.
* `WholeListsOnly` (`StoredWhole`), from `Amounts`: what a client has sent and the agent has read
  is what its slot counts; and from `Connections`: one whose list is stored is not connected.

`LifecycleProofs`, for every set of configurations, any modules in them and any reloads:

* `CodeIsLoaded`, `PasswordsAreOwn`, `HostIdIsUsed` and `PidFileIsRemoved` (`CodeLoaded`,
  `PasswordsOwn`, `HostIdUsed`, `PidFileRemoved`). Loading and unloading go through lists of any
  length, and the model computes what they leave with recursive functions. `Loaded` says of each
  stage how often a library is open and what Redis's static command holds; `States` is what these
  functions are. The files that hold the agent's pid are at most the one it was started to write,
  which an exit removes if it is the one of the present configuration; only the process between
  the forks adds to them afterwards, and is then `late`.

`NetExchangeProofs`, for every number of instances, handlers, descriptors and addresses, every
size of a response and of the buffer:

* `HandlersSafe` (`WellFormed`), from `IInv`: that no close hits the descriptor of another
  handler needs that no two handlers are for one exchange (`OwnExchange`); that a callback runs
  for a handler of the list, that the walk is over when a poll drops handlers, and that the
  thread reads for one that is still there (`Sane`).
* `ResponsesWhole` (`ParsesWhatArrived`): a read that does not fill the buffer has returned all
  that there was, since no more is read than was sent.
* `AllFreed` (`MemoryAccounted`): what is allocated is a function of the exchanges under way,
  those dropped and those cleaned up. It needs that no exchange under way is among the others,
  or its end would free what a poll had left.
* `DescriptorsKept` (`DescriptorsAccounted`): each step leaves the set of descriptors that no
  handler has, or adds one to it and to `failed`. A socket takes a descriptor that was free,
  which is none of a handler's by `IInv`.

They rest on the named assumptions of the modules, which every run evaluates. `PowerAssumption` is
there because the provers do not know that powers of two are naturals; that the nodes of
`MetricList` and the handlers of `Server` are finite is what memory is.

### Recursive functions

The sums, walks and loops of the models are recursive functions over `0 .. n`. What they compute
is proved without the library's induction theorems: a set of naturals that is not empty has a least
element (`LeastOf`), so there is a first place where a claim would fail; or, in the other form, a
subset of `0 .. n` with 0 and the successor of each of its elements is all of it (`UpTo`). The
first use shows that a function with the equations exists (`SumsExist`, `KeptExists`, `States`,
`FindsExist`), so that the `CHOOSE` of the recursive definition is one; the second that all such
functions agree. `FindKey` recurs towards later elements, and is proved from the last one back.

### Not proved

* Liveness (`EventuallyAttempted`, `ListsTaken`, `ExchangesEnd`): it needs fairness and ENABLED,
  which the prover does not have. That every zombie is waited for in the end is not stated at
  all: `ZombieAnnounced` is its safety half, the rest is that the loop reads its pipe.

## The plan

In this order:

1. One walk for all kinds of handlers, with `Server`, `NetExchange` and the signals composed.
2. A clock that is set back, in `Scheduler`; allocations that fail, in `MetricList` and `Delivery`.

## Not modelled

The probes of lib/modules (one call from text to metrics, no state), what the Redis, Memcached,
Nginx, Apache and Varnish modules find in an answer, the metrics of the info module but for the
instance id, the log, the debug dumps, binding the local socket, users and groups, the
packaging and delivery scripts, the tests. Allocations that fail are modelled where the code
goes another way for them and the state tells (`PushFails`, `PollFails`, `SendWithoutList`). libcurl, libyaml and the
kernel are external: they are modelled by what the code relies on.
