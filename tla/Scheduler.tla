----------------------------- MODULE Scheduler ------------------------------
(***************************************************************************)
(* The clock of the agent: the main loop (src/core/run.c), the polls of    *)
(* the modules (poll.c), the updates and the exponential backoff           *)
(* (update.c), the age of the delta baselines (evict.c) and the reload     *)
(* (reload.c), which the signals and the answers of the server drive from  *)
(* inside select(2).                                                       *)
(*                                                                         *)
(* Times are seconds, as in the code's tv_sec.  Time passes while the loop *)
(* is in select, and anywhere else by a stall: a module that blocks in its *)
(* poll, a process stopped or traced, a second that turns between two      *)
(* readings of the clock.  It never goes back.                             *)
(*                                                                         *)
(* The content of the store is in Delivery and MetricStore; here a module  *)
(* has one baseline, the clock of the delta metrics it pushed last.        *)
(***************************************************************************)
EXTENDS Integers, FiniteSetsExt

CONSTANTS
  N,            \* number of modules loaded; mon->modules.modules is 1 .. N
  Configs,      \* the configurations a (re)load may find
  MaxRequests,  \* bound on the number of requests started
  BackoffMax,   \* MONIKOR_UPDATE_BACKOFF_COUNT_MAX
  StackWords,   \* what mon.update.backoff_count may hold before it is set
  None,         \* the baseline of a module that has none
  MaxTime,      \* bound on the time modelled
  Stalls,       \* the seconds a stall may last
  MaxStalls     \* bound on the number of stalls

Modules == 1 .. N

\* update and poll: config->update_interval and poll_interval; module[m]: the
\* "interval" of module m's own file, or poll_interval if it has none
\* (0 is accepted by the code, makes the loop spin and is left out)
Config ==
  [update : Nat \ {0}, poll : Nat \ {0}, module : [Modules -> Nat \ {0}]]

ASSUME SchedulerAssumption ==
  /\ N \in Nat
  /\ Configs \subseteq Config
  /\ MaxRequests \in Nat
  /\ BackoffMax \in Nat \ {0}
  /\ StackWords \subseteq Nat
  /\ None \notin Nat
  /\ MaxTime \in Nat
  /\ Stalls \subseteq Nat \ {0}
  /\ MaxStalls \in Nat

\* Backoffs are not negative.  The provers do not know the powers of two.
ASSUME PowerAssumption == \A k \in StackWords \union 0 .. BackoffMax : 2 ^ k \in Nat

VARIABLES
  now,            \* gettimeofday
  stalls,         \* stalls so far
  config,         \* mon->config
  interval,       \* interval[m]: mod->poll_interval
  last_clock,     \* last_clock[m]: mod->last_clock
  at,             \* where monikor_run is
  tick, clock,    \* its local variables tick and now
  i,              \* the module monikor_poll_modules is at
  last_update,    \* mon->update.last_clock
  next_update,    \* mon->update.next_update
  backoff_count,  \* mon->update.backoff_count
  wakeup,         \* when the select under way times out, or 0
  reload,         \* mon->flags & MONIKOR_FLAG_RELOAD
  inflight,       \* number of requests without an answer
  started,        \* number of requests started so far
  baseline,       \* baseline[m]: the clock of m's metrics in store->delta
  deferred,       \* the modules whose last poll's metrics are to come
  answered,       \* history: modules whose last poll has pushed its metrics
  polled_at,      \* history: clock at the last turn of the loop
  delayed,        \* history: seconds of backoff added since
  lost            \* history: seconds of stall and backoff since the (re)load

time   == <<now, stalls>>
mods   == <<config, interval, tick, reload>>
place  == <<at, clock, i, wakeup>>
data   == <<baseline, deferred, answered>>
hist   == <<polled_at, delayed, lost>>
net    == <<inflight, started>>
vars   == <<now, stalls, config, interval, last_clock, at, tick, clock, i,
            last_update, next_update, backoff_count, wakeup, reload, inflight,
            started, baseline, deferred, answered, polled_at, delayed, lost>>

-----------------------------------------------------------------------------
\* Mutant: the interval of the module's file is taken as it is
IntervalOf_Uncapped(c) == c.module

\* set_interval_and_clock: a module's interval is at most the global one
IntervalOf(c) == [m \in Modules |-> Min({c.module[m], c.poll})]

\* Mutant: the modules are left out
TickInterval_Global(c) == Min({c.update, c.poll})

\* get_tick_interval
TickInterval(c) == Min({c.update, c.poll} \union {IntervalOf(c)[m] : m \in Modules})

\* monikor_init, then the beginning of monikor_run
Init ==
  /\ now = 0
  /\ stalls = 0
  /\ config \in Configs
  /\ interval = IntervalOf(config)
  /\ last_clock = [m \in Modules |-> now - interval[m]]
  /\ at = "top"
  /\ tick = TickInterval(config)
  /\ clock = now
  /\ i = 1
  /\ last_update = now
  /\ next_update = now
  /\ backoff_count \in StackWords
  /\ wakeup = 0
  /\ reload = FALSE
  /\ inflight = 0
  /\ started = 0
  /\ baseline = [m \in Modules |-> None]
  /\ deferred = {}
  /\ answered = {}
  /\ polled_at = now
  /\ delayed = 0
  /\ lost = 0

-----------------------------------------------------------------------------
(* The top of the loop *)

\* monikor_reload: the modules are loaded again and the store is a new one.  An
\* answer to the modules unloaded is not followed further.
MonikorReload ==
  /\ at = "top" /\ reload
  /\ config' \in Configs
  /\ interval' = IntervalOf(config')
  /\ last_clock' = [m \in Modules |-> now - interval'[m]]
  /\ tick' = TickInterval(config')
  /\ reload' = FALSE
  /\ baseline' = [m \in Modules |-> None]
  /\ deferred' = {}
  /\ answered' = {}
  /\ lost' = 0
  /\ UNCHANGED <<time, place, last_update, next_update, backoff_count, net,
                 polled_at, delayed>>

\* The configuration or the modules cannot be loaded: monikor_run returns 1
ReloadFails ==
  /\ at = "top" /\ reload
  /\ at' = "stopped"
  /\ UNCHANGED <<time, mods, last_clock, clock, i, wakeup, last_update,
                 next_update, backoff_count, net, data, hist>>

\* next_update moves by a tick, and is rebased to now when it is behind
NextTick ==
  /\ at = "top" /\ ~reload
  /\ clock' = now
  /\ next_update' = Max({next_update + tick, now})
  /\ at' = "poll"
  /\ i' = 1
  /\ polled_at' = now
  /\ delayed' = 0
  /\ UNCHANGED <<time, mods, last_clock, wakeup, last_update, backoff_count,
                 net, data, lost>>

-----------------------------------------------------------------------------
(* monikor_poll_modules, one module at a time *)

Due(m) == last_clock[m] + interval[m] <= clock

\* poll_module: the metrics are pushed, or there is none (an error, no data),
\* or they are deferred to an answer the module waits for
PollModule(m) ==
  \/ /\ baseline' = [baseline EXCEPT ![m] = now]
     /\ answered' = answered \union {m}
     /\ UNCHANGED deferred
  \/ /\ answered' = answered \ {m}
     /\ deferred' \in {deferred, deferred \union {m}}
     /\ UNCHANGED baseline

PollNextModule ==
  /\ at = "poll"
  /\ i <= N
  /\ IF Due(i)
     THEN /\ PollModule(i)
          /\ last_clock' = [last_clock EXCEPT ![i] = @ + interval[i]]
     ELSE UNCHANGED <<data, last_clock>>
  /\ i' = i + 1
  /\ UNCHANGED <<time, mods, at, clock, wakeup, last_update, next_update,
                 backoff_count, net, hist>>

-----------------------------------------------------------------------------
(* monikor_update, then the select loop *)

\* monikor_evict_metrics, for the baselines; evict reads the clock again
EvictBaselines ==
  baseline' = [m \in Modules |->
    IF baseline[m] # None /\ baseline[m] < now - 3 * config.poll
    THEN None ELSE baseline[m]]

\* monikor_send_all: a request starts, or nothing can or need be sent
SendAll ==
  \/ UNCHANGED net
  \/ /\ started < MaxRequests
     /\ started' = started + 1
     /\ inflight' = inflight + 1

\* Mutant: > for >=, an update that is due to the second waits for a tick
UpdateDue_Late == last_update + config.update < clock

UpdateDue == last_update + config.update <= clock

MonikorUpdate ==
  /\ at = "poll"
  /\ i > N
  /\ IF UpdateDue
     THEN /\ last_update' = clock
          /\ EvictBaselines
          /\ SendAll
     ELSE UNCHANGED <<last_update, baseline, net>>
  /\ at' = "wait"
  /\ UNCHANGED <<time, mods, last_clock, clock, i, wakeup, next_update,
                 backoff_count, deferred, answered, hist>>

\* The head of the do loop: the timeout of select
SelectBegins ==
  /\ at = "wait"
  /\ clock' = now
  /\ wakeup' = Max({next_update, now})
  /\ at' = "select"
  /\ UNCHANGED <<time, mods, last_clock, i, last_update, next_update,
                 backoff_count, net, data, hist>>

\* Mutant: the loop is left as soon as select returns
LoopAgain_Never == FALSE

\* The condition of the do loop, on the clock read before select
LoopAgain == clock < next_update

\* select returns, at its timeout or for a descriptor or libcurl
SelectEnds ==
  /\ at = "select"
  /\ at' = IF LoopAgain THEN "wait" ELSE "top"
  /\ wakeup' = 0
  /\ UNCHANGED <<time, mods, last_clock, clock, i, last_update, next_update,
                 backoff_count, net, data, hist>>

-----------------------------------------------------------------------------
(* What runs inside of monikor_io_handler_poll *)

\* monikor_update_success: an answer 200, 5xx, or a failure of libcurl
RequestSettled ==
  /\ at = "select"
  /\ inflight > 0
  /\ inflight' = inflight - 1
  /\ backoff_count' \in {0, backoff_count}      \* the same: another code
  /\ UNCHANGED <<time, mods, last_clock, place, last_update, next_update, started,
                 data, hist>>

\* monikor_update_backoff: an answer 4xx
Backoff == IF backoff_count > 0 THEN config.update * 2 ^ backoff_count ELSE 0

NextCount == IF backoff_count < BackoffMax THEN backoff_count + 1 ELSE backoff_count

RequestRejected ==
  /\ at = "select"
  /\ inflight > 0
  /\ inflight' = inflight - 1
  /\ next_update' = next_update + Backoff
  /\ baseline' = IF backoff_count > 0 THEN [m \in Modules |-> None] ELSE baseline
  /\ backoff_count' = NextCount
  /\ delayed' = delayed + Backoff
  /\ lost' = lost + Backoff
  /\ UNCHANGED <<time, mods, last_clock, place, last_update, started, deferred,
                 answered, polled_at>>

\* The answer a module has waited for: its metrics are pushed
DeferredMetrics(m) ==
  /\ at = "select"
  /\ m \in deferred
  /\ deferred' = deferred \ {m}
  /\ baseline' = [baseline EXCEPT ![m] = now]
  /\ answered' = answered \union {m}
  /\ UNCHANGED <<time, mods, last_clock, place, last_update, next_update,
                 backoff_count, net, hist>>

\* SIGHUP: monikor_flag_reload
FlagReload ==
  /\ at = "select"
  /\ reload' = TRUE
  /\ UNCHANGED <<time, config, interval, tick, last_clock, place, last_update,
                 next_update, backoff_count, net, data, hist>>

\* SIGUSR1: monikor_send_all
SendNow ==
  /\ at = "select"
  /\ SendAll
  /\ UNCHANGED <<time, mods, last_clock, place, last_update, next_update,
                 backoff_count, data, hist>>

\* SIGUSR2: monikor_flush_all
FlushAll ==
  /\ at = "select"
  /\ baseline' = [m \in Modules |-> None]
  /\ UNCHANGED <<time, mods, last_clock, place, last_update, next_update,
                 backoff_count, net, deferred, answered, hist>>

\* SIGTERM, SIGINT, SIGQUIT: monikor_exit
MonikorExit ==
  /\ at = "select"
  /\ at' = "stopped"
  /\ UNCHANGED <<time, mods, last_clock, clock, i, wakeup, last_update,
                 next_update, backoff_count, net, data, hist>>

-----------------------------------------------------------------------------
(* Time *)

SecondPasses ==
  /\ at = "select"
  /\ now < wakeup
  /\ now < MaxTime
  /\ now' = now + 1
  /\ UNCHANGED <<stalls, mods, last_clock, place, last_update, next_update,
                 backoff_count, net, data, hist>>

Stall(d) ==
  /\ at # "stopped"
  /\ stalls < MaxStalls
  /\ now + d <= MaxTime
  /\ stalls' = stalls + 1
  /\ now' = now + d
  /\ lost' = lost + d
  /\ UNCHANGED <<mods, last_clock, place, last_update, next_update,
                 backoff_count, net, data, polled_at, delayed>>

Stopped == at = "stopped" /\ UNCHANGED vars

Next ==
  \/ MonikorReload \/ ReloadFails
  \/ NextTick
  \/ PollNextModule
  \/ MonikorUpdate
  \/ SelectBegins \/ SelectEnds
  \/ RequestSettled \/ RequestRejected
  \/ \E m \in Modules : DeferredMetrics(m)
  \/ FlagReload \/ SendNow \/ FlushAll \/ MonikorExit
  \/ SecondPasses
  \/ \E d \in Stalls : Stall(d)
  \/ Stopped

Spec == Init /\ [][Next]_vars

-----------------------------------------------------------------------------
(* Properties *)

TypeOK ==
  /\ now \in 0 .. MaxTime
  /\ stalls \in 0 .. MaxStalls
  /\ config \in Configs
  /\ interval \in [Modules -> Nat]
  /\ last_clock \in [Modules -> Int]
  /\ at \in {"top", "poll", "wait", "select", "stopped"}
  /\ tick \in Nat
  /\ clock \in 0 .. now
  /\ i \in 1 .. N + 1
  /\ last_update \in 0 .. now
  /\ next_update \in Nat
  /\ backoff_count \in StackWords \union 0 .. BackoffMax
  /\ wakeup \in Nat
  /\ reload \in BOOLEAN
  /\ inflight \in 0 .. started
  /\ started \in 0 .. MaxRequests
  /\ baseline \in [Modules -> Nat \union {None}]
  /\ deferred \subseteq Modules
  /\ answered \subseteq Modules
  /\ polled_at \in 0 .. now
  /\ delayed \in Nat
  /\ lost \in Nat

Waiting == at \in {"wait", "select"}

\* While the loop waits (run.c:48-55) it is going to wake up in time for the
\* next update: less than a tick after it is due, and later only by the
\* backoffs added meanwhile (update.c:35).  Neither the stalls of the past, nor
\* the rebase (run.c:42), nor the new tick of a reload (run.c:36) pile up.
WakesInTime ==
  Waiting => next_update < last_update + config.update + tick + delayed

\* A backoff is not shortened by what the loop is late: from one turn of the
\* loop to the next there are at least the seconds of backoff added in between.
BackoffHolds ==
  [][NextTick => now - polled_at >= delayed]_vars

\* A module is behind its schedule by what stalls and backoffs have taken since
\* it was loaded and no more: the tick (run.c:10-19) is short enough for every
\* module, and a module takes one interval at a time (poll.c:31).
LagIsLostTime ==
  Waiting => \A m \in Modules : last_clock[m] + interval[m] + lost > polled_at

\* The baselines of a module live until its next poll, however late that poll
\* is: when an update takes them away (evict.c:9) although the module's last poll
\* has pushed its metrics, the turn of the loop itself has taken more than two
\* poll intervals, its polls having blocked since run.c:39 read the clock.
BaselinesOutlivePolls ==
  [][\A m \in answered :
       MonikorUpdate /\ baseline[m] # None /\ baseline'[m] = None
         => now - clock > 2 * config.poll]_vars
=============================================================================
