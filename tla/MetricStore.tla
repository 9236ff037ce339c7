---------------------------- MODULE MetricStore ----------------------------
(***************************************************************************)
(* The deltas and the aggregates of the metric store:                      *)
(* lib/monikor/src/metrics/metric_store.c and metric_compute.c.            *)
(*                                                                         *)
(* A pushed delta is not sent: it is the baseline the next push with its   *)
(* name and id is compared with, and the difference is pushed instead.  A  *)
(* pushed aggregate is added to the metric of current that has its name    *)
(* and id.  The lists are sequences here, their pointers are in            *)
(* MetricList; what becomes of current once it is sent is in Delivery.     *)
(*                                                                         *)
(* A key stands for a name and an id.  Floats, the rates among them, count *)
(* in units of 1 / RateScale.  The value of a string is its length.        *)
(***************************************************************************)
EXTENDS Integers, Sequences, FiniteSetsExt

CONSTANTS
  Inputs,      \* metrics that may be pushed, without their clock
  Steps,       \* what the wall clock may move by between two pushes
  MaxPush,     \* bound on the number of pushes
  MaxAge,      \* 3 * config->poll_interval
  IntLimit,    \* 2^64: integer values are uint64_t
  ClockLimit,  \* 2^32: _timecmp returns an int
  RateScale

Keys == {in.key : in \in Inputs}

Types == {"int", "float", "string"}

\* MONIKOR_METRIC_DELTA, the second bit of TIMEDELTA, AGGREGATE
Flags == {"delta", "rate", "aggregate"}

ASSUME MetricStoreAssumption ==
  /\ \A in \in Inputs :
       /\ in.type \in Types
       /\ in.flags \subseteq Flags
       /\ in.value \in 0 .. IntLimit - 1
       /\ "rate" \in in.flags => "delta" \in in.flags
  /\ Steps \subseteq Int
  /\ MaxPush \in Nat
  /\ MaxAge \in Nat
  /\ IntLimit \in Nat \ {0}
  /\ ClockLimit \in Nat \ {0}
  /\ RateScale \in Nat \ {0}

VARIABLES
  current,      \* store->current: what is to be sent
  delta,        \* store->delta: the baselines
  delta_bytes,  \* store->delta->data_size
  now,          \* the wall clock
  pushes,       \* number of pushes so far
  last,         \* history: last delta accepted for each key, or none
  owed,         \* history: what the integers of current add up to, per key
  horizon       \* history: clock of the last eviction, less MaxAge

vars == <<current, delta, delta_bytes, now, pushes, last, owed, horizon>>

None == [type |-> "none"]

-----------------------------------------------------------------------------
(* metric_compute.c *)

\* A long converted to an int
AsInt(n) == ((n + ClockLimit \div 2) % ClockLimit) - ClockLimit \div 2

\* _timecmp
TimeCmp(a, b) == AsInt(a - b)

\* n / d for a d of either sign
Quotient(n, d) == IF d > 0 THEN n \div d ELSE -(n \div (-d))

Increase(a, b) == IF b.value < a.value THEN 0 ELSE b.value - a.value

\* _compute_int_delta and _compute_float_delta
DeltaValue(a, b) ==
  IF "rate" \in a.flags
  THEN Quotient(Increase(a, b) * (IF a.type = "int" THEN RateScale ELSE 1),
                b.clock - a.clock)
  ELSE IF a.type = "int" THEN Increase(a, b)
  ELSE b.value - a.value

\* Mutant: strings have deltas as well
Comparable_Strings(a, b) == a.type = b.type

\* monikor_metric_compute_delta returns a metric
Comparable(a, b) == a.type = b.type /\ a.type # "string"

\* monikor_metric_compute_delta: a clone of the older metric
ComputeDelta(a, b) ==
  [a EXCEPT !.value = DeltaValue(a, b),
            !.type  = IF "rate" \in a.flags THEN "float" ELSE a.type,
            !.flags = a.flags \ {"delta", "rate"}]

\* Mutant: the values are exchanged
MetricAdd_Replaced(dst, src) == [dst EXCEPT !.value = src.value]

\* monikor_metric_add, when it succeeds
MetricAdd(dst, src) ==
  [dst EXCEPT !.value = IF dst.type = "int" THEN (@ + src.value) % IntLimit
                                            ELSE @ + src.value]

-----------------------------------------------------------------------------
(* metric_store.c *)

\* monikor_metric_node_size, up to the constant part of a node
NodeSize(m) == IF m.type = "string" THEN 1 + m.value ELSE 1

\* The sum of a sequence of numbers
Total(s) ==
  LET sum[n \in 0 .. Len(s)] == IF n = 0 THEN 0 ELSE sum[n - 1] + s[n]
  IN  sum[Len(s)]

\* monikor_metric_store_push_aggregate
PushAggregate(cur, m) ==
  LET same == {i \in DOMAIN cur : /\ cur[i].key = m.key
                                  /\ cur[i].type = m.type
                                  /\ m.type # "string"}
  IN  IF same = {} THEN Append(cur, m)
      ELSE [cur EXCEPT ![Min(same)] = MetricAdd(@, m)]

\* monikor_metric_store_push of a metric that is not a delta
PushValue(cur, m) ==
  IF "aggregate" \in m.flags THEN PushAggregate(cur, m) ELSE Append(cur, m)

\* is_cached_metric: the baselines a delta may be compared with
Baselines(m) ==
  {i \in DOMAIN delta : /\ delta[i].key = m.key
                        /\ TimeCmp(m.clock, delta[i].clock) # 0}

\* History: a push changes what the integers of current add up to
Owe(k, n) == owed' = [owed EXCEPT ![k] = (@ + n) % IntLimit]

\* A first push: the metric is the baseline
PushBaseline(m) ==
  /\ Baselines(m) = {}
  /\ delta' = Append(delta, m)
  /\ delta_bytes' = delta_bytes + NodeSize(m)
  /\ last' = [last EXCEPT ![m.key] = m]
  /\ UNCHANGED <<current, owed>>

\* Mutant: the baseline stays, the next push is compared with it again
PushComputed_Kept(m) ==
  /\ Baselines(m) # {}
  /\ LET i == Min(Baselines(m)) IN
       /\ Comparable(delta[i], m)
       /\ current' = PushValue(current, ComputeDelta(delta[i], m))
       /\ last' = [last EXCEPT ![m.key] = m]
       /\ IF m.type = "int" /\ "rate" \notin last[m.key].flags
          THEN Owe(m.key, Increase(last[m.key], m)) ELSE UNCHANGED owed
       /\ UNCHANGED <<delta, delta_bytes>>

\* A later one: the difference is pushed, the metric replaces the baseline
PushComputed(m) ==
  /\ Baselines(m) # {}
  /\ LET i == Min(Baselines(m)) IN
       /\ Comparable(delta[i], m)
       /\ current' = PushValue(current, ComputeDelta(delta[i], m))
       /\ delta' = [delta EXCEPT ![i] = m]
  /\ last' = [last EXCEPT ![m.key] = m]
  /\ IF m.type = "int" /\ "rate" \notin last[m.key].flags
     THEN Owe(m.key, Increase(last[m.key], m)) ELSE UNCHANGED owed
  /\ UNCHANGED delta_bytes

\* monikor_metric_compute_delta returns NULL: -1, the metric is left to leak
PushRefused(m) ==
  /\ Baselines(m) # {}
  /\ ~Comparable(delta[Min(Baselines(m))], m)
  /\ UNCHANGED <<current, delta, delta_bytes, last, owed>>

\* monikor_metric_store_push of a metric with the clock it was polled at
MetricStorePush(in, step) ==
  LET m == [key |-> in.key, type |-> in.type, flags |-> in.flags,
            value |-> in.value, clock |-> now + step]
  IN  /\ pushes < MaxPush
      /\ pushes' = pushes + 1
      /\ now' = now + step
      /\ IF "delta" \in m.flags
         THEN PushBaseline(m) \/ PushComputed(m) \/ PushRefused(m)
         ELSE /\ current' = PushValue(current, m)
              /\ IF m.type = "int" THEN Owe(m.key, m.value) ELSE UNCHANGED owed
              /\ UNCHANGED <<delta, delta_bytes, last>>
      /\ UNCHANGED horizon

\* evict_delta_predicate
Evictable(m, clock) == TimeCmp(m.clock, clock) < 0

\* The metrics of s that monikor_metric_store_evict_delta leaves
Kept(s, clock) ==
  LET kept[n \in 0 .. Len(s)] ==
        IF n = 0 THEN <<>>
        ELSE IF Evictable(s[n], clock) THEN kept[n - 1] ELSE Append(kept[n - 1], s[n])
  IN  kept[Len(s)]

\* monikor_evict_metrics, as far as the baselines go
EvictDelta ==
  LET clock == now - MaxAge
      out   == [i \in DOMAIN delta |-> IF Evictable(delta[i], clock)
                                       THEN NodeSize(delta[i]) ELSE 0]
  IN  /\ delta' = Kept(delta, clock)
      /\ delta_bytes' = delta_bytes - Total(out)
      /\ horizon' = clock
      /\ UNCHANGED <<current, now, pushes, last, owed>>

\* The current list leaves for the cache or a request
MetricStoreCache ==
  /\ current' = <<>>
  /\ owed' = [k \in Keys |-> 0]
  /\ UNCHANGED <<delta, delta_bytes, now, pushes, last, horizon>>

\* monikor_metric_store_flush_all
MetricStoreFlushAll ==
  /\ current' = <<>>
  /\ delta' = <<>>
  /\ delta_bytes' = 0
  /\ owed' = [k \in Keys |-> 0]
  /\ UNCHANGED <<now, pushes, last, horizon>>

Init ==
  /\ current = <<>>
  /\ delta = <<>>
  /\ delta_bytes = 0
  /\ now = 0
  /\ pushes = 0
  /\ last = [k \in Keys |-> None]
  /\ owed = [k \in Keys |-> 0]
  /\ horizon = -MaxAge

Next ==
  \/ \E in \in Inputs, step \in Steps : MetricStorePush(in, step)
  \/ EvictDelta
  \/ MetricStoreCache
  \/ MetricStoreFlushAll

Spec == Init /\ [][Next]_vars

-----------------------------------------------------------------------------
(* Properties *)

\* The metrics whose flags are among these
Metric(flags) ==
  [key : Keys, type : Types, flags : flags, value : Int, clock : Int]

\* No delta is in current: a difference has lost the flags that would make the
\* server, or another push, take it for one.
TypeOK ==
  /\ current \in Seq(Metric(SUBSET {"aggregate"}))
  /\ delta \in Seq(Metric({f \in SUBSET Flags : "delta" \in f}))
  /\ delta_bytes \in Nat
  /\ now \in Int
  /\ pushes \in 0 .. MaxPush
  /\ last \in [Keys -> Metric(SUBSET Flags) \union {None}]
  /\ owed \in [Keys -> 0 .. IntLimit - 1]

\* When each poll has a later clock than the one before, the only baseline of a
\* key is the last delta accepted for it: no difference spans a push that was
\* already accounted for (metric_store.c:49-62).
BaselineIsLast ==
  /\ \A i, j \in DOMAIN delta : delta[i].key = delta[j].key => i = j
  /\ \A i \in DOMAIN delta : delta[i] = last[delta[i].key]

\* Modulo 2^64, the integers of current with a key add up to what was pushed for
\* it: plain values, aggregates and the increases of deltas, wherever each was
\* added or appended (metric_store.c:64-74, metric_compute.c:25-39, 63-73).
ValuesConserved ==
  \A k \in Keys :
    LET ints == [i \in DOMAIN current |->
                   IF current[i].key = k /\ current[i].type = "int"
                   THEN current[i].value ELSE 0]
    IN  Total(ints) % IntLimit = owed[k]

\* A baseline is replaced without a word to the list's accounting
\* (metric_store.c:55-57), which stays exact: only numbers are replaced, and by
\* numbers of the same name.
DeltaBytesExact ==
  delta_bytes = Total([i \in DOMAIN delta |-> NodeSize(delta[i])])

\* No baseline is older than the last eviction let through (evict.c:9-10), so a
\* difference never spans more than 3 poll intervals and the time since then.
BaselinesFresh ==
  \A i \in DOMAIN delta : delta[i].clock >= horizon

\* What the pushes and the evictions rely on
WellFormed == TypeOK /\ DeltaBytesExact /\ BaselinesFresh
=============================================================================
