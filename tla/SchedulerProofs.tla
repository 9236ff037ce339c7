-------------------------- MODULE SchedulerProofs ---------------------------
(***************************************************************************)
(* Theorems about Scheduler, for every number of modules, every set of     *)
(* configurations and every bound.                                         *)
(*                                                                         *)
(* The invariant has four parts besides the types: the intervals are those *)
(* of the configuration, next_update lies in a window around the last turn *)
(* of the loop (Window), no module lags by more than what was lost (Lag),  *)
(* and the baselines are as young as the polls they come from (Young).     *)
(***************************************************************************)
EXTENDS Scheduler, WellFoundedInduction, TLAPS

-----------------------------------------------------------------------------
(* Minima *)

\* The minimum and the maximum of two integers.
LEMMA MinOfTwo ==
  ASSUME NEW a \in Int, NEW b \in Int
  PROVE  Min({a, b}) = IF a <= b THEN a ELSE b
  BY DEF Min

LEMMA MaxOfTwo ==
  ASSUME NEW a \in Int, NEW b \in Int
  PROVE  Max({a, b}) = IF a <= b THEN b ELSE a
  BY DEF Max

\* A set of naturals that has an element has a minimum.
LEMMA MinOfNaturals ==
  ASSUME NEW T, T \subseteq Nat, T # {}
  PROVE  Min(T) \in T /\ \A x \in T : Min(T) <= x
  <1>1. \E x \in T : \A y \in T : ~(<<y, x>> \in OpToRel(<, Nat))
    BY NatLessThanWellFounded, WFMin
  <1>2. \A x, y \in Nat : <<y, x>> \in OpToRel(<, Nat) <=> y < x
    BY DEF OpToRel
  <1>3. PICK x \in T : \A y \in T : ~(y < x)
    BY <1>1, <1>2
  <1>4. \A y \in T : x <= y
    BY <1>3
  <1>. QED
    BY <1>4 DEF Min

\* What set_interval_and_clock gives a module: at least a second, and at most
\* the global interval.
LEMMA Intervals ==
  ASSUME NEW c \in Configs
  PROVE  /\ IntervalOf(c) \in [Modules -> Nat \ {0}]
         /\ \A m \in Modules : IntervalOf(c)[m] <= c.poll
  <1>1. c \in Config
    BY SchedulerAssumption
  <1>2. \A m \in Modules : c.module[m] \in Nat \ {0} /\ c.poll \in Nat \ {0}
    BY <1>1 DEF Config
  <1>. QED
    BY <1>2, MinOfTwo DEF IntervalOf

\* The tick is at least a second, and no module's interval is shorter.
LEMMA Ticks ==
  ASSUME NEW c \in Configs
  PROVE  /\ TickInterval(c) \in Nat \ {0}
         /\ \A m \in Modules : TickInterval(c) <= IntervalOf(c)[m]
  <1>. DEFINE T == {c.update, c.poll} \union {IntervalOf(c)[m] : m \in Modules}
  <1>1. c \in Config
    BY SchedulerAssumption
  <1>2. T \subseteq Nat \ {0} /\ T # {}
    BY <1>1, Intervals DEF Config
  <1>3. Min(T) \in T /\ \A x \in T : Min(T) <= x
    BY <1>2, MinOfNaturals
  <1>. QED
    BY <1>2, <1>3 DEF TickInterval

-----------------------------------------------------------------------------
(* The invariant *)

\* The intervals and the tick are those of the configuration (run.c:36).
Configured ==
  /\ interval = IntervalOf(config)
  /\ tick = TickInterval(config)

\* next_update is behind the clock at the top of the loop, at most a tick ahead
\* after it, and never before the last turn and the backoffs since.
Window ==
  /\ at = "top" => next_update <= clock
  /\ at = "poll" => /\ clock <= next_update
                    /\ next_update <= clock + tick
                    /\ polled_at = clock
                    /\ delayed = 0
  /\ WakesInTime
  /\ at # "stopped" => polled_at + delayed <= next_update

\* What each place of the loop knows of the lag of a module: a poll takes the
\* module an interval on, and select does not sleep past the next tick.
Ahead(t, d) == \A m \in Modules : t < last_clock[m] + interval[m] + d + lost

Lag ==
  /\ at = "top" => Ahead(now, tick)
  /\ at = "poll" =>
       /\ now <= clock + lost
       /\ \A m \in Modules :
            now < last_clock[m] + interval[m] + lost + (IF m < i THEN 0 ELSE interval[m])
  /\ Waiting => Ahead(now, tick) /\ Ahead(next_update, tick) /\ Ahead(polled_at, 0)
  /\ at = "select" => Ahead(wakeup, tick)

\* A baseline that the last poll has left is not older than that poll's turn.
Young ==
  /\ \A m \in Modules : last_clock[m] <= now
  /\ \A m \in answered : baseline[m] # None =>
       /\ last_clock[m] <= baseline[m]
       /\ at = "poll" /\ m < i
            => clock < last_clock[m] + interval[m] \/ clock <= baseline[m]

-----------------------------------------------------------------------------
(* Types *)

\* A backoff is a number of seconds.
LEMMA BackoffType == TypeOK => Backoff \in Nat
  <1>. SUFFICES ASSUME TypeOK PROVE Backoff \in Nat
    OBVIOUS
  <1>1. config.update \in Nat
    BY SchedulerAssumption DEF TypeOK, Config
  <1>2. 2 ^ backoff_count \in Nat
    BY PowerAssumption DEF TypeOK
  <1>. QED
    BY <1>1, <1>2 DEF Backoff

LEMMA TypeInit == Init => TypeOK
  <1>. SUFFICES ASSUME Init PROVE TypeOK
    OBVIOUS
  <1>1. config \in Configs
    BY DEF Init
  <1>2. interval \in [Modules -> Nat] /\ tick \in Nat
    BY <1>1, Intervals, Ticks DEF Init
  <1>3. last_clock \in [Modules -> Int] /\ baseline \in [Modules -> Nat \union {None}]
    BY <1>2 DEF Init
  <1>4. /\ now \in 0 .. MaxTime /\ clock \in 0 .. now /\ i \in 1 .. N + 1
        /\ last_update \in 0 .. now /\ polled_at \in 0 .. now
        /\ stalls \in 0 .. MaxStalls /\ inflight \in 0 .. started
        /\ started \in 0 .. MaxRequests /\ next_update \in Nat
    BY SchedulerAssumption DEF Init
  <1>5. /\ backoff_count \in StackWords \union 0 .. BackoffMax
        /\ at = "top" /\ wakeup \in Nat /\ reload \in BOOLEAN
        /\ deferred \subseteq Modules /\ answered \subseteq Modules
        /\ delayed \in Nat /\ lost \in Nat
    BY DEF Init
  <1>. QED
    BY <1>1, <1>2, <1>3, <1>4, <1>5 DEF TypeOK

LEMMA TypeStep == TypeOK /\ [Next]_vars => TypeOK'
  <1>. SUFFICES ASSUME TypeOK, [Next]_vars PROVE TypeOK'
    OBVIOUS
  <1>. USE SchedulerAssumption DEF TypeOK
  <1>. USE DEF time, mods, place, data, hist, net
  <1>1. CASE MonikorReload
    <2>1. config' \in Configs
      BY <1>1 DEF MonikorReload
    <2>2. interval' \in [Modules -> Nat] /\ tick' \in Nat
      BY <1>1, <2>1, Intervals, Ticks DEF MonikorReload
    <2>3. /\ last_clock' \in [Modules -> Int]
          /\ baseline' \in [Modules -> Nat \union {None}]
      BY <1>1, <2>2 DEF MonikorReload
    <2>. QED
      BY <1>1, <2>1, <2>2, <2>3 DEF MonikorReload
  <1>2. CASE ReloadFails
    BY <1>2 DEF ReloadFails
  <1>3. CASE NextTick
    <2>1. Max({next_update + tick, now}) \in Nat
      BY MaxOfTwo
    <2>. QED
      BY <1>3, <2>1 DEF NextTick
  <1>4. CASE PollNextModule
    <2>1. i \in Modules
      BY <1>4 DEF PollNextModule, Modules
    <2>2. CASE Due(i)
      <3>1. last_clock' \in [Modules -> Int]
        BY <1>4, <2>1, <2>2 DEF PollNextModule
      <3>2. /\ baseline' \in [Modules -> Nat \union {None}]
            /\ deferred' \subseteq Modules
            /\ answered' \subseteq Modules
        <4>1. PollModule(i)
          BY <1>4, <2>2 DEF PollNextModule
        <4>2. now \in Nat \union {None}
          OBVIOUS
        <4>3. baseline' \in [Modules -> Nat \union {None}]
          BY <2>1, <4>1, <4>2 DEF PollModule
        <4>4. deferred' \subseteq Modules /\ answered' \subseteq Modules
          BY <2>1, <4>1 DEF PollModule
        <4>. QED
          BY <4>3, <4>4
      <3>3. i' \in 1 .. N + 1
        BY <1>4 DEF PollNextModule
      <3>. QED
        BY <1>4, <2>2, <3>1, <3>2, <3>3 DEF PollNextModule
    <2>3. CASE ~Due(i)
      BY <1>4, <2>3 DEF PollNextModule
    <2>. QED
      BY <2>2, <2>3
  <1>5. CASE MonikorUpdate
    BY <1>5 DEF MonikorUpdate, EvictBaselines, SendAll
  <1>6. CASE SelectBegins
    <2>1. Max({next_update, now}) \in Nat
      BY MaxOfTwo
    <2>. QED
      BY <1>6, <2>1 DEF SelectBegins
  <1>7. CASE SelectEnds
    BY <1>7 DEF SelectEnds
  <1>8. CASE RequestSettled
    BY <1>8 DEF RequestSettled
  <1>9. CASE RequestRejected
    <2>1. Backoff \in Nat
      BY BackoffType
    <2>. QED
      BY <1>9, <2>1 DEF RequestRejected, NextCount
  <1>10. CASE \E m \in Modules : DeferredMetrics(m)
    BY <1>10 DEF DeferredMetrics
  <1>11. CASE FlagReload
    BY <1>11 DEF FlagReload
  <1>12. CASE SendNow
    BY <1>12 DEF SendNow, SendAll
  <1>13. CASE FlushAll
    BY <1>13 DEF FlushAll
  <1>14. CASE MonikorExit
    BY <1>14 DEF MonikorExit
  <1>15. CASE SecondPasses
    BY <1>15 DEF SecondPasses
  <1>16. CASE \E d \in Stalls : Stall(d)
    BY <1>16 DEF Stall
  <1>17. CASE UNCHANGED vars
    BY <1>17 DEF vars
  <1>. QED
    BY <1>1, <1>2, <1>3, <1>4, <1>5, <1>6, <1>7, <1>8, <1>9, <1>10, <1>11, <1>12,
       <1>13, <1>14, <1>15, <1>16, <1>17 DEF Next, Stopped

\* The variables of the loop keep their types, in every configuration and
\* whatever is late (run.c, update.c, poll.c).
THEOREM SchedulerTypes == Spec => []TypeOK
  BY TypeInit, TypeStep, PTL DEF Spec

-----------------------------------------------------------------------------
(* The window of next_update *)

Facts == TypeOK /\ Configured

\* What the types and the configuration say about the seconds compared below.
LEMMA Seconds ==
  ASSUME Facts
  PROVE  /\ now \in Nat /\ clock \in Nat /\ clock <= now /\ next_update \in Nat
         /\ last_update \in Nat /\ polled_at \in Nat /\ polled_at <= now
         /\ delayed \in Nat /\ lost \in Nat /\ wakeup \in Nat
         /\ tick \in Nat \ {0} /\ config.update \in Nat \ {0}
         /\ config.poll \in Nat \ {0}
         /\ \A m \in Modules : /\ interval[m] \in Nat \ {0}
                               /\ interval[m] <= config.poll
                               /\ tick <= interval[m]
                               /\ last_clock[m] \in Int
  <1>1. config \in Configs
    BY DEF Facts, TypeOK
  <1>2. config \in Config
    BY <1>1, SchedulerAssumption
  <1>3. tick \in Nat \ {0} /\ \A m \in Modules : /\ interval[m] \in Nat \ {0}
                                                 /\ interval[m] <= config.poll
                                                 /\ tick <= interval[m]
    BY <1>1, Intervals, Ticks DEF Facts, Configured
  <1>4. config.update \in Nat \ {0} /\ config.poll \in Nat \ {0}
    BY <1>2 DEF Config
  <1>. QED
    BY <1>3, <1>4, SchedulerAssumption DEF Facts, TypeOK

LEMMA ConfiguredStep == Configured /\ [Next]_vars => Configured'
  <1>. SUFFICES ASSUME Configured, [Next]_vars PROVE Configured'
    OBVIOUS
  <1>1. CASE MonikorReload
    BY <1>1 DEF MonikorReload, Configured
  <1>2. CASE UNCHANGED <<config, interval, tick>>
    BY <1>2 DEF Configured
  <1>. QED
    BY <1>1, <1>2 DEF Next, vars, mods, ReloadFails, NextTick, PollNextModule,
       MonikorUpdate, SelectBegins, SelectEnds, RequestSettled, RequestRejected,
       DeferredMetrics, FlagReload, SendNow, FlushAll, MonikorExit, SecondPasses,
       Stall, Stopped

LEMMA WindowStep == Facts /\ Window /\ [Next]_vars => Window'
  <1>. SUFFICES ASSUME Facts, Window, [Next]_vars PROVE Window'
    OBVIOUS
  <1>0. /\ now \in Nat /\ clock \in Nat /\ clock <= now /\ next_update \in Nat
        /\ last_update \in Nat /\ polled_at \in Nat /\ delayed \in Nat
        /\ tick \in Nat \ {0} /\ config.update \in Nat \ {0}
    BY Seconds
  <1>. USE <1>0 DEF Window, WakesInTime, Waiting
  <1>. USE DEF time, mods, place, data, hist, net
  <1>1. CASE MonikorReload
    BY <1>1 DEF MonikorReload
  <1>2. CASE ReloadFails
    BY <1>2 DEF ReloadFails
  <1>3. CASE NextTick
    <2>1. /\ Max({next_update + tick, now}) <= now + tick
          /\ now <= Max({next_update + tick, now})
      BY <1>3, MaxOfTwo DEF NextTick
    <2>2. /\ at' = "poll" /\ clock' = now /\ polled_at' = now /\ delayed' = 0
          /\ tick' = tick /\ next_update' = Max({next_update + tick, now})
      BY <1>3 DEF NextTick
    <2>. QED
      BY <2>1, <2>2, MaxOfTwo
  <1>4. CASE PollNextModule
    BY <1>4 DEF PollNextModule
  <1>5. CASE MonikorUpdate
    <2>1. CASE UpdateDue
      BY <1>5, <2>1 DEF MonikorUpdate
    <2>2. CASE ~UpdateDue
      BY <1>5, <2>2 DEF MonikorUpdate, UpdateDue
    <2>. QED
      BY <2>1, <2>2
  <1>6. CASE SelectBegins
    BY <1>6 DEF SelectBegins
  <1>7. CASE SelectEnds
    BY <1>7 DEF SelectEnds, LoopAgain
  <1>8. CASE RequestSettled
    BY <1>8 DEF RequestSettled
  <1>9. CASE RequestRejected
    <2>1. Backoff \in Nat
      BY BackoffType DEF Facts
    <2>. QED
      BY <1>9, <2>1 DEF RequestRejected
  <1>10. CASE \E m \in Modules : DeferredMetrics(m)
    BY <1>10 DEF DeferredMetrics
  <1>11. CASE FlagReload
    BY <1>11 DEF FlagReload
  <1>12. CASE SendNow
    BY <1>12 DEF SendNow
  <1>13. CASE FlushAll
    BY <1>13 DEF FlushAll
  <1>14. CASE MonikorExit
    BY <1>14 DEF MonikorExit
  <1>15. CASE SecondPasses
    BY <1>15 DEF SecondPasses
  <1>16. CASE \E d \in Stalls : Stall(d)
    BY <1>16 DEF Stall
  <1>17. CASE UNCHANGED vars
    BY <1>17 DEF vars
  <1>. QED
    BY <1>1, <1>2, <1>3, <1>4, <1>5, <1>6, <1>7, <1>8, <1>9, <1>10, <1>11, <1>12,
       <1>13, <1>14, <1>15, <1>16, <1>17 DEF Next, Stopped

LEMMA WindowInvariant == Spec => [](Facts /\ Window)
  <1>1. Init => Facts /\ Window
    BY TypeInit DEF Init, Facts, Configured, Window, WakesInTime, Waiting
  <1>2. Facts /\ Window /\ [Next]_vars => (Facts /\ Window)'
    BY TypeStep, ConfiguredStep, WindowStep DEF Facts
  <1>. QED
    BY <1>1, <1>2, PTL DEF Spec

\* The loop wakes up less than a tick after the next update is due, backoffs
\* apart, whatever stalls, rebases and reloads came before (run.c:38-55).
THEOREM WakesUp == Spec => []WakesInTime
  <1>1. Facts /\ Window => WakesInTime
    BY DEF Window
  <1>. QED
    BY WindowInvariant, <1>1, PTL

\* Between two turns of the loop there are at least the backoffs added in
\* between: neither the rebase nor a late loop shortens them (run.c:40-44).
THEOREM BackoffKept == Spec => BackoffHolds
  <1>1. Facts /\ Window /\ NextTick => now - polled_at >= delayed
    <2>. SUFFICES ASSUME Facts, Window, NextTick PROVE now - polled_at >= delayed
      OBVIOUS
    <2>1. next_update <= clock /\ polled_at + delayed <= next_update
      BY DEF NextTick, Window
    <2>. QED
      BY <2>1, Seconds
  <1>2. Facts /\ Window => [NextTick => now - polled_at >= delayed]_vars
    BY <1>1
  <1>. QED
    BY WindowInvariant, <1>2, PTL DEF BackoffHolds

-----------------------------------------------------------------------------
(* The lag of the modules *)

LEMMA LagStep == Facts /\ Window /\ Lag /\ [Next]_vars => Lag'
  <1>. SUFFICES ASSUME Facts, Window, Lag, [Next]_vars PROVE Lag'
    OBVIOUS
  <1>0. /\ now \in Nat /\ clock \in Nat /\ clock <= now /\ next_update \in Nat
        /\ polled_at \in Nat /\ polled_at <= now /\ lost \in Nat /\ wakeup \in Nat
        /\ tick \in Nat \ {0}
        /\ \A m \in Modules : /\ interval[m] \in Nat \ {0}
                              /\ tick <= interval[m]
                              /\ last_clock[m] \in Int
    BY Seconds
  <1>00. /\ i \in Nat /\ last_clock \in [Modules -> Int]
    BY SchedulerAssumption DEF Facts, TypeOK
  <1>. USE <1>0, <1>00 DEF Lag, Ahead, Waiting
  <1>. USE DEF time, mods, place, data, hist, net
  <1>1. CASE MonikorReload
    <2>1. config' \in Configs
      BY <1>1 DEF MonikorReload
    <2>2. tick' \in Nat \ {0} /\ \A m \in Modules : interval'[m] \in Nat \ {0}
      BY <1>1, <2>1, Intervals, Ticks DEF MonikorReload
    <2>3. /\ at' = "top" /\ now' = now /\ lost' = 0
          /\ \A m \in Modules : last_clock'[m] = now - interval'[m]
      BY <1>1 DEF MonikorReload
    <2>. QED
      BY <2>2, <2>3
  <1>2. CASE ReloadFails
    BY <1>2 DEF ReloadFails
  <1>3. CASE NextTick
    <2>1. /\ at' = "poll" /\ i' = 1 /\ now' = now /\ clock' = now /\ lost' = lost
          /\ last_clock' = last_clock /\ interval' = interval
      BY <1>3 DEF NextTick
    <2>2. \A m \in Modules : now < last_clock[m] + interval[m] + tick + lost
      BY <1>3 DEF NextTick
    <2>3. \A m \in Modules :
            /\ ~(m < 1)
            /\ now < last_clock[m] + interval[m] + lost + interval[m]
      <3>. SUFFICES ASSUME NEW m \in Modules
                    PROVE  /\ ~(m < 1)
                           /\ now < last_clock[m] + interval[m] + lost + interval[m]
        OBVIOUS
      <3>1. ~(m < 1)
        BY DEF Modules
      <3>2. /\ interval[m] \in Nat /\ tick <= interval[m] /\ last_clock[m] \in Int
            /\ now < last_clock[m] + interval[m] + tick + lost
        BY <2>2
      <3>3. now < last_clock[m] + interval[m] + lost + interval[m]
        BY <3>2
      <3>. QED
        BY <3>1, <3>3
    <2>4. now <= clock' + lost
      BY <2>1
    <2>. QED
      BY <2>1, <2>3, <2>4
  <1>4. CASE PollNextModule
    <2>0. i \in Modules
      BY <1>4, SchedulerAssumption DEF PollNextModule, Modules, Facts, TypeOK
    <2>1. /\ i \in Modules /\ at = "poll" /\ at' = "poll" /\ i' = i + 1 /\ now' = now
          /\ clock' = clock /\ lost' = lost /\ interval' = interval
      BY <1>4, <2>0 DEF PollNextModule
    <2>2. /\ now <= clock + lost
          /\ \A m \in Modules :
               now < last_clock[m] + interval[m] + lost + (IF m < i THEN 0 ELSE interval[m])
      BY <2>1
    <2>3. now < last_clock'[i] + interval[i] + lost
      <3>1. CASE Due(i)
        <4>1. last_clock'[i] = last_clock[i] + interval[i]
          BY <1>4, <2>1, <3>1 DEF PollNextModule
        <4>2. now < last_clock[i] + interval[i] + lost + interval[i]
          BY <2>1, <2>2
        <4>. QED
          BY <2>1, <4>1, <4>2
      <3>2. CASE ~Due(i)
        <4>1. last_clock'[i] = last_clock[i] /\ clock < last_clock[i] + interval[i]
          BY <1>4, <2>1, <3>2 DEF PollNextModule, Due
        <4>. QED
          BY <2>1, <2>2, <4>1
      <3>. QED
        BY <3>1, <3>2
    <2>4. \A m \in Modules : m # i => last_clock'[m] = last_clock[m]
      BY <1>4, <2>1 DEF PollNextModule
    <2>5. \A m \in Modules :
            now < last_clock'[m] + interval[m] + lost
                    + (IF m < i + 1 THEN 0 ELSE interval[m])
      <3>. SUFFICES ASSUME NEW m \in Modules
                    PROVE  now < last_clock'[m] + interval[m] + lost
                                   + (IF m < i + 1 THEN 0 ELSE interval[m])
        OBVIOUS
      <3>0. m \in Nat
        BY DEF Modules
      <3>1. CASE m = i
        <4>1. m < i + 1
          BY <3>0, <3>1
        <4>2. last_clock'[i] \in Int
          BY <1>4, <2>1 DEF PollNextModule
        <4>. QED
          BY <2>1, <2>3, <3>1, <4>1, <4>2
      <3>2. CASE m # i
        BY <2>1, <2>2, <2>4, <3>0, <3>2
      <3>. QED
        BY <3>1, <3>2
    <2>. QED
      BY <2>1, <2>2, <2>5
  <1>5. CASE MonikorUpdate
    <2>1. /\ at = "poll" /\ at' = "wait" /\ now' = now /\ lost' = lost /\ tick' = tick
          /\ last_clock' = last_clock /\ interval' = interval /\ polled_at' = polled_at
          /\ next_update' = next_update
      BY <1>5 DEF MonikorUpdate
    <2>2. next_update <= clock + tick
      BY <2>1 DEF Window
    <2>3. \A m \in Modules : m < i
      BY <1>5, SchedulerAssumption DEF MonikorUpdate, Modules
    <2>4. \A m \in Modules : now < last_clock[m] + interval[m] + lost
      BY <2>1, <2>3
    <2>. QED
      BY <2>1, <2>2, <2>4
  <1>6. CASE SelectBegins
    <2>1. wakeup' = now \/ wakeup' = next_update
      BY <1>6, MaxOfTwo DEF SelectBegins
    <2>. QED
      BY <1>6, <2>1 DEF SelectBegins
  <1>7. CASE SelectEnds
    BY <1>7 DEF SelectEnds
  <1>8. CASE RequestSettled
    BY <1>8 DEF RequestSettled
  <1>9. CASE RequestRejected
    <2>1. Backoff \in Nat
      BY BackoffType DEF Facts
    <2>. QED
      BY <1>9, <2>1 DEF RequestRejected
  <1>10. CASE \E m \in Modules : DeferredMetrics(m)
    BY <1>10 DEF DeferredMetrics
  <1>11. CASE FlagReload
    BY <1>11 DEF FlagReload
  <1>12. CASE SendNow
    BY <1>12 DEF SendNow
  <1>13. CASE FlushAll
    BY <1>13 DEF FlushAll
  <1>14. CASE MonikorExit
    BY <1>14 DEF MonikorExit
  <1>15. CASE SecondPasses
    BY <1>15 DEF SecondPasses
  <1>16. CASE \E d \in Stalls : Stall(d)
    <2>1. PICK d \in Stalls : Stall(d)
      BY <1>16
    <2>2. d \in Nat \ {0}
      BY <2>1, SchedulerAssumption
    <2>. QED
      BY <2>1, <2>2 DEF Stall
  <1>17. CASE UNCHANGED vars
    BY <1>17 DEF vars
  <1>. QED
    BY <1>1, <1>2, <1>3, <1>4, <1>5, <1>6, <1>7, <1>8, <1>9, <1>10, <1>11, <1>12,
       <1>13, <1>14, <1>15, <1>16, <1>17 DEF Next, Stopped

\* No module lags by more than stalls and backoffs have taken: the tick is short
\* enough for each of them (run.c:10-19, poll.c:27-31).
THEOREM LagBounded == Spec => []LagIsLostTime
  <1>1. Init => Lag
    <2>. SUFFICES ASSUME Init PROVE Lag
      OBVIOUS
    <2>1. Facts
      BY TypeInit DEF Init, Facts, Configured
    <2>2. \A m \in Modules : last_clock[m] = now - interval[m]
      BY DEF Init
    <2>. QED
      BY <2>1, <2>2, Seconds DEF Init, Lag, Ahead, Waiting
  <1>2. Facts /\ Window /\ (Facts /\ Window)' /\ Lag /\ [Next]_vars => Lag'
    BY LagStep
  <1>3. Facts /\ Lag => LagIsLostTime
    <2>. SUFFICES ASSUME Facts, Lag, Waiting
                  PROVE  \A m \in Modules : last_clock[m] + interval[m] + lost > polled_at
      BY DEF LagIsLostTime
    <2>. QED
      BY Seconds DEF Lag, Ahead
  <1>. QED
    BY WindowInvariant, <1>1, <1>2, <1>3, PTL DEF Spec

-----------------------------------------------------------------------------
(* The age of the baselines *)

LEMMA YoungStep == Facts /\ Young /\ [Next]_vars => Young'
  <1>. SUFFICES ASSUME Facts, Young, [Next]_vars PROVE Young'
    OBVIOUS
  <1>0. /\ now \in Nat /\ clock \in Nat /\ clock <= now /\ i \in Nat
        /\ \A m \in Modules : m \in Nat /\ last_clock[m] \in Int /\ interval[m] \in Nat \ {0}
    BY Seconds, SchedulerAssumption DEF Facts, TypeOK, Modules
  <1>00. /\ baseline \in [Modules -> Nat \union {None}] /\ answered \subseteq Modules
         /\ last_clock \in [Modules -> Int]
         /\ None \notin Nat
    BY SchedulerAssumption DEF Facts, TypeOK
  <1>. USE <1>0, <1>00 DEF Young
  <1>. USE DEF time, mods, place, data, hist, net
  <1>1. CASE MonikorReload
    <2>1. config' \in Configs
      BY <1>1 DEF MonikorReload
    <2>2. \A m \in Modules : interval'[m] \in Nat
      BY <1>1, <2>1, Intervals DEF MonikorReload
    <2>. QED
      BY <1>1, <2>2 DEF MonikorReload
  <1>2. CASE ReloadFails
    BY <1>2 DEF ReloadFails
  <1>3. CASE NextTick
    BY <1>3 DEF NextTick, Modules
  <1>4. CASE PollNextModule
    <2>0. i \in Modules
      BY <1>4, SchedulerAssumption DEF PollNextModule, Modules, Facts, TypeOK
    <2>1. /\ at = "poll" /\ i' = i + 1 /\ now' = now /\ clock' = clock
          /\ interval' = interval
      BY <1>4, <2>0 DEF PollNextModule
    <2>2. \A m \in Modules : m # i =>
            /\ last_clock'[m] = last_clock[m] /\ baseline'[m] = baseline[m]
            /\ m \in answered' <=> m \in answered
      BY <1>4, <2>0 DEF PollNextModule, PollModule
    <2>3. /\ last_clock'[i] <= now
          /\ i \in answered' /\ baseline'[i] # None =>
               /\ last_clock'[i] <= baseline'[i]
               /\ clock < last_clock'[i] + interval[i] \/ clock <= baseline'[i]
      <3>1. CASE Due(i)
        <4>1. last_clock'[i] = last_clock[i] + interval[i]
          BY <1>4, <2>0, <3>1 DEF PollNextModule
        <4>2. last_clock'[i] <= clock
          BY <4>1, <3>1 DEF Due
        <4>3. last_clock'[i] \in Int
          BY <2>0, <4>1
        <4>4. i \in answered' => baseline'[i] = now
          BY <1>4, <2>0, <3>1 DEF PollNextModule, PollModule
        <4>. QED
          BY <4>2, <4>3, <4>4
      <3>2. CASE ~Due(i)
        <4>1. /\ last_clock' = last_clock /\ baseline' = baseline /\ answered' = answered
          BY <1>4, <3>2 DEF PollNextModule, data
        <4>2. clock < last_clock[i] + interval[i]
          BY <2>0, <3>2 DEF Due
        <4>. QED
          BY <2>0, <4>1, <4>2
      <3>. QED
        BY <3>1, <3>2
    <2>4. \A m \in Modules : m < i + 1 => m = i \/ m < i
      OBVIOUS
    <2>5. \A m \in Modules : last_clock'[m] <= now'
      BY <2>1, <2>2, <2>3
    <2>6. \A m \in answered' : m \in Modules
      BY <1>4, <2>0 DEF PollNextModule, PollModule, data
    <2>7. ASSUME NEW m \in answered', baseline'[m] # None
          PROVE  /\ last_clock'[m] <= baseline'[m]
                 /\ m < i + 1
                      => clock < last_clock'[m] + interval[m] \/ clock <= baseline'[m]
      <3>1. CASE m = i
        BY <2>3, <2>7, <3>1
      <3>2. CASE m # i
        <4>1. m \in answered /\ baseline[m] # None
          BY <2>2, <2>6, <2>7, <3>2
        <4>2. /\ last_clock[m] <= baseline[m]
              /\ m < i => clock < last_clock[m] + interval[m] \/ clock <= baseline[m]
          BY <2>1, <4>1
        <4>. QED
          BY <2>2, <2>4, <2>6, <3>2, <4>2
      <3>. QED
        BY <3>1, <3>2
    <2>. QED
      BY <2>1, <2>5, <2>7
  <1>5. CASE MonikorUpdate
    <2>1. /\ at' = "wait" /\ last_clock' = last_clock /\ now' = now /\ answered' = answered
      BY <1>5 DEF MonikorUpdate
    <2>2. \A m \in Modules : baseline'[m] # None => baseline'[m] = baseline[m]
      BY <1>5 DEF MonikorUpdate, EvictBaselines
    <2>. QED
      BY <2>1, <2>2
  <1>6. CASE SelectBegins
    BY <1>6 DEF SelectBegins
  <1>7. CASE SelectEnds
    BY <1>7 DEF SelectEnds
  <1>8. CASE RequestSettled
    BY <1>8 DEF RequestSettled
  <1>9. CASE RequestRejected
    <2>1. /\ at' = at /\ last_clock' = last_clock /\ now' = now /\ answered' = answered
          /\ clock' = clock /\ interval' = interval /\ i' = i /\ at = "select"
      BY <1>9 DEF RequestRejected
    <2>2. \A m \in Modules : baseline'[m] # None => baseline'[m] = baseline[m]
      BY <1>9 DEF RequestRejected
    <2>. QED
      BY <2>1, <2>2
  <1>10. CASE \E m \in Modules : DeferredMetrics(m)
    <2>1. PICK m \in Modules : DeferredMetrics(m)
      BY <1>10
    <2>2. /\ at' = "select" /\ last_clock' = last_clock /\ now' = now
          /\ answered' = answered \union {m} /\ baseline'[m] = now
      BY <2>1 DEF DeferredMetrics
    <2>3. \A k \in Modules : k # m => baseline'[k] = baseline[k]
      BY <2>1 DEF DeferredMetrics
    <2>. QED
      BY <2>2, <2>3
  <1>11. CASE FlagReload
    BY <1>11 DEF FlagReload
  <1>12. CASE SendNow
    BY <1>12 DEF SendNow
  <1>13. CASE FlushAll
    <2>1. /\ at' = "select" /\ last_clock' = last_clock /\ now' = now /\ answered' = answered
          /\ \A m \in Modules : baseline'[m] = None
      BY <1>13 DEF FlushAll
    <2>. QED
      BY <2>1
  <1>14. CASE MonikorExit
    BY <1>14 DEF MonikorExit
  <1>15. CASE SecondPasses
    BY <1>15 DEF SecondPasses
  <1>16. CASE \E d \in Stalls : Stall(d)
    <2>1. PICK d \in Stalls : Stall(d)
      BY <1>16
    <2>2. d \in Nat \ {0}
      BY <2>1, SchedulerAssumption
    <2>. QED
      BY <2>1, <2>2 DEF Stall
  <1>17. CASE UNCHANGED vars
    BY <1>17 DEF vars
  <1>. QED
    BY <1>1, <1>2, <1>3, <1>4, <1>5, <1>6, <1>7, <1>8, <1>9, <1>10, <1>11, <1>12,
       <1>13, <1>14, <1>15, <1>16, <1>17 DEF Next, Stopped

\* Eviction never takes the baseline of a module whose last poll has answered,
\* however late the polls are, except in a turn of the loop that has itself been
\* blocked for more than two intervals (evict.c:5-13, run.c:39).
THEOREM BaselinesLive == Spec => BaselinesOutlivePolls
  <1>1. Init => Young
    <2>. SUFFICES ASSUME Init PROVE Young
      OBVIOUS
    <2>1. Facts
      BY TypeInit DEF Init, Facts, Configured
    <2>2. /\ \A m \in Modules : last_clock[m] = now - interval[m]
          /\ answered = {}
      BY DEF Init
    <2>. QED
      BY <2>1, <2>2, Seconds DEF Young
  <1>2. ASSUME Facts, Young, MonikorUpdate,
               NEW m \in answered, baseline[m] # None, baseline'[m] = None
        PROVE  now - clock > 2 * config.poll
    <2>0. m \in Modules /\ m \in Nat /\ baseline[m] \in Nat
      BY <1>2 DEF Facts, TypeOK, Modules
    <2>1. at = "poll" /\ m < i
      BY <1>2, <2>0, SchedulerAssumption DEF MonikorUpdate, Modules, Facts, TypeOK
    <2>2. baseline[m] < now - 3 * config.poll
      BY <1>2, <2>0 DEF MonikorUpdate, EvictBaselines
    <2>3. last_clock[m] <= baseline[m]
      BY <1>2 DEF Young
    <2>4. clock < last_clock[m] + interval[m] \/ clock <= baseline[m]
      BY <1>2, <2>1 DEF Young
    <2>5. /\ now \in Nat /\ clock \in Nat /\ config.poll \in Nat
          /\ interval[m] \in Nat /\ interval[m] <= config.poll /\ last_clock[m] \in Int
      BY <1>2, <2>0, Seconds
    <2>. QED
      BY <2>0, <2>2, <2>3, <2>4, <2>5
  <1>3. Facts /\ Young => [\A m \in answered :
                             MonikorUpdate /\ baseline[m] # None /\ baseline'[m] = None
                               => now - clock > 2 * config.poll]_vars
    BY <1>2
  <1>4. Facts /\ Window /\ Young /\ [Next]_vars => Young'
    BY YoungStep
  <1>. QED
    BY WindowInvariant, <1>1, <1>3, <1>4, PTL DEF Spec, BaselinesOutlivePolls
=============================================================================
