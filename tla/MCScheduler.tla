---------------------------- MODULE MCScheduler -----------------------------
(***************************************************************************)
(* Small instances of Scheduler.                                           *)
(***************************************************************************)
EXTENDS Scheduler, TLC

\* Two modules, one with an interval below the global one, one with an interval
\* above it in the second file; the update interval is not a multiple of the
\* polls' in the first.
MCConfigs ==
  {[update |-> 3, poll |-> 2, module |-> <<2, 1>>],
   [update |-> 1, poll |-> 1, module |-> <<9, 1>>]}
=============================================================================
