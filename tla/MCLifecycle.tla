----------------------------- MODULE MCLifecycle -----------------------------
(***************************************************************************)
(* The configurations of the instance: a host id and one instance of Redis *)
(* with a password; two instances of Redis with different passwords; and   *)
(* one without a password, beside Apache and a module not enabled, and     *)
(* with a path for the pid file that the agent may not remove.             *)
(***************************************************************************)
EXTENDS Lifecycle

Instance(lib, on, auth) == [lib |-> lib, on |-> on, auth |-> auth]

MCConfigs ==
  {[hostid |-> "host", pidfile |-> "pid1",
    mods |-> <<Instance("nginx", TRUE, NULL), Instance("redis", TRUE, "p1")>>],
   [hostid |-> "", pidfile |-> "pid1",
    mods |-> <<Instance("redis", TRUE, "p1"), Instance("redis", TRUE, "p2")>>],
   [hostid |-> "", pidfile |-> "pid2",
    mods |-> <<Instance("nginx", FALSE, NULL), Instance("apache", TRUE, NULL),
               Instance("redis", TRUE, NULL)>>]}
=============================================================================
