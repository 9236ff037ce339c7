------------------------------ MODULE Lifecycle ------------------------------
(***************************************************************************)
(* The life of the agent: its start as a daemon (main.c, core/init.c,      *)
(* core/daemonize.c), the modules a configuration loads and a reload       *)
(* unloads (src/modules, core/reload.c, core/cleanup.c, core/exit.c), the  *)
(* HTTP requests they make, which are answered later (utils/http.c, the    *)
(* Nginx, Apache and info modules), and two pieces of memory that outlive  *)
(* a module: info_command of the Redis library, which its instances share, *)
(* and instance_id of the info module, which is built in.                  *)
(*                                                                         *)
(* Code is mapped while a handle of its library is open.  A request in     *)
(* flight keeps the address of its callback; after the code was unmapped,  *)
(* the call fails, or runs the code mapped there again.                    *)
(***************************************************************************)
EXTENDS Integers, SequencesExt

CONSTANTS
  Configs,     \* the configurations the file may hold: [mods, hostid, pidfile],
               \* mods a sequence of instances [lib, on, auth]
  Passwords,   \* the passwords of Redis a configuration may give
  Ids,         \* instance ids a cloud may answer
  Removable,   \* the pid files the agent may remove, with the privileges it keeps
  MaxReloads,  \* bound on the reloads
  NULL

Http == {"nginx", "apache"}
Libs == Http \union {"redis"}

Instances == [lib : Libs, on : BOOLEAN, auth : Passwords \union {NULL}]

ASSUME LifecycleAssumption ==
  /\ \A c \in Configs : c.mods \in Seq(Instances)
  /\ MaxReloads \in Nat
  /\ NULL \notin Ids \union Passwords
  /\ "freed" \notin Passwords \union {NULL}

VARIABLES
  at,           \* how far the agent has come
  conf,         \* mon->config
  modules,      \* mon->modules: the instances loaded; the info module is after them
  image,        \* what dlopen and dlclose have left: [handles, gen, command]
  requests,     \* the requests in flight: [lib, gen, epoch]
  instance_id,  \* of the info module, "" at first
  points,       \* config->hostid points to it
  asked,        \* the ids answered since the last reload, and the id before it
  reloads,
  middle,       \* the process between the two forks, which is to write the pid file:
                \* "none", "writing", "gone", or "late" if the agent had ended before
  named,        \* where: its copy of config->pidfile
  pidfiles,     \* the files that hold the pid of this agent
  cause         \* how the agent has ended

loaded == <<conf, modules, image, requests, instance_id, points, asked, reloads>>
files  == <<middle, named, pidfiles, cause>>
vars   == <<at, loaded, files>>

Unmapped == [handles |-> [l \in Libs |-> 0],   \* the handles open on the library
             gen     |-> [l \in Libs |-> 0],   \* how often it was mapped
             command |-> NULL]                 \* info_command: NULL, a password, "freed"

Nothing == [ids |-> {}, before |-> ""]

Init ==
  /\ at = "start"
  /\ conf \in Configs
  /\ modules = <<>> /\ image = Unmapped
  /\ requests = {} /\ instance_id = "" /\ points = FALSE
  /\ asked = Nothing
  /\ reloads = 0
  /\ middle = "none" /\ named = NULL /\ pidfiles = {} /\ cause = ""

\* The process is gone, and its memory with it
Ends(why) ==
  /\ at' = "ended" /\ cause' = why
  /\ modules' = <<>> /\ image' = Unmapped
  /\ requests' = {} /\ instance_id' = "" /\ points' = FALSE /\ asked' = Nothing
  /\ UNCHANGED <<conf, reloads, middle, named>>

-----------------------------------------------------------------------------
(* Start *)

\* monikor_init: the configuration cannot be loaded, a fork or setsid fails
InitFails ==
  /\ at = "start"
  /\ Ends("error")
  /\ UNCHANGED pidfiles

\* perform_daemonize forks twice; the process in between is left with the pid file
Daemonizes ==
  /\ at = "start"
  /\ at' = "child" /\ middle' = "writing" /\ named' = conf.pidfile
  /\ UNCHANGED <<loaded, pidfiles, cause>>

\* daemonize is not set
StaysInForeground ==
  /\ at = "start"
  /\ at' = "child"
  /\ UNCHANGED <<loaded, files>>

\* write_pid, whatever has become of the agent; it may fail
WritePid ==
  /\ middle = "writing"
  /\ middle' = IF at = "ended" THEN "late" ELSE "gone"
  /\ pidfiles' \in {pidfiles, pidfiles \union {named}}
  /\ UNCHANGED <<at, loaded, named, cause>>

\* chdir, drop_privileges or monikor_register_signals fails
ChildFails ==
  /\ at = "child"
  /\ Ends("error")
  /\ UNCHANGED pidfiles

-----------------------------------------------------------------------------
(* Modules *)

\* dlopen of library l
Opens(im, l) ==
  IF im.handles[l] > 0
  THEN [im EXCEPT !.handles[l] = @ + 1]
  ELSE [im EXCEPT !.handles[l] = 1, !.gen[l] = @ + 1,
                  !.command = IF l = "redis" THEN NULL ELSE @]

\* Mutant: the library stays open
Closes_Never(im, l) == im

\* dlclose, in monikor_mod_free
Closes(im, l) == [im EXCEPT !.handles[l] = @ - 1]

\* redis_init, nginx_init, apache_init
Inits(im, m) ==
  IF m.lib = "redis" /\ m.auth # NULL THEN [im EXCEPT !.command = m.auth] ELSE im

\* Mutant: the handle of a library without the functions is kept
Refused_Open(im, l) == Opens(im, l)

\* monikor_load_module fails after dlopen: a function is missing
Refused(im, l) == Closes(Opens(im, l), l)

\* monikor_load_one_module, for st = [image, modules]: m is not enabled or has no
\* file ("skip"), its library is not there ("open"), or lacks a function ("symbol")
LoadOne(st, m, how) ==
  IF ~m.on \/ how = "open" THEN st
  ELSE IF how = "symbol" THEN [st EXCEPT !.image = Refused(@, m.lib)]
  ELSE [image   |-> Inits(Opens(st.image, m.lib), m),
        modules |-> Append(st.modules, m)]

Outcomes == {"ok", "open", "symbol"}

\* monikor_init_modules for configuration c over image im
InitModules(c, im) ==
  \E how \in [1 .. Len(c.mods) -> Outcomes] :
    LET st[k \in 0 .. Len(c.mods)] ==
          IF k = 0 THEN [image |-> im, modules |-> <<>>]
                   ELSE LoadOne(st[k - 1], c.mods[k], how[k])
    IN  /\ image' = st[Len(c.mods)].image
        /\ modules' = st[Len(c.mods)].modules
        /\ conf' = c

\* redis_cleanup, then monikor_mod_free
Destroy(im, m) ==
  Closes(IF m.lib = "redis" /\ im.command # NULL THEN [im EXCEPT !.command = "freed"] ELSE im,
         m.lib)

\* monikor_cleanup_modules
CleanupModules ==
  LET im[k \in 0 .. Len(modules)] ==
        IF k = 0 THEN image ELSE Destroy(im[k - 1], modules[k])
  IN  im[Len(modules)]

RedisLoaded == {k \in DOMAIN modules : modules[k].lib = "redis"}

\* The second instance of Redis frees info_command again, which ends the process
DoubleFree == image.command # NULL /\ Cardinality(RedisLoaded) > 1

StartModules ==
  /\ at = "child"
  /\ InitModules(conf, image)
  /\ at' = "loop"
  /\ UNCHANGED <<requests, instance_id, points, asked, reloads, files>>

\* SIGHUP: the configuration is read again, and its hostid with it
MonikorReload ==
  /\ at = "loop" /\ ~DoubleFree
  /\ reloads < MaxReloads /\ reloads' = reloads + 1
  /\ \E c \in Configs : InitModules(c, CleanupModules)
  /\ points' = FALSE
  /\ asked' = [ids |-> {}, before |-> instance_id]
  /\ UNCHANGED <<at, requests, instance_id, files>>

\* The configuration cannot be loaded: monikor_run returns, and main
ReloadFails ==
  /\ at = "loop"
  /\ Ends("error")
  /\ UNCHANGED pidfiles

\* Mutant: the pid file is left
Unlinked_Kept == pidfiles

\* unlink(mon->config->pidfile), of the configuration read last; an agent that has
\* dropped its privileges may not be allowed to
Unlinked == pidfiles \ ({conf.pidfile} \intersect Removable)

MonikorExit ==
  /\ at = "loop" /\ ~DoubleFree
  /\ pidfiles' = Unlinked
  /\ Ends("exit")

\* A reload with two instances of Redis and a password, or an exit, which has removed
\* the pid file before
FreesTwice ==
  /\ at = "loop" /\ DoubleFree
  /\ pidfiles' \in {pidfiles, Unlinked}
  /\ Ends("crash")

-----------------------------------------------------------------------------
(* Requests *)

\* nginx_poll, apache_poll: monikor_http_get
PollHttp ==
  /\ at = "loop"
  /\ \E k \in DOMAIN modules :
       /\ modules[k].lib \in Http
       /\ requests' = requests \union
            {[lib |-> modules[k].lib, gen |-> image.gen[modules[k].lib], epoch |-> reloads]}
  /\ UNCHANGED <<at, conf, modules, image, instance_id, points, asked, reloads, files>>

\* poll_cloud, on a machine of a cloud
PollCloud ==
  /\ at = "loop"
  /\ requests' = requests \union {[lib |-> "info", gen |-> 0, epoch |-> reloads]}
  /\ UNCHANGED <<at, conf, modules, image, instance_id, points, asked, reloads, files>>

\* The code of the callback of r is where it was
Mapped(r) == r.lib = "info" \/ (image.handles[r.lib] > 0 /\ r.gen = image.gen[r.lib])

\* nginx_poll_metrics and apache_fetch_metrics push metrics; the second one does not
\* expect an answer without a body
HttpAnswered(r) ==
  /\ at = "loop" /\ r.lib \in Http /\ Mapped(r)
  /\ requests' = requests \ {r}
  /\ UNCHANGED <<at, conf, modules, image, instance_id, points, asked, reloads, files>>

HttpCrashes(r) ==
  /\ at = "loop" /\ r.lib \in Http
  /\ ~Mapped(r) \/ r.lib = "apache"
  /\ Ends("crash")
  /\ UNCHANGED pidfiles

\* The code is mapped again at the same address
HttpAnsweredByLuck(r) ==
  /\ at = "loop" /\ r.lib \in Http /\ ~Mapped(r) /\ image.handles[r.lib] > 0
  /\ requests' = requests \ {r}
  /\ UNCHANGED <<at, conf, modules, image, instance_id, points, asked, reloads, files>>

\* Mutant: only the first id is used
Points_First(id) == points \/ (instance_id = "" /\ conf.hostid = "")

\* set_instance_id_as_hostid: config->hostid, when id is not the one remembered
Points(id) == points \/ conf.hostid = ""

\* handle_cloud_instance_id, with status 200; id is what the cloud answers, and an
\* empty one changes nothing
CloudAnswered(r, id) ==
  /\ at = "loop" /\ r.lib = "info"
  /\ requests' = requests \ {r}
  /\ asked' = [asked EXCEPT !.ids = @ \union ({id} \ {""})]
  /\ IF id \in {"", instance_id} THEN UNCHANGED <<instance_id, points>>
     ELSE instance_id' = id /\ points' = Points(id)
  /\ UNCHANGED <<at, conf, modules, image, reloads, files>>

\* An error, or another status
CloudFails(r) ==
  /\ at = "loop" /\ r.lib = "info"
  /\ requests' = requests \ {r}
  /\ UNCHANGED <<at, conf, modules, image, instance_id, points, asked, reloads, files>>

\* Status 200 without a body: strlen(NULL)
CloudCrashes(r) ==
  /\ at = "loop" /\ r.lib = "info"
  /\ Ends("crash")
  /\ UNCHANGED pidfiles

Ended == at = "ended" /\ UNCHANGED vars

Next ==
  \/ InitFails \/ Daemonizes \/ StaysInForeground \/ WritePid \/ ChildFails
  \/ StartModules \/ MonikorReload \/ ReloadFails \/ MonikorExit \/ FreesTwice
  \/ PollHttp \/ PollCloud
  \/ \E r \in requests :
       \/ HttpAnswered(r) \/ HttpCrashes(r) \/ HttpAnsweredByLuck(r)
       \/ CloudFails(r) \/ CloudCrashes(r)
       \/ \E id \in Ids : CloudAnswered(r, id)
  \/ Ended

Spec == Init /\ [][Next]_vars

-----------------------------------------------------------------------------
(* Properties *)

\* A library is open once for every module loaded from it, whatever files were
\* refused, and the code a request will call is there unless a reload has come since
\* (load_module.c:79-82, module.c:32-33).
CodeLoaded ==
  /\ \A l \in Libs : image.handles[l] = Cardinality({k \in DOMAIN modules : modules[k].lib = l})
  /\ \A r \in requests : r.epoch = reloads => Mapped(r)

\* An instance of Redis sends its own password, or none, unless there are others in
\* the configuration; what it sends was not freed (redis.c:10, 33-36, 55).
PasswordsOwn ==
  at = "loop" =>
    \A k \in RedisLoaded :
      /\ image.command # "freed"
      /\ \/ image.command = modules[k].auth
         \/ Cardinality({j \in DOMAIN conf.mods : conf.mods[j].lib = "redis"}) > 1

\* The host id is the one of the configuration, or else the last instance id; it
\* stays unknown after an answer only if a reload has come since it was first
\* answered (info_module.c:91-95).
HostIdUsed ==
  /\ conf.hostid # "" => ~points
  /\ conf.hostid = "" /\ asked.ids # {} => points \/ asked.ids = {asked.before}

\* An agent that ends on a signal leaves a pid file of its own only where it was
\* started to write one, and only if the process between the forks was slower than the
\* agent's whole life, or if the configuration read last gives another path, or one it
\* may not remove: not after any other order of the forks, reloads and answers
\* (exit.c:8, daemonize.c:40-49, reload.c:11-15).
PidFileRemoved ==
  cause = "exit" =>
    /\ pidfiles \subseteq {named}
    /\ middle # "late" => {conf.pidfile} \intersect pidfiles \intersect Removable = {}
=============================================================================
