------------------------------ MODULE Commands ------------------------------
(***************************************************************************)
(* The commands the agent runs: monikor_command_exec and its callbacks     *)
(* (src/utils/command.c), the processes it watches and reaps               *)
(* (src/io_handler/monikor.c), SIGCHLD and the pipe between the handler of *)
(* signals and the loop (src/core/sig.c), and the Varnish module that runs *)
(* one command at each poll (lib/modules/varnish).  The module may be      *)
(* loaded under several names, one for each instance of Varnish.           *)
(*                                                                         *)
(* A command is the rank of its start.  Its process, the write end of its  *)
(* output and SIGCHLD are the system's: a child may close its output       *)
(* before it exits or leave it to a process of its own, may be stopped,    *)
(* and its pid may be given to a later one.  SIGCHLD is not queued: while  *)
(* one is pending the next is lost.                                        *)
(*                                                                         *)
(* Memory is never short here.  The list of watched processes is a set:    *)
(* every handler of a pid is told at once, and a reaper that frees itself  *)
(* in the walk leaves its "next" as it was.                                *)
(***************************************************************************)
EXTENDS Integers, Sequences, FiniteSets

CONSTANTS
  Modules,      \* the instances of the Varnish module
  Pids,         \* the pids the system gives
  NoPid,
  ReadSize,     \* MNK_CMD_READ_SIZE
  MaxOutput,    \* bound on what a command writes
  PipeSize,     \* messages the pipe of the signals can hold
  MaxCommands,  \* bound on the commands started
  MaxStops,     \* bound on the times children are stopped
  MaxReloads    \* bound on the reloads

Commands == 1 .. MaxCommands
Reaper == 0      \* reap_process_callback, in the place of a command

ASSUME CommandsAssumption ==
  /\ NoPid \notin Pids
  /\ ReadSize \in Nat \ {0}
  /\ MaxOutput \in Nat
  /\ PipeSize \in Nat \ {0}
  /\ MaxCommands \in Nat
  /\ MaxStops \in Nat
  /\ MaxReloads \in Nat

VARIABLES
  at,           \* where the thread is: in its loop, or blocked in a call
  cmd_handler,  \* cmd_handler[m]: mod->cmd_handler, 0 for NULL
  started,      \* number of commands started
  pid,          \* pid[c]: cmd->pid
  state,        \* state[c]: the bits of cmd->state
  output,       \* output[c]: cmd->output_size
  open,         \* the commands whose output_handler->fd is open
  outputs,      \* the commands whose output_handler is registered
  processes,    \* mon->io_handlers.processes: a pid and a command or Reaper
  sigpipe,      \* the messages in the pipe of the signals
  proc,         \* proc[p]: what the system says of the child p
  killed,       \* the children SIGKILL was sent to
  held,         \* the commands whose output some process can write to, as long
                \* as the agent has not dropped them
  unread,       \* unread[c]: what was written and not read
  pending,      \* the pid of the pending SIGCHLD, or NoPid
  stops,        \* children stopped so far
  reloads,      \* reloads so far
  written,      \* history: written[c], what the command wrote
  exited,       \* history: exited[c], how its process ended
  parsed,       \* history: parsed[c], times its output was turned to metrics
  lost,         \* history: zombies whose SIGCHLD was lost
  disturbed     \* history: pids stopped, or given twice

agent  == <<cmd_handler, started, pid, reloads>>
cmds   == <<state, output, open, parsed>>
lists  == <<outputs, processes>>
system == <<proc, killed, stops, exited, disturbed>>
pipes  == <<held, unread, written>>
chld   == <<pending, lost>>
vars   == <<at, cmd_handler, started, pid, state, output, open, outputs, processes,
            sigpipe, proc, killed, held, unread, pending, stops, reloads, written,
            exited, parsed, lost, disturbed>>

Zombie(p) == proc[p] \in {"succeeded", "failed"}
Alive(p)  == proc[p] \in {"running", "stopped"}

Init ==
  /\ at = <<"loop">>
  /\ cmd_handler = [m \in Modules |-> 0]
  /\ started = 0
  /\ pid = [c \in Commands |-> NoPid]
  /\ state = [c \in Commands |-> {}]
  /\ output = [c \in Commands |-> 0]
  /\ open = {} /\ outputs = {} /\ processes = {}
  /\ sigpipe = <<>>
  /\ proc = [p \in Pids |-> "none"]
  /\ killed = {} /\ held = {}
  /\ unread = [c \in Commands |-> 0]
  /\ pending = NoPid
  /\ stops = 0 /\ reloads = 0
  /\ written = [c \in Commands |-> 0]
  /\ exited = [c \in Commands |-> "none"]
  /\ parsed = [c \in Commands |-> 0]
  /\ lost = {} /\ disturbed = {}

-----------------------------------------------------------------------------
(* The system: children, their output, SIGCHLD *)

\* SIGCHLD for p; end: p has become a zombie
Raise(p, end) ==
  /\ pending' = IF pending = NoPid THEN p ELSE pending
  /\ lost' = IF end /\ pending \notin {NoPid, p} THEN lost \union {p} ELSE lost

\* The command whose process p is
Running(p) == CHOOSE c \in Commands : pid[c] = p /\ exited[c] = "none"

ChildWrites(c) ==
  /\ c \in held
  /\ written[c] < MaxOutput
  /\ written' = [written EXCEPT ![c] = @ + 1]
  /\ unread' = [unread EXCEPT ![c] = @ + 1]
  /\ UNCHANGED <<at, agent, cmds, lists, sigpipe, system, held, chld>>

\* The last write end is closed, before or after the child exits
OutputEnds(c) ==
  /\ c \in held
  /\ held' = held \ {c}
  /\ UNCHANGED <<at, agent, cmds, lists, sigpipe, system, unread, written, chld>>

ChildExits(p) ==
  /\ Alive(p)
  /\ \E how \in {"succeeded", "failed"} :
       /\ p \in killed => how = "failed"
       /\ p \notin killed => proc[p] = "running"
       /\ proc' = [proc EXCEPT ![p] = how]
       /\ exited' = [exited EXCEPT ![Running(p)] = how]
  /\ killed' = killed \ {p}
  /\ Raise(p, TRUE)
  /\ UNCHANGED <<at, agent, cmds, lists, sigpipe, stops, disturbed, pipes>>

ChildStops(p) ==
  /\ proc[p] = "running"
  /\ stops < MaxStops
  /\ stops' = stops + 1
  /\ proc' = [proc EXCEPT ![p] = "stopped"]
  /\ disturbed' = disturbed \union {p}
  /\ Raise(p, FALSE)
  /\ UNCHANGED <<at, agent, cmds, lists, sigpipe, killed, exited, pipes>>

ChildContinues(p) ==
  /\ proc[p] = "stopped"
  /\ proc' = [proc EXCEPT ![p] = "running"]
  /\ Raise(p, FALSE)
  /\ UNCHANGED <<at, agent, cmds, lists, sigpipe, killed, stops, exited, disturbed,
                 pipes>>

\* handle_sigaction, wherever the thread is: it writes to the pipe
HandleSigaction ==
  /\ pending # NoPid
  /\ at # <<"write">>
  /\ Len(sigpipe) < PipeSize
  /\ sigpipe' = Append(sigpipe, pending)
  /\ pending' = NoPid
  /\ UNCHANGED <<at, agent, cmds, lists, system, pipes, lost>>

\* The pipe is full, and the thread that would read it is the one that writes
HandleSigactionBlocks ==
  /\ pending # NoPid
  /\ at # <<"write">>
  /\ Len(sigpipe) = PipeSize
  /\ at' = <<"write">>
  /\ UNCHANGED <<agent, cmds, lists, sigpipe, system, pipes, chld>>

-----------------------------------------------------------------------------
(* The callbacks of a command *)

\* Mutant: the exit alone finishes a command
Finished_OnExit(s) == "process" \in s

\* monikor_command_finished
Finished(s) == {"process", "read"} \subseteq s

\* maybe_finish_command_exec, then varnish_poll_metrics: 1 if metrics are pushed
Parses(s) == IF Finished(s) /\ "failed" \notin s THEN 1 ELSE 0

\* Mutant: a reaper does not count
Watched_NoReaper(p) == \E h \in processes : h.pid = p /\ h.cmd # Reaper

\* monikor_process_watched
Watched(p) == \E h \in processes : h.pid = p

\* The callbacks of monikor_process_exited, for every handler of the pid:
\* handle_process_exit, and reap_process_callback, which goes away
TellExit(p, how) ==
  LET told == {c \in Commands : [pid |-> p, cmd |-> c] \in processes}
      bits == IF how = "failed" THEN {"process", "failed"} ELSE {"process"}
  IN  /\ state' = [c \in Commands |-> IF c \in told THEN state[c] \union bits
                                                    ELSE state[c]]
      /\ parsed' = [c \in Commands |-> IF c \in told THEN parsed[c] + Parses(state'[c])
                                                     ELSE parsed[c]]
      /\ processes' = processes \ {[pid |-> p, cmd |-> Reaper]}

\* waitpid on a zombie; it is gone, its pid is free
Waited(p) ==
  /\ Zombie(p)
  /\ TellExit(p, proc[p])
  /\ proc' = [proc EXCEPT ![p] = "none"]
  /\ lost' = lost \ {p}
  /\ at' = <<"loop">>

\* handle_signal and monikor_process_exited
HandleSignal ==
  /\ at = <<"loop">>
  /\ sigpipe # <<>>
  /\ sigpipe' = Tail(sigpipe)
  /\ LET p == Head(sigpipe) IN
       \/ ~Watched(p) /\ UNCHANGED <<at, cmds, lists, proc, lost>>
       \/ Watched(p) /\ Waited(p) /\ UNCHANGED <<output, open, outputs>>
       \/ /\ Watched(p) /\ Alive(p)                \* waitpid blocks
          /\ at' = <<"waitpid", p>>
          /\ UNCHANGED <<cmds, lists, proc, lost>>
       \/ /\ Watched(p) /\ proc[p] = "none"        \* waitpid fails, status is 0
          /\ TellExit(p, "succeeded")
          /\ UNCHANGED <<at, output, open, outputs, proc, lost>>
  /\ UNCHANGED <<agent, killed, stops, exited, disturbed, pipes, pending>>

WaitpidReturns ==
  /\ at[1] = "waitpid"
  /\ Waited(at[2])
  /\ UNCHANGED <<agent, output, open, outputs, sigpipe, killed, stops, exited,
                 disturbed, pipes, pending>>

\* handle_command_output reads until it gets less than ReadSize.  What is there
\* fills the last read or not; a read that finds nothing ends the output, or
\* blocks as long as a process can write to it.
ReadAll(c) ==
  /\ output' = [output EXCEPT ![c] = @ + unread[c]]
  /\ unread' = [unread EXCEPT ![c] = 0]
  /\ IF unread[c] % ReadSize # 0
     THEN /\ at' = <<"loop">>
          /\ parsed' = [parsed EXCEPT ![c] = @ + Parses(state[c])]
          /\ UNCHANGED <<state, open>>
     ELSE IF c \in held
     THEN /\ at' = <<"read", c>>
          /\ UNCHANGED <<state, open, parsed>>
     ELSE /\ at' = <<"loop">>
          /\ state' = [state EXCEPT ![c] = @ \union {"read"}]
          /\ open' = open \ {c}
          /\ parsed' = [parsed EXCEPT ![c] = @ + Parses(state'[c])]

Readable(c) == unread[c] > 0 \/ c \notin held

HandleCommandOutput(c) ==
  /\ at = <<"loop">>
  /\ c \in outputs \intersect open
  /\ Readable(c)
  /\ ReadAll(c)
  /\ UNCHANGED <<agent, lists, sigpipe, system, held, written, chld>>

ReadReturns ==
  /\ at[1] = "read"
  /\ Readable(at[2])
  /\ ReadAll(at[2])
  /\ UNCHANGED <<agent, lists, sigpipe, system, held, written, chld>>

\* The err: label.  The callback is not called, even if the process is done.
ReadFails(c) ==
  /\ at = <<"loop">>
  /\ c \in outputs \intersect open
  /\ Readable(c)
  /\ state' = [state EXCEPT ![c] = @ \union {"read", "failed"}]
  /\ output' = [output EXCEPT ![c] = 0]
  /\ open' = open \ {c}
  /\ UNCHANGED <<at, agent, parsed, lists, sigpipe, system, pipes, chld>>

-----------------------------------------------------------------------------
(* The Varnish module *)

Handler(c) == [pid |-> pid[c], cmd |-> c]

\* Mutant: an unfinished command is dropped and no one waits for its process
ToReap_None(m) == {}

\* varnish_poll: the previous command, if it has not finished
ToReap(m) == {c \in {cmd_handler[m]} \ {0} : ~Finished(state[c])}

\* monikor_reap_process: a reaper for each of the commands cs, and SIGKILL
Reapers(cs) == {[pid |-> pid[c], cmd |-> Reaper] : c \in cs}

Kills(cs) == {p \in {pid[c] : c \in cs} : Alive(p)}

\* Mutant: the command is freed and stays in the list
Left_Kept(cs, drop) == processes \union Reapers(cs)

\* The commands cs are reaped, those of drop unregistered and freed.  The
\* descriptor of an output that has not ended stays open.
Left(cs, drop) == (processes \union Reapers(cs)) \ {Handler(c) : c \in drop}

\* varnish_poll when the command is started: monikor_command_exec and
\* monikor_command_register_io_handlers
VarnishPoll(m, p) ==
  LET c == started + 1
      dropped == {cmd_handler[m]} \ {0}
  IN  /\ at = <<"loop">>
      /\ started < MaxCommands
      /\ proc[p] = "none"
      /\ started' = c
      /\ cmd_handler' = [cmd_handler EXCEPT ![m] = c]
      /\ pid' = [pid EXCEPT ![c] = p]
      /\ processes' = Left(ToReap(m), dropped) \union {[pid |-> p, cmd |-> c]}
      /\ outputs' = (outputs \ dropped) \union {c}
      /\ killed' = killed \union Kills(ToReap(m))
      /\ proc' = [proc EXCEPT ![p] = "running"]
      /\ open' = open \union {c}
      /\ held' = (held \ dropped) \union {c}
      /\ disturbed' = disturbed \union ({p} \intersect {pid[d] : d \in Commands})
      /\ UNCHANGED <<at, state, output, parsed, sigpipe, stops, reloads, exited,
                     unread, written, chld>>

\* varnish_poll when pipe or fork fail
VarnishPollFails(m) ==
  LET dropped == {cmd_handler[m]} \ {0} IN
  /\ at = <<"loop">>
  /\ processes' = Left(ToReap(m), dropped)
  /\ outputs' = outputs \ dropped
  /\ killed' = killed \union Kills(ToReap(m))
  /\ held' = held \ dropped
  /\ cmd_handler' = [cmd_handler EXCEPT ![m] = 0]
  /\ UNCHANGED <<at, started, pid, reloads, cmds, sigpipe, proc, stops, exited,
                 disturbed, unread, written, chld>>

\* monikor_reload: varnish_cleanup reaps the command, finished or not
VarnishCleanup ==
  LET current == {cmd_handler[m] : m \in Modules} \ {0} IN
  /\ at = <<"loop">>
  /\ reloads < MaxReloads
  /\ reloads' = reloads + 1
  /\ processes' = Left(current, current)
  /\ outputs' = outputs \ current
  /\ killed' = killed \union Kills(current)
  /\ held' = held \ current
  /\ cmd_handler' = [m \in Modules |-> 0]
  /\ UNCHANGED <<at, started, pid, cmds, sigpipe, proc, stops, exited, disturbed,
                 unread, written, chld>>

\* select times out
SelectTimesOut == at = <<"loop">> /\ UNCHANGED vars

\* The thread never leaves its handler of signals
Stuck == at = <<"write">> /\ UNCHANGED vars

Agent ==
  \/ HandleSignal \/ WaitpidReturns \/ ReadReturns
  \/ \E c \in Commands : HandleCommandOutput(c) \/ ReadFails(c)
  \/ \E m \in Modules : VarnishPollFails(m) \/ \E p \in Pids : VarnishPoll(m, p)
  \/ VarnishCleanup
  \/ SelectTimesOut

System ==
  \/ \E c \in Commands : ChildWrites(c) \/ OutputEnds(c)
  \/ \E p \in Pids : ChildExits(p) \/ ChildStops(p) \/ ChildContinues(p)
  \/ HandleSigaction \/ HandleSigactionBlocks \/ Stuck

Next == Agent \/ System

Spec == Init /\ [][Next]_vars

-----------------------------------------------------------------------------
(* Properties *)

TypeOK ==
  /\ at \in {<<"loop">>, <<"write">>}
              \union {<<"waitpid", p>> : p \in Pids} \union {<<"read", c>> : c \in 1 .. started}
  /\ cmd_handler \in [Modules -> 0 .. started]
  /\ started \in 0 .. MaxCommands
  /\ pid \in [Commands -> Pids \union {NoPid}]
  /\ state \in [Commands -> SUBSET {"process", "read", "failed"}]
  /\ output \in [Commands -> 0 .. MaxOutput]
  /\ open \subseteq 1 .. started
  /\ outputs \subseteq 1 .. started
  /\ processes \subseteq [pid : Pids, cmd : {Reaper} \union 1 .. started]
  /\ sigpipe \in Seq(Pids) /\ Len(sigpipe) <= PipeSize
  /\ proc \in [Pids -> {"none", "running", "stopped", "succeeded", "failed"}]
  /\ killed \subseteq {p \in Pids : Alive(p)}
  /\ held \subseteq 1 .. started
  /\ unread \in [Commands -> 0 .. MaxOutput]
  /\ pending \in Pids \union {NoPid}
  /\ stops \in 0 .. MaxStops /\ reloads \in 0 .. MaxReloads
  /\ written \in [Commands -> 0 .. MaxOutput]
  /\ exited \in [Commands -> {"none", "succeeded", "failed"}]
  /\ parsed \in [Commands -> Nat]
  /\ lost \subseteq Pids /\ disturbed \subseteq Pids

\* Every child that has not been waited for has a handler that will wait for it
\* (monikor.c:37-39): the one of its command, or a reaper when a poll or a reload
\* has dropped the command (varnish.c:59-63 and 86-96), whatever process had the
\* same pid before.
ChildrenWatched == \A p \in Pids : proc[p] # "none" => Watched(p)

\* The handlers of commands are those of the modules' current commands: none is
\* called after its module has freed it (varnish.c:94).
OnlyCurrent ==
  LET current == {cmd_handler[m] : m \in Modules} \ {0}
  IN  /\ outputs = current
      /\ {h \in processes : h.cmd # Reaper} = {Handler(c) : c \in current}

\* An output becomes metrics only if the command's own process has succeeded and
\* all it has written was read (command.c:11-17), whichever comes first, and
\* whatever waitpid says of a process that is already gone (monikor.c:39).
ParsedWhole ==
  \A c \in Commands : parsed[c] > 0 =>
    /\ exited[c] = "succeeded"
    /\ c \notin held
    /\ output[c] = written[c]

\* It becomes metrics only once, unless a child with that pid was stopped, which
\* SA_NOCLDSTOP would keep from the agent (sig.c:63), or the pid was given twice.
ParsedOnce ==
  \A c \in Commands : parsed[c] > 1 => pid[c] \in disturbed

\* What becomes of outputs
OutputsParsed == ParsedWhole /\ ParsedOnce

\* A zombie that waits is announced: its pid is on its way to the loop.  What the
\* handler of signals could not write, and a SIGCHLD that another one hides, are
\* the only ways to lose it.
ZombieAnnounced ==
  \A p \in Pids : Zombie(p) =>
    \/ p \in lost
    \/ pending = p
    \/ \E k \in 1 .. Len(sigpipe) : sigpipe[k] = p
    \/ at \in {<<"waitpid", p>>, <<"write">>}
=============================================================================
