--------------------------- MODULE CommandsProofs ---------------------------
(***************************************************************************)
(* Theorems about Commands, for every set of modules and pids and every    *)
(* bound.  The invariant that keeps the children watched says which        *)
(* handler will wait for a child: a reaper, or that of a current command   *)
(* that has not been told of an exit.  It needs that the handlers are      *)
(* those of the current commands, and that no two modules share one.  What *)
(* becomes metrics needs more: which process of a pid was whose, that an   *)
(* output that ended was read to its last byte, and that a child that was  *)
(* not disturbed is announced once.                                        *)
(***************************************************************************)
EXTENDS Commands, SequenceTheorems, TLAPS

-----------------------------------------------------------------------------
(* The invariant *)

\* The commands started have a pid, and the others no bit of state.
Given ==
  /\ \A c \in 1 .. started : pid[c] \in Pids
  /\ \A c \in Commands : c > started => state[c] = {}

\* What is read and what is not is at most what was written.
Sums == \A c \in Commands : output[c] + unread[c] <= written[c]

\* No two modules have one command.
OwnCommand ==
  \A m, n \in Modules : cmd_handler[m] = cmd_handler[n] /\ cmd_handler[m] # 0 => m = n

\* The handler that will wait for p.
Tended(p) ==
  \/ [pid |-> p, cmd |-> Reaper] \in processes
  \/ \E m \in Modules : /\ cmd_handler[m] # 0
                        /\ pid[cmd_handler[m]] = p
                        /\ "process" \notin state[cmd_handler[m]]

AllTended == \A p \in Pids : proc[p] # "none" => Tended(p)

\* A command that is not started has no process.
Fresh == \A c \in Commands : c > started => pid[c] = NoPid /\ exited[c] = "none"

\* A child that lives is the process of one command, and a command whose process has
\* not exited has a child that lives.
OneProcess ==
  /\ \A p \in Pids : Alive(p) => \E c \in 1 .. started : pid[c] = p /\ exited[c] = "none"
  /\ \A c \in 1 .. started : exited[c] = "none" => Alive(pid[c])
  /\ \A c, d \in 1 .. started :
       pid[c] = pid[d] /\ exited[c] = "none" /\ exited[d] = "none" => c = d

\* A handler that was told of no exit is that of the process with the pid; one that
\* was told, and of no failure, was told the truth.
ExitsTold ==
  /\ \A c \in 1 .. started :
       Handler(c) \in processes /\ "process" \notin state[c] =>
         /\ proc[pid[c]] # "none"
         /\ Alive(pid[c]) => exited[c] = "none"
         /\ Zombie(pid[c]) => exited[c] = proc[pid[c]]
  /\ \A c \in Commands :
       "process" \in state[c] /\ "failed" \notin state[c] => exited[c] = "succeeded"

\* An output that has ended is closed, has no writer and was read to its end.
ReadsWhole ==
  /\ \A c \in Commands : "failed" \notin state[c] => output[c] + unread[c] = written[c]
  /\ \A c \in Commands :
       "read" \in state[c] => /\ c \notin open
                              /\ at # <<"read", c>>
                              /\ "failed" \notin state[c] => c \notin held /\ unread[c] = 0

\* What has become metrics had ended.
ParsedDone ==
  \A c \in Commands : parsed[c] > 0 =>
    /\ Finished(state[c]) /\ exited[c] = "succeeded"
    /\ c \notin held /\ output[c] = written[c]

Whole == Fresh /\ OneProcess /\ ExitsTold /\ ReadsWhole /\ ParsedDone

\* A child that was never stopped, of a pid given once, is announced once and only
\* when it is a zombie.
OneNotice ==
  \A p \in Pids \ disturbed :
    /\ proc[p] # "stopped"
    /\ pending = p => Zombie(p)
    /\ \A k \in 1 .. Len(sigpipe) : sigpipe[k] = p => Zombie(p) /\ pending # p
    /\ \A j, k \in 1 .. Len(sigpipe) : sigpipe[j] = p /\ sigpipe[k] = p => j = k
    /\ at # <<"waitpid", p>>

\* Its command is told once.
ToldOnce ==
  \A c \in 1 .. started : pid[c] \notin disturbed =>
    /\ proc[pid[c]] # "none" => "process" \notin state[c]
    /\ parsed[c] <= 1

Once == OneNotice /\ ToldOnce

Types == TypeOK /\ Given /\ Sums

Care == OnlyCurrent /\ OwnCommand /\ AllTended

-----------------------------------------------------------------------------
(* Types *)

LEMMA ParsesType == ASSUME NEW s PROVE Parses(s) \in 0 .. 1
  BY DEF Parses

\* What the callbacks of an exit leave.
LEMMA TellExitTypes ==
  ASSUME Types, NEW p \in Pids, NEW how, TellExit(p, how)
  PROVE  /\ state' \in [Commands -> SUBSET {"process", "read", "failed"}]
         /\ parsed' \in [Commands -> Nat]
         /\ processes' \subseteq processes
         /\ \A c \in Commands : c > started => state'[c] = {}
  <1>. DEFINE told == {c \in Commands : [pid |-> p, cmd |-> c] \in processes}
              bits == IF how = "failed" THEN {"process", "failed"} ELSE {"process"}
  <1>a. started \in Nat /\ Commands \subseteq Nat \ {0}
    <2>1. started \in 0 .. MaxCommands
      BY DEF Types, TypeOK
    <2>. QED
      BY <2>1, CommandsAssumption DEF Commands
  <1>1. state \in [Commands -> SUBSET {"process", "read", "failed"}]
    BY DEF Types, TypeOK
  <1>2. parsed \in [Commands -> Nat]
    BY DEF Types, TypeOK
  <1>3. bits \subseteq {"process", "read", "failed"}
    OBVIOUS
  <1>4. state' = [c \in Commands |-> IF c \in told THEN state[c] \union bits ELSE state[c]]
    BY DEF TellExit
  <1>5. parsed' = [c \in Commands |-> IF c \in told THEN parsed[c] + Parses(state'[c])
                                                    ELSE parsed[c]]
    BY DEF TellExit
  <1>6. \A c \in Commands : c > started => c \notin told
    <2>. SUFFICES ASSUME NEW c \in Commands, c > started, c \in told PROVE FALSE
      OBVIOUS
    <2>1. [pid |-> p, cmd |-> c] \in [pid : Pids, cmd : {Reaper} \union 1 .. started]
      BY DEF Types, TypeOK
    <2>2. c \in {Reaper} \union 1 .. started
      BY <2>1
    <2>. QED
      BY <1>a, <2>2 DEF Reaper
  <1>7. state' \in [Commands -> SUBSET {"process", "read", "failed"}]
    BY <1>1, <1>3, <1>4
  <1>8. parsed' \in [Commands -> Nat]
    <2>1. \A c \in Commands : parsed[c] + Parses(state'[c]) \in Nat
      BY <1>2, ParsesType
    <2>. QED
      BY <1>2, <1>5, <2>1
  <1>9. \A c \in Commands : c > started => state'[c] = {}
    BY <1>4, <1>6 DEF Types, Given
  <1>. QED
    BY <1>7, <1>8, <1>9 DEF TellExit

LEMMA TypesInit == Init => Types
  <1>. SUFFICES ASSUME Init PROVE Types
    OBVIOUS
  <1>. USE CommandsAssumption DEF Init
  <1>1. TypeOK
    <2>1. /\ at \in {<<"loop">>} /\ started \in 0 .. MaxCommands
          /\ cmd_handler \in [Modules -> 0 .. started]
          /\ pid \in [Commands -> Pids \union {NoPid}]
          /\ state \in [Commands -> SUBSET {"process", "read", "failed"}]
          /\ output \in [Commands -> 0 .. MaxOutput]
      OBVIOUS
    <2>2. /\ open \subseteq 1 .. started /\ outputs \subseteq 1 .. started
          /\ processes \subseteq [pid : Pids, cmd : {Reaper} \union 1 .. started]
          /\ sigpipe \in Seq(Pids) /\ Len(sigpipe) <= PipeSize
          /\ proc \in [Pids -> {"none", "running", "stopped", "succeeded", "failed"}]
          /\ killed \subseteq {p \in Pids : Alive(p)} /\ held \subseteq 1 .. started
      OBVIOUS
    <2>3. /\ unread \in [Commands -> 0 .. MaxOutput] /\ pending \in Pids \union {NoPid}
          /\ stops \in 0 .. MaxStops /\ reloads \in 0 .. MaxReloads
          /\ written \in [Commands -> 0 .. MaxOutput]
          /\ exited \in [Commands -> {"none", "succeeded", "failed"}]
          /\ parsed \in [Commands -> Nat] /\ lost \subseteq Pids /\ disturbed \subseteq Pids
      OBVIOUS
    <2>. QED
      BY <2>1, <2>2, <2>3 DEF TypeOK
  <1>2. Given /\ Sums
    BY DEF Given, Sums, Commands
  <1>. QED
    BY <1>1, <1>2 DEF Types

\* What a module leaves when it drops a command.
LEMMA LeftTypes ==
  ASSUME Types, NEW cs, cs \subseteq 1 .. started, NEW drop
  PROVE  /\ Left(cs, drop) \subseteq [pid : Pids, cmd : {Reaper} \union 1 .. started]
         /\ Kills(cs) \subseteq {p \in Pids : Alive(p)}
  <1>1. \A c \in cs : pid[c] \in Pids
    BY DEF Types, Given
  <1>2. Reapers(cs) \subseteq [pid : Pids, cmd : {Reaper} \union 1 .. started]
    BY <1>1 DEF Reapers
  <1>. QED
    BY <1>1, <1>2 DEF Left, Kills, Types, TypeOK

LEMMA ReadAllTypes ==
  ASSUME Types, NEW c \in 1 .. started, ReadAll(c)
  PROVE  /\ output' \in [Commands -> 0 .. MaxOutput]
         /\ unread' \in [Commands -> 0 .. MaxOutput]
         /\ \A d \in Commands : output'[d] + unread'[d] <= written[d]
         /\ state' \in [Commands -> SUBSET {"process", "read", "failed"}]
         /\ parsed' \in [Commands -> Nat]
         /\ open' \subseteq open
         /\ at' \in {<<"loop">>, <<"read", c>>}
         /\ \A d \in Commands : d # c => state'[d] = state[d]
         /\ \A d \in Commands : "process" \in state'[d] => "process" \in state[d]
  <1>0. /\ c \in Commands
        /\ output \in [Commands -> 0 .. MaxOutput] /\ unread \in [Commands -> 0 .. MaxOutput]
        /\ written \in [Commands -> 0 .. MaxOutput]
        /\ parsed \in [Commands -> Nat]
        /\ state \in [Commands -> SUBSET {"process", "read", "failed"}]
        /\ \A d \in Commands : output[d] + unread[d] <= written[d]
    BY CommandsAssumption DEF Types, TypeOK, Sums, Commands
  <1>1. /\ output' = [output EXCEPT ![c] = @ + unread[c]]
        /\ unread' = [unread EXCEPT ![c] = 0]
    BY DEF ReadAll
  <1>2. output[c] + unread[c] \in 0 .. MaxOutput
    BY <1>0, CommandsAssumption
  <1>3. /\ output' \in [Commands -> 0 .. MaxOutput]
        /\ unread' \in [Commands -> 0 .. MaxOutput]
    BY <1>0, <1>1, <1>2, CommandsAssumption
  <1>4. \A d \in Commands : output'[d] + unread'[d] <= written[d]
    <2>. SUFFICES ASSUME NEW d \in Commands PROVE output'[d] + unread'[d] <= written[d]
      OBVIOUS
    <2>1. CASE d = c
      BY <1>0, <1>1, <2>1
    <2>2. CASE d # c
      BY <1>0, <1>1, <2>2
    <2>. QED
      BY <2>1, <2>2
  <1>5. \/ state' = state
        \/ state' = [state EXCEPT ![c] = @ \union {"read"}]
    BY DEF ReadAll
  <1>6. \/ parsed' = parsed
        \/ \E s : parsed' = [parsed EXCEPT ![c] = @ + Parses(s)]
    BY DEF ReadAll
  <1>7. parsed' \in [Commands -> Nat]
    <2>1. \A s : parsed[c] + Parses(s) \in Nat
      BY <1>0, ParsesType
    <2>. QED
      BY <1>0, <1>6, <2>1
  <1>8. open' \subseteq open /\ at' \in {<<"loop">>, <<"read", c>>}
    BY DEF ReadAll
  <1>9. /\ state' \in [Commands -> SUBSET {"process", "read", "failed"}]
        /\ \A d \in Commands : d # c => state'[d] = state[d]
        /\ \A d \in Commands : "process" \in state'[d] => "process" \in state[d]
    BY <1>0, <1>5
  <1>. QED
    BY <1>3, <1>4, <1>7, <1>8, <1>9

LEMMA TypesStep == Types /\ [Next]_vars => Types'
  <1>. SUFFICES ASSUME Types, [Next]_vars PROVE Types'
    OBVIOUS
  <1>. USE DEF agent, cmds, lists, system, pipes, chld
  <1>a. TypeOK /\ Given /\ Sums
    BY DEF Types
  <1>b. started \in 0 .. MaxCommands
    BY <1>a DEF TypeOK
  <1>0. 1 .. started \subseteq Commands /\ Commands \subseteq Nat \ {0}
    BY <1>b, CommandsAssumption DEF Commands
  <1>c. sigpipe \in Seq(Pids) /\ Len(sigpipe) <= PipeSize
    BY <1>a DEF TypeOK
  <1>d. sigpipe # <<>> => /\ Head(sigpipe) \in Pids /\ Tail(sigpipe) \in Seq(Pids)
                          /\ Len(Tail(sigpipe)) <= PipeSize
    <2>. SUFFICES ASSUME sigpipe # <<>>
                  PROVE  /\ Head(sigpipe) \in Pids /\ Tail(sigpipe) \in Seq(Pids)
                         /\ Len(Tail(sigpipe)) <= PipeSize
      OBVIOUS
    <2>1. /\ Head(sigpipe) \in Pids /\ Tail(sigpipe) \in Seq(Pids)
          /\ Len(Tail(sigpipe)) = Len(sigpipe) - 1
      BY <1>c, HeadTailProperties
    <2>2. Len(sigpipe) \in Nat /\ PipeSize \in Nat
      BY <1>c, CommandsAssumption
    <2>. QED
      BY <1>c, <2>1, <2>2
  <1>e. /\ state \in [Commands -> SUBSET {"process", "read", "failed"}]
        /\ output \in [Commands -> 0 .. MaxOutput] /\ unread \in [Commands -> 0 .. MaxOutput]
        /\ written \in [Commands -> 0 .. MaxOutput]
        /\ proc \in [Pids -> {"none", "running", "stopped", "succeeded", "failed"}]
        /\ killed \subseteq {q \in Pids : Alive(q)}
    BY <1>a DEF TypeOK
  <1>1. ASSUME NEW p \in Pids, Waited(p),
               UNCHANGED <<output, open, outputs, agent, killed, stops, exited, disturbed,
                           pipes, pending>>,
               sigpipe' \in Seq(Pids), Len(sigpipe') <= PipeSize
        PROVE  Types'
    <2>1. TellExit(p, proc[p])
      BY <1>1 DEF Waited
    <2>2. /\ state' \in [Commands -> SUBSET {"process", "read", "failed"}]
          /\ parsed' \in [Commands -> Nat]
          /\ processes' \subseteq processes
          /\ \A c \in Commands : c > started => state'[c] = {}
      BY <2>1, TellExitTypes
    <2>3. proc' = [proc EXCEPT ![p] = "none"] /\ proc[p] \in {"succeeded", "failed"}
      BY <1>1 DEF Waited, Zombie
    <2>4. proc' \in [Pids -> {"none", "running", "stopped", "succeeded", "failed"}]
      BY <1>e, <2>3
    <2>5. killed' \subseteq {q \in Pids : Alive(q)'}
      BY <1>1, <1>e, <2>3 DEF Alive
    <2>6. lost' \subseteq lost /\ at' = <<"loop">>
      BY <1>1 DEF Waited
    <2>. QED
      BY <1>1, <1>a, <2>2, <2>4, <2>5, <2>6 DEF Types, TypeOK, Given, Sums
  <1>2. CASE HandleSignal
    <2>. DEFINE p == Head(sigpipe)
    <2>1. /\ p \in Pids /\ sigpipe' = Tail(sigpipe)
          /\ sigpipe' \in Seq(Pids) /\ Len(sigpipe') <= PipeSize
          /\ UNCHANGED <<agent, killed, stops, exited, disturbed, pipes, pending>>
      BY <1>2, <1>d DEF HandleSignal
    <2>2. CASE ~Watched(p) /\ UNCHANGED <<at, cmds, lists, proc, lost>>
      BY <1>a, <2>1, <2>2 DEF Types, TypeOK, Given, Sums, Alive
    <2>3. CASE Waited(p) /\ UNCHANGED <<output, open, outputs>>
      BY <1>1, <2>1, <2>3
    <2>4. CASE at' = <<"waitpid", p>> /\ UNCHANGED <<cmds, lists, proc, lost>>
      BY <1>a, <2>1, <2>4 DEF Types, TypeOK, Given, Sums, Alive
    <2>5. CASE TellExit(p, "succeeded") /\ UNCHANGED <<at, output, open, outputs, proc, lost>>
      <3>1. /\ state' \in [Commands -> SUBSET {"process", "read", "failed"}]
            /\ parsed' \in [Commands -> Nat]
            /\ processes' \subseteq processes
            /\ \A c \in Commands : c > started => state'[c] = {}
        BY <2>1, <2>5, TellExitTypes
      <3>. QED
        BY <1>a, <2>1, <2>5, <3>1 DEF Types, TypeOK, Given, Sums, Alive
    <2>. QED
      BY <1>2, <2>2, <2>3, <2>4, <2>5 DEF HandleSignal
  <1>3. CASE WaitpidReturns
    <2>1. at[2] \in Pids
      BY <1>3, <1>a DEF WaitpidReturns, TypeOK
    <2>. QED
      BY <1>1, <1>3, <1>c, <2>1 DEF WaitpidReturns
  <1>4. ASSUME NEW c \in 1 .. started, ReadAll(c),
               UNCHANGED <<agent, lists, sigpipe, system, held, written, chld>>
        PROVE  Types'
    <2>1. /\ output' \in [Commands -> 0 .. MaxOutput]
          /\ unread' \in [Commands -> 0 .. MaxOutput]
          /\ \A d \in Commands : output'[d] + unread'[d] <= written[d]
          /\ state' \in [Commands -> SUBSET {"process", "read", "failed"}]
          /\ parsed' \in [Commands -> Nat]
          /\ open' \subseteq open
          /\ at' \in {<<"loop">>, <<"read", c>>}
          /\ \A d \in Commands : d # c => state'[d] = state[d]
      BY <1>4, ReadAllTypes
    <2>2. \A d \in Commands : d > started => d # c
      BY <1>0, <1>b, CommandsAssumption
    <2>3. Given'
      BY <1>4, <1>a, <2>1, <2>2 DEF Given
    <2>4. Sums'
      BY <1>4, <2>1 DEF Sums
    <2>5. TypeOK'
      BY <1>4, <1>a, <2>1 DEF TypeOK, Alive
    <2>. QED
      BY <2>3, <2>4, <2>5 DEF Types
  <1>5. CASE \E c \in Commands : HandleCommandOutput(c)
    <2>1. PICK c \in Commands : HandleCommandOutput(c)
      BY <1>5
    <2>2. c \in 1 .. started
      BY <2>1, <1>a DEF HandleCommandOutput, TypeOK
    <2>. QED
      BY <1>4, <2>1, <2>2 DEF HandleCommandOutput
  <1>6. CASE ReadReturns
    <2>1. at[2] \in 1 .. started
      BY <1>6, <1>a DEF ReadReturns, TypeOK
    <2>. QED
      BY <1>4, <1>6, <2>1 DEF ReadReturns
  <1>7. CASE \E c \in Commands : ReadFails(c)
    <2>1. PICK c \in Commands : ReadFails(c)
      BY <1>7
    <2>2. c \in 1 .. started
      BY <2>1, <1>a DEF ReadFails, TypeOK
    <2>3. /\ state' = [state EXCEPT ![c] = @ \union {"read", "failed"}]
          /\ output' = [output EXCEPT ![c] = 0]
          /\ open' \subseteq open
          /\ UNCHANGED <<at, agent, parsed, lists, sigpipe, system, pipes, chld>>
      BY <2>1 DEF ReadFails
    <2>4. /\ state' \in [Commands -> SUBSET {"process", "read", "failed"}]
          /\ output' \in [Commands -> 0 .. MaxOutput]
      BY <1>e, <2>3, CommandsAssumption
    <2>5. \A d \in Commands : d > started => state'[d] = state[d]
      BY <1>0, <1>b, <1>e, <2>2, <2>3, CommandsAssumption
    <2>6. \A d \in Commands : output'[d] <= output[d]
      BY <1>e, <2>3, CommandsAssumption
    <2>7. Sums'
      BY <1>a, <1>e, <2>3, <2>4, <2>6, CommandsAssumption DEF Sums
    <2>8. Given'
      BY <1>a, <2>3, <2>5 DEF Given
    <2>. QED
      BY <1>a, <2>3, <2>4, <2>7, <2>8 DEF Types, TypeOK, Alive
  <1>8. CASE \E m \in Modules, p \in Pids : VarnishPoll(m, p)
    <2>1. PICK m \in Modules, p \in Pids : VarnishPoll(m, p)
      BY <1>8
    <2>. DEFINE c == started + 1
                dropped == {cmd_handler[m]} \ {0}
    <2>2. started < MaxCommands /\ started' = c
      BY <2>1 DEF VarnishPoll
    <2>3. /\ c \in Commands /\ 1 .. started \subseteq 1 .. c
          /\ c \in 1 .. c /\ c \in 0 .. MaxCommands
          /\ \A d \in 1 .. c : d = c \/ d \in 1 .. started
          /\ \A d \in Commands : d > c => d > started
          /\ 0 .. started \subseteq 0 .. c
      BY <2>2, <1>b, CommandsAssumption DEF Commands
    <2>4. cmd_handler[m] \in 0 .. started
      BY <1>a DEF TypeOK
    <2>5. ToReap(m) \subseteq 1 .. started
      BY <2>4, <1>b DEF ToReap
    <2>6. /\ Left(ToReap(m), dropped) \subseteq [pid : Pids, cmd : {Reaper} \union 1 .. started]
          /\ Kills(ToReap(m)) \subseteq {q \in Pids : Alive(q)}
      BY <2>5, LeftTypes
    <2>7. processes' = Left(ToReap(m), dropped) \union {[pid |-> p, cmd |-> c]}
      BY <2>1 DEF VarnishPoll
    <2>. HIDE DEF c, dropped
    <2>8. processes' \subseteq [pid : Pids, cmd : {Reaper} \union 1 .. c]
      BY <2>3, <2>6, <2>7
    <2>9. cmd_handler' \in [Modules -> 0 .. c]
      <3>1. cmd_handler' = [cmd_handler EXCEPT ![m] = c] /\ c \in 0 .. c
        BY <2>1, <2>3, <1>b DEF VarnishPoll, c
      <3>2. cmd_handler \in [Modules -> 0 .. started]
        BY <1>a DEF TypeOK
      <3>. QED
        BY <2>3, <3>1, <3>2
    <2>10. pid' = [pid EXCEPT ![c] = p] /\ pid \in [Commands -> Pids \union {NoPid}]
      BY <2>1, <1>a DEF VarnishPoll, TypeOK, c
    <2>11. pid' \in [Commands -> Pids \union {NoPid}]
      BY <2>10
    <2>12. \A d \in 1 .. c : pid'[d] \in Pids
      BY <1>0, <1>a, <2>3, <2>10 DEF Given
    <2>13. proc' = [proc EXCEPT ![p] = "running"] /\ killed' = killed \union Kills(ToReap(m))
      BY <2>1 DEF VarnishPoll
    <2>14. proc' \in [Pids -> {"none", "running", "stopped", "succeeded", "failed"}]
      BY <1>e, <2>13
    <2>15. killed' \subseteq {q \in Pids : Alive(q)'}
      BY <1>e, <2>6, <2>13 DEF Alive
    <2>16. open' \subseteq 1 .. c
      BY <2>1, <2>3, <1>a DEF VarnishPoll, TypeOK, c
    <2>17. outputs' \subseteq 1 .. c
      BY <2>1, <2>3, <1>a DEF VarnishPoll, TypeOK, c
    <2>18. held' \subseteq 1 .. c
      BY <2>1, <2>3, <1>a DEF VarnishPoll, TypeOK, c
    <2>19. disturbed' \subseteq Pids
      BY <2>1, <1>a DEF VarnishPoll, TypeOK
    <2>20. at' = <<"loop">>
      BY <2>1 DEF VarnishPoll
    <2>21. UNCHANGED <<state, output, parsed, sigpipe, stops, reloads, exited, unread, written,
                       chld>>
      BY <2>1 DEF VarnishPoll
    <2>22. Given'
      BY <1>a, <2>2, <2>3, <2>12, <2>21 DEF Given
    <2>23. Sums'
      BY <1>a, <2>21 DEF Sums
    <2>24. TypeOK'
      BY <1>a, <2>2, <2>3, <2>8, <2>9, <2>11, <2>14, <2>15, <2>16, <2>17, <2>18, <2>19, <2>20,
         <2>21 DEF TypeOK
    <2>. QED
      BY <2>22, <2>23, <2>24 DEF Types
  <1>9. CASE \E m \in Modules : VarnishPollFails(m)
    <2>1. PICK m \in Modules : VarnishPollFails(m)
      BY <1>9
    <2>2. cmd_handler[m] \in 0 .. started
      BY <1>a DEF TypeOK
    <2>3. ToReap(m) \subseteq 1 .. started
      BY <2>2, <1>b DEF ToReap
    <2>4. /\ processes' \subseteq [pid : Pids, cmd : {Reaper} \union 1 .. started]
          /\ Kills(ToReap(m)) \subseteq {q \in Pids : Alive(q)}
      BY <2>1, <2>3, LeftTypes DEF VarnishPollFails
    <2>5. cmd_handler' \in [Modules -> 0 .. started]
      BY <2>1, <1>a, <1>b DEF VarnishPollFails, TypeOK
    <2>. QED
      BY <2>1, <1>a, <2>4, <2>5 DEF VarnishPollFails, Types, TypeOK, Given, Sums, Alive
  <1>10. CASE VarnishCleanup
    <2>. DEFINE current == {cmd_handler[m] : m \in Modules} \ {0}
    <2>1. current \subseteq 1 .. started
      BY <1>a, <1>b DEF TypeOK
    <2>2. /\ Left(current, current) \subseteq [pid : Pids, cmd : {Reaper} \union 1 .. started]
          /\ Kills(current) \subseteq {q \in Pids : Alive(q)}
      BY <2>1, LeftTypes
    <2>3. /\ processes' = Left(current, current) /\ killed' = killed \union Kills(current)
          /\ outputs' = outputs \ current /\ held' = held \ current
          /\ reloads < MaxReloads /\ reloads' = reloads + 1
          /\ cmd_handler' = [m \in Modules |-> 0]
          /\ UNCHANGED <<at, started, pid, cmds, sigpipe, proc, stops, exited, disturbed,
                         unread, written, chld>>
      BY <1>10 DEF VarnishCleanup
    <2>. HIDE DEF current
    <2>4. cmd_handler' \in [Modules -> 0 .. started]
      BY <2>3, <1>b
    <2>5. reloads' \in 0 .. MaxReloads
      BY <2>3, <1>a, CommandsAssumption DEF TypeOK
    <2>. QED
      BY <1>a, <2>2, <2>3, <2>4, <2>5 DEF Types, TypeOK, Given, Sums, Alive
  <1>11. CASE \E c \in Commands : ChildWrites(c)
    <2>1. PICK c \in Commands : ChildWrites(c)
      BY <1>11
    <2>2. /\ written' = [written EXCEPT ![c] = @ + 1] /\ unread' = [unread EXCEPT ![c] = @ + 1]
          /\ written[c] < MaxOutput
          /\ UNCHANGED <<at, agent, cmds, lists, sigpipe, system, held, chld>>
      BY <2>1 DEF ChildWrites
    <2>3. /\ output[c] + unread[c] <= written[c]
          /\ output[c] \in 0 .. MaxOutput /\ unread[c] \in 0 .. MaxOutput
          /\ written[c] \in 0 .. MaxOutput
      BY <1>a, <1>e DEF Sums
    <2>4. /\ written[c] + 1 \in 0 .. MaxOutput /\ unread[c] + 1 \in 0 .. MaxOutput
          /\ output[c] + (unread[c] + 1) <= written[c] + 1
      BY <2>2, <2>3, CommandsAssumption
    <2>5. written' \in [Commands -> 0 .. MaxOutput] /\ unread' \in [Commands -> 0 .. MaxOutput]
      BY <1>e, <2>2, <2>4
    <2>6. \A d \in Commands : output'[d] + unread'[d] <= written'[d]
      BY <1>a, <1>e, <2>2, <2>4 DEF Sums
    <2>. QED
      BY <1>a, <2>2, <2>5, <2>6 DEF Types, TypeOK, Given, Sums, Alive
  <1>12. CASE \E c \in Commands : OutputEnds(c)
    BY <1>12, <1>a DEF OutputEnds, Types, TypeOK, Given, Sums, Alive
  <1>13. CASE \E p \in Pids : ChildExits(p)
    <2>1. PICK p \in Pids, how \in {"succeeded", "failed"} :
            /\ proc' = [proc EXCEPT ![p] = how]
            /\ exited' = [exited EXCEPT ![Running(p)] = how]
            /\ killed' = killed \ {p} /\ Raise(p, TRUE)
            /\ UNCHANGED <<at, agent, cmds, lists, sigpipe, stops, disturbed, pipes>>
      BY <1>13 DEF ChildExits
    <2>2. proc' \in [Pids -> {"none", "running", "stopped", "succeeded", "failed"}]
      BY <1>e, <2>1
    <2>3. exited' \in [Commands -> {"none", "succeeded", "failed"}]
      BY <1>a, <2>1 DEF TypeOK
    <2>4. killed' \subseteq {q \in Pids : Alive(q)'}
      BY <1>e, <2>1 DEF Alive
    <2>5. pending' \in Pids \union {NoPid} /\ lost' \subseteq Pids
      BY <1>a, <2>1 DEF Raise, TypeOK
    <2>. QED
      BY <1>a, <2>1, <2>2, <2>3, <2>4, <2>5 DEF Types, TypeOK, Given, Sums
  <1>14. CASE \E p \in Pids : ChildStops(p)
    <2>1. PICK p \in Pids : ChildStops(p)
      BY <1>14
    <2>2. /\ proc' = [proc EXCEPT ![p] = "stopped"] /\ disturbed' = disturbed \union {p}
          /\ stops < MaxStops /\ stops' = stops + 1 /\ Raise(p, FALSE)
          /\ UNCHANGED <<at, agent, cmds, lists, sigpipe, killed, exited, pipes>>
      BY <2>1 DEF ChildStops
    <2>3. proc' \in [Pids -> {"none", "running", "stopped", "succeeded", "failed"}]
      BY <1>e, <2>2
    <2>4. killed' \subseteq {q \in Pids : Alive(q)'}
      BY <1>e, <2>2 DEF Alive
    <2>5. stops' \in 0 .. MaxStops
      BY <1>a, <2>2, CommandsAssumption DEF TypeOK
    <2>6. pending' \in Pids \union {NoPid} /\ lost' \subseteq Pids
      BY <1>a, <2>2 DEF Raise, TypeOK
    <2>. QED
      BY <1>a, <2>2, <2>3, <2>4, <2>5, <2>6 DEF Types, TypeOK, Given, Sums
  <1>15. CASE \E p \in Pids : ChildContinues(p)
    <2>1. PICK p \in Pids : ChildContinues(p)
      BY <1>15
    <2>2. /\ proc' = [proc EXCEPT ![p] = "running"] /\ Raise(p, FALSE)
          /\ UNCHANGED <<at, agent, cmds, lists, sigpipe, killed, stops, exited, disturbed,
                         pipes>>
      BY <2>1 DEF ChildContinues
    <2>3. proc' \in [Pids -> {"none", "running", "stopped", "succeeded", "failed"}]
      BY <1>e, <2>2
    <2>4. killed' \subseteq {q \in Pids : Alive(q)'}
      BY <1>e, <2>2 DEF Alive
    <2>5. pending' \in Pids \union {NoPid} /\ lost' \subseteq Pids
      BY <1>a, <2>2 DEF Raise, TypeOK
    <2>. QED
      BY <1>a, <2>2, <2>3, <2>4, <2>5 DEF Types, TypeOK, Given, Sums
  <1>16. CASE HandleSigaction
    <2>1. /\ pending \in Pids /\ sigpipe' = Append(sigpipe, pending) /\ pending' = NoPid
          /\ Len(sigpipe) < PipeSize
          /\ UNCHANGED <<at, agent, cmds, lists, system, pipes, lost>>
      BY <1>16, <1>a DEF HandleSigaction, TypeOK
    <2>2. sigpipe' \in Seq(Pids) /\ Len(sigpipe') = Len(sigpipe) + 1
      BY <1>c, <2>1, AppendProperties
    <2>3. Len(sigpipe') <= PipeSize
      BY <1>c, <2>1, <2>2, LenProperties, CommandsAssumption
    <2>. QED
      BY <1>a, <2>1, <2>2, <2>3 DEF Types, TypeOK, Given, Sums, Alive
  <1>17. CASE HandleSigactionBlocks
    BY <1>17, <1>a DEF HandleSigactionBlocks, Types, TypeOK, Given, Sums, Alive
  <1>18. CASE UNCHANGED vars
    BY <1>18, <1>a DEF vars, Types, TypeOK, Given, Sums, Alive
  <1>. QED
    BY <1>2, <1>3, <1>5, <1>6, <1>7, <1>8, <1>9, <1>10, <1>11, <1>12, <1>13, <1>14,
       <1>15, <1>16, <1>17, <1>18 DEF Next, Agent, System, SelectTimesOut, Stuck

\* The variables of the agent and of the system keep their types: in particular
\* only processes that are there get SIGKILL, and only pids are watched.
THEOREM CommandsTypes == Spec => []TypeOK
  <1>1. Types => TypeOK
    BY DEF Types
  <1>. QED
    BY TypesInit, TypesStep, <1>1, PTL DEF Spec

-----------------------------------------------------------------------------
(* Who waits for the children *)

LEMMA CareInit == Init => Care
  BY DEF Init, Care, OnlyCurrent, OwnCommand, AllTended

\* A step that leaves the commands and their handlers where they are keeps Care,
\* if it only lets go of what waited for a child that is gone.
LEMMA CareKept ==
  ASSUME Types, Care, UNCHANGED <<cmd_handler, pid, outputs>>,
         {h \in processes' : h.cmd # Reaper} = {h \in processes : h.cmd # Reaper},
         ASSUME NEW p \in Pids, proc'[p] # "none"
         PROVE  /\ proc[p] # "none"
                /\ [pid |-> p, cmd |-> Reaper] \in processes
                     => [pid |-> p, cmd |-> Reaper] \in processes'
                /\ \A d \in 1 .. started : pid[d] = p /\ "process" \in state'[d]
                                              => "process" \in state[d]
  PROVE  Care'
  <1>1. OnlyCurrent'
    BY DEF Care, OnlyCurrent, Handler
  <1>2. OwnCommand'
    BY DEF Care, OwnCommand
  <1>3. ASSUME NEW p \in Pids, proc'[p] # "none" PROVE Tended(p)'
    <2>1. Tended(p)
      BY <1>3 DEF Care, AllTended
    <2>2. CASE [pid |-> p, cmd |-> Reaper] \in processes
      BY <1>3, <2>2 DEF Tended
    <2>3. CASE \E m \in Modules : /\ cmd_handler[m] # 0 /\ pid[cmd_handler[m]] = p
                                  /\ "process" \notin state[cmd_handler[m]]
      <3>1. PICK m \in Modules : /\ cmd_handler[m] # 0 /\ pid[cmd_handler[m]] = p
                                 /\ "process" \notin state[cmd_handler[m]]
        BY <2>3
      <3>2. cmd_handler[m] \in 1 .. started
        BY <3>1 DEF Types, TypeOK
      <3>3. "process" \notin state'[cmd_handler[m]]
        BY <1>3, <3>1, <3>2
      <3>. QED
        BY <3>1, <3>3 DEF Tended
    <2>. QED
      BY <2>1, <2>2, <2>3 DEF Tended
  <1>. QED
    BY <1>1, <1>2, <1>3 DEF Care, AllTended

\* The callbacks of the exit of p do not let go of any other process.
LEMMA CareTellExit ==
  ASSUME Types, Care, NEW p \in Pids, NEW how, TellExit(p, how), proc'[p] = "none",
         \A q \in Pids : q # p => proc'[q] = proc[q],
         UNCHANGED <<cmd_handler, pid, outputs>>
  PROVE  Care'
  <1>1. processes' = processes \ {[pid |-> p, cmd |-> Reaper]}
    BY DEF TellExit
  <1>2. {h \in processes' : h.cmd # Reaper} = {h \in processes : h.cmd # Reaper}
    BY <1>1
  <1>3. ASSUME NEW q \in Pids, proc'[q] # "none", NEW d \in 1 .. started, pid[d] = q,
               "process" \in state'[d]
        PROVE  "process" \in state[d]
    <2>1. d \in Commands /\ d # 0
      <3>1. started \in 0 .. MaxCommands
        BY DEF Types, TypeOK
      <3>. QED
        BY <3>1, CommandsAssumption DEF Commands
    <2>2. [pid |-> p, cmd |-> d] \notin processes
      <3>. SUFFICES ASSUME [pid |-> p, cmd |-> d] \in processes PROVE FALSE
        OBVIOUS
      <3>1. [pid |-> p, cmd |-> d] \in {h \in processes : h.cmd # Reaper}
        BY <2>1 DEF Reaper
      <3>2. PICK e : [pid |-> p, cmd |-> d] = Handler(e)
        BY <3>1 DEF Care, OnlyCurrent
      <3>3. e = d /\ pid[e] = p
        BY <3>2 DEF Handler
      <3>. QED
        BY <1>3, <3>3
    <2>. QED
      BY <1>3, <2>1, <2>2 DEF TellExit
  <1>. QED
    BY <1>1, <1>2, <1>3, CareKept

\* What a module drops is reaped if it has not finished, and no other is touched.
LEMMA CareLeft ==
  ASSUME Types, Care, NEW cs, NEW drop,
         drop \subseteq {cmd_handler[m] : m \in Modules} \ {0},
         \A d \in drop : "process" \notin state[d] => d \in cs
  PROVE  LET current == {cmd_handler[m] : m \in Modules} \ {0}
         IN  /\ {h \in Left(cs, drop) : h.cmd # Reaper} = {Handler(d) : d \in current \ drop}
             /\ \A p \in Pids : proc[p] # "none" =>
                  \/ [pid |-> p, cmd |-> Reaper] \in Left(cs, drop)
                  \/ \E m \in Modules : /\ cmd_handler[m] \notin drop \union {0}
                                        /\ pid[cmd_handler[m]] = p
                                        /\ "process" \notin state[cmd_handler[m]]
  <1>. DEFINE current == {cmd_handler[m] : m \in Modules} \ {0}
  <1>1. {h \in processes : h.cmd # Reaper} = {Handler(d) : d \in current}
    BY DEF Care, OnlyCurrent
  <1>2. \A d, e \in current : Handler(d) = Handler(e) => d = e
    BY DEF Handler
  <1>3. \A h \in Reapers(cs) : h.cmd = Reaper
    BY DEF Reapers
  <1>4. \A d \in current : Handler(d).cmd # Reaper
    BY DEF Handler, Reaper
  <1>5. {h \in Left(cs, drop) : h.cmd # Reaper} = {Handler(d) : d \in current \ drop}
    <2>1. {h \in Left(cs, drop) : h.cmd # Reaper}
            = {Handler(d) : d \in current} \ {Handler(d) : d \in drop}
      BY <1>1, <1>3 DEF Left
    <2>. QED
      BY <1>2, <2>1
  <1>6. ASSUME NEW p \in Pids, proc[p] # "none"
        PROVE  \/ [pid |-> p, cmd |-> Reaper] \in Left(cs, drop)
               \/ \E m \in Modules : /\ cmd_handler[m] \notin drop \union {0}
                                     /\ pid[cmd_handler[m]] = p
                                     /\ "process" \notin state[cmd_handler[m]]
    <2>1. \A h : h \in processes \union Reapers(cs) /\ h.cmd = Reaper => h \in Left(cs, drop)
      BY <1>4 DEF Left
    <2>2. Tended(p)
      BY <1>6 DEF Care, AllTended
    <2>3. CASE [pid |-> p, cmd |-> Reaper] \in processes
      BY <2>1, <2>3
    <2>4. ASSUME NEW m \in Modules, cmd_handler[m] # 0, pid[cmd_handler[m]] = p,
                 "process" \notin state[cmd_handler[m]], cmd_handler[m] \in drop
          PROVE  [pid |-> p, cmd |-> Reaper] \in Left(cs, drop)
      <3>1. [pid |-> p, cmd |-> Reaper] \in Reapers(cs)
        BY <2>4 DEF Reapers
      <3>. QED
        BY <2>1, <3>1
    <2>. QED
      BY <2>2, <2>3, <2>4 DEF Tended
  <1>. QED
    BY <1>5, <1>6

LEMMA CareStep == Types /\ Care /\ [Next]_vars => Care'
  <1>. SUFFICES ASSUME Types, Care, [Next]_vars PROVE Care'
    OBVIOUS
  <1>. USE DEF agent, cmds, lists, system, pipes, chld
  <1>. DEFINE current == {cmd_handler[m] : m \in Modules} \ {0}
  <1>a. /\ started \in 0 .. MaxCommands
        /\ cmd_handler \in [Modules -> 0 .. started]
        /\ pid \in [Commands -> Pids \union {NoPid}]
        /\ state \in [Commands -> SUBSET {"process", "read", "failed"}]
        /\ proc \in [Pids -> {"none", "running", "stopped", "succeeded", "failed"}]
    BY DEF Types, TypeOK
  <1>b. 1 .. started \subseteq Commands /\ Commands \subseteq Nat \ {0}
    BY <1>a, CommandsAssumption DEF Commands
  <1>c. /\ outputs = current
        /\ \A m, n \in Modules : cmd_handler[m] = cmd_handler[n] /\ cmd_handler[m] # 0 => m = n
    BY DEF Care, OnlyCurrent, OwnCommand
  <1>1. ASSUME NEW p \in Pids, Waited(p), UNCHANGED <<cmd_handler, pid, outputs>>
        PROVE  Care'
    <2>1. TellExit(p, proc[p]) /\ proc' = [proc EXCEPT ![p] = "none"]
      BY <1>1 DEF Waited
    <2>2. proc'[p] = "none" /\ \A q \in Pids : q # p => proc'[q] = proc[q]
      BY <1>a, <2>1
    <2>. QED
      BY <1>1, <2>1, <2>2, CareTellExit
  <1>2. CASE HandleSignal
    <2>. DEFINE p == Head(sigpipe)
    <2>1. /\ p \in Pids /\ UNCHANGED <<cmd_handler, pid>>
      <3>1. sigpipe \in Seq(Pids) /\ sigpipe # <<>>
        BY <1>2 DEF HandleSignal, Types, TypeOK
      <3>. QED
        BY <1>2, <3>1, HeadTailProperties DEF HandleSignal
    <2>2. CASE UNCHANGED <<cmds, lists, proc, lost>>
      BY <2>1, <2>2, CareKept
    <2>3. CASE Waited(p) /\ UNCHANGED <<output, open, outputs>>
      BY <1>1, <2>1, <2>3
    <2>4. CASE /\ proc[p] = "none" /\ TellExit(p, "succeeded")
               /\ UNCHANGED <<outputs, proc>>
      BY <2>1, <2>4, CareTellExit
    <2>. QED
      BY <1>2, <2>2, <2>3, <2>4 DEF HandleSignal
  <1>3. CASE WaitpidReturns
    <2>1. at[2] \in Pids
      BY <1>3 DEF WaitpidReturns, Types, TypeOK
    <2>. QED
      BY <1>1, <1>3, <2>1 DEF WaitpidReturns
  <1>4. ASSUME NEW c \in 1 .. started, ReadAll(c),
               UNCHANGED <<agent, lists, system>>
        PROVE  Care'
    <2>1. \A d \in Commands : "process" \in state'[d] => "process" \in state[d]
      BY <1>4, ReadAllTypes
    <2>. QED
      BY <1>4, <1>b, <2>1, CareKept
  <1>5. CASE \E c \in Commands : HandleCommandOutput(c)
    <2>1. PICK c \in Commands : HandleCommandOutput(c)
      BY <1>5
    <2>2. c \in 1 .. started
      BY <2>1 DEF HandleCommandOutput, Types, TypeOK
    <2>. QED
      BY <1>4, <2>1, <2>2 DEF HandleCommandOutput
  <1>6. CASE ReadReturns
    <2>1. at[2] \in 1 .. started
      BY <1>6 DEF ReadReturns, Types, TypeOK
    <2>. QED
      BY <1>4, <1>6, <2>1 DEF ReadReturns
  <1>7. CASE \E c \in Commands : ReadFails(c)
    <2>1. PICK c \in Commands : /\ state' = [state EXCEPT ![c] = @ \union {"read", "failed"}]
                                /\ UNCHANGED <<agent, lists, system>>
      BY <1>7 DEF ReadFails
    <2>2. \A d \in Commands : "process" \in state'[d] => "process" \in state[d]
      BY <1>a, <2>1
    <2>. QED
      BY <1>b, <2>1, <2>2, CareKept
  <1>8. CASE \E m \in Modules, p \in Pids : VarnishPoll(m, p)
    <2>1. PICK m \in Modules, p \in Pids : VarnishPoll(m, p)
      BY <1>8
    <2>. DEFINE c == started + 1
                dropped == {cmd_handler[m]} \ {0}
    <2>2. /\ started < MaxCommands
          /\ cmd_handler' = [cmd_handler EXCEPT ![m] = c] /\ pid' = [pid EXCEPT ![c] = p]
          /\ processes' = Left(ToReap(m), dropped) \union {[pid |-> p, cmd |-> c]}
          /\ outputs' = (outputs \ dropped) \union {c}
          /\ proc' = [proc EXCEPT ![p] = "running"] /\ state' = state
      BY <2>1 DEF VarnishPoll
    <2>3. c \in Commands /\ c # 0 /\ \A n \in Modules : cmd_handler[n] # c
      BY <1>a, <2>2, CommandsAssumption DEF Commands
    <2>4. dropped \subseteq current
      OBVIOUS
    <2>5. \A d \in dropped : "process" \notin state[d] => d \in ToReap(m)
      BY DEF ToReap, Finished
    <2>6. /\ {h \in Left(ToReap(m), dropped) : h.cmd # Reaper} = {Handler(d) : d \in current \ dropped}
          /\ \A q \in Pids : proc[q] # "none" =>
               \/ [pid |-> q, cmd |-> Reaper] \in Left(ToReap(m), dropped)
               \/ \E n \in Modules : /\ cmd_handler[n] \notin dropped \union {0}
                                     /\ pid[cmd_handler[n]] = q
                                     /\ "process" \notin state[cmd_handler[n]]
      <3>. HIDE DEF dropped
      <3>. QED
        BY <2>4, <2>5, CareLeft
    <2>7. state[c] = {} /\ c > started
      BY <1>a, <2>3 DEF Types, Given
    <2>8. {cmd_handler'[n] : n \in Modules} \ {0} = (current \ dropped) \union {c}
      <3>1. \A n \in Modules : cmd_handler'[n] = IF n = m THEN c ELSE cmd_handler[n]
        BY <1>a, <2>2
      <3>2. \A n \in Modules : n # m /\ cmd_handler[n] # 0 => cmd_handler[n] \notin dropped
        BY <1>c
      <3>. HIDE DEF c
      <3>. QED
        BY <2>3, <3>1, <3>2
    <2>9. \A d \in current : pid'[d] = pid[d] /\ d # c
      <3>1. \A d \in current : d \in Commands
        BY <1>a, <1>b
      <3>. HIDE DEF c
      <3>. QED
        BY <1>a, <2>2, <2>3, <3>1
    <2>10. pid'[c] = p
      BY <1>a, <2>2, <2>3
    <2>. HIDE DEF c, dropped
    <2>11. {h \in processes' : h.cmd # Reaper}
             = {Handler(d) : d \in current \ dropped} \union {[pid |-> p, cmd |-> c]}
      BY <2>2, <2>3, <2>6 DEF Reaper
    <2>12. OnlyCurrent'
      <3>1. outputs' = (current \ dropped) \union {c}
        BY <1>c, <2>2
      <3>2. {Handler(d)' : d \in (current \ dropped) \union {c}}
              = {Handler(d) : d \in current \ dropped} \union {[pid |-> p, cmd |-> c]}
        BY <2>9, <2>10 DEF Handler
      <3>. QED
        BY <2>8, <2>11, <3>1, <3>2 DEF OnlyCurrent
    <2>13. OwnCommand'
      BY <1>a, <1>c, <2>2, <2>3 DEF OwnCommand
    <2>14. ASSUME NEW q \in Pids, proc'[q] # "none" PROVE Tended(q)'
      <3>1. CASE q = p
        <4>1. cmd_handler'[m] = c
          BY <1>a, <2>2
        <4>. QED
          BY <2>2, <2>3, <2>7, <2>10, <3>1, <4>1 DEF Tended
      <3>2. CASE q # p
        <4>1. proc[q] # "none"
          BY <1>a, <2>2, <2>14, <3>2
        <4>2. CASE [pid |-> q, cmd |-> Reaper] \in Left(ToReap(m), dropped)
          BY <2>2, <4>2 DEF Tended
        <4>3. ASSUME NEW n \in Modules, cmd_handler[n] \notin dropped \union {0},
                     pid[cmd_handler[n]] = q, "process" \notin state[cmd_handler[n]]
              PROVE  Tended(q)'
          <5>1. n # m
            BY <4>3 DEF dropped
          <5>2. cmd_handler'[n] = cmd_handler[n] /\ cmd_handler[n] \in current
            BY <1>a, <2>2, <4>3, <5>1
          <5>. QED
            BY <2>2, <2>9, <4>3, <5>2 DEF Tended
        <4>. QED
          BY <2>6, <4>1, <4>2, <4>3
      <3>. QED
        BY <3>1, <3>2
    <2>. QED
      BY <2>12, <2>13, <2>14 DEF Care, AllTended
  <1>9. CASE \E m \in Modules : VarnishPollFails(m)
    <2>1. PICK m \in Modules : VarnishPollFails(m)
      BY <1>9
    <2>. DEFINE dropped == {cmd_handler[m]} \ {0}
    <2>2. /\ cmd_handler' = [cmd_handler EXCEPT ![m] = 0]
          /\ processes' = Left(ToReap(m), dropped) /\ outputs' = outputs \ dropped
          /\ UNCHANGED <<pid, proc, state>>
      BY <2>1 DEF VarnishPollFails
    <2>3. dropped \subseteq current
      OBVIOUS
    <2>4. \A d \in dropped : "process" \notin state[d] => d \in ToReap(m)
      BY DEF ToReap, Finished
    <2>5. {cmd_handler'[n] : n \in Modules} \ {0} = current \ dropped
      <3>1. \A n \in Modules : cmd_handler'[n] = IF n = m THEN 0 ELSE cmd_handler[n]
        BY <1>a, <2>2
      <3>2. \A n \in Modules : n # m /\ cmd_handler[n] # 0 => cmd_handler[n] \notin dropped
        BY <1>c
      <3>. QED
        BY <3>1, <3>2
    <2>6. OwnCommand'
      BY <1>a, <1>c, <2>2 DEF OwnCommand
    <2>7. \A n \in Modules : cmd_handler[n] \notin dropped \union {0}
                               => cmd_handler'[n] = cmd_handler[n]
      BY <1>a, <2>2
    <2>. HIDE DEF dropped
    <2>8. /\ {h \in processes' : h.cmd # Reaper} = {Handler(d) : d \in current \ dropped}
          /\ \A q \in Pids : proc[q] # "none" =>
               \/ [pid |-> q, cmd |-> Reaper] \in processes'
               \/ \E n \in Modules : /\ cmd_handler[n] \notin dropped \union {0}
                                     /\ pid[cmd_handler[n]] = q
                                     /\ "process" \notin state[cmd_handler[n]]
      BY <2>2, <2>3, <2>4, CareLeft
    <2>9. OnlyCurrent'
      BY <1>c, <2>2, <2>5, <2>8 DEF OnlyCurrent, Handler
    <2>10. AllTended'
      BY <2>2, <2>7, <2>8 DEF AllTended, Tended
    <2>. QED
      BY <2>6, <2>9, <2>10 DEF Care
  <1>10. CASE VarnishCleanup
    <2>1. /\ cmd_handler' = [m \in Modules |-> 0]
          /\ processes' = Left(current, current) /\ outputs' = outputs \ current
          /\ UNCHANGED <<pid, proc, state>>
      BY <1>10 DEF VarnishCleanup
    <2>2. /\ {h \in processes' : h.cmd # Reaper} = {Handler(d) : d \in current \ current}
          /\ \A q \in Pids : proc[q] # "none" =>
               \/ [pid |-> q, cmd |-> Reaper] \in processes'
               \/ \E n \in Modules : /\ cmd_handler[n] \notin current \union {0}
                                     /\ pid[cmd_handler[n]] = q
                                     /\ "process" \notin state[cmd_handler[n]]
      BY <2>1, CareLeft
    <2>3. {cmd_handler'[n] : n \in Modules} \ {0} = {}
      BY <2>1
    <2>4. OnlyCurrent' /\ OwnCommand'
      BY <1>c, <2>1, <2>2, <2>3 DEF OnlyCurrent, OwnCommand
    <2>5. AllTended'
      BY <2>1, <2>2 DEF AllTended, Tended
    <2>. QED
      BY <2>4, <2>5 DEF Care
  <1>11. CASE \E c \in Commands : ChildWrites(c) \/ OutputEnds(c)
    <2>1. UNCHANGED <<cmd_handler, pid, outputs, processes, proc, state>>
      BY <1>11 DEF ChildWrites, OutputEnds
    <2>. QED
      BY <2>1, CareKept
  <1>12. CASE \E p \in Pids : ChildExits(p) \/ ChildStops(p) \/ ChildContinues(p)
    <2>1. /\ UNCHANGED <<cmd_handler, pid, outputs, processes, state>>
          /\ \E p \in Pids : /\ proc[p] # "none"
                             /\ \A q \in Pids : q # p => proc'[q] = proc[q]
      BY <1>12, <1>a DEF ChildExits, ChildStops, ChildContinues, Alive
    <2>. QED
      BY <2>1, CareKept
  <1>13. CASE HandleSigaction \/ HandleSigactionBlocks \/ UNCHANGED vars
    <2>1. UNCHANGED <<cmd_handler, pid, outputs, processes, proc, state>>
      BY <1>13 DEF HandleSigaction, HandleSigactionBlocks, vars
    <2>. QED
      BY <2>1, CareKept
  <1>. QED
    BY <1>2, <1>3, <1>5, <1>6, <1>7, <1>8, <1>9, <1>10, <1>11, <1>12, <1>13
       DEF Next, Agent, System, SelectTimesOut, Stuck

-----------------------------------------------------------------------------
(* What becomes metrics *)

LEMMA WholeInit == Init => Whole
  BY DEF Init, Whole, Fresh, OneProcess, ExitsTold, ReadsWhole, ParsedDone, Alive

\* A step that leaves the commands, their outputs and the processes as they are,
\* up to a stop and the writers that go away, keeps Whole.
LEMMA WholeKept ==
  ASSUME Types, Whole,
         UNCHANGED <<started, pid, state, output, open, unread, written, exited, parsed>>,
         held' \subseteq held,
         \A c \in 1 .. started : Handler(c) \in processes' => Handler(c) \in processes,
         \A p \in Pids : \/ proc'[p] = proc[p]
                         \/ Alive(p) /\ proc'[p] \in {"running", "stopped"},
         \A c \in Commands : at' = <<"read", c>> => at = <<"read", c>> \/ c \in open
  PROVE  Whole'
  <1>1. /\ \A c \in 1 .. started : c \in Commands /\ pid[c] \in Pids
        /\ \A p \in Pids : Alive(p)' = Alive(p) /\ (Zombie(p)' => Zombie(p) /\ proc'[p] = proc[p])
        /\ \A p \in Pids : proc'[p] = "none" => proc[p] = "none"
    <2>1. started \in 0 .. MaxCommands
      BY DEF Types, TypeOK
    <2>2. \A c \in 1 .. started : c \in Commands /\ pid[c] \in Pids
      BY <2>1, CommandsAssumption DEF Commands, Types, Given
    <2>3. \A p \in Pids : Alive(p)' = Alive(p) /\ (Zombie(p)' => Zombie(p) /\ proc'[p] = proc[p])
      BY DEF Alive, Zombie
    <2>4. \A p \in Pids : proc'[p] = "none" => proc[p] = "none"
      OBVIOUS
    <2>. QED
      BY <2>2, <2>3, <2>4
  <1>2. Fresh' /\ ParsedDone'
    BY DEF Whole, Fresh, ParsedDone
  <1>3. OneProcess'
    BY <1>1 DEF Whole, OneProcess, Alive
  <1>4. ExitsTold'
    <2>1. \A c \in 1 .. started : Handler(c)' = Handler(c)
      BY DEF Handler
    <2>2. ASSUME NEW c \in 1 .. started, Handler(c) \in processes', "process" \notin state[c]
          PROVE  /\ proc'[pid[c]] # "none"
                 /\ Alive(pid[c])' => exited[c] = "none"
                 /\ Zombie(pid[c])' => exited[c] = proc'[pid[c]]
      <3>1. /\ proc[pid[c]] # "none"
            /\ Alive(pid[c]) => exited[c] = "none"
            /\ Zombie(pid[c]) => exited[c] = proc[pid[c]]
        BY <2>2 DEF Whole, ExitsTold
      <3>. QED
        BY <1>1, <3>1 DEF Alive, Zombie
    <2>. QED
      BY <2>1, <2>2 DEF Whole, ExitsTold, Alive, Zombie
  <1>5. ReadsWhole'
    BY DEF Whole, ReadsWhole
  <1>. QED
    BY <1>2, <1>3, <1>4, <1>5 DEF Whole

\* A handler of p is that of a command whose pid is p.
LEMMA Told ==
  ASSUME Types, OnlyCurrent, NEW p \in Pids, NEW c \in Commands,
         [pid |-> p, cmd |-> c] \in processes
  PROVE  c \in 1 .. started /\ pid[c] = p /\ Handler(c) \in processes
  <1>. DEFINE h == [pid |-> p, cmd |-> c]
  <1>1. started \in 0 .. MaxCommands /\ cmd_handler \in [Modules -> 0 .. started]
    BY DEF Types, TypeOK
  <1>2. c # Reaper
    BY CommandsAssumption DEF Commands, Reaper
  <1>3. PICK m \in Modules : h = Handler(cmd_handler[m]) /\ cmd_handler[m] # 0
    BY <1>2 DEF OnlyCurrent
  <1>4. pid[cmd_handler[m]] = p /\ cmd_handler[m] = c
    BY <1>3 DEF Handler
  <1>. QED
    BY <1>1, <1>3, <1>4

\* The callbacks of an exit: of a zombie, or of a child that is already gone.
LEMMA WholeTellExit ==
  ASSUME Types, OnlyCurrent, Whole, NEW p \in Pids, NEW how, TellExit(p, how),
         \/ Zombie(p) /\ how = proc[p]
         \/ proc[p] = "none" /\ how = "succeeded",
         proc'[p] = "none", \A q \in Pids : q # p => proc'[q] = proc[q],
         at' \in {at, <<"loop">>},
         UNCHANGED <<started, pid, output, open, held, unread, written, exited>>
  PROVE  Whole'
  <1>. DEFINE told == {c \in Commands : [pid |-> p, cmd |-> c] \in processes}
              bits == IF how = "failed" THEN {"process", "failed"} ELSE {"process"}
  <1>1. /\ \A c \in 1 .. started : c \in Commands /\ pid[c] \in Pids
        /\ state \in [Commands -> SUBSET {"process", "read", "failed"}]
        /\ output \in [Commands -> 0 .. MaxOutput] /\ unread \in [Commands -> 0 .. MaxOutput]
        /\ parsed \in [Commands -> Nat]
    <2>1. started \in 0 .. MaxCommands
      BY DEF Types, TypeOK
    <2>2. \A c \in 1 .. started : c \in Commands /\ pid[c] \in Pids
      BY <2>1, CommandsAssumption DEF Commands, Types, Given
    <2>. QED
      BY <2>2 DEF Types, TypeOK
  <1>2. \A c \in told : c \in 1 .. started /\ pid[c] = p /\ Handler(c) \in processes
    BY Told
  <1>3. /\ \A c \in told : state'[c] = state[c] \union bits
        /\ \A c \in Commands \ told : state'[c] = state[c] /\ parsed'[c] = parsed[c]
        /\ \A c \in told : parsed'[c] = parsed[c] + Parses(state'[c])
        /\ processes' \subseteq processes
    BY DEF TellExit
  <1>. HIDE DEF told
  <1>4. \A c \in Commands : /\ state[c] \subseteq state'[c]
                            /\ "read" \in state'[c] => "read" \in state[c]
    BY <1>3
  <1>5. \A q \in Pids : /\ Alive(q)' = Alive(q)
                        /\ Zombie(q)' => Zombie(q) /\ proc'[q] = proc[q]
    BY DEF Alive, Zombie
  <1>6. Fresh' /\ OneProcess'
    <2>1. Fresh'
      BY DEF Whole, Fresh
    <2>2. OneProcess'
      BY <1>1, <1>5 DEF Whole, OneProcess
    <2>. QED
      BY <2>1, <2>2
  <1>7. ASSUME NEW c \in 1 .. started, Handler(c) \in processes', "process" \notin state'[c]
        PROVE  /\ proc'[pid[c]] # "none"
               /\ Alive(pid[c])' => exited[c] = "none"
               /\ Zombie(pid[c])' => exited[c] = proc'[pid[c]]
    <2>1. "process" \notin state[c] /\ Handler(c) \in processes /\ pid[c] \in Pids
      BY <1>1, <1>3, <1>4, <1>7
    <2>2. pid[c] # p
      <3>. SUFFICES ASSUME pid[c] = p PROVE FALSE
        OBVIOUS
      <3>1. c \in told
        BY <1>1, <2>1 DEF told, Handler
      <3>. QED
        BY <1>3, <1>7, <3>1
    <2>3. /\ proc[pid[c]] # "none"
          /\ Alive(pid[c]) => exited[c] = "none"
          /\ Zombie(pid[c]) => exited[c] = proc[pid[c]]
      BY <2>1 DEF Whole, ExitsTold
    <2>. QED
      BY <1>5, <2>1, <2>2, <2>3
  <1>8. ASSUME NEW c \in Commands, "process" \in state'[c], "failed" \notin state'[c]
        PROVE  exited[c] = "succeeded"
    <2>1. CASE "process" \in state[c]
      BY <1>4, <1>8, <2>1 DEF Whole, ExitsTold
    <2>2. CASE "process" \notin state[c]
      <3>1. c \in told /\ how # "failed"
        BY <1>3, <1>8, <2>2
      <3>2. c \in 1 .. started /\ pid[c] = p /\ Handler(c) \in processes
        BY <1>2, <3>1
      <3>3. proc[p] # "none" /\ (Zombie(p) => exited[c] = proc[p])
        BY <2>2, <3>2 DEF Whole, ExitsTold
      <3>. QED
        BY <3>1, <3>3 DEF Zombie
    <2>. QED
      BY <2>1, <2>2
  <1>9. ExitsTold'
    <2>1. \A c \in 1 .. started : Handler(c)' = Handler(c)
      BY DEF Handler
    <2>. QED
      BY <1>7, <1>8, <2>1 DEF ExitsTold, Alive, Zombie
  <1>10. ReadsWhole'
    <2>1. \A c \in Commands : at' = <<"read", c>> => at = <<"read", c>>
      OBVIOUS
    <2>. QED
      BY <1>4, <2>1 DEF Whole, ReadsWhole
  <1>11. ASSUME NEW c \in Commands, parsed'[c] > 0
         PROVE  /\ Finished(state'[c]) /\ exited[c] = "succeeded"
                /\ c \notin held /\ output[c] = written[c]
    <2>1. CASE parsed[c] > 0
      BY <1>4, <2>1 DEF Whole, ParsedDone, Finished
    <2>2. CASE ~(parsed[c] > 0)
      <3>1. Parses(state'[c]) # 0
        BY <1>1, <1>3, <1>11, <2>2
      <3>2. Finished(state'[c]) /\ "failed" \notin state'[c]
        BY <3>1 DEF Parses
      <3>3. "process" \in state'[c] /\ "read" \in state'[c]
        BY <3>2 DEF Finished
      <3>4. /\ output[c] + unread[c] = written[c]
            /\ c \notin held /\ unread[c] = 0
        BY <1>4, <3>2, <3>3 DEF Whole, ReadsWhole
      <3>5. output[c] = written[c]
        BY <1>1, <3>4
      <3>. QED
        BY <1>8, <3>2, <3>3, <3>4, <3>5
    <2>. QED
      BY <2>1, <2>2
  <1>. QED
    BY <1>6, <1>9, <1>10, <1>11 DEF Whole, ParsedDone

\* An output that has not ended was not parsed.
LEMMA NotParsed ==
  ASSUME Types, Whole, NEW c \in Commands, ~Finished(state[c])
  PROVE  parsed[c] = 0
  <1>1. parsed[c] \in Nat /\ ~(parsed[c] > 0)
    BY DEF Types, TypeOK, Whole, ParsedDone
  <1>. QED
    BY <1>1

LEMMA WholeReadAll ==
  ASSUME Types, Whole, NEW c \in 1 .. started, "read" \notin state[c], ReadAll(c),
         UNCHANGED <<started, pid, processes, proc, held, written, exited>>
  PROVE  Whole'
  <1>1. /\ c \in Commands
        /\ state \in [Commands -> SUBSET {"process", "read", "failed"}]
        /\ output \in [Commands -> 0 .. MaxOutput] /\ unread \in [Commands -> 0 .. MaxOutput]
        /\ written \in [Commands -> 0 .. MaxOutput] /\ parsed \in [Commands -> Nat]
    <2>1. started \in 0 .. MaxCommands
      BY DEF Types, TypeOK
    <2>2. c \in Commands
      BY <2>1, CommandsAssumption DEF Commands
    <2>. QED
      BY <2>2 DEF Types, TypeOK
  <1>2. ~Finished(state[c])
    BY DEF Finished
  <1>3. parsed[c] = 0
    BY <1>1, <1>2, NotParsed
  <1>4. /\ output' = [output EXCEPT ![c] = @ + unread[c]]
        /\ unread' = [unread EXCEPT ![c] = 0]
        /\ \A d \in Commands \ {c} : /\ output'[d] = output[d] /\ unread'[d] = unread[d]
                                     /\ state'[d] = state[d] /\ parsed'[d] = parsed[d]
                                     /\ at' # <<"read", d>>
        /\ open' \subseteq open
    BY <1>1 DEF ReadAll
  <1>5. \/ state' = state /\ parsed'[c] = 0
        \/ /\ state' = [state EXCEPT ![c] = @ \union {"read"}]
           /\ parsed'[c] = Parses(state'[c])
           /\ c \notin held /\ c \notin open' /\ at' = <<"loop">>
    <2>1. Parses(state[c]) = 0
      BY <1>2 DEF Parses
    <2>2. CASE unread[c] % ReadSize # 0
      BY <1>1, <1>3, <2>1, <2>2 DEF ReadAll
    <2>3. CASE unread[c] % ReadSize = 0 /\ c \in held
      BY <1>3, <2>3 DEF ReadAll
    <2>4. CASE unread[c] % ReadSize = 0 /\ c \notin held
      <3>1. /\ state' = [state EXCEPT ![c] = @ \union {"read"}]
            /\ parsed' = [parsed EXCEPT ![c] = @ + Parses(state'[c])]
            /\ at' = <<"loop">> /\ open' = open \ {c}
        BY <2>4 DEF ReadAll
      <3>2. parsed'[c] = 0 + Parses(state'[c])
        BY <1>1, <1>3, <3>1
      <3>3. parsed'[c] = Parses(state'[c])
        BY <3>2, ParsesType
      <3>. QED
        BY <2>4, <3>1, <3>3
    <2>. QED
      BY <2>2, <2>3, <2>4
  <1>6. Fresh' /\ OneProcess'
    BY DEF Whole, Fresh, OneProcess, Alive
  <1>7. \A d \in Commands :
          /\ "process" \in state'[d] <=> "process" \in state[d]
          /\ "failed" \in state'[d] <=> "failed" \in state[d]
          /\ "read" \in state'[d] /\ "read" \notin state[d] =>
               /\ d = c /\ c \notin held /\ c \notin open' /\ at' = <<"loop">>
    <2>1. CASE state' = state
      BY <2>1
    <2>2. CASE /\ state' = [state EXCEPT ![c] = @ \union {"read"}]
               /\ c \notin held /\ c \notin open' /\ at' = <<"loop">>
      BY <1>1, <2>2
    <2>. QED
      BY <1>5, <2>1, <2>2
  <1>8. ExitsTold'
    <2>1. \A d \in 1 .. started : d \in Commands /\ Handler(d)' = Handler(d)
      BY CommandsAssumption DEF Handler, Types, TypeOK, Commands
    <2>. QED
      BY <1>7, <2>1 DEF Whole, ExitsTold, Alive, Zombie
  <1>9. ReadsWhole'
    <2>1. ASSUME NEW d \in Commands, "failed" \notin state'[d]
          PROVE  output'[d] + unread'[d] = written[d]
      <3>1. output[d] + unread[d] = written[d]
        BY <1>7, <2>1 DEF Whole, ReadsWhole
      <3>2. CASE d = c
        <4>1. output'[d] = output[d] + unread[d] /\ unread'[d] = 0
          BY <1>1, <1>4, <3>2
        <4>. QED
          BY <1>1, <3>1, <4>1
      <3>3. CASE d # c
        BY <1>4, <3>1, <3>3
      <3>. QED
        BY <3>2, <3>3
    <2>2. ASSUME NEW d \in Commands, "read" \in state'[d]
          PROVE  /\ d \notin open'
                 /\ at' # <<"read", d>>
                 /\ "failed" \notin state'[d] => d \notin held /\ unread'[d] = 0
      <3>1. CASE d = c
        <4>1. "read" \notin state[d] /\ unread'[d] = 0
          BY <1>1, <1>4, <3>1
        <4>. QED
          BY <1>7, <2>2, <3>1, <4>1
      <3>2. CASE d # c
        <4>1. "read" \in state[d]
          BY <1>7, <2>2, <3>2
        <4>2. /\ d \notin open
              /\ "failed" \notin state[d] => d \notin held /\ unread[d] = 0
          BY <4>1 DEF Whole, ReadsWhole
        <4>. QED
          BY <1>4, <1>7, <3>2, <4>2
      <3>. QED
        BY <3>1, <3>2
    <2>. QED
      BY <2>1, <2>2 DEF ReadsWhole
  <1>10. ASSUME NEW d \in Commands, parsed'[d] > 0
         PROVE  /\ Finished(state'[d]) /\ exited[d] = "succeeded"
                /\ d \notin held /\ output'[d] = written[d]
    <2>1. CASE d = c
      <3>1. Parses(state'[c]) # 0
        BY <1>5, <1>10, <2>1
      <3>2. Finished(state'[c]) /\ "failed" \notin state'[c]
        BY <3>1 DEF Parses
      <3>3. "read" \in state'[c] /\ "process" \in state'[c]
        BY <3>2 DEF Finished
      <3>4. /\ c \notin held /\ unread'[c] = 0
            /\ output'[c] + unread'[c] = written[c]
            /\ exited[c] = "succeeded"
        BY <1>1, <1>8, <1>9, <3>2, <3>3 DEF ExitsTold, ReadsWhole
      <3>5. output'[c] = output[c] + unread[c]
        BY <1>1, <1>4
      <3>6. output'[c] = written[c]
        BY <1>1, <3>4, <3>5
      <3>. QED
        BY <2>1, <3>2, <3>4, <3>6
    <2>2. CASE d # c
      BY <1>4, <1>10, <2>2 DEF Whole, ParsedDone
    <2>. QED
      BY <2>1, <2>2
  <1>. QED
    BY <1>6, <1>8, <1>9, <1>10 DEF Whole, ParsedDone

LEMMA WholeReadFails ==
  ASSUME Types, Whole, NEW c \in Commands, ReadFails(c)
  PROVE  Whole'
  <1>. USE DEF agent, cmds, lists, system, pipes, chld
  <1>1. /\ state \in [Commands -> SUBSET {"process", "read", "failed"}]
        /\ output \in [Commands -> 0 .. MaxOutput]
    BY DEF Types, TypeOK
  <1>2. /\ c \in open
        /\ state' = [state EXCEPT ![c] = @ \union {"read", "failed"}]
        /\ output' = [output EXCEPT ![c] = 0]
        /\ open' = open \ {c}
        /\ at = <<"loop">>
        /\ UNCHANGED <<at, started, pid, processes, proc, held, unread, written, exited,
                       parsed>>
    BY DEF ReadFails
  <1>3. parsed[c] = 0
    <2>1. ~Finished(state[c])
      BY <1>2 DEF Whole, ReadsWhole, Finished
    <2>. QED
      BY <2>1, NotParsed
  <1>4. /\ state'[c] = state[c] \union {"read", "failed"}
        /\ \A d \in Commands \ {c} : state'[d] = state[d] /\ output'[d] = output[d]
    BY <1>1, <1>2
  <1>5. Fresh' /\ OneProcess'
    BY <1>2 DEF Whole, Fresh, OneProcess, Alive
  <1>6. ExitsTold'
    <2>1. \A d \in 1 .. started : d \in Commands /\ Handler(d)' = Handler(d)
      BY <1>2, CommandsAssumption DEF Handler, Types, TypeOK, Commands
    <2>2. \A d \in Commands : /\ "process" \in state'[d] <=> "process" \in state[d]
                              /\ "failed" \notin state'[d] => "failed" \notin state[d]
      BY <1>4
    <2>. QED
      BY <1>2, <2>1, <2>2 DEF Whole, ExitsTold, Alive, Zombie
  <1>7. ReadsWhole'
    <2>1. ASSUME NEW d \in Commands, "failed" \notin state'[d]
          PROVE  output'[d] + unread[d] = written[d]
      <3>1. d # c
        BY <1>4, <2>1
      <3>. QED
        BY <1>4, <2>1, <3>1 DEF Whole, ReadsWhole
    <2>2. ASSUME NEW d \in Commands, "read" \in state'[d]
          PROVE  /\ d \notin open' /\ at # <<"read", d>>
                 /\ "failed" \notin state'[d] => d \notin held /\ unread[d] = 0
      <3>1. CASE d = c
        BY <1>2, <1>4, <3>1
      <3>2. CASE d # c
        BY <1>2, <1>4, <2>2, <3>2 DEF Whole, ReadsWhole
      <3>. QED
        BY <3>1, <3>2
    <2>. QED
      BY <1>2, <2>1, <2>2 DEF ReadsWhole
  <1>8. ParsedDone'
    <2>. SUFFICES ASSUME NEW d \in Commands, parsed[d] > 0
                  PROVE  /\ Finished(state'[d]) /\ exited[d] = "succeeded"
                         /\ d \notin held /\ output'[d] = written[d]
      BY <1>2 DEF ParsedDone
    <2>1. d # c
      BY <1>3
    <2>. QED
      BY <1>4, <2>1 DEF Whole, ParsedDone
  <1>. QED
    BY <1>5, <1>6, <1>7, <1>8 DEF Whole

LEMMA WholeWrites ==
  ASSUME Types, Whole, NEW c \in Commands, ChildWrites(c)
  PROVE  Whole'
  <1>. USE DEF agent, cmds, lists, system, pipes, chld
  <1>1. /\ output \in [Commands -> 0 .. MaxOutput] /\ unread \in [Commands -> 0 .. MaxOutput]
        /\ written \in [Commands -> 0 .. MaxOutput]
    BY DEF Types, TypeOK
  <1>2. /\ c \in held
        /\ written' = [written EXCEPT ![c] = @ + 1] /\ unread' = [unread EXCEPT ![c] = @ + 1]
        /\ UNCHANGED <<at, started, pid, state, output, open, processes, proc, held, exited,
                       parsed>>
    BY DEF ChildWrites
  <1>3. /\ written'[c] = written[c] + 1 /\ unread'[c] = unread[c] + 1
        /\ \A d \in Commands \ {c} : written'[d] = written[d] /\ unread'[d] = unread[d]
    BY <1>1, <1>2
  <1>4. Fresh' /\ OneProcess'
    BY <1>2 DEF Whole, Fresh, OneProcess, Alive
  <1>5. ExitsTold'
    BY <1>2 DEF Whole, ExitsTold, Alive, Zombie, Handler
  <1>6. ReadsWhole'
    <2>1. ASSUME NEW d \in Commands, "failed" \notin state[d]
          PROVE  output[d] + unread'[d] = written'[d]
      <3>1. output[d] + unread[d] = written[d]
        BY <2>1 DEF Whole, ReadsWhole
      <3>2. CASE d = c
        BY <1>1, <1>3, <3>1, <3>2
      <3>3. CASE d # c
        BY <1>3, <3>1, <3>3
      <3>. QED
        BY <3>2, <3>3
    <2>2. ASSUME NEW d \in Commands, "read" \in state[d]
          PROVE  /\ d \notin open /\ at # <<"read", d>>
                 /\ "failed" \notin state[d] => d \notin held /\ unread'[d] = 0
      <3>1. /\ d \notin open /\ at # <<"read", d>>
            /\ "failed" \notin state[d] => d \notin held /\ unread[d] = 0
        BY <2>2 DEF Whole, ReadsWhole
      <3>. QED
        BY <1>2, <1>3, <3>1
    <2>. QED
      BY <1>2, <2>1, <2>2 DEF ReadsWhole
  <1>7. ParsedDone'
    BY <1>2, <1>3 DEF Whole, ParsedDone
  <1>. QED
    BY <1>4, <1>5, <1>6, <1>7 DEF Whole

\* The end of a child is that of the one command whose process it is.
LEMMA WholeExits ==
  ASSUME Types, Whole, NEW p \in Pids, ChildExits(p)
  PROVE  Whole'
  <1>. USE DEF agent, cmds, lists, system, pipes, chld
  <1>. DEFINE r == Running(p)
  <1>1. /\ \A c \in 1 .. started : c \in Commands /\ pid[c] \in Pids
        /\ exited \in [Commands -> {"none", "succeeded", "failed"}]
        /\ proc \in [Pids -> {"none", "running", "stopped", "succeeded", "failed"}]
        /\ Commands \subseteq Nat \ {0} /\ started \in Nat
    <2>1. started \in 0 .. MaxCommands
      BY DEF Types, TypeOK
    <2>2. \A c \in 1 .. started : c \in Commands /\ pid[c] \in Pids
      BY <2>1, CommandsAssumption DEF Commands, Types, Given
    <2>. QED
      BY <2>1, <2>2, CommandsAssumption DEF Commands, Types, TypeOK
  <1>2. Alive(p)
    BY DEF ChildExits
  <1>3. PICK how \in {"succeeded", "failed"} : /\ proc' = [proc EXCEPT ![p] = how]
                                               /\ exited' = [exited EXCEPT ![r] = how]
    BY DEF ChildExits
  <1>4. UNCHANGED <<at, started, pid, state, output, open, processes, held, unread, written,
                    parsed>>
    BY DEF ChildExits
  <1>5. r \in Commands /\ pid[r] = p /\ exited[r] = "none"
    <2>1. \E c \in Commands : pid[c] = p /\ exited[c] = "none"
      BY <1>1, <1>2 DEF Whole, OneProcess
    <2>. QED
      BY <2>1 DEF Running
  <1>. HIDE DEF r
  <1>6. r \in 1 .. started
    <2>1. ~(r > started)
      BY <1>5, CommandsAssumption DEF Whole, Fresh
    <2>. QED
      BY <1>1, <1>5, <2>1
  <1>7. \A c \in 1 .. started : pid[c] = p /\ exited[c] = "none" => c = r
    BY <1>5, <1>6 DEF Whole, OneProcess
  <1>8. /\ proc'[p] = how /\ exited'[r] = how
        /\ \A q \in Pids \ {p} : proc'[q] = proc[q]
        /\ \A c \in Commands \ {r} : exited'[c] = exited[c]
    BY <1>1, <1>3, <1>5
  <1>9. Fresh'
    BY <1>4, <1>6, <1>1, <1>8 DEF Whole, Fresh
  <1>10. OneProcess'
    <2>1. ASSUME NEW q \in Pids, Alive(q)'
          PROVE  \E c \in 1 .. started : pid[c] = q /\ exited'[c] = "none"
      <3>1. q # p /\ Alive(q)
        BY <1>3, <1>8, <2>1 DEF Alive
      <3>2. PICK c \in 1 .. started : pid[c] = q /\ exited[c] = "none"
        BY <3>1 DEF Whole, OneProcess
      <3>. QED
        BY <1>1, <1>5, <1>8, <3>1, <3>2
    <2>2. ASSUME NEW c \in 1 .. started, exited'[c] = "none"
          PROVE  Alive(pid[c])' /\ exited[c] = "none"
      <3>1. c # r /\ exited[c] = "none"
        BY <1>1, <1>3, <1>8, <2>2
      <3>2. Alive(pid[c]) /\ pid[c] # p
        BY <1>7, <3>1 DEF Whole, OneProcess
      <3>. QED
        BY <1>1, <1>4, <1>8, <3>1, <3>2 DEF Alive
    <2>. QED
      BY <1>4, <2>1, <2>2 DEF Whole, OneProcess, Alive
  <1>11. ExitsTold'
    <2>1. ASSUME NEW c \in 1 .. started, Handler(c) \in processes, "process" \notin state[c]
          PROVE  /\ proc'[pid[c]] # "none"
                 /\ proc'[pid[c]] \in {"running", "stopped"} => exited'[c] = "none"
                 /\ proc'[pid[c]] \in {"succeeded", "failed"} => exited'[c] = proc'[pid[c]]
      <3>1. /\ proc[pid[c]] # "none"
            /\ Alive(pid[c]) => exited[c] = "none"
            /\ Zombie(pid[c]) => exited[c] = proc[pid[c]]
        BY <2>1 DEF Whole, ExitsTold
      <3>2. CASE pid[c] = p
        BY <1>2, <1>3, <1>7, <1>8, <3>1, <3>2
      <3>3. CASE pid[c] # p
        BY <1>1, <1>5, <1>8, <3>1, <3>3 DEF Alive, Zombie
      <3>. QED
        BY <3>2, <3>3
    <2>2. ASSUME NEW c \in Commands, "process" \in state[c], "failed" \notin state[c]
          PROVE  exited'[c] = "succeeded"
      <3>1. exited[c] = "succeeded"
        BY <2>2 DEF Whole, ExitsTold
      <3>. QED
        BY <1>5, <1>8, <3>1
    <2>. QED
      BY <1>4, <2>1, <2>2 DEF ExitsTold, Handler, Alive, Zombie
  <1>12. ReadsWhole'
    BY <1>4 DEF Whole, ReadsWhole
  <1>13. ParsedDone'
    BY <1>4, <1>5, <1>8 DEF Whole, ParsedDone
  <1>. QED
    BY <1>9, <1>10, <1>11, <1>12, <1>13 DEF Whole

\* A command is started: its pid is free, and nothing is known of it.
LEMMA WholePoll ==
  ASSUME Types, Whole, NEW m \in Modules, NEW p \in Pids, VarnishPoll(m, p)
  PROVE  Whole'
  <1>. USE DEF agent, cmds, lists, system, pipes, chld
  <1>. DEFINE c == started + 1
  <1>1. /\ \A d \in 1 .. started : d \in Commands /\ pid[d] \in Pids /\ d # c
        /\ 1 .. c = (1 .. started) \union {c} /\ c \in Commands /\ c # Reaper
        /\ \A d \in Commands : d > c => d > started /\ d # c
        /\ pid \in [Commands -> Pids \union {NoPid}]
        /\ proc \in [Pids -> {"none", "running", "stopped", "succeeded", "failed"}]
    <2>1. started \in 0 .. MaxCommands /\ started < MaxCommands
      BY DEF Types, TypeOK, VarnishPoll
    <2>2. \A d \in 1 .. started : d \in Commands /\ pid[d] \in Pids /\ d # c
      BY <2>1, CommandsAssumption DEF Commands, Types, Given
    <2>3. 1 .. c = (1 .. started) \union {c} /\ c \in Commands /\ c # Reaper
      BY <2>1, CommandsAssumption DEF Commands, Reaper
    <2>4. \A d \in Commands : d > c => d > started /\ d # c
      BY <2>1, CommandsAssumption DEF Commands
    <2>. QED
      BY <2>2, <2>3, <2>4 DEF Types, TypeOK
  <1>2. c > started /\ state[c] = {} /\ exited[c] = "none"
    <2>1. c > started
      BY DEF Types, TypeOK
    <2>. QED
      BY <1>1, <2>1 DEF Types, Given, Whole, Fresh
  <1>3. /\ proc[p] = "none" /\ at = <<"loop">> /\ started' = c
        /\ pid' = [pid EXCEPT ![c] = p]
        /\ proc' = [proc EXCEPT ![p] = "running"]
        /\ open' = open \union {c}
        /\ held' \subseteq held \union {c}
        /\ UNCHANGED <<at, state, output, unread, written, exited, parsed>>
    BY DEF VarnishPoll
  <1>4. ASSUME NEW d \in 1 .. started
        PROVE  [pid |-> pid[d], cmd |-> d] \in processes' => Handler(d) \in processes
    <2>1. d # Reaper
      BY <1>1, CommandsAssumption DEF Commands, Reaper
    <2>2. processes' \subseteq processes \union Reapers(ToReap(m)) \union {[pid |-> p, cmd |-> c]}
      BY DEF VarnishPoll, Left
    <2>. QED
      BY <1>1, <2>1, <2>2 DEF Reapers, Handler
  <1>. HIDE DEF c
  <1>5. /\ pid'[c] = p /\ proc'[p] = "running"
        /\ \A d \in Commands \ {c} : pid'[d] = pid[d]
        /\ \A q \in Pids \ {p} : proc'[q] = proc[q]
    BY <1>1, <1>3
  <1>6. parsed[c] = 0
    <2>1. ~Finished(state[c])
      BY <1>2 DEF Finished
    <2>. QED
      BY <1>1, <2>1, NotParsed
  <1>7. Fresh'
    BY <1>1, <1>3, <1>5 DEF Whole, Fresh
  <1>8. OneProcess'
    <2>1. ASSUME NEW q \in Pids, Alive(q)'
          PROVE  \E d \in 1 .. c : pid'[d] = q /\ exited[d] = "none"
      <3>1. CASE q = p
        BY <1>1, <1>2, <1>5, <3>1
      <3>2. CASE q # p
        <4>1. Alive(q)
          BY <1>5, <2>1, <3>2 DEF Alive
        <4>2. PICK d \in 1 .. started : pid[d] = q /\ exited[d] = "none"
          BY <4>1 DEF Whole, OneProcess
        <4>. QED
          BY <1>1, <1>5, <4>2
      <3>. QED
        BY <3>1, <3>2
    <2>2. \A d \in 1 .. started : exited[d] = "none" => pid[d] # p /\ Alive(pid[d])
      BY <1>3 DEF Whole, OneProcess, Alive
    <2>3. \A d \in 1 .. c : exited[d] = "none" => proc'[pid'[d]] \in {"running", "stopped"}
      BY <1>1, <1>5, <2>2 DEF Alive
    <2>4. \A d, e \in 1 .. c : pid'[d] = pid'[e] /\ exited[d] = "none" /\ exited[e] = "none"
                                 => d = e
      <3>. SUFFICES ASSUME NEW d \in 1 .. c, NEW e \in 1 .. c, pid'[d] = pid'[e],
                           exited[d] = "none", exited[e] = "none"
                    PROVE  d = e
        OBVIOUS
      <3>1. CASE d = c \/ e = c
        BY <1>1, <1>5, <2>2, <3>1
      <3>2. CASE d # c /\ e # c
        <4>1. d \in 1 .. started /\ e \in 1 .. started /\ pid[d] = pid[e]
          BY <1>1, <1>5, <3>2
        <4>. QED
          BY <4>1 DEF Whole, OneProcess
      <3>. QED
        BY <3>1, <3>2
    <2>. QED
      BY <1>3, <2>1, <2>3, <2>4 DEF OneProcess, Alive
  <1>9. ExitsTold'
    <2>1. ASSUME NEW d \in 1 .. c, [pid |-> pid'[d], cmd |-> d] \in processes',
                 "process" \notin state[d]
          PROVE  /\ proc'[pid'[d]] # "none"
                 /\ proc'[pid'[d]] \in {"running", "stopped"} => exited[d] = "none"
                 /\ proc'[pid'[d]] \in {"succeeded", "failed"} => exited[d] = proc'[pid'[d]]
      <3>1. CASE d = c
        BY <1>2, <1>5, <3>1
      <3>2. CASE d # c
        <4>1. d \in 1 .. started /\ pid'[d] = pid[d] /\ pid[d] \in Pids
          BY <1>1, <1>5, <3>2
        <4>2. /\ proc[pid[d]] # "none"
              /\ Alive(pid[d]) => exited[d] = "none"
              /\ Zombie(pid[d]) => exited[d] = proc[pid[d]]
          BY <1>4, <2>1, <4>1 DEF Whole, ExitsTold
        <4>3. proc'[pid[d]] = proc[pid[d]]
          BY <1>3, <1>5, <4>1, <4>2
        <4>. QED
          BY <4>1, <4>2, <4>3 DEF Alive, Zombie
      <3>. QED
        BY <3>1, <3>2
    <2>. QED
      BY <1>3, <2>1 DEF Whole, ExitsTold, Handler, Alive, Zombie
  <1>10. ReadsWhole'
    BY <1>2, <1>3 DEF Whole, ReadsWhole
  <1>11. ParsedDone'
    BY <1>3, <1>6 DEF Whole, ParsedDone
  <1>. QED
    BY <1>7, <1>8, <1>9, <1>10, <1>11 DEF Whole

LEMMA WholeStep == Types /\ OnlyCurrent /\ Whole /\ [Next]_vars => Whole'
  <1>. SUFFICES ASSUME Types, OnlyCurrent, Whole, [Next]_vars PROVE Whole'
    OBVIOUS
  <1>. USE DEF agent, cmds, lists, system, pipes, chld
  <1>a. /\ \A c \in 1 .. started : c \in Commands /\ c # Reaper
        /\ open \subseteq 1 .. started /\ outputs \subseteq 1 .. started
        /\ proc \in [Pids -> {"none", "running", "stopped", "succeeded", "failed"}]
    <2>1. started \in 0 .. MaxCommands
      BY DEF Types, TypeOK
    <2>2. \A c \in 1 .. started : c \in Commands /\ c # Reaper
      BY <2>1, CommandsAssumption DEF Commands, Reaper
    <2>. QED
      BY <2>2 DEF Types, TypeOK
  <1>1. ASSUME NEW p \in Pids, Waited(p),
               UNCHANGED <<started, pid, output, open, held, unread, written, exited>>
        PROVE  Whole'
    <2>1. /\ Zombie(p) /\ TellExit(p, proc[p])
          /\ proc' = [proc EXCEPT ![p] = "none"] /\ at' = <<"loop">>
      BY <1>1 DEF Waited
    <2>2. proc'[p] = "none" /\ \A q \in Pids : q # p => proc'[q] = proc[q]
      BY <1>a, <2>1
    <2>. QED
      BY <1>1, <2>1, <2>2, WholeTellExit
  <1>2. CASE HandleSignal
    <2>. DEFINE p == Head(sigpipe)
    <2>1. /\ p \in Pids /\ at = <<"loop">>
          /\ UNCHANGED <<started, pid, held, unread, written, exited>>
      <3>1. sigpipe \in Seq(Pids) /\ sigpipe # <<>>
        BY <1>2 DEF HandleSignal, Types, TypeOK
      <3>. QED
        BY <1>2, <3>1, HeadTailProperties DEF HandleSignal
    <2>2. CASE UNCHANGED <<at, cmds, lists, proc, lost>>
      BY <2>1, <2>2, WholeKept
    <2>3. CASE Waited(p) /\ UNCHANGED <<output, open, outputs>>
      BY <1>1, <2>1, <2>3
    <2>4. CASE at' = <<"waitpid", p>> /\ UNCHANGED <<cmds, lists, proc, lost>>
      <3>1. \A c \in Commands : at' # <<"read", c>>
        BY <2>4
      <3>. QED
        BY <2>1, <2>4, <3>1, WholeKept
    <2>5. CASE /\ proc[p] = "none" /\ TellExit(p, "succeeded")
               /\ UNCHANGED <<at, output, open, outputs, proc, lost>>
      BY <2>1, <2>5, WholeTellExit
    <2>. QED
      BY <1>2, <2>2, <2>3, <2>4, <2>5 DEF HandleSignal
  <1>3. CASE WaitpidReturns
    <2>1. at[2] \in Pids
      BY <1>3 DEF WaitpidReturns, Types, TypeOK
    <2>. QED
      BY <1>1, <1>3, <2>1 DEF WaitpidReturns
  <1>4. CASE \E c \in Commands : HandleCommandOutput(c)
    <2>1. PICK c \in Commands : HandleCommandOutput(c)
      BY <1>4
    <2>2. c \in open /\ c \in 1 .. started /\ ReadAll(c)
      BY <1>a, <2>1 DEF HandleCommandOutput
    <2>3. "read" \notin state[c]
      BY <2>2 DEF Whole, ReadsWhole
    <2>. QED
      BY <2>1, <2>2, <2>3, WholeReadAll DEF HandleCommandOutput
  <1>5. CASE ReadReturns
    <2>1. at[2] \in 1 .. started /\ at = <<"read", at[2]>>
      BY <1>5 DEF ReadReturns, Types, TypeOK
    <2>2. "read" \notin state[at[2]]
      BY <1>a, <2>1 DEF Whole, ReadsWhole
    <2>. QED
      BY <1>5, <2>1, <2>2, WholeReadAll DEF ReadReturns
  <1>6. CASE \E c \in Commands : ReadFails(c)
    BY <1>6, WholeReadFails
  <1>7. CASE \E m \in Modules, p \in Pids : VarnishPoll(m, p)
    BY <1>7, WholePoll
  <1>8. ASSUME NEW cs, NEW drop, processes' = Left(cs, drop), held' \subseteq held,
               UNCHANGED <<at, started, pid, cmds, proc, exited, unread, written>>
        PROVE  Whole'
    <2>1. \A c \in 1 .. started : Handler(c) \in processes' => Handler(c) \in processes
      BY <1>8, <1>a DEF Left, Reapers, Handler
    <2>. QED
      BY <1>8, <2>1, WholeKept
  <1>9. CASE (\E m \in Modules : VarnishPollFails(m)) \/ VarnishCleanup
    BY <1>8, <1>9 DEF VarnishPollFails, VarnishCleanup
  <1>10. CASE \E c \in Commands : ChildWrites(c)
    BY <1>10, WholeWrites
  <1>11. CASE \E c \in Commands : OutputEnds(c)
    <2>1. /\ UNCHANGED <<started, pid, state, output, open, unread, written, exited, parsed,
                         processes, proc, at>>
          /\ held' \subseteq held
      BY <1>11 DEF OutputEnds
    <2>. QED
      BY <2>1, WholeKept
  <1>12. CASE \E p \in Pids : ChildExits(p)
    BY <1>12, WholeExits
  <1>13. CASE \E p \in Pids : ChildStops(p) \/ ChildContinues(p)
    <2>1. PICK p \in Pids : ChildStops(p) \/ ChildContinues(p)
      BY <1>13
    <2>2. /\ UNCHANGED <<started, pid, state, output, open, unread, written, exited, parsed,
                         processes, held, at>>
          /\ Alive(p)
          /\ \/ proc' = [proc EXCEPT ![p] = "stopped"]
             \/ proc' = [proc EXCEPT ![p] = "running"]
      BY <2>1 DEF ChildStops, ChildContinues, Alive
    <2>3. \A q \in Pids : \/ proc'[q] = proc[q]
                          \/ Alive(q) /\ proc'[q] \in {"running", "stopped"}
      BY <1>a, <2>2
    <2>. QED
      BY <2>2, <2>3, WholeKept
  <1>14. CASE HandleSigaction \/ HandleSigactionBlocks \/ UNCHANGED vars
    <2>1. /\ UNCHANGED <<started, pid, state, output, open, unread, written, exited, parsed,
                         processes, held, proc>>
          /\ at' \in {at, <<"write">>}
      BY <1>14 DEF HandleSigaction, HandleSigactionBlocks, vars
    <2>2. \A c \in Commands : at' = <<"read", c>> => at = <<"read", c>>
      BY <2>1
    <2>. QED
      BY <2>1, <2>2, WholeKept
  <1>. QED
    BY <1>2, <1>3, <1>4, <1>5, <1>6, <1>7, <1>9, <1>10, <1>11, <1>12, <1>13, <1>14
       DEF Next, Agent, System, SelectTimesOut, Stuck

-----------------------------------------------------------------------------
(* It becomes metrics once *)

LEMMA OnceInit == Init => Once
  <1>. SUFFICES ASSUME Init PROVE Once
    OBVIOUS
  <1>1. OneNotice
    BY CommandsAssumption DEF Init, OneNotice
  <1>2. ToldOnce
    <2>1. \A c \in 1 .. started : c \in Commands
      BY DEF Init
    <2>. QED
      BY <2>1 DEF Init, ToldOnce
  <1>. QED
    BY <1>1, <1>2 DEF Once

\* A step that writes to no pipe and raises no signal.
LEMMA NoticeKept ==
  ASSUME Types, OneNotice, disturbed \subseteq disturbed', pending' = pending,
         sigpipe' \in {sigpipe, Tail(sigpipe)}, sigpipe' # sigpipe => sigpipe # <<>>,
         \A q \in Pids \ disturbed' : /\ proc'[q] # "stopped"
                                      /\ Zombie(q) => Zombie(q)'
                                      /\ at' = <<"waitpid", q>> => at = <<"waitpid", q>>
  PROVE  OneNotice'
  <1>1. sigpipe \in Seq(Pids) /\ Len(sigpipe) \in Nat
    BY DEF Types, TypeOK
  <1>2. PICK s \in {0, 1} : /\ Len(sigpipe') + s = Len(sigpipe) /\ Len(sigpipe') \in Nat
                            /\ \A k \in 1 .. Len(sigpipe') : sigpipe'[k] = sigpipe[k + s]
    <2>1. CASE sigpipe' = sigpipe
      <3>1. \A k \in 1 .. Len(sigpipe) : k + 0 = k
        OBVIOUS
      <3>2. /\ Len(sigpipe') + 0 = Len(sigpipe) /\ Len(sigpipe') \in Nat
            /\ \A k \in 1 .. Len(sigpipe') : sigpipe'[k] = sigpipe[k + 0]
        BY <1>1, <2>1, <3>1
      <3>. QED
        BY <3>2
    <2>2. CASE sigpipe' # sigpipe
      <3>1. sigpipe # <<>> /\ sigpipe' = Tail(sigpipe)
        BY <2>2
      <3>2. /\ Tail(sigpipe) \in Seq(Pids) /\ Len(Tail(sigpipe)) = Len(sigpipe) - 1
            /\ \A k \in 1 .. Len(Tail(sigpipe)) : Tail(sigpipe)[k] = sigpipe[k + 1]
        BY <1>1, <3>1, HeadTailProperties
      <3>3. /\ Len(sigpipe') + 1 = Len(sigpipe) /\ Len(sigpipe') \in Nat
            /\ \A k \in 1 .. Len(sigpipe') : sigpipe'[k] = sigpipe[k + 1]
        <4>1. \A k \in 1 .. Len(sigpipe') : sigpipe'[k] = sigpipe[k + 1]
          BY ONLY <3>1, <3>2, Zenon
        <4>2. sigpipe' \in Seq(Pids) /\ Len(sigpipe') = Len(sigpipe) - 1
          BY ONLY <3>1, <3>2, Zenon
        <4>3. Len(sigpipe') \in Nat
          BY <4>2
        <4>. QED
          BY ONLY <1>1, <4>1, <4>2, <4>3
      <3>. QED
        BY <3>3
    <2>. QED
      BY <2>1, <2>2
  <1>3. \A k \in 1 .. Len(sigpipe') : k + s \in 1 .. Len(sigpipe)
    BY <1>1, <1>2
  <1>. SUFFICES ASSUME NEW q \in Pids \ disturbed'
                PROVE  /\ pending = q => Zombie(q)'
                       /\ \A k \in 1 .. Len(sigpipe') :
                            sigpipe'[k] = q => Zombie(q)' /\ pending # q
                       /\ \A j, k \in 1 .. Len(sigpipe') :
                            sigpipe'[j] = q /\ sigpipe'[k] = q => j = k
                       /\ at' # <<"waitpid", q>>
    BY DEF OneNotice, Zombie
  <1>4. /\ pending = q => Zombie(q)
        /\ \A k \in 1 .. Len(sigpipe) : sigpipe[k] = q => Zombie(q) /\ pending # q
        /\ \A j, k \in 1 .. Len(sigpipe) : sigpipe[j] = q /\ sigpipe[k] = q => j = k
        /\ at # <<"waitpid", q>>
    BY DEF OneNotice
  <1>5. \A k \in 1 .. Len(sigpipe') : sigpipe'[k] = q => Zombie(q)' /\ pending # q
    BY <1>2, <1>3, <1>4
  <1>6. ASSUME NEW j \in 1 .. Len(sigpipe'), NEW k \in 1 .. Len(sigpipe'),
               sigpipe'[j] = q, sigpipe'[k] = q
        PROVE  j = k
    <2>1. j + s = k + s
      BY <1>2, <1>3, <1>4, <1>6
    <2>. QED
      BY <2>1
  <1>. QED
    BY <1>4, <1>5, <1>6

\* A step that tells no command.
LEMMA ToldKept ==
  ASSUME ToldOnce, UNCHANGED <<started, pid>>, disturbed \subseteq disturbed',
         \A c \in 1 .. started : /\ "process" \in state'[c] => "process" \in state[c]
                                 /\ proc'[pid[c]] # "none" => proc[pid[c]] # "none"
                                 /\ parsed'[c] = parsed[c] \/ parsed'[c] <= 1
  PROVE  ToldOnce'
  BY DEF ToldOnce

\* The callbacks of an exit, when no one is told twice.
LEMMA ToldTellExit ==
  ASSUME Types, OnlyCurrent, Whole, ToldOnce, NEW p \in Pids, NEW how, TellExit(p, how),
         p \in disturbed \/ proc[p] # "none",
         proc'[p] = "none", \A q \in Pids : q # p => proc'[q] = proc[q],
         UNCHANGED <<started, pid, disturbed>>
  PROVE  ToldOnce'
  <1>. DEFINE told == {c \in Commands : [pid |-> p, cmd |-> c] \in processes}
  <1>1. \A c \in 1 .. started : c \in Commands /\ pid[c] \in Pids
    <2>1. started \in 0 .. MaxCommands
      BY DEF Types, TypeOK
    <2>. QED
      BY <2>1, CommandsAssumption DEF Commands, Types, Given
  <1>2. /\ \A c \in Commands \ told : state'[c] = state[c] /\ parsed'[c] = parsed[c]
        /\ \A c \in told : parsed'[c] = parsed[c] + Parses(state'[c])
    BY DEF TellExit
  <1>3. \A c \in told : pid[c] = p
    BY Told
  <1>. HIDE DEF told
  <1>. SUFFICES ASSUME NEW c \in 1 .. started, pid[c] \notin disturbed
                PROVE  /\ proc'[pid[c]] # "none" => "process" \notin state'[c]
                       /\ parsed'[c] <= 1
    BY DEF ToldOnce
  <1>4. /\ proc[pid[c]] # "none" => "process" \notin state[c]
        /\ parsed[c] <= 1
    BY DEF ToldOnce
  <1>5. CASE c \in told
    <2>1. pid[c] = p /\ proc[p] # "none"
      BY <1>3, <1>5
    <2>2. ~Finished(state[c])
      BY <1>4, <2>1 DEF Finished
    <2>3. parsed[c] = 0
      BY <1>1, <2>2, NotParsed
    <2>4. parsed'[c] = 0 + Parses(state'[c])
      BY <1>2, <1>5, <2>3
    <2>5. parsed'[c] <= 1
      BY <2>4, ParsesType
    <2>. QED
      BY <2>1, <2>5
  <1>6. CASE c \notin told
    BY <1>1, <1>2, <1>4, <1>6
  <1>. QED
    BY <1>5, <1>6

\* SIGCHLD is written to the pipe.
LEMMA NoticeWritten ==
  ASSUME Types, OneNotice, HandleSigaction PROVE OneNotice'
  <1>. USE DEF agent, cmds, lists, system, pipes, chld
  <1>1. /\ sigpipe \in Seq(Pids) /\ pending \in Pids /\ Len(sigpipe) \in Nat
        /\ sigpipe' = Append(sigpipe, pending) /\ pending' = NoPid
        /\ UNCHANGED <<at, proc, disturbed>>
    BY DEF HandleSigaction, Types, TypeOK
  <1>2. /\ Len(sigpipe') = Len(sigpipe) + 1
        /\ \A k \in 1 .. Len(sigpipe) : sigpipe'[k] = sigpipe[k]
        /\ sigpipe'[Len(sigpipe) + 1] = pending
    BY <1>1, AppendProperties
  <1>3. \A k \in 1 .. Len(sigpipe') : k \in 1 .. Len(sigpipe) \/ k = Len(sigpipe) + 1
    BY <1>1, <1>2
  <1>. SUFFICES ASSUME NEW q \in Pids \ disturbed
                PROVE  /\ pending' # q
                       /\ \A k \in 1 .. Len(sigpipe') : sigpipe'[k] = q => Zombie(q)
                       /\ \A j, k \in 1 .. Len(sigpipe') :
                            sigpipe'[j] = q /\ sigpipe'[k] = q => j = k
    BY <1>1 DEF OneNotice, Zombie
  <1>4. /\ pending = q => Zombie(q)
        /\ \A k \in 1 .. Len(sigpipe) : sigpipe[k] = q => Zombie(q) /\ pending # q
        /\ \A j, k \in 1 .. Len(sigpipe) : sigpipe[j] = q /\ sigpipe[k] = q => j = k
    BY DEF OneNotice
  <1>5. pending' # q
    BY <1>1, CommandsAssumption
  <1>6. \A k \in 1 .. Len(sigpipe') : sigpipe'[k] = q => Zombie(q)
    BY <1>2, <1>3, <1>4
  <1>7. ASSUME NEW j \in 1 .. Len(sigpipe'), NEW k \in 1 .. Len(sigpipe'),
               sigpipe'[j] = q, sigpipe'[k] = q
        PROVE  j = k
    BY <1>2, <1>3, <1>4, <1>7
  <1>. QED
    BY <1>5, <1>6, <1>7

\* SIGCHLD is raised for p, of a child that has exited or was stopped.
LEMMA NoticeRaised ==
  ASSUME Types, OneNotice, NEW p \in Pids, NEW end, Raise(p, end),
         disturbed \subseteq disturbed', UNCHANGED <<at, sigpipe>>,
         \A q \in Pids : q # p => proc'[q] = proc[q],
         \/ p \in disturbed'
         \/ ~Zombie(p) /\ Zombie(p)'
  PROVE  OneNotice'
  <1>1. pending' \in {pending, p}
    BY DEF Raise
  <1>. SUFFICES ASSUME NEW q \in Pids \ disturbed'
                PROVE  /\ proc'[q] # "stopped"
                       /\ pending' = q => Zombie(q)'
                       /\ \A k \in 1 .. Len(sigpipe) : sigpipe[k] = q => Zombie(q)' /\ pending' # q
                       /\ \A j, k \in 1 .. Len(sigpipe) : sigpipe[j] = q /\ sigpipe[k] = q => j = k
                       /\ at # <<"waitpid", q>>
    BY DEF OneNotice, Zombie
  <1>2. /\ proc[q] # "stopped"
        /\ pending = q => Zombie(q)
        /\ \A k \in 1 .. Len(sigpipe) : sigpipe[k] = q => Zombie(q) /\ pending # q
        /\ \A j, k \in 1 .. Len(sigpipe) : sigpipe[j] = q /\ sigpipe[k] = q => j = k
        /\ at # <<"waitpid", q>>
    BY DEF OneNotice
  <1>3. CASE q = p
    <2>1. ~Zombie(q) /\ Zombie(q)'
      BY <1>3
    <2>2. proc'[q] # "stopped"
      BY <2>1 DEF Zombie
    <2>. QED
      BY <1>2, <2>1, <2>2
  <1>4. CASE q # p
    <2>1. proc'[q] = proc[q] /\ (Zombie(q) => Zombie(q)')
      BY <1>4 DEF Zombie
    <2>. QED
      BY <1>1, <1>2, <1>4, <2>1
  <1>. QED
    BY <1>3, <1>4

LEMMA OnceStep == Types /\ OnlyCurrent /\ Whole /\ Once /\ [Next]_vars => Once'
  <1>. SUFFICES ASSUME Types, OnlyCurrent, Whole, OneNotice, ToldOnce, [Next]_vars
                PROVE  OneNotice' /\ ToldOnce'
    BY DEF Once
  <1>. USE DEF agent, cmds, lists, system, pipes, chld
  <1>a. /\ \A c \in 1 .. started : c \in Commands /\ pid[c] \in Pids
        /\ started \in 0 .. MaxCommands
        /\ sigpipe \in Seq(Pids)
        /\ pid \in [Commands -> Pids \union {NoPid}]
        /\ state \in [Commands -> SUBSET {"process", "read", "failed"}]
        /\ parsed \in [Commands -> Nat]
        /\ proc \in [Pids -> {"none", "running", "stopped", "succeeded", "failed"}]
    <2>1. started \in 0 .. MaxCommands
      BY DEF Types, TypeOK
    <2>2. \A c \in 1 .. started : c \in Commands /\ pid[c] \in Pids
      BY <2>1, CommandsAssumption DEF Commands, Types, Given
    <2>. QED
      BY <2>1, <2>2 DEF Types, TypeOK
  <1>b. /\ \A q \in Pids \ disturbed : proc[q] # "stopped" /\ at # <<"waitpid", q>>
        /\ \A q \in Pids \ disturbed : \A k \in 1 .. Len(sigpipe) : sigpipe[k] = q => Zombie(q)
        /\ \A q \in Pids \ disturbed : \A j, k \in 1 .. Len(sigpipe) :
             sigpipe[j] = q /\ sigpipe[k] = q => j = k
        /\ \A q \in Pids \ disturbed : pending = q => Zombie(q)
        /\ \A q \in Pids \ disturbed :
             \A k \in 1 .. Len(sigpipe) : sigpipe[k] = q => pending # q
    BY DEF OneNotice
  <1>1. CASE HandleSignal
    <2>. DEFINE p == Head(sigpipe)
    <2>1. /\ p \in Pids /\ at = <<"loop">> /\ sigpipe # <<>> /\ sigpipe' = Tail(sigpipe)
          /\ p = sigpipe[1] /\ 1 \in 1 .. Len(sigpipe)
          /\ Len(Tail(sigpipe)) = Len(sigpipe) - 1 /\ Tail(sigpipe) \in Seq(Pids)
          /\ \A k \in 1 .. Len(Tail(sigpipe)) : Tail(sigpipe)[k] = sigpipe[k + 1]
          /\ UNCHANGED <<started, pid, disturbed, pending>>
      <3>1. sigpipe # <<>> /\ at = <<"loop">> /\ sigpipe' = Tail(sigpipe)
            /\ UNCHANGED <<started, pid, disturbed, pending>>
        BY <1>1 DEF HandleSignal
      <3>2. /\ Head(sigpipe) \in Pids /\ Tail(sigpipe) \in Seq(Pids)
            /\ Head(sigpipe) = sigpipe[1] /\ 1 \in 1 .. Len(sigpipe)
            /\ Len(Tail(sigpipe)) = Len(sigpipe) - 1
            /\ \A k \in 1 .. Len(Tail(sigpipe)) : Tail(sigpipe)[k] = sigpipe[k + 1]
        <4>1. Len(sigpipe) \in Nat \ {0} /\ Head(sigpipe) = sigpipe[1]
          BY <1>a, <3>1
        <4>. QED
          BY <1>a, <3>1, <4>1, HeadTailProperties
      <3>. QED
        BY <3>1, <3>2
    <2>2. p \notin disturbed => Zombie(p) /\ pending # p
      BY <1>b, <2>1
    <2>3. ASSUME UNCHANGED proc, at' = at \/ (p \in disturbed /\ at' = <<"waitpid", p>>)
          PROVE  OneNotice'
      <3>1. \A q \in Pids \ disturbed : at' = <<"waitpid", q>> => at = <<"waitpid", q>>
        BY <2>3
      <3>2. \A q \in Pids \ disturbed : proc'[q] # "stopped" /\ (Zombie(q) => Zombie(q)')
        BY <1>b, <2>3 DEF Zombie
      <3>. QED
        BY <2>1, <3>1, <3>2, NoticeKept
    <2>4. CASE UNCHANGED <<at, cmds, lists, proc, lost>>
      <3>1. OneNotice'
        BY <2>3, <2>4
      <3>. QED
        BY <2>1, <2>4, <3>1, ToldKept
    <2>5. CASE Waited(p)
      <3>1. /\ Zombie(p) /\ TellExit(p, proc[p]) /\ at' = <<"loop">>
            /\ proc' = [proc EXCEPT ![p] = "none"]
        BY <2>5 DEF Waited
      <3>2. /\ proc'[p] = "none" /\ proc[p] # "none"
            /\ \A q \in Pids : q # p => proc'[q] = proc[q]
        BY <1>a, <2>1, <3>1 DEF Zombie
      <3>3. ToldOnce'
        BY <2>1, <3>1, <3>2, ToldTellExit
      <3>4. OneNotice'
        <4>1. Len(sigpipe') \in Nat /\ Len(sigpipe) \in Nat
          <5>1. sigpipe' \in Seq(Pids)
            BY ONLY <2>1, Zenon
          <5>. QED
            BY <1>a, <5>1
        <4>2. Len(sigpipe') = Len(sigpipe) - 1
          BY ONLY <2>1, Zenon
        <4>3. \A k \in 1 .. Len(sigpipe') : sigpipe'[k] = sigpipe[k + 1]
          BY ONLY <2>1, Zenon
        <4>4. \A k \in 1 .. Len(sigpipe') : k \in Nat /\ k + 1 \in 1 .. Len(sigpipe) /\ k + 1 # 1
          BY <4>1, <4>2
        <4>. SUFFICES ASSUME NEW q \in Pids \ disturbed
                      PROVE  /\ proc'[q] # "stopped"
                             /\ pending = q => Zombie(q)'
                             /\ \A k \in 1 .. Len(sigpipe') :
                                  sigpipe'[k] = q => Zombie(q)' /\ pending # q
                             /\ \A j, k \in 1 .. Len(sigpipe') :
                                  sigpipe'[j] = q /\ sigpipe'[k] = q => j = k
                             /\ at' # <<"waitpid", q>>
          BY <2>1 DEF OneNotice, Zombie
        <4>5. /\ proc[q] # "stopped"
              /\ pending = q => Zombie(q)
              /\ \A k \in 1 .. Len(sigpipe) : sigpipe[k] = q => Zombie(q) /\ pending # q
              /\ \A j, k \in 1 .. Len(sigpipe) : sigpipe[j] = q /\ sigpipe[k] = q => j = k
          BY DEF OneNotice
        <4>6. at' # <<"waitpid", q>> /\ proc'[q] # "stopped"
          BY <3>1, <3>2, <4>5
        <4>7. ASSUME NEW j \in 1 .. Len(sigpipe'), NEW k \in 1 .. Len(sigpipe'),
                     sigpipe'[j] = q, sigpipe'[k] = q
              PROVE  j = k
          <5>1. j + 1 = k + 1
            BY <4>3, <4>4, <4>5, <4>7
          <5>. QED
            BY <4>4, <5>1
        <4>8. CASE q = p
          <5>1. ASSUME NEW k \in 1 .. Len(sigpipe'), sigpipe'[k] = q PROVE FALSE
            BY <2>1, <4>3, <4>4, <4>5, <4>8, <5>1
          <5>2. pending # q
            BY <2>1, <4>5, <4>8
          <5>. QED
            BY <4>6, <4>7, <5>1, <5>2
        <4>9. CASE q # p
          <5>1. Zombie(q) => Zombie(q)'
            BY <3>2, <4>9 DEF Zombie
          <5>. QED
            BY <4>3, <4>4, <4>5, <4>6, <4>7, <5>1
        <4>. QED
          BY <4>8, <4>9
      <3>. QED
        BY <3>3, <3>4
    <2>6. CASE /\ Alive(p) /\ at' = <<"waitpid", p>> /\ UNCHANGED <<cmds, lists, proc, lost>>
      <3>1. p \in disturbed
        BY <2>2, <2>6 DEF Alive, Zombie
      <3>2. OneNotice'
        BY <2>3, <2>6, <3>1
      <3>. QED
        BY <2>1, <2>6, <3>2, ToldKept
    <2>7. CASE /\ proc[p] = "none" /\ TellExit(p, "succeeded")
               /\ UNCHANGED <<at, output, open, outputs, proc, lost>>
      <3>1. p \in disturbed
        BY <2>2, <2>7 DEF Zombie
      <3>2. OneNotice'
        BY <2>3, <2>7
      <3>3. ToldOnce'
        BY <2>1, <2>7, <3>1, ToldTellExit
      <3>. QED
        BY <3>2, <3>3
    <2>. QED
      BY <1>1, <2>4, <2>5, <2>6, <2>7 DEF HandleSignal
  <1>2. CASE WaitpidReturns
    <2>. DEFINE p == at[2]
    <2>1. p \in Pids /\ at = <<"waitpid", p>>
      BY <1>2 DEF WaitpidReturns, Types, TypeOK
    <2>2. p \in disturbed
      BY <1>b, <2>1
    <2>3. /\ Zombie(p) /\ TellExit(p, proc[p]) /\ at' = <<"loop">>
          /\ proc' = [proc EXCEPT ![p] = "none"]
          /\ UNCHANGED <<started, pid, disturbed, sigpipe, pending>>
      BY <1>2 DEF WaitpidReturns, Waited
    <2>. HIDE DEF p
    <2>4. proc'[p] = "none" /\ \A q \in Pids : q # p => proc'[q] = proc[q]
      BY <1>a, <2>1, <2>3
    <2>5. ToldOnce'
      BY <2>1, <2>2, <2>3, <2>4, ToldTellExit
    <2>6. \A q \in Pids \ disturbed : /\ proc'[q] # "stopped" /\ (Zombie(q) => Zombie(q)')
                                      /\ at' # <<"waitpid", q>>
      BY <1>b, <2>2, <2>3, <2>4 DEF Zombie
    <2>7. OneNotice'
      BY <2>3, <2>6, NoticeKept
    <2>. QED
      BY <2>5, <2>7
  <1>3. ASSUME UNCHANGED <<disturbed, proc, pending, sigpipe>>,
               \A q \in Pids : at' # <<"waitpid", q>> \/ at' = at
        PROVE  OneNotice'
    <2>1. \A q \in Pids \ disturbed : /\ proc'[q] # "stopped" /\ (Zombie(q) => Zombie(q)')
                                      /\ at' = <<"waitpid", q>> => at = <<"waitpid", q>>
      BY <1>b, <1>3 DEF Zombie
    <2>. QED
      BY <1>3, <2>1, NoticeKept
  <1>4. ASSUME NEW c \in 1 .. started, "read" \notin state[c], ReadAll(c),
               UNCHANGED <<agent, sigpipe, system, chld>>
        PROVE  OneNotice' /\ ToldOnce'
    <2>1. /\ \A d \in Commands : "process" \in state'[d] => "process" \in state[d]
          /\ at' \in {<<"loop">>, <<"read", c>>}
      BY <1>4, ReadAllTypes
    <2>2. parsed[c] = 0
      <3>1. ~Finished(state[c])
        BY <1>4 DEF Finished
      <3>. QED
        BY <1>a, <3>1, NotParsed
    <2>3. \A d \in Commands : parsed'[d] = parsed[d] \/ parsed'[d] <= 1
      <3>1. \/ parsed' = parsed
            \/ \E s : parsed' = [parsed EXCEPT ![c] = @ + Parses(s)]
        BY <1>4 DEF ReadAll
      <3>2. \A s : 0 + Parses(s) <= 1
        BY ParsesType
      <3>. QED
        BY <1>a, <2>2, <3>1, <3>2
    <2>4. OneNotice'
      BY <1>3, <1>4, <2>1
    <2>5. ToldOnce'
      BY <1>4, <1>a, <2>1, <2>3, ToldKept
    <2>. QED
      BY <2>4, <2>5
  <1>5. CASE \E c \in Commands : HandleCommandOutput(c)
    <2>1. PICK c \in Commands : HandleCommandOutput(c)
      BY <1>5
    <2>2. c \in open /\ c \in 1 .. started /\ ReadAll(c)
      BY <2>1 DEF HandleCommandOutput, Types, TypeOK
    <2>3. "read" \notin state[c]
      BY <1>a, <2>2 DEF Whole, ReadsWhole
    <2>. QED
      BY <1>4, <2>1, <2>2, <2>3 DEF HandleCommandOutput
  <1>6. CASE ReadReturns
    <2>1. at[2] \in 1 .. started /\ at = <<"read", at[2]>>
      BY <1>6 DEF ReadReturns, Types, TypeOK
    <2>2. "read" \notin state[at[2]]
      BY <1>a, <2>1 DEF Whole, ReadsWhole
    <2>. QED
      BY <1>4, <1>6, <2>1, <2>2 DEF ReadReturns
  <1>7. CASE \E c \in Commands : ReadFails(c)
    <2>1. PICK c \in Commands : /\ state' = [state EXCEPT ![c] = @ \union {"read", "failed"}]
                                /\ UNCHANGED <<at, agent, parsed, sigpipe, system, chld>>
      BY <1>7 DEF ReadFails
    <2>2. \A d \in Commands : "process" \in state'[d] => "process" \in state[d]
      BY <1>a, <2>1
    <2>3. ToldOnce'
      BY <1>a, <2>1, <2>2, ToldKept
    <2>. QED
      BY <1>3, <2>1, <2>3
  <1>8. CASE \E m \in Modules, p \in Pids : VarnishPoll(m, p)
    <2>1. PICK m \in Modules, p \in Pids : VarnishPoll(m, p)
      BY <1>8
    <2>. DEFINE c == started + 1
    <2>2. /\ started < MaxCommands /\ started' = c /\ proc[p] = "none"
          /\ pid' = [pid EXCEPT ![c] = p] /\ proc' = [proc EXCEPT ![p] = "running"]
          /\ disturbed' = disturbed \union ({p} \intersect {pid[d] : d \in Commands})
          /\ UNCHANGED <<at, state, parsed, sigpipe, pending>>
      BY <2>1 DEF VarnishPoll
    <2>3. /\ c \in Commands /\ c > started /\ 1 .. c = (1 .. started) \union {c}
          /\ \A d \in 1 .. started : d # c
      BY <1>a, <2>2, CommandsAssumption DEF Commands
    <2>4. state[c] = {}
      BY <2>3 DEF Types, Given
    <2>. HIDE DEF c
    <2>5. parsed[c] = 0
      <3>1. ~Finished(state[c])
        BY <2>4 DEF Finished
      <3>. QED
        BY <2>3, <3>1, NotParsed
    <2>6. OneNotice'
      <3>1. \A q \in Pids : Zombie(q) => Zombie(q)'
        BY <1>a, <2>2 DEF Zombie
      <3>2. \A q \in Pids \ disturbed' : proc'[q] # "stopped"
        BY <1>a, <1>b, <2>2
      <3>. QED
        BY <2>2, <3>1, <3>2, NoticeKept
    <2>7. ToldOnce'
      <3>. SUFFICES ASSUME NEW d \in 1 .. c, pid'[d] \notin disturbed'
                    PROVE  /\ proc'[pid'[d]] # "none" => "process" \notin state[d]
                           /\ parsed[d] <= 1
        BY <2>2 DEF ToldOnce
      <3>1. CASE d = c
        BY <2>4, <2>5, <3>1
      <3>2. CASE d # c
        <4>1. d \in 1 .. started /\ d \in Commands /\ pid'[d] = pid[d] /\ pid[d] \in Pids
          BY <1>a, <2>2, <2>3, <3>2
        <4>2. pid[d] # p
          BY <2>2, <4>1
        <4>3. proc'[pid[d]] = proc[pid[d]] /\ pid[d] \notin disturbed
          BY <1>a, <2>2, <4>1, <4>2
        <4>. QED
          BY <4>1, <4>3 DEF ToldOnce
      <3>. QED
        BY <3>1, <3>2
    <2>. QED
      BY <2>6, <2>7
  <1>9. CASE \/ \E m \in Modules : VarnishPollFails(m)
             \/ VarnishCleanup
             \/ \E c \in Commands : ChildWrites(c) \/ OutputEnds(c)
             \/ HandleSigactionBlocks
             \/ UNCHANGED vars
    <2>1. /\ UNCHANGED <<started, pid, state, parsed, disturbed, proc, pending, sigpipe>>
          /\ at' \in {at, <<"write">>}
      BY <1>9 DEF VarnishPollFails, VarnishCleanup, ChildWrites, OutputEnds,
                  HandleSigactionBlocks, vars
    <2>2. \A q \in Pids : at' # <<"waitpid", q>> \/ at' = at
      BY <2>1
    <2>3. ToldOnce'
      BY <2>1, ToldKept
    <2>. QED
      BY <1>3, <2>1, <2>2, <2>3
  <1>10. CASE \E p \in Pids : ChildExits(p) \/ ChildStops(p) \/ ChildContinues(p)
    <2>1. PICK p \in Pids : ChildExits(p) \/ ChildStops(p) \/ ChildContinues(p)
      BY <1>10
    <2>2. /\ \E end : Raise(p, end)
          /\ Alive(p) /\ \A q \in Pids : q # p => proc'[q] = proc[q]
          /\ disturbed \subseteq disturbed'
          /\ UNCHANGED <<at, sigpipe, started, pid, state, parsed>>
      BY <1>a, <2>1 DEF ChildExits, ChildStops, ChildContinues, Alive
    <2>3. p \in disturbed' \/ (~Zombie(p) /\ Zombie(p)')
      <3>1. CASE ChildExits(p)
        <4>1. PICK how \in {"succeeded", "failed"} : proc' = [proc EXCEPT ![p] = how]
          BY <3>1 DEF ChildExits
        <4>2. proc'[p] = how
          BY <1>a, <4>1
        <4>. QED
          BY <2>2, <4>2 DEF Alive, Zombie
      <3>2. CASE ChildStops(p)
        BY <3>2 DEF ChildStops
      <3>3. CASE ChildContinues(p)
        BY <1>b, <3>3 DEF ChildContinues
      <3>. QED
        BY <2>1, <3>1, <3>2, <3>3
    <2>4. OneNotice'
      BY <2>2, <2>3, NoticeRaised
    <2>5. ToldOnce'
      <3>1. \A q \in Pids : proc'[q] # "none" => proc[q] # "none"
        BY <2>2 DEF Alive
      <3>. QED
        BY <1>a, <2>2, <3>1, ToldKept
    <2>. QED
      BY <2>4, <2>5
  <1>11. CASE HandleSigaction
    <2>1. UNCHANGED <<started, pid, state, parsed, disturbed, proc>>
      BY <1>11 DEF HandleSigaction
    <2>2. ToldOnce'
      BY <2>1, ToldKept
    <2>. QED
      BY <1>11, <2>2, NoticeWritten
  <1>. QED
    BY <1>1, <1>2, <1>5, <1>6, <1>7, <1>8, <1>9, <1>10, <1>11
       DEF Next, Agent, System, SelectTimesOut, Stuck

-----------------------------------------------------------------------------
(* The zombies that wait *)

LEMMA TendedIsWatched == Care => ChildrenWatched
  <1>. SUFFICES ASSUME Care, NEW p \in Pids, proc[p] # "none" PROVE Watched(p)
    BY DEF ChildrenWatched
  <1>1. Tended(p)
    BY DEF Care, AllTended
  <1>2. CASE [pid |-> p, cmd |-> Reaper] \in processes
    BY <1>2 DEF Watched
  <1>3. ASSUME NEW m \in Modules, cmd_handler[m] # 0, pid[cmd_handler[m]] = p
        PROVE  Watched(p)
    <2>1. Handler(cmd_handler[m]) \in processes
      BY <1>3 DEF Care, OnlyCurrent
    <2>. QED
      BY <1>3, <2>1 DEF Watched, Handler
  <1>. QED
    BY <1>1, <1>2, <1>3 DEF Tended

\* Where the announcement of p is.
Announced(p) ==
  \/ p \in lost
  \/ pending = p
  \/ \E k \in 1 .. Len(sigpipe) : sigpipe[k] = p
  \/ at \in {<<"waitpid", p>>, <<"write">>}

\* A step that reads no pipe, and leaves the other announcements where they are.
LEMMA AnnouncedKept ==
  ASSUME Types, ZombieAnnounced, NEW q \in Pids, Zombie(q), lost \subseteq lost',
         pending' = pending \/ pending = NoPid, sigpipe' = sigpipe,
         at' = at \/ at \notin {<<"waitpid", q>>, <<"write">>}
  PROVE  Announced(q)'
  <1>1. Announced(q)
    BY DEF ZombieAnnounced, Announced
  <1>2. pending = q => pending' = q
    BY CommandsAssumption
  <1>. QED
    BY <1>1, <1>2 DEF Announced

LEMMA AnnouncedStep ==
  Types /\ ChildrenWatched /\ ZombieAnnounced /\ [Next]_vars => ZombieAnnounced'
  <1>. SUFFICES ASSUME Types, ChildrenWatched, ZombieAnnounced, [Next]_vars,
                       NEW q \in Pids, Zombie(q)'
                PROVE  Announced(q)'
    BY DEF ZombieAnnounced, Announced
  <1>. USE DEF agent, cmds, lists, system, pipes, chld
  <1>a. /\ proc \in [Pids -> {"none", "running", "stopped", "succeeded", "failed"}]
        /\ sigpipe \in Seq(Pids) /\ Len(sigpipe) \in Nat
    BY DEF Types, TypeOK
  <1>b. Zombie(q) => Announced(q)
    BY DEF ZombieAnnounced, Announced
  <1>1. ASSUME UNCHANGED <<proc, lost, pending, sigpipe>>,
               at' = at \/ at \notin {<<"waitpid", q>>, <<"write">>}
        PROVE  Announced(q)'
    <2>1. Zombie(q)
      BY <1>1 DEF Zombie
    <2>. QED
      BY <1>1, <2>1, AnnouncedKept
  <1>2. CASE HandleSignal
    <2>. DEFINE p == Head(sigpipe)
    <2>1. /\ sigpipe # <<>> /\ sigpipe' = Tail(sigpipe) /\ at = <<"loop">>
          /\ UNCHANGED pending
      BY <1>2 DEF HandleSignal
    <2>2. /\ p \in Pids /\ p = sigpipe[1]
          /\ \A k \in 1 .. Len(sigpipe) :
               \/ k = 1
               \/ /\ k - 1 \in 1 .. Len(Tail(sigpipe))
                  /\ Tail(sigpipe)[k - 1] = sigpipe[k]
      <3>1. /\ Head(sigpipe) \in Pids /\ Tail(sigpipe) \in Seq(Pids)
            /\ Len(Tail(sigpipe)) = Len(sigpipe) - 1
            /\ \A k \in 1 .. Len(Tail(sigpipe)) : Tail(sigpipe)[k] = sigpipe[k + 1]
        BY <1>a, <2>1, HeadTailProperties
      <3>2. p = sigpipe[1]
        BY <1>a, <2>1
      <3>3. ASSUME NEW k \in 1 .. Len(sigpipe), k # 1
            PROVE  k - 1 \in 1 .. Len(Tail(sigpipe)) /\ Tail(sigpipe)[k - 1] = sigpipe[k]
        <4>1. k - 1 \in 1 .. (Len(sigpipe) - 1) /\ (k - 1) + 1 = k
          BY <1>a, <3>3
        <4>2. k - 1 \in 1 .. Len(Tail(sigpipe))
          BY <3>1, <4>1
        <4>3. Tail(sigpipe)[k - 1] = sigpipe[(k - 1) + 1]
          BY <3>1, <4>2
        <4>. QED
          BY <4>1, <4>2, <4>3
      <3>. QED
        BY <3>1, <3>2, <3>3
    <2>. HIDE DEF p
    <2>3. Zombie(q) /\ q # p /\ q \notin lost => Announced(q)'
      <3>. SUFFICES ASSUME Zombie(q), q # p, q \notin lost, pending # q
                    PROVE  Announced(q)'
        BY <2>1 DEF Announced
      <3>1. PICK k \in 1 .. Len(sigpipe) : sigpipe[k] = q
        BY <1>b, <2>1 DEF Announced
      <3>2. k - 1 \in 1 .. Len(sigpipe') /\ sigpipe'[k - 1] = q
        BY <2>1, <2>2, <3>1
      <3>. QED
        BY <3>2 DEF Announced
    <2>4. CASE ~Watched(p) /\ UNCHANGED <<proc, lost>>
      <3>1. Zombie(q)
        BY <2>4 DEF Zombie
      <3>2. q # p
        <4>1. proc[q] # "none"
          BY <3>1 DEF Zombie
        <4>. QED
          BY <2>4, <4>1 DEF ChildrenWatched
      <3>. QED
        BY <2>3, <2>4, <3>1, <3>2 DEF Announced
    <2>5. CASE Waited(p)
      <3>1. proc' = [proc EXCEPT ![p] = "none"] /\ lost' = lost \ {p}
        BY <2>5 DEF Waited
      <3>2. q # p /\ Zombie(q)
        BY <1>a, <2>2, <3>1 DEF Zombie
      <3>. QED
        BY <2>3, <3>1, <3>2 DEF Announced
    <2>6. CASE ~Zombie(p) /\ UNCHANGED <<proc, lost>>
      <3>1. Zombie(q) /\ q # p
        BY <2>6 DEF Zombie
      <3>. QED
        BY <2>3, <2>6, <3>1 DEF Announced
    <2>7. (Alive(p) \/ proc[p] = "none") => ~Zombie(p)
      BY DEF Alive, Zombie
    <2>. QED
      BY <1>2, <2>4, <2>5, <2>6, <2>7 DEF HandleSignal, p
  <1>3. CASE WaitpidReturns
    <2>1. at[2] \in Pids /\ at = <<"waitpid", at[2]>>
      BY <1>3 DEF WaitpidReturns, Types, TypeOK
    <2>2. /\ proc' = [proc EXCEPT ![at[2]] = "none"] /\ lost' = lost \ {at[2]}
          /\ UNCHANGED <<sigpipe, pending>>
      BY <1>3 DEF WaitpidReturns, Waited
    <2>3. q # at[2] /\ Zombie(q)
      BY <1>a, <2>1, <2>2 DEF Zombie
    <2>4. at \notin {<<"waitpid", q>>, <<"write">>}
      BY <2>1, <2>3
    <2>. QED
      BY <1>b, <2>2, <2>3, <2>4 DEF Announced
  <1>4. CASE \E c \in Commands : HandleCommandOutput(c)
    <2>1. UNCHANGED <<proc, lost, pending, sigpipe>> /\ at = <<"loop">>
      BY <1>4 DEF HandleCommandOutput
    <2>. QED
      BY <1>1, <2>1
  <1>5. CASE ReadReturns
    <2>1. UNCHANGED <<proc, lost, pending, sigpipe>> /\ at[1] = "read"
      BY <1>5 DEF ReadReturns
    <2>2. at \notin {<<"waitpid", q>>, <<"write">>}
      BY <2>1
    <2>. QED
      BY <1>1, <2>1, <2>2
  <1>6. CASE \E m \in Modules, p \in Pids : VarnishPoll(m, p)
    <2>1. PICK m \in Modules, p \in Pids : VarnishPoll(m, p)
      BY <1>6
    <2>2. /\ proc' = [proc EXCEPT ![p] = "running"]
          /\ UNCHANGED <<at, lost, pending, sigpipe>>
      BY <2>1 DEF VarnishPoll
    <2>3. Zombie(q)
      BY <1>a, <2>2 DEF Zombie
    <2>. QED
      BY <2>2, <2>3, AnnouncedKept
  <1>7. CASE \/ \E c \in Commands : ReadFails(c) \/ ChildWrites(c) \/ OutputEnds(c)
             \/ \E m \in Modules : VarnishPollFails(m)
             \/ VarnishCleanup
             \/ UNCHANGED vars
    <2>1. UNCHANGED <<at, proc, lost, pending, sigpipe>>
      BY <1>7 DEF ReadFails, ChildWrites, OutputEnds, VarnishPollFails, VarnishCleanup, vars
    <2>. QED
      BY <1>1, <2>1
  <1>8. CASE \E p \in Pids : ChildExits(p)
    <2>1. PICK p \in Pids : ChildExits(p)
      BY <1>8
    <2>2. /\ pending' = IF pending = NoPid THEN p ELSE pending
          /\ lost' = IF pending \notin {NoPid, p} THEN lost \union {p} ELSE lost
          /\ UNCHANGED <<at, sigpipe>>
      BY <2>1 DEF ChildExits, Raise
    <2>3. CASE q = p
      BY <2>2, <2>3 DEF Announced
    <2>4. CASE q # p
      <3>1. Zombie(q)
        BY <1>a, <2>1, <2>4 DEF ChildExits, Zombie
      <3>. QED
        BY <2>2, <3>1, AnnouncedKept
    <2>. QED
      BY <2>3, <2>4
  <1>9. CASE \E p \in Pids : ChildStops(p) \/ ChildContinues(p)
    <2>1. PICK p \in Pids : ChildStops(p) \/ ChildContinues(p)
      BY <1>9
    <2>2. /\ pending' = pending \/ pending = NoPid
          /\ lost \subseteq lost'
          /\ proc' = [proc EXCEPT ![p] = "stopped"] \/ proc' = [proc EXCEPT ![p] = "running"]
          /\ UNCHANGED <<at, sigpipe>>
      BY <2>1 DEF ChildStops, ChildContinues, Raise
    <2>3. Zombie(q)
      BY <1>a, <2>2 DEF Zombie
    <2>. QED
      BY <2>2, <2>3, AnnouncedKept
  <1>10. CASE HandleSigaction
    <2>1. /\ pending \in Pids /\ sigpipe' = Append(sigpipe, pending)
          /\ UNCHANGED <<at, proc, lost>>
      BY <1>10 DEF HandleSigaction, Types, TypeOK
    <2>2. /\ Len(sigpipe') = Len(sigpipe) + 1
          /\ \A k \in 1 .. Len(sigpipe) : sigpipe'[k] = sigpipe[k]
          /\ sigpipe'[Len(sigpipe) + 1] = pending
      BY <1>a, <2>1, AppendProperties
    <2>3. /\ Len(sigpipe) + 1 \in 1 .. Len(sigpipe')
          /\ \A k \in 1 .. Len(sigpipe) : k \in 1 .. Len(sigpipe')
      BY <1>a, <2>2
    <2>4. Announced(q)
      BY <1>b, <2>1 DEF Zombie
    <2>. QED
      BY <2>1, <2>2, <2>3, <2>4 DEF Announced
  <1>11. CASE HandleSigactionBlocks
    BY <1>11 DEF HandleSigactionBlocks, Announced
  <1>. QED
    BY <1>2, <1>3, <1>4, <1>5, <1>6, <1>7, <1>8, <1>9, <1>10, <1>11
       DEF Next, Agent, System, SelectTimesOut, Stuck

-----------------------------------------------------------------------------
(* The theorems *)

LEMMA Inductive == Spec => [](Types /\ Care /\ Whole /\ Once)
  <1>1. Init => Types /\ Care /\ Whole /\ Once
    BY TypesInit, CareInit, WholeInit, OnceInit
  <1>2. Types /\ Care /\ Whole /\ Once /\ [Next]_vars => (Types /\ Care /\ Whole /\ Once)'
    <2>1. Care => OnlyCurrent
      BY DEF Care
    <2>. QED
      BY <2>1, TypesStep, CareStep, WholeStep, OnceStep
  <1>. QED
    BY <1>1, <1>2, PTL DEF Spec

\* The handlers that are registered are those of the commands the modules hold, so
\* no callback gets a command that was freed (varnish.c:94), for every number of
\* instances of the module.
THEOREM HandlersLive == Spec => []OnlyCurrent
  <1>1. Types /\ Care /\ Whole /\ Once => OnlyCurrent
    BY DEF Care
  <1>. QED
    BY Inductive, <1>1, PTL

\* Whatever polls, reloads, stops and pids given again, a child that was not waited
\* for has a handler that will wait for it (monikor.c:37-39, varnish.c:59-63 and
\* 86-96).
THEOREM NoChildForgotten == Spec => []ChildrenWatched
  <1>1. Types /\ Care /\ Whole /\ Once => ChildrenWatched
    BY TendedIsWatched
  <1>. QED
    BY Inductive, <1>1, PTL

\* An output becomes metrics only when all that was written is read and the process
\* of the command, not another of its pid, has succeeded (command.c:11-17); and only
\* once, unless a child of that pid was stopped or the pid was given twice
\* (sig.c:63).
THEOREM OutputsBecomeMetrics == Spec => []OutputsParsed
  <1>1. Types /\ Care /\ Whole /\ Once => OutputsParsed
    <2>. SUFFICES ASSUME Types, Whole, Once PROVE ParsedWhole /\ ParsedOnce
      BY DEF OutputsParsed
    <2>1. ParsedWhole
      BY DEF Whole, ParsedDone, ParsedWhole
    <2>2. ASSUME NEW c \in Commands, parsed[c] > 1 PROVE pid[c] \in disturbed
      <3>1. started \in 0 .. MaxCommands /\ parsed[c] \in Nat
        BY DEF Types, TypeOK
      <3>2. c \in 1 .. started
        <4>1. CASE c > started
          <5>1. ~Finished(state[c])
            BY <4>1 DEF Types, Given, Finished
          <5>. QED
            BY <2>2, <5>1, NotParsed
        <4>2. CASE ~(c > started)
          BY <3>1, <4>2, CommandsAssumption DEF Commands
        <4>. QED
          BY <4>1, <4>2
      <3>. QED
        BY <2>2, <3>1, <3>2 DEF Once, ToldOnce
    <2>. QED
      BY <2>1, <2>2 DEF ParsedOnce
  <1>. QED
    BY Inductive, <1>1, PTL

\* The pid of a zombie that waits is on its way to the loop, but when its SIGCHLD
\* was hidden by another one or could not be written (sig.c:20): the pipe loses none.
THEOREM ZombiesAreAnnounced == Spec => []ZombieAnnounced
  <1>1. Init => ZombieAnnounced
    BY DEF Init, ZombieAnnounced, Zombie
  <1>2. Types /\ Care /\ Whole /\ Once /\ ZombieAnnounced /\ [Next]_vars => ZombieAnnounced'
    BY TendedIsWatched, AnnouncedStep
  <1>. QED
    BY Inductive, <1>1, <1>2, PTL DEF Spec
=============================================================================
