-------------------------------- MODULE Config --------------------------------
(***************************************************************************)
(* The configuration file: config/config.c, config_parser.c and            *)
(* config_parse_*.c build a tree of dictionary elements from the events of *)
(* libyaml, config_dict.c looks keys up in it, setup_config.c makes the    *)
(* settings of it.                                                         *)
(*                                                                         *)
(* Each action is one event.  The functions that wait for their next event *)
(* are frames of a stack: a mapping with the element it is at, a key whose *)
(* value is next, a list.  libyaml nests its events well and may fail at   *)
(* any of them.  Memory is taken to suffice.                               *)
(***************************************************************************)
EXTENDS Integers, SequencesExt, FiniteSetsExt

CONSTANTS
  Keys,        \* the keys a file may use
  Words,       \* the scalars a file may use, besides the numbers
  Numbers,     \* the scalars of digits only, the empty one among them
  Written,     \* what a number of Numbers denotes; 0 for the empty one
  Trimmed,     \* what is left of a scalar without the "/" at its end, if it has one
  IntMax,      \* an int holds -IntMax .. IntMax - 1
  SizeMax,     \* a size_t holds 0 .. SizeMax - 1
  MiB,         \* 1024 * 1024
  Files,       \* the file names in mod.d: sequences of parts, ".yml" among them
  MaxNodes,    \* bound on the elements of the tree
  MaxItems,    \* bound on the items of a list
  MaxDocs,     \* bound on the documents of a file
  NULL

ASSUME ConfigAssumption ==
  /\ "" \in Numbers /\ Numbers \intersect Words = {}
  /\ Written \in [Numbers -> Nat] /\ Written[""] = 0
  /\ DOMAIN Trimmed = Words \union Numbers
  /\ {IntMax, SizeMax, MiB, MaxNodes, MaxItems, MaxDocs} \subseteq Nat \ {0}
  /\ SizeMax >= 2 * IntMax
  /\ NULL \notin Words \union Numbers \union Keys
  /\ {"poll_interval", "cache", "max_size_mb"} \subseteq Keys

Scalars == Words \union Numbers

VARIABLES
  state,     \* of monikor_load_config: "closed", "parsing", "loaded", "failed"
  heap,      \* the elements, in the order they were allocated; 1 is the head
  stack,     \* the frames
  docs,      \* mappings begun at the top of the file
  text,      \* what the last document says that has a key, as an outline
  config,    \* the settings, NULL before
  lost       \* elements that were still allocated after the tree was freed

configVars == <<state, heap, stack, docs, text, config, lost>>

\* monikor_config_dict_new
NewDict == [key |-> NULL, type |-> "dict", value |-> 0, next |-> 0]

ConfigInit ==
  /\ state = "closed"
  /\ heap = <<>> /\ stack = <<>> /\ docs = 0 /\ text = <<>>
  /\ config = NULL /\ lost = 0

Top == Last(stack)
Waits(what) == state = "parsing" /\ stack # <<>> /\ Top.in = what
AtTop == state = "parsing" /\ stack = <<>>

Depth == Cardinality({k \in DOMAIN stack : stack[k].in = "mapping"})

-----------------------------------------------------------------------------
(* Lookup *)

\* Mutant: the last element with the key is found
FindKey_Last(n, k) ==
  LET from[e \in 0 .. Len(heap)] ==
        IF e = 0 THEN 0
        ELSE IF heap[e].key = k /\ from[heap[e].next] = 0 THEN e ELSE from[heap[e].next]
  IN  from[n]

\* The first element from n on with key k, 0 if there is none
FindKey(n, k) ==
  LET from[e \in 0 .. Len(heap)] ==
        IF e = 0 THEN 0 ELSE IF heap[e].key = k THEN e ELSE from[heap[e].next]
  IN  from[n]

\* The elements below e, where a lookup goes on
Below(e) == IF e # 0 /\ heap[e].type = "dict" THEN heap[e].value ELSE 0

\* monikor_config_get_subdict: the first element of each key, never a second one
GetSubdict(keys) ==
  LET sub[d \in 1 .. Len(keys)] ==
        FindKey(IF d = 1 THEN 1 ELSE Below(sub[d - 1]), keys[d])
  IN  sub[Len(keys)]

\* monikor_config_dict_get_scalar
GetScalar(keys) ==
  LET e == GetSubdict(keys)
  IN  IF e # 0 /\ heap[e].type = "scalar" THEN heap[e].value ELSE NULL

-----------------------------------------------------------------------------
(* Settings *)

Wrap(n) == IF n % (2 * IntMax) < IntMax THEN n % (2 * IntMax)
                                        ELSE (n % (2 * IntMax)) - 2 * IntMax

\* Mutant: a word is the number 0
Atoi_Any(s, default) == IF s = NULL THEN default ELSE IF s \in Numbers THEN Wrap(Written[s]) ELSE 0

\* _is_number, atoi
Atoi(s, default) == IF s \in Numbers THEN Wrap(Written[s]) ELSE default

\* get_interval says -1 for the default, and for a number that wraps to -1
Interval(keys, default) ==
  IF Atoi(GetScalar(keys), -1) = -1 THEN default ELSE Atoi(GetScalar(keys), -1)

Timeout == Atoi(GetScalar(<<"server", "timeout">>), 5)

\* (size_t)atoi
MaxSendSize ==
  LET s == GetScalar(<<"server", "max_send_size">>)
  IN  IF s \in Numbers THEN Atoi(s, 0) % SizeMax ELSE 5 * MiB

MaxCacheSize ==
  LET s == GetScalar(<<"cache", "max_size_mb">>)
  IN  IF s \in Numbers THEN Wrap(Atoi(s, 0) * MiB) ELSE 30 * MiB

\* The settings that are taken as they are written
TextPaths ==
  [hostname |-> <<"hostname">>, user |-> <<"user">>, group |-> <<"group">>,
   run_dir |-> <<"directory">>, pidfile |-> <<"pidfile">>,
   url |-> <<"server", "url">>, proxy_url |-> <<"server", "proxy_url">>,
   listen_path |-> <<"listen", "path">>, listen_user |-> <<"listen", "user">>,
   listen_group |-> <<"listen", "group">>, quanta_token |-> <<"quanta_token">>,
   modules_path |-> <<"modules", "path">>, modules_config |-> <<"modules", "config_path">>]

TextDefaults ==
  [run_dir |-> "/", pidfile |-> "/tmp/monikor.pid",
   modules_path |-> "/usr/lib/monikor/modules", modules_config |-> "/etc/monikor/mod.d"]

\* The paths of the modules lose the "/" at their end, in the element of the tree,
\* which nothing looks up again
TextSetting(t) ==
  LET s == GetScalar(TextPaths[t])
  IN  CASE s = NULL /\ t \in DOMAIN TextDefaults -> TextDefaults[t]
        [] s # NULL /\ t \in {"modules_path", "modules_config"} -> Trimmed[s]
        [] OTHER -> s

\* Numbers has none that begins with 0, which strtoul reads in base 8; 0660 is 432
ListenMode ==
  LET s == GetScalar(<<"listen", "mode">>) IN IF s \in Numbers THEN Written[s] ELSE 432

IsTrue(s) == s \in {"true", "yes"}

\* LOG_EMERG is 0
Levels == <<{"emerg", "EMERG"}, {"alert", "ALERT"}, {"critical", "CRITICAL"},
            {"error", "ERROR"}, {"warning", "WARNING"}, {"notice", "NOTICE"},
            {"info", "INFO"}, {"debug", "DEBUG"}>>

LogLevel ==
  LET s == GetScalar(<<"logger", "level">>)
  IN  CHOOSE n \in 0 .. 7 :
        s \in Levels[n + 1] \/ (n = 5 /\ \A k \in DOMAIN Levels : s \notin Levels[k])

LogFile ==
  LET s == GetScalar(<<"logger", "file">>) IN IF s = "syslog" THEN NULL ELSE s

HostId == LET s == GetScalar(<<"hostid">>) IN IF s = "" THEN NULL ELSE s

\* The files of mod.d that end in ".yml" and have more to their names; a module is
\* named by what is before the first ".yml"
IsModuleConfig(f) == Last(f) = ".yml" /\ Len(f) > 1
ModuleName(f) == SubSeq(f, 1, Min({k \in DOMAIN f : f[k] = ".yml"}) - 1)

\* monikor_setup_config
SetupConfig ==
  [text     |-> [t \in DOMAIN TextPaths |-> TextSetting(t)],
   daemonize       |-> IsTrue(GetScalar(<<"daemonize">>)),
   poll_interval   |-> Interval(<<"poll_interval">>, 60),
   update_interval |-> Interval(<<"update_interval">>, 30),
   timeout         |-> Timeout,
   max_send_size   |-> MaxSendSize,
   max_cache_size  |-> MaxCacheSize,
   listen_mode     |-> ListenMode,
   log_level |-> LogLevel, log_file |-> LogFile, hostid |-> HostId,
   modules  |-> [f \in {g \in Files : IsModuleConfig(g)} |-> ModuleName(f)]]

-----------------------------------------------------------------------------
(* Memory *)

\* What element e points to
Links(e) == ({heap[e].next} \union (IF heap[e].type = "dict" THEN {heap[e].value} ELSE {})) \ {0}

\* What is met by following the links from the elements of R
MetFrom(R) ==
  LET closed == {S \in SUBSET DOMAIN heap : R \subseteq S /\ \A e \in S : Links(e) \subseteq S}
  IN  {e \in DOMAIN heap : \A S \in closed : e \in S}

\* What monikor_config_dict_free does not meet, from the head
Lost == DOMAIN heap \ MetFrom({1})

-----------------------------------------------------------------------------
(* Parsing *)

\* The file is opened for a start or a reload
Opens ==
  /\ state = "closed"
  /\ state' = "parsing"
  /\ heap' = <<NewDict>> /\ docs' = 0 /\ lost' = 0
  /\ UNCHANGED <<stack, text, config>>

\* monikor_config_free and NULL; a mapping that was begun below a key hangs at no
\* element yet, and what is below it stays allocated
Failing ==
  /\ state' = "failed"
  /\ heap' = <<>> /\ lost' = Cardinality(Lost)
  /\ stack' = <<>> /\ text' = <<>> /\ config' = NULL
  /\ UNCHANGED docs

\* fopen fails; a syntax or read error of libyaml
OpenFails == state = "closed" /\ Failing
ParserFails == state = "parsing" /\ Failing

\* An event the function at work does not expect: no mapping at the top of a file,
\* a key that is no scalar, an alias, a list in a list
Unexpected == (AtTop \/ Waits("mapping") \/ Waits("key") \/ Waits("list")) /\ Failing

StreamEnds ==
  /\ AtTop
  /\ state' = "loaded"
  /\ config' = SetupConfig
  /\ UNCHANGED <<heap, stack, docs, text, lost>>

\* The element of a mapping that is parsed, 0 before the first key
Mapping(dict) == [in |-> "mapping", dict |-> dict, elm |-> 0]

\* Every document is read into the same head
DocumentStarts ==
  /\ AtTop /\ docs < MaxDocs
  /\ docs' = docs + 1
  /\ stack' = <<Mapping(1)>>
  /\ UNCHANGED <<state, heap, text, config, lost>>

\* Mutant: the new element hangs at the first one
Linked_First(h, f, k) ==
  IF f.elm = 0 THEN [h EXCEPT ![f.dict].key = k]
  ELSE Append([h EXCEPT ![f.dict].next = Len(h) + 1], [NewDict EXCEPT !.key = k])

\* The tree with an element for key k of mapping f: its head for the first key, a
\* new one behind the last for any other
Linked(h, f, k) ==
  IF f.elm = 0 THEN [h EXCEPT ![f.dict].key = k]
  ELSE Append([h EXCEPT ![f.elm].next = Len(h) + 1], [NewDict EXCEPT !.key = k])

Element(f) == IF f.elm = 0 THEN f.dict ELSE Len(heap) + 1

\* A scalar in config_parse_mapping; config_parse_key sets the key
KeyEvent(k) ==
  /\ Waits("mapping") /\ Len(heap) < MaxNodes
  /\ heap' = Linked(heap, Top, k)
  /\ stack' = Append([stack EXCEPT ![Len(stack)].elm = Element(Top)],
                     [in |-> "key", node |-> Element(Top)])
  /\ text' = Append(IF Depth = 1 /\ Top.elm = 0 THEN <<>> ELSE text,
                    [depth |-> Depth, key |-> k, type |-> NULL, value |-> NULL])
  /\ UNCHANGED <<state, docs, config, lost>>

\* The outline, with the type and the value of its last entry
Says(type, value) ==
  [text EXCEPT ![Len(text)] = [@ EXCEPT !.type = type, !.value = value]]

ScalarEvent(s) ==
  /\ Waits("key")
  /\ heap' = [heap EXCEPT ![Top.node].type = "scalar", ![Top.node].value = s]
  /\ stack' = Front(stack)
  /\ text' = Says("scalar", s)
  /\ UNCHANGED <<state, docs, config, lost>>

ListStarts ==
  /\ Waits("key")
  /\ heap' = [heap EXCEPT ![Top.node].type = "list", ![Top.node].value = <<>>]
  /\ stack' = Append(Front(stack), [in |-> "list", node |-> Top.node])
  /\ text' = Says("list", NULL)
  /\ UNCHANGED <<state, docs, config, lost>>

ListItem(s) ==
  /\ Waits("list") /\ Len(heap[Top.node].value) < MaxItems
  /\ heap' = [heap EXCEPT ![Top.node].value = Append(@, s)]
  /\ UNCHANGED <<state, stack, docs, text, config, lost>>

ListEnds ==
  /\ Waits("list")
  /\ stack' = Front(stack)
  /\ UNCHANGED <<state, heap, docs, text, config, lost>>

MappingStarts ==
  /\ Waits("key") /\ Len(heap) < MaxNodes
  /\ heap' = Append(heap, NewDict)
  /\ stack' = Append(stack, Mapping(Len(heap) + 1))
  /\ text' = Says("dict", NULL)
  /\ UNCHANGED <<state, docs, config, lost>>

\* The mapping becomes the value of element e when it is complete
Closed(h, e, sub) == [h EXCEPT ![e].type = "dict", ![e].value = sub]

MappingEnds ==
  /\ Waits("mapping")
  /\ IF Len(stack) = 1
     THEN stack' = <<>> /\ heap' = heap
     ELSE /\ stack' = Front(Front(stack))
          /\ heap' = Closed(heap, Last(Front(stack)).node, Top.dict)
  /\ UNCHANGED <<state, docs, text, config, lost>>

\* monikor_config_free, before the next reload
ConfigFree ==
  /\ state = "loaded"
  /\ state' = "closed"
  /\ heap' = <<>> /\ lost' = Cardinality(Lost)
  /\ text' = <<>> /\ config' = NULL
  /\ UNCHANGED <<stack, docs>>

Failed == state = "failed" /\ UNCHANGED configVars

ConfigNext ==
  \/ Opens \/ OpenFails \/ ParserFails \/ Unexpected \/ StreamEnds
  \/ DocumentStarts
  \/ \E k \in Keys : KeyEvent(k)
  \/ \E s \in Scalars : ScalarEvent(s)
  \/ \E s \in Words : ListItem(s)
  \/ ListStarts \/ ListEnds \/ MappingStarts \/ MappingEnds
  \/ ConfigFree \/ Failed

ConfigSpec == ConfigInit /\ [][ConfigNext]_configVars

-----------------------------------------------------------------------------
(* Properties *)

\* The entries of the outline that entry i is under, and itself, from the top
Above(i) ==
  [d \in 1 .. text[i].depth |-> Max({j \in 1 .. i : text[j].depth = d})]

Path(i) == [d \in 1 .. text[i].depth |-> text[Above(i)[d]].key]

\* Entry j comes before i or what i is under, beside it and with the same key
Hides(j, i) ==
  LET d == text[j].depth
  IN  /\ d <= text[i].depth /\ j < Above(i)[d]
      /\ Path(j) = SubSeq(Path(i), 1, d)
      /\ Front(Above(j)) = SubSeq(Above(i), 1, d - 1)

\* The entries of the last document that a lookup of keys may answer: one or none
Answers(keys) ==
  {i \in DOMAIN text : Path(i) = keys /\ \A j \in DOMAIN text : ~Hides(j, i)}

Paths == {<<k>> : k \in Keys} \union {<<k, l>> : k, l \in Keys}

\* A lookup finds the first entry with these keys in the file and its value, however
\* deep the file goes and whatever hides below another entry of the same name; when
\* there is none it finds nothing.  Of several documents the last one that has a key
\* counts (config_dict.c:39-55, config_parse_mapping.c:16-22).
FirstEntryCounts ==
  state = "loaded" =>
    \A keys \in Paths :
      LET answers == Answers(keys)
          e == GetSubdict(keys)
      IN  /\ \A i \in answers :
               /\ e # 0 /\ heap[e].type = text[i].type
               /\ text[i].type = "scalar" => heap[e].value = text[i].value
          /\ answers = {} /\ docs <= 1 => e = 0

\* The heads of the mappings begun below a key, which only the stack holds
Unattached == {stack[k].dict : k \in {j \in DOMAIN stack : stack[j].in = "mapping"}} \ {1}

\* The elements form a tree, so that monikor_config_dict_free frees each one once.
\* A file of one document that was loaded loses none when it is freed, and one that
\* fails loses none but those of the mappings begun below a key, which do not hang
\* at it before they are complete; a second document loses what it replaces in the
\* head (config_dict.c:17-41, config_parse_key.c:31-40).
TreeOwned ==
  /\ \A e \in DOMAIN heap : 1 \notin Links(e)
  /\ \A e, f \in DOMAIN heap : e # f => Links(e) \intersect Links(f) = {}
  /\ \A e \in DOMAIN heap :
       heap[e].type = "dict" /\ heap[e].value # 0 => heap[e].value # heap[e].next
  /\ docs <= 1 =>
       /\ Lost \subseteq MetFrom(Unattached)
       /\ state = "closed" => lost = 0

Said(keys) ==
  LET answers == Answers(keys)
      i == CHOOSE x \in answers : TRUE
  IN  IF answers # {} /\ text[i].type = "scalar" THEN text[i].value ELSE NULL

\* A setting is the number the file says wherever it fits an int, its default when
\* the file says something else or nothing, and 0 when the value was left empty
\* (setup_config.c:25-34, 96-117, 230-242).
SettingsFollow ==
  state = "loaded" /\ docs <= 1 =>
    LET poll == Said(<<"poll_interval">>)
        size == Said(<<"cache", "max_size_mb">>)
    IN  /\ poll \notin Numbers => config.poll_interval = 60
        /\ poll \in Numbers /\ Written[poll] < IntMax => config.poll_interval = Written[poll]
        /\ size \notin Numbers => config.max_cache_size = 30 * MiB
        /\ size \in Numbers /\ Written[size] * MiB < IntMax =>
             config.max_cache_size = Written[size] * MiB
=============================================================================
