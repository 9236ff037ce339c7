--------------------------------- MODULE Wire ---------------------------------
(***************************************************************************)
(* The lists of metrics as bytes: what the agent sends and what the local  *)
(* server reads (lib/monikor/src/metrics/metric_list_serialize.c and       *)
(* metric_list_unserialize.c, utils/serialize.c).  A list is written and   *)
(* read in one go, by operators over the state of MetricList: the header   *)
(* takes its count from the list's size, the bytes come from its nodes.    *)
(*                                                                         *)
(* A buffer is a sequence of units: a unit is the header of a metric, with *)
(* its words, or one byte of a name or a value.  The hosts at the two ends *)
(* may order the bytes of a word differently, in the headers as well as in *)
(* the values; a word is written here from its highest byte on.            *)
(***************************************************************************)
EXTENDS MetricList

CONSTANTS
  Contents,    \* what the metrics may be: functions from Weights to metrics
  Hosts,       \* the byte orders of the two ends, of {"little", "big"}
  ShortMod,    \* 2^16
  Short,       \* the two bytes of each number below ShortMod
  LongMod,     \* 2^64
  Long         \* the bytes of each number below LongMod

Byte == 0 .. 255

\* The bytes of an integer and of a float, half as many as in C
Width == [integer |-> 4, float |-> 2]

\* monikor_metric_t, as the constructors below fill it
IsMetric(m) ==
  /\ m \in [name : Seq(Byte), clock : [sec : 0 .. LongMod - 1, usec : 0 .. LongMod - 1],
            type : {"integer", "float", "string"}, flags : Byte, value : Seq(Byte)]
  /\ m.type \in DOMAIN Width => Len(m.value) = Width[m.type]

\* Code gives each number below mod its own n bytes
IsCode(code, mod, n) == code \in [0 .. mod - 1 -> [1 .. n -> Byte]] /\ IsInjective(code)

ASSUME WireAssumption ==
  /\ \A c \in Contents, w \in Weights : IsMetric(c[w])
  /\ Hosts \subseteq {"little", "big"}
  /\ ShortMod \in Nat \ {0} /\ IsCode(Short, ShortMod, 2)
  /\ LongMod \in Nat \ {0} /\ IsCode(Long, LongMod, Width["integer"])

\* monikor_metric_integer, monikor_metric_float, monikor_metric_string
MetricInteger(name, clock, value, flags) ==
  [name |-> name, clock |-> clock, type |-> "integer", flags |-> flags, value |-> value]
MetricFloat(name, clock, value, flags) ==
  [name |-> name, clock |-> clock, type |-> "float", flags |-> flags, value |-> value]
MetricString(name, clock, value) ==
  [name |-> name, clock |-> clock, type |-> "string", flags |-> 0, value |-> value]

\* monikor_metric_data_size
DataSize(m) == CASE m.type = "string" -> Len(m.value)
                 [] m.type \in DOMAIN Width -> Width[m.type]
                 [] OTHER -> 0

-----------------------------------------------------------------------------
(* Words of memory, on hosts of either order *)

\* How a host keeps a word
InMemory(value, host) == IF host = "little" THEN Reverse(value) ELSE value

\* htonl and ntohl, htons and ntohs, of the C library
Htonl(word, host) == IF host = "little" THEN Reverse(word) ELSE word
Htons(word, host) == IF host = "little" THEN Reverse(word) ELSE word

\* htonll and ntohll: on a little-endian host each half is swapped, and the two
\* change places
Htonll(word, host) ==
  IF host = "big" THEN word
  ELSE Htonl(SubSeq(word, 3, 4), host) \o Htonl(SubSeq(word, 1, 2), host)

\* The bytes of a value of type t between memory and the network, either way
Net(t, word, host) == CASE t = "integer" -> Htonll(word, host)
                        [] t = "float"   -> Htonl(word, host)
                        [] OTHER         -> word

Kept(t, value, host) == IF t \in DOMAIN Width THEN InMemory(value, host) ELSE value

\* A number of a header from the host to the network, cast to uint16_t or uint64_t
NetShort(n, host) == Htons(InMemory(Short[n % ShortMod], host), host)
NetLong(n, host) == Htonll(InMemory(Long[n % LongMod], host), host)

\* And back: the number that the host keeps as the word it has then
ShortOf == AntiFunction(Short)
LongOf == AntiFunction(Long)
HostShort(word, host) == ShortOf[InMemory(Htons(word, host), host)]
HostLong(word, host) == LongOf[InMemory(Htonll(word, host), host)]

-----------------------------------------------------------------------------
(* Writing *)

\* Mutant: the seconds go out as the host keeps them
Header_NoSwap(m, host) ==
  [clock_sec |-> InMemory(Long[m.clock.sec], host), clock_usec |-> NetLong(m.clock.usec, host),
   name_size |-> NetShort(Len(m.name), host), data_size |-> NetLong(DataSize(m), host),
   type |-> m.type, flags |-> m.flags]

\* The header of a metric; its type and its flags are a byte each
Header(m, host) ==
  [clock_sec |-> NetLong(m.clock.sec, host), clock_usec |-> NetLong(m.clock.usec, host),
   name_size |-> NetShort(Len(m.name), host), data_size |-> NetLong(DataSize(m), host),
   type |-> m.type, flags |-> m.flags]

Bytes(s) == [i \in DOMAIN s |-> [byte |-> s[i]]]

\* serialize_metric
Serialized(m, host) ==
  <<Header(m, host)>> \o Bytes(m.name \o Net(m.type, Kept(m.type, m.value, host), host))

\* The metrics of the nodes that next leads to from the first one of list l on,
\* whatever size says
Metrics(l, contents) ==
  [i \in 1 .. Cardinality(Reachable(first[l])) |-> contents[weight[Walk(first[l])[i - 1]]]]

\* What has been written after each of the metrics ms
Written(ms, host) ==
  LET upto[i \in 0 .. Len(ms)] ==
        IF i = 0 THEN <<>> ELSE upto[i - 1] \o Serialized(ms[i], host)
  IN  upto

\* monikor_metric_list_serialize
Serialize(l, contents, host) ==
  LET ms   == Metrics(l, contents)
      body == Written(ms, host)[Len(ms)]
  IN  [version |-> 1, count |-> NetShort(size[l], host), data_size |-> NetLong(Len(body), host),
       body |-> body]

-----------------------------------------------------------------------------
(* Reading *)

\* The n bytes of body from pos on
BytesAt(body, pos, n) == [i \in 1 .. n |-> body[pos + i].byte]

\* metric_from_serialized at pos, for a body that has a header there
ReadMetric(body, pos, host) ==
  LET hdr       == body[pos + 1]
      name_size == HostShort(hdr.name_size, host)
      data      == BytesAt(body, pos + 1 + name_size, HostLong(hdr.data_size, host))
  IN  [name |-> BytesAt(body, pos + 1, name_size),
       clock |-> [sec |-> HostLong(hdr.clock_sec, host), usec |-> HostLong(hdr.clock_usec, host)],
       type |-> hdr.type, flags |-> hdr.flags,
       value |-> Kept(hdr.type, Net(hdr.type, data, host), host)]

\* Where the metric after m begins, from the lengths of what was decoded
NextMetric(pos, m) == pos + 1 + Len(m.name) + DataSize(m)

IsHeader(unit) == "type" \in DOMAIN unit

\* monikor_metric_list_header_unserialize
ListHeader(list, host) ==
  [count |-> HostShort(list.count, host), data_size |-> HostLong(list.data_size, host)]

\* A turn of the loop of monikor_metric_list_unserialize for st = [pos, got]: nothing
\* is read past the end of the data, nor where no metric begins
ReadOne(body, hdr, st, host) ==
  IF st.pos >= hdr.data_size \/ ~IsHeader(body[st.pos + 1]) THEN st
  ELSE LET m == ReadMetric(body, st.pos, host)
       IN  [pos |-> NextMetric(st.pos, m), got |-> Append(st.got, m)]

\* Where the loop is after each of its turns
Turns(body, hdr, host) ==
  LET turn[i \in 0 .. hdr.count] ==
        IF i = 0 THEN [pos |-> 0, got |-> <<>>] ELSE ReadOne(body, hdr, turn[i - 1], host)
  IN  turn

\* monikor_metric_list_unserialize
Unserialize(list, host) ==
  LET hdr == ListHeader(list, host) IN Turns(list.body, hdr, host)[hdr.count].got

-----------------------------------------------------------------------------
(* Properties *)

\* What a host of any order reads from the bytes a host of any order wrote of a list
\* is the beginning of the list, every clock, length, name and value as it was: all of
\* it, unless it has so many metrics that their number did not fit the header.  Names
\* are as short as the header allows and the bytes are fewer than 2^64
\* (metric_list_serialize.c:33-52, metric_list_unserialize.c:34-41, 57-63, 74-81).
ReadAsWritten ==
  \A l \in Lists, c \in Contents, h, k \in Hosts :
    LET list == Serialize(l, c, h)
        read == Unserialize(list, k)
    IN  (\A w \in Weights : Len(c[w].name) < ShortMod) /\ Len(list.body) < LongMod =>
          /\ IsPrefix(read, Metrics(l, c))
          /\ size[l] < ShortMod => Len(read) = Cardinality(Reachable(first[l]))
=============================================================================
