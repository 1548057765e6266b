--------------------------------- MODULE TL ---------------------------------
(***************************************************************************)
(* The packet format (src/ngx_statshouse_tl.c): what is written for a      *)
(* stat, how long the code expects that to be, and what a reader of the    *)
(* packet makes of it.                                                     *)
(*                                                                         *)
(* A packet is a sequence of fields [kind, val, size].  A stat is [type,   *)
(* name, keys, values], a key [name, value]; of a string only its length   *)
(* and its identity count: [id, len].  The reader is the statshouse agent, *)
(* which is not part of the module; it follows the writer's own schema.    *)
(***************************************************************************)
EXTENDS Integers, Sequences, SequencesExt

CONSTANTS Stats,    \* the stats that are written
          MaxStats  \* bound: how many are written to one packet

Strings == [id : STRING, len : 0..2^24-1]

(* A stat has any number of keys and values, a counter one value; what     *)
(* fits into a datagram is shorter than what three bytes can count.        *)
ASSUME StatsAssumption ==
  Stats \subseteq
    {stat \in [type : {"counter", "value", "unique"}, name : Strings,
               keys : Seq([name : Strings, value : Strings]), values : Seq(Int)] :
       stat.type = "counter" => Len(stat.values) = 1}

Tiny == 253          \* NGX_STATSHOUSE_TL_TINY_STRING_LEN
Tag == "addMetrics"  \* NGX_STATSHOUSE_TL_TAG

----------------------------------------------------------------------------
(* Strings: a head of one byte, or a marker and three bytes, the text, and *)
(* padding to four bytes.  -len is unsigned, and its remainder the one of  *)
(* the negative number.                                                    *)
StringPaddingAligned(len) == (-len) % 4    \* slip: the head is not counted

StringPadding(len) == (-(IF len <= Tiny THEN len + 1 ELSE len)) % 4

StringHead(len) == IF len <= Tiny THEN 1 ELSE 4

StringLen(len) == StringHead(len) + len + StringPadding(len)

(* The length as the head holds it *)
HeadValue(len) == IF len <= Tiny THEN len ELSE len % 2^24

U32(n) == <<[kind |-> "u32", val |-> n, size |-> 4]>>
I64(n) == <<[kind |-> "i64", val |-> n, size |-> 8]>>
F64(n) == <<[kind |-> "f64", val |-> n, size |-> 8]>>
Str(s) == <<[kind |-> "str", val |-> [id |-> s.id, len |-> HeadValue(s.len)],
             size |-> StringHead(s.len) + s.len + StringPadding(s.len)]>>

Bytes(fields) == FoldLeft(LAMBDA n, f : n + f.size, 0, fields)

----------------------------------------------------------------------------
(* ngx_statshouse_tl_metric_len() and ngx_statshouse_tl_metrics_len() of   *)
(* one stat                                                                *)
KeysLen(stat) ==
  FoldLeft(LAMBDA n, k : n + StringLen(k.name.len) + StringLen(k.value.len), 0, stat.keys)

(* Slip: room for one value only *)
ValuesLenOne(stat) == IF stat.type = "counter" THEN 8 ELSE 4 + 8

ValuesLen(stat) == IF stat.type = "counter" THEN 8 ELSE 4 + 8 * Len(stat.values)

MetricLen(stat) == 4 + StringLen(stat.name.len) + 4 + KeysLen(stat) + ValuesLen(stat)

MetricsLen(stat) == 4 + 4 + 4 + MetricLen(stat)

(* ngx_statshouse_tl_metric() and ngx_statshouse_tl_metrics() of one stat  *)
Mask(type) == CASE type = "counter" -> 1 [] type = "value" -> 2 [] type = "unique" -> 4

Keys(stat) ==
  U32(Len(stat.keys))
    \o FlattenSeq([i \in DOMAIN stat.keys |-> Str(stat.keys[i].name) \o Str(stat.keys[i].value)])

(* Slip: every value is written with the first one's number *)
ValuesFirst(stat) ==
  CASE stat.type = "counter" -> F64(stat.values[1])
    [] stat.type = "value" ->
         U32(Len(stat.values)) \o FlattenSeq([i \in DOMAIN stat.values |-> F64(stat.values[1])])
    [] stat.type = "unique" -> U32(1) \o I64(stat.values[1])

(* The count of unique values is written as 1, however many follow. *)
Values(stat) ==
  CASE stat.type = "counter" -> F64(stat.values[1])
    [] stat.type = "value" ->
         U32(Len(stat.values)) \o FlattenSeq([i \in DOMAIN stat.values |-> F64(stat.values[i])])
    [] stat.type = "unique" ->
         U32(1) \o FlattenSeq([i \in DOMAIN stat.values |-> I64(stat.values[i])])

Metric(stat) == U32(Mask(stat.type)) \o Str(stat.name) \o Keys(stat) \o Values(stat)

Metrics(stat) == U32(Tag) \o U32(0) \o U32(1) \o Metric(stat)

----------------------------------------------------------------------------
(* The reader.  It stops at what the schema does not allow.                *)
Kind(p, i) == IF i \in DOMAIN p THEN p[i].kind ELSE "end"

(* Where the text of a string that says it has h bytes ends, and so the    *)
(* size the reader takes from the packet                                   *)
Reads(f) == f.kind = "str" => f.size = StringLen(f.val.len)

(* The fields of one batch with the mask, keys and values that its counts  *)
(* announce; the batch begins at field b.                                  *)
KeyCount(p, b) == p[b+5].val
ValuesAt(p, b) == b + 6 + 2 * KeyCount(p, b)
ValueKind(p, b) == IF p[b+3].val = 4 THEN "i64" ELSE "f64"
FirstValue(p, b) == IF p[b+3].val = 1 THEN ValuesAt(p, b) ELSE ValuesAt(p, b) + 1
ValueCount(p, b) == IF p[b+3].val = 1 THEN 1 ELSE p[ValuesAt(p, b)].val
Next1(p, b) == FirstValue(p, b) + ValueCount(p, b)

Wellformed(p, b) ==
  /\ \A i \in {0, 1, 2, 3, 5} : Kind(p, b+i) = "u32"
  /\ Kind(p, b+4) = "str"
  /\ p[b].val = Tag /\ p[b+3].val \in {1, 2, 4}
  /\ \A i \in 1..2 * KeyCount(p, b) : Kind(p, b+5+i) = "str"
  /\ p[b+3].val # 1 => Kind(p, ValuesAt(p, b)) = "u32"
  /\ \A i \in FirstValue(p, b)..Next1(p, b)-1 : Kind(p, i) = ValueKind(p, b)
  /\ \A i \in b..Next1(p, b)-1 : Reads(p[i])

ReadStat(p, b) ==
  [type |-> CASE p[b+3].val = 1 -> "counter" [] p[b+3].val = 2 -> "value"
              [] OTHER -> "unique",
   name |-> p[b+4].val,
   keys |-> [i \in 1..KeyCount(p, b) |->
               [name |-> p[b+4+2*i].val, value |-> p[b+5+2*i].val]],
   values |-> [i \in 1..ValueCount(p, b) |-> p[FirstValue(p, b)+i-1].val]]

----------------------------------------------------------------------------
VARIABLES
  packet,   \* the fields in the buffer
  expected, \* the bytes that ngx_statshouse_tl_metrics_len() said they take
  written,  \* the stats written
  at,       \* the field the reader has come to
  got,      \* the stats read
  garbage   \* whether the reader met what the schema does not allow

vars == <<packet, expected, written, at, got, garbage>>

Init ==
  /\ packet = <<>> /\ expected = 0 /\ written = <<>>
  /\ at = 0 /\ got = <<>> /\ garbage = FALSE

Write(stat) ==
  /\ at = 0 /\ Len(written) < MaxStats
  /\ packet' = packet \o Metrics(stat)
  /\ expected' = expected + MetricsLen(stat)
  /\ written' = Append(written, stat)
  /\ UNCHANGED <<at, got, garbage>>

Send ==
  /\ at = 0 /\ packet # <<>>
  /\ at' = 1
  /\ UNCHANGED <<packet, expected, written, got, garbage>>

ReadOne ==
  /\ at \in DOMAIN packet /\ ~garbage
  /\ IF Wellformed(packet, at)
       THEN /\ got' = Append(got, ReadStat(packet, at)) /\ at' = Next1(packet, at)
            /\ UNCHANGED garbage
       ELSE garbage' = TRUE /\ UNCHANGED <<at, got>>
  /\ UNCHANGED <<packet, expected, written>>

Next == (\E stat \in Stats : Write(stat)) \/ Send \/ ReadOne

Spec == Init /\ [][Next]_vars

----------------------------------------------------------------------------
(* The fields written take exactly the bytes that the length functions     *)
(* promised ngx_statshouse_send_to_buffer(), and all of them are aligned.  *)
LengthExact == Bytes(packet) = expected
Aligned == \A i \in DOMAIN packet : packet[i].size % 4 = 0

(* Stats as they come from a request have one value; the aggregator makes  *)
(* them longer.                                                            *)
Plain(stat) == stat.type = "unique" => Len(stat.values) = 1

(* A packet of stats other than aggregated unique ones reads as what was   *)
(* written, and nothing in it reads as anything else.                      *)
RoundTrip ==
  (\A i \in DOMAIN written : Plain(written[i])) =>
    /\ ~garbage /\ got = SubSeq(written, 1, Len(got))
    /\ at > Len(packet) => Len(got) = Len(written)

(* Every packet that was written reads as what was written: the count      *)
(* before the unique values is the "unique count".                         *)
UniqueCount == ~garbage
=============================================================================
