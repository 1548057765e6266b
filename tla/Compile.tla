------------------------------ MODULE Compile ------------------------------
(***************************************************************************)
(* The stats that one metric makes of a request:                           *)
(* ngx_statshouse_stat_compile() (src/ngx_statshouse.c) as                 *)
(* ngx_http_statshouse_send() calls it, once for each metric of the        *)
(* location.                                                               *)
(*                                                                         *)
(* A metric is [phase, disable, timeout, type, split, keys], a key of it   *)
(* [named, disable, split].  A request is [phase, condition, fails, value, *)
(* keys]: what ngx_statshouse_test_required_predicates() answers, whether  *)
(* a complex value cannot be evaluated, and the texts the others evaluate  *)
(* to.  A stat is [value, keys], a key of it [key, val]: the key's place   *)
(* in the metric and its text.  Numbers stay texts; only whether they can  *)
(* be parsed matters.                                                      *)
(***************************************************************************)
EXTENDS Parts, SequencesExt

CONSTANTS
  Confs,      \* the metrics
  Requests,   \* the requests
  SplitsMax,  \* server->splits_max
  MaxTime     \* bound: ngx_time() stays below

ASSUME CompileAssumption ==
  /\ SplitsMax \in Nat \ {0}
  /\ MaxTime \in Nat \ {0}
  /\ Confs \subseteq
       [phase : STRING, disable : BOOLEAN, timeout : Nat, type : {"counter", "value", "unique"},
        split : BOOLEAN, keys : Seq([named : BOOLEAN, disable : BOOLEAN, split : BOOLEAN])]
  /\ Requests \subseteq
       [phase : STRING, condition : {"ok", "declined", "error"}, fails : BOOLEAN,
        value : Texts, keys : Seq(Texts)]

VARIABLES
  conf,     \* the metric
  now,      \* ngx_time(), the time of the day in seconds
  last,     \* conf->last, 0 before the first request
  request,  \* the request under way, NoRequest between requests
  result,   \* what the call returned and server->splits
  made      \* history: when stats were last made, 0 if never

vars == <<conf, now, last, request, result, made>>

NoRequest == [phase |-> "none"]
Empty == Text(<<>>)
Answer(rc) == [rc |-> rc, stats |-> <<>>]
NoResult == Answer("none")

----------------------------------------------------------------------------
Zero == <<"0">>

AllDigits(s) == s # <<>> /\ \A i \in DOMAIN s : s[i] \in {"0", "1", "2"}

(* ngx_atoi() takes digits; for a value a minus is passed by first. *)
Parses(type, s) ==
  IF type = "value" /\ s # <<>> /\ s[1] = "-" THEN AllDigits(Tail(s)) ELSE AllDigits(s)

IsEmpty(s) == s \in {<<>>, <<"-">>, <<"0">>}

(* The texts of the keys, null for the keys that are not to be sent. *)
KeyTexts(c, r) == [i \in DOMAIN c.keys |->
  IF c.keys[i].named /\ ~c.keys[i].disable THEN r.keys[i] ELSE Empty]

(* The loop over the parts of the value *)
Values(c, r) ==
  IF c.split THEN Parts(r.value, SplitsMax)
  ELSE [items |-> IF r.value.str = <<>> THEN <<>> ELSE <<r.value.str>>, fault |-> FALSE]

(* Slip: a part without text leaves the stat without a value. *)
NewStatBare(v) == [value |-> v, keys |-> <<>>]

NewStat(v) == [value |-> IF v = <<>> THEN Zero ELSE v, keys |-> <<>>]

WithKey(stat, i, val) == [stat EXCEPT !.keys = Append(@, [key |-> i, val |-> val])]

(* Slip: a stat that a key opens does not get the keys before it. *)
OpenedBare(c, texts, stats, i) == NewStat(IF c.split THEN Zero ELSE stats[1].value)

(* Key p is added to the stat if it is not split. *)
AddWhole(c, texts, stat, p) ==
  IF c.keys[p].named /\ ~c.keys[p].split /\ ~IsEmpty(texts[p].str)
    THEN WithKey(stat, p, texts[p].str) ELSE stat

(* A stat that the parts of key i open gets the whole keys before it. *)
Opened(c, texts, stats, i) ==
  FoldLeft(LAMBDA stat, p : AddWhole(c, texts, stat, p),
           NewStat(IF c.split THEN Zero ELSE stats[1].value), [p \in 1..i-1 |-> p])

(* Slip: as many stats as the key has parts. *)
KeyPartsUncapped(t) == Parts(t, SplitsMax + 1)

KeyParts(t) == Parts(t, SplitsMax)

(* Key i is added to the stats so far. *)
AddKey(c, texts, stats, i) ==
  IF IsEmpty(texts[i].str) THEN stats
  ELSE IF ~c.keys[i].split THEN [j \in DOMAIN stats |-> WithKey(stats[j], i, texts[i].str)]
  ELSE LET parts == KeyParts(texts[i]).items
           stat(j) == IF j \in DOMAIN stats THEN stats[j] ELSE Opened(c, texts, stats, i)
       IN [j \in DOMAIN stats \cup DOMAIN parts |->
             IF j \in DOMAIN parts THEN WithKey(stat(j), i, parts[j]) ELSE stats[j]]

KeyFaults(c, texts) ==
  \E i \in DOMAIN c.keys : c.keys[i].split /\ ~IsEmpty(texts[i].str) /\ KeyParts(texts[i]).fault

Compiled(c, r) ==
  LET values == Values(c, r)
      texts  == KeyTexts(c, r)
      first  == [j \in DOMAIN values.items |-> NewStat(values.items[j])]
  IN IF r.condition # "ok" THEN Answer(r.condition)
     ELSE IF r.fails THEN Answer("error")
     ELSE IF \E j \in DOMAIN values.items :
               values.items[j] # <<>> /\ ~Parses(c.type, values.items[j]) THEN Answer("error")
     ELSE IF values.fault THEN Answer("fault")
     ELSE IF values.items = <<>> THEN Answer("declined")
     ELSE IF KeyFaults(c, texts) THEN Answer("fault")
     ELSE [rc |-> "ok",
           stats |-> FoldLeft(LAMBDA stats, i : AddKey(c, texts, stats, i),
                              first, [i \in DOMAIN c.keys |-> i])]

----------------------------------------------------------------------------
Init ==
  /\ conf \in Confs
  /\ now = 1 /\ last = 0 /\ made = 0
  /\ request = NoRequest /\ result = NoResult

(* A metric of another phase, or one that the sample leaves out, is passed *)
(* over: nothing changes.                                                  *)
Begin(r) ==
  /\ request = NoRequest
  /\ r.phase = conf.phase
  /\ Len(r.keys) = Len(conf.keys)
  /\ request' = r

(* Slip: off by one. *)
TooSoonShort == conf.timeout # 0 /\ last # 0 /\ last + conf.timeout > now + 1

TooSoon == conf.timeout # 0 /\ last # 0 /\ last + conf.timeout > now

Decline(r) ==
  /\ Begin(r)
  /\ conf.disable \/ TooSoon
  /\ result' = Answer("declined")
  /\ UNCHANGED <<conf, now, last, made>>

(* The time is taken before the condition is looked at. *)
Compile(r) ==
  /\ Begin(r)
  /\ ~conf.disable /\ ~TooSoon
  /\ last' = IF conf.timeout # 0 THEN now ELSE last
  /\ result' = Compiled(conf, r)
  /\ made' = IF result'.rc = "ok" THEN now ELSE made
  /\ UNCHANGED <<conf, now>>

(* The stats were given to ngx_statshouse_send(), or there are none.       *)
(* After a fault there is no worker.                                       *)
Finish ==
  /\ request # NoRequest /\ result.rc # "fault"
  /\ request' = NoRequest /\ result' = NoResult
  /\ UNCHANGED <<conf, now, last, made>>

(* The clock is the time of the day: it may be set back.  Bound: it stands *)
(* for a metric without a timeout, which does not read it.                 *)
Clock ==
  /\ request = NoRequest /\ conf.timeout # 0
  /\ now' \in 1..MaxTime
  /\ UNCHANGED <<conf, last, request, result, made>>

Next == (\E r \in Requests : Decline(r) \/ Compile(r)) \/ Finish \/ Clock

Spec == Init /\ [][Next]_vars
=============================================================================
