------------------------------- MODULE Config -------------------------------
(***************************************************************************)
(* The configuration of ngx_http_statshouse_module.c and                   *)
(* ngx_stream_statshouse_module.c, from the directives to the requests     *)
(* that use it: `statshouse_server' and `statshouse_metric' in nested      *)
(* blocks, the merging of each block with the one around it, and           *)
(* initialisation.  The two modules have the same directives; they differ  *)
(* in how they keep metrics, which the variable `module' chooses.          *)
(*                                                                         *)
(* A server directive is [addr, alone, valid, params, values, flush]: its  *)
(* address, whether it has no other argument, whether the address and      *)
(* every parameter can be parsed, buffer=, aggregate=, splits_max= and     *)
(* flush_after_request as one value, aggregate_values= (Unset if it is     *)
(* not there), and flush=.  A metric directive is the sequence of the      *)
(* directives in its block, each [dir, refs, exists, slot, n]: refs are    *)
(* the variables its text refers to.                                       *)
(***************************************************************************)
EXTENDS Integers, Sequences, FiniteSets, SequencesExt

CONSTANTS
  Main,           \* the http or stream block
  Parent,         \* [blocks inside it -> the block around each]
  ServerArgs,     \* the server directives that may be written
  MetricArgs,     \* the metric directives that may be written
  OffWords,       \* "off" and the addresses that begin with it
  Known,          \* the variables that nginx and its modules define
  MaxDirectives,  \* bounds: how many directives are written,
  MaxCalls,       \*   how many calls the run has,
  MaxTime         \*   ngx_time() stays below

(* Each block lies deeper than the one around it. *)
ASSUME BlocksAssumption ==
  /\ Main \notin DOMAIN Parent
  /\ Parent \in [DOMAIN Parent -> {Main} \cup DOMAIN Parent]
  /\ \E depth \in [DOMAIN Parent -> 1..Cardinality(DOMAIN Parent)] :
       \A b \in DOMAIN Parent : Parent[b] # Main => depth[Parent[b]] < depth[b]

(* The word itself disables. *)
ASSUME OffAssumption == "off" \in OffWords

VARIABLES
  module,   \* "http" or "stream"
  phase,    \* "parse", "merge", "run", or "refused": nginx does not start;
            \* "dead": the worker is gone
  cur,      \* the block that is parsed
  conf,     \* the configuration of each block that is there
  arrays,   \* the arrays of metrics: for each the places of its metrics
  metrics,  \* the metrics (ngx_statshouse_conf_t)
  servers,  \* smcf->servers
  merged,   \* the blocks that have been merged
  now,      \* ngx_time()
  call,     \* what the last call did
  calls,    \* the number of calls
  written,  \* history: the directives accepted, in the order of the file
  made      \* history: when a metric last made stats in a block

vars == <<module, phase, cur, conf, arrays, metrics, servers, merged, now, call, calls, written, made>>

Null == 0
Unset == -1    \* NGX_CONF_UNSET, NGX_CONF_UNSET_PTR

NewConf == [confs |-> Null, server |-> Unset, enable |-> Unset]
NoCall == [kind |-> "none", block |-> Main, rc |-> "skipped", sent |-> {}]

Inner == DOMAIN Parent
Blocks == IF module = "http" THEN {Main} \cup Inner
                             ELSE {Main} \cup {b \in Inner : Parent[b] = Main}

----------------------------------------------------------------------------
(* statshouse_metric { ... } *)

Types == {"count", "value", "unique"}

NewMetric == [ok |-> TRUE, type |-> "none", refs |-> {}, exists |-> {}, keys |-> <<>>,
              timeout |-> Unset, phase |-> ""]

Slots(m) == {m.keys[k].slot : k \in DOMAIN m.keys}

(* The metric m after one directive of its block *)
WithItem(m, i) ==
  CASE i.dir \in Types -> [m EXCEPT !.ok = @ /\ m.type = "none", !.type = i.dir,
                                    !.refs = @ \cup i.refs]
    [] i.dir = "key" -> [m EXCEPT !.ok = @ /\ i.slot \notin Slots(m),
                                  !.keys = Append(@, [slot |-> i.slot, refs |-> i.refs,
                                                      exists |-> i.exists])]
    [] i.dir = "exists" -> [m EXCEPT !.exists = @ \cup i.exists]
    [] i.dir = "condition" -> [m EXCEPT !.refs = @ \cup i.refs]
    [] i.dir = "timeout" -> [m EXCEPT !.ok = @ /\ m.timeout = Unset, !.timeout = i.n]
    [] i.dir = "phase" -> [m EXCEPT !.ok = @ /\ m.phase = "", !.phase = i.n]

(* The metric of a block; ok says that it is accepted. *)
Parsed(items) ==
  LET m == FoldLeft(WithItem, NewMetric, items)
  IN [m EXCEPT !.ok = @ /\ m.type # "none", !.timeout = IF @ = Unset THEN 0 ELSE @]

ASSUME MetricAssumption ==
  \A items \in MetricArgs :
    /\ items \in Seq(Range(items))
    /\ \A i \in DOMAIN items :
         items[i].dir \in Types \cup {"key", "exists", "condition", "timeout", "phase"}

(* ngx_conf_set_sec_slot() takes no time below zero; phases have names. *)
ASSUME ItemAssumption ==
  \A items \in MetricArgs : \A i \in DOMAIN items :
    /\ items[i].dir = "timeout" => items[i].n \in Nat
    /\ items[i].dir = "phase" => items[i].n # ""

(* origin is the place of the directive in `written'. *)
Metric(m, origin) == [refs |-> m.refs, exists |-> m.exists, keys |-> m.keys, timeout |-> m.timeout,
                      phase |-> m.phase, disable |-> FALSE, last |-> 0, origin |-> origin]

----------------------------------------------------------------------------
Init ==
  /\ module \in {"http", "stream"}
  /\ phase = "parse" /\ cur = Main
  /\ conf = [b \in {Main} |-> NewConf]
  /\ arrays = <<>> /\ metrics = <<>> /\ servers = <<>> /\ merged = {Main}
  /\ now = 1 /\ call = NoCall /\ calls = 0
  /\ written = <<>> /\ made = <<>>

(* nginx's parser: a block is opened once, inside the one around it. *)
Open(b) ==
  /\ phase = "parse" /\ b \in Blocks \ DOMAIN conf /\ Parent[b] = cur
  /\ cur' = b
  /\ conf' = [x \in DOMAIN conf \cup {b} |-> IF x = b THEN NewConf ELSE conf[x]]
  /\ UNCHANGED <<module, phase, arrays, metrics, servers, merged, now, call, calls, written, made>>

Close ==
  /\ phase = "parse"
  /\ IF cur = Main THEN phase' = "merge" /\ UNCHANGED cur
                   ELSE cur' = Parent[cur] /\ UNCHANGED phase
  /\ UNCHANGED <<module, conf, arrays, metrics, servers, merged, now, call, calls, written, made>>

Directive == phase = "parse" /\ Len(written) < MaxDirectives

Write(kind, d) == written' = Append(written, [block |-> cur, kind |-> kind, arg |-> d])

Refuse ==
  /\ phase' = "refused"
  /\ UNCHANGED <<module, cur, conf, arrays, metrics, servers, merged, now, call, calls, made>>

(* The first three letters of a lone argument are compared. *)
IsOff(d) == d.alone /\ d.addr \in OffWords

(* The parameters by which a server is found again.  flush= is not one. *)
Param(d) == [addr |-> d.addr, params |-> d.params,
             values |-> IF d.values = Unset THEN 24 ELSE d.values]

(* Slip: that of the stream module *)
HttpAcceptsNoValues(d) == d.valid /\ d.values = Unset

HttpAccepts(d) == d.valid

(* The stream module looks for the number of aggregate_values= in the      *)
(* middle of the name and never finds one.                                 *)
StreamAccepts(d) == d.valid /\ d.values = Unset

Accepts(d) == IF module = "http" THEN HttpAccepts(d) ELSE StreamAccepts(d)

SameServers(d) == {i \in DOMAIN servers : servers[i].param = Param(d)}

ServerOff ==
  /\ conf' = [conf EXCEPT ![cur].enable = 0]
  /\ UNCHANGED servers

ServerFound(d) ==
  /\ conf' = [conf EXCEPT ![cur].server = CHOOSE i \in SameServers(d) : TRUE, ![cur].enable = 1]
  /\ UNCHANGED servers

ServerNew(d) ==
  /\ servers' = Append(servers, [param |-> Param(d), flush |-> d.flush, ready |-> FALSE])
  /\ conf' = [conf EXCEPT ![cur].server = Len(servers'), ![cur].enable = 1]

(* statshouse_server *)
ServerDirective(d) ==
  /\ Directive
  /\ Write("server", d)
  /\ IF conf[cur].server # Unset \/ (~IsOff(d) /\ ~Accepts(d))
       THEN Refuse
       ELSE /\ IF IsOff(d) THEN ServerOff
               ELSE IF SameServers(d) # {} THEN ServerFound(d) ELSE ServerNew(d)
            /\ UNCHANGED <<module, phase, cur, arrays, metrics, merged, now, call, calls, made>>

(* The metric is pushed to the array of the block, which is made for the   *)
(* first: a pointer in the http module, the metric itself in the stream    *)
(* module.                                                                 *)
Push(m) ==
  /\ metrics' = Append(metrics, m)
  /\ IF conf[cur].confs = Null
       THEN /\ arrays' = Append(arrays, <<Len(metrics')>>)
            /\ conf' = [conf EXCEPT ![cur].confs = Len(arrays')]
       ELSE /\ arrays' = [arrays EXCEPT ![conf[cur].confs] = Append(@, Len(metrics'))]
            /\ UNCHANGED conf

(* statshouse_metric.  exists is the http module's only. *)
MetricDirective(items) ==
  /\ Directive
  /\ module = "stream" => \A i \in DOMAIN items : items[i].exists = {}
  /\ Write("metric", items)
  /\ LET m == Parsed(items) IN
       IF m.ok THEN /\ Push(Metric(m, Len(written')))
                    /\ UNCHANGED <<module, phase, cur, servers, merged, now, call, calls, made>>
               ELSE Refuse

----------------------------------------------------------------------------
(* After the last block each block is merged with the one around it, the   *)
(* outer ones first.                                                       *)

MergeValue(child, parent, default) ==
  IF child # Unset THEN child ELSE IF parent # Unset THEN parent ELSE default

(* Slip: the block's own flag is not looked at. *)
MergeConfSilent(c, p) == [confs  |-> IF c.confs = Null THEN p.confs ELSE c.confs,
                          server |-> MergeValue(c.server, p.server, Null),
                          enable |-> MergeValue(p.enable, c.enable, 0)]

MergeConf(c, p) == [confs  |-> IF c.confs = Null THEN p.confs ELSE c.confs,
                    server |-> MergeValue(c.server, p.server, Null),
                    enable |-> MergeValue(c.enable, p.enable, 0)]

(* Slips: the metrics are copied, or pushed to the array around. *)
HttpMergeCopied(c, p) ==
  /\ metrics' = metrics \o [i \in DOMAIN arrays[p.confs] |-> metrics[arrays[p.confs][i]]]
  /\ arrays' = [arrays EXCEPT ![c.confs] = @ \o [i \in DOMAIN arrays[p.confs] |-> Len(metrics) + i]]

HttpMergeOutward(c, p) ==
  /\ arrays' = [arrays EXCEPT ![p.confs] = @ \o arrays[c.confs], ![c.confs] = @ \o arrays[p.confs]]
  /\ UNCHANGED metrics

(* Both blocks have metrics: the http module pushes the pointers of the    *)
(* block around, the stream module copies, each copy with a `last'.        *)
HttpMerge(c, p) ==
  /\ arrays' = [arrays EXCEPT ![c.confs] = @ \o arrays[p.confs]]
  /\ UNCHANGED metrics

StreamMerge(c, p) ==
  /\ metrics' = metrics \o [i \in DOMAIN arrays[p.confs] |-> metrics[arrays[p.confs][i]]]
  /\ arrays' = [arrays EXCEPT ![c.confs] = @ \o [i \in DOMAIN arrays[p.confs] |-> Len(metrics) + i]]

Merge(b) ==
  /\ phase = "merge" /\ b \in DOMAIN conf \ merged /\ Parent[b] \in merged
  /\ LET c == conf[b]
         p == conf[Parent[b]]
     IN /\ conf' = [conf EXCEPT ![b] = MergeConf(c, p)]
        /\ IF p.confs = Null \/ c.confs = Null THEN UNCHANGED <<arrays, metrics>>
           ELSE IF module = "http" THEN HttpMerge(c, p) ELSE StreamMerge(c, p)
  /\ merged' = merged \cup {b}
  /\ UNCHANGED <<module, phase, cur, servers, now, call, calls, written, made>>

----------------------------------------------------------------------------
(* ngx_http_statshouse_init_complex(): metric by metric, and in it key by  *)
(* key, the variables that `exists' asks for are looked for among those    *)
(* defined and those indexed so far; what is not disabled is compiled, and *)
(* that indexes the variables it refers to.                                *)

(* Slip: `exists' is not looked at. *)
DisabledNever(indexed, m) == FALSE

(* m is a metric or a key. *)
Disabled(indexed, m) == ~(m.exists \subseteq Known \cup indexed)

CompileKey(indexed, key) == IF Disabled(indexed, key) THEN indexed ELSE indexed \cup key.refs

CompileMetric(indexed, m) ==
  IF Disabled(indexed, m) THEN indexed ELSE FoldLeft(CompileKey, indexed \cup m.refs, m.keys)

(* The variables referred to by the metrics ms *)
Indexed(ms) == FoldLeft(CompileMetric, {}, ms)

HttpCompiled ==
  [metrics |-> [i \in DOMAIN metrics |->
                  [metrics[i] EXCEPT !.disable = Disabled(Indexed(SubSeq(metrics, 1, i-1)), metrics[i])]],
   indexed |-> Indexed(metrics)]

(* The stream module compiles what it parses. *)
StreamRefs(m) == m.refs \cup UNION {m.keys[k].refs : k \in DOMAIN m.keys}

StreamCompiled ==
  [metrics |-> metrics,
   indexed |-> UNION {StreamRefs(metrics[i]) : i \in DOMAIN metrics}]

(* Both init functions return early without a server; the http module      *)
(* without a metric, too.  Otherwise they initialise the servers and       *)
(* register the handler.                                                   *)
HttpStarts == servers # <<>> /\ metrics # <<>>

(* Slip: the stream module returns early without a metric, too. *)
StreamStartsLate == servers # <<>> /\ metrics # <<>>

StreamStarts == servers # <<>>

Starts == IF module = "http" THEN HttpStarts ELSE StreamStarts

(* The end of the configuration: a variable that nobody defines, but       *)
(* somebody refers to, ends nginx (ngx_http_variables_init_vars()).        *)
Start ==
  /\ phase = "merge" /\ merged = DOMAIN conf
  /\ LET compiled == IF module = "http" THEN HttpCompiled ELSE StreamCompiled IN
       /\ metrics' = compiled.metrics
       /\ phase' = IF compiled.indexed \subseteq Known THEN "run" ELSE "refused"
  /\ servers' = IF Starts THEN [i \in DOMAIN servers |-> [servers[i] EXCEPT !.ready = TRUE]]
                ELSE servers
  /\ UNCHANGED <<module, cur, conf, arrays, merged, now, call, calls, written, made>>

----------------------------------------------------------------------------
(* Requests and calls of other modules *)

Call == phase = "run" /\ calls < MaxCalls

Return(kind, b, rc, sent) ==
  /\ call' = [kind |-> kind, block |-> b, rc |-> rc, sent |-> sent]
  /\ calls' = calls + 1
  /\ phase' = IF rc = "fault" THEN "dead" ELSE phase
  /\ UNCHANGED <<module, cur, conf, arrays, servers, merged, now, written>>

Quiet == UNCHANGED <<metrics, made>>

(* The memory of the server is used: there is none behind an address that  *)
(* was never set, nor behind the buffers of a server not initialised.      *)
Wild(c) == c.server = Unset \/ ~servers[c.server].ready

TooSoon(m) == m.timeout # 0 /\ m.last # 0 /\ m.last + m.timeout > now

(* The metrics of a block that a call for phase ph gets to *)
Picked(c, ph) == {i \in Range(arrays[c.confs]) :
                    metrics[i].phase = ph /\ ~metrics[i].disable /\ ~TooSoon(metrics[i])}

(* ngx_http_statshouse_send() and ngx_stream_statshouse_send(): the        *)
(* conditions of the request hold or not.  No metric here has a sample.    *)
Send(kind, b, ph, holds) ==
  LET c == conf[b] IN
    /\ Call
    /\ IF c.server = Null \/ c.confs = Null \/ c.enable = 0
         THEN Return(kind, b, "skipped", {}) /\ Quiet
       ELSE IF Wild(c) THEN Return(kind, b, "fault", {}) /\ Quiet
       ELSE LET picked == Picked(c, ph)
                sent   == IF holds THEN {metrics[i].origin : i \in picked} ELSE {}
            IN /\ metrics' = [i \in DOMAIN metrics |->
                                IF i \in picked /\ metrics[i].timeout # 0
                                  THEN [metrics[i] EXCEPT !.last = now] ELSE metrics[i]]
               /\ made' = [x \in DOMAIN made \cup (sent \X {b}) |->
                             IF x \in sent \X {b} THEN now ELSE made[x]]
               /\ Return(kind, b, "sent", sent)

(* The handler in nginx's log phase.  Requests have a block inside. *)
Handler(b, holds) ==
  /\ b \in DOMAIN conf \ {Main} /\ Starts
  /\ Send("request", b, "", holds)

(* Another module calls it with a phase of its own. *)
SendPhase(b, holds) ==
  /\ b \in DOMAIN conf \ {Main}
  /\ Send("phase", b, "start", holds)

(* ngx_http_statshouse_send_http() takes the configuration of the http     *)
(* block, which was merged with nothing.                                   *)
SendHttp(holds) ==
  /\ module = "http"
  /\ Send("http", Main, "start", holds)

(* ngx_http_statshouse_send_stat() and ngx_stream_statshouse_send_stat():  *)
(* a stat that another module made                                         *)
SendStat(b) ==
  /\ b \in DOMAIN conf \ {Main}
  /\ Call
  /\ LET c == conf[b] IN
       Return("stat", b,
              IF c.server = Null \/ c.enable = 0 THEN "skipped" ELSE IF Wild(c) THEN "fault" ELSE "sent",
              {})
  /\ Quiet

Clock ==
  /\ phase = "run" /\ now < MaxTime
  /\ now' = now + 1
  /\ UNCHANGED <<module, phase, cur, conf, arrays, metrics, servers, merged, call, calls, written, made>>

Parse == \/ \E b \in Inner : Open(b)
         \/ Close
         \/ \E d \in ServerArgs : ServerDirective(d)
         \/ \E items \in MetricArgs : MetricDirective(items)
Run == \/ \E b \in Inner, holds \in BOOLEAN : Handler(b, holds) \/ SendPhase(b, holds)
       \/ \E holds \in BOOLEAN : SendHttp(holds)
       \/ \E b \in Inner : SendStat(b)
       \/ Clock

Next == Parse \/ (\E b \in Inner : Merge(b)) \/ Start \/ Run

Spec == Init /\ [][Next]_vars
=============================================================================
