---------------------------- MODULE ConfigProps ----------------------------
(***************************************************************************)
(* What a configuration means, said of the directives as they are written. *)
(***************************************************************************)
EXTENDS Config, FiniteSets

Running == phase \in {"run", "dead"}
Around == Inner \cap DOMAIN conf    \* the blocks that requests have

(* The places in the file of the directives of a kind in block b           *)
Numbered == [i \in DOMAIN written |-> <<i, written[i]>>]

In(b, kind) ==
  FoldLeft(LAMBDA places, d : IF d[2].block = b /\ d[2].kind = kind THEN Append(places, d[1]) ELSE places,
           <<>>, Numbered)

(* The metrics of a block are its own, then those of the block around it.  *)
Effective[b \in {Main} \cup Inner] ==
  In(b, "metric") \o (IF b = Main THEN <<>> ELSE Effective[Parent[b]])

(* The nearest server directive: the last in the block itself, else that   *)
(* of the block around it; none if there is none.                          *)
Nearest[b \in {Main} \cup Inner] ==
  LET own == In(b, "server")
  IN IF own # <<>> THEN Last(own) ELSE IF b = Main THEN Null ELSE Nearest[Parent[b]]

Server(i) == written[i].arg

(* Each block has exactly the metrics of its own and of the blocks around  *)
(* it, in order, each once.  Blocks share arrays, and merging pushes to    *)
(* them: no metric may reach a block beside or around its own.             *)
MetricsInherited ==
  Running => \A b \in Around :
    LET c == conf[b].confs
    IN [i \in 1..(IF c = Null THEN 0 ELSE Len(arrays[c])) |-> metrics[arrays[c][i]].origin]
         = Effective[b]

(* The syntax has `off' in the place of an address and nothing behind it.  *)
SaysOff(d) == d.alone /\ d.addr = "off"

(* Each block sends where the nearest server directive says, with the      *)
(* parameters that it says, or not at all if it says `off'; also where a   *)
(* block has an `off' and a server, and the file first closes the block    *)
(* and then goes on with that around it.  Only flush= may differ: it is    *)
(* that of the first directive of the file with the same parameters.  The  *)
(* code breaks it for a lone address that begins with `off', which it      *)
(* takes for the word.                                                     *)
ServerAsWritten ==
  Running => \A b \in Around :
    LET n == Nearest[b]
        c == conf[b]
        equal == {i \in DOMAIN written : /\ written[i].kind = "server" /\ ~SaysOff(Server(i))
                                         /\ Param(Server(i)) = Param(Server(n))}
    IN CASE n = Null -> c.server = Null
         [] n # Null /\ SaysOff(Server(n)) -> c.enable = 0
         [] OTHER -> /\ c.enable = 1
                     /\ servers[c.server].param = Param(Server(n))
                     /\ servers[c.server].flush =
                          Server(CHOOSE i \in equal : \A j \in equal : i <= j).flush

(* Whether a block has directives of a kind *)
Has(b, kind) == \E i \in DOMAIN written : written[i].block = b /\ written[i].kind = kind

(* A call ends in memory that is not there only if another module sends a  *)
(* stat of its own with a configuration that has no metric at all, or      *)
(* calls ngx_http_statshouse_send_http() where the http block has metrics  *)
(* and no server.  No request does, in any configuration that is accepted. *)
FaultsForCause ==
  call.rc = "fault" =>
    \/ /\ module = "http" /\ call.kind = "stat"
       /\ \A i \in DOMAIN written : written[i].kind = "server"
    \/ call.kind = "http" /\ Has(Main, "metric") /\ ~Has(Main, "server")

(* A variable that nobody defines is referred to only where `exists'       *)
(* asks for it, or for another that is missing.                            *)
Guarded(m) ==
  \/ ~(m.exists \subseteq Known)
  \/ /\ m.refs \subseteq Known
     /\ \A k \in DOMAIN m.keys : m.keys[k].refs \subseteq Known \/ ~(m.keys[k].exists \subseteq Known)

(* One of count, value and unique, and nothing twice that may be there     *)
(* once: no key, no timeout and no phase.                                  *)
WellFormed(items) ==
  /\ \E i \in DOMAIN items : items[i].dir \in Types
  /\ \A i, j \in DOMAIN items :
       i < j =>
         /\ items[i].dir \in Types => items[j].dir \notin Types
         /\ items[i].dir = items[j].dir =>
              /\ items[i].dir \notin {"timeout", "phase"}
              /\ items[i].dir = "key" => items[i].slot # items[j].slot

(* nginx refuses a file only for a metric that is not well-formed, an      *)
(* address or a parameter of a server that cannot be parsed, a second      *)
(* server in a block, or a metric not guarded against a variable that it   *)
(* may miss; whatever the metrics before it refer to, and whatever comes   *)
(* before a server in its own and in other blocks.  One refusal has no     *)
(* such cause and is excepted here: the stream module takes no             *)
(* aggregate_values=, whatever the number.                                 *)
RefusedForCause ==
  phase = "refused" =>
    LET d == written[Len(written)]
        servs == In(d.block, "server")
    IN \/ d.kind = "metric" /\ ~WellFormed(d.arg)
       \/ /\ d.kind = "server"
          /\ \/ ~SaysOff(d.arg) /\ ~d.arg.valid
             \/ \E i \in DOMAIN servs : servs[i] # Len(written) /\ ~SaysOff(Server(servs[i]))
             \/ module = "stream" /\ d.arg.values # Unset
       \/ \E i \in DOMAIN metrics : ~Guarded(metrics[i])

(* The timeout of x[1], a metric that made stats in block x[2], is over.   *)
TimeoutOver(x) == made[x] + Parsed(written[x[1]].arg).timeout <= now

(* Blocks that have the same metrics in memory: in the http module all, in *)
(* the stream module those without a metric of their own.                  *)
Together(a, b) ==
  module = "http" \/ a = b \/ (~Has(a, "metric") /\ ~Has(b, "metric"))

(* The stats of a metric are made its timeout apart in all blocks that     *)
(* share it, though merging has taken it through several arrays.  This is  *)
(* silent on the stream blocks with metrics of their own, which copy those *)
(* around them.                                                            *)
PacedWhereShared ==
  [][calls' # calls =>
       \A x \in DOMAIN made :
         x[1] \in call'.sent /\ Together(x[2], call'.block) => TimeoutOver(x)]_vars

(* The timeout of a metric holds within the worker, in whichever blocks    *)
(* its requests are.  The code breaks it in stream blocks that have        *)
(* metrics of their own: each has a copy of the metric, with its `last'.   *)
PacedWithinWorker ==
  [][calls' # calls => \A x \in DOMAIN made : x[1] \in call'.sent => TimeoutOver(x)]_vars
=============================================================================
