----------------------------- MODULE Statshouse -----------------------------
(***************************************************************************)
(* One statshouse server of one worker, from the request that produces     *)
(* stats to the packet: ngx_statshouse_send() and the handlers that call   *)
(* it, with the aggregator (Aggregate) in front of the packet buffer and   *)
(* socket (Server).  A step here is a step of one or both of them.         *)
(***************************************************************************)
EXTENDS Integers, Sequences, FiniteSets

CONSTANTS
  Series, Kind, Hash, KeyBytes, Values, ValueBytes, Size,    \* see Aggregate
  Interval,           \* server->flush, which is aggregate->interval too
  MsecWrap, MaxLag,   \* the clock and the event loop's delay
  BufferSize,         \* server->buffer_size
  MetricBytes,        \* [Series -> Nat], length of a metric without its values
  ValueLen,           \* length of one encoded value
  MaxStats            \* bound: how many stats the requests produce

VARIABLES
  queue, index, pos, last, deadline, posted, call, seen,    \* see Aggregate
  server, flushAt,                                          \* see Server
  now, stop,
  options,   \* the server's configuration, which never changes
  phase,     \* what the event loop runs: "loop" nothing or a timer, "request" a
             \* handler of this module, "module" one of a module that calls it
  sending    \* a stat is on its way to the buffer

aggregator == <<queue, index, pos, last, deadline, posted, call, seen>>
sender == <<server, flushAt>>
vars == <<aggregator, sender, now, stop, options, phase, sending>>

Agg == INSTANCE Aggregate
Srv == INSTANCE Server WITH FlushInterval <- Interval, Sizes <- {}, MaxMetrics <- 0,
                            busy <- phase # "loop" \/ call # Agg!NoCall, puts <- 0

(* What the two parts need of the constants, and of the encoding: a metric *)
(* is never empty.                                                         *)
ASSUME PartsAssumption ==
  /\ Agg!SizeAssumption /\ Agg!SeriesAssumption /\ Agg!TimeAssumption
  /\ Srv!BufferAssumption /\ Srv!ServerTimeAssumption

ASSUME MetricAssumption ==
  /\ MetricBytes \in [Series -> Nat \ {0}]
  /\ ValueLen \in Nat

ASSUME BoundAssumption == MaxStats \in Nat

Nets == Srv!Nets

(* ngx_statshouse_tl_metrics_len() of a record of n values *)
MetricLen(s, n) == MetricBytes[s] + ValueLen * (IF Kind[s] = "counter" THEN 1 ELSE n)

Metric(s, stats, n) == [stats |-> stats, size |-> MetricLen(s, n), time |-> now]

(* The metric of the aggregator's record r *)
RecordMetric(r) == Metric(r.series, Agg!StatsOf(r), Len(r.stats))

----------------------------------------------------------------------------
(* Whether server->aggregate is there, and server->flush_after_request     *)
Options == [aggregate : BOOLEAN, flush_after_request : BOOLEAN]

Init ==
  /\ Agg!Init
  /\ server = Srv!NewServer /\ flushAt = Srv!NoTimer
  /\ options \in Options
  /\ phase = "loop" /\ sending = FALSE

(* A handler of the http or stream module sends some stats and then calls  *)
(* ngx_statshouse_flush_after_request(); one of another module calls       *)
(* ngx_http_statshouse_send_stat() for some and flushes nothing.           *)

Begin(handler) ==
  /\ phase = "loop" /\ Agg!Idle /\ Len(seen) < MaxStats
  /\ phase' = handler
  /\ UNCHANGED <<aggregator, sender, now, stop, options, sending>>

Sends == phase # "loop" /\ ~sending

(* Slip: a stat the aggregator took is put into the buffer too. *)
CollectToo(s) ==
  /\ Sends /\ options.aggregate
  /\ \/ (Agg!Merge(s) \/ Agg!Store(s)) /\ sending' = TRUE
     \/ Agg!NeedSpace(s) /\ UNCHANGED sending
  /\ UNCHANGED <<sender, options, phase>>

(* ngx_statshouse_send() tries the aggregator, *)
Collect(s) ==
  /\ Sends /\ options.aggregate
  /\ Agg!Merge(s) \/ Agg!Store(s) \/ Agg!NeedSpace(s)
  /\ UNCHANGED <<sender, options, phase, sending>>

(* ... and for a stat that is declined, or without an aggregator, *)
Bypass(s) ==
  /\ Sends
  /\ IF options.aggregate
       THEN Agg!Refuse(s)
       ELSE /\ Agg!Offered
            /\ Agg!See(s, "declined")
            /\ UNCHANGED <<queue, index, pos, last, deadline, posted, now, stop, call>>
  /\ sending' = TRUE
  /\ UNCHANGED <<sender, options, phase>>

(* ... calls ngx_statshouse_send_to_buffer(). *)
SendToBuffer(net) ==
  /\ sending /\ stop # "exited"
  /\ Srv!Put(Metric(seen[Len(seen)].series, {Len(seen)}, 1), net)
  /\ sending' = FALSE
  /\ UNCHANGED <<aggregator, now, stop, options, phase>>

End == Agg!Idle /\ ~sending /\ phase' = "loop" /\ UNCHANGED <<aggregator, now, stop, options, sending>>

(* Slip: the end of the request does not flush. *)
EndRequestSilent(net) == phase = "request" /\ End /\ net = "sent" /\ UNCHANGED sender

EndRequest(net) ==
  /\ phase = "request" /\ End
  /\ IF options.flush_after_request THEN Srv!Flush(net) ELSE UNCHANGED sender

EndModule == phase = "module" /\ End /\ UNCHANGED sender

----------------------------------------------------------------------------
(* ngx_statshouse_aggregate_process() with the server's                    *)
(* ngx_statshouse_aggregate_handler()                                      *)

Enter == Agg!Enter /\ UNCHANGED <<sender, options, phase, sending>>

(* handler(stat): the record is put into the buffer. *)
HandOver(net) ==
  /\ call.pc = "loop" /\ Agg!Due
  /\ Agg!HandOver(Srv!PutRc(server, RecordMetric(queue[1]), net))
  /\ Srv!Put(RecordMetric(queue[1]), net)
  /\ UNCHANGED <<options, phase, sending>>

(* Slip: no flush follows the records. *)
FlushHandedNot(net) == UNCHANGED sender

(* handler(NULL), if any record was: the buffer is flushed. *)
FlushHanded(net) == IF call.handed THEN Srv!Flush(net) ELSE UNCHANGED sender
HandedRc(net) == IF call.handed THEN Srv!FlushRc(server, net) ELSE "declined"

EndTimer(net) ==
  /\ FlushHanded(net)
  /\ Agg!EndTimer(HandedRc(net))
  /\ UNCHANGED <<options, phase, sending>>

(* A stat that found no space goes to the buffer after all; one whose flush *)
(* failed goes nowhere.                                                     *)
EndStat(net) ==
  /\ FlushHanded(net)
  /\ \/ Agg!EndStored(HandedRc(net)) /\ UNCHANGED sending
     \/ Agg!EndDeclined(HandedRc(net)) /\ sending' = TRUE
     \/ Agg!EndFailed(HandedRc(net)) /\ UNCHANGED sending
  /\ UNCHANGED <<options, phase>>

----------------------------------------------------------------------------
(* The event loop *)

AggregateTimer ==
  /\ phase = "loop"
  /\ Agg!TimerRuns
  /\ UNCHANGED <<sender, options, phase, sending>>

FlushTimer(net) ==
  /\ phase = "loop" /\ Agg!Idle
  /\ Srv!FlushTimer(net)
  /\ UNCHANGED <<aggregator, now, stop, options, phase, sending>>

Tick ==
  /\ phase = "loop"
  /\ Agg!Tick
  /\ Srv!Expired => Srv!Elapsed(flushAt) < MaxLag
  /\ UNCHANGED <<sender, options, phase, sending>>

Quit == phase = "loop" /\ Agg!Quit /\ Srv!CloseIdle /\ UNCHANGED <<flushAt, options, phase, sending>>
Terminate == Agg!Terminate /\ UNCHANGED <<sender, options, phase, sending>>
Exit == phase = "loop" /\ Agg!Exit /\ UNCHANGED <<sender, options, phase, sending>>

Call == \/ Enter \/ EndModule
        \/ \E net \in Nets : \/ SendToBuffer(net) \/ EndRequest(net)
                             \/ HandOver(net) \/ EndTimer(net) \/ EndStat(net)

Next ==
  \/ \E handler \in {"request", "module"} : Begin(handler)
  \/ \E s \in Series : Collect(s) \/ Bypass(s)
  \/ Call
  \/ AggregateTimer \/ \E net \in Nets : FlushTimer(net)
  \/ Tick \/ Quit \/ Terminate \/ Exit

(* Calls return; each turn of the event loop reads the clock and runs the  *)
(* timers that have expired; a network that is tried again and again works *)
(* at last.                                                                *)
Fairness ==
  /\ WF_vars(Call) /\ SF_vars(AggregateTimer) /\ SF_vars(Tick)
  /\ SF_vars(FlushTimer("sent"))

Spec == Init /\ [][Next]_vars
FairSpec == Spec /\ Fairness
=============================================================================
