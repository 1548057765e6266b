-------------------------- MODULE StatshouseProps --------------------------
(***************************************************************************)
(* What the module promises of the stats its requests produce.             *)
(***************************************************************************)
EXTENDS Statshouse

(* Every variable has its type.                                            *)
TypeOK ==
  /\ queue \in Seq([off : Nat, size : Nat, time : 0..MsecWrap-1, key : Nat,
                    series : Series, stats : Seq(Nat \ {0})])
  /\ seen \in Seq([series : Series, fate : Agg!Fates])
  /\ server.buffer \in Seq([stats : SUBSET Nat, size : Nat, time : 0..MsecWrap-1])
  /\ {deadline, flushAt} \subseteq {Agg!NoTimer} \cup 0..MsecWrap-1
  /\ options \in Options
  /\ phase \in {"loop", "request", "module"} /\ sending \in BOOLEAN

Fate(f) == {n \in DOMAIN seen : seen[n].fate \in f}

(* The stats with the aggregator, between it and the buffer, or in the     *)
(* buffer: inside the worker, or left in it when the process exited.       *)
InFlight == IF sending THEN {Len(seen)} ELSE {}
Buffered == Srv!StatsIn(server.buffer)
Within == Fate({"held", "pending"}) \cup InFlight \cup Buffered
Inside == IF stop = "exited" THEN {} ELSE Within
Left == IF stop = "exited" THEN Within ELSE {}
Lost == Fate({"lost"}) \cup server.lost \cup server.dropped \cup Left

(* A stat is in one place only: in the aggregator, on its way, in the      *)
(* buffer, sent, lost by a flush or dropped.  What the aggregator handed   *)
(* over and what it declined has reached the buffer.                       *)
ExactlyOnce ==
  LET passed == Fate({"handed", "declined"}) \ InFlight
      outcomes == <<Buffered, server.sent, server.lost>>
  IN /\ (UNION {outcomes[i] : i \in 1..3}) \cup server.dropped = passed \cup Fate({"dropped"})
     /\ Fate({"dropped"}) \subseteq server.dropped
     /\ \A i, j \in 1..3 : i # j => outcomes[i] \cap outcomes[j] = {}
     /\ \A i \in 1..3 : outcomes[i] \cap server.dropped = {}
     /\ Fate({"held"}) = UNION {Agg!StatsOf(queue[i]) : i \in DOMAIN queue}

(* Between handlers, unless a flush has failed, only stats that were not   *)
(* aggregated wait in the buffer: aggregated stats leave in the call in    *)
(* which their time is up, or in which space was needed.                   *)
FlushedAtOnce ==
  (phase = "loop" /\ Agg!Idle /\ ~server.failed) => Buffered \subseteq Fate({"declined"})

(* The metric that a stat would be put into the buffer with is longer than *)
(* the whole buffer.                                                       *)
TooLong(n) ==
  \/ n \in InFlight /\ MetricLen(seen[n].series, 1) > BufferSize
  \/ \E i \in DOMAIN queue :
       n \in Agg!StatsOf(queue[i]) /\ RecordMetric(queue[i]).size > BufferSize

(* A stat is lost for one of four reasons only: it is in the buffer when   *)
(* send() would block, it still has to get there when the flush that was   *)
(* to make room for it fails, its metric is too long, or it is inside when *)
(* the process exits.  A full arena, a full buffer, a worker that begins   *)
(* to stop lose none, nor does a failed flush what is in the buffer.       *)
LostForCause ==
  [][\A n \in Lost' \ Lost :
       \/ n \in Buffered /\ n \in server'.lost
       \/ n \notin Buffered /\ server'.failed
       \/ n \in server'.dropped /\ TooLong(n)
       \/ n \in Left']_vars

(* When a request's handler is done with flush_after_request and the flush *)
(* has not failed, whatever is still inside is held by the aggregator.     *)
SentOrHeld ==
  [][(options.flush_after_request /\ phase = "request" /\ phase' = "loop" /\ ~server'.failed)
       => Inside' \subseteq IF options.aggregate THEN Fate({"held"})' ELSE {}]_vars

(* The worker delivers each stat at most once.                             *)
Deliver == INSTANCE Delivery WITH Stats <- 1..MaxStats, held <- Inside,
                                  sent <- server.sent, lost <- Lost
DeliverySpec == Deliver!Spec

(* With flush_after_request, all stats of a request have left the worker   *)
(* when its handler is done, if the packets could be sent.                 *)
SentAfterRequest ==
  [][(options.flush_after_request /\ phase = "request" /\ phase' = "loop" /\ ~server'.failed)
       => Inside' = {}]_vars

(* A stat leaves the worker, unless the worker is stopped first.           *)
StatLeaves == \A n \in 1..MaxStats : n \in Inside ~> (stop # "run" \/ n \notin Inside)
=============================================================================
