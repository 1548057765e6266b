---------------------------- MODULE ServerProps ----------------------------
(***************************************************************************)
(* What the sending half of a server promises.                             *)
(***************************************************************************)
EXTENDS Server

Metric == [stats : SUBSET Nat, size : Nat, time : 0..MsecWrap-1]
ServerType ==
  [buffer : Seq(Metric),
   used : Nat, conn : BOOLEAN, failed : BOOLEAN,
   sent : SUBSET Nat, lost : SUBSET Nat, dropped : SUBSET Nat]

(* Every variable has its type.                                            *)
TypeOK ==
  /\ server \in ServerType
  /\ flushAt \in {NoTimer} \cup 0..MsecWrap-1
  /\ now \in 0..MsecWrap-1
  /\ stop \in {"run", "quit", "terminate", "exited"}
  /\ busy \in BOOLEAN
  /\ puts \in Nat

(* ngx_statshouse_tl_metrics() never writes past the end of the buffer.    *)
BufferFits == server.used <= BufferSize

(* While the worker runs, metrics in the buffer have a timer set for them, *)
(* also after a flush that failed.                                         *)
FlushArmed == (server.used > 0 /\ FlushInterval > 0 /\ ~Stopping) => flushAt # NoTimer

(* Unless a flush failed, no metric stays in the buffer of a running       *)
(* worker for longer than the flush interval and the loop's delay.         *)
WaitsNoLonger ==
  (FlushInterval > 0 /\ ~server.failed /\ stop = "run") =>
    \A i \in DOMAIN server.buffer :
      (now - server.buffer[i].time) % MsecWrap <= FlushInterval + MaxLag

(* A worker that quits has no socket open between calls: it would count as *)
(* a connection still open and be reported at the end.                     *)
NoSocketAfterQuit == stop = "quit" => ~server.conn

(* Every metric put is in the buffer, sent, lost or dropped, and only one  *)
(* of these: none is sent twice, also when a flush is tried again.         *)
AtMostOnce ==
  LET held == StatsIn(server.buffer) IN
    /\ held \cup server.sent \cup server.lost \cup server.dropped = 1..puts
    /\ Cardinality(held) + Cardinality(server.sent) + Cardinality(server.lost)
         + Cardinality(server.dropped) = puts

(* A metric finds no room only if it is larger than the buffer or the      *)
(* flush that would have made room has failed.                             *)
DropsForCause ==
  [][server'.dropped # server.dropped => server'.failed \/ server'.used = 0]_vars
=============================================================================
