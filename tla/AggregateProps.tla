--------------------------- MODULE AggregateProps ---------------------------
(***************************************************************************)
(* What the aggregator promises.                                           *)
(***************************************************************************)
EXTENDS Aggregate

Record == [off : Nat, size : Nat \ {0}, time : 0..MsecWrap-1, key : Nat,
           series : Series, stats : Seq(Nat \ {0})]
Calls == [pc : {"idle", "process", "loop"}, task : {"none", "timer", "stat"},
          flush : BOOLEAN, handed : BOOLEAN]

(* Every variable has its type.                                            *)
TypeOK ==
  /\ queue \in Seq(Record)
  /\ index \subseteq Nat
  /\ pos \in Nat /\ last \in Nat
  /\ deadline \in {NoTimer} \cup 0..MsecWrap-1
  /\ posted \in BOOLEAN
  /\ now \in 0..MsecWrap-1
  /\ stop \in {"run", "quit", "terminate", "exited"}
  /\ call \in Calls
  /\ seen \in Seq([series : Series, fate : Fates])

(* The blocks handed out by ngx_statshouse_aggregate_alloc() and not yet   *)
(* freed lie inside the arena and share no byte, whatever wraps around:    *)
(* no record is written over another.                                      *)
ArenaSafe == Disjoint(queue) /\ Inside(queue)

(* The arena's two pointers say exactly which part of it is in use.        *)
ArenaTiled == ArenaInv(queue, pos, last)

(* The tree links the queued records with a key and nothing else: no node  *)
(* of freed memory stays in it, and no open record is missing.             *)
OpenOffs(q) == {q[i].off : i \in {j \in DOMAIN q : q[j].key # 0}}
IndexExact == index = OpenOffs(queue)

(* Stats are merged only with stats of their own series.                   *)
SeriesPure ==
  \A i \in DOMAIN queue : \A n \in StatsOf(queue[i]) : seen[n].series = queue[i].series

(* A record of values holds as many as it was allocated for.               *)
ValuesBounded ==
  \A i \in DOMAIN queue : Kind[queue[i].series] # "counter" => Len(queue[i].stats) <= Values

Held == {n \in DOMAIN seen : seen[n].fate = "held"}

(* A stat that was accepted is in one record, once, until that record is   *)
(* handed over; no other stat is in any record.                            *)
Conserved ==
  /\ Held = UNION {StatsOf(queue[i]) : i \in DOMAIN queue}
  /\ \A i, j \in DOMAIN queue : i # j => StatsOf(queue[i]) \cap StatsOf(queue[j]) = {}
  /\ \A i \in DOMAIN queue : Cardinality(StatsOf(queue[i])) = Len(queue[i].stats)

(* No other series has the same hash and the same record size as s.        *)
Alone(s) == \A t \in Series \ {s} : Hash[t] = Hash[s] => RecSize(t) # RecSize(s)

(* Stats of a series leave the aggregator in the order they came, also     *)
(* when full records, records detached for want of space and merges follow *)
(* each other.                                                             *)
SeriesOrder ==
  \A m, n \in DOMAIN seen :
    (m < n /\ seen[m].series = seen[n].series /\ Alone(seen[m].series)) =>
      /\ ~(seen[m].fate = "held" /\ seen[n].fate \in {"handed", "dropped"})
      /\ \A i, j \in DOMAIN queue :
           m \in StatsOf(queue[i]) /\ n \in StatsOf(queue[j]) => i <= j

(* Whenever records wait and no call is under way, the timer event is set  *)
(* or posted: no record is forgotten.                                      *)
TimerCovers == (call.pc = "idle" /\ queue # <<>>) => (posted \/ deadline # NoTimer)

(* No record waits longer than the interval and the loop's delay, also     *)
(* when the clock wraps.                                                   *)
HoldsNoLonger == \A i \in DOMAIN queue : (now - queue[i].time) % MsecWrap <= Interval + MaxLag

(* An aggregator that holds nothing never declines for want of space a     *)
(* record smaller than half the arena, wherever its pointers have come to  *)
(* rest.                                                                   *)
EmptyArenaServes ==
  \A s \in Series :
    (queue = <<>> /\ (Kind[s] = "counter" \/ Values # 0) /\ 2 * RecSize(s) < Size)
      => AllocPtr(pos, last, RecSize(s)) # NoSpace

(* A record leaves before its time only in a worker that stops, and        *)
(* nothing leaves before what is older.                                    *)
LeavesOnTime ==
  [][\A n \in DOMAIN seen :
       (seen[n].fate = "held" /\ seen'[n].fate # "held") =>
         /\ n \in StatsOf(queue[1])
         /\ Stopping \/ Elapsed(queue[1].time) >= Interval]_vars

(* A stat that is held is handed over or dropped at last, unless the       *)
(* process exits, which does not wait for it.                              *)
HeldLeaves == \A n \in Ids : n \in Held ~> (stop = "exited" \/ n \notin Held)
=============================================================================
