----------------------------- MODULE Aggregate -----------------------------
(***************************************************************************)
(* The aggregator of one worker (src/ngx_statshouse_aggregate.c).          *)
(*                                                                         *)
(* ngx_statshouse_aggregate() collects stats of one series in one record   *)
(* of the arena; ngx_statshouse_aggregate_process() hands the records that *)
(* are old enough, oldest first, to the server's handler; the timer event  *)
(* calls it.  The worker has one thread: a stat is offered, or a timer     *)
(* runs, only when no call is under way.  A call that reaches              *)
(* ngx_statshouse_aggregate_process() takes several steps here, one for    *)
(* each record handed over, because a signal handler may set ngx_terminate *)
(* between any two of them.                                                *)
(*                                                                         *)
(* Two stats are of one series when name, keys and type are the same.      *)
(* Hash, KeyBytes and Kind say what the code computes from a series.       *)
(***************************************************************************)
EXTENDS Arena, FiniteSets

CONSTANTS
  Series,      \* the series the requests produce stats of
  Kind,        \* [Series -> Kinds], stat->type
  Hash,        \* [Series -> Nat], the crc32 of name and keys
  KeyBytes,    \* [Series -> Nat], the record's fixed part and its key values
  Values,      \* aggregate->values, the values one record has room for
  ValueBytes,  \* sizeof(ngx_statshouse_stat_value_t)
  Interval,    \* aggregate->interval
  MsecWrap,    \* ngx_msec_t counts modulo MsecWrap
  MaxLag,      \* how late the event loop may run a timer
  MaxStats     \* bound: how many stats are offered

Kinds == {"counter", "value", "unique"}

ASSUME SeriesAssumption ==
  /\ Kind \in [Series -> Kinds]
  /\ Hash \in [Series -> Nat \ {0}]    \* 0 marks a record out of the tree
  /\ KeyBytes \in [Series -> Nat \ {0}]
  /\ Values \in Nat
  /\ ValueBytes \in Nat

ASSUME TimeAssumption ==
  /\ Interval \in Nat
  /\ MaxLag \in Nat
  /\ MsecWrap \in Nat
  /\ 2 * (Interval + MaxLag) < MsecWrap

VARIABLES
  queue,     \* the records, oldest first
  index,     \* the offsets of the records linked into the rbtree
  pos,       \* alloc.pos
  last,      \* alloc.last
  deadline,  \* when timer_event expires, NoTimer if it is not set
  posted,    \* timer_event.posted
  now,       \* ngx_current_msec
  stop,      \* "run", "quit" (ngx_exiting), "terminate", or the process is gone
  call,      \* the call of ngx_statshouse_aggregate_process() under way
  seen       \* history: the stats offered, by number, and where each one is

vars == <<queue, index, pos, last, deadline, posted, now, stop, call, seen>>

NoTimer == -1
NoCall == [pc |-> "idle", task |-> "none", flush |-> FALSE, handed |-> FALSE]

Fates == {"pending", "held", "handed", "dropped", "declined", "lost"}
ReturnCodes == {"ok", "declined", "error"}

Ids == 1..MaxStats

----------------------------------------------------------------------------
RecSize(s) ==
  KeyBytes[s] + (IF Kind[s] = "counter" THEN 0 ELSE ValueBytes * (Values - 1))

(* Slip: the difference of two times is signed. *)
ElapsedSigned(t) == now - t

(* now - t in unsigned arithmetic *)
Elapsed(t) == (now - t) % MsecWrap

(* ngx_event_expire_timers() compares signed differences *)
Expired == deadline # NoTimer /\ 2 * Elapsed(deadline) < MsecWrap

Idle == call = NoCall /\ stop # "exited"

Stopping == stop # "run"

(* ngx_statshouse_aggregate_lookup(): the positions of the records it may  *)
(* return, 0 for NULL.  It follows key and size down the tree; among       *)
(* records that tie on both but differ in type it may turn the wrong way   *)
(* and miss the one it looks for.                                          *)
Tie(s) == {i \in DOMAIN queue : /\ queue[i].off \in index
                                /\ queue[i].key = Hash[s]
                                /\ queue[i].size = RecSize(s)}
(* Slip: the type is not compared. *)
OfKindAny(s, I) == I

OfKind(s, I) == {i \in I : Kind[queue[i].series] = Kind[s]}

Lookup(s) ==
  OfKind(s, Tie(s)) \cup (IF OfKind(s, Tie(s)) = Tie(s) /\ Tie(s) # {} THEN {} ELSE {0})

(* Slip: off by one. *)
HasRoomPlusOne(r) == Kind[r.series] = "counter" \/ Len(r.stats) <= Values

(* values_count < values; a counter is added up and always has room *)
HasRoom(r) == Kind[r.series] = "counter" \/ Len(r.stats) < Values

(* Slips: the full record leaves the queue, or stays in the tree. *)
DetachUnqueued(i) == IF i = 0 THEN queue ELSE SubSeq(queue, 1, i-1) \o SubSeq(queue, i+1, Len(queue))
DetachIndexKept(i) == index

(* A full record leaves the tree before a new one is opened. *)
Detach(i) == [j \in DOMAIN queue |-> IF j = i THEN [queue[j] EXCEPT !.key = 0] ELSE queue[j]]
DetachIndex(i) == IF i = 0 THEN index ELSE index \ {queue[i].off}

(* Slips: the sum of times does not wrap; nothing is posted when the time  *)
(* is already up.                                                          *)
ArmTimerUnwrapped(q) ==
  IF deadline # NoTimer \/ posted \/ q = <<>> \/ Elapsed(q[1].time) >= Interval
    THEN UNCHANGED <<deadline, posted>>
    ELSE /\ deadline' = now + Interval - Elapsed(q[1].time)
         /\ UNCHANGED posted

ArmTimerUnposted(q) ==
  IF deadline # NoTimer \/ posted \/ q = <<>> \/ Elapsed(q[1].time) >= Interval
    THEN UNCHANGED <<deadline, posted>>
    ELSE /\ deadline' = (now + Interval - Elapsed(q[1].time)) % MsecWrap
         /\ UNCHANGED posted

(* ngx_statshouse_aggregate_timer() with the queue q *)
ArmTimer(q) ==
  IF deadline # NoTimer \/ posted \/ q = <<>>
    THEN UNCHANGED <<deadline, posted>>
    ELSE IF Elapsed(q[1].time) >= Interval
      THEN posted' = TRUE /\ UNCHANGED deadline
      ELSE /\ deadline' = (now + Interval - Elapsed(q[1].time)) % MsecWrap
           /\ UNCHANGED posted

Fate(I, f) == [i \in DOMAIN seen |-> IF i \in I THEN [seen[i] EXCEPT !.fate = f] ELSE seen[i]]
StatsOf(r) == {r.stats[i] : i \in DOMAIN r.stats}

(* Slip: the new record goes to the head of the queue. *)
PlaceFirst(s, id, q, idx) ==
  LET off == AllocPtr(pos, last, RecSize(s)) IN
    /\ off # NoSpace
    /\ queue' = <<[off |-> off, size |-> RecSize(s), time |-> now, key |-> Hash[s],
                   series |-> s, stats |-> <<id>>]>> \o q
    /\ index' = idx \cup {off}
    /\ pos' = off + RecSize(s)
    /\ ArmTimer(queue')
    /\ UNCHANGED last

(* The new record is filled in, linked and the timer set: the queue and    *)
(* the tree without it are q and idx.                                      *)
Place(s, id, q, idx) ==
  LET off == AllocPtr(pos, last, RecSize(s)) IN
    /\ off # NoSpace
    /\ queue' = Append(q, [off |-> off, size |-> RecSize(s), time |-> now, key |-> Hash[s],
                           series |-> s, stats |-> <<id>>])
    /\ index' = idx \cup {off}
    /\ pos' = off + RecSize(s)
    /\ ArmTimer(queue')
    /\ UNCHANGED last

----------------------------------------------------------------------------
Init ==
  /\ queue = <<>> /\ index = {}
  /\ pos = 0 /\ last = 0
  /\ deadline = NoTimer /\ posted = FALSE
  /\ now \in 0..MsecWrap-1
  /\ stop = "run" /\ call = NoCall
  /\ seen = <<>>

(* ngx_statshouse_aggregate() *)

Offered == Idle /\ Len(seen) < MaxStats

Accepts(s) == (Kind[s] = "counter" \/ Values # 0) /\ ~Stopping

New == Len(seen) + 1
See(s, f) == seen' = Append(seen, [series |-> s, fate |-> f])

(* Without room for values, or in a worker that stops, stats are declined. *)
Refuse(s) ==
  /\ Offered /\ ~Accepts(s)
  /\ See(s, "declined")
  /\ UNCHANGED <<queue, index, pos, last, deadline, posted, now, stop, call>>

(* What each of them does with the record that the lookup found at         *)
(* position i, 0 for none                                                  *)
MergeAt(s, i) ==
  /\ Offered /\ Accepts(s)
  /\ i # 0 /\ HasRoom(queue[i])
  /\ queue' = [queue EXCEPT ![i].stats = Append(@, New)]
  /\ See(s, "held")
  /\ UNCHANGED <<index, pos, last, deadline, posted, now, stop, call>>

Merge(s) == \E i \in Lookup(s) : MergeAt(s, i)

StoreAt(s, i) ==
  /\ Offered /\ Accepts(s)
  /\ i # 0 => ~HasRoom(queue[i])
  /\ Place(s, New, Detach(i), DetachIndex(i))
  /\ See(s, "held")
  /\ UNCHANGED <<now, stop, call>>

Store(s) == \E i \in Lookup(s) : StoreAt(s, i)

(* The arena is full: process() is called to make space. *)
NeedSpaceAt(s, i) ==
  /\ Offered /\ Accepts(s)
  /\ AllocPtr(pos, last, RecSize(s)) = NoSpace
  /\ i # 0 => ~HasRoom(queue[i])
  /\ queue' = Detach(i)
  /\ index' = DetachIndex(i)
  /\ See(s, "pending")
  /\ call' = [NoCall EXCEPT !.pc = "process", !.task = "stat"]
  /\ UNCHANGED <<pos, last, deadline, posted, now, stop>>

NeedSpace(s) == \E i \in Lookup(s) : NeedSpaceAt(s, i)

----------------------------------------------------------------------------
(* ngx_statshouse_aggregate_process() *)

Enter ==
  /\ call.pc = "process" /\ stop # "exited"
  /\ call' = [call EXCEPT !.pc = "loop", !.flush = Stopping]
  /\ UNCHANGED <<queue, index, pos, last, deadline, posted, now, stop, seen>>

(* Slip: the age of the record is not looked at. *)
DueAlways == queue # <<>>

Due ==
  /\ queue # <<>>
  /\ call.flush \/ Elapsed(queue[1].time) >= Interval

(* One turn of the loop; the handler answered rc.  Whatever it answered,   *)
(* the record is gone.                                                     *)
HandOver(rc) ==
  /\ call.pc = "loop" /\ stop # "exited" /\ Due
  /\ LET r == queue[1] IN
       /\ queue' = Tail(queue)
       /\ index' = IF r.key # 0 THEN index \ {r.off} ELSE index
       /\ last' = FreeLast(last, r.off, r.size)
       /\ seen' = Fate(StatsOf(r), IF rc = "ok" THEN "handed" ELSE "dropped")
  /\ call' = [call EXCEPT !.handed = @ \/ rc = "ok"]
  /\ UNCHANGED <<pos, deadline, posted, now, stop>>

(* The loop is over and process() returns rc: NGX_DECLINED if nothing was  *)
(* handed over, what handler(NULL) answers otherwise.                      *)
Returns(rc) ==
  /\ call.pc = "loop" /\ stop # "exited" /\ ~Due
  /\ ~call.handed => rc = "declined"

(* Slip: the timer is not set again. *)
EndTimerOnce(rc) ==
  /\ Returns(rc) /\ call.task = "timer"
  /\ call' = NoCall
  /\ UNCHANGED <<queue, index, pos, last, deadline, posted, now, stop, seen>>

(* ... to the timer handler, which sets the timer again. *)
EndTimer(rc) ==
  /\ Returns(rc) /\ call.task = "timer"
  /\ ArmTimer(queue)
  /\ call' = NoCall
  /\ UNCHANGED <<queue, index, pos, last, now, stop, seen>>

(* ... to ngx_statshouse_aggregate(), which tries the arena again, *)
EndStored(rc) ==
  /\ Returns(rc) /\ call.task = "stat" /\ rc = "ok"
  /\ Place(seen[Len(seen)].series, Len(seen), queue, index)
  /\ seen' = Fate({Len(seen)}, "held")
  /\ call' = NoCall
  /\ UNCHANGED <<now, stop>>

(* ... or gives the stat back to its caller, still without space for it, *)
EndDeclined(rc) ==
  /\ Returns(rc) /\ call.task = "stat"
  /\ \/ rc = "declined"
     \/ rc = "ok" /\ AllocPtr(pos, last, RecSize(seen[Len(seen)].series)) = NoSpace
  /\ seen' = Fate({Len(seen)}, "declined")
  /\ call' = NoCall
  /\ UNCHANGED <<queue, index, pos, last, deadline, posted, now, stop>>

(* ... or returns the error, for which the caller drops the stat. *)
EndFailed(rc) ==
  /\ Returns(rc) /\ call.task = "stat" /\ rc = "error"
  /\ seen' = Fate({Len(seen)}, "lost")
  /\ call' = NoCall
  /\ UNCHANGED <<queue, index, pos, last, deadline, posted, now, stop>>

----------------------------------------------------------------------------
(* The event loop of the worker *)

(* The loop calls ngx_statshouse_aggregate_timer_handler(): first when the  *)
(* timer expires, then when the event is posted.                           *)
TimerRuns ==
  /\ Idle /\ (Expired \/ posted)
  /\ deadline' = (IF Expired THEN NoTimer ELSE deadline)
  /\ posted' = (posted /\ Expired)
  /\ call' = [NoCall EXCEPT !.pc = "process", !.task = "timer"]
  /\ UNCHANGED <<queue, index, pos, last, now, stop, seen>>

(* ngx_time_update(), once a turn of the loop: posted events have run, and *)
(* no timer waits for longer than MaxLag.                                  *)
Tick ==
  /\ Idle /\ ~posted
  /\ Expired => Elapsed(deadline) < MaxLag
  /\ now' = (now + 1) % MsecWrap
  /\ UNCHANGED <<queue, index, pos, last, deadline, posted, stop, call, seen>>

(* ngx_exiting is set by the loop, ngx_terminate by the signal handler. *)
Quit ==
  /\ Idle /\ stop = "run"
  /\ stop' = "quit"
  /\ UNCHANGED <<queue, index, pos, last, deadline, posted, now, call, seen>>

Terminate ==
  /\ stop \in {"run", "quit"}
  /\ stop' = "terminate"
  /\ UNCHANGED <<queue, index, pos, last, deadline, posted, now, call, seen>>

(* The timer is cancelable: the process does not wait for it. *)
Exit ==
  /\ Idle /\ Stopping
  /\ stop' = "exited"
  /\ UNCHANGED <<queue, index, pos, last, deadline, posted, now, call, seen>>

Request == \E s \in Series : Refuse(s) \/ Merge(s) \/ Store(s) \/ NeedSpace(s)
Process ==
  \/ Enter
  \/ \E rc \in {"ok", "declined"} : HandOver(rc)
  \/ \E rc \in ReturnCodes : EndTimer(rc) \/ EndStored(rc) \/ EndDeclined(rc) \/ EndFailed(rc)
Loop == TimerRuns \/ Tick
Signal == Quit \/ Terminate \/ Exit

Next == Request \/ Process \/ Loop \/ Signal

(* The worker does not stop in the middle of a call, runs its events and   *)
(* time goes on.                                                           *)
Fairness == WF_vars(Process) /\ WF_vars(TimerRuns) /\ WF_vars(Tick)

Spec == Init /\ [][Next]_vars
FairSpec == Spec /\ Fairness
=============================================================================
