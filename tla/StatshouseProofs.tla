--------------------------- MODULE StatshouseProofs ---------------------------
(***************************************************************************)
(* The aggregator and the sending half of a server together, for every set *)
(* of series, all sizes and options, and however the flushes end: each     *)
(* stat is in one place, none is lost without a cause, and the worker does *)
(* what Delivery says.                                                     *)
(*                                                                         *)
(* AggP and SrvP are the two parts with the facts proved about them.       *)
(***************************************************************************)
EXTENDS StatshouseProps, TLAPS

AggP == INSTANCE AggregateProofs
SrvP == INSTANCE ServerProofs WITH FlushInterval <- Interval, Sizes <- {}, MaxMetrics <- 0,
                                   busy <- phase # "loop" \/ call # Agg!NoCall, puts <- 0

----------------------------------------------------------------------------
(* The steps of the parts are those that the facts are about.              *)

LEMMA MergeIs == ASSUME NEW s, Agg!Merge(s) PROVE AggP!Merge(s)
BY DEF Agg!Merge, Agg!MergeAt, Agg!Offered, Agg!Idle, Agg!NoCall, Agg!Accepts, Agg!Stopping,
       Agg!Lookup, Agg!OfKind, Agg!Tie, Agg!RecSize, Agg!HasRoom, Agg!See, Agg!New,
       AggP!Merge, AggP!MergeAt, AggP!Offered, AggP!Idle, AggP!NoCall, AggP!Accepts, AggP!Stopping,
       AggP!Lookup, AggP!OfKind, AggP!Tie, AggP!RecSize, AggP!HasRoom, AggP!See, AggP!New

LEMMA StoreIs == ASSUME NEW s, Agg!Store(s) PROVE AggP!Store(s)
BY DEF Agg!Store, Agg!StoreAt, Agg!Offered, Agg!Idle, Agg!NoCall, Agg!Accepts, Agg!Stopping,
       Agg!Lookup, Agg!OfKind, Agg!Tie, Agg!RecSize, Agg!HasRoom, Agg!See, Agg!New,
       Agg!Place, Agg!Detach, Agg!DetachIndex, Agg!AllocPtr, Agg!NoSpace, Agg!ArmTimer,
       Agg!Elapsed, Agg!NoTimer,
       AggP!Store, AggP!StoreAt, AggP!Offered, AggP!Idle, AggP!NoCall, AggP!Accepts, AggP!Stopping,
       AggP!Lookup, AggP!OfKind, AggP!Tie, AggP!RecSize, AggP!HasRoom, AggP!See, AggP!New,
       AggP!Place, AggP!Detach, AggP!DetachIndex, AggP!AllocPtr, AggP!NoSpace, AggP!ArmTimer,
       AggP!Elapsed, AggP!NoTimer

LEMMA NeedSpaceIs == ASSUME NEW s, Agg!NeedSpace(s) PROVE AggP!NeedSpace(s)
BY DEF Agg!NeedSpace, Agg!NeedSpaceAt, Agg!Offered, Agg!Idle, Agg!NoCall, Agg!Accepts, Agg!Stopping,
       Agg!Lookup, Agg!OfKind, Agg!Tie, Agg!RecSize, Agg!HasRoom, Agg!See, Agg!New,
       Agg!Detach, Agg!DetachIndex, Agg!AllocPtr, Agg!NoSpace,
       AggP!NeedSpace, AggP!NeedSpaceAt, AggP!Offered, AggP!Idle, AggP!NoCall, AggP!Accepts,
       AggP!Stopping, AggP!Lookup, AggP!OfKind, AggP!Tie, AggP!RecSize, AggP!HasRoom, AggP!See,
       AggP!New, AggP!Detach, AggP!DetachIndex, AggP!AllocPtr, AggP!NoSpace

(* With an aggregator that refuses or without one, a stat is declined.     *)
LEMMA BypassIs == ASSUME NEW s, Bypass(s) PROVE AggP!Decline(s)
BY DEF Bypass, Agg!Refuse, Agg!Offered, Agg!Idle, Agg!NoCall, Agg!See,
       AggP!Decline, AggP!Offered, AggP!Idle, AggP!NoCall, AggP!See

LEMMA EnterIs == ASSUME Agg!Enter PROVE AggP!Enter
BY DEF Agg!Enter, Agg!Stopping, AggP!Enter, AggP!Stopping

LEMMA HandOverIs == ASSUME NEW rc, Agg!HandOver(rc) PROVE AggP!HandOver(rc)
BY DEF Agg!HandOver, Agg!Due, Agg!Elapsed, Agg!FreeLast, Agg!Fate, Agg!StatsOf,
       AggP!HandOver, AggP!Due, AggP!Elapsed, AggP!FreeLast, AggP!Fate, AggP!StatsOf

LEMMA EndTimerIs == ASSUME NEW rc, Agg!EndTimer(rc) PROVE AggP!EndTimer(rc)
BY DEF Agg!EndTimer, Agg!Returns, Agg!Due, Agg!Elapsed, Agg!ArmTimer, Agg!NoTimer, Agg!NoCall,
       AggP!EndTimer, AggP!Returns, AggP!Due, AggP!Elapsed, AggP!ArmTimer, AggP!NoTimer, AggP!NoCall

LEMMA EndStoredIs == ASSUME NEW rc, Agg!EndStored(rc) PROVE AggP!EndStored(rc)
BY DEF Agg!EndStored, Agg!Returns, Agg!Due, Agg!Elapsed, Agg!ArmTimer, Agg!NoTimer, Agg!NoCall,
       Agg!Place, Agg!AllocPtr, Agg!NoSpace, Agg!RecSize, Agg!Fate,
       AggP!EndStored, AggP!Returns, AggP!Due, AggP!Elapsed, AggP!ArmTimer, AggP!NoTimer, AggP!NoCall,
       AggP!Place, AggP!AllocPtr, AggP!NoSpace, AggP!RecSize, AggP!Fate

LEMMA EndDeclinedIs == ASSUME NEW rc, Agg!EndDeclined(rc) PROVE AggP!EndDeclined(rc)
BY DEF Agg!EndDeclined, Agg!Returns, Agg!Due, Agg!Elapsed, Agg!NoCall,
       Agg!AllocPtr, Agg!NoSpace, Agg!RecSize, Agg!Fate,
       AggP!EndDeclined, AggP!Returns, AggP!Due, AggP!Elapsed, AggP!NoCall,
       AggP!AllocPtr, AggP!NoSpace, AggP!RecSize, AggP!Fate

LEMMA EndFailedIs == ASSUME NEW rc, Agg!EndFailed(rc) PROVE AggP!EndFailed(rc)
BY DEF Agg!EndFailed, Agg!Returns, Agg!Due, Agg!Elapsed, Agg!NoCall, Agg!Fate,
       AggP!EndFailed, AggP!Returns, AggP!Due, AggP!Elapsed, AggP!NoCall, AggP!Fate

LEMMA LoopIs == ASSUME Agg!TimerRuns \/ Agg!Tick PROVE AggP!Loop
BY DEF Agg!TimerRuns, Agg!Tick, Agg!Idle, Agg!NoCall, Agg!Expired, Agg!Elapsed, Agg!NoTimer,
       AggP!Loop, AggP!TimerRuns, AggP!Tick, AggP!Idle, AggP!NoCall, AggP!Expired, AggP!Elapsed,
       AggP!NoTimer

LEMMA SignalIs == ASSUME Agg!Quit \/ Agg!Terminate \/ Agg!Exit PROVE AggP!Signal
BY DEF Agg!Quit, Agg!Terminate, Agg!Exit, Agg!Idle, Agg!NoCall, Agg!Stopping,
       AggP!Signal, AggP!Quit, AggP!Terminate, AggP!Exit, AggP!Idle, AggP!NoCall, AggP!Stopping

LEMMA PutIs ==
  ASSUME NEW m, NEW net
  PROVE  /\ Srv!PutRc(server, m, net) = SrvP!PutRc(server, m, net)
         /\ Srv!Put(m, net) =>
              /\ server' = SrvP!Filled(server, m, net)
              /\ flushAt' \in {flushAt, SrvP!Armed(server', flushAt)}
BY DEF Srv!PutRc, Srv!Put, Srv!Filled, Srv!Room, Srv!Fits, Srv!Flushed, Srv!Emptied, Srv!Stopping,
       Srv!StatsIn, Srv!Armed, Srv!NoTimer,
       SrvP!PutRc, SrvP!Filled, SrvP!Room, SrvP!Fits, SrvP!Flushed, SrvP!Emptied, SrvP!Stopping,
       SrvP!StatsIn, SrvP!Armed, SrvP!NoTimer

LEMMA FlushIs ==
  ASSUME NEW net
  PROVE  /\ Srv!Flush(net) => server' = SrvP!Flushed(server, net) /\ flushAt' = flushAt
         /\ Srv!FlushTimer(net) =>
              server' = SrvP!Flushed(server, net) /\ flushAt' = SrvP!Armed(server', SrvP!NoTimer)
         /\ Srv!FlushRc(server, net) \in {"ok", "declined", "error"}
BY DEF Srv!Flush, Srv!FlushTimer, Srv!FlushRc, Srv!Flushed, Srv!Emptied, Srv!Stopping, Srv!StatsIn,
       Srv!Armed, Srv!NoTimer,
       SrvP!Flushed, SrvP!Emptied, SrvP!Stopping, SrvP!StatsIn, SrvP!Armed, SrvP!NoTimer

(* Each step is one of the aggregator, or declines a stat.                 *)
LEMMA AggregatorStep ==
  ASSUME Next
  PROVE  AggP!Next \/ (UNCHANGED aggregator /\ now' = now /\ stop' = stop)
           \/ \E s \in Series : AggP!Decline(s)
<1>1. CASE \/ EndModule \/ \E handler \in {"request", "module"} : Begin(handler)
           \/ \E net \in Nets : SendToBuffer(net) \/ EndRequest(net) \/ FlushTimer(net)
  BY <1>1 DEF Begin, EndModule, End, SendToBuffer, EndRequest, FlushTimer
<1>2. ASSUME NEW s \in Series, Collect(s) PROVE AggP!Next
  BY <1>2, MergeIs, StoreIs, NeedSpaceIs DEF Collect, AggP!Next, AggP!Request
<1>3. ASSUME NEW s \in Series, Bypass(s) PROVE \E t \in Series : AggP!Decline(t)
  BY <1>3, BypassIs
<1>4. CASE Enter
  BY <1>4, EnterIs DEF Enter, AggP!Next, AggP!Process
<1>5. ASSUME NEW net \in Nets, HandOver(net) PROVE AggP!Next
  <2>1. Srv!PutRc(server, RecordMetric(queue[1]), net) \in {"ok", "declined"}
    BY DEF Srv!PutRc
  <2> QED BY <1>5, <2>1, HandOverIs DEF HandOver, AggP!Next, AggP!Process
<1>6. ASSUME NEW net \in Nets, EndTimer(net) \/ EndStat(net) PROVE AggP!Next
  <2>1. HandedRc(net) \in AggP!ReturnCodes
    BY FlushIs DEF HandedRc, AggP!ReturnCodes
  <2> QED BY <1>6, <2>1, EndTimerIs, EndStoredIs, EndDeclinedIs, EndFailedIs
          DEF EndTimer, EndStat, AggP!Next, AggP!Process
<1>7. CASE AggregateTimer \/ Tick \/ Quit \/ Terminate \/ Exit
  BY <1>7, LoopIs, SignalIs DEF AggregateTimer, Tick, Quit, Terminate, Exit, AggP!Next
<1> QED BY <1>1, <1>2, <1>3, <1>4, <1>5, <1>6, <1>7 DEF Next, Call

----------------------------------------------------------------------------
(* The invariant: the aggregator's, the sender's, and where each stat is.  *)

(* A stat on its way to the buffer was declined last, and no call is under *)
(* way; only a handler sends stats; and only the stat that process() was   *)
(* called for waits for its return.                                        *)
PhaseInv ==
  /\ options \in Options /\ phase \in {"loop", "request", "module"} /\ sending \in BOOLEAN
  /\ phase = "loop" => ~sending /\ call.task # "stat"
  /\ Fate({"pending"}) \subseteq IF call.task = "stat" THEN {Len(seen)} ELSE {}
  /\ sending =>
       /\ call = AggP!NoCall
       /\ Len(seen) \in DOMAIN seen /\ seen[Len(seen)].fate = "declined"

SenderInv ==
  /\ SrvP!ServerOK(server) /\ SrvP!EmptyOK(server)
  /\ flushAt \in {SrvP!NoTimer} \cup 0..MsecWrap-1

(* The stats that have been put into the buffer or found no room in it     *)
Passed == Fate({"handed", "declined"}) \ InFlight
Reached == Passed \cup Fate({"dropped"})

PlacesInv == SrvP!Account(server, Reached) /\ Fate({"dropped"}) \subseteq server.dropped

WInv == AggP!SInv /\ PhaseInv /\ SenderInv /\ PlacesInv

(* The stats given up while the worker runs                                *)
GivenUp == Fate({"lost"}) \cup server.lost \cup server.dropped

(* Stats move towards the network or are given up, or one comes.           *)
Advances ==
  \/ DOMAIN seen' = DOMAIN seen /\ server.sent \subseteq server'.sent /\ GivenUp \subseteq GivenUp'
  \/ /\ \E n \in 1..MaxStats : n \notin DOMAIN seen /\ DOMAIN seen' = DOMAIN seen \cup {n}
     /\ server' = server /\ GivenUp' = GivenUp

(* What was declined stays so, and a stat that goes nowhere is the one     *)
(* that found no space, after a flush that failed.                         *)
Settles ==
  /\ Fate({"declined"}) \subseteq Fate({"declined"})'
  /\ \A n \in Fate({"lost"})' \ Fate({"lost"}) : n \in Fate({"pending"}) /\ server'.failed

(* The steps that give nothing to the sender                               *)
QuietNext ==
  \/ \E handler \in {"request", "module"} : Begin(handler)
  \/ EndModule \/ Enter \/ AggregateTimer \/ Tick \/ Quit \/ Terminate \/ Exit

----------------------------------------------------------------------------
LEMMA Assumptions ==
  /\ MsecWrap \in Nat \ {0} /\ BufferSize \in Nat /\ Interval \in Nat
  /\ MetricBytes \in [Series -> Nat \ {0}] /\ ValueLen \in Nat
BY PartsAssumption, MetricAssumption
   DEF Agg!TimeAssumption, Srv!BufferAssumption, Srv!ServerTimeAssumption

(* What the facts about the parts assume.                                  *)
LEMMA AggregatorAssumptions ==
  /\ Size \in Nat
  /\ Kind \in [Series -> AggP!Kinds] /\ Hash \in [Series -> Nat \ {0}]
  /\ KeyBytes \in [Series -> Nat \ {0}] /\ Values \in Nat /\ ValueBytes \in Nat
  /\ Interval \in Nat /\ MaxLag \in Nat /\ MsecWrap \in Nat
  /\ 2 * (Interval + MaxLag) < MsecWrap
BY PartsAssumption
   DEF Agg!SizeAssumption, Agg!SeriesAssumption, Agg!TimeAssumption, Agg!Kinds, AggP!Kinds

LEMMA SenderAssumptions ==
  /\ BufferSize \in Nat /\ {} \subseteq Nat \ {0}
  /\ Interval \in Nat /\ MaxLag \in Nat /\ MsecWrap \in Nat
  /\ 2 * (Interval + MaxLag) < MsecWrap
BY PartsAssumption DEF Srv!BufferAssumption, Srv!ServerTimeAssumption

LEMMA MetricIs ==
  ASSUME NEW s \in Series, NEW S \in SUBSET Nat, NEW n \in Nat, now \in 0..MsecWrap-1
  PROVE  /\ Metric(s, S, n) \in SrvP!Metric
         /\ Metric(s, S, n).size = MetricLen(s, n) /\ Metric(s, S, n).size # 0
         /\ Metric(s, S, n).stats = S
<1>1. \A a, b \in Nat : a * b \in Nat
  OBVIOUS
<1> DEFINE k == ValueLen * (IF Kind[s] = "counter" THEN 1 ELSE n)
<1>2. k \in Nat
  BY <1>1, Assumptions
<1>3. MetricLen(s, n) = MetricBytes[s] + k
  BY DEF MetricLen
<1> HIDE DEF k
<1>4. MetricLen(s, n) \in Nat \ {0}
  BY <1>2, <1>3, Assumptions
<1> QED BY <1>4 DEF Metric, SrvP!Metric

(* What a new stat, and a new fate of some stats, mean for all of them.    *)
LEMMA NewFates ==
  ASSUME AggP!TypeOK, NEW s \in Series, NEW f \in AggP!Fates, AggP!See(s, f)
  PROVE  /\ AggP!New \in Nat \ {0} /\ AggP!New \notin DOMAIN seen
         /\ DOMAIN seen' = DOMAIN seen \cup {AggP!New} /\ Len(seen') = AggP!New
         /\ seen'[AggP!New].fate = f
         /\ \A fs : Fate(fs)' = Fate(fs) \cup (IF f \in fs THEN {AggP!New} ELSE {})
<1>1. /\ AggP!New \in Nat \ {0} /\ AggP!New \notin DOMAIN seen
      /\ DOMAIN seen' = DOMAIN seen \cup {AggP!New} /\ Len(seen') = AggP!New
      /\ seen'[AggP!New].fate = f /\ \A n \in DOMAIN seen : seen'[n] = seen[n]
  BY AggP!SeeValues, AggregatorAssumptions
<1>2. ASSUME NEW fs PROVE Fate(fs)' = Fate(fs) \cup (IF f \in fs THEN {AggP!New} ELSE {})
  BY <1>1 DEF Fate
<1> QED BY <1>1, <1>2

LEMMA MovedFates ==
  ASSUME AggP!TypeOK, NEW I \in SUBSET DOMAIN seen, NEW f, seen' = AggP!Fate(I, f)
  PROVE  /\ DOMAIN seen' = DOMAIN seen /\ DOMAIN seen = 1..Len(seen) /\ Len(seen) \in Nat
         /\ \A n \in DOMAIN seen : seen'[n].fate = IF n \in I THEN f ELSE seen[n].fate
         /\ \A fs : Fate(fs)' = (Fate(fs) \ I) \cup (IF f \in fs THEN I ELSE {})
<1>1. /\ DOMAIN seen' = DOMAIN seen /\ DOMAIN seen = 1..Len(seen) /\ Len(seen) \in Nat
      /\ \A n \in DOMAIN seen : seen'[n].fate = IF n \in I THEN f ELSE seen[n].fate
  BY AggP!FateValues, AggregatorAssumptions
<1>2. ASSUME NEW fs PROVE Fate(fs)' = (Fate(fs) \ I) \cup (IF f \in fs THEN I ELSE {})
  BY <1>1 DEF Fate
<1> QED BY <1>1, <1>2

(* The flush timer has its type whenever ngx_statshouse_timer() is called. *)
LEMMA ArmedIs ==
  ASSUME SrvP!ServerOK(server'), now \in 0..MsecWrap-1,
         NEW at \in {SrvP!NoTimer} \cup 0..MsecWrap-1
  PROVE  SrvP!Armed(server', at) \in {SrvP!NoTimer} \cup 0..MsecWrap-1
<1>1. server' \in SrvP!ServerType
  BY DEF SrvP!ServerOK
<1> QED BY <1>1, SrvP!ArmedOK, SenderAssumptions

(* What a flush, or none, does to the sender.                              *)
LEMMA FlushStep ==
  ASSUME SenderInv, NEW T, SrvP!Account(server, T), NEW net \in SrvP!Nets,
         server' = server \/ server' = SrvP!Flushed(server, net)
  PROVE  /\ SrvP!ServerOK(server') /\ SrvP!EmptyOK(server') /\ SrvP!Account(server', T)
         /\ server.sent \subseteq server'.sent /\ server.lost \subseteq server'.lost
         /\ server'.dropped = server.dropped
<1>1. server \in SrvP!ServerType
  BY DEF SenderInv, SrvP!ServerOK
<1>2. CASE server' = server
  BY <1>2 DEF SenderInv
<1>3. CASE server' = SrvP!Flushed(server, net)
  <2>1. SrvP!ServerOK(server')
    BY <1>1, <1>3, SrvP!FlushedOK, SenderAssumptions DEF SenderInv
  <2>2. SrvP!EmptyOK(server')
    BY <1>1, <1>3, SrvP!FlushedEmpty, SenderAssumptions DEF SenderInv
  <2>3. SrvP!Account(server', T)
    BY <1>1, <1>3, SrvP!FlushedAccount, SenderAssumptions DEF SenderInv
  <2>4. /\ server.sent \subseteq server'.sent /\ server.lost \subseteq server'.lost
        /\ server'.dropped = server.dropped
    BY <1>1, <1>3, SrvP!FlushedFields, SenderAssumptions
  <2> QED BY <2>1, <2>2, <2>3, <2>4
<1> QED BY <1>2, <1>3

(* What becomes of stats put that had not been put before.                 *)
LEMMA PutStep ==
  ASSUME SenderInv, NEW T, SrvP!Account(server, T), NEW net \in SrvP!Nets,
         NEW m \in SrvP!Metric, m.size # 0, m.stats \cap T = {},
         server' = SrvP!Filled(server, m, net)
  PROVE  /\ SrvP!ServerOK(server') /\ SrvP!EmptyOK(server')
         /\ SrvP!Account(server', T \cup m.stats)
         /\ server.sent \subseteq server'.sent /\ server.lost \subseteq server'.lost
         /\ server.dropped \subseteq server'.dropped
         /\ SrvP!PutRc(server, m, net) # "ok" => m.stats \subseteq server'.dropped
<1>1. server \in SrvP!ServerType
  BY DEF SenderInv, SrvP!ServerOK
<1>2. SrvP!ServerOK(server')
  BY <1>1, SrvP!FilledOK, SenderAssumptions DEF SenderInv
<1>3. SrvP!EmptyOK(server')
  BY <1>1, SrvP!FilledEmpty, SenderAssumptions DEF SenderInv
<1>4. SrvP!Account(server', T \cup m.stats)
  BY <1>1, SrvP!FilledAccount, SenderAssumptions DEF SenderInv
<1>5. PICK w \in SrvP!ServerType :
        /\ w = server \/ w = SrvP!Flushed(server, net)
        /\ server'.sent = w.sent /\ server'.lost = w.lost
        /\ \/ SrvP!PutRc(server, m, net) = "ok" /\ server'.dropped = w.dropped
           \/ server'.dropped = w.dropped \cup m.stats
  BY <1>1, SrvP!FilledFields, SenderAssumptions DEF SenderInv
<1>6. server.sent \subseteq w.sent /\ server.lost \subseteq w.lost /\ w.dropped = server.dropped
  BY <1>1, <1>5, SrvP!FlushedFields, SenderAssumptions
<1> QED BY <1>2, <1>3, <1>4, <1>5, <1>6

----------------------------------------------------------------------------
LEMMA AggregatorInv == ASSUME AggP!SInv, Next PROVE AggP!SInv'
<1>1. CASE AggP!Next
  BY <1>1, AggP!NextStats, AggregatorAssumptions
<1>2. CASE UNCHANGED aggregator /\ now' = now /\ stop' = stop
  <2>1. UNCHANGED AggP!vars
    BY <1>2 DEF aggregator, AggP!vars
  <2> QED BY <2>1, AggP!NextStats, AggregatorAssumptions
<1>3. CASE \E s \in Series : AggP!Decline(s)
  BY <1>3, AggP!DeclineSInv, AggregatorAssumptions
<1> QED BY <1>1, <1>2, <1>3, AggregatorStep

LEMMA SenderPrimed ==
  ASSUME SrvP!ServerOK(server'), SrvP!EmptyOK(server'), stop' = stop,
         flushAt' \in {SrvP!NoTimer} \cup 0..MsecWrap-1
  PROVE  SenderInv'
BY DEF SenderInv, SrvP!ServerOK, SrvP!EmptyOK

LEMMA PlacesPrimed ==
  ASSUME NEW T, T = Reached', SrvP!Account(server', T), Fate({"dropped"})' \subseteq server'.dropped
  PROVE  PlacesInv'
BY DEF PlacesInv, SrvP!Account, SrvP!StatsIn

(* What the invariant says, for the steps' proofs.                         *)
LEMMA WFacts ==
  ASSUME WInv
  PROVE  /\ AggP!TypeOK /\ now \in 0..MsecWrap-1 /\ SrvP!Account(server, Reached)
         /\ DOMAIN seen = 1..Len(seen) /\ Len(seen) \in Nat
         /\ \A n \in DOMAIN seen : seen[n].series \in Series
         /\ call.task = "stat" => Len(seen) \in DOMAIN seen /\ seen[Len(seen)].fate = "pending"
         /\ ~sending => InFlight = {}
         /\ sending => call = AggP!NoCall /\ InFlight = {Len(seen)}
<1>1. AggP!TypeOK /\ AggP!CallOK /\ AggP!CallHolds
  BY DEF WInv, AggP!SInv, AggP!Inv
<1>2. now \in 0..MsecWrap-1 /\ SrvP!Account(server, Reached)
  BY <1>1 DEF WInv, PlacesInv, AggP!TypeOK
<1> DEFINE S == [series : Series, fate : AggP!Fates]
<1>3. seen \in Seq(S)
  BY <1>1 DEF AggP!TypeOK
<1>4. DOMAIN seen = 1..Len(seen) /\ Len(seen) \in Nat /\ \A n \in DOMAIN seen : seen[n] \in S
  <2> HIDE DEF S
  <2> QED BY <1>3
<1>5. \A n \in DOMAIN seen : seen[n].series \in Series
  BY <1>4
<1>6. call.task = "stat" => Len(seen) \in DOMAIN seen /\ seen[Len(seen)].fate = "pending"
  BY <1>1, <1>4 DEF AggP!CallOK, AggP!CallHolds
<1>7. /\ ~sending => InFlight = {}
      /\ sending => call = AggP!NoCall /\ InFlight = {Len(seen)}
  BY DEF InFlight, WInv, PhaseInv
<1> QED BY <1>1, <1>2, <1>4, <1>5, <1>6, <1>7

(* The metric of a declined stat on its way, and that of the record to be  *)
(* handed over.                                                            *)
DeclinedMetric == Metric(seen[Len(seen)].series, {Len(seen)}, 1)

LEMMA DeclinedFacts ==
  ASSUME WInv, sending
  PROVE  /\ Len(seen) \in Nat /\ Len(seen) \in DOMAIN seen /\ seen[Len(seen)].series \in Series
         /\ seen[Len(seen)].fate = "declined"
         /\ DeclinedMetric \in SrvP!Metric /\ DeclinedMetric.stats = {Len(seen)}
         /\ DeclinedMetric.size # 0
         /\ DeclinedMetric.size = MetricLen(seen[Len(seen)].series, 1)
<1> DEFINE n == Len(seen)
<1>1. /\ n \in DOMAIN seen /\ n \in Nat /\ seen[n].series \in Series
      /\ seen[n].fate = "declined" /\ now \in 0..MsecWrap-1
  BY WFacts DEF WInv, PhaseInv
<1> QED BY <1>1, MetricIs DEF DeclinedMetric

LEMMA QueuedFacts ==
  ASSUME WInv, queue # <<>>, NEW r, r = queue[1], NEW m, m = RecordMetric(r)
  PROVE  /\ r.series \in Series /\ Len(r.stats) \in Nat
         /\ Kind[r.series] # "counter" => Len(r.stats) <= Values
         /\ m \in SrvP!Metric /\ m.size # 0 /\ m.size = MetricLen(r.series, Len(r.stats))
         /\ m.stats = AggP!StatsOf(r)
         /\ AggP!StatsOf(r) \subseteq Fate({"held"}) /\ AggP!StatsOf(r) \subseteq DOMAIN seen
<1>1. r \in AggP!Record /\ 1 \in DOMAIN queue /\ now \in 0..MsecWrap-1
  BY WFacts DEF AggP!TypeOK
<1>2. AggP!RecordHolds(r, seen)
  BY <1>1 DEF WInv, AggP!SInv, AggP!StatsInv, AggP!RecordsHold
<1>3. r.stats \in Seq(Nat \ {0}) /\ r.series \in Series
  BY <1>1 DEF AggP!Record
<1>4. AggP!StatsOf(r) \in SUBSET Nat /\ Len(r.stats) \in Nat
  BY <1>3 DEF AggP!StatsOf
<1>5. m = Metric(r.series, AggP!StatsOf(r), Len(r.stats))
  BY DEF RecordMetric, Agg!StatsOf, AggP!StatsOf
<1>6. /\ m \in SrvP!Metric /\ m.size # 0 /\ m.size = MetricLen(r.series, Len(r.stats))
      /\ m.stats = AggP!StatsOf(r)
  BY <1>1, <1>3, <1>4, <1>5, MetricIs
<1> QED BY <1>2, <1>3, <1>4, <1>6 DEF AggP!RecordHolds, Fate

(* A handler begins or ends, and the steps of the event loop that put      *)
(* nothing.                                                                *)
LEMMA QuietStep ==
  ASSUME WInv, QuietNext \/ UNCHANGED vars
  PROVE  /\ PhaseInv' /\ SenderInv' /\ PlacesInv' /\ Advances /\ Settles
         /\ GivenUp' = GivenUp
<1>1. seen' = seen /\ options' = options /\ sending' = sending /\ flushAt' = flushAt
  BY DEF QuietNext, Begin, EndModule, End, Enter, Agg!Enter, AggregateTimer, Agg!TimerRuns,
         Tick, Agg!Tick, Quit, Agg!Quit, Terminate, Agg!Terminate, Exit, Agg!Exit,
         vars, aggregator, sender
<1>2. sending => call' = call
  <2>1. SUFFICES ASSUME sending PROVE call' = call
    OBVIOUS
  <2>2. call.pc = "idle" /\ phase # "loop"
    BY <2>1 DEF WInv, PhaseInv, AggP!NoCall
  <2>3. ~Enter /\ ~AggregateTimer
    BY <2>2 DEF Enter, Agg!Enter, AggregateTimer
  <2> QED BY <2>3 DEF QuietNext, Begin, EndModule, End, Tick, Agg!Tick, Quit, Agg!Quit, Terminate,
               Agg!Terminate, Exit, Agg!Exit, vars, aggregator
<1>3. /\ phase' \in {phase, "loop", "request", "module"}
      /\ phase' = "loop" => ~sending /\ call'.task # "stat"
      /\ call'.task = call.task \/ call = AggP!NoCall
  <2>1. CASE EndModule \/ \E handler \in {"request", "module"} : Begin(handler)
    BY <2>1 DEF Begin, EndModule, End, Agg!Idle, Agg!NoCall, AggP!NoCall, aggregator
  <2>2. CASE Enter
    <3>1. call \in AggP!Calls
      BY WFacts DEF AggP!TypeOK
    <3> QED BY <2>2, <3>1 DEF WInv, PhaseInv, Enter, Agg!Enter, AggP!Calls
  <2>3. CASE AggregateTimer
    BY <2>3 DEF WInv, PhaseInv, AggregateTimer, Agg!TimerRuns, Agg!Idle, Agg!NoCall, AggP!NoCall
  <2>4. CASE Tick \/ Quit \/ Terminate \/ Exit \/ UNCHANGED vars
    BY <2>4 DEF WInv, PhaseInv, Tick, Agg!Tick, Quit, Agg!Quit, Terminate, Agg!Terminate,
               Exit, Agg!Exit, vars, aggregator
  <2> QED BY <2>1, <2>2, <2>3, <2>4 DEF QuietNext
<1>4. \/ server' = server /\ stop' \in {stop, "terminate", "exited"}
      \/ server' = [server EXCEPT !.conn = FALSE]
  BY DEF QuietNext, Begin, EndModule, End, aggregator, sender, Enter, Agg!Enter, AggregateTimer,
         Agg!TimerRuns, Tick, Agg!Tick, Quit, Srv!CloseIdle, Terminate, Agg!Terminate, Exit,
         Agg!Exit, vars
<1>5. PhaseInv'
  BY <1>1, <1>2, <1>3 DEF WInv, PhaseInv, Fate, AggP!NoCall
<1>6. server \in SrvP!ServerType
  BY DEF WInv, SenderInv, SrvP!ServerOK
<1>7. /\ server' \in SrvP!ServerType /\ server'.used = server.used
      /\ server'.buffer = server.buffer /\ server'.sent = server.sent
      /\ server'.lost = server.lost /\ server'.dropped = server.dropped
      /\ ~server'.conn \/ (server' = server /\ stop' \in {stop, "terminate", "exited"})
  BY <1>4, <1>6 DEF SrvP!ServerType
<1>8. SenderInv'
  BY <1>1, <1>7 DEF WInv, SenderInv, SrvP!ServerOK, SrvP!EmptyOK
<1>9. \A fs : Fate(fs)' = Fate(fs)
  BY <1>1 DEF Fate
<1>10. Reached' = Reached
  BY <1>1, <1>9 DEF Reached, Passed, InFlight
<1>11. PlacesInv'
  BY <1>7, <1>9, <1>10 DEF WInv, PlacesInv, SrvP!Account, SrvP!StatsIn
<1>12. Advances /\ GivenUp' = GivenUp
  BY <1>1, <1>7, <1>9 DEF Advances, GivenUp
<1>13. Settles
  BY <1>9 DEF Settles
<1> QED BY <1>5, <1>8, <1>11, <1>12, <1>13

(* A stat comes: the aggregator takes it, or it is on its way.             *)
LEMMA OfferStep ==
  ASSUME WInv, NEW s \in Series, Collect(s) \/ Bypass(s)
  PROVE  /\ PhaseInv' /\ SenderInv' /\ PlacesInv' /\ Advances /\ Settles
         /\ GivenUp' = GivenUp
<1>1. /\ Sends /\ server' = server /\ flushAt' = flushAt /\ options' = options /\ phase' = phase
      /\ now' = now /\ stop' = stop /\ Len(seen) < MaxStats
  BY DEF Collect, Bypass, sender, Agg!Merge, Agg!MergeAt, Agg!Store, Agg!StoreAt, Agg!NeedSpace,
         Agg!NeedSpaceAt, Agg!Refuse, Agg!Offered
<1>2. \E f \in {"held", "pending", "declined"} :
        /\ AggP!See(s, f)
        /\ f # "declined" => ~sending'
        /\ f = "pending" => call'.task = "stat"
        /\ f = "declined" => sending' = TRUE /\ call' = AggP!NoCall
  <2>1. CASE Collect(s)
    <3>1. Agg!See(s, "held") \/ (Agg!See(s, "pending") /\ call'.task = "stat")
      BY <2>1 DEF Collect, Agg!Merge, Agg!MergeAt, Agg!Store, Agg!StoreAt, Agg!NeedSpace, Agg!NeedSpaceAt,
                  Agg!NoCall
    <3>2. AggP!See(s, "held") \/ (AggP!See(s, "pending") /\ call'.task = "stat")
      BY <3>1 DEF Agg!See, AggP!See
    <3>3. ~sending'
      BY <1>1, <2>1 DEF Collect, Sends
    <3> QED BY <3>2, <3>3
  <2>2. CASE Bypass(s)
    BY <2>2, BypassIs DEF Bypass, AggP!Decline, AggP!Offered, AggP!Idle
  <2> QED BY <2>1, <2>2
<1>3. PICK f \in {"held", "pending", "declined"} :
        /\ AggP!See(s, f)
        /\ f # "declined" => ~sending'
        /\ f = "pending" => call'.task = "stat"
        /\ f = "declined" => sending' = TRUE /\ call' = AggP!NoCall
  BY <1>2
<1>4. sending' \in BOOLEAN /\ call = AggP!NoCall
  BY DEF Collect, Bypass, WInv, PhaseInv, Agg!Merge, Agg!MergeAt, Agg!Store, Agg!StoreAt, Agg!NeedSpace,
         Agg!NeedSpaceAt, Agg!Refuse, Agg!Offered, Agg!Idle, Agg!NoCall, AggP!NoCall
<1> DEFINE n == AggP!New
<1>5. /\ n \in Nat \ {0} /\ n \notin DOMAIN seen
      /\ DOMAIN seen' = DOMAIN seen \cup {n} /\ Len(seen') = n
      /\ seen'[n].fate = f
      /\ \A fs : Fate(fs)' = Fate(fs) \cup (IF f \in fs THEN {n} ELSE {})
  <2>1. f \in AggP!Fates
    BY DEF AggP!Fates
  <2> QED BY <1>3, <2>1, WFacts, NewFates
<1>6. n \in 1..MaxStats
  <2>1. n = Len(seen) + 1
    BY DEF AggP!New
  <2> QED BY <1>1, <1>5, <2>1, WFacts, BoundAssumption
<1> HIDE DEF n
<1>7. PhaseInv'
  <2>1. Fate({"pending"}) = {}
    BY <1>4 DEF WInv, PhaseInv, AggP!NoCall
  <2>2. Fate({"pending"})' \subseteq IF call'.task = "stat" THEN {Len(seen')} ELSE {}
    BY <1>3, <1>5, <2>1
  <2> QED BY <1>1, <1>4, <1>3, <1>5, <2>2 DEF PhaseInv, WInv, Sends
<1>8. SenderInv'
  BY <1>1, SenderPrimed DEF WInv, SenderInv
<1>9. Fate({"dropped"})' = Fate({"dropped"}) /\ Fate({"lost"})' = Fate({"lost"})
  BY <1>5
<1>10. Reached' = Reached
  <2>1. InFlight = {} /\ InFlight' = IF f = "declined" THEN {n} ELSE {}
    BY <1>1, <1>3, <1>5 DEF InFlight, Sends
  <2>2. Fate({"handed", "declined"})'
          = Fate({"handed", "declined"}) \cup (IF f = "declined" THEN {n} ELSE {})
    BY <1>5
  <2>3. n \notin Fate({"handed", "declined"})
    BY <1>5 DEF Fate
  <2> QED BY <1>9, <2>1, <2>2, <2>3 DEF Reached, Passed
<1>11. PlacesInv'
  BY <1>1, <1>9, <1>10 DEF WInv, PlacesInv, SrvP!Account, SrvP!StatsIn
<1>12. Advances /\ GivenUp' = GivenUp
  BY <1>1, <1>5, <1>6, <1>9 DEF Advances, GivenUp
<1>13. Settles
  BY <1>5, <1>9 DEF Settles
<1> QED BY <1>7, <1>8, <1>11, <1>12, <1>13
----------------------------------------------------------------------------
(* A flush, or none, while no stat reaches the buffer.                     *)
LEMMA FlushPlaces ==
  ASSUME WInv, NEW net \in Nets, stop' = stop,
         server' = server \/ server' = SrvP!Flushed(server, net),
         flushAt' = flushAt \/ flushAt' = SrvP!Armed(server', SrvP!NoTimer),
         DOMAIN seen' = DOMAIN seen, Reached' = Reached,
         Fate({"dropped"})' = Fate({"dropped"}), Fate({"lost"}) \subseteq Fate({"lost"})'
  PROVE  SenderInv' /\ PlacesInv' /\ Advances
<1>1. SenderInv /\ SrvP!Account(server, Reached) /\ net \in SrvP!Nets
  BY DEF WInv, PlacesInv, Nets, Srv!Nets, SrvP!Nets
<1>2. /\ SrvP!ServerOK(server') /\ SrvP!EmptyOK(server') /\ SrvP!Account(server', Reached)
      /\ server.sent \subseteq server'.sent /\ server.lost \subseteq server'.lost
      /\ server'.dropped = server.dropped
  BY <1>1, FlushStep
<1>3. flushAt' \in {SrvP!NoTimer} \cup 0..MsecWrap-1
  BY <1>1, <1>2, WFacts, ArmedIs DEF SenderInv
<1>4. SenderInv'
  BY <1>2, <1>3, SenderPrimed
<1>5. PlacesInv'
  BY <1>2, PlacesPrimed DEF WInv, PlacesInv
<1>6. Advances
  BY <1>2 DEF Advances, GivenUp
<1> QED BY <1>4, <1>5, <1>6

(* A metric whose stats reach the buffer.                                  *)
LEMMA PutPlaces ==
  ASSUME WInv, NEW net \in Nets, stop' = stop,
         NEW m \in SrvP!Metric, m.size # 0, Srv!Put(m, net),
         m.stats \cap Reached = {}, Reached' = Reached \cup m.stats,
         DOMAIN seen' = DOMAIN seen, Fate({"lost"}) \subseteq Fate({"lost"})',
         \/ Fate({"dropped"})' = Fate({"dropped"})
         \/ /\ Srv!PutRc(server, m, net) # "ok"
            /\ Fate({"dropped"})' = Fate({"dropped"}) \cup m.stats
  PROVE  SenderInv' /\ PlacesInv' /\ Advances
<1>1. SenderInv /\ SrvP!Account(server, Reached) /\ net \in SrvP!Nets
  BY DEF WInv, PlacesInv, Nets, Srv!Nets, SrvP!Nets
<1>2. /\ server' = SrvP!Filled(server, m, net)
      /\ flushAt' \in {flushAt, SrvP!Armed(server', flushAt)}
      /\ Srv!PutRc(server, m, net) = SrvP!PutRc(server, m, net)
  BY PutIs
<1>3. /\ SrvP!ServerOK(server') /\ SrvP!EmptyOK(server')
      /\ SrvP!Account(server', Reached \cup m.stats)
      /\ server.sent \subseteq server'.sent /\ server.lost \subseteq server'.lost
      /\ server.dropped \subseteq server'.dropped
      /\ SrvP!PutRc(server, m, net) # "ok" => m.stats \subseteq server'.dropped
  BY <1>1, <1>2, PutStep
<1>4. flushAt' \in {SrvP!NoTimer} \cup 0..MsecWrap-1
  BY <1>1, <1>2, <1>3, WFacts, ArmedIs DEF SenderInv
<1>5. SenderInv'
  BY <1>3, <1>4, SenderPrimed
<1>6. Fate({"dropped"})' \subseteq server'.dropped
  BY <1>2, <1>3 DEF WInv, PlacesInv
<1>7. PlacesInv'
  BY <1>3, <1>6, PlacesPrimed
<1>8. Advances
  BY <1>3 DEF Advances, GivenUp
<1> QED BY <1>5, <1>7, <1>8

(* A declined stat reaches the buffer.                                     *)
LEMMA SendToBufferStep ==
  ASSUME WInv, NEW net \in Nets, SendToBuffer(net)
  PROVE  PhaseInv' /\ SenderInv' /\ PlacesInv' /\ Advances /\ Settles
<1> DEFINE n == Len(seen)
           m == DeclinedMetric
<1>1. /\ sending /\ sending' = FALSE /\ phase' = phase /\ options' = options
      /\ seen' = seen /\ stop' = stop /\ Srv!Put(m, net)
  BY DEF SendToBuffer, aggregator, DeclinedMetric
<1>2. /\ n \in DOMAIN seen /\ seen[n].fate = "declined" /\ InFlight = {n}
      /\ m \in SrvP!Metric /\ m.size # 0 /\ m.stats = {n}
  BY <1>1, WFacts, DeclinedFacts
<1>3. \A fs : Fate(fs)' = Fate(fs)
  BY <1>1 DEF Fate
<1>4. n \in Fate({"handed", "declined"}) /\ n \notin Fate({"dropped"})
  BY <1>2 DEF Fate
<1>5. InFlight' = {}
  BY <1>1 DEF InFlight
<1> HIDE DEF m, n
<1>6. m.stats \cap Reached = {} /\ Reached' = Reached \cup m.stats
  BY <1>2, <1>3, <1>4, <1>5 DEF Reached, Passed
<1>7. PhaseInv'
  BY <1>1 DEF WInv, PhaseInv, Fate, SendToBuffer, aggregator
<1>8. Settles
  BY <1>3 DEF Settles
<1> QED BY <1>1, <1>2, <1>3, <1>6, <1>7, <1>8, PutPlaces

(* The end of a request, and the flush timer.                              *)
LEMMA FlushStepInv ==
  ASSUME WInv, NEW net \in Nets, EndRequest(net) \/ FlushTimer(net)
  PROVE  PhaseInv' /\ SenderInv' /\ PlacesInv' /\ Advances /\ Settles
<1>1. /\ ~sending /\ ~sending' /\ sending' \in BOOLEAN /\ options' = options /\ phase' = "loop"
      /\ call = Agg!NoCall /\ call' = call /\ seen' = seen /\ stop' = stop
  BY DEF WInv, PhaseInv, EndRequest, End, FlushTimer, Agg!Idle, aggregator
<1>2. /\ server' = server \/ server' = SrvP!Flushed(server, net)
      /\ flushAt' = flushAt \/ flushAt' = SrvP!Armed(server', SrvP!NoTimer)
  BY FlushIs DEF EndRequest, FlushTimer, sender
<1>3. \A fs : Fate(fs)' = Fate(fs)
  BY <1>1 DEF Fate
<1>4. Reached' = Reached
  BY <1>1, <1>3 DEF Reached, Passed, InFlight
<1>5. PhaseInv'
  BY <1>1 DEF WInv, PhaseInv, Fate, Agg!NoCall
<1>6. Settles
  BY <1>3 DEF Settles
<1> QED BY <1>1, <1>2, <1>3, <1>4, <1>5, <1>6, FlushPlaces

(* The stats of the oldest record reach the buffer.                        *)
LEMMA HandOverStep ==
  ASSUME WInv, NEW net \in Nets, HandOver(net)
  PROVE  PhaseInv' /\ SenderInv' /\ PlacesInv' /\ Advances /\ Settles
<1> DEFINE r == queue[1]
           m == RecordMetric(r)
           I == AggP!StatsOf(r)
           rc == Srv!PutRc(server, m, net)
           f == IF rc = "ok" THEN "handed" ELSE "dropped"
<1>1. /\ call.pc = "loop" /\ Srv!Put(m, net) /\ AggP!HandOver(rc)
      /\ phase' = phase /\ sending' = sending /\ options' = options
  BY HandOverIs DEF HandOver
<1>2. queue # <<>> /\ stop' = stop /\ seen' = AggP!Fate(I, f)
  BY <1>1 DEF AggP!HandOver, AggP!Due
<1>3. ~sending /\ AggP!TypeOK
  BY <1>1, WFacts DEF AggP!NoCall
<1>4. /\ I \subseteq Fate({"held"}) /\ I \subseteq DOMAIN seen
      /\ m \in SrvP!Metric /\ m.size # 0 /\ m.stats = I
  BY <1>2, QueuedFacts
<1> HIDE DEF m, I, r, rc, f
<1>5. /\ DOMAIN seen' = DOMAIN seen
      /\ \A fs : Fate(fs)' = (Fate(fs) \ I) \cup (IF f \in fs THEN I ELSE {})
  <2>1. I \in SUBSET DOMAIN seen /\ seen' = AggP!Fate(I, f)
    BY <1>2, <1>4
  <2> QED BY <1>3, <2>1, MovedFates
<1>6. I \cap Fate({"handed", "declined"}) = {} /\ I \cap Fate({"declined"}) = {}
       /\ I \cap Fate({"dropped"}) = {}
       /\ I \cap Fate({"lost"}) = {}
  BY <1>4 DEF Fate
<1>7. InFlight = {} /\ InFlight' = {}
  BY <1>1, <1>3 DEF InFlight
<1>8. /\ Fate({"handed", "declined"})'
            = Fate({"handed", "declined"}) \cup (IF rc = "ok" THEN I ELSE {})
       /\ Fate({"dropped"})' = Fate({"dropped"}) \cup (IF rc = "ok" THEN {} ELSE I)
       /\ Fate({"lost"})' = Fate({"lost"})
  BY <1>5, <1>6 DEF f
<1>9. m.stats \cap Reached = {} /\ Reached' = Reached \cup m.stats
  BY <1>4, <1>6, <1>7, <1>8 DEF Reached, Passed
<1>10. PhaseInv'
  <2>1. call'.task = call.task
    BY <1>1, <1>3 DEF AggP!TypeOK, AggP!Calls, AggP!HandOver
  <2>2. Fate({"pending"})' \subseteq Fate({"pending"})
    BY <1>5 DEF f
  <2>3. Len(seen') = Len(seen)
    BY <1>2, WFacts DEF AggP!Fate
  <2> QED BY <1>1, <1>3, <2>1, <2>2, <2>3 DEF WInv, PhaseInv
<1>11. \/ Fate({"dropped"})' = Fate({"dropped"})
       \/ rc # "ok" /\ Fate({"dropped"})' = Fate({"dropped"}) \cup m.stats
  BY <1>4, <1>8
<1>12. SenderInv' /\ PlacesInv' /\ Advances
  BY <1>1, <1>2, <1>4, <1>5, <1>8, <1>9, <1>11, PutPlaces DEF rc
<1>13. Settles
  BY <1>5, <1>6, <1>8 DEF Settles
<1> QED BY <1>10, <1>12, <1>13

(* process() returns, to the timer or to the stat that made it run.        *)
LEMMA EndStep ==
  ASSUME WInv, NEW net \in Nets, EndTimer(net) \/ EndStat(net)
  PROVE  PhaseInv' /\ SenderInv' /\ PlacesInv' /\ Advances /\ Settles
<1>1. /\ stop' = stop /\ call.pc = "loop" /\ call' = AggP!NoCall
      /\ phase' = phase /\ options' = options
  BY DEF EndTimer, EndStat, Agg!EndTimer, Agg!EndStored, Agg!EndDeclined, Agg!EndFailed,
         Agg!Returns, Agg!NoCall, AggP!NoCall
<1>2. ~sending /\ AggP!TypeOK
  BY <1>1, WFacts DEF AggP!NoCall
<1>3. /\ server' = server \/ server' = SrvP!Flushed(server, net)
      /\ flushAt' = flushAt
  BY FlushIs DEF EndTimer, EndStat, FlushHanded, sender
<1>4. CASE EndTimer(net)
  <2>1. seen' = seen /\ sending' = sending
    BY <1>4 DEF EndTimer, Agg!EndTimer
  <2>2. \A fs : Fate(fs)' = Fate(fs)
    BY <2>1 DEF Fate
  <2>3. Reached' = Reached
    BY <2>1, <2>2 DEF Reached, Passed, InFlight
  <2>4. PhaseInv'
    <3>1. call.task = "timer"
      BY <1>4 DEF EndTimer, Agg!EndTimer
    <3> QED BY <1>1, <1>2, <2>1, <2>2, <3>1 DEF WInv, PhaseInv, AggP!NoCall
  <2>5. Settles
    BY <2>2 DEF Settles
  <2> QED BY <1>1, <1>3, <2>1, <2>2, <2>3, <2>4, <2>5, FlushPlaces
<1>5. CASE EndStat(net)
  <2> DEFINE n == Len(seen)
  <2>1. \E f \in {"held", "declined", "lost"} :
          /\ seen' = AggP!Fate({n}, f) /\ call.task = "stat"
          /\ sending' = IF f = "declined" THEN TRUE ELSE sending
          /\ f = "lost" => HandedRc(net) = "error"
    BY <1>5 DEF EndStat, Agg!EndStored, Agg!EndDeclined, Agg!EndFailed, Agg!Fate, AggP!Fate, Agg!Returns
  <2>2. PICK f \in {"held", "declined", "lost"} :
          /\ seen' = AggP!Fate({n}, f) /\ call.task = "stat"
          /\ sending' = IF f = "declined" THEN TRUE ELSE sending
          /\ f = "lost" => HandedRc(net) = "error"
    BY <2>1
  <2>3. n \in DOMAIN seen /\ seen[n].fate = "pending"
    BY <2>2, WFacts
  <2>4. Len(seen') = n
    BY <2>2, WFacts DEF AggP!Fate
  <2> HIDE DEF n
  <2>5. /\ DOMAIN seen' = DOMAIN seen
        /\ seen'[n].fate = f
        /\ \A fs : Fate(fs)' = (Fate(fs) \ {n}) \cup (IF f \in fs THEN {n} ELSE {})
    <3>1. {n} \in SUBSET DOMAIN seen /\ seen' = AggP!Fate({n}, f)
      BY <2>2, <2>3
    <3> QED BY <1>2, <2>3, <3>1, MovedFates
  <2>6. \A fs : "pending" \notin fs => n \notin Fate(fs)
    BY <2>3 DEF Fate
  <2>7. /\ Fate({"handed", "declined"})'
             = Fate({"handed", "declined"}) \cup (IF f = "declined" THEN {n} ELSE {})
        /\ Fate({"dropped"})' = Fate({"dropped"})
        /\ Fate({"lost"}) \subseteq Fate({"lost"})' /\ Fate({"lost"})' \subseteq Fate({"lost"}) \cup {n}
        /\ n \notin Fate({"handed", "declined"})
        /\ f # "lost" => Fate({"lost"})' = Fate({"lost"})
        /\ Fate({"declined"}) \subseteq Fate({"declined"})'
    BY <2>5, <2>6
  <2>8. n \in Fate({"pending"})
    BY <2>3 DEF Fate
  <2>9. InFlight = {} /\ InFlight' = IF f = "declined" THEN {n} ELSE {}
    BY <1>2, <2>2, <2>4 DEF InFlight
  <2>10. Reached' = Reached
    BY <2>7, <2>9 DEF Reached, Passed
  <2>11. PhaseInv'
    <3>1. phase # "loop"
      BY <2>2 DEF WInv, PhaseInv
    <3>2. Fate({"pending"})' = {}
      BY <2>2, <2>5 DEF WInv, PhaseInv, n
    <3> QED BY <1>1, <1>2, <2>2, <2>3, <2>4, <2>5, <3>1, <3>2 DEF WInv, PhaseInv
  <2>12. HandedRc(net) = "error" => server'.failed
    <3>1. SUFFICES ASSUME HandedRc(net) = "error" PROVE server'.failed
      OBVIOUS
    <3>2. call.handed /\ Srv!FlushRc(server, net) = "error" /\ Srv!Flush(net)
      BY <1>5, <3>1 DEF HandedRc, EndStat, FlushHanded
    <3>3. server.used # 0 /\ server' = [server EXCEPT !.conn = FALSE, !.failed = TRUE]
      BY <3>2 DEF Srv!FlushRc, Srv!Flush, Srv!Flushed
    <3> QED BY <3>3 DEF WInv, SenderInv, SrvP!ServerOK, SrvP!ServerType
  <2>13. Settles
    BY <2>2, <2>7, <2>8, <2>12 DEF Settles
  <2> QED BY <1>1, <1>3, <2>5, <2>7, <2>10, <2>11, <2>13, FlushPlaces
<1> QED BY <1>4, <1>5
----------------------------------------------------------------------------
LEMMA InitW == Init => WInv
<1> SUFFICES ASSUME Init PROVE WInv
  OBVIOUS
<1>1. AggP!SInv
  <2>1. AggP!Init
    BY DEF Init, Agg!Init, Agg!NoTimer, Agg!NoCall, AggP!Init, AggP!NoTimer, AggP!NoCall
  <2> QED BY <2>1, AggP!InitStats, AggregatorAssumptions
<1>2. PhaseInv
  <2>1. Fate({"pending"}) = {}
    BY DEF Init, Agg!Init, Fate
  <2> QED BY <2>1 DEF Init, PhaseInv, Agg!Init, Agg!NoCall
<1>3. server = [buffer |-> <<>>, used |-> 0, conn |-> FALSE, failed |-> FALSE,
                sent |-> {}, lost |-> {}, dropped |-> {}]
  BY DEF Init, Srv!NewServer
<1>4. SenderInv
  BY <1>3, SenderAssumptions
     DEF Init, SenderInv, SrvP!ServerOK, SrvP!EmptyOK, SrvP!ServerType, SrvP!NoTimer, Srv!NoTimer
<1>5. \A fs : Fate(fs) = {}
  BY DEF Init, Agg!Init, Fate
<1>6. PlacesInv
  <2>1. Reached = {}
    BY <1>5 DEF Reached, Passed
  <2>2. SrvP!StatsIn(<<>>) = {}
    BY DEF SrvP!StatsIn
  <2>3. SrvP!Account(server, {})
    BY <1>3, <2>2 DEF SrvP!Account
  <2> QED BY <1>5, <2>1, <2>3 DEF PlacesInv
<1> QED BY <1>1, <1>2, <1>4, <1>6 DEF WInv

LEMMA StepW ==
  ASSUME WInv, Next \/ UNCHANGED vars
  PROVE  PhaseInv' /\ SenderInv' /\ PlacesInv' /\ Advances /\ Settles
<1>1. CASE QuietNext \/ UNCHANGED vars
  BY <1>1, QuietStep
<1>2. CASE \E s \in Series : Collect(s) \/ Bypass(s)
  BY <1>2, OfferStep
<1>3. CASE \E net \in Nets : SendToBuffer(net)
  BY <1>3, SendToBufferStep
<1>4. CASE \E net \in Nets : EndRequest(net) \/ FlushTimer(net)
  BY <1>4, FlushStepInv
<1>5. CASE \E net \in Nets : HandOver(net)
  BY <1>5, HandOverStep
<1>6. CASE \E net \in Nets : EndTimer(net) \/ EndStat(net)
  BY <1>6, EndStep
<1> QED BY <1>1, <1>2, <1>3, <1>4, <1>5, <1>6 DEF Next, Call, QuietNext

LEMMA NextW == ASSUME WInv, [Next]_vars PROVE WInv'
<1>1. AggP!SInv'
  <2>1. CASE Next
    BY <2>1, AggregatorInv DEF WInv
  <2>2. CASE UNCHANGED vars
    <3>1. UNCHANGED AggP!vars
      BY <2>2 DEF vars, aggregator, AggP!vars
    <3> QED BY <3>1, AggP!NextStats, AggregatorAssumptions DEF WInv
  <2> QED BY <2>1, <2>2
<1> QED BY <1>1, StepW DEF WInv

(* The invariant of the whole holds in every state.                        *)
THEOREM Invariance == Spec => []WInv
<1> QED BY InitW, NextW, PTL DEF Spec

(* Every variable has its type, whatever the handlers, the timers and the  *)
(* network do.                                                             *)
THEOREM TypeCorrect == Spec => []TypeOK
<1>1. ASSUME WInv PROVE TypeOK
  <2>1. AggP!TypeOK /\ PhaseInv /\ server \in SrvP!ServerType
        /\ flushAt \in {SrvP!NoTimer} \cup 0..MsecWrap-1
    BY <1>1, WFacts DEF WInv, SenderInv, SrvP!ServerOK
  <2> DEFINE R == [off : Nat, size : Nat, time : 0..MsecWrap-1, key : Nat,
                   series : Series, stats : Seq(Nat \ {0})]
             Q == AggP!Record
  <2>2. Q \subseteq R
    BY DEF AggP!Record
  <2>3. queue \in Seq(Q)
    BY <2>1 DEF AggP!TypeOK
  <2> HIDE DEF R, Q
  <2>4. queue \in Seq(R)
    BY <2>2, <2>3
  <2>5. seen \in Seq([series : Series, fate : Agg!Fates])
    BY <2>1 DEF AggP!TypeOK, Agg!Fates, AggP!Fates
  <2>6. server.buffer \in Seq([stats : SUBSET Nat, size : Nat, time : 0..MsecWrap-1])
    BY <2>1 DEF SrvP!ServerType, SrvP!Metric
  <2>7. {deadline, flushAt} \subseteq {Agg!NoTimer} \cup 0..MsecWrap-1
    BY <2>1 DEF AggP!TypeOK, Agg!NoTimer, AggP!NoTimer, SrvP!NoTimer
  <2> QED BY <2>1, <2>4, <2>5, <2>6, <2>7 DEF TypeOK, PhaseInv, R
<1> QED BY <1>1, Invariance, PTL

LEMMA HeldIsQueued == ASSUME WInv PROVE Fate({"held"}) = UNION {Agg!StatsOf(queue[i]) : i \in DOMAIN queue}
<1>1. AggP!RecordsHold(queue, seen) /\ AggP!Kept(queue, seen)
  BY DEF WInv, AggP!SInv, AggP!StatsInv
<1>2. \A i : Agg!StatsOf(queue[i]) = AggP!StatsOf(queue[i])
  BY DEF Agg!StatsOf, AggP!StatsOf
<1>3. ASSUME NEW n \in Fate({"held"})
      PROVE  \E i \in DOMAIN queue : n \in AggP!StatsOf(queue[i])
  BY <1>1 DEF Fate, AggP!Kept
<1>4. ASSUME NEW i \in DOMAIN queue, NEW n \in AggP!StatsOf(queue[i])
      PROVE  n \in Fate({"held"})
  BY <1>1 DEF Fate, AggP!RecordsHold, AggP!RecordHolds
<1> QED BY <1>2, <1>3, <1>4

(* A stat is in one place: held by the aggregator, on its way, in the      *)
(* buffer, sent, lost or dropped.  However often flushes fail and are      *)
(* tried again, nothing is doubled and nothing disappears between          *)
(* ngx_statshouse_aggregate() and ngx_statshouse_flush().                  *)
THEOREM EachStatIsOnce == Spec => []ExactlyOnce
<1>1. ASSUME WInv PROVE ExactlyOnce
  <2> DEFINE B == Srv!StatsIn(server.buffer)
             outcomes == <<B, server.sent, server.lost>>
  <2>1. /\ B \cup server.sent \cup server.lost \cup server.dropped = Reached
        /\ B \cap (server.sent \cup server.lost \cup server.dropped) = {}
        /\ server.sent \cap (server.lost \cup server.dropped) = {}
        /\ server.lost \cap server.dropped = {}
        /\ Fate({"dropped"}) \subseteq server.dropped
    BY <1>1 DEF WInv, PlacesInv, SrvP!Account, Srv!StatsIn, SrvP!StatsIn
  <2> HIDE DEF B
  <2>2. outcomes[1] = B /\ outcomes[2] = server.sent /\ outcomes[3] = server.lost
    OBVIOUS
  <2>3. 1..3 = {1, 2, 3}
    OBVIOUS
  <2> HIDE DEF outcomes
  <2>4. UNION {outcomes[i] : i \in 1..3} = B \cup server.sent \cup server.lost
    BY <2>2, <2>3
  <2>5. \A i, j \in 1..3 : i # j => outcomes[i] \cap outcomes[j] = {}
    BY <2>1, <2>2, <2>3
  <2>6. \A i \in 1..3 : outcomes[i] \cap server.dropped = {}
    BY <2>1, <2>2, <2>3
  <2>7. (UNION {outcomes[i] : i \in 1..3}) \cup server.dropped
          = (Fate({"handed", "declined"}) \ InFlight) \cup Fate({"dropped"})
    BY <2>1, <2>4 DEF Reached, Passed
  <2> QED BY <1>1, <2>1, <2>5, <2>6, <2>7, HeldIsQueued DEF ExactlyOnce, outcomes, B, Buffered
<1> QED BY <1>1, Invariance, PTL
----------------------------------------------------------------------------
(* What handlers produced is inside the worker, sent or lost, and only one *)
(* of these.                                                               *)
Partitioned ==
  /\ Inside = DOMAIN seen \ (server.sent \cup Lost)
  /\ server.sent \cup Lost \subseteq DOMAIN seen
  /\ server.sent \cap Lost = {}

LEMMA Partition == WInv => Partitioned
<1> SUFFICES ASSUME WInv PROVE Partitioned
  OBVIOUS
<1> DEFINE B == Srv!StatsIn(server.buffer)
<1>1. /\ B \cup server.sent \cup server.lost \cup server.dropped = Reached
      /\ B \cap (server.sent \cup server.lost \cup server.dropped) = {}
      /\ server.sent \cap (server.lost \cup server.dropped) = {}
      /\ server.lost \cap server.dropped = {}
  BY DEF WInv, PlacesInv, SrvP!Account, Srv!StatsIn, SrvP!StatsIn
<1> HIDE DEF B
<1>2. \A n \in DOMAIN seen :
        seen[n].fate \in {"pending", "held", "handed", "dropped", "declined", "lost"}
  <2> DEFINE S == [series : Series, fate : AggP!Fates]
  <2>1. seen \in Seq(S)
    BY WFacts DEF AggP!TypeOK
  <2>2. \A n \in DOMAIN seen : seen[n] \in S
    <3> HIDE DEF S
    <3> QED BY <2>1
  <2> QED BY <2>2 DEF AggP!Fates
<1>3. InFlight \subseteq Fate({"declined"})
  BY DEF WInv, PhaseInv, InFlight, Fate
<1> DEFINE Out == Fate({"held", "pending"}) \cup InFlight
<1>4. /\ Reached \cup Out \cup Fate({"lost"}) = DOMAIN seen
      /\ Reached \cap (Out \cup Fate({"lost"})) = {}
      /\ Out \cap Fate({"lost"}) = {}
  BY <1>2, <1>3 DEF Reached, Passed, Fate
<1>5. Within = Out \cup B
  BY DEF Within, Buffered, B
<1> HIDE DEF Out
<1>6. /\ Within = DOMAIN seen \ (server.sent \cup GivenUp)
      /\ server.sent \cup GivenUp \subseteq DOMAIN seen
      /\ server.sent \cap GivenUp = {}
  BY <1>1, <1>4, <1>5 DEF GivenUp
<1>7. Lost = GivenUp \cup Left
  BY DEF Lost, GivenUp
<1> QED BY <1>6, <1>7 DEF Partitioned, Inside, Left

(* A process that has exited takes no step.                                *)
LEMMA Alive == ASSUME Next PROVE stop # "exited" /\ (stop' = "exited" => Exit)
<1>1. CASE \/ QuietNext \/ \E s \in Series : Collect(s) \/ Bypass(s)
  BY <1>1 DEF QuietNext, Begin, EndModule, End, Enter, Agg!Enter, AggregateTimer, Agg!TimerRuns,
         Tick, Agg!Tick, Quit, Agg!Quit, Terminate, Agg!Terminate, Exit, Agg!Exit, Agg!Idle,
         aggregator, Collect, Bypass, Agg!Merge, Agg!MergeAt, Agg!Store, Agg!StoreAt,
         Agg!NeedSpace, Agg!NeedSpaceAt, Agg!Refuse, Agg!Offered
<1>2. CASE \E net \in Nets : SendToBuffer(net) \/ EndRequest(net) \/ HandOver(net) \/ EndTimer(net)
                            \/ EndStat(net) \/ FlushTimer(net)
  BY <1>2 DEF SendToBuffer, EndRequest, End, FlushTimer, Agg!Idle, HandOver, Agg!HandOver, EndTimer,
         Agg!EndTimer, EndStat, Agg!EndStored, Agg!EndDeclined, Agg!EndFailed, Agg!Returns
<1> QED BY <1>1, <1>2 DEF Next, Call, QuietNext

(* Whatever the worker does inside, from outside it takes a stat in once,  *)
(* and sends it in a packet or loses it, once and for good: the module     *)
(* implements Delivery, with a retry after each failed flush, and what is  *)
(* inside when the process exits is lost.                                  *)
THEOREM StatsAreDelivered == Spec => DeliverySpec
<1>1. ASSUME Init PROVE Deliver!Init
  <2>1. WInv
    BY <1>1, InitW
  <2>2. DOMAIN seen = {}
    BY <1>1 DEF Init, Agg!Init
  <2> QED BY <2>1, <2>2, Partition DEF Partitioned, Deliver!Init
<1>2. ASSUME WInv, WInv', [Next]_vars PROVE [Deliver!Next]_Deliver!vars
  <2> DEFINE D == DOMAIN seen
             S == server'.sent \ server.sent
             T == Lost' \ Lost
  <2>1. /\ Inside = D \ (server.sent \cup Lost) /\ server.sent \cup Lost \subseteq D
        /\ server.sent \cap Lost = {}
    BY <1>2, Partition DEF Partitioned
  <2>2. /\ Inside' = D' \ (server'.sent \cup Lost') /\ server'.sent \cup Lost' \subseteq D'
        /\ server'.sent \cap Lost' = {}
    <3>1. Partitioned'
      BY <1>2, Partition, PTL
    <3> QED BY <3>1 DEF Partitioned
  <2>3. Advances
    BY <1>2, StepW
  <2>4. Lost = GivenUp \cup Left /\ Lost' = GivenUp' \cup Left'
    BY DEF Lost, GivenUp
  <2>5. CASE UNCHANGED vars
    <3>1. Inside' = Inside /\ Lost' = Lost /\ server' = server
      BY <2>5 DEF vars, aggregator, sender, Inside, Lost, Left, Within, Fate, InFlight, Buffered, Srv!StatsIn
    <3> QED BY <3>1 DEF Deliver!vars
  <2>6. CASE Next
    <3>1. Left = {} /\ (stop' = "exited" => seen' = seen)
      BY <2>6, Alive DEF Left, Exit, Agg!Exit
    <3>2. CASE D' = D /\ server.sent \subseteq server'.sent /\ GivenUp \subseteq GivenUp'
      <4>1. Lost \subseteq Lost'
        BY <2>4, <3>1, <3>2
      <4>2. S \subseteq Inside /\ T \subseteq Inside /\ S \cap T = {}
        BY <2>1, <2>2, <3>2, <4>1
      <4>3. /\ Inside' = Inside \ (S \cup T)
            /\ server'.sent = server.sent \cup S /\ Lost' = Lost \cup T
        BY <2>1, <2>2, <3>2, <4>1
      <4> HIDE DEF S, T, D
      <4>4. Deliver!Leave(S, T)
        BY <4>2, <4>3 DEF Deliver!Leave
      <4> QED BY <4>2, <4>4 DEF Deliver!Next
    <3>3. CASE /\ \E n \in 1..MaxStats : n \notin D /\ D' = D \cup {n}
               /\ server' = server /\ GivenUp' = GivenUp
      <4>1. PICK n \in 1..MaxStats : n \notin D /\ D' = D \cup {n}
        BY <3>3
      <4>2. Left' = {}
        BY <3>1, <4>1 DEF Left
      <4>3. Lost' = Lost
        BY <2>4, <3>1, <3>3, <4>2
      <4> HIDE DEF D
      <4>4. Deliver!Offer(n)
        BY <2>1, <2>2, <3>3, <4>1, <4>3 DEF Deliver!Offer
      <4> QED BY <4>4 DEF Deliver!Next
    <3> QED BY <2>3, <3>2, <3>3 DEF Advances
  <2> QED BY <1>2, <2>5, <2>6
<1> QED BY <1>1, <1>2, Invariance, PTL DEF Spec, DeliverySpec, Deliver!Spec
----------------------------------------------------------------------------
(* What a flush, or none, and a put may lose.                              *)
LEMMA FlushLoses ==
  ASSUME SenderInv, NEW net \in SrvP!Nets, server' = server \/ server' = SrvP!Flushed(server, net)
  PROVE  server'.lost \subseteq server.lost \cup Buffered /\ server'.dropped = server.dropped
<1>1. server \in SrvP!ServerType
  BY DEF SenderInv, SrvP!ServerOK
<1> QED BY <1>1, SrvP!FlushedFields, SenderAssumptions DEF Buffered, Srv!StatsIn, SrvP!StatsIn

LEMMA PutLoses ==
  ASSUME SenderInv, NEW net \in SrvP!Nets, NEW m \in SrvP!Metric, Srv!Put(m, net)
  PROVE  /\ server'.lost \subseteq server.lost \cup Buffered
         /\ server'.dropped \subseteq server.dropped \cup m.stats
         /\ server'.dropped # server.dropped => server'.failed \/ m.size > BufferSize
<1>1. server \in SrvP!ServerType
  BY DEF SenderInv, SrvP!ServerOK
<1>2. server' = SrvP!Filled(server, m, net)
  BY PutIs
<1>3. PICK w \in SrvP!ServerType :
        /\ w = server \/ w = SrvP!Flushed(server, net)
        /\ server'.failed = w.failed /\ server'.lost = w.lost
        /\ \/ SrvP!PutRc(server, m, net) = "ok" /\ server'.dropped = w.dropped
           \/ /\ SrvP!PutRc(server, m, net) # "ok" /\ w = SrvP!Flushed(server, net)
              /\ server'.dropped = w.dropped \cup m.stats
  BY <1>2, SrvP!FilledFields, SenderAssumptions DEF SenderInv
<1>4. /\ w.lost \subseteq server.lost \cup Buffered /\ w.dropped = server.dropped
      /\ w = SrvP!Flushed(server, net) => w.failed \/ w.used = 0
  BY <1>1, <1>3, SrvP!FlushedFields, SenderAssumptions DEF Buffered, Srv!StatsIn, SrvP!StatsIn
<1>5. ASSUME SrvP!PutRc(server, m, net) # "ok", w = SrvP!Flushed(server, net), w.used = 0
      PROVE  m.size > BufferSize
  <2>1. ~SrvP!Fits(w, m)
    BY <1>5 DEF SrvP!PutRc, SrvP!Room
  <2>2. BufferSize \in Nat /\ m.size \in Nat
    BY SenderAssumptions DEF SrvP!Metric
  <2> QED BY <1>5, <2>1, <2>2 DEF SrvP!Fits
<1> QED BY <1>3, <1>4, <1>5

(* The causes of losses, as LostForCause states them.                      *)
Cause(n) ==
  \/ n \in Buffered /\ n \in server'.lost
  \/ n \notin Buffered /\ server'.failed
  \/ n \in server'.dropped /\ TooLong(n)
  \/ n \in Left'

(* A metric whose stats had not reached the buffer is put into it.         *)
LEMMA PutCause ==
  ASSUME WInv, NEW net \in Nets, NEW m \in SrvP!Metric, Srv!Put(m, net), m.stats \cap Reached = {},
         m.size > BufferSize => \A k \in m.stats : TooLong(k),
         NEW n, n \in (server'.lost \ server.lost) \cup (server'.dropped \ server.dropped)
  PROVE  Cause(n)
<1>1. SenderInv /\ net \in SrvP!Nets
  BY DEF WInv, Nets, Srv!Nets, SrvP!Nets
<1>2. Buffered \subseteq Reached
  BY WFacts DEF SrvP!Account, Buffered, Srv!StatsIn, SrvP!StatsIn
<1>3. CASE n \in server'.lost \ server.lost
  BY <1>1, <1>3, PutLoses DEF Cause
<1>4. CASE n \in server'.dropped \ server.dropped
  <2>1. n \in m.stats /\ (server'.failed \/ m.size > BufferSize)
    BY <1>1, <1>4, PutLoses
  <2> QED BY <1>2, <1>4, <2>1 DEF Cause
<1> QED BY <1>3, <1>4

(* A stat is lost because send() would block, a flush that was to make     *)
(* room fails, it is too long, or the process exits: a full arena, a full  *)
(* buffer and a worker that stops lose none, and a failed flush loses none *)
(* that is in the buffer already.                                          *)
THEOREM LossesHaveCause == Spec => LostForCause
<1>1. ASSUME WInv, Next, NEW n \in Lost' \ Lost PROVE Cause(n)
  <2>1. SUFFICES ASSUME n \notin Left' PROVE Cause(n)
    BY DEF Cause
  <2>2. n \in GivenUp' \ GivenUp
    BY <1>1, <2>1 DEF Lost, GivenUp
  <2>3. SenderInv /\ Settles /\ Buffered \subseteq Reached
    BY <1>1, StepW, WFacts DEF WInv, SrvP!Account, Buffered, Srv!StatsIn, SrvP!StatsIn
  <2>4. CASE n \in Fate({"lost"})'
    <3>1. n \in Fate({"pending"}) /\ server'.failed
      BY <2>2, <2>3, <2>4 DEF Settles, GivenUp
    <3>2. n \notin Reached
      BY <3>1 DEF Reached, Passed, Fate
    <3> QED BY <2>3, <3>1, <3>2 DEF Cause
  <2>5. CASE n \notin Fate({"lost"})'
    <3>1. n \in (server'.lost \ server.lost) \cup (server'.dropped \ server.dropped)
      BY <2>2, <2>5 DEF GivenUp
    <3>2. CASE QuietNext \/ \E s \in Series : Collect(s) \/ Bypass(s)
      BY <1>1, <2>2, <3>2, QuietStep, OfferStep
    <3>3. ASSUME NEW net \in Nets,
                 EndRequest(net) \/ FlushTimer(net) \/ EndTimer(net) \/ EndStat(net)
          PROVE  Cause(n)
      <4>1. server' = server \/ server' = SrvP!Flushed(server, net)
        BY <3>3, FlushIs DEF EndRequest, FlushTimer, EndTimer, EndStat, FlushHanded, sender
      <4>2. net \in SrvP!Nets
        BY DEF Nets, Srv!Nets, SrvP!Nets
      <4> QED BY <2>3, <3>1, <4>1, <4>2, FlushLoses DEF Cause
    <3>4. ASSUME NEW net \in Nets, SendToBuffer(net) PROVE Cause(n)
      <4>1. sending /\ Srv!Put(DeclinedMetric, net)
        BY <3>4 DEF SendToBuffer, DeclinedMetric
      <4>2. /\ DeclinedMetric \in SrvP!Metric /\ DeclinedMetric.stats = InFlight
            /\ DeclinedMetric.size = MetricLen(seen[Len(seen)].series, 1)
            /\ Len(seen) \in Fate({"declined"})
        BY <1>1, <4>1, WFacts, DeclinedFacts DEF Fate
      <4>3. InFlight = {Len(seen)} /\ InFlight \cap Reached = {}
        BY <4>1, <4>2 DEF InFlight, Reached, Passed, Fate
      <4>4. DeclinedMetric.size > BufferSize => \A k \in InFlight : TooLong(k)
        BY <4>2, <4>3 DEF TooLong
      <4> QED BY <1>1, <3>1, <4>1, <4>2, <4>3, <4>4, PutCause
    <3>5. ASSUME NEW net \in Nets, HandOver(net) PROVE Cause(n)
      <4> DEFINE r == queue[1]
                 m == RecordMetric(r)
      <4>1. queue # <<>> /\ Srv!Put(m, net) /\ 1 \in DOMAIN queue
        BY <1>1, <3>5, WFacts DEF HandOver, Agg!Due, AggP!TypeOK
      <4>2. /\ m \in SrvP!Metric /\ m.stats = Agg!StatsOf(r) /\ Agg!StatsOf(r) \subseteq Fate({"held"})
        BY <1>1, <4>1, QueuedFacts DEF Agg!StatsOf, AggP!StatsOf
      <4>3. Agg!StatsOf(r) \cap Reached = {}
        BY <4>2 DEF Reached, Passed, Fate
      <4>4. m.size > BufferSize => \A k \in Agg!StatsOf(r) : TooLong(k)
        BY <4>1 DEF TooLong
      <4> HIDE DEF m
      <4> QED BY <1>1, <3>1, <4>1, <4>2, <4>3, <4>4, PutCause
    <3> QED BY <1>1, <3>2, <3>3, <3>4, <3>5 DEF Next, Call, QuietNext
  <2> QED BY <2>4, <2>5
<1>2. ASSUME WInv, [Next]_vars
      PROVE  [\A n \in Lost' \ Lost :
                \/ n \in Buffered /\ n \in server'.lost
                \/ n \notin Buffered /\ server'.failed
                \/ n \in server'.dropped /\ TooLong(n)
                \/ n \in Left']_vars
  BY <1>1, <1>2 DEF Cause
<1> QED BY <1>2, Invariance, PTL DEF Spec, LostForCause
----------------------------------------------------------------------------
(* Unless a flush has failed, what process() has handed over is in the     *)
(* buffer only until process() flushes it.                                 *)
Flushing == call.pc = "loop" /\ call.handed

Quick == (~server.failed /\ ~Flushing) => Buffered \subseteq Fate({"declined"})

(* The buffer after a flush, or none.                                      *)
LEMMA FlushQuick ==
  ASSUME SenderInv, NEW net \in Nets, server' = SrvP!Flushed(server, net), ~server'.failed
  PROVE  server'.buffer = <<>>
<1>1. server \in SrvP!ServerType /\ SrvP!EmptyOK(server) /\ net \in SrvP!Nets
  BY DEF SenderInv, SrvP!ServerOK, Nets, Srv!Nets, SrvP!Nets
<1> QED BY <1>1, SrvP!FlushedEmpty, SenderAssumptions

(* ... and after a put: it holds what it held, unless it was flushed.      *)
LEMMA PutQuick ==
  ASSUME SenderInv, NEW net \in Nets, NEW m \in SrvP!Metric, Srv!Put(m, net), ~server'.failed
  PROVE  /\ Srv!PutRc(server, m, net) # "ok" => server'.buffer = <<>>
         /\ \/ Srv!StatsIn(server'.buffer) \subseteq m.stats
            \/ /\ ~server.failed
               /\ Srv!StatsIn(server'.buffer) \subseteq Srv!StatsIn(server.buffer) \cup m.stats
<1>1. server \in SrvP!ServerType /\ SrvP!EmptyOK(server) /\ net \in SrvP!Nets
  BY DEF SenderInv, SrvP!ServerOK, Nets, Srv!Nets, SrvP!Nets
<1>2. /\ server' = SrvP!Filled(server, m, net)
      /\ Srv!PutRc(server, m, net) = SrvP!PutRc(server, m, net)
  BY PutIs
<1>3. PICK w \in SrvP!ServerType :
        /\ w = server \/ w = SrvP!Flushed(server, net)
        /\ server'.failed = w.failed
        /\ \/ SrvP!PutRc(server, m, net) = "ok" /\ server'.buffer = Append(w.buffer, m)
           \/ /\ SrvP!PutRc(server, m, net) # "ok" /\ server'.buffer = w.buffer
              /\ w = SrvP!Flushed(server, net)
  BY <1>1, <1>2, SrvP!FilledFields, SenderAssumptions DEF SenderInv
<1>4. w = server \/ w.buffer = <<>>
  BY <1>1, <1>3, SrvP!FlushedEmpty, SenderAssumptions
<1>5. SrvP!PutRc(server, m, net) # "ok" => w.buffer = <<>>
  BY <1>1, <1>3, SrvP!FlushedEmpty, SenderAssumptions
<1>6. w.buffer \in Seq(SrvP!Metric)
  BY DEF SrvP!ServerType
<1>7. SrvP!StatsIn(Append(w.buffer, m)) = SrvP!StatsIn(w.buffer) \cup m.stats
  BY <1>6, SrvP!StatsInAppend, SenderAssumptions
<1>8. \A b : Srv!StatsIn(b) = SrvP!StatsIn(b)
  BY DEF Srv!StatsIn, SrvP!StatsIn
<1>9. SrvP!StatsIn(<<>>) = {}
  BY DEF SrvP!StatsIn
<1> QED BY <1>2, <1>3, <1>4, <1>5, <1>7, <1>8, <1>9

(* The steps that put nothing into the buffer.                             *)
LEMMA KeepsQuick ==
  ASSUME Quick, Fate({"declined"}) \subseteq Fate({"declined"})',
         server'.buffer = server.buffer, server'.failed = server.failed,
         Flushing => Flushing'
  PROVE  Quick'
BY DEF Quick, Buffered, Srv!StatsIn

(* A buffer that has been flushed is empty.                                *)
LEMMA EmptyQuick == ASSUME ~server'.failed => server'.buffer = <<>> PROVE Quick'
BY DEF Quick, Buffered, Srv!StatsIn

LEMMA OfferQuick ==
  ASSUME WInv, Quick, \/ QuietNext \/ UNCHANGED vars
                      \/ \E s \in Series : Collect(s) \/ Bypass(s)
  PROVE  Quick'
<1>1. Fate({"declined"}) \subseteq Fate({"declined"})'
  BY QuietStep, OfferStep DEF Settles
<1>2. server'.buffer = server.buffer /\ server'.failed = server.failed
  <2>1. CASE Quit
    <3>1. server' = [server EXCEPT !.conn = FALSE]
      BY <2>1 DEF Quit, Srv!CloseIdle
    <3> QED BY <3>1 DEF WInv, SenderInv, SrvP!ServerOK, SrvP!ServerType
  <2>2. CASE ~Quit
    BY <2>2 DEF QuietNext, Begin, EndModule, Enter, AggregateTimer, Tick, Terminate, Exit, vars, sender,
                Collect, Bypass
  <2> QED BY <2>1, <2>2
<1>3. Flushing => Flushing'
  BY DEF Flushing, QuietNext, Begin, EndModule, End, Enter, Agg!Enter, AggregateTimer, Agg!TimerRuns,
         Agg!Idle, Agg!NoCall, Tick, Agg!Tick, Quit, Agg!Quit, Terminate, Agg!Terminate, Exit, Agg!Exit,
         vars, aggregator, Collect, Bypass, Agg!Merge, Agg!MergeAt, Agg!Store, Agg!StoreAt,
         Agg!NeedSpace, Agg!NeedSpaceAt, Agg!Refuse, Agg!Offered
<1> QED BY <1>1, <1>2, <1>3, KeepsQuick

LEMMA FlushStepQuick ==
  ASSUME WInv, Quick, NEW net \in Nets,
         EndRequest(net) \/ FlushTimer(net) \/ EndTimer(net) \/ EndStat(net)
  PROVE  Quick'
<1>1. SenderInv
  BY DEF WInv
<1>2. CASE server' = SrvP!Flushed(server, net)
  BY <1>1, <1>2, FlushQuick, EmptyQuick
<1>3. CASE server' = server
  <2>1. CASE EndRequest(net) \/ FlushTimer(net)
    <3>1. seen' = seen /\ call' = call
      BY <2>1 DEF EndRequest, End, FlushTimer, aggregator
    <3> QED BY <1>3, <3>1, KeepsQuick DEF Flushing, Fate
  <2>2. CASE EndTimer(net) \/ EndStat(net)
    <3>1. CASE call.handed
      BY <1>1, <2>2, <3>1, FlushIs, FlushQuick, EmptyQuick DEF EndTimer, EndStat, FlushHanded
    <3>2. CASE ~call.handed
      <4>1. Fate({"declined"}) \subseteq Fate({"declined"})'
        BY <2>2, EndStep DEF Settles
      <4> QED BY <1>3, <3>2, <4>1, KeepsQuick DEF Flushing
    <3> QED BY <3>1, <3>2
  <2> QED BY <2>1, <2>2
<1>4. server' = server \/ server' = SrvP!Flushed(server, net)
  BY FlushIs DEF EndRequest, FlushTimer, EndTimer, EndStat, FlushHanded, sender
<1> QED BY <1>2, <1>3, <1>4

LEMMA PutStepQuick ==
  ASSUME WInv, Quick, NEW net \in Nets, SendToBuffer(net) \/ HandOver(net)
  PROVE  Quick'
<1>1. SUFFICES ASSUME ~server'.failed, ~Flushing'
      PROVE  Srv!StatsIn(server'.buffer) \subseteq Fate({"declined"})'
  BY DEF Quick, Buffered, Srv!StatsIn
<1>2. SenderInv
  BY DEF WInv
<1>3. CASE SendToBuffer(net)
  <2> DEFINE m == DeclinedMetric
  <2>1. sending /\ seen' = seen /\ Srv!Put(m, net) /\ ~Flushing
    BY <1>3 DEF SendToBuffer, WInv, PhaseInv, AggP!NoCall, Flushing, aggregator, DeclinedMetric
  <2>2. /\ m \in SrvP!Metric /\ m.stats \subseteq Fate({"declined"})
        /\ Fate({"declined"})' = Fate({"declined"})
    BY <2>1, DeclinedFacts DEF Fate
  <2>3. \/ Srv!StatsIn(server'.buffer) \subseteq m.stats
        \/ /\ ~server.failed
           /\ Srv!StatsIn(server'.buffer) \subseteq Srv!StatsIn(server.buffer) \cup m.stats
    BY <1>1, <1>2, <2>1, <2>2, PutQuick
  <2> QED BY <2>1, <2>2, <2>3 DEF Quick, Buffered
<1>4. CASE HandOver(net)
  <2> DEFINE m == RecordMetric(queue[1])
  <2>1. /\ queue # <<>> /\ Srv!Put(m, net) /\ call.pc = "loop"
        /\ call' = [call EXCEPT !.handed = @ \/ Srv!PutRc(server, m, net) = "ok"]
    BY <1>4 DEF HandOver, Agg!HandOver, Agg!Due
  <2>2. m \in SrvP!Metric
    BY <2>1, QueuedFacts
  <2> HIDE DEF m
  <2>3. Srv!PutRc(server, m, net) # "ok"
    <3>1. call \in AggP!Calls
      BY WFacts DEF AggP!TypeOK
    <3>2. ~(call'.pc = "loop" /\ call'.handed)
      BY <1>1 DEF Flushing
    <3> QED BY <2>1, <3>1, <3>2 DEF AggP!Calls
  <2>4. server'.buffer = <<>>
    BY <1>1, <1>2, <2>1, <2>2, <2>3, PutQuick
  <2> QED BY <2>4 DEF Srv!StatsIn
<1> QED BY <1>3, <1>4

(* What the aggregator held leaves the worker in the call in which its     *)
(* time is up, or in which space is needed: none of it is left in the      *)
(* buffer for the flush timer, unless a flush failed.                      *)
THEOREM BufferIsFlushed == Spec => []FlushedAtOnce
<1>1. ASSUME Init PROVE Quick
  BY <1>1 DEF Init, Srv!NewServer, Quick, Buffered, Srv!StatsIn
<1>2. ASSUME WInv, Quick, [Next]_vars PROVE Quick'
  BY <1>2, OfferQuick, FlushStepQuick, PutStepQuick DEF Next, Call, QuietNext
<1>3. ASSUME Quick PROVE FlushedAtOnce
  BY <1>3 DEF Quick, FlushedAtOnce, Flushing, Agg!Idle, Agg!NoCall
<1> QED BY <1>1, <1>2, <1>3, Invariance, PTL DEF Spec
----------------------------------------------------------------------------
(* Without an aggregator nothing is held, and none of its calls is made.   *)
Bare ==
  options.aggregate \/ (/\ Fate({"held", "pending"}) = {}
                        /\ call = Agg!NoCall /\ deadline = Agg!NoTimer /\ posted = FALSE)

LEMMA BareStep == ASSUME Bare, [Next]_vars PROVE Bare'
<1>1. options' = options
  BY DEF Next, Call, Begin, EndModule, End, EndRequest, SendToBuffer, Enter, HandOver, EndTimer, EndStat,
         AggregateTimer, FlushTimer, Tick, Quit, Terminate, Exit, Collect, Bypass, vars
<1>2. SUFFICES ASSUME ~options.aggregate PROVE Bare'
  BY <1>1 DEF Bare
<1>3. CASE UNCHANGED <<seen, call, deadline, posted>>
  BY <1>1, <1>3 DEF Bare, Fate, Agg!NoCall, Agg!NoTimer
<1>4. ASSUME NEW s \in Series, Bypass(s) PROVE Bare'
  <2>1. /\ seen' = Append(seen, [series |-> s, fate |-> "declined"])
        /\ UNCHANGED <<call, deadline, posted>>
    BY <1>2, <1>4 DEF Bypass, Agg!See
  <2> QED BY <1>1, <1>2, <2>1 DEF Bare, Fate, Agg!NoCall, Agg!NoTimer
<1>5. ~\E s \in Series : Collect(s)
  BY <1>2 DEF Collect
<1>6. ~Enter /\ ~AggregateTimer /\ \A net : ~HandOver(net) /\ ~EndTimer(net) /\ ~EndStat(net)
  BY <1>2 DEF Bare, Agg!NoCall, Enter, Agg!Enter, AggregateTimer, Agg!TimerRuns, Agg!Expired, HandOver,
         EndTimer, Agg!EndTimer, EndStat, Agg!EndStored, Agg!EndDeclined, Agg!EndFailed, Agg!Returns
<1>7. \/ \E handler \in {"request", "module"} : Begin(handler)
      \/ EndModule \/ Tick \/ Quit \/ Terminate \/ Exit \/ UNCHANGED vars
      \/ \E net \in Nets : SendToBuffer(net) \/ EndRequest(net) \/ FlushTimer(net)
      \/ \E s \in Series : Bypass(s)
  BY <1>5, <1>6 DEF Next, Call
<1> QED BY <1>3, <1>4, <1>7
        DEF Begin, EndModule, End, Tick, Agg!Tick, Quit, Agg!Quit, Terminate, Agg!Terminate, Exit, Agg!Exit,
            vars, aggregator, SendToBuffer, EndRequest, FlushTimer

(* When a request's handler is done, flush_after_request has emptied the   *)
(* buffer, also of what other handlers and failed flushes had left there;  *)
(* only an aggregator keeps stats.  That it does is what the run           *)
(* sent_after_request shows.                                               *)
THEOREM RequestsAreSent == Spec => SentOrHeld
<1>1. ASSUME Init PROVE Bare
  BY <1>1 DEF Init, Agg!Init, Bare, Fate
<1>2. ASSUME Bare, [Next]_vars PROVE Bare'
  BY <1>2, BareStep
<1>3. ASSUME WInv, WInv', Bare', [Next]_vars
      PROVE  [(options.flush_after_request /\ phase = "request" /\ phase' = "loop" /\ ~server'.failed)
                => Inside' \subseteq IF options.aggregate THEN Fate({"held"})' ELSE {}]_vars
  <2>1. SUFFICES ASSUME Next, options.flush_after_request, phase = "request", phase' = "loop",
                        ~server'.failed
        PROVE  Inside' \subseteq IF options.aggregate THEN Fate({"held"})' ELSE {}
    BY <1>3
  <2>2. PICK net \in Nets : EndRequest(net)
    BY <2>1 DEF Next, Call, Begin, EndModule, Collect, Bypass, SendToBuffer, Enter, HandOver, EndTimer,
           EndStat, AggregateTimer, FlushTimer, Tick, Quit, Terminate, Exit
  <2>3. /\ server' = SrvP!Flushed(server, net) /\ options' = options
        /\ call' = Agg!NoCall /\ ~sending'
    BY <2>1, <2>2, FlushIs DEF EndRequest, End, Agg!Idle, aggregator
  <2>4. server'.buffer = <<>>
    BY <1>3, <2>1, <2>3, FlushQuick DEF WInv
  <2>5. Buffered' = {} /\ InFlight' = {}
    BY <2>3, <2>4 DEF Buffered, InFlight, Srv!StatsIn
  <2>6. Fate({"pending"})' = {}
    BY <1>3, <2>3 DEF WInv, PhaseInv, Agg!NoCall
  <2>7. Within' \subseteq Fate({"held"})'
    BY <2>5, <2>6 DEF Within, Fate
  <2>8. ~options.aggregate => Within' = {}
    BY <1>3, <2>3, <2>5 DEF Within, Bare
  <2> QED BY <2>7, <2>8 DEF Inside
<1> QED BY <1>1, <1>2, <1>3, Invariance, PTL DEF Spec, SentOrHeld
=============================================================================
