---------------------------- MODULE ServerProofs ----------------------------
(***************************************************************************)
(* The sending half of a server, for every buffer, every length of the     *)
(* metrics, every interval and however its socket calls end.               *)
(***************************************************************************)
EXTENDS ServerProps, FiniteSetTheorems, TLAPS

(* The facts about the clock; nothing here is recursive or folded.         *)
NoDef(c, f, x) == x
NoOp(a, x, y) == x
Clk == INSTANCE Lemmas WITH Def <- NoDef, Op <- NoOp

(* The server v with room for what is in its buffer, and no socket after   *)
(* ngx_exiting was set.                                                    *)
ServerOK(v) == v \in ServerType /\ v.used <= BufferSize /\ (stop = "quit" => ~v.conn)

Inv == TypeOK /\ BufferFits /\ NoSocketAfterQuit /\ FlushArmed

----------------------------------------------------------------------------
LEMMA Clock == ASSUME NEW n \in Int PROVE n % MsecWrap \in 0..MsecWrap-1
<1>1. MsecWrap \in Nat \ {0}
  BY ServerTimeAssumption
<1> QED BY <1>1

LEMMA StatsInNat == ASSUME NEW b \in Seq(Metric) PROVE StatsIn(b) \subseteq Nat
<1>1. \A i \in DOMAIN b : b[i] \in Metric
  OBVIOUS
<1>2. \A m \in Metric : m.stats \subseteq Nat
  BY DEF Metric
<1> QED BY <1>1, <1>2 DEF StatsIn

(* A flush keeps the server in order, however it ends, and leaves a buffer *)
(* that is either empty or as it was.                                      *)
LEMMA FlushedOK ==
  ASSUME NEW v, ServerOK(v), NEW net
  PROVE  /\ ServerOK(Flushed(v, net))
         /\ Flushed(v, net).used = v.used \/ Flushed(v, net).used = 0
<1>1. CASE v.used = 0
  BY <1>1 DEF Flushed
<1>2. CASE v.used # 0 /\ net \in {"unreachable", "refused"}
  <2>1. Flushed(v, net) = [v EXCEPT !.conn = FALSE, !.failed = TRUE]
    BY <1>2 DEF Flushed
  <2> QED BY <2>1 DEF ServerOK, ServerType
<1>3. CASE v.used # 0 /\ net \notin {"unreachable", "refused"}
  <2> DEFINE S == IF net = "sent" THEN StatsIn(v.buffer) ELSE {}
             L == IF net = "again" THEN StatsIn(v.buffer) ELSE {}
             w == [v EXCEPT !.buffer = <<>>, !.used = 0, !.failed = FALSE,
                            !.conn = ~Stopping, !.sent = @ \cup S, !.lost = @ \cup L]
  <2>1. Flushed(v, net) = w
    BY <1>3 DEF Flushed, Emptied, ServerOK, ServerType
  <2>2. S \subseteq Nat /\ L \subseteq Nat
    BY StatsInNat DEF ServerOK, ServerType
  <2> HIDE DEF S, L
  <2>3. <<>> \in Seq(Metric)
    OBVIOUS
  <2>4. (~Stopping) \in BOOLEAN /\ (stop = "quit" => Stopping)
    BY DEF Stopping
  <2>5. /\ w.used = 0 /\ w.buffer = <<>> /\ w.failed = FALSE /\ w.conn = ~Stopping
        /\ w.sent = v.sent \cup S /\ w.lost = v.lost \cup L /\ w.dropped = v.dropped
    BY DEF ServerOK, ServerType
  <2>6. w \in ServerType
    BY <2>2, <2>3, <2>4 DEF ServerOK, ServerType
  <2> HIDE DEF w
  <2>7. stop = "quit" => ~w.conn
    BY <2>4, <2>5
  <2>8. w.used <= BufferSize
    BY <2>5, BufferAssumption
  <2>9. ServerOK(w) /\ w.used = 0
    BY <2>5, <2>6, <2>7, <2>8 DEF ServerOK
  <2> QED BY <2>1, <2>9
<1> QED BY <1>1, <1>2, <1>3

(* A metric put into the buffer fits into it.                              *)
LEMMA FilledOK ==
  ASSUME NEW v, ServerOK(v), NEW m \in Metric, NEW net
  PROVE  /\ ServerOK(Filled(v, m, net))
         /\ PutRc(v, m, net) # "ok" =>
              Filled(v, m, net).used = v.used \/ Filled(v, m, net).used = 0
<1> DEFINE w == Room(v, m, net)
<1>1. ServerOK(w) /\ (w.used = v.used \/ w.used = 0)
  BY FlushedOK DEF Room
<1>2. m.size \in Nat /\ m.stats \subseteq Nat
  BY DEF Metric
<1>3. CASE Fits(w, m)
  <2>1. Filled(v, m, net) = [w EXCEPT !.buffer = Append(@, m), !.used = @ + m.size]
    BY <1>3 DEF Filled
  <2> HIDE DEF w
  <2>2. w.used + m.size <= BufferSize
    BY <1>1, <1>2, <1>3, BufferAssumption DEF Fits, ServerOK, ServerType
  <2>3. Append(w.buffer, m) \in Seq(Metric) /\ w.used + m.size \in Nat
    BY <1>1, <1>2 DEF ServerOK, ServerType
  <2>4. ServerOK(Filled(v, m, net))
    BY <1>1, <2>1, <2>2, <2>3 DEF ServerOK, ServerType
  <2> QED BY <1>3, <2>4 DEF PutRc, w
<1>4. CASE ~Fits(w, m)
  <2>1. Filled(v, m, net) = [w EXCEPT !.dropped = @ \cup m.stats]
    BY <1>4 DEF Filled
  <2> HIDE DEF w
  <2> QED BY <1>1, <1>2, <2>1 DEF ServerOK, ServerType
<1> QED BY <1>3, <1>4

(* ngx_statshouse_timer() leaves a timer whenever there is something to    *)
(* send and the worker runs.                                               *)
LEMMA ArmedOK ==
  ASSUME NEW v \in ServerType, NEW at \in {NoTimer} \cup 0..MsecWrap-1, now \in 0..MsecWrap-1
  PROVE  /\ Armed(v, at) \in {NoTimer} \cup 0..MsecWrap-1
         /\ (v.used > 0 /\ FlushInterval > 0 /\ ~Stopping) => Armed(v, at) # NoTimer
<1>1. (now + FlushInterval) % MsecWrap \in 0..MsecWrap-1
  <2>1. now + FlushInterval \in Int
    BY ServerTimeAssumption
  <2> QED BY <2>1, Clock
<1>2. (now + FlushInterval) % MsecWrap # NoTimer
  BY <1>1, ServerTimeAssumption DEF NoTimer
<1>3. v.used > 0 => v.used # 0
  BY DEF ServerType
<1>4. FlushInterval > 0 => FlushInterval # 0
  BY ServerTimeAssumption
<1>5. CASE FlushInterval = 0 \/ at # NoTimer \/ v.used = 0 \/ Stopping
  BY <1>3, <1>4, <1>5 DEF Armed
<1>6. CASE ~(FlushInterval = 0 \/ at # NoTimer \/ v.used = 0 \/ Stopping)
  BY <1>1, <1>2, <1>6 DEF Armed
<1> QED BY <1>5, <1>6

----------------------------------------------------------------------------
LEMMA InvServer == Inv => ServerOK(server)
BY DEF Inv, TypeOK, BufferFits, NoSocketAfterQuit, ServerOK

(* A step that leaves a server in order and its timer set.                 *)
LEMMA ServerStep ==
  ASSUME ServerOK(server'), stop' = stop, now' = now, TypeOK,
         flushAt' \in {NoTimer} \cup 0..MsecWrap-1, FlushArmed',
         busy' \in BOOLEAN, puts' \in Nat
  PROVE  Inv'
BY DEF Inv, TypeOK, BufferFits, NoSocketAfterQuit, ServerOK

LEMMA InitInv == Init => Inv
<1> SUFFICES ASSUME Init PROVE Inv
  OBVIOUS
<1>1. NewServer \in ServerType
  <2>1. <<>> \in Seq(Metric)
    OBVIOUS
  <2> QED BY <2>1 DEF NewServer, ServerType
<1>2. server.used = 0 /\ ~server.conn
  BY DEF Init, NewServer
<1>3. TypeOK
  BY <1>1 DEF Init, TypeOK
<1>4. BufferFits /\ FlushArmed
  BY <1>2, BufferAssumption DEF BufferFits, FlushArmed
<1>5. NoSocketAfterQuit
  BY <1>2 DEF NoSocketAfterQuit
<1> QED BY <1>3, <1>4, <1>5 DEF Inv

LEMMA PutsInv ==
  ASSUME Inv, NEW size \in Sizes, NEW net \in Nets, HandlerPuts(size, net)
  PROVE  Inv'
<1> DEFINE m == [stats |-> {puts + 1}, size |-> size, time |-> now]
<1>1. /\ server' = Filled(server, m, net)
      /\ flushAt' = IF PutRc(server, m, net) = "ok" THEN Armed(server', flushAt) ELSE flushAt
      /\ puts' = puts + 1 /\ UNCHANGED <<now, stop, busy>>
  BY DEF HandlerPuts, Put
<1>2. m \in Metric
  BY BufferAssumption DEF Inv, TypeOK, Metric
<1> HIDE DEF m
<1>3. /\ ServerOK(server') /\ TypeOK
      /\ PutRc(server, m, net) # "ok" => server'.used = server.used \/ server'.used = 0
  BY <1>1, <1>2, FilledOK, InvServer DEF Inv
<1>4. server' \in ServerType
  BY <1>3 DEF ServerOK
<1>5. flushAt' \in {NoTimer} \cup 0..MsecWrap-1 /\ FlushArmed'
  <2>1. CASE PutRc(server, m, net) = "ok"
    BY <1>1, <1>3, <1>4, <2>1, ArmedOK DEF TypeOK, FlushArmed, Stopping
  <2>2. CASE PutRc(server, m, net) # "ok"
    BY <1>1, <1>3, <2>2 DEF Inv, TypeOK, FlushArmed, Stopping
  <2> QED BY <2>1, <2>2
<1>6. puts' \in Nat /\ busy' \in BOOLEAN
  BY <1>1, <1>3 DEF TypeOK
<1>7. ServerOK(server')
  BY <1>3
<1> QED BY <1>1, <1>3, <1>5, <1>6, ServerStep

LEMMA FlushesInv == ASSUME Inv, NEW net \in Nets, HandlerFlushes(net) PROVE Inv'
<1>1. server' = Flushed(server, net) /\ UNCHANGED <<flushAt, now, stop, busy, puts>>
  BY DEF HandlerFlushes, Flush
<1>2. ServerOK(server') /\ (server'.used = server.used \/ server'.used = 0)
  BY <1>1, FlushedOK, InvServer
<1>3. FlushArmed'
  BY <1>1, <1>2 DEF Inv, FlushArmed, Stopping
<1> QED BY <1>1, <1>2, <1>3, ServerStep DEF Inv, TypeOK

LEMMA TimerInv == ASSUME Inv, NEW net \in Nets, TimerExpires(net) PROVE Inv'
<1>1. /\ server' = Flushed(server, net) /\ flushAt' = Armed(server', NoTimer)
      /\ UNCHANGED <<now, stop, busy, puts>>
  BY DEF TimerExpires, FlushTimer
<1>2. ServerOK(server') /\ server' \in ServerType
  BY <1>1, FlushedOK, InvServer DEF ServerOK
<1>3. flushAt' \in {NoTimer} \cup 0..MsecWrap-1 /\ FlushArmed'
  BY <1>1, <1>2, ArmedOK DEF Inv, TypeOK, FlushArmed, Stopping
<1> QED BY <1>1, <1>2, <1>3, ServerStep DEF Inv, TypeOK

LEMMA NextInv == ASSUME Inv, [Next]_vars PROVE Inv'
<1>1. CASE Begin \/ End
  BY <1>1 DEF Begin, End, Inv, TypeOK, BufferFits, NoSocketAfterQuit, FlushArmed, Stopping
<1>2. ASSUME NEW net \in Nets, NEW size \in Sizes, HandlerPuts(size, net) PROVE Inv'
  BY <1>2, PutsInv
<1>3. ASSUME NEW net \in Nets, HandlerFlushes(net) \/ TimerExpires(net) PROVE Inv'
  BY <1>3, FlushesInv, TimerInv
<1>4. CASE Tick
  <2>1. now' \in 0..MsecWrap-1
    <3>1. now + 1 \in Int
      BY ServerTimeAssumption DEF Inv, TypeOK
    <3> QED BY <1>4, <3>1, Clock DEF Tick
  <2> QED BY <1>4, <2>1 DEF Tick, Inv, TypeOK, BufferFits, NoSocketAfterQuit, FlushArmed, Stopping
<1>5. CASE Quit
  <2>1. server' = [server EXCEPT !.conn = FALSE]
    BY <1>5 DEF Quit, CloseIdle
  <2>2. /\ server' \in ServerType /\ server'.used = server.used /\ ~server'.conn
    BY <2>1 DEF Inv, TypeOK, ServerType
  <2> QED BY <1>5, <2>2 DEF Quit, Inv, TypeOK, BufferFits, NoSocketAfterQuit, FlushArmed, Stopping
<1>6. CASE Terminate \/ Exit
  BY <1>6 DEF Terminate, Exit, Inv, TypeOK, BufferFits, NoSocketAfterQuit, FlushArmed, Stopping
<1>7. CASE UNCHANGED vars
  BY <1>7 DEF vars, Inv, TypeOK, BufferFits, NoSocketAfterQuit, FlushArmed, Stopping
<1> QED BY <1>1, <1>2, <1>3, <1>4, <1>5, <1>6, <1>7 DEF Next

(* The inductive invariant of the server.                                  *)
THEOREM Invariance == Spec => []Inv
<1>1. Init => Inv
  BY InitInv
<1>2. Inv /\ [Next]_vars => Inv'
  BY NextInv
<1> QED BY <1>1, <1>2, PTL DEF Spec

(* Every variable keeps its type.                                          *)
THEOREM TypeCorrect == Spec => []TypeOK
<1>1. Inv => TypeOK
  BY DEF Inv
<1> QED BY <1>1, Invariance, PTL

(* The buffer is never overrun, whatever metrics come and whether flushes  *)
(* work.                                                                   *)
THEOREM BufferIsSafe == Spec => []BufferFits
<1>1. Inv => BufferFits
  BY DEF Inv
<1> QED BY <1>1, Invariance, PTL

(* Metrics in the buffer of a running worker always have a timer, also     *)
(* after flushes that failed.                                              *)
THEOREM FlushIsArmed == Spec => []FlushArmed
<1>1. Inv => FlushArmed
  BY DEF Inv
<1> QED BY <1>1, Invariance, PTL

(* A worker that quits keeps no socket between calls.                      *)
THEOREM SocketIsClosed == Spec => []NoSocketAfterQuit
<1>1. Inv => NoSocketAfterQuit
  BY DEF Inv
<1> QED BY <1>1, Invariance, PTL

----------------------------------------------------------------------------
(* What becomes of the stats.                                              *)

(* The stats T are in the buffer of v, were sent, were lost or were        *)
(* dropped, never two of these, and so is no other stat.                   *)
Account(v, T) ==
  /\ StatsIn(v.buffer) \cup v.sent \cup v.lost \cup v.dropped = T
  /\ StatsIn(v.buffer) \cap (v.sent \cup v.lost \cup v.dropped) = {}
  /\ v.sent \cap (v.lost \cup v.dropped) = {}
  /\ v.lost \cap v.dropped = {}

LEMMA StatsInNone == StatsIn(<<>>) = {}
BY DEF StatsIn

LEMMA StatsInAppend ==
  ASSUME NEW b \in Seq(Metric), NEW m \in Metric
  PROVE  StatsIn(Append(b, m)) = StatsIn(b) \cup m.stats
<1> DEFINE c == Append(b, m)
           k == Len(b)
<1>1. /\ k \in Nat /\ DOMAIN b = 1..k /\ DOMAIN c = 1..k+1
      /\ \A i \in 1..k : c[i] = b[i]
      /\ c[k+1] = m
      /\ 1..k+1 = 1..k \cup {k+1}
  OBVIOUS
<1> HIDE DEF c, k
<1>2. StatsIn(c) = StatsIn(b) \cup m.stats
  BY <1>1 DEF StatsIn
<1> QED BY <1>2 DEF c

(* The three ways ngx_statshouse_flush() leaves the server.                *)
LEMMA FlushedFields ==
  ASSUME NEW v \in ServerType, NEW net \in Nets, NEW w, w = Flushed(v, net)
  PROVE  \/ v.used = 0 /\ w = v
         \/ /\ v.used # 0 /\ w.failed
            /\ w.buffer = v.buffer /\ w.used = v.used
            /\ w.sent = v.sent /\ w.lost = v.lost /\ w.dropped = v.dropped
         \/ /\ v.used # 0 /\ ~w.failed
            /\ w.buffer = <<>> /\ w.used = 0 /\ w.dropped = v.dropped
            /\ \/ w.sent = v.sent \cup StatsIn(v.buffer) /\ w.lost = v.lost
               \/ w.sent = v.sent /\ w.lost = v.lost \cup StatsIn(v.buffer)
<1>1. CASE v.used = 0
  BY <1>1 DEF Flushed
<1>2. CASE v.used # 0 /\ net \in {"unreachable", "refused"}
  <2>1. w = [v EXCEPT !.conn = FALSE, !.failed = TRUE]
    BY <1>2 DEF Flushed
  <2> QED BY <1>2, <2>1 DEF ServerType
<1>3. CASE v.used # 0 /\ net \in {"sent", "again"}
  <2> DEFINE e == Emptied(v)
             S == IF net = "sent" THEN StatsIn(v.buffer) ELSE {}
             L == IF net = "again" THEN StatsIn(v.buffer) ELSE {}
  <2>1. <<>> \in Seq(Metric)
    OBVIOUS
  <2>2. /\ e \in ServerType /\ ~e.failed /\ e.buffer = <<>> /\ e.used = 0
        /\ e.sent = v.sent /\ e.lost = v.lost /\ e.dropped = v.dropped
    BY <2>1 DEF Emptied, ServerType
  <2>3. w = [e EXCEPT !.conn = ~Stopping, !.sent = @ \cup S, !.lost = @ \cup L]
    BY <1>3 DEF Flushed
  <2>4. \/ S = StatsIn(v.buffer) /\ L = {}
        \/ S = {} /\ L = StatsIn(v.buffer)
    BY <1>3
  <2> HIDE DEF e, S, L
  <2>5. /\ ~w.failed /\ w.buffer = <<>> /\ w.used = 0 /\ w.dropped = v.dropped
        /\ w.sent = v.sent \cup S /\ w.lost = v.lost \cup L
    BY <2>2, <2>3 DEF ServerType
  <2>6. \/ w.sent = v.sent \cup StatsIn(v.buffer) /\ w.lost = v.lost
        \/ w.sent = v.sent /\ w.lost = v.lost \cup StatsIn(v.buffer)
    BY <2>4, <2>5
  <2> QED BY <1>3, <2>5, <2>6
<1> QED BY <1>1, <1>2, <1>3 DEF Nets

(* What ngx_statshouse_send_to_buffer() puts or drops, after its flush.    *)
LEMMA FilledFields ==
  ASSUME NEW v, ServerOK(v), NEW m \in Metric, NEW net \in Nets, NEW u, u = Filled(v, m, net)
  PROVE  \E w \in ServerType :
           /\ w = v \/ w = Flushed(v, net)
           /\ u.failed = w.failed /\ u.sent = w.sent /\ u.lost = w.lost
           /\ \/ /\ PutRc(v, m, net) = "ok"
                 /\ u.buffer = Append(w.buffer, m) /\ u.used = w.used + m.size
                 /\ u.dropped = w.dropped
              \/ /\ PutRc(v, m, net) # "ok" /\ w = Flushed(v, net)
                 /\ u.buffer = w.buffer /\ u.used = w.used
                 /\ u.dropped = w.dropped \cup m.stats
<1> DEFINE w == Room(v, m, net)
<1>1. w \in ServerType /\ (w = v \/ w = Flushed(v, net)) /\ (~Fits(w, m) => w = Flushed(v, net))
  BY FlushedOK DEF Room, ServerOK
<1>2. PutRc(v, m, net) = IF Fits(w, m) THEN "ok" ELSE "declined"
  BY DEF PutRc
<1>3. u = IF Fits(w, m)
            THEN [w EXCEPT !.buffer = Append(@, m), !.used = @ + m.size]
            ELSE [w EXCEPT !.dropped = @ \cup m.stats]
  BY DEF Filled
<1> HIDE DEF w
<1>4. /\ u.failed = w.failed /\ u.sent = w.sent /\ u.lost = w.lost
      /\ Fits(w, m) => /\ u.buffer = Append(w.buffer, m) /\ u.used = w.used + m.size
                       /\ u.dropped = w.dropped
      /\ ~Fits(w, m) => /\ u.buffer = w.buffer /\ u.used = w.used
                        /\ u.dropped = w.dropped \cup m.stats
  <2>1. CASE Fits(w, m)
    BY <1>1, <1>3, <2>1 DEF ServerType
  <2>2. CASE ~Fits(w, m)
    BY <1>1, <1>3, <2>2 DEF ServerType
  <2> QED BY <2>1, <2>2
<1> QED BY <1>1, <1>2, <1>4

(* A flush moves all the stats of the buffer, or none.                     *)
LEMMA FlushedAccount ==
  ASSUME NEW v \in ServerType, NEW net \in Nets, NEW T, Account(v, T)
  PROVE  Account(Flushed(v, net), T)
<1> DEFINE w == Flushed(v, net)
<1>1. \/ v.used = 0 /\ w = v
      \/ /\ w.buffer = v.buffer
         /\ w.sent = v.sent /\ w.lost = v.lost /\ w.dropped = v.dropped
      \/ /\ StatsIn(w.buffer) = {} /\ w.dropped = v.dropped
         /\ \/ w.sent = v.sent \cup StatsIn(v.buffer) /\ w.lost = v.lost
            \/ w.sent = v.sent /\ w.lost = v.lost \cup StatsIn(v.buffer)
  BY FlushedFields, StatsInNone
<1> HIDE DEF w
<1>2. Account(w, T)
  BY <1>1 DEF Account
<1> QED BY <1>2 DEF w

(* New stats go to one place, and they were in none before.                *)
LEMMA FilledAccount ==
  ASSUME NEW v, ServerOK(v), NEW m \in Metric, NEW net \in Nets, NEW T, Account(v, T),
         m.stats \cap T = {}
  PROVE  Account(Filled(v, m, net), T \cup m.stats)
<1> DEFINE u == Filled(v, m, net)
<1>1. PICK w \in ServerType :
        /\ w = v \/ w = Flushed(v, net)
        /\ u.sent = w.sent /\ u.lost = w.lost
        /\ \/ u.buffer = Append(w.buffer, m) /\ u.dropped = w.dropped
           \/ u.buffer = w.buffer /\ u.dropped = w.dropped \cup m.stats
  BY FilledFields
<1> HIDE DEF u
<1>2. Account(w, T)
  BY <1>1, FlushedAccount DEF ServerOK
<1>3. w.buffer \in Seq(Metric)
  BY DEF ServerType
<1> DEFINE held == StatsIn(w.buffer)
<1>4. StatsIn(Append(w.buffer, m)) = held \cup m.stats
  BY <1>3, StatsInAppend
<1>5. /\ held \cup w.sent \cup w.lost \cup w.dropped = T
      /\ held \cap (w.sent \cup w.lost \cup w.dropped) = {}
      /\ w.sent \cap (w.lost \cup w.dropped) = {} /\ w.lost \cap w.dropped = {}
  BY <1>2 DEF Account
<1>6. \/ StatsIn(u.buffer) = held \cup m.stats /\ u.dropped = w.dropped
      \/ StatsIn(u.buffer) = held /\ u.dropped = w.dropped \cup m.stats
  BY <1>1, <1>4
<1> HIDE DEF held
<1>7. Account(u, T \cup m.stats)
  BY <1>1, <1>5, <1>6 DEF Account
<1> QED BY <1>7 DEF u

LEMMA NextAccount == ASSUME Inv, Account(server, 1..puts), [Next]_vars PROVE Account(server, 1..puts)'
<1>1. ServerOK(server) /\ server \in ServerType /\ puts \in Nat /\ now \in 0..MsecWrap-1
  BY InvServer DEF Inv, TypeOK
<1>2. ASSUME NEW net \in Nets, NEW size \in Sizes, HandlerPuts(size, net)
      PROVE  Account(server, 1..puts)'
  <2> DEFINE m == [stats |-> {puts + 1}, size |-> size, time |-> now]
  <2>1. server' = Filled(server, m, net) /\ puts' = puts + 1
    BY <1>2 DEF HandlerPuts, Put
  <2>2. m \in Metric /\ m.stats = {puts + 1}
    BY <1>1, BufferAssumption DEF Metric
  <2> HIDE DEF m
  <2>3. m.stats \cap 1..puts = {} /\ 1..puts+1 = 1..puts \cup m.stats
    BY <1>1, <2>2
  <2>4. Account(Filled(server, m, net), 1..puts \cup m.stats)
    BY <1>1, <2>2, <2>3, FilledAccount
  <2>5. Account(server', 1..puts')
    BY <2>1, <2>3, <2>4
  <2> QED BY <2>5 DEF Account, StatsIn
<1>3. ASSUME NEW net \in Nets, HandlerFlushes(net) \/ TimerExpires(net)
      PROVE  Account(server, 1..puts)'
  <2>1. server' = Flushed(server, net) /\ puts' = puts
    BY <1>3 DEF HandlerFlushes, Flush, TimerExpires, FlushTimer
  <2>2. Account(server', 1..puts')
    BY <1>1, <2>1, FlushedAccount
  <2> QED BY <2>2 DEF Account, StatsIn
<1>4. CASE Quit
  <2>1. server' = [server EXCEPT !.conn = FALSE] /\ puts' = puts
    BY <1>4 DEF Quit, CloseIdle
  <2>2. /\ server'.buffer = server.buffer /\ server'.sent = server.sent
        /\ server'.lost = server.lost /\ server'.dropped = server.dropped
    BY <1>1, <2>1 DEF ServerType
  <2> QED BY <2>1, <2>2 DEF Account, StatsIn
<1>5. CASE Begin \/ End \/ Tick \/ Terminate \/ Exit \/ UNCHANGED vars
  BY <1>5 DEF Begin, End, Tick, Terminate, Exit, vars, Account, StatsIn
<1> QED BY <1>2, <1>3, <1>4, <1>5 DEF Next

(* Four sets that make up 1..n and share nothing have n members together.  *)
LEMMA FourParts ==
  ASSUME NEW n \in Nat, NEW A, NEW B, NEW C, NEW D,
         A \cup B \cup C \cup D = 1..n,
         A \cap (B \cup C \cup D) = {}, B \cap (C \cup D) = {}, C \cap D = {}
  PROVE  Cardinality(A) + Cardinality(B) + Cardinality(C) + Cardinality(D) = n
<1>1. IsFiniteSet(1..n) /\ Cardinality(1..n) = n
  BY FS_Interval
<1>2. IsFiniteSet(A) /\ IsFiniteSet(B) /\ IsFiniteSet(C) /\ IsFiniteSet(D)
  BY <1>1, FS_Subset
<1>3. /\ Cardinality(A) \in Nat /\ Cardinality(B) \in Nat
      /\ Cardinality(C) \in Nat /\ Cardinality(D) \in Nat
  BY <1>2, FS_CardinalityType
<1>4. ASSUME NEW S, NEW T, IsFiniteSet(S), IsFiniteSet(T), S \cap T = {}
      PROVE  /\ IsFiniteSet(S \cup T)
             /\ Cardinality(S \cup T) = Cardinality(S) + Cardinality(T)
  <2>1. /\ IsFiniteSet(S \cup T)
        /\ Cardinality(S \cup T) = Cardinality(S) + Cardinality(T) - Cardinality(S \cap T)
    BY <1>4, FS_Union
  <2>2. Cardinality(S \cap T) = 0 /\ Cardinality(S) \in Nat /\ Cardinality(T) \in Nat
    BY <1>4, FS_EmptySet, FS_CardinalityType
  <2> QED BY <2>1, <2>2
<1>5. /\ IsFiniteSet(C \cup D)
      /\ Cardinality(C \cup D) = Cardinality(C) + Cardinality(D)
  BY <1>2, <1>4
<1>6. /\ IsFiniteSet(B \cup (C \cup D))
      /\ Cardinality(B \cup (C \cup D)) = Cardinality(B) + Cardinality(C \cup D)
  BY <1>2, <1>4, <1>5
<1>7. Cardinality(A \cup (B \cup (C \cup D))) = Cardinality(A) + Cardinality(B \cup (C \cup D))
  <2>1. A \cap (B \cup (C \cup D)) = {}
    OBVIOUS
  <2> QED BY <1>2, <1>4, <1>6, <2>1
<1>8. Cardinality(A \cup (B \cup (C \cup D))) = n
  <2>1. A \cup (B \cup (C \cup D)) = 1..n
    OBVIOUS
  <2> QED BY <1>1, <2>1
<1>9. n = Cardinality(A) + (Cardinality(B) + (Cardinality(C) + Cardinality(D)))
  BY <1>5, <1>6, <1>7, <1>8
<1> QED BY <1>3, <1>9

(* No stat is ever sent twice, lost after it was sent, or sent and counted *)
(* as dropped: whatever flushes fail and are tried again, each stat put is *)
(* in one place.                                                           *)
THEOREM SentAtMostOnce == Spec => []AtMostOnce
<1> DEFINE AI == Inv /\ Account(server, 1..puts)
<1>1. Init => AI
  <2> SUFFICES ASSUME Init PROVE AI
    OBVIOUS
  <2>1. /\ StatsIn(server.buffer) = {} /\ server.sent = {} /\ server.lost = {}
        /\ server.dropped = {} /\ 1..puts = {}
    BY StatsInNone DEF Init, NewServer
  <2> QED BY <2>1, InitInv DEF Account
<1>2. AI /\ [Next]_vars => AI'
  BY NextInv, NextAccount
<1>3. AI => AtMostOnce
  <2> SUFFICES ASSUME AI PROVE AtMostOnce
    OBVIOUS
  <2>1. puts \in Nat
    BY DEF Inv, TypeOK
  <2> QED BY <2>1, FourParts DEF Account, AtMostOnce
<1> QED BY <1>1, <1>2, <1>3, PTL DEF Spec

(* A stat is dropped only right after a flush that failed, or because the  *)
(* whole buffer has no room for it.                                        *)
THEOREM DropsHaveCause == Spec => DropsForCause
<1>1. ASSUME Inv, [Next]_vars
      PROVE  server'.dropped # server.dropped => server'.failed \/ server'.used = 0
  <2>1. ServerOK(server) /\ server \in ServerType /\ puts \in Nat /\ now \in 0..MsecWrap-1
    BY <1>1, InvServer DEF Inv, TypeOK
  <2>2. ASSUME NEW net \in Nets, NEW size \in Sizes, HandlerPuts(size, net),
               server'.dropped # server.dropped
        PROVE  server'.failed \/ server'.used = 0
    <3> DEFINE m == [stats |-> {puts + 1}, size |-> size, time |-> now]
               f == Flushed(server, net)
    <3>1. server' = Filled(server, m, net) /\ m \in Metric
      BY <2>1, <2>2, BufferAssumption DEF HandlerPuts, Put, Metric
    <3> HIDE DEF m
    <3>2. f.dropped = server.dropped /\ (f.used = 0 \/ f.failed)
      BY <2>1, FlushedFields
    <3> HIDE DEF f
    <3>3. server'.dropped = server.dropped \/ (server'.failed = f.failed /\ server'.used = f.used)
      BY <2>1, <3>1, <3>2, FilledFields DEF f
    <3> QED BY <2>2, <3>2, <3>3
  <2>3. ASSUME NEW net \in Nets, HandlerFlushes(net) \/ TimerExpires(net)
        PROVE  server'.dropped = server.dropped
    BY <2>1, <2>3, FlushedFields DEF HandlerFlushes, Flush, TimerExpires, FlushTimer
  <2>4. CASE Quit
    BY <2>1, <2>4 DEF Quit, CloseIdle, ServerType
  <2>5. CASE Begin \/ End \/ Tick \/ Terminate \/ Exit \/ UNCHANGED vars
    BY <2>5 DEF Begin, End, Tick, Terminate, Exit, vars
  <2> QED BY <1>1, <2>2, <2>3, <2>4, <2>5 DEF Next
<1>2. Inv /\ [Next]_vars =>
        [server'.dropped # server.dropped => server'.failed \/ server'.used = 0]_vars
  BY <1>1
<1> QED BY <1>2, Invariance, PTL DEF Spec, DropsForCause

----------------------------------------------------------------------------
(* How long metrics wait in the buffer.                                    *)

(* A timer that is set expires within the flush interval or has expired no *)
(* longer than MaxLag ago.  What is due in k is seen as MsecWrap - k old.  *)
TimerSound(d) ==
  d # NoTimer => Elapsed(d) <= MaxLag \/ MsecWrap - Elapsed(d) \in 1..FlushInterval

(* What was put at t is FlushInterval old when the timer d expires, or     *)
(* younger.                                                                *)
InTime(t, d) ==
  \/ Elapsed(d) <= MaxLag /\ Elapsed(t) <= FlushInterval + Elapsed(d)
  \/ /\ MsecWrap - Elapsed(d) \in 1..FlushInterval
     /\ Elapsed(t) + (MsecWrap - Elapsed(d)) <= FlushInterval

Waits(b, d) == d # NoTimer => \A i \in DOMAIN b : InTime(b[i].time, d)

Prompt(v) == FlushInterval > 0 /\ ~v.failed /\ stop = "run"

EmptyOK(v) == v.used = 0 => v.buffer = <<>>

(* No flush of v has failed: then all of its buffer waits for the timer.   *)
ClockInv(v, d) == EmptyOK(v) /\ TimerSound(d) /\ (Prompt(v) => Waits(v.buffer, d))

CInv == Inv /\ ClockInv(server, flushAt)

LEMMA Times ==
  /\ MsecWrap \in Nat \ {0} /\ FlushInterval \in Nat /\ MaxLag \in Nat
  /\ 2 * (FlushInterval + MaxLag) < MsecWrap
BY ServerTimeAssumption

LEMMA ElapsedType ==
  ASSUME now \in 0..MsecWrap-1, NEW t \in 0..MsecWrap-1
  PROVE  Elapsed(t) \in 0..MsecWrap-1
BY Times, Clk!SinceType DEF Elapsed

(* ngx_statshouse_timer() sets a timer that expires in time.               *)
LEMMA ArmedSound ==
  ASSUME now \in 0..MsecWrap-1, NEW v, NEW d, TimerSound(d)
  PROVE  TimerSound(Armed(v, d))
<1>1. CASE FlushInterval = 0 \/ d # NoTimer \/ v.used = 0 \/ Stopping
  BY <1>1 DEF Armed
<1>2. CASE ~(FlushInterval = 0 \/ d # NoTimer \/ v.used = 0 \/ Stopping)
  <2> DEFINE e == (now + FlushInterval) % MsecWrap
  <2>1. Armed(v, d) = e
    BY <1>2 DEF Armed
  <2>2. FlushInterval \in 1..FlushInterval /\ FlushInterval \in 0..MsecWrap-1
    BY <1>2, Times
  <2>3. e \in 0..MsecWrap-1 /\ (now - e) % MsecWrap = MsecWrap - FlushInterval
    <3>1. MsecWrap \in Nat \ {0} /\ FlushInterval # 0
      BY <1>2, Times
    <3>2. /\ (now + FlushInterval) % MsecWrap \in 0..MsecWrap-1
          /\ (now - ((now + FlushInterval) % MsecWrap)) % MsecWrap
               = IF FlushInterval = 0 THEN 0 ELSE MsecWrap - FlushInterval
      BY <2>2, <3>1, Clk!SinceAhead
    <3> QED BY <2>2, <3>1, <3>2
  <2> HIDE DEF e
  <2>4. MsecWrap - Elapsed(e) = FlushInterval
    BY <2>3, Times DEF Elapsed
  <2> QED BY <2>1, <2>2, <2>4 DEF TimerSound
<1> QED BY <1>1, <1>2

(* A metric put now is in time for every timer that is set.                *)
LEMMA NewWaits ==
  ASSUME now \in 0..MsecWrap-1, NEW d \in {NoTimer} \cup 0..MsecWrap-1, TimerSound(d),
         NEW b \in Seq(Metric), Waits(b, d), NEW m \in Metric, m.time = now
  PROVE  Waits(Append(b, m), d)
<1> SUFFICES ASSUME d # NoTimer PROVE \A i \in DOMAIN Append(b, m) : InTime(Append(b, m)[i].time, d)
  BY DEF Waits
<1>1. Elapsed(d) \in 0..MsecWrap-1 /\ Elapsed(now) = 0
  BY Times, ElapsedType, Clk!SinceNow DEF Elapsed
<1>2. InTime(now, d)
  BY <1>1, Times DEF InTime, TimerSound
<1>3. \A i \in DOMAIN Append(b, m) :
         (i \in DOMAIN b /\ Append(b, m)[i] = b[i]) \/ Append(b, m)[i] = m
  OBVIOUS
<1> QED BY <1>2, <1>3 DEF Waits

LEMMA NoneWaits == ASSUME NEW d PROVE Waits(<<>>, d)
BY DEF Waits

(* While the clock stands, ages change with the server and the timer only. *)
LEMMA ClockStands ==
  ASSUME now' = now, stop' = stop, ClockInv(server', flushAt')
  PROVE  ClockInv(server, flushAt)'
BY DEF ClockInv, EmptyOK, TimerSound, Prompt, Waits, InTime, Elapsed

(* After a flush of v that did not fail, the buffer is empty.              *)
LEMMA FlushedEmpty ==
  ASSUME NEW v \in ServerType, EmptyOK(v), NEW net \in Nets
  PROVE  /\ EmptyOK(Flushed(v, net))
         /\ ~Flushed(v, net).failed => Flushed(v, net).buffer = <<>>
BY FlushedFields DEF EmptyOK

LEMMA FilledEmpty ==
  ASSUME NEW v, ServerOK(v), EmptyOK(v), NEW m \in Metric, m.size # 0, NEW net \in Nets
  PROVE  EmptyOK(Filled(v, m, net))
<1> DEFINE u == Filled(v, m, net)
<1>1. PICK w \in ServerType :
        /\ w = v \/ w = Flushed(v, net)
        /\ \/ u.buffer = Append(w.buffer, m) /\ u.used = w.used + m.size
           \/ u.buffer = w.buffer /\ u.used = w.used
  BY FilledFields
<1> HIDE DEF u
<1>2. w.used \in Nat /\ m.size \in Nat \ {0} /\ v \in ServerType
  BY DEF ServerType, Metric, ServerOK
<1>3. EmptyOK(w)
  BY <1>1, <1>2, FlushedEmpty
<1>4. EmptyOK(u)
  BY <1>1, <1>2, <1>3 DEF EmptyOK
<1> QED BY <1>4 DEF u

LEMMA PutsClock ==
  ASSUME CInv, Inv', NEW size \in Sizes, NEW net \in Nets, HandlerPuts(size, net)
  PROVE  ClockInv(server, flushAt)'
<1> DEFINE m == [stats |-> {puts + 1}, size |-> size, time |-> now]
<1>1. /\ server' = Filled(server, m, net)
      /\ flushAt' = IF PutRc(server, m, net) = "ok" THEN Armed(server', flushAt) ELSE flushAt
      /\ now' = now /\ stop' = stop
  BY DEF HandlerPuts, Put
<1>2. /\ m \in Metric /\ m.time = now /\ m.size \in Nat \ {0}
      /\ ServerOK(server) /\ server \in ServerType /\ server.used \in Nat
      /\ now \in 0..MsecWrap-1 /\ flushAt' \in {NoTimer} \cup 0..MsecWrap-1
      /\ ClockInv(server, flushAt)
  BY InvServer, BufferAssumption DEF CInv, Inv, TypeOK, Metric, ServerType
<1> HIDE DEF m
<1>3. TimerSound(flushAt')
  BY <1>1, <1>2, ArmedSound DEF ClockInv
<1>4. flushAt' = flushAt \/ flushAt = NoTimer
  BY <1>1 DEF Armed
<1>5. PICK w \in ServerType :
        /\ w = server \/ w = Flushed(server, net)
        /\ server'.failed = w.failed
        /\ \/ server'.buffer = Append(w.buffer, m)
           \/ server'.buffer = w.buffer /\ flushAt' = flushAt
  BY <1>1, <1>2, FilledFields
<1>6. EmptyOK(w) /\ (~w.failed => w = server \/ w.buffer = <<>>)
  BY <1>2, <1>5, FlushedEmpty DEF ClockInv
<1>7. w.buffer \in Seq(Metric)
  BY <1>5 DEF ServerType
<1>8. EmptyOK(server')
  BY <1>1, <1>2, FilledEmpty DEF ClockInv
<1>9. ASSUME Prompt(server') PROVE Waits(server'.buffer, flushAt')
  <2>1. w.buffer = <<>> \/ (w = server /\ Waits(server.buffer, flushAt))
    BY <1>2, <1>5, <1>6, <1>9 DEF Prompt, ClockInv
  <2>2. flushAt = NoTimer /\ w = server => w.buffer = <<>>
    BY <1>2, <1>9 DEF CInv, Inv, FlushArmed, Stopping, Prompt, ClockInv, EmptyOK
  <2>3. Waits(w.buffer, flushAt')
    BY <1>4, <2>1, <2>2, NoneWaits
  <2>4. Waits(Append(w.buffer, m), flushAt')
    BY <1>2, <1>3, <1>7, <2>3, NewWaits
  <2> QED BY <1>5, <2>3, <2>4
<1>10. ClockInv(server', flushAt')
  BY <1>3, <1>8, <1>9 DEF ClockInv
<1> QED BY <1>1, <1>10, ClockStands

LEMMA FlushesClock ==
  ASSUME CInv, NEW net \in Nets, HandlerFlushes(net) \/ TimerExpires(net)
  PROVE  ClockInv(server, flushAt)'
<1>1. /\ server' = Flushed(server, net) /\ now' = now /\ stop' = stop
      /\ flushAt' = flushAt \/ flushAt' = Armed(server', NoTimer)
  BY DEF HandlerFlushes, Flush, TimerExpires, FlushTimer
<1>2. server \in ServerType /\ now \in 0..MsecWrap-1 /\ ClockInv(server, flushAt)
  BY DEF CInv, Inv, TypeOK
<1>3. TimerSound(flushAt')
  <2>1. TimerSound(NoTimer)
    BY DEF TimerSound
  <2> QED BY <1>1, <1>2, <2>1, ArmedSound DEF ClockInv
<1>4. EmptyOK(server') /\ (~server'.failed => server'.buffer = <<>>)
  BY <1>1, <1>2, FlushedEmpty DEF ClockInv
<1>5. ClockInv(server', flushAt')
  BY <1>3, <1>4, NoneWaits DEF ClockInv, Prompt
<1> QED BY <1>1, <1>5, ClockStands

(* ngx_time_update(): metrics grow older and the timer comes closer, or    *)
(* waits no longer than MaxLag to run.                                     *)
LEMMA TickClock == ASSUME CInv, Tick PROVE ClockInv(server, flushAt)'
<1> DEFINE dd == Elapsed(flushAt)
           next == (now + 1) % MsecWrap
           Older(a) == IF a = MsecWrap - 1 THEN 0 ELSE a + 1
<1>1. /\ server' = server /\ flushAt' = flushAt /\ stop' = stop /\ now' = next
      /\ Expired => dd < MaxLag
      /\ ClockInv(server, flushAt) /\ now \in 0..MsecWrap-1
      /\ flushAt \in {NoTimer} \cup 0..MsecWrap-1 /\ server \in ServerType
  BY DEF CInv, Inv, TypeOK, Tick
<1>2. ASSUME NEW t \in 0..MsecWrap-1
      PROVE  Elapsed(t) \in 0..MsecWrap-1 /\ (now' - t) % MsecWrap = Older(Elapsed(t))
  BY <1>1, Times, Clk!SinceTick, Clk!SinceType DEF Elapsed
<1>3. EmptyOK(server')
  BY <1>1 DEF ClockInv
<1>4. CASE flushAt = NoTimer
  BY <1>1, <1>3, <1>4 DEF ClockInv, EmptyOK, TimerSound, Waits
<1>5. CASE flushAt # NoTimer
  <2>1. dd \in 0..MsecWrap-1 /\ (now' - flushAt') % MsecWrap = Older(dd)
    BY <1>1, <1>2, <1>5
  <2>2. dd <= MaxLag => dd < MaxLag
    BY <1>1, <1>5, <2>1, Times DEF Expired
  <2> DEFINE ee == Older(dd)
  <2>3. ee <= MaxLag \/ MsecWrap - ee \in 1..FlushInterval
    <3>1. dd <= MaxLag \/ MsecWrap - dd \in 1..FlushInterval
      BY <1>1, <1>5 DEF ClockInv, TimerSound
    <3> QED BY <2>1, <2>2, <3>1, Times
  <2>4. ASSUME NEW a \in 0..MsecWrap-1,
               \/ dd <= MaxLag /\ a <= FlushInterval + dd
               \/ MsecWrap - dd \in 1..FlushInterval /\ a + (MsecWrap - dd) <= FlushInterval
        PROVE  \/ ee <= MaxLag /\ Older(a) <= FlushInterval + ee
               \/ MsecWrap - ee \in 1..FlushInterval /\ Older(a) + (MsecWrap - ee) <= FlushInterval
    <3>1. CASE dd <= MaxLag /\ a <= FlushInterval + dd
      BY <2>1, <2>2, <2>4, <3>1, Times
    <3>2. CASE MsecWrap - dd \in 1..FlushInterval /\ a + (MsecWrap - dd) <= FlushInterval
      BY <2>1, <2>4, <3>2, Times
    <3> QED BY <2>4, <3>1, <3>2
  <2>5. TimerSound(flushAt)'
    BY <1>1, <2>1, <2>3 DEF TimerSound, Elapsed
  <2>6. ASSUME Prompt(server), NEW i \in DOMAIN server.buffer
        PROVE  InTime(server.buffer[i].time, flushAt)'
    <3>1. server.buffer[i].time \in 0..MsecWrap-1
      <4>1. server.buffer[i] \in Metric
        BY <1>1, <2>6 DEF ServerType
      <4> QED BY <4>1 DEF Metric
    <3> DEFINE t == server.buffer[i].time
               a == Elapsed(t)
    <3>2. a \in 0..MsecWrap-1 /\ (now' - t) % MsecWrap = Older(a)
      BY <1>2, <3>1
    <3>3. \/ dd <= MaxLag /\ a <= FlushInterval + dd
          \/ MsecWrap - dd \in 1..FlushInterval /\ a + (MsecWrap - dd) <= FlushInterval
      BY <1>1, <1>5, <2>6 DEF ClockInv, Waits, InTime
    <3> HIDE DEF a, dd, Older
    <3>4. \/ ee <= MaxLag /\ Older(a) <= FlushInterval + ee
          \/ MsecWrap - ee \in 1..FlushInterval /\ Older(a) + (MsecWrap - ee) <= FlushInterval
      BY <2>4, <3>2, <3>3
    <3> QED BY <1>1, <2>1, <3>2, <3>4 DEF InTime, Elapsed
  <2> QED BY <1>1, <1>3, <2>5, <2>6 DEF ClockInv, EmptyOK, Prompt, Waits
<1> QED BY <1>4, <1>5

LEMMA NextCInv == ASSUME CInv, [Next]_vars PROVE CInv'
<1>1. Inv' /\ ClockInv(server, flushAt)
  BY NextInv DEF CInv
<1>2. ASSUME NEW net \in Nets, NEW size \in Sizes, HandlerPuts(size, net) PROVE CInv'
  BY <1>1, <1>2, PutsClock DEF CInv
<1>3. ASSUME NEW net \in Nets, HandlerFlushes(net) \/ TimerExpires(net) PROVE CInv'
  BY <1>1, <1>3, FlushesClock DEF CInv
<1>4. CASE Tick
  BY <1>1, <1>4, TickClock DEF CInv
<1>5. CASE Quit \/ Terminate \/ Exit
  <2>1. /\ server'.used = server.used /\ server'.buffer = server.buffer
        /\ flushAt' = flushAt /\ now' = now /\ stop' # "run"
    BY <1>5 DEF Quit, CloseIdle, Terminate, Exit, CInv, Inv, TypeOK, ServerType
  <2>2. ClockInv(server, flushAt)'
    BY <1>1, <2>1 DEF ClockInv, EmptyOK, TimerSound, Prompt, Elapsed
  <2> QED BY <1>1, <2>2 DEF CInv
<1>6. CASE Begin \/ End \/ UNCHANGED vars
  <2>1. server' = server /\ flushAt' = flushAt /\ now' = now /\ stop' = stop
    BY <1>6 DEF Begin, End, vars
  <2>2. ClockInv(server', flushAt')
    BY <1>1, <2>1
  <2> QED BY <1>1, <2>1, <2>2, ClockStands DEF CInv
<1> QED BY <1>2, <1>3, <1>4, <1>5, <1>6 DEF Next

(* While no flush fails, no metric stays in the buffer of a running worker *)
(* longer than the flush interval and the event loop's delay, whenever the *)
(* clock wraps and however flushes by hand and by the timer follow.        *)
THEOREM MetricsLeaveInTime == Spec => []WaitsNoLonger
<1>1. Init => CInv
  <2> SUFFICES ASSUME Init PROVE ClockInv(server, flushAt)
    BY InitInv DEF CInv
  <2>1. server.buffer = <<>> /\ flushAt = NoTimer
    BY DEF Init, NewServer
  <2> QED BY <2>1 DEF ClockInv, EmptyOK, TimerSound, Waits
<1>2. CInv /\ [Next]_vars => CInv'
  BY NextCInv
<1>3. CInv => WaitsNoLonger
  <2> SUFFICES ASSUME CInv, Prompt(server), NEW i \in DOMAIN server.buffer
               PROVE  Elapsed(server.buffer[i].time) <= FlushInterval + MaxLag
    BY DEF WaitsNoLonger, Prompt, Elapsed
  <2>1. server.used # 0 /\ server.used \in Nat
    BY DEF CInv, ClockInv, EmptyOK, Inv, TypeOK, ServerType
  <2>2. flushAt # NoTimer
    BY <2>1 DEF CInv, Inv, FlushArmed, Prompt, Stopping
  <2>3. InTime(server.buffer[i].time, flushAt)
    BY <2>2 DEF CInv, ClockInv, Waits
  <2>4. server.buffer[i].time \in 0..MsecWrap-1
    <3>1. server.buffer[i] \in Metric
      BY DEF CInv, Inv, TypeOK, ServerType
    <3> QED BY <3>1 DEF Metric
  <2>5. Elapsed(server.buffer[i].time) \in 0..MsecWrap-1 /\ Elapsed(flushAt) \in 0..MsecWrap-1
    BY <2>2, <2>4, ElapsedType DEF CInv, Inv, TypeOK
  <2> QED BY <2>3, <2>5, Times DEF InTime
<1> QED BY <1>1, <1>2, <1>3, PTL DEF Spec
=============================================================================
