------------------------------- MODULE Server -------------------------------
(***************************************************************************)
(* The sending half of one statshouse server of one worker                 *)
(* (src/ngx_statshouse.c): the packet buffer, the flush timer and the UDP  *)
(* socket.                                                                 *)
(*                                                                         *)
(* A handler of the worker (a request, the aggregator's timer) begins,     *)
(* puts metrics into the buffer, asks for a flush and ends; the worker has *)
(* one thread, so the flush timer runs only between handlers.  A signal    *)
(* may come at any time; within one call here it is seen by every test of  *)
(* ngx_terminate or by none.                                               *)
(*                                                                         *)
(* A metric is [stats, size, time]: the stats it stands for, its encoded   *)
(* length, and when it was put into the buffer.                            *)
(***************************************************************************)
EXTENDS Integers, Sequences, FiniteSets

CONSTANTS
  BufferSize,     \* server->buffer_size
  FlushInterval,  \* server->flush, 0 for none
  MsecWrap,       \* ngx_msec_t counts modulo MsecWrap
  MaxLag,         \* how late the event loop may run a timer
  Sizes,          \* the lengths of the metrics put
  MaxMetrics      \* bound: how many metrics are put

ASSUME BufferAssumption == BufferSize \in Nat /\ Sizes \subseteq Nat \ {0}

ASSUME ServerTimeAssumption ==
  /\ FlushInterval \in Nat
  /\ MaxLag \in Nat
  /\ MsecWrap \in Nat
  /\ 2 * (FlushInterval + MaxLag) < MsecWrap

VARIABLES
  server,   \* the server: see ServerType
  flushAt,  \* when flush_event expires, NoTimer if it is not set
  now,      \* ngx_current_msec
  stop,     \* "run", "quit" (ngx_exiting), "terminate", or the process is gone
  busy,     \* a handler is running
  puts      \* bound: the number of metrics put

vars == <<server, flushAt, now, stop, busy, puts>>

NoTimer == -1

(* How the socket calls of a flush end: socket(), ngx_get_connection() or  *)
(* connect() fails; send() fails; send() would block; the packet leaves.   *)
Nets == {"unreachable", "refused", "again", "sent"}

Elapsed(t) == (now - t) % MsecWrap
Expired == flushAt # NoTimer /\ 2 * Elapsed(flushAt) < MsecWrap
Stopping == stop # "run"
Idle == ~busy /\ stop # "exited"

(* The stats of a sequence of metrics *)
StatsIn(ms) == UNION {ms[i].stats : i \in DOMAIN ms}

----------------------------------------------------------------------------
(* The server: the metrics in its buffer and the bytes they take; whether  *)
(* it has a socket; and, for the history, whether a flush has failed since *)
(* the buffer was last empty, and the stats that were sent, were lost by   *)
(* send() or found no room.                                                *)
NewServer == [buffer |-> <<>>, used |-> 0, conn |-> FALSE, failed |-> FALSE,
              sent |-> {}, lost |-> {}, dropped |-> {}]

(* Slip: the sent packet stays in the buffer. *)
EmptiedNot(v) == [v EXCEPT !.failed = FALSE]

(* server->buffer->last = server->buffer->pos *)
Emptied(v) == [v EXCEPT !.buffer = <<>>, !.used = 0, !.failed = FALSE]

(* Whether the flush of v can end like net: a socket is opened only when   *)
(* there is none.                                                          *)
Possible(v, net) == net \in Nets /\ (net = "unreachable" => ~v.conn)

(* ngx_statshouse_flush(): its result and the server after it.  Any result *)
(* of ngx_send() but NGX_ERROR counts as sent.                             *)
FlushRc(v, net) ==
  CASE v.used = 0 -> "declined"
    [] v.used # 0 /\ net \in {"unreachable", "refused"} -> "error"
    [] OTHER -> "ok"

(* Slip: the socket is kept in a worker that stops. *)
FlushedOpen(v, net) ==
  CASE v.used = 0 -> v
    [] v.used # 0 /\ net \in {"unreachable", "refused"} ->
         [v EXCEPT !.conn = FALSE, !.failed = TRUE]
    [] OTHER ->
         [Emptied(v) EXCEPT !.conn = TRUE,
                            !.sent = @ \cup IF net = "sent" THEN StatsIn(v.buffer) ELSE {},
                            !.lost = @ \cup IF net = "again" THEN StatsIn(v.buffer) ELSE {}]

Flushed(v, net) ==
  CASE v.used = 0 -> v
    [] v.used # 0 /\ net \in {"unreachable", "refused"} ->
         [v EXCEPT !.conn = FALSE, !.failed = TRUE]
    [] OTHER ->
         [Emptied(v) EXCEPT !.conn = ~Stopping,
                            !.sent = @ \cup IF net = "sent" THEN StatsIn(v.buffer) ELSE {},
                            !.lost = @ \cup IF net = "again" THEN StatsIn(v.buffer) ELSE {}]

(* ngx_statshouse_send_to_buffer(): a flush if the metric m does not fit,  *)
(* then its result, and the server after it.                               *)
Fits(v, m) == BufferSize - v.used >= m.size
(* Slip: a buffer that is full is not flushed. *)
RoomNever(v, m, net) == v

Room(v, m, net) == IF Fits(v, m) THEN v ELSE Flushed(v, net)

PutRc(v, m, net) == IF Fits(Room(v, m, net), m) THEN "ok" ELSE "declined"

(* Slip: after the flush the room is not looked at again. *)
FilledUnchecked(v, m, net) ==
  [Room(v, m, net) EXCEPT !.buffer = Append(@, m), !.used = @ + m.size]

Filled(v, m, net) ==
  LET w == Room(v, m, net) IN
    IF Fits(w, m)
      THEN [w EXCEPT !.buffer = Append(@, m), !.used = @ + m.size]
      ELSE [w EXCEPT !.dropped = @ \cup m.stats]

(* Slips: the time does not wrap; every metric sets the timer anew. *)
ArmedUnwrapped(v, at) ==
  IF FlushInterval = 0 \/ at # NoTimer \/ v.used = 0 \/ Stopping THEN at ELSE now + FlushInterval

ArmedAnew(v, at) ==
  IF FlushInterval = 0 \/ v.used = 0 \/ Stopping THEN at ELSE (now + FlushInterval) % MsecWrap

(* ngx_statshouse_timer() of the server v; at is the timer before it *)
Armed(v, at) ==
  IF FlushInterval = 0 \/ at # NoTimer \/ v.used = 0 \/ Stopping
    THEN at
    ELSE (now + FlushInterval) % MsecWrap

----------------------------------------------------------------------------
(* The calls of a handler *)

Put(m, net) ==
  /\ Possible(server, net)
  /\ server' = Filled(server, m, net)
  /\ flushAt' = IF PutRc(server, m, net) = "ok" THEN Armed(server', flushAt) ELSE flushAt

Flush(net) ==
  /\ Possible(server, net)
  /\ server' = Flushed(server, net)
  /\ UNCHANGED flushAt

(* Slip: the timer is not set again after a flush that failed. *)
FlushTimerOnce(net) ==
  /\ Expired
  /\ Possible(server, net)
  /\ server' = Flushed(server, net)
  /\ flushAt' = NoTimer

(* ngx_statshouse_timer_handler() *)
FlushTimer(net) ==
  /\ Expired
  /\ Possible(server, net)
  /\ server' = Flushed(server, net)
  /\ flushAt' = Armed(server', NoTimer)

(* A worker that quits closes its idle connections, and calls              *)
(* ngx_statshouse_read_handler() for this one.                             *)
CloseIdle == server' = [server EXCEPT !.conn = FALSE]

----------------------------------------------------------------------------
Init ==
  /\ server = NewServer
  /\ flushAt = NoTimer
  /\ now \in 0..MsecWrap-1
  /\ stop = "run" /\ busy = FALSE /\ puts = 0

Begin ==
  /\ Idle
  /\ busy' = TRUE
  /\ UNCHANGED <<server, flushAt, now, stop, puts>>

HandlerPuts(size, net) ==
  /\ busy /\ stop # "exited" /\ puts < MaxMetrics
  /\ Put([stats |-> {puts + 1}, size |-> size, time |-> now], net)
  /\ puts' = puts + 1
  /\ UNCHANGED <<now, stop, busy>>

HandlerFlushes(net) ==
  /\ busy /\ stop # "exited"
  /\ Flush(net)
  /\ UNCHANGED <<now, stop, busy, puts>>

End ==
  /\ busy /\ stop # "exited"
  /\ busy' = FALSE
  /\ UNCHANGED <<server, flushAt, now, stop, puts>>

TimerExpires(net) ==
  /\ Idle
  /\ FlushTimer(net)
  /\ UNCHANGED <<now, stop, busy, puts>>

(* Time goes on between handlers; no timer waits for longer than MaxLag. *)
Tick ==
  /\ Idle
  /\ Expired => Elapsed(flushAt) < MaxLag
  /\ now' = (now + 1) % MsecWrap
  /\ UNCHANGED <<server, flushAt, stop, busy, puts>>

Quit ==
  /\ Idle /\ stop = "run"
  /\ stop' = "quit"
  /\ CloseIdle
  /\ UNCHANGED <<flushAt, now, busy, puts>>

Terminate ==
  /\ stop \in {"run", "quit"}
  /\ stop' = "terminate"
  /\ UNCHANGED <<server, flushAt, now, busy, puts>>

Exit ==
  /\ Idle /\ Stopping
  /\ stop' = "exited"
  /\ UNCHANGED <<server, flushAt, now, busy, puts>>

Next ==
  \/ Begin \/ End
  \/ \E net \in Nets : \/ \E size \in Sizes : HandlerPuts(size, net)
                       \/ HandlerFlushes(net)
                       \/ TimerExpires(net)
  \/ Tick \/ Quit \/ Terminate \/ Exit

Spec == Init /\ [][Next]_vars
=============================================================================
