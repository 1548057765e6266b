------------------------------ MODULE Delivery ------------------------------
(***************************************************************************)
(* What the module promises of stats, whatever it does with them inside: a *)
(* stat that a request produced is held by the worker; from there it is    *)
(* sent in a packet or lost, and then it never comes back, so no stat is   *)
(* sent twice and none is sent that was given up.                          *)
(***************************************************************************)
EXTENDS Naturals

CONSTANT Stats

VARIABLES held, sent, lost

vars == <<held, sent, lost>>

Init == held = {} /\ sent = {} /\ lost = {}

Offer(n) ==
  /\ n \notin held \cup sent \cup lost
  /\ held' = held \cup {n}
  /\ UNCHANGED <<sent, lost>>

(* A packet leaves, stats are given up, or both in one call. *)
Leave(S, T) ==
  /\ S \cap T = {}
  /\ held' = held \ (S \cup T)
  /\ sent' = sent \cup S
  /\ lost' = lost \cup T

Next ==
  \/ \E n \in Stats : Offer(n)
  \/ \E S, T \in SUBSET held : Leave(S, T)

Spec == Init /\ [][Next]_vars
=============================================================================
