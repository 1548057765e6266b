------------------------------- MODULE Parts -------------------------------
(***************************************************************************)
(* ngx_statshouse_stat_part() and its delimiters (src/ngx_statshouse.c):   *)
(* the value of a variable such as $upstream_response_time taken apart.    *)
(*                                                                         *)
(* A text is [str, after]: a string of characters and the two bytes that   *)
(* follow it in memory, for the code looks at p[1] and p[2] when p is the  *)
(* last character.  Positions count from 1.                                *)
(***************************************************************************)
EXTENDS Naturals, Sequences, FiniteSetsExt

Texts == [str : Seq(STRING), after : Seq(STRING)]

Text(str) == [str |-> str, after |-> <<"x", "x">>]

EndOf(t) == Len(t.str) + 1
Byte(t, p) == (t.str \o t.after)[p]

(* The test is for the last three bytes, not for three bytes left: a group *)
(* delimiter in the middle of the string is not seen.                      *)
IsGroupDelimiter(t, p) ==
  /\ p + 3 >= EndOf(t)
  /\ Byte(t, p) = " " /\ Byte(t, p + 1) = ":" /\ Byte(t, p + 2) = " "

(* Spaces and delimiters from p on are passed over. *)
SkipBlank(t, p) ==
  LET skip[q \in Nat] ==
        IF q >= EndOf(t) THEN q
        ELSE IF IsGroupDelimiter(t, q) THEN skip[q + 3]
        ELSE IF Byte(t, q) = " " THEN skip[q + 1]
        ELSE q
  IN skip[p]

ItemEnd(t, p) ==
  IF p >= EndOf(t) THEN p
  ELSE Min({EndOf(t)} \cup {q \in p..Len(t.str) : Byte(t, q) = "," \/ IsGroupDelimiter(t, q)})

(* Slip: the space before the comma stays. *)
TrimmedNot(s) == s

(* One space goes, not all of them. *)
Trimmed(s) == IF s # <<>> /\ s[Len(s)] = " " THEN SubSeq(s, 1, Len(s) - 1) ELSE s

Undashed(s) == IF s = <<"-">> THEN <<>> ELSE s

(* The next part from position p on and the position after it.  A          *)
(* delimiter met inside an item is stored through a NULL pointer.          *)
StatPart(t, p) ==
  LET start == SkipBlank(t, p)
      stop  == ItemEnd(t, start)
      item  == Trimmed(SubSeq(t.str, start, stop - 1))
      next  == SkipBlank(t, IF stop < EndOf(t) /\ Byte(t, stop) = "," THEN stop + 1 ELSE stop)
      answer(kind) == [kind |-> kind, item |-> Undashed(item), next |-> next]
  IN IF start = EndOf(t) THEN answer("none")
     ELSE IF stop < EndOf(t) /\ IsGroupDelimiter(t, stop) THEN answer("fault")
     ELSE IF item = <<>> /\ next = EndOf(t) THEN answer("none")
     ELSE answer("part")

(* The loop of the callers: at most max parts.  s is the position of the   *)
(* next part and how many there may be yet.                                *)
Parts(t, max) ==
  LET from[s \in Nat \X Nat] ==
        IF s[2] = 0 THEN [items |-> <<>>, fault |-> FALSE]
        ELSE LET r == StatPart(t, s[1]) IN
          IF r.kind # "part" THEN [items |-> <<>>, fault |-> r.kind = "fault"]
          ELSE LET rest == from[<<r.next, s[2] - 1>>] IN
            [items |-> <<r.item>> \o rest.items, fault |-> rest.fault]
  IN from[<<1, max>>]
=============================================================================
