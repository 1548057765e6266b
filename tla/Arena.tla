------------------------------- MODULE Arena -------------------------------
(***************************************************************************)
(* The arena of the aggregator (src/ngx_statshouse_aggregate.c): one block *)
(* of Size bytes from which records are taken in a circle and given back   *)
(* oldest first.  Addresses are offsets from alloc.start, so alloc.start   *)
(* is 0 and alloc.end is Size.  alloc.pos is where the next record goes,   *)
(* alloc.last where the oldest record in use begins.                       *)
(***************************************************************************)
EXTENDS Integers, Sequences

CONSTANT Size    \* aggregate->size, in bytes

ASSUME SizeAssumption == Size \in Nat

NoSpace == -1    \* ngx_statshouse_aggregate_alloc() returned NULL

----------------------------------------------------------------------------
(* Slips that ngx_statshouse_aggregate_alloc() could have made: a record    *)
(* may touch the oldest one; the arena is not used in a circle.             *)
AllocPtrTouching(pos, last, size) ==
  IF pos >= last
    THEN IF Size - pos > size THEN pos ELSE IF last > size THEN 0 ELSE NoSpace
    ELSE IF last - pos >= size THEN pos ELSE NoSpace

AllocPtrStraight(pos, last, size) ==
  IF pos >= last /\ Size - pos <= size THEN NoSpace
    ELSE IF pos < last /\ last - pos <= size THEN NoSpace ELSE pos

(* ngx_statshouse_aggregate_alloc(): where a record of `size' bytes goes.  *)
(* Every comparison is strict: pos never catches up with last.             *)
AllocPtr(pos, last, size) ==
  IF pos >= last
    THEN IF Size - pos > size THEN pos ELSE IF last > size THEN 0 ELSE NoSpace
    ELSE IF last - pos > size THEN pos ELSE NoSpace

(* ngx_statshouse_aggregate_free(): alloc.last after the record at `ptr'   *)
(* is given back.  A record at the start of the arena restarts the count.  *)
FreeLast(last, ptr, size) == (IF ptr = 0 THEN 0 ELSE last) + size

----------------------------------------------------------------------------
(* Facts about a queue q of blocks (records with off and size), oldest     *)
(* first.                                                                  *)
End(b) == b.off + b.size

(* No byte belongs to two blocks, and none lies outside the arena.         *)
Disjoint(q) ==
  \A i, j \in 1..Len(q) : i < j => End(q[i]) <= q[j].off \/ End(q[j]) <= q[i].off

Inside(q) == \A i \in 1..Len(q) : q[i].off >= 0 /\ End(q[i]) <= Size

(* The blocks before the wrap and those after it.                          *)
High(b, last) == b.off >= last
Low(b, pos) == End(b) <= pos

(* pos has not wrapped: the blocks fill [last, pos) in order.              *)
Straight(q, pos, last) ==
  /\ last <= pos
  /\ Len(q) = 0 => pos = last
  /\ Len(q) > 0 => q[1].off = last
  /\ \A i \in 1..Len(q) : High(q[i], last) /\ Low(q[i], pos)
  /\ \A i \in 1..Len(q) - 1 : q[i+1].off = End(q[i])

(* pos has wrapped: the older blocks begin at last, the younger ones fill  *)
(* [0, pos).                                                               *)
Wrapped(q, pos, last) ==
  /\ pos < last
  /\ Len(q) > 0
  /\ q[1].off = last \/ q[1].off = 0
  /\ \A i \in 1..Len(q) : High(q[i], last) \/ Low(q[i], pos)
  /\ \A i, j \in 1..Len(q) : i < j /\ High(q[j], last) => High(q[i], last)
  /\ \A i \in 1..Len(q) - 1 :
       \/ q[i+1].off = End(q[i])
       \/ q[i+1].off = 0 /\ High(q[i], last)

(* The blocks of the queue tile the part of the arena in use.              *)
Tiled(q, pos, last) ==
  /\ Len(q) > 0 => End(q[Len(q)]) = pos
  /\ \A i, j \in 1..Len(q) : i < j =>
       \/ End(q[i]) <= q[j].off
       \/ High(q[i], last) /\ Low(q[j], pos) /\ pos < last
  /\ Straight(q, pos, last) \/ Wrapped(q, pos, last)

(* The arena with its two pointers: the invariant of alloc() and free().   *)
ArenaInv(q, pos, last) ==
  /\ pos \in 0..Size /\ last \in 0..Size
  /\ Tiled(q, pos, last)
  /\ Inside(q)
=============================================================================
