-------------------------- MODULE AggregateProofs --------------------------
(***************************************************************************)
(* The aggregator, for every set of series, every size of the arena and of *)
(* the records, every interval and clock, in four parts:                   *)
(*   - the arena: alloc() and free() keep the queue's blocks a tiling of   *)
(*     the part in use, and so no two of them overlap;                     *)
(*   - the aggregator: the arena is never overwritten, the tree links the  *)
(*     open records and no freed memory, the timer covers the queue;       *)
(*   - the stats: none is lost or counted twice while it is held, none is  *)
(*     added to a record of another series, records are not filled over    *)
(*     their room, stats of one series are not overtaken;                  *)
(*   - the time: how long a record is kept, for every delay of the event   *)
(*     loop and every place where the clock wraps.                         *)
(***************************************************************************)
EXTENDS AggregateProps, FiniteSetTheorems, TLAPS

(* The facts about the clock; nothing here is recursive or folded.         *)
NoDef(c, f, x) == x
NoOp(a, x, y) == x
Clk == INSTANCE Lemmas WITH Def <- NoDef, Op <- NoOp

(* Part one: the arena *)

(* What a queue of blocks is; the records of the aggregator have more      *)
(* fields.                                                                 *)
Blocks(q) ==
  /\ Len(q) \in Nat
  /\ \A i \in 1..Len(q) : q[i].off \in Nat /\ q[i].size \in Nat \ {0}

(* Blocks that tile the arena lie apart.                                   *)
LEMMA TiledDisjoint ==
  ASSUME NEW q, NEW rear, NEW rim, Blocks(q), ArenaInv(q, rear, rim)
  PROVE  Disjoint(q) /\ Inside(q)
<1>1. rear \in Nat /\ rim \in Nat
  BY SizeAssumption DEF ArenaInv
<1>2. ASSUME NEW i \in 1..Len(q), NEW j \in 1..Len(q), i < j
      PROVE  End(q[i]) <= q[j].off \/ End(q[j]) <= q[i].off
  <2>1. \/ End(q[i]) <= q[j].off
        \/ High(q[i], rim) /\ Low(q[j], rear) /\ rear < rim
    BY <1>2 DEF ArenaInv, Tiled
  <2>2. q[i].off \in Nat /\ q[j].off \in Nat /\ q[j].size \in Nat
    BY DEF Blocks
  <2> QED BY <1>1, <2>1, <2>2 DEF High, Low, End
<1> QED BY <1>2 DEF Disjoint, ArenaInv

(* A queue with the blocks of another one, whatever else has changed.      *)
LEMMA SameBlocks ==
  ASSUME NEW q, NEW r, NEW rear, NEW rim,
         Len(q) \in Nat, Len(r) = Len(q),
         \A i \in 1..Len(q) : r[i].off = q[i].off /\ r[i].size = q[i].size,
         ArenaInv(q, rear, rim)
  PROVE  ArenaInv(r, rear, rim)
<1>1. \A i \in 1..Len(q) : End(r[i]) = End(q[i])
  BY DEF End
<1>2. \A i \in 1..Len(q) : /\ High(r[i], rim) <=> High(q[i], rim)
                           /\ Low(r[i], rear) <=> Low(q[i], rear)
  BY <1>1 DEF High, Low
<1>3. Inside(r)
  BY <1>1 DEF Inside, ArenaInv
<1>4. Straight(q, rear, rim) => Straight(r, rear, rim)
  BY <1>1, <1>2 DEF Straight
<1>5. Wrapped(q, rear, rim) => Wrapped(r, rear, rim)
  BY <1>1, <1>2 DEF Wrapped
<1>6. Tiled(r, rear, rim)
  <2>1. Len(r) > 0 => End(r[Len(r)]) = rear
    BY <1>1 DEF ArenaInv, Tiled
  <2>2. \A i, j \in 1..Len(r) : i < j =>
          \/ End(r[i]) <= r[j].off
          \/ High(r[i], rim) /\ Low(r[j], rear) /\ rear < rim
    BY <1>1, <1>2 DEF ArenaInv, Tiled
  <2> QED BY <1>4, <1>5, <2>1, <2>2 DEF ArenaInv, Tiled
<1> QED BY <1>3, <1>6 DEF ArenaInv

(* ngx_statshouse_aggregate_alloc(): the block it returns extends the      *)
(* tiling.                                                                 *)
LEMMA AllocTiled ==
  ASSUME NEW q, NEW r, NEW rear, NEW rim, NEW size \in Nat \ {0},
         Blocks(q), ArenaInv(q, rear, rim),
         AllocPtr(rear, rim, size) # NoSpace,
         Len(r) = Len(q) + 1,
         \A i \in 1..Len(q) : r[i].off = q[i].off /\ r[i].size = q[i].size,
         r[Len(r)].off = AllocPtr(rear, rim, size), r[Len(r)].size = size
  PROVE  ArenaInv(r, AllocPtr(rear, rim, size) + size, rim)
<1> DEFINE n == Len(q)
           off == AllocPtr(rear, rim, size)
           top == off + size
<1>1. /\ rear \in Nat /\ rim \in Nat /\ n \in Nat /\ Size \in Nat
      /\ rear <= Size /\ rim <= Size
  BY SizeAssumption DEF ArenaInv, Blocks
<1>2. \/ rear >= rim /\ Size - rear > size /\ off = rear
      \/ rear >= rim /\ rim > size /\ off = 0
      \/ rear < rim /\ rim - rear > size /\ off = rear
  BY <1>1 DEF AllocPtr
<1>3. off \in Nat /\ top \in Nat /\ top <= Size
  BY <1>1, <1>2
<1>4. /\ \A i \in 1..n : r[i].off \in Nat /\ End(r[i]) \in Nat /\ End(r[i]) = End(q[i])
                         /\ r[i].off < End(r[i])
      /\ r[n+1].off = off /\ End(r[n+1]) = top
  BY <1>1, <1>3 DEF End, Blocks
<1>5. \A i \in 1..n : High(r[i], rim) <=> High(q[i], rim)
  BY DEF High
<1>6. Inside(r)
  <2>1. ASSUME NEW i \in 1..n PROVE r[i].off >= 0 /\ End(r[i]) <= Size
    <3>1. End(q[i]) <= Size
      BY DEF Inside, ArenaInv
    <3> QED BY <1>4, <3>1
  <2>2. r[n+1].off >= 0 /\ End(r[n+1]) <= Size
    BY <1>3, <1>4
  <2>3. \A i \in 1..Len(r) : i \in 1..n \/ i = n+1
    BY <1>1
  <2> QED BY <2>1, <2>2, <2>3 DEF Inside
<1> HIDE DEF n, off, top
<1>7. CASE Straight(q, rear, rim)
  <2>1. /\ rear >= rim
        /\ n = 0 => rear = rim
        /\ n > 0 => r[1].off = rim /\ End(r[n]) = rear
        /\ \A i \in 1..n : rim <= r[i].off /\ End(r[i]) <= rear
        /\ \A i \in 1..n-1 : r[i+1].off = End(r[i])
        /\ \A i, j \in 1..n : i < j => End(r[i]) <= r[j].off
    BY <1>1, <1>4, <1>7 DEF Straight, High, Low, n, ArenaInv, Tiled
  <2>2. CASE off = rear
    <3>1. \A i, j \in 1..n+1 : i < j => End(r[i]) <= r[j].off
      BY <1>1, <1>4, <2>1, <2>2
    <3>2. ASSUME NEW i \in 1..n PROVE r[i+1].off = End(r[i])
      <4>1. CASE i = n
        BY <1>1, <1>4, <2>1, <2>2, <4>1
      <4>2. CASE i # n
        <5>1. i \in 1..n-1
          BY <1>1, <4>2
        <5> QED BY <2>1, <5>1
      <4> QED BY <4>1, <4>2
    <3>3. Straight(r, top, rim)
      <4>1. \A i \in 1..n+1 : i \in 1..n \/ i = n+1
        BY <1>1
      <4>2. \A i \in 1..n : High(r[i], rim) /\ Low(r[i], top)
        BY <1>1, <1>3, <1>4, <2>1, <2>2 DEF High, Low, top
      <4>3. High(r[n+1], rim) /\ Low(r[n+1], top)
        BY <1>1, <1>3, <1>4, <2>1, <2>2 DEF High, Low
      <4>4. top >= rim /\ r[1].off = rim
        BY <1>1, <1>4, <2>1, <2>2 DEF top
      <4> QED BY <1>1, <3>2, <4>1, <4>2, <4>3, <4>4 DEF Straight, n
    <3> QED BY <1>1, <1>3, <1>4, <1>6, <3>1, <3>3 DEF ArenaInv, Tiled, n, top, off
  <2>3. CASE off = 0 /\ rim > size
    <3>1. top < rim
      BY <1>1, <2>3 DEF top
    <3>2. /\ \A i \in 1..n : High(r[i], rim)
          /\ Low(r[n+1], top) /\ ~High(r[n+1], rim)
      BY <1>1, <1>4, <2>1, <2>3 DEF High, Low, top
    <3>3. ASSUME NEW i \in 1..n
          PROVE  r[i+1].off = End(r[i]) \/ (r[i+1].off = 0 /\ High(r[i], rim))
      <4>1. CASE i = n
        BY <1>4, <2>3, <3>2, <4>1
      <4>2. CASE i # n
        <5>1. i \in 1..n-1
          BY <1>1, <4>2
        <5> QED BY <2>1, <5>1
      <4> QED BY <4>1, <4>2
    <3>4. r[1].off = rim \/ r[1].off = 0
      BY <1>1, <1>4, <2>1, <2>3
    <3>5. /\ \A i \in 1..n+1 : High(r[i], rim) \/ Low(r[i], top)
          /\ \A i, j \in 1..n+1 : i < j /\ High(r[j], rim) => High(r[i], rim)
      <4>1. \A i \in 1..n+1 : i \in 1..n \/ i = n+1
        BY <1>1
      <4> QED BY <3>2, <4>1
    <3>6. Wrapped(r, top, rim)
      BY <1>1, <3>1, <3>3, <3>4, <3>5 DEF Wrapped, n
    <3>7. ASSUME NEW i \in 1..n+1, NEW j \in 1..n+1, i < j
          PROVE  \/ End(r[i]) <= r[j].off
                 \/ High(r[i], rim) /\ Low(r[j], top) /\ top < rim
      <4>1. i \in 1..n
        BY <1>1, <3>7
      <4>2. CASE j = n + 1
        BY <3>1, <3>2, <4>1, <4>2
      <4>3. CASE j # n + 1
        <5>1. j \in 1..n
          BY <1>1, <4>3
        <5> QED BY <2>1, <3>7, <4>1, <5>1
      <4> QED BY <4>2, <4>3
    <3> QED BY <1>1, <1>3, <1>4, <1>6, <3>6, <3>7 DEF ArenaInv, Tiled, n, top, off
  <2> QED BY <1>1, <1>2, <2>1, <2>2, <2>3
<1>8. CASE Wrapped(q, rear, rim)
  <2>1. off = rear /\ rear < rim /\ top < rim /\ n > 0
    BY <1>1, <1>2, <1>8 DEF Wrapped, n, top
  <2>2. \A i \in 1..n : High(r[i], rim) \/ End(r[i]) <= rear
    BY <1>4, <1>5, <1>8 DEF Wrapped, Low, n
  <2>3. Low(r[n+1], top) /\ ~High(r[n+1], rim)
    BY <1>1, <1>3, <1>4, <2>1 DEF Low, High
  <2>4. End(r[n]) = rear
    BY <1>1, <1>4, <2>1 DEF ArenaInv, Tiled, n
  <2>5. \A i, j \in 1..n+1 : i < j /\ High(r[j], rim) => High(r[i], rim)
    BY <1>1, <1>5, <1>8, <2>3 DEF Wrapped, n
  <2>6. ASSUME NEW i \in 1..n
        PROVE  r[i+1].off = End(r[i]) \/ (r[i+1].off = 0 /\ High(r[i], rim))
    <3>1. CASE i = n
      BY <1>4, <2>1, <2>4, <3>1
    <3>2. CASE i # n
      <4>1. i \in 1..n-1 /\ i + 1 \in 1..n
        BY <1>1, <3>2
      <4>2. q[i+1].off = End(q[i]) \/ (q[i+1].off = 0 /\ High(q[i], rim))
        BY <1>8, <4>1 DEF Wrapped, n
      <4> QED BY <1>4, <1>5, <4>1, <4>2 DEF n
    <3> QED BY <3>1, <3>2
  <2>7. \A i \in 1..n+1 : High(r[i], rim) \/ Low(r[i], top)
    BY <1>1, <1>3, <1>4, <2>1, <2>2, <2>3 DEF Low, top
  <2>8. r[1].off = rim \/ r[1].off = 0
    BY <1>1, <1>8, <2>1 DEF Wrapped, n
  <2>9. Wrapped(r, top, rim)
    BY <1>1, <2>1, <2>5, <2>6, <2>7, <2>8 DEF Wrapped, n
  <2>10. \A i, j \in 1..n+1 : i < j =>
           \/ End(r[i]) <= r[j].off
           \/ High(r[i], rim) /\ Low(r[j], top) /\ top < rim
    <3> SUFFICES ASSUME NEW i \in 1..n+1, NEW j \in 1..n+1, i < j
                 PROVE  \/ End(r[i]) <= r[j].off
                        \/ High(r[i], rim) /\ Low(r[j], top) /\ top < rim
      OBVIOUS
    <3>1. CASE j = n + 1
      BY <1>1, <1>4, <2>1, <2>2, <2>3, <3>1
    <3>2. CASE j # n + 1
      <4>1. i \in 1..n /\ j \in 1..n
        BY <1>1, <3>2
      <4>2. \/ End(r[i]) <= r[j].off
            \/ High(r[i], rim) /\ End(r[j]) <= rear /\ rear < rim
        BY <1>4, <1>5, <4>1 DEF ArenaInv, Tiled, Low, n
      <4> QED BY <1>1, <1>3, <1>4, <2>1, <4>1, <4>2 DEF Low, top
    <3> QED BY <3>1, <3>2
  <2> QED BY <1>1, <1>3, <1>4, <1>6, <2>9, <2>10 DEF ArenaInv, Tiled, n, top, off
<1> QED BY <1>7, <1>8 DEF ArenaInv, Tiled

(* ngx_statshouse_aggregate_free() of the oldest block: the others tile    *)
(* what is left.  A low head means that every block before the wrap is     *)
(* gone.                                                                   *)
LEMMA FreeTiled ==
  ASSUME NEW q, NEW r, NEW rear, NEW rim,
         Blocks(q), ArenaInv(q, rear, rim), Len(q) > 0,
         Len(r) = Len(q) - 1,
         \A i \in 1..Len(r) : r[i].off = q[i+1].off /\ r[i].size = q[i+1].size
  PROVE  ArenaInv(r, rear, FreeLast(rim, q[1].off, q[1].size))
<1> DEFINE n == Len(q)
           low == FreeLast(rim, q[1].off, q[1].size)
<1>1. /\ rear \in Nat /\ rim \in Nat /\ n \in Nat /\ Size \in Nat
      /\ rear <= Size /\ rim <= Size /\ 1 \in 1..n
  BY SizeAssumption DEF ArenaInv, Blocks
<1>2. \A i \in 1..n : q[i].off \in Nat /\ End(q[i]) \in Nat /\ q[i].off < End(q[i])
                       /\ End(q[i]) <= Size
  BY <1>1 DEF End, Blocks, ArenaInv, Inside
<1>3. q[1].off = rim \/ q[1].off = 0
  BY <1>1 DEF ArenaInv, Tiled, Straight, Wrapped
<1>4. low = End(q[1]) /\ low \in 0..Size
  BY <1>1, <1>2, <1>3 DEF FreeLast, End, Blocks
<1> HIDE DEF n, low
<1>5. \A i \in 1..n-1 : /\ i+1 \in 1..n /\ 1 < i+1
                        /\ r[i].off = q[i+1].off /\ End(r[i]) = End(q[i+1])
  BY <1>1 DEF End, n
<1>6. Inside(r)
  <2>1. Len(r) = n - 1
    BY DEF n
  <2>2. \A i \in 1..n-1 : r[i].off >= 0 /\ End(r[i]) <= Size
    BY <1>2, <1>5
  <2> QED BY <2>1, <2>2 DEF Inside
<1>7. n - 1 > 0 => End(r[n-1]) = rear
  BY <1>1, <1>5 DEF ArenaInv, Tiled, n
<1>8. \A i \in 1..n-2 : i \in 1..n-1 /\ i+1 \in 1..n-1
  BY <1>1
<1>9. CASE Straight(q, rear, rim)
  <2>1. /\ low <= rear
        /\ n = 1 => rear = low
        /\ \A i \in 1..n : End(q[i]) <= rear
        /\ \A i \in 1..n-1 : q[i+1].off = End(q[i])
        /\ \A i, j \in 1..n : i < j => End(q[i]) <= q[j].off
    <3>1. rim <= rear /\ (\A i \in 1..n : High(q[i], rim) /\ End(q[i]) <= rear)
      BY <1>9 DEF Straight, Low, n
    <3>2. \A i \in 1..n-1 : q[i+1].off = End(q[i])
      BY <1>9 DEF Straight, n
    <3>3. \A i, j \in 1..n : i < j => End(q[i]) <= q[j].off
      BY <1>1, <3>1 DEF ArenaInv, Tiled, n
    <3>4. n = 1 => End(q[1]) = rear
      BY DEF ArenaInv, Tiled, n
    <3> QED BY <1>1, <1>4, <3>1, <3>2, <3>3, <3>4
  <2>2. \A i \in 1..n-1 : High(r[i], low) /\ Low(r[i], rear)
    BY <1>1, <1>2, <1>4, <1>5, <2>1 DEF High, Low
  <2>3. ASSUME NEW i \in 1..n-1, NEW j \in 1..n-1, i < j
        PROVE  End(r[i]) <= r[j].off
    <3>1. End(q[i+1]) <= q[j+1].off
      BY <1>5, <2>1, <2>3
    <3> QED BY <1>5, <3>1
  <2>4. \A i \in 1..n-2 : r[i+1].off = End(r[i])
    BY <1>1, <1>5, <1>8, <2>1
  <2>5. n - 1 > 0 => r[1].off = low
    BY <1>1, <1>4, <1>5, <2>1
  <2>6. Straight(r, rear, low)
    BY <1>1, <2>1, <2>2, <2>4, <2>5 DEF Straight, n
  <2> QED BY <1>1, <1>4, <1>6, <1>7, <2>3, <2>6 DEF ArenaInv, Tiled, n, low
<1>10. CASE Wrapped(q, rear, rim)
  <2>1. /\ rear < rim
        /\ \A i \in 1..n : High(q[i], rim) \/ Low(q[i], rear)
        /\ \A i, j \in 1..n : i < j /\ High(q[j], rim) => High(q[i], rim)
        /\ \A i \in 1..n-1 : q[i+1].off = End(q[i])
                              \/ (q[i+1].off = 0 /\ High(q[i], rim))
        /\ \A i, j \in 1..n : i < j => \/ End(q[i]) <= q[j].off
                                       \/ High(q[i], rim) /\ Low(q[j], rear)
        /\ End(q[n]) = rear
    BY <1>1, <1>10 DEF Wrapped, n, ArenaInv, Tiled
  <2>2. CASE q[1].off = rim
    <3>1. low > rim /\ rear < low
      BY <1>1, <1>2, <1>4, <2>1, <2>2
    <3>2. n # 1
      BY <1>1, <1>4, <2>1, <3>1
    <3>3. ASSUME NEW i \in 1..n-1
          PROVE  \/ High(r[i], low) /\ High(q[i+1], rim)
                 \/ Low(r[i], rear) /\ ~High(q[i+1], rim) /\ ~High(r[i], low)
      <4>1. End(q[1]) <= q[i+1].off \/ Low(q[i+1], rear)
        BY <1>1, <1>5, <2>1
      <4>2. /\ High(q[i+1], rim) \/ Low(q[i+1], rear)
            /\ r[i].off = q[i+1].off /\ End(r[i]) = End(q[i+1])
            /\ r[i].off \in Nat /\ End(r[i]) \in Nat /\ r[i].off < End(r[i])
            /\ End(q[1]) \in Nat
        BY <1>1, <1>2, <1>5, <2>1
      <4>3. CASE High(q[i+1], rim)
        <5>0. End(q[i+1]) > rear
          BY <1>1, <1>4, <2>1, <4>2, <4>3 DEF High
        <5>1. low <= q[i+1].off
          BY <1>1, <1>4, <4>1, <4>2, <5>0 DEF Low
        <5> QED BY <4>2, <4>3, <5>1 DEF High
      <4>4. CASE ~High(q[i+1], rim)
        <5>1. End(r[i]) <= rear /\ r[i].off < low
          BY <1>1, <1>4, <3>1, <4>2, <4>4 DEF Low
        <5>2. ~High(r[i], low)
          BY <1>4, <4>2, <5>1 DEF High
        <5> QED BY <4>4, <5>1, <5>2 DEF Low
      <4> QED BY <4>3, <4>4
    <3>4. r[1].off = low \/ r[1].off = 0
      BY <1>1, <1>4, <1>5, <2>1, <3>2
    <3>5. ASSUME NEW i \in 1..n-1, NEW j \in 1..n-1, i < j, High(r[j], low)
          PROVE  High(r[i], low)
      <4>1. High(q[j+1], rim)
        BY <3>3, <3>5
      <4>2. i+1 \in 1..n /\ j+1 \in 1..n /\ i+1 < j+1
        BY <1>1, <3>5
      <4>3. High(q[i+1], rim)
        BY <2>1, <4>1, <4>2
      <4> QED BY <3>3, <4>3
    <3>6. \A i \in 1..n-2 : r[i+1].off = End(r[i]) \/ (r[i+1].off = 0 /\ High(r[i], low))
      BY <1>1, <1>5, <1>8, <2>1, <3>3
    <3>7. ASSUME NEW i \in 1..n-1, NEW j \in 1..n-1, i < j
          PROVE  \/ End(r[i]) <= r[j].off
                 \/ High(r[i], low) /\ Low(r[j], rear) /\ rear < low
      <4>1. \/ End(q[i+1]) <= q[j+1].off
            \/ High(q[i+1], rim) /\ Low(q[j+1], rear)
        <5>1. i+1 \in 1..n /\ j+1 \in 1..n /\ i+1 < j+1
          BY <1>1, <3>7
        <5> QED BY <2>1, <5>1
      <4>2. End(r[i]) = End(q[i+1]) /\ r[j].off = q[j+1].off
        BY <1>5
      <4>3. Low(q[j+1], rear) => Low(r[j], rear)
        BY <1>5 DEF Low
      <4>4. High(q[i+1], rim) => High(r[i], low)
        BY <3>3
      <4>5. CASE End(q[i+1]) <= q[j+1].off
        BY <4>2, <4>5
      <4>6. CASE High(q[i+1], rim) /\ Low(q[j+1], rear)
        BY <3>1, <4>3, <4>4, <4>6
      <4> QED BY <4>1, <4>5, <4>6
    <3>8. Wrapped(r, rear, low)
      <4>1. \A i \in 1..n-1 : High(r[i], low) \/ Low(r[i], rear)
        BY <3>3
      <4>2. Len(r) = n - 1
        BY DEF n
      <4>3. n - 1 > 0 /\ n - 1 - 1 = n - 2
        BY <1>1, <3>2
      <4> QED BY <3>1, <3>4, <3>5, <3>6, <4>1, <4>2, <4>3 DEF Wrapped
    <3> QED BY <1>1, <1>4, <1>6, <1>7, <3>7, <3>8 DEF ArenaInv, Tiled, n, low
  <2>3. CASE q[1].off = 0 /\ rim # 0
    <3>1. ~High(q[1], rim)
      BY <1>1, <2>3 DEF High
    <3>2. \A i \in 1..n : ~High(q[i], rim) /\ End(q[i]) <= rear
      <4>1. SUFFICES ASSUME NEW i \in 1..n, High(q[i], rim) PROVE FALSE
        BY <2>1 DEF Low
      <4>2. i # 1 /\ 1 \in 1..n /\ 1 < i
        BY <1>1, <3>1, <4>1
      <4> QED BY <2>1, <3>1, <4>1, <4>2
    <3>3. \A i, j \in 1..n : i < j => End(q[i]) <= q[j].off
      BY <2>1, <3>2
    <3>4. \A i \in 1..n-1 : q[i+1].off = End(q[i])
      BY <1>1, <2>1, <3>2
    <3>5. /\ low <= rear
          /\ n = 1 => rear = low
      BY <1>1, <1>4, <2>1, <3>2
    <3>6. \A i \in 1..n-1 : High(r[i], low) /\ Low(r[i], rear)
      BY <1>1, <1>4, <1>5, <3>2, <3>3 DEF High, Low
    <3>7. ASSUME NEW i \in 1..n-1, NEW j \in 1..n-1, i < j
          PROVE  End(r[i]) <= r[j].off
      <4>1. End(q[i+1]) <= q[j+1].off
        BY <1>5, <3>3, <3>7
      <4> QED BY <1>5, <4>1
    <3>8. \A i \in 1..n-2 : r[i+1].off = End(r[i])
      BY <1>1, <1>5, <1>8, <3>4
    <3>9. n - 1 > 0 => r[1].off = low
      BY <1>1, <1>4, <1>5, <3>4
    <3>10. Straight(r, rear, low)
      BY <1>1, <3>5, <3>6, <3>8, <3>9 DEF Straight, n
    <3> QED BY <1>1, <1>4, <1>6, <1>7, <3>7, <3>10 DEF ArenaInv, Tiled, n, low
  <2> QED BY <1>1, <1>3, <2>1, <2>2, <2>3
<1> QED BY <1>9, <1>10 DEF ArenaInv, Tiled

(* An arena without blocks: its pointers meet, and one half or the other   *)
(* has room for a record smaller than half the arena.                      *)
LEMMA EmptyServes ==
  ASSUME NEW q, NEW rear, NEW rim, NEW size \in Nat,
         Len(q) = 0, ArenaInv(q, rear, rim), 2 * size < Size
  PROVE  AllocPtr(rear, rim, size) # NoSpace
<1>1. rear = rim /\ rear \in Nat /\ rear <= Size
  BY SizeAssumption DEF ArenaInv, Tiled, Straight, Wrapped
<1> QED BY <1>1, SizeAssumption DEF AllocPtr, NoSpace

----------------------------------------------------------------------------
(* Part two: the aggregator *)

(* A call under way for a stat has one that the aggregator accepted, the   *)
(* last one seen.                                                          *)
CallOK ==
  /\ call.pc = "idle" <=> call = NoCall
  /\ call.pc = "idle" <=> call.task = "none"
  /\ call.task = "stat" =>
       /\ Len(seen) > 0
       /\ Kind[seen[Len(seen)].series] = "counter" \/ Values # 0

(* A stat that is offered goes past the records, for whatever reason.       *)
Decline(s) ==
  /\ Offered
  /\ See(s, "declined")
  /\ UNCHANGED <<queue, index, pos, last, deadline, posted, now, stop, call>>

TimerSet == deadline # NoTimer \/ posted

(* Outside of the timer's own call, records that wait have a timer.        *)
TimerInv == (call.task # "timer" /\ queue # <<>>) => TimerSet

Inv == TypeOK /\ ArenaTiled /\ IndexExact /\ CallOK /\ TimerInv

----------------------------------------------------------------------------
LEMMA Clock == ASSUME NEW n \in Int PROVE n % MsecWrap \in 0..MsecWrap-1 /\ MsecWrap \in Nat \ {0}
<1>1. MsecWrap \in Nat \ {0}
  BY TimeAssumption
<1> QED BY <1>1

(* The size of a record that is allocated is positive.                     *)
LEMMA RecSizePositive ==
  ASSUME NEW s \in Series, Kind[s] = "counter" \/ Values # 0
  PROVE  RecSize(s) \in Nat \ {0}
<1>1. KeyBytes[s] \in Nat \ {0} /\ Values \in Nat /\ ValueBytes \in Nat
  BY SeriesAssumption
<1>2. CASE Kind[s] = "counter"
  BY <1>1, <1>2 DEF RecSize
<1>3. CASE Kind[s] # "counter"
  <2>1. Values - 1 \in Nat
    BY <1>1, <1>3
  <2>2. \A a, b \in Nat : a * b \in Nat
    OBVIOUS
  <2>3. ValueBytes * (Values - 1) \in Nat
    BY <1>1, <2>1, <2>2
  <2> DEFINE room == ValueBytes * (Values - 1)
  <2>4. RecSize(s) = KeyBytes[s] + room
    BY <1>3 DEF RecSize
  <2>5. room \in Nat
    BY <2>3
  <2> HIDE DEF room
  <2> QED BY <1>1, <2>4, <2>5
<1> QED BY <1>2, <1>3

LEMMA SeqOfFunction ==
  ASSUME NEW T, NEW n \in Nat, NEW f \in [1..n -> T]
  PROVE  f \in Seq(T) /\ Len(f) = n /\ DOMAIN f = 1..n
OBVIOUS

LEMMA RecordFields ==
  ASSUME NEW r \in Record
  PROVE  /\ r.off \in Nat /\ r.size \in Nat \ {0} /\ r.time \in 0..MsecWrap-1
         /\ r.key \in Nat /\ r.series \in Series /\ r.stats \in Seq(Nat \ {0})
BY DEF Record

LEMMA QueueBlocks ==
  ASSUME NEW q \in Seq(Record)
  PROVE  /\ Blocks(q) /\ Len(q) \in Nat /\ DOMAIN q = 1..Len(q)
         /\ \A i \in 1..Len(q) : q[i] \in Record
<1>1. Len(q) \in Nat /\ DOMAIN q = 1..Len(q) /\ \A i \in 1..Len(q) : q[i] \in Record
  OBVIOUS
<1> QED BY <1>1, RecordFields DEF Blocks

(* No two records of a tiled queue begin at the same place.                *)
LEMMA OffsetsDiffer ==
  ASSUME NEW q \in Seq(Record), NEW p, NEW l, ArenaInv(q, p, l),
         NEW i \in 1..Len(q), NEW j \in 1..Len(q), i # j
  PROVE  q[i].off # q[j].off
<1>1. Blocks(q) /\ i \in Nat /\ j \in Nat
  BY QueueBlocks
<1>2. Disjoint(q)
  BY <1>1, TiledDisjoint
<1>3. \/ End(q[i]) <= q[j].off
      \/ End(q[j]) <= q[i].off
  BY <1>1, <1>2 DEF Disjoint
<1>4. /\ q[i].off \in Nat /\ q[j].off \in Nat
      /\ q[i].size \in Nat \ {0} /\ q[j].size \in Nat \ {0}
  BY <1>1 DEF Blocks
<1> QED BY <1>3, <1>4 DEF End

(* ngx_statshouse_aggregate_timer() leaves a timer for a queue that is not *)
(* empty.                                                                  *)
LEMMA ArmTimerSets ==
  ASSUME NEW q \in Seq(Record), TypeOK, ArmTimer(q)
  PROVE  /\ deadline' \in {NoTimer} \cup 0..MsecWrap-1
         /\ posted' \in BOOLEAN
         /\ q # <<>> => TimerSet'
<1>1. CASE deadline # NoTimer \/ posted \/ q = <<>>
  BY <1>1 DEF ArmTimer, TypeOK, TimerSet
<1>2. CASE ~(deadline # NoTimer \/ posted \/ q = <<>>)
  <2>1. q[1] \in Record
    BY <1>2
  <2>2. Elapsed(q[1].time) \in Int
    <3>1. now - q[1].time \in Int
      BY <2>1, RecordFields, TimeAssumption DEF TypeOK
    <3>2. (now - q[1].time) % MsecWrap \in 0..MsecWrap-1
      BY <3>1, Clock
    <3>3. 0..MsecWrap-1 \subseteq Int
      OBVIOUS
    <3> QED BY <3>2, <3>3 DEF Elapsed
  <2>3. (now + Interval - Elapsed(q[1].time)) % MsecWrap \in 0..MsecWrap-1
    <3>1. now + Interval - Elapsed(q[1].time) \in Int
      BY <2>2, TimeAssumption DEF TypeOK
    <3> QED BY <3>1, Clock
  <2>4. CASE Elapsed(q[1].time) >= Interval
    BY <1>2, <2>4 DEF ArmTimer, TypeOK, TimerSet
  <2>5. CASE ~(Elapsed(q[1].time) >= Interval)
    <3>1. deadline' = (now + Interval - Elapsed(q[1].time)) % MsecWrap /\ posted' = posted
      BY <1>2, <2>5 DEF ArmTimer
    <3>2. deadline' # NoTimer
      BY <2>3, <3>1, TimeAssumption DEF NoTimer
    <3> QED BY <2>3, <3>1, <3>2 DEF TypeOK, TimerSet
  <2> QED BY <2>4, <2>5
<1> QED BY <1>1, <1>2

(* A full record taken out of the tree leaves the arena, and the queue's   *)
(* order, alone.                                                           *)
LEMMA DetachKeeps ==
  ASSUME TypeOK, ArenaTiled, IndexExact, NEW k \in 0..Len(queue)
  PROVE  /\ Detach(k) \in Seq(Record)
         /\ Len(Detach(k)) = Len(queue)
         /\ ArenaInv(Detach(k), pos, last)
         /\ DetachIndex(k) = OpenOffs(Detach(k))
<1> DEFINE q == Detach(k)
           n == Len(queue)
<1>1. n \in Nat /\ DOMAIN queue = 1..n /\ \A j \in 1..n : queue[j] \in Record
  BY QueueBlocks DEF TypeOK
<1>2. q \in [1..n -> Record]
  BY <1>1 DEF Detach, Record
<1>3. q \in Seq(Record) /\ Len(q) = n /\ DOMAIN q = 1..n
  BY <1>1, <1>2, SeqOfFunction
<1>4. \A j \in 1..n : /\ q[j].off = queue[j].off /\ q[j].size = queue[j].size
                      /\ q[j].key = IF j = k THEN 0 ELSE queue[j].key
  BY <1>1 DEF Detach, Record
<1> HIDE DEF q, n
<1>5. ArenaInv(q, pos, last)
  BY <1>1, <1>3, <1>4, SameBlocks DEF ArenaTiled, n
<1>6. DetachIndex(k) = OpenOffs(q)
  <2>1. CASE k = 0
    <3>1. OpenOffs(q) = OpenOffs(queue)
      BY <1>1, <1>3, <1>4, <2>1 DEF OpenOffs
    <3> QED BY <2>1, <3>1 DEF DetachIndex, IndexExact
  <2>2. CASE k # 0
    <3>1. k \in 1..n
      BY <1>1, <2>2 DEF n
    <3>2. \A j \in 1..n : j # k => queue[j].off # queue[k].off
      BY <3>1, OffsetsDiffer DEF TypeOK, ArenaTiled, n
    <3>3. OpenOffs(q) = OpenOffs(queue) \ {queue[k].off}
      BY <1>1, <1>3, <1>4, <3>1, <3>2 DEF OpenOffs
    <3> QED BY <2>2, <3>3 DEF DetachIndex, IndexExact
  <2> QED BY <2>1, <2>2
<1> QED BY <1>3, <1>5, <1>6 DEF q, n

(* A record placed by ngx_statshouse_aggregate().                          *)
LEMMA PlaceKeeps ==
  ASSUME TypeOK, NEW s \in Series, Kind[s] = "counter" \/ Values # 0,
         NEW id \in Nat \ {0}, NEW q \in Seq(Record), ArenaInv(q, pos, last),
         NEW idx, idx = OpenOffs(q),
         Place(s, id, q, idx)
  PROVE  /\ queue' \in Seq(Record) /\ queue' # <<>>
         /\ index' \subseteq Nat
         /\ pos' \in Nat /\ last' = last
         /\ deadline' \in {NoTimer} \cup 0..MsecWrap-1 /\ posted' \in BOOLEAN
         /\ ArenaInv(queue', pos', last')
         /\ index' = OpenOffs(queue')
         /\ TimerSet'
<1> DEFINE off == AllocPtr(pos, last, RecSize(s))
           r == [off |-> off, size |-> RecSize(s), time |-> now, key |-> Hash[s],
                 series |-> s, stats |-> <<id>>]
           n == Len(q)
<1>1. /\ off # NoSpace
      /\ queue' = Append(q, r)
      /\ index' = idx \cup {off}
      /\ pos' = off + RecSize(s)
      /\ ArmTimer(queue')
      /\ last' = last
  BY DEF Place
<1>2. RecSize(s) \in Nat \ {0} /\ Hash[s] \in Nat \ {0}
  BY RecSizePositive, SeriesAssumption
<1>3. off \in Nat
  BY <1>1, <1>2 DEF AllocPtr, NoSpace, TypeOK
<1>4. r \in Record
  BY <1>2, <1>3 DEF Record, TypeOK
<1>5. n \in Nat /\ DOMAIN q = 1..n /\ Blocks(q)
  BY QueueBlocks
<1>6. r.off = off /\ r.size = RecSize(s) /\ r.key # 0
  BY <1>2
<1> HIDE DEF r
<1>7. /\ queue' \in Seq(Record) /\ Len(queue') = n + 1 /\ queue' # <<>>
      /\ DOMAIN queue' = 1..n+1
      /\ \A i \in 1..n : queue'[i] = q[i]
      /\ queue'[n+1] = r
  BY <1>1, <1>4, <1>5
<1> HIDE DEF n, off
<1>8. ArenaInv(queue', off + RecSize(s), last)
  BY <1>1, <1>2, <1>5, <1>6, <1>7, AllocTiled DEF n, off
<1>9. index' = OpenOffs(queue')
  <2>1. OpenOffs(queue') = OpenOffs(q) \cup {off}
    BY <1>5, <1>6, <1>7 DEF OpenOffs
  <2> QED BY <1>1, <2>1
<1>10. index' \subseteq Nat
  <2>1. \A i \in 1..n+1 : queue'[i].off \in Nat
    BY <1>3, <1>5, <1>6, <1>7 DEF Blocks, n
  <2> QED BY <1>7, <1>9, <2>1 DEF OpenOffs
<1>11. /\ deadline' \in {NoTimer} \cup 0..MsecWrap-1 /\ posted' \in BOOLEAN
       /\ TimerSet'
  BY <1>1, <1>7, ArmTimerSets
<1> QED BY <1>1, <1>2, <1>3, <1>7, <1>8, <1>9, <1>10, <1>11

(* Giving stats another fate changes nothing else about them.              *)
LEMMA FateKeeps ==
  ASSUME TypeOK, NEW I, NEW f \in Fates
  PROVE  /\ Fate(I, f) \in Seq([series : Series, fate : Fates])
         /\ Len(Fate(I, f)) = Len(seen)
         /\ \A n \in 1..Len(seen) : Fate(I, f)[n].series = seen[n].series
<1> DEFINE g == Fate(I, f)
           S == [series : Series, fate : Fates]
           n == Len(seen)
<1>0. seen \in Seq(S)
  BY DEF TypeOK
<1>1. n \in Nat /\ DOMAIN seen = 1..n /\ \A i \in 1..n : seen[i] \in S
  <2> HIDE DEF S
  <2> QED BY <1>0
<1>2. \A i \in 1..n : g[i] \in S /\ g[i].series = seen[i].series
  BY <1>1 DEF Fate
<1>3. g \in [1..n -> S]
  BY <1>1, <1>2 DEF Fate
<1> HIDE DEF g, S, n
<1>4. g \in Seq(S) /\ Len(g) = n
  BY <1>1, <1>3, SeqOfFunction
<1> QED BY <1>2, <1>4 DEF g, S, n

(* See(s, f) adds a stat and touches no other.                             *)
LEMMA SeeKeeps ==
  ASSUME TypeOK, NEW s \in Series, NEW f \in Fates, See(s, f)
  PROVE  /\ seen' \in Seq([series : Series, fate : Fates])
         /\ Len(seen') > 0 /\ seen'[Len(seen')].series = s
         /\ New \in Nat \ {0}
<1>1. seen \in Seq([series : Series, fate : Fates]) /\ Len(seen) \in Nat
  BY DEF TypeOK
<1>2. [series |-> s, fate |-> f] \in [series : Series, fate : Fates]
  OBVIOUS
<1> QED BY <1>1, <1>2 DEF See, New

LEMMA LookupInQueue ==
  ASSUME TypeOK, NEW s, NEW i \in Lookup(s)
  PROVE  i \in 0..Len(queue)
<1>1. DOMAIN queue = 1..Len(queue) /\ Len(queue) \in Nat
  BY QueueBlocks DEF TypeOK
<1> QED BY <1>1 DEF Lookup, OfKind, Tie

----------------------------------------------------------------------------
LEMMA InitInv == Init => Inv
<1> SUFFICES ASSUME Init PROVE Inv
  OBVIOUS
<1>1. TypeOK
  <2>1. NoCall \in Calls
    BY DEF NoCall, Calls
  <2>2. \A S : <<>> \in Seq(S)
    OBVIOUS
  <2> QED BY <2>1, <2>2 DEF Init, TypeOK
<1>2. Len(queue) = 0 /\ DOMAIN queue = {}
  BY DEF Init
<1>3. ArenaTiled
  BY <1>2, SizeAssumption DEF Init, ArenaTiled, ArenaInv, Tiled, Straight, Inside
<1>4. IndexExact
  BY <1>2 DEF Init, IndexExact, OpenOffs
<1>5. CallOK /\ TimerInv
  BY DEF Init, CallOK, TimerInv, NoCall
<1> QED BY <1>1, <1>3, <1>4, <1>5 DEF Inv

LEMMA DeclineInv == ASSUME Inv, NEW s \in Series, Decline(s) PROVE Inv'
<1>1. Idle /\ call.task = "none"
  BY DEF Decline, Offered, Idle, NoCall
<1>2. seen' \in Seq([series : Series, fate : Fates])
  BY SeeKeeps DEF Inv, Decline, Fates
<1>3. TypeOK'
  BY <1>2 DEF Inv, Decline, TypeOK
<1>4. ArenaTiled' /\ IndexExact'
  BY DEF Inv, Decline, ArenaTiled, IndexExact
<1>5. CallOK' /\ TimerInv'
  BY <1>1 DEF Inv, Decline, CallOK, TimerInv, TimerSet
<1> QED BY <1>3, <1>4, <1>5 DEF Inv

LEMMA RefuseInv == ASSUME Inv, NEW s \in Series, Refuse(s) PROVE Inv'
BY DeclineInv DEF Refuse, Decline

LEMMA MergeInv == ASSUME Inv, NEW s \in Series, Merge(s) PROVE Inv'
<1>0. PICK i \in Lookup(s) : MergeAt(s, i)
  BY DEF Merge
<1>1. Idle /\ call.task = "none"
  BY <1>0 DEF MergeAt, Offered, Idle, NoCall
<1>2. i # 0 /\ queue' = [queue EXCEPT ![i].stats = Append(@, New)]
  BY <1>0 DEF MergeAt
<1> DEFINE n == Len(queue)
<1>3. n \in Nat /\ DOMAIN queue = 1..n /\ \A j \in 1..n : queue[j] \in Record
  BY QueueBlocks DEF Inv, TypeOK
<1>4. i \in 1..n
  BY <1>2, <1>3, LookupInQueue DEF Inv
<1>5. /\ seen' \in Seq([series : Series, fate : Fates])
      /\ New \in Nat \ {0}
  BY <1>0, SeeKeeps DEF Inv, MergeAt, Fates
<1>6. /\ DOMAIN queue' = 1..n
      /\ \A j \in 1..n : /\ queue'[j].off = queue[j].off /\ queue'[j].size = queue[j].size
                         /\ queue'[j].key = queue[j].key
                         /\ queue'[j] \in Record
  <2>1. DOMAIN queue' = 1..n
    BY <1>2, <1>3
  <2>2. Append(queue[i].stats, New) \in Seq(Nat \ {0})
    BY <1>3, <1>4, <1>5, RecordFields
  <2>3. queue'[i] = [queue[i] EXCEPT !.stats = Append(queue[i].stats, New)]
    BY <1>2, <1>3, <1>4
  <2>4. \A j \in 1..n : j # i => queue'[j] = queue[j]
    BY <1>2, <1>3, <1>4
  <2>5. queue[i] \in Record
    BY <1>3, <1>4
  <2>6. /\ queue'[i] \in Record /\ queue'[i].off = queue[i].off
        /\ queue'[i].size = queue[i].size /\ queue'[i].key = queue[i].key
    BY <2>2, <2>3, <2>5 DEF Record
  <2> QED BY <1>3, <2>1, <2>4, <2>6
<1>7. queue' \in [1..n -> Record]
  BY <1>2, <1>3, <1>6
<1> HIDE DEF n
<1>8. queue' \in Seq(Record) /\ Len(queue') = n
  BY <1>3, <1>7, SeqOfFunction
<1>9. TypeOK'
  BY <1>0, <1>5, <1>8 DEF Inv, MergeAt, TypeOK
<1>10. ArenaTiled'
  BY <1>0, <1>3, <1>6, <1>8, SameBlocks DEF Inv, MergeAt, ArenaTiled, n
<1>11. IndexExact'
  <2>1. OpenOffs(queue') = OpenOffs(queue)
    BY <1>3, <1>6 DEF OpenOffs
  <2> QED BY <1>0, <2>1 DEF Inv, MergeAt, IndexExact
<1>12. CallOK' /\ TimerInv'
  <2>1. queue # <<>>
    BY <1>3, <1>4 DEF n
  <2> QED BY <1>0, <1>1, <2>1 DEF Inv, MergeAt, CallOK, TimerInv, TimerSet
<1> QED BY <1>9, <1>10, <1>11, <1>12 DEF Inv

LEMMA StoreInv == ASSUME Inv, NEW s \in Series, Store(s) PROVE Inv'
<1>0. PICK i \in Lookup(s) : StoreAt(s, i)
  BY DEF Store
<1>1. Idle /\ call = NoCall /\ call.task = "none" /\ call' = call
  BY <1>0 DEF StoreAt, Offered, Idle, NoCall
<1>2. Place(s, New, Detach(i), DetachIndex(i))
  BY <1>0 DEF StoreAt
<1>3. i \in 0..Len(queue)
  BY LookupInQueue DEF Inv
<1>4. /\ Detach(i) \in Seq(Record)
      /\ ArenaInv(Detach(i), pos, last)
      /\ DetachIndex(i) = OpenOffs(Detach(i))
  BY <1>3, DetachKeeps DEF Inv
<1>5. /\ seen' \in Seq([series : Series, fate : Fates])
      /\ New \in Nat \ {0}
  BY <1>0, SeeKeeps DEF Inv, StoreAt, Fates
<1>6. Kind[s] = "counter" \/ Values # 0
  BY <1>0 DEF StoreAt, Accepts
<1>7. /\ queue' \in Seq(Record) /\ queue' # <<>>
      /\ index' \subseteq Nat
      /\ pos' \in Nat /\ last' = last
      /\ deadline' \in {NoTimer} \cup 0..MsecWrap-1 /\ posted' \in BOOLEAN
      /\ ArenaInv(queue', pos', last')
      /\ index' = OpenOffs(queue')
      /\ TimerSet'
  BY <1>2, <1>4, <1>5, <1>6, PlaceKeeps DEF Inv
<1>8. TypeOK'
  BY <1>0, <1>5, <1>7 DEF Inv, StoreAt, TypeOK
<1>9. ArenaTiled' /\ IndexExact'
  BY <1>7 DEF ArenaTiled, IndexExact
<1>10. CallOK' /\ TimerInv'
  BY <1>1, <1>7 DEF Inv, CallOK, TimerInv
<1> QED BY <1>8, <1>9, <1>10 DEF Inv

LEMMA NeedSpaceInv == ASSUME Inv, NEW s \in Series, NeedSpace(s) PROVE Inv'
<1>0. PICK i \in Lookup(s) : NeedSpaceAt(s, i)
  BY DEF NeedSpace
<1>1. Idle /\ call = NoCall /\ call.task = "none"
  BY <1>0 DEF NeedSpaceAt, Offered, Idle, NoCall
<1>2. queue' = Detach(i) /\ index' = DetachIndex(i)
  BY <1>0 DEF NeedSpaceAt
<1>3. i \in 0..Len(queue)
  BY LookupInQueue DEF Inv
<1>4. /\ queue' \in Seq(Record)
      /\ Len(queue') = Len(queue)
      /\ ArenaInv(queue', pos, last)
      /\ index' = OpenOffs(queue')
  BY <1>2, <1>3, DetachKeeps DEF Inv
<1>5. /\ seen' \in Seq([series : Series, fate : Fates])
      /\ Len(seen') > 0 /\ seen'[Len(seen')].series = s
  BY <1>0, SeeKeeps DEF Inv, NeedSpaceAt, Fates
<1>6. call' = [pc |-> "process", task |-> "stat", flush |-> FALSE, handed |-> FALSE]
  BY <1>0 DEF NeedSpaceAt, NoCall
<1>7. index' \subseteq Nat
  <2>1. DOMAIN queue' = 1..Len(queue') /\ Blocks(queue')
    BY <1>4, QueueBlocks
  <2> QED BY <1>4, <2>1 DEF OpenOffs, Blocks
<1>8. TypeOK'
  <2>1. call' \in Calls
    BY <1>6 DEF Calls
  <2>2. /\ pos' = pos /\ last' = last /\ deadline' = deadline
        /\ posted' = posted /\ now' = now /\ stop' = stop
    BY <1>0 DEF NeedSpaceAt
  <2> QED BY <1>4, <1>5, <1>7, <2>1, <2>2 DEF Inv, TypeOK
<1>9. ArenaTiled' /\ IndexExact'
  BY <1>0, <1>4 DEF NeedSpaceAt, ArenaTiled, IndexExact
<1>10. CallOK'
  BY <1>0, <1>5, <1>6 DEF NeedSpaceAt, Accepts, CallOK, NoCall
<1>11. TimerInv'
  <2>1. queue' # <<>> => queue # <<>>
    BY <1>4 DEF Inv, TypeOK
  <2> QED BY <1>0, <1>1, <2>1 DEF Inv, NeedSpaceAt, TimerInv, TimerSet
<1> QED BY <1>8, <1>9, <1>10, <1>11 DEF Inv

(* The steps that touch neither the records nor the stats.                 *)
LEMMA QuietInv ==
  ASSUME Inv, UNCHANGED <<queue, index, pos, last, seen>>,
         deadline' \in {NoTimer} \cup 0..MsecWrap-1, posted' \in BOOLEAN,
         now' \in 0..MsecWrap-1, stop' \in {"run", "quit", "terminate", "exited"},
         call' \in Calls, CallOK', TimerInv'
  PROVE  Inv'
<1>1. TypeOK'
  BY DEF Inv, TypeOK
<1>2. ArenaTiled' /\ IndexExact'
  BY DEF Inv, ArenaTiled, IndexExact
<1> QED BY <1>1, <1>2 DEF Inv

LEMMA EnterInv == ASSUME Inv, Enter PROVE Inv'
<1>1. /\ call' = [call EXCEPT !.pc = "loop", !.flush = Stopping]
      /\ call \in Calls /\ Stopping \in BOOLEAN
      /\ call.pc = "process"
  BY DEF Inv, TypeOK, Enter, Stopping
<1>2. call' \in Calls /\ call'.pc = "loop" /\ call'.task = call.task
  BY <1>1 DEF Calls
<1>3. CallOK' /\ TimerInv'
  <2>1. seen' = seen /\ queue' = queue /\ deadline' = deadline /\ posted' = posted
    BY DEF Enter
  <2>2. call'.pc # "idle" /\ call'.task # "none" /\ call' # NoCall
    BY <1>1, <1>2 DEF Inv, CallOK, NoCall
  <2>3. CallOK'
    BY <1>2, <2>1, <2>2 DEF Inv, CallOK
  <2>4. TimerInv'
    BY <1>2, <2>1 DEF Inv, TimerInv, TimerSet
  <2> QED BY <2>3, <2>4
<1> QED BY <1>2, <1>3, QuietInv DEF Inv, TypeOK, Enter

LEMMA HandOverInv == ASSUME Inv, NEW rc \in {"ok", "declined"}, HandOver(rc) PROVE Inv'
<1> DEFINE n == Len(queue)
           r == queue[1]
<1>1. /\ queue' = Tail(queue)
      /\ index' = IF r.key # 0 THEN index \ {r.off} ELSE index
      /\ last' = FreeLast(last, r.off, r.size)
      /\ call' = [call EXCEPT !.handed = @ \/ rc = "ok"]
      /\ call.pc = "loop" /\ queue # <<>>
      /\ pos' = pos /\ deadline' = deadline /\ posted' = posted
      /\ now' = now /\ stop' = stop
  BY DEF HandOver, Due
<1>2. n \in Nat /\ DOMAIN queue = 1..n /\ Blocks(queue) /\ queue \in Seq(Record)
  BY QueueBlocks DEF Inv, TypeOK
<1>3. n > 0 /\ 1 \in 1..n
  BY <1>1, <1>2
<1>4. /\ queue' \in Seq(Record) /\ Len(queue') = n - 1 /\ DOMAIN queue' = 1..n-1
      /\ \A i \in 1..n-1 : queue'[i] = queue[i+1]
  BY <1>1, <1>2, <1>3
<1>5. /\ seen' \in Seq([series : Series, fate : Fates]) /\ Len(seen') = Len(seen)
      /\ \A i \in 1..Len(seen) : seen'[i].series = seen[i].series
  <2>1. PICK f \in Fates : seen' = Fate(StatsOf(r), f)
    BY DEF HandOver, Fates
  <2>2. TypeOK
    BY DEF Inv
  <2> DEFINE g == Fate(StatsOf(r), f)
  <2>3. /\ g \in Seq([series : Series, fate : Fates]) /\ Len(g) = Len(seen)
        /\ \A i \in 1..Len(seen) : g[i].series = seen[i].series
    BY <2>2, FateKeeps
  <2>4. seen' = g
    BY <2>1
  <2> HIDE DEF g
  <2> QED BY <2>3, <2>4
<1>6. ArenaInv(queue', pos, last')
  BY <1>1, <1>2, <1>3, <1>4, FreeTiled DEF Inv, ArenaTiled
<1>7. index' = OpenOffs(queue')
  <2>1. index = OpenOffs(queue)
    BY DEF Inv, IndexExact
  <2>2. \A i \in 1..n : i # 1 => queue[i].off # r.off
    BY <1>2, <1>3, OffsetsDiffer DEF Inv, ArenaTiled
  <2>3. \A i \in 1..n : i = 1 \/ (i-1 \in 1..n-1 /\ queue'[i-1] = queue[i])
    BY <1>2, <1>4
  <2>4. \A i \in 1..n-1 : i+1 \in 1..n /\ i+1 # 1
    BY <1>2
  <2>5. OpenOffs(queue') = OpenOffs(queue) \ {r.off}
    <3>1. OpenOffs(queue') \subseteq OpenOffs(queue) \ {r.off}
      BY <1>2, <1>4, <2>2, <2>4 DEF OpenOffs
    <3>2. ASSUME NEW o \in OpenOffs(queue), o # r.off PROVE o \in OpenOffs(queue')
      <4>1. PICK i \in 1..n : queue[i].key # 0 /\ o = queue[i].off
        BY <1>2 DEF OpenOffs
      <4>2. i-1 \in 1..n-1 /\ queue'[i-1] = queue[i]
        BY <2>3, <3>2, <4>1
      <4> QED BY <1>4, <4>1, <4>2 DEF OpenOffs
    <3> QED BY <3>1, <3>2
  <2>6. r.key = 0 => r.off \notin OpenOffs(queue)
    BY <1>2, <2>2 DEF OpenOffs
  <2> QED BY <1>1, <2>1, <2>5, <2>6
<1>8. call' \in Calls /\ call'.pc = "loop" /\ call'.task = call.task
  <2>1. call \in Calls
    BY DEF Inv, TypeOK
  <2> QED BY <1>1, <2>1 DEF Calls
<1>9. TypeOK'
  <2>1. index' \subseteq Nat
    BY <1>1 DEF Inv, TypeOK
  <2>2. last' \in Nat
    BY <1>6, SizeAssumption DEF ArenaInv
  <2> QED BY <1>1, <1>4, <1>5, <1>8, <2>1, <2>2 DEF Inv, TypeOK
<1>10. ArenaTiled' /\ IndexExact'
  BY <1>1, <1>6, <1>7 DEF ArenaTiled, IndexExact
<1>11. CallOK'
  <2>1. Len(seen) > 0 => seen'[Len(seen')].series = seen[Len(seen)].series
    BY <1>5 DEF Inv, TypeOK
  <2> QED BY <1>1, <1>5, <1>8, <2>1 DEF Inv, CallOK, NoCall
<1>12. TimerInv'
  BY <1>1, <1>8 DEF Inv, TimerInv, TimerSet
<1> QED BY <1>9, <1>10, <1>11, <1>12 DEF Inv

LEMMA EndTimerInv == ASSUME Inv, NEW rc, EndTimer(rc) PROVE Inv'
<1>1. /\ ArmTimer(queue) /\ call' = NoCall
      /\ UNCHANGED <<queue, index, pos, last, now, stop, seen>>
  BY DEF EndTimer
<1>2. /\ deadline' \in {NoTimer} \cup 0..MsecWrap-1
      /\ posted' \in BOOLEAN
      /\ queue # <<>> => TimerSet'
  BY <1>1, ArmTimerSets DEF Inv, TypeOK
<1>3. call' \in Calls /\ CallOK' /\ TimerInv'
  BY <1>1, <1>2 DEF CallOK, TimerInv, NoCall, Calls
<1> QED BY <1>1, <1>2, <1>3, QuietInv DEF Inv, TypeOK

(* What a call for a stat knows of it when it returns.                     *)
LEMMA PendingStat ==
  ASSUME Inv, call.task = "stat"
  PROVE  /\ Len(seen) \in Nat \ {0}
         /\ seen[Len(seen)].series \in Series
         /\ Kind[seen[Len(seen)].series] = "counter" \/ Values # 0
<1>1. Len(seen) \in Nat \ {0}
  BY DEF Inv, TypeOK, CallOK
<1>2. seen[Len(seen)] \in [series : Series, fate : Fates]
  <2> DEFINE S == [series : Series, fate : Fates]
  <2>1. seen \in Seq(S)
    BY DEF Inv, TypeOK
  <2> HIDE DEF S
  <2>2. seen[Len(seen)] \in S
    BY <1>1, <2>1
  <2> QED BY <2>2 DEF S
<1> QED BY <1>1, <1>2 DEF Inv, CallOK

LEMMA EndStoredInv == ASSUME Inv, NEW rc, EndStored(rc) PROVE Inv'
<1> DEFINE s == seen[Len(seen)].series
<1>1. /\ Place(s, Len(seen), queue, index)
      /\ seen' = Fate({Len(seen)}, "held")
      /\ call' = NoCall /\ now' = now /\ stop' = stop
      /\ call.task = "stat"
  BY DEF EndStored
<1>2. Len(seen) \in Nat \ {0} /\ s \in Series /\ (Kind[s] = "counter" \/ Values # 0)
  BY <1>1, PendingStat
<1>3. queue \in Seq(Record) /\ ArenaInv(queue, pos, last) /\ index = OpenOffs(queue)
  BY DEF Inv, TypeOK, ArenaTiled, IndexExact
<1> HIDE DEF s
<1>4. /\ queue' \in Seq(Record) /\ queue' # <<>>
      /\ index' \subseteq Nat
      /\ pos' \in Nat /\ last' = last
      /\ deadline' \in {NoTimer} \cup 0..MsecWrap-1 /\ posted' \in BOOLEAN
      /\ ArenaInv(queue', pos', last')
      /\ index' = OpenOffs(queue')
      /\ TimerSet'
  BY <1>1, <1>2, <1>3, PlaceKeeps DEF Inv
<1>5. seen' \in Seq([series : Series, fate : Fates])
  BY <1>1, FateKeeps DEF Inv, Fates
<1>6. call' \in Calls /\ CallOK' /\ TimerInv'
  BY <1>1, <1>4 DEF CallOK, TimerInv, NoCall, Calls
<1>7. TypeOK'
  BY <1>1, <1>4, <1>5, <1>6 DEF Inv, TypeOK
<1>8. ArenaTiled' /\ IndexExact'
  BY <1>4 DEF ArenaTiled, IndexExact
<1> QED BY <1>6, <1>7, <1>8 DEF Inv

(* The two ways a call for a stat ends without a record for it.            *)
LEMMA EndEmptyInv ==
  ASSUME Inv, NEW rc, EndDeclined(rc) \/ EndFailed(rc)
  PROVE  Inv'
<1>1. PICK f \in Fates : seen' = Fate({Len(seen)}, f)
  BY DEF EndDeclined, EndFailed, Fates
<1>2. /\ call' = NoCall /\ call.task = "stat"
      /\ UNCHANGED <<queue, index, pos, last, deadline, posted, now, stop>>
  BY DEF EndDeclined, EndFailed
<1>3. seen' \in Seq([series : Series, fate : Fates])
  BY <1>1, FateKeeps DEF Inv
<1>4. call' \in Calls /\ CallOK' /\ TimerInv'
  BY <1>2 DEF Inv, CallOK, TimerInv, TimerSet, NoCall, Calls
<1>5. TypeOK'
  BY <1>2, <1>3, <1>4 DEF Inv, TypeOK
<1>6. ArenaTiled' /\ IndexExact'
  BY <1>2 DEF Inv, ArenaTiled, IndexExact
<1> QED BY <1>4, <1>5, <1>6 DEF Inv

(* The event loop starts the timer's call, or moves on.                    *)
LEMMA RunTimerInv == ASSUME Inv, TimerRuns PROVE Inv'
<1>1. call' = [pc |-> "process", task |-> "timer", flush |-> FALSE, handed |-> FALSE]
  BY DEF TimerRuns, NoCall
<1>2. /\ deadline' \in {NoTimer, deadline} /\ posted' \in {FALSE, posted}
      /\ UNCHANGED <<queue, index, pos, last, now, stop, seen>>
  BY DEF TimerRuns
<1>3. call' \in Calls /\ CallOK' /\ TimerInv'
  BY <1>1 DEF CallOK, TimerInv, NoCall, Calls
<1> QED BY <1>2, <1>3, QuietInv DEF Inv, TypeOK

LEMMA LoopInv == ASSUME Inv, Tick \/ Signal PROVE Inv'
<1>1. UNCHANGED <<queue, index, pos, last, deadline, posted, call, seen>>
  BY DEF Tick, Signal, Quit, Terminate, Exit
<1>2. now' \in 0..MsecWrap-1
  <2>1. CASE Tick
    <3>1. now + 1 \in Int
      BY TimeAssumption DEF Inv, TypeOK
    <3> QED BY <2>1, <3>1, Clock DEF Tick
  <2>2. CASE Signal
    BY <2>2 DEF Inv, TypeOK, Signal, Quit, Terminate, Exit
  <2> QED BY <2>1, <2>2
<1>3. stop' \in {"run", "quit", "terminate", "exited"}
  BY DEF Inv, TypeOK, Tick, Signal, Quit, Terminate, Exit
<1>4. CallOK' /\ TimerInv'
  BY <1>1 DEF Inv, CallOK, TimerInv, TimerSet
<1> QED BY <1>1, <1>2, <1>3, <1>4, QuietInv DEF Inv, TypeOK

----------------------------------------------------------------------------
LEMMA NextInv == ASSUME Inv, [Next]_vars PROVE Inv'
<1>1. CASE Request
  BY <1>1, RefuseInv, MergeInv, StoreInv, NeedSpaceInv DEF Request
<1>2. CASE Process
  BY <1>2, EnterInv, HandOverInv, EndTimerInv, EndStoredInv, EndEmptyInv DEF Process
<1>3. CASE Loop
  BY <1>3, RunTimerInv, LoopInv DEF Loop
<1>4. CASE Signal
  BY <1>4, LoopInv
<1>5. CASE UNCHANGED vars
  BY <1>5 DEF vars, Inv, TypeOK, ArenaTiled, IndexExact, CallOK, TimerInv, TimerSet
<1> QED BY <1>1, <1>2, <1>3, <1>4, <1>5 DEF Next

(* The inductive invariant of the aggregator.                              *)
THEOREM Invariance == Spec => []Inv
<1>1. Init => Inv
  BY InitInv
<1>2. Inv /\ [Next]_vars => Inv'
  BY NextInv
<1> QED BY <1>1, <1>2, PTL DEF Spec

(* Every variable keeps its type, whatever is offered and whenever the     *)
(* worker stops.                                                           *)
THEOREM TypeCorrect == Spec => []TypeOK
<1>1. Inv => TypeOK
  BY DEF Inv
<1> QED BY <1>1, Invariance, PTL

(* ngx_statshouse_aggregate_alloc() never hands out memory that a record   *)
(* in the queue uses, nor memory outside the arena.                        *)
THEOREM ArenaIsSafe == Spec => []ArenaSafe
<1>1. Inv => ArenaSafe
  <2> SUFFICES ASSUME Inv PROVE ArenaSafe
    OBVIOUS
  <2>1. Blocks(queue)
    BY QueueBlocks DEF Inv, TypeOK
  <2> QED BY <2>1, TiledDisjoint DEF Inv, ArenaTiled, ArenaSafe
<1> QED BY <1>1, Invariance, PTL

(* The tree links exactly the queued records that are open: no lookup      *)
(* walks over a record that was freed.                                     *)
THEOREM IndexIsExact == Spec => []IndexExact
<1>1. Inv => IndexExact
  BY DEF Inv
<1> QED BY <1>1, Invariance, PTL

(* No record in the queue is ever without a timer between calls.           *)
THEOREM TimerIsSet == Spec => []TimerCovers
<1>1. Inv => TimerCovers
  BY DEF Inv, CallOK, TimerInv, TimerSet, TimerCovers
<1> QED BY <1>1, Invariance, PTL

(* An aggregator that holds nothing has room for every record smaller than *)
(* half its arena.                                                         *)
THEOREM EmptyArenaHasRoom == Spec => []EmptyArenaServes
<1>1. Inv => EmptyArenaServes
  <2> SUFFICES ASSUME Inv, NEW s \in Series, Kind[s] = "counter" \/ Values # 0,
                      queue = <<>>, 2 * RecSize(s) < Size
               PROVE  AllocPtr(pos, last, RecSize(s)) # NoSpace
    BY DEF EmptyArenaServes
  <2>1. Len(queue) = 0 /\ RecSize(s) \in Nat
    BY RecSizePositive
  <2> QED BY <2>1, EmptyServes DEF Inv, ArenaTiled
<1> QED BY <1>1, Invariance, PTL

----------------------------------------------------------------------------
(* Part three: the stats *)

(* What the code can tell apart of a series.                               *)
Alike(s, t) == Hash[s] = Hash[t] /\ RecSize(s) = RecSize(t) /\ Kind[s] = Kind[t]

(* The fates of stats that are, or were, in a record *)
Taken == {"held", "handed", "dropped"}

(* The record r is what ngx_statshouse_aggregate() makes of its series,    *)
(* and has stats of sn in it that are held and look like its series.       *)
RecordHolds(r, sn) ==
  /\ r.size = RecSize(r.series)
  /\ r.key \in {0, Hash[r.series]}
  /\ Kind[r.series] # "counter" => Len(r.stats) <= Values
  /\ \A n \in StatsOf(r) :
       n \in DOMAIN sn /\ sn[n].fate = "held" /\ Alike(sn[n].series, r.series)

RecordsHold(q, sn) == \A i \in DOMAIN q : RecordHolds(q[i], sn)

(* No held stat is without a record, and none is in two places.            *)
Kept(q, sn) == \A n \in DOMAIN sn : sn[n].fate = "held" => \E i \in DOMAIN q : n \in StatsOf(q[i])

Once(q) ==
  \A i, j \in DOMAIN q : \A a \in DOMAIN q[i].stats, b \in DOMAIN q[j].stats :
    q[i].stats[a] = q[j].stats[b] => i = j /\ a = b

(* Of the records of a series with a hash and size of its own, only the    *)
(* youngest is open, and each has stats older than the next one's.         *)
Ordered(q) ==
  \A i, j \in DOMAIN q :
    (i < j /\ q[i].series = q[j].series /\ Alone(q[i].series)) =>
      /\ q[i].key = 0
      /\ \A m \in StatsOf(q[i]), n \in StatsOf(q[j]) : m < n

NoneOvertaken(sn) ==
  \A m, n \in DOMAIN sn :
    (m < n /\ sn[m].series = sn[n].series /\ Alone(sn[m].series) /\ sn[m].fate = "held")
      => sn[n].fate \notin {"handed", "dropped"}

StatsInv(q, sn) ==
  RecordsHold(q, sn) /\ Kept(q, sn) /\ Once(q) /\ Ordered(q) /\ NoneOvertaken(sn)

NoneOpen(q, s) == Alone(s) => \A i \in DOMAIN q : q[i].series = s => q[i].key = 0

(* While process() makes space for a stat, that stat is the last one and   *)
(* in no record, and no open record could have taken it: it may be stored  *)
(* afterwards without another lookup.  A call that hands over everything   *)
(* is one of a worker that stops.                                          *)
CallHolds ==
  /\ call.task = "stat" => /\ seen[Len(seen)].fate = "pending"
                           /\ NoneOpen(queue, seen[Len(seen)].series)
  /\ call.flush => Stopping

SInv == Inv /\ StatsInv(queue, seen) /\ CallHolds

----------------------------------------------------------------------------
(* What happens to stats that are in no record does not matter.            *)
LEMMA OtherStats ==
  ASSUME NEW q, NEW sn, NEW sn2, StatsInv(q, sn),
         DOMAIN sn \subseteq DOMAIN sn2,
         \A n \in DOMAIN sn : /\ sn2[n].series = sn[n].series
                              /\ sn[n].fate \in Taken => sn2[n].fate = sn[n].fate,
         \A n \in DOMAIN sn2 : sn2[n].fate \in Taken => n \in DOMAIN sn /\ sn2[n].fate = sn[n].fate
  PROVE  StatsInv(q, sn2)
<1>1. RecordsHold(q, sn2)
  BY DEF StatsInv, RecordsHold, RecordHolds, Taken
<1>2. Kept(q, sn2)
  BY DEF StatsInv, Kept, Taken
<1>3. NoneOvertaken(sn2)
  BY DEF StatsInv, NoneOvertaken, Taken
<1> QED BY <1>1, <1>2, <1>3 DEF StatsInv

(* Nor does it matter for the stats that a record leaves the tree.         *)
LEMMA RecordDetached ==
  ASSUME NEW q, NEW sn, NEW p, StatsInv(q, sn), DOMAIN p = DOMAIN q,
         \A i \in DOMAIN q : /\ p[i].size = q[i].size /\ p[i].series = q[i].series
                             /\ p[i].stats = q[i].stats /\ p[i].key \in {0, q[i].key}
  PROVE  StatsInv(p, sn)
<1>1. \A i \in DOMAIN q : StatsOf(p[i]) = StatsOf(q[i])
  BY DEF StatsOf
<1>2. RecordsHold(p, sn)
  BY <1>1 DEF StatsInv, RecordsHold, RecordHolds
<1>3. Kept(p, sn)
  BY <1>1 DEF StatsInv, Kept
<1>4. Once(p)
  BY DEF StatsInv, Once
<1>5. Ordered(p)
  BY <1>1 DEF StatsInv, Ordered
<1> QED BY <1>2, <1>3, <1>4, <1>5 DEF StatsInv

(* The stat id, the last one, is put into a record of its own.             *)
LEMMA StatPlaced ==
  ASSUME NEW q \in Seq(Record), NEW sn, NEW sn2, StatsInv(q, sn),
         NEW s \in Series, Kind[s] = "counter" \/ Values # 0, NoneOpen(q, s),
         NEW id \in Nat \ {0}, NEW r, r.series = s, r.size = RecSize(s), r.key = Hash[s],
         r.stats = <<id>>,
         id \in DOMAIN sn2, sn2[id].series = s, sn2[id].fate = "held",
         id \in DOMAIN sn => sn[id].fate \notin Taken,
         DOMAIN sn \subseteq DOMAIN sn2, DOMAIN sn2 \subseteq 1..id,
         \A n \in DOMAIN sn2 : n # id => n \in DOMAIN sn /\ sn2[n] = sn[n]
  PROVE  StatsInv(Append(q, r), sn2)
<1> DEFINE p == Append(q, r)
           k == Len(q)
<1>1. /\ k \in Nat /\ DOMAIN q = 1..k /\ DOMAIN p = 1..k+1
      /\ \A i \in 1..k : p[i] = q[i]
      /\ p[k+1] = r
  OBVIOUS
<1>2. DOMAIN r.stats = {1} /\ r.stats[1] = id /\ Len(r.stats) = 1 /\ StatsOf(r) = {id}
  BY DEF StatsOf
<1>3. \A i \in 1..k : id \notin StatsOf(q[i])
  BY <1>1 DEF StatsInv, RecordsHold, RecordHolds, Taken
<1> HIDE DEF p, k
<1>4. RecordsHold(p, sn2)
  <2>1. RecordHolds(r, sn2)
    BY <1>2, SeriesAssumption DEF RecordHolds, Alike
  <2>2. \A i \in 1..k : RecordHolds(q[i], sn2)
    BY <1>1, <1>3 DEF StatsInv, RecordsHold, RecordHolds
  <2>3. \A i \in DOMAIN p : i \in 1..k \/ i = k+1
    BY <1>1
  <2> QED BY <1>1, <2>1, <2>2, <2>3 DEF RecordsHold
<1>5. Kept(p, sn2)
  <2> SUFFICES ASSUME NEW n \in DOMAIN sn2, sn2[n].fate = "held"
               PROVE  \E i \in DOMAIN p : n \in StatsOf(p[i])
    BY DEF Kept
  <2>1. CASE n = id
    BY <1>1, <1>2, <2>1
  <2>2. CASE n # id
    <3>1. PICK i \in 1..k : n \in StatsOf(q[i])
      BY <1>1, <2>2 DEF StatsInv, Kept
    <3> QED BY <1>1, <3>1
  <2> QED BY <2>1, <2>2
<1>6. Once(p)
  <2> SUFFICES ASSUME NEW i \in DOMAIN p, NEW j \in DOMAIN p,
                      NEW a \in DOMAIN p[i].stats, NEW b \in DOMAIN p[j].stats,
                      p[i].stats[a] = p[j].stats[b]
               PROVE  i = j /\ a = b
    BY DEF Once
  <2>1. CASE i \in 1..k /\ j \in 1..k
    BY <1>1, <2>1 DEF StatsInv, Once
  <2>2. CASE i = k+1 /\ j = k+1
    BY <1>1, <1>2, <2>2
  <2>3. CASE i \in 1..k /\ j = k+1
    BY <1>1, <1>2, <1>3, <2>3 DEF StatsOf
  <2>4. CASE i = k+1 /\ j \in 1..k
    BY <1>1, <1>2, <1>3, <2>4 DEF StatsOf
  <2> QED BY <1>1, <2>1, <2>2, <2>3, <2>4
<1>7. Ordered(p)
  <2> SUFFICES ASSUME NEW i \in DOMAIN p, NEW j \in DOMAIN p, i < j,
                      p[i].series = p[j].series, Alone(p[i].series)
               PROVE  p[i].key = 0 /\ \A m \in StatsOf(p[i]), n \in StatsOf(p[j]) : m < n
    BY DEF Ordered
  <2>1. i \in 1..k /\ (j \in 1..k \/ j = k+1)
    BY <1>1
  <2>2. CASE j \in 1..k
    BY <1>1, <2>1, <2>2 DEF StatsInv, Ordered
  <2>3. CASE j = k+1
    <3>1. p[i].key = 0
      BY <1>1, <2>1, <2>3 DEF NoneOpen
    <3>2. \A m \in StatsOf(q[i]) : m \in 1..id /\ m # id
      BY <1>1, <1>3, <2>1 DEF StatsInv, RecordsHold, RecordHolds
    <3>3. \A m \in StatsOf(q[i]) : m < id
      BY <3>2
    <3> QED BY <1>1, <1>2, <2>1, <2>3, <3>1, <3>3
  <2> QED BY <2>1, <2>2, <2>3
<1>8. NoneOvertaken(sn2)
  <2> SUFFICES ASSUME NEW m \in DOMAIN sn2, NEW n \in DOMAIN sn2, m < n,
                      sn2[m].series = sn2[n].series, Alone(sn2[m].series), sn2[m].fate = "held"
               PROVE  sn2[n].fate \notin {"handed", "dropped"}
    BY DEF NoneOvertaken
  <2>1. m # id
    OBVIOUS
  <2>2. CASE n = id
    BY <2>2
  <2>3. CASE n # id
    BY <2>1, <2>3 DEF StatsInv, NoneOvertaken
  <2> QED BY <2>2, <2>3
<1> QED BY <1>4, <1>5, <1>6, <1>7, <1>8 DEF StatsInv, p

LEMMA AppendIndices ==
  ASSUME NEW T, NEW t \in Seq(T), NEW x \in T
  PROVE  /\ Len(t) \in Nat /\ DOMAIN t = 1..Len(t)
         /\ DOMAIN Append(t, x) = 1..Len(t)+1 /\ Len(Append(t, x)) = Len(t) + 1
         /\ \A a \in 1..Len(t) : Append(t, x)[a] = t[a]
         /\ Append(t, x)[Len(t)+1] = x
OBVIOUS

(* The stat id, the last one, is added to the open record at i.            *)
LEMMA StatMerged ==
  ASSUME NEW q \in Seq(Record), NEW sn, NEW sn2, StatsInv(q, sn),
         NEW s \in Series, NEW i \in DOMAIN q, q[i].key # 0, Alike(s, q[i].series),
         HasRoom(q[i]), NEW id \in Nat \ {0},
         id \notin DOMAIN sn, DOMAIN sn2 = DOMAIN sn \cup {id}, DOMAIN sn2 \subseteq 1..id,
         sn2[id].series = s, sn2[id].fate = "held",
         \A n \in DOMAIN sn : sn2[n] = sn[n]
  PROVE  StatsInv([q EXCEPT ![i].stats = Append(@, id)], sn2)
<1> DEFINE p == [q EXCEPT ![i].stats = Append(@, id)]
           k == Len(q)
           l == Len(q[i].stats)
<1>1. /\ k \in Nat /\ DOMAIN q = 1..k /\ DOMAIN p = 1..k
      /\ \A j \in 1..k : q[j] \in Record /\ (j # i => p[j] = q[j])
      /\ p[i] = [q[i] EXCEPT !.stats = Append(q[i].stats, id)]
  OBVIOUS
<1>2. /\ p[i].key = q[i].key /\ p[i].size = q[i].size /\ p[i].series = q[i].series
      /\ p[i].stats = Append(q[i].stats, id)
      /\ q[i].stats \in Seq(Nat \ {0})
  BY <1>1 DEF Record
<1>6. \A j \in 1..k : p[j].series = q[j].series /\ p[j].key = q[j].key
  BY <1>1, <1>2
<1> HIDE DEF p, k
<1>3. /\ l \in Nat /\ DOMAIN q[i].stats = 1..l /\ DOMAIN p[i].stats = 1..l+1
      /\ Len(p[i].stats) = l + 1
      /\ \A a \in 1..l : p[i].stats[a] = q[i].stats[a]
      /\ p[i].stats[l+1] = id
  BY <1>2, AppendIndices
<1> HIDE DEF l
<1>4. StatsOf(p[i]) = StatsOf(q[i]) \cup {id}
  <2>1. \A a \in 1..l+1 : a \in 1..l \/ a = l+1
    BY <1>3
  <2>2. 1..l \subseteq 1..l+1 /\ l+1 \in 1..l+1
    BY <1>3
  <2>3. StatsOf(p[i]) = {p[i].stats[a] : a \in 1..l+1} /\ StatsOf(q[i]) = {q[i].stats[a] : a \in 1..l}
    BY <1>3, Zenon DEF StatsOf
  <2>4. {p[i].stats[a] : a \in 1..l+1} = {p[i].stats[a] : a \in 1..l} \cup {p[i].stats[l+1]}
    BY <2>1, <2>2, Zenon
  <2>5. {p[i].stats[a] : a \in 1..l} = {q[i].stats[a] : a \in 1..l}
    BY <1>3, Zenon
  <2> QED BY <1>3, <2>3, <2>4, <2>5, Zenon
<1>5. \A j \in 1..k : id \notin StatsOf(q[j])
  BY <1>1 DEF StatsInv, RecordsHold, RecordHolds
<1>7. RecordsHold(p, sn2)
  <2>1. RecordHolds(p[i], sn2)
    <3>1. Kind[q[i].series] # "counter" => l + 1 <= Values
      BY <1>3, SeriesAssumption DEF HasRoom, l
    <3>2. RecordHolds(q[i], sn)
      BY DEF StatsInv, RecordsHold
    <3> QED BY <1>2, <1>3, <1>4, <3>1, <3>2 DEF RecordHolds
  <2>2. \A j \in 1..k : j # i => RecordHolds(p[j], sn2)
    BY <1>1 DEF StatsInv, RecordsHold, RecordHolds
  <2> QED BY <1>1, <2>1, <2>2 DEF RecordsHold
<1>8. Kept(p, sn2)
  <2> SUFFICES ASSUME NEW n \in DOMAIN sn2, sn2[n].fate = "held"
               PROVE  \E j \in DOMAIN p : n \in StatsOf(p[j])
    BY DEF Kept
  <2>1. CASE n = id
    BY <1>1, <1>4, <2>1
  <2>2. CASE n # id
    <3>1. PICK j \in 1..k : n \in StatsOf(q[j])
      BY <1>1, <2>2 DEF StatsInv, Kept
    <3> QED BY <1>1, <1>4, <3>1
  <2> QED BY <2>1, <2>2
<1>9. Once(p)
  <2> SUFFICES ASSUME NEW j1 \in 1..k, NEW j2 \in 1..k,
                      NEW a \in DOMAIN p[j1].stats, NEW b \in DOMAIN p[j2].stats,
                      p[j1].stats[a] = p[j2].stats[b]
               PROVE  j1 = j2 /\ a = b
    BY <1>1 DEF Once
  <2> DEFINE New1 == j1 = i /\ a = l+1
             New2 == j2 = i /\ b = l+1
  <2>0. \A c \in 1..l+1 : c # l+1 => c \in 1..l
    BY <1>3
  <2>1. ~New1 => a \in DOMAIN q[j1].stats /\ p[j1].stats[a] = q[j1].stats[a]
    <3>1. CASE j1 = i
      BY <1>3, <2>0, <3>1
    <3>2. CASE j1 # i
      BY <1>1, <3>2
    <3> QED BY <3>1, <3>2
  <2>2. ~New2 => b \in DOMAIN q[j2].stats /\ p[j2].stats[b] = q[j2].stats[b]
    <3>1. CASE j2 = i
      BY <1>3, <2>0, <3>1
    <3>2. CASE j2 # i
      BY <1>1, <3>2
    <3> QED BY <3>1, <3>2
  <2>3. CASE ~New1 /\ ~New2
    BY <1>1, <2>1, <2>2, <2>3 DEF StatsInv, Once
  <2>4. CASE New1 /\ ~New2
    BY <1>3, <1>5, <2>2, <2>4 DEF StatsOf
  <2>5. CASE ~New1 /\ New2
    BY <1>3, <1>5, <2>1, <2>5 DEF StatsOf
  <2> QED BY <2>3, <2>4, <2>5
<1>10. Ordered(p)
  <2> SUFFICES ASSUME NEW j1 \in 1..k, NEW j2 \in 1..k, j1 < j2,
                      q[j1].series = q[j2].series, Alone(q[j1].series)
               PROVE  p[j1].key = 0 /\ \A m \in StatsOf(p[j1]), n \in StatsOf(p[j2]) : m < n
    BY <1>1, <1>6 DEF Ordered
  <2>1. q[j1].key = 0 /\ \A m \in StatsOf(q[j1]), n \in StatsOf(q[j2]) : m < n
    BY <1>1 DEF StatsInv, Ordered
  <2>2. j1 # i /\ p[j1] = q[j1]
    BY <1>1, <2>1
  <2>3. \A m \in StatsOf(q[j1]) : m < id
    <3>1. \A m \in StatsOf(q[j1]) : m \in 1..id /\ m # id
      BY <1>1, <1>5 DEF StatsInv, RecordsHold, RecordHolds
    <3> QED BY <3>1
  <2>4. \A n \in StatsOf(p[j2]) : n \in StatsOf(q[j2]) \/ n = id
    BY <1>1, <1>4
  <2> QED BY <2>1, <2>2, <2>3, <2>4
<1>11. NoneOvertaken(sn2)
  BY DEF StatsInv, NoneOvertaken
<1> QED BY <1>7, <1>8, <1>9, <1>10, <1>11 DEF StatsInv, p

(* The oldest record leaves with its stats.                                *)
LEMMA RecordLeaves ==
  ASSUME NEW q \in Seq(Record), NEW sn, NEW sn2, StatsInv(q, sn), q # <<>>,
         NEW f \in {"handed", "dropped"}, DOMAIN sn2 = DOMAIN sn, DOMAIN sn \subseteq Nat,
         \A n \in DOMAIN sn : /\ sn2[n].series = sn[n].series
                              /\ sn2[n].fate = IF n \in StatsOf(q[1]) THEN f ELSE sn[n].fate
  PROVE  StatsInv(Tail(q), sn2)
<1> DEFINE p == Tail(q)
           k == Len(q)
<1>1. /\ k \in Nat \ {0} /\ DOMAIN q = 1..k /\ DOMAIN p = 1..k-1
      /\ \A i \in 1..k-1 : p[i] = q[i+1] /\ i+1 \in 1..k /\ i+1 # 1
      /\ 1 \in 1..k
  OBVIOUS
<1> HIDE DEF p, k
<1>2. \A i \in 1..k : i # 1 => StatsOf(q[1]) \cap StatsOf(q[i]) = {}
  <2> SUFFICES ASSUME NEW i \in 1..k, i # 1, NEW n \in StatsOf(q[1]), n \in StatsOf(q[i])
               PROVE  FALSE
    OBVIOUS
  <2>1. PICK a \in DOMAIN q[1].stats : n = q[1].stats[a]
    BY DEF StatsOf
  <2>2. PICK b \in DOMAIN q[i].stats : n = q[i].stats[b]
    BY DEF StatsOf
  <2>3. 1 \in DOMAIN q /\ i \in DOMAIN q /\ q[1].stats[a] = q[i].stats[b]
    BY <1>1, <2>1, <2>2
  <2>4. 1 = i
    BY <2>3 DEF StatsInv, Once
  <2> QED BY <2>4
<1>3. RecordsHold(p, sn2)
  <2> SUFFICES ASSUME NEW i \in 1..k-1 PROVE RecordHolds(q[i+1], sn2)
    BY <1>1 DEF RecordsHold
  <2>1. RecordHolds(q[i+1], sn)
    BY <1>1 DEF StatsInv, RecordsHold
  <2>2. \A n \in StatsOf(q[i+1]) : n \in DOMAIN sn /\ n \notin StatsOf(q[1])
    BY <1>1, <1>2, <2>1 DEF RecordHolds
  <2> QED BY <2>1, <2>2 DEF RecordHolds
<1>4. Kept(p, sn2)
  <2> SUFFICES ASSUME NEW n \in DOMAIN sn, sn2[n].fate = "held"
               PROVE  \E i \in DOMAIN p : n \in StatsOf(p[i])
    BY DEF Kept
  <2>1. n \notin StatsOf(q[1]) /\ sn[n].fate = "held"
    OBVIOUS
  <2>2. PICK i \in 1..k : n \in StatsOf(q[i])
    BY <1>1, <2>1 DEF StatsInv, Kept
  <2>3. i # 1 /\ i-1 \in 1..k-1 /\ i-1+1 = i
    BY <1>1, <2>1, <2>2
  <2> QED BY <1>1, <2>2, <2>3
<1>5. Once(p)
  <2> SUFFICES ASSUME NEW i \in DOMAIN p, NEW j \in DOMAIN p,
                      NEW a \in DOMAIN p[i].stats, NEW b \in DOMAIN p[j].stats,
                      p[i].stats[a] = p[j].stats[b]
               PROVE  i = j /\ a = b
    BY DEF Once
  <2>1. i+1 \in DOMAIN q /\ j+1 \in DOMAIN q /\ p[i] = q[i+1] /\ p[j] = q[j+1]
    BY <1>1
  <2>2. i+1 = j+1 /\ a = b
    BY <2>1 DEF StatsInv, Once
  <2> QED BY <1>1, <2>2
<1>6. Ordered(p)
  <2> SUFFICES ASSUME NEW i \in DOMAIN p, NEW j \in DOMAIN p, i < j,
                      p[i].series = p[j].series, Alone(p[i].series)
               PROVE  p[i].key = 0 /\ \A m \in StatsOf(p[i]), n \in StatsOf(p[j]) : m < n
    BY DEF Ordered
  <2>1. /\ i+1 \in DOMAIN q /\ j+1 \in DOMAIN q /\ i+1 < j+1
        /\ p[i] = q[i+1] /\ p[j] = q[j+1]
    BY <1>1
  <2> QED BY <2>1 DEF StatsInv, Ordered
<1>7. NoneOvertaken(sn2)
  <2> SUFFICES ASSUME NEW m \in DOMAIN sn, NEW n \in DOMAIN sn, m < n,
                      sn[m].series = sn[n].series, Alone(sn[m].series), sn2[m].fate = "held"
               PROVE  sn2[n].fate \notin {"handed", "dropped"}
    BY DEF NoneOvertaken
  <2>1. m \notin StatsOf(q[1]) /\ sn[m].fate = "held"
    OBVIOUS
  <2>2. CASE n \notin StatsOf(q[1])
    BY <2>1, <2>2 DEF StatsInv, NoneOvertaken
  <2>3. CASE n \in StatsOf(q[1])
    <3>1. PICK i \in 1..k : m \in StatsOf(q[i])
      BY <1>1, <2>1 DEF StatsInv, Kept
    <3>2. i \in Nat /\ 1 < i
      BY <1>1, <2>1, <3>1
    <3>3. Alike(sn[m].series, q[i].series) /\ Alike(sn[n].series, q[1].series)
      BY <1>1, <2>3, <3>1 DEF StatsInv, RecordsHold, RecordHolds
    <3>4. q[1].series = sn[m].series /\ q[i].series = sn[m].series
      <4>1. q[1].series \in Series /\ q[i].series \in Series
        BY <1>1, RecordFields
      <4> QED BY <3>3, <4>1 DEF Alike, Alone
    <3>5. n < m
      BY <1>1, <2>3, <3>1, <3>2, <3>4 DEF StatsInv, Ordered
    <3> QED BY <3>5
  <2> QED BY <2>2, <2>3
<1> QED BY <1>3, <1>4, <1>5, <1>6, <1>7 DEF StatsInv, p

----------------------------------------------------------------------------
(* The history: a stat that is offered is the last one.                    *)
LEMMA SeeValues ==
  ASSUME TypeOK, NEW s \in Series, NEW f \in Fates, See(s, f)
  PROVE  /\ New \in Nat \ {0} /\ New \notin DOMAIN seen
         /\ DOMAIN seen' = DOMAIN seen \cup {New} /\ DOMAIN seen' \subseteq 1..New
         /\ Len(seen') = New /\ seen'[New].series = s /\ seen'[New].fate = f
         /\ \A n \in DOMAIN seen : seen'[n] = seen[n]
<1> DEFINE S == [series : Series, fate : Fates]
           x == [series |-> s, fate |-> f]
<1>1. seen \in Seq(S) /\ x \in S /\ seen' = Append(seen, x) /\ New = Len(seen) + 1
  BY DEF TypeOK, See, New
<1>2. x.series = s /\ x.fate = f
  OBVIOUS
<1> HIDE DEF S, x
<1> QED BY <1>1, <1>2, AppendIndices

LEMMA FateValues ==
  ASSUME TypeOK, NEW I, NEW f
  PROVE  /\ DOMAIN Fate(I, f) = DOMAIN seen
         /\ Len(seen) \in Nat /\ DOMAIN seen = 1..Len(seen)
         /\ \A n \in DOMAIN seen :
              /\ Fate(I, f)[n].series = seen[n].series
              /\ Fate(I, f)[n].fate = IF n \in I THEN f ELSE seen[n].fate
<1> DEFINE S == [series : Series, fate : Fates]
<1>1. seen \in Seq(S)
  BY DEF TypeOK
<1>2. Len(seen) \in Nat /\ DOMAIN seen = 1..Len(seen) /\ \A n \in DOMAIN seen : seen[n] \in S
  <2> HIDE DEF S
  <2> QED BY <1>1
<1> QED BY <1>2 DEF Fate

(* A record that the lookup returns takes stats that look like its series. *)
LEMMA LookupFinds ==
  ASSUME SInv, NEW s \in Series, NEW i \in Lookup(s), i # 0
  PROVE  i \in DOMAIN queue /\ queue[i].key # 0 /\ Alike(s, queue[i].series)
<1>1. /\ i \in DOMAIN queue /\ queue[i].key = Hash[s] /\ queue[i].size = RecSize(s)
      /\ Kind[queue[i].series] = Kind[s]
  BY DEF Lookup, OfKind, Tie
<1>2. Hash[s] # 0
  BY SeriesAssumption
<1>3. RecordHolds(queue[i], seen)
  BY <1>1 DEF SInv, StatsInv, RecordsHold
<1> QED BY <1>1, <1>2, <1>3 DEF RecordHolds, Alike

(* When the lookup has returned what it found for a series that has its    *)
(* hash and size for itself, no other record of the series is open.        *)
LEMMA LookupMisses ==
  ASSUME SInv, NEW s \in Series, NEW i \in Lookup(s), Alone(s),
         NEW j \in DOMAIN queue, queue[j].series = s, queue[j].key # 0
  PROVE  i = j
<1>0. DOMAIN queue = 1..Len(queue) /\ Len(queue) \in Nat /\ \A k \in DOMAIN queue : queue[k] \in Record
  BY QueueBlocks DEF SInv, Inv, TypeOK
<1>1. \A k \in DOMAIN queue : RecordHolds(queue[k], seen)
  BY DEF SInv, StatsInv, RecordsHold
<1>2. j \in Tie(s)
  <2>1. queue[j].off \in index
    BY DEF SInv, Inv, IndexExact, OpenOffs
  <2> QED BY <1>1, <2>1 DEF RecordHolds, Tie
<1>3. \A k \in Tie(s) : queue[k].series = s /\ queue[k].key # 0
  <2>1. SUFFICES ASSUME NEW k \in Tie(s) PROVE queue[k].series = s /\ queue[k].key # 0
    OBVIOUS
  <2>2. k \in DOMAIN queue /\ queue[k].key = Hash[s] /\ queue[k].size = RecSize(s)
    BY DEF Tie
  <2>3. queue[k].series \in Series
    BY <1>0, <2>2, RecordFields
  <2>4. Hash[s] # 0
    BY SeriesAssumption
  <2> QED BY <1>1, <2>2, <2>3, <2>4 DEF RecordHolds, Alone
<1>4. OfKind(s, Tie(s)) = Tie(s)
  BY <1>3 DEF OfKind, Tie
<1>5. i \in Tie(s)
  BY <1>2, <1>4 DEF Lookup
<1>6. i \in DOMAIN queue
  BY <1>5 DEF Tie
<1>7. Ordered(queue)
  BY DEF SInv, StatsInv
<1> QED BY <1>0, <1>3, <1>5, <1>6, <1>7 DEF Ordered

(* The queue after Detach(i), i a position that the lookup returned        *)
LEMMA DetachHolds ==
  ASSUME SInv, NEW s \in Series, NEW i \in Lookup(s)
  PROVE  /\ Detach(i) \in Seq(Record)
         /\ StatsInv(Detach(i), seen)
         /\ NoneOpen(Detach(i), s)
<1> DEFINE q == Detach(i)
<1>1. i \in 0..Len(queue)
  BY LookupInQueue DEF SInv, Inv
<1>2. q \in Seq(Record)
  BY <1>1, DetachKeeps DEF SInv, Inv
<1>3. \A k \in DOMAIN queue : queue[k] \in Record
  BY QueueBlocks DEF SInv, Inv, TypeOK
<1>4. /\ DOMAIN q = DOMAIN queue
      /\ \A k \in DOMAIN queue : /\ q[k].size = queue[k].size /\ q[k].series = queue[k].series
                                 /\ q[k].stats = queue[k].stats
                                 /\ q[k].key = IF k = i THEN 0 ELSE queue[k].key
  BY <1>3 DEF Detach, Record
<1> HIDE DEF q
<1>5. StatsInv(q, seen)
  BY <1>4, RecordDetached DEF SInv
<1>6. NoneOpen(q, s)
  BY <1>4, LookupMisses DEF NoneOpen
<1> QED BY <1>2, <1>5, <1>6 DEF q

----------------------------------------------------------------------------
LEMMA InitStats == Init => SInv
<1> SUFFICES ASSUME Init PROVE SInv
  OBVIOUS
<1>1. DOMAIN queue = {} /\ DOMAIN seen = {}
  BY DEF Init
<1>2. StatsInv(queue, seen)
  BY <1>1 DEF StatsInv, RecordsHold, Kept, Once, Ordered, NoneOvertaken
<1>3. CallHolds
  BY DEF Init, CallHolds, NoCall
<1> QED BY <1>2, <1>3, InitInv DEF SInv

LEMMA DeclineStats == ASSUME SInv, NEW s \in Series, Decline(s) PROVE StatsInv(queue, seen)' /\ CallHolds'
<1>1. TypeOK /\ See(s, "declined") /\ queue' = queue /\ call' = NoCall
  BY DEF SInv, Inv, Decline, Offered, Idle
<1>2. StatsInv(queue, seen')
  BY <1>1, SeeValues, OtherStats DEF SInv, Taken, Fates
<1> QED BY <1>1, <1>2 DEF CallHolds, NoCall

LEMMA RefuseStats == ASSUME SInv, NEW s \in Series, Refuse(s) PROVE StatsInv(queue, seen)' /\ CallHolds'
BY DeclineStats DEF Refuse, Decline

LEMMA MergeStats == ASSUME SInv, NEW s \in Series, Merge(s) PROVE StatsInv(queue, seen)' /\ CallHolds'
<1>1. PICK i \in Lookup(s) : MergeAt(s, i)
  BY DEF Merge
<1>2. /\ TypeOK /\ See(s, "held") /\ i # 0 /\ HasRoom(queue[i]) /\ call' = NoCall
      /\ queue' = [queue EXCEPT ![i].stats = Append(@, New)]
  BY <1>1 DEF SInv, Inv, MergeAt, Offered, Idle
<1>3. i \in DOMAIN queue /\ queue[i].key # 0 /\ Alike(s, queue[i].series)
  BY <1>2, LookupFinds
<1>4. /\ New \in Nat \ {0} /\ New \notin DOMAIN seen
      /\ DOMAIN seen' = DOMAIN seen \cup {New} /\ DOMAIN seen' \subseteq 1..New
      /\ seen'[New].series = s /\ seen'[New].fate = "held"
      /\ \A n \in DOMAIN seen : seen'[n] = seen[n]
  BY <1>2, SeeValues DEF Fates
<1>5. queue \in Seq(Record)
  BY <1>2 DEF TypeOK
<1>6. StatsInv([queue EXCEPT ![i].stats = Append(@, New)], seen')
  BY <1>2, <1>3, <1>4, <1>5, StatMerged DEF SInv
<1> QED BY <1>2, <1>6 DEF CallHolds, NoCall

LEMMA StoreStats == ASSUME SInv, NEW s \in Series, Store(s) PROVE StatsInv(queue, seen)' /\ CallHolds'
<1>1. PICK i \in Lookup(s) : StoreAt(s, i)
  BY DEF Store
<1> DEFINE r == [off |-> AllocPtr(pos, last, RecSize(s)), size |-> RecSize(s), time |-> now,
                 key |-> Hash[s], series |-> s, stats |-> <<New>>]
<1>2. /\ TypeOK /\ See(s, "held") /\ call' = NoCall
      /\ Kind[s] = "counter" \/ Values # 0
      /\ queue' = Append(Detach(i), r)
  BY <1>1 DEF SInv, Inv, StoreAt, Offered, Idle, Accepts, Place
<1>3. r.series = s /\ r.size = RecSize(s) /\ r.key = Hash[s] /\ r.stats = <<New>>
  OBVIOUS
<1> HIDE DEF r
<1>4. /\ New \in Nat \ {0} /\ New \notin DOMAIN seen
      /\ DOMAIN seen' = DOMAIN seen \cup {New} /\ DOMAIN seen' \subseteq 1..New
      /\ seen'[New].series = s /\ seen'[New].fate = "held"
      /\ \A n \in DOMAIN seen : seen'[n] = seen[n]
  BY <1>2, SeeValues DEF Fates
<1>5. Detach(i) \in Seq(Record) /\ StatsInv(Detach(i), seen) /\ NoneOpen(Detach(i), s)
  BY DetachHolds
<1>6. StatsInv(Append(Detach(i), r), seen')
  BY <1>2, <1>3, <1>4, <1>5, StatPlaced
<1> QED BY <1>2, <1>6 DEF CallHolds, NoCall

LEMMA NeedSpaceStats ==
  ASSUME SInv, NEW s \in Series, NeedSpace(s) PROVE StatsInv(queue, seen)' /\ CallHolds'
<1>1. PICK i \in Lookup(s) : NeedSpaceAt(s, i)
  BY DEF NeedSpace
<1>2. /\ TypeOK /\ See(s, "pending") /\ queue' = Detach(i)
      /\ call' = [NoCall EXCEPT !.pc = "process", !.task = "stat"]
  BY <1>1 DEF SInv, Inv, NeedSpaceAt
<1>3. StatsInv(Detach(i), seen) /\ NoneOpen(Detach(i), s)
  BY DetachHolds
<1>4. StatsInv(Detach(i), seen')
  BY <1>2, <1>3, SeeValues, OtherStats DEF Taken, Fates
<1>5. seen'[Len(seen')].fate = "pending" /\ seen'[Len(seen')].series = s
  BY <1>2, SeeValues DEF Fates
<1>6. call'.flush = FALSE
  BY <1>2 DEF NoCall
<1> QED BY <1>2, <1>3, <1>4, <1>5, <1>6 DEF CallHolds

LEMMA EnterStats == ASSUME SInv, Enter PROVE StatsInv(queue, seen)' /\ CallHolds'
<1>1. /\ queue' = queue /\ seen' = seen /\ stop' = stop
      /\ call' = [call EXCEPT !.pc = "loop", !.flush = Stopping]
      /\ call \in Calls
  BY DEF Enter, SInv, Inv, TypeOK
<1>2. call'.task = call.task /\ call'.flush = Stopping
  BY <1>1 DEF Calls
<1> QED BY <1>1, <1>2 DEF SInv, CallHolds, Stopping

LEMMA HandOverStats ==
  ASSUME SInv, NEW rc \in {"ok", "declined"}, HandOver(rc)
  PROVE  StatsInv(queue, seen)' /\ CallHolds'
<1>1. PICK f \in {"handed", "dropped"} : seen' = Fate(StatsOf(queue[1]), f)
  BY DEF HandOver
<1>2. /\ queue' = Tail(queue) /\ queue # <<>> /\ queue \in Seq(Record) /\ stop' = stop
      /\ call' = [call EXCEPT !.handed = @ \/ rc = "ok"] /\ call \in Calls /\ TypeOK
  BY DEF HandOver, Due, SInv, Inv, TypeOK
<1>3. /\ DOMAIN seen' = DOMAIN seen /\ Len(seen) \in Nat /\ DOMAIN seen = 1..Len(seen)
      /\ \A n \in DOMAIN seen :
           /\ seen'[n].series = seen[n].series
           /\ seen'[n].fate = IF n \in StatsOf(queue[1]) THEN f ELSE seen[n].fate
  BY <1>1, <1>2, FateValues
<1>4. StatsInv(queue, seen)'
  <2>0. StatsInv(queue, seen) /\ DOMAIN seen \subseteq Nat
    BY <1>3 DEF SInv
  <2> DEFINE q == queue
             sn == seen
             sn2 == seen'
  <2>1. q \in Seq(Record) /\ StatsInv(q, sn) /\ q # <<>>
    BY <1>2, <2>0
  <2>2. /\ DOMAIN sn2 = DOMAIN sn /\ DOMAIN sn \subseteq Nat
        /\ \A n \in DOMAIN sn : /\ sn2[n].series = sn[n].series
                                /\ sn2[n].fate = IF n \in StatsOf(q[1]) THEN f ELSE sn[n].fate
    BY <1>3, <2>0
  <2> HIDE DEF q, sn, sn2
  <2>3. StatsInv(Tail(q), sn2)
    BY <2>1, <2>2, RecordLeaves
  <2> QED BY <1>2, <2>3 DEF q, sn2
<1>5. CallHolds'
  <2>1. call'.task = call.task /\ call'.flush = call.flush
    BY <1>2 DEF Calls
  <2>2. ASSUME call.task = "stat"
        PROVE  seen'[Len(seen')].fate = "pending" /\ NoneOpen(queue', seen'[Len(seen')].series)
    <3>1. Len(seen') = Len(seen) /\ Len(seen) \in DOMAIN seen
      BY <1>1, <1>2, <1>3, <2>2, FateKeeps, PendingStat DEF SInv, Fates
    <3>2. /\ seen[Len(seen)].fate = "pending" /\ NoneOpen(queue, seen[Len(seen)].series)
      BY <2>2 DEF SInv, CallHolds
    <3>3. Len(seen) \notin StatsOf(queue[1])
      BY <1>2, <3>2 DEF SInv, StatsInv, RecordsHold, RecordHolds
    <3>4. \A i \in DOMAIN queue' : i+1 \in DOMAIN queue /\ queue'[i] = queue[i+1]
      BY <1>2
    <3> QED BY <1>3, <3>1, <3>2, <3>3, <3>4 DEF NoneOpen
  <2> QED BY <1>2, <2>1, <2>2 DEF SInv, CallHolds, Stopping
<1> QED BY <1>4, <1>5

LEMMA EndStoredStats == ASSUME SInv, NEW rc, EndStored(rc) PROVE StatsInv(queue, seen)' /\ CallHolds'
<1> DEFINE id == Len(seen)
           s == seen[id].series
           r == [off |-> AllocPtr(pos, last, RecSize(s)), size |-> RecSize(s), time |-> now,
                 key |-> Hash[s], series |-> s, stats |-> <<id>>]
<1>1. /\ TypeOK /\ queue \in Seq(Record) /\ call.task = "stat" /\ call' = NoCall
      /\ queue' = Append(queue, r) /\ seen' = Fate({id}, "held")
  BY DEF SInv, Inv, TypeOK, EndStored, Place
<1>2. r.series = s /\ r.size = RecSize(s) /\ r.key = Hash[s] /\ r.stats = <<id>>
  OBVIOUS
<1>3. id \in Nat \ {0} /\ s \in Series /\ (Kind[s] = "counter" \/ Values # 0)
  BY <1>1, PendingStat DEF SInv
<1>4. seen[id].fate \notin Taken /\ NoneOpen(queue, s)
  BY <1>1 DEF SInv, CallHolds, Taken
<1> HIDE DEF r
<1>5. /\ DOMAIN seen' = DOMAIN seen /\ id \in DOMAIN seen /\ DOMAIN seen = 1..id
      /\ seen'[id].series = s /\ seen'[id].fate = "held"
      /\ \A n \in DOMAIN seen : n # id => seen'[n] = seen[n]
  <2>1. /\ DOMAIN seen' = DOMAIN seen /\ DOMAIN seen = 1..id /\ id \in DOMAIN seen
        /\ seen'[id].series = s /\ seen'[id].fate = "held"
    BY <1>1, <1>3, FateValues
  <2>2. \A n \in DOMAIN seen : n # id => seen'[n] = seen[n]
    BY <1>1 DEF Fate
  <2> QED BY <2>1, <2>2
<1>6. StatsInv(Append(queue, r), seen')
  <2>1. /\ StatsInv(queue, seen) /\ DOMAIN seen \subseteq DOMAIN seen' /\ DOMAIN seen' \subseteq 1..id
        /\ \A n \in DOMAIN seen' : n # id => n \in DOMAIN seen /\ seen'[n] = seen[n]
    BY <1>5 DEF SInv
  <2>2. /\ queue \in Seq(Record) /\ s \in Series /\ (Kind[s] = "counter" \/ Values # 0)
        /\ NoneOpen(queue, s) /\ id \in Nat \ {0} /\ id \in DOMAIN seen'
        /\ seen'[id].series = s /\ seen'[id].fate = "held"
        /\ id \in DOMAIN seen => seen[id].fate \notin Taken
    BY <1>1, <1>3, <1>4, <1>5
  <2> HIDE DEF s, id
  <2> QED BY <1>2, <2>1, <2>2, StatPlaced
<1> QED BY <1>1, <1>6 DEF CallHolds, NoCall

LEMMA EndEmptyStats ==
  ASSUME SInv, NEW rc, EndDeclined(rc) \/ EndFailed(rc)
  PROVE  StatsInv(queue, seen)' /\ CallHolds'
<1>1. PICK f \in {"declined", "lost"} : seen' = Fate({Len(seen)}, f)
  BY DEF EndDeclined, EndFailed
<1>2. /\ TypeOK /\ call.task = "stat" /\ call' = NoCall /\ queue' = queue
  BY DEF SInv, Inv, EndDeclined, EndFailed
<1>3. seen[Len(seen)].fate = "pending"
  BY <1>2 DEF SInv, CallHolds
<1>4. StatsInv(queue, seen')
  BY <1>1, <1>2, <1>3, FateValues, OtherStats DEF SInv, Taken
<1> QED BY <1>2, <1>4 DEF CallHolds, NoCall

(* The steps that touch neither the records nor the stats; the call may    *)
(* begin or end for the timer, and the worker may begin to stop.           *)
LEMMA QuietStats ==
  ASSUME SInv, queue' = queue, seen' = seen, Stopping => Stopping',
         call' = call \/ (call'.task # "stat" /\ ~call'.flush)
  PROVE  StatsInv(queue, seen)' /\ CallHolds'
BY DEF SInv, CallHolds

LEMMA NextStats == ASSUME SInv, [Next]_vars PROVE SInv'
<1>1. CASE Request
  BY <1>1, RefuseStats, MergeStats, StoreStats, NeedSpaceStats, NextInv DEF Request, SInv, Next
<1>2. CASE Process
  <2>1. ASSUME NEW rc \in ReturnCodes, EndTimer(rc) PROVE StatsInv(queue, seen)' /\ CallHolds'
    BY <2>1, QuietStats DEF EndTimer, NoCall, Stopping
  <2> QED BY <1>2, <2>1, EnterStats, HandOverStats, EndStoredStats, EndEmptyStats, NextInv
          DEF Process, SInv, Next
<1>3. CASE Loop \/ Signal \/ UNCHANGED vars
  <2>1. queue' = queue /\ seen' = seen
    BY <1>3 DEF Loop, TimerRuns, Tick, Signal, Quit, Terminate, Exit, vars
  <2>2. Stopping => Stopping'
    BY <1>3 DEF Loop, TimerRuns, Tick, Signal, Quit, Terminate, Exit, vars, Stopping
  <2>3. call' = call \/ (call'.task # "stat" /\ ~call'.flush)
    BY <1>3 DEF Loop, TimerRuns, Tick, Signal, Quit, Terminate, Exit, vars, NoCall
  <2> QED BY <2>1, <2>2, <2>3, QuietStats, NextInv DEF SInv
<1> QED BY <1>1, <1>2, <1>3 DEF Next

LEMMA DeclineSInv == ASSUME SInv, NEW s \in Series, Decline(s) PROVE SInv'
BY DeclineInv, DeclineStats DEF SInv

(* The inductive invariant of the aggregator and its stats.                *)
THEOREM StatsInvariance == Spec => []SInv
<1>1. Init => SInv
  BY InitStats
<1>2. SInv /\ [Next]_vars => SInv'
  BY NextStats
<1> QED BY <1>1, <1>2, PTL DEF Spec

(* No record of values or unique values is filled over the room that       *)
(* ngx_statshouse_aggregate() allocated for it.                            *)
THEOREM ValuesAreBounded == Spec => []ValuesBounded
<1>1. SInv => ValuesBounded
  BY DEF SInv, StatsInv, RecordsHold, RecordHolds, ValuesBounded
<1> QED BY <1>1, StatsInvariance, PTL

(* No two series have the same hash, the same record size and the same     *)
(* type.                                                                   *)
SeriesDiffer == \A s, t \in Series : Alike(s, t) => s = t

(* Stats are merged with stats of their own series only, as long as hash,  *)
(* size and type tell the series apart, which is all that                  *)
(* ngx_statshouse_aggregate_lookup() compares.                             *)
THEOREM SeriesArePure == ASSUME SeriesDiffer PROVE Spec => []SeriesPure
<1>1. SInv => SeriesPure
  <2> SUFFICES ASSUME SInv, NEW i \in DOMAIN queue, NEW n \in StatsOf(queue[i])
               PROVE  seen[n].series = queue[i].series
    BY DEF SeriesPure
  <2>1. n \in DOMAIN seen /\ Alike(seen[n].series, queue[i].series)
    BY DEF SInv, StatsInv, RecordsHold, RecordHolds
  <2>2. queue[i].series \in Series
    BY QueueBlocks, RecordFields DEF SInv, Inv, TypeOK
  <2>3. seen[n].series \in Series
    <3> DEFINE S == [series : Series, fate : Fates]
    <3>1. seen \in Seq(S)
      BY DEF SInv, Inv, TypeOK
    <3>2. seen[n] \in S
      <4> HIDE DEF S
      <4> QED BY <2>1, <3>1
    <3> QED BY <3>2
  <2> QED BY <2>1, <2>2, <2>3 DEF SeriesDiffer
<1> QED BY <1>1, StatsInvariance, PTL

(* A sequence without repetitions has as many elements as places.          *)
LEMMA DistinctCardinality ==
  ASSUME NEW T, NEW t \in Seq(T), \A a, b \in DOMAIN t : t[a] = t[b] => a = b
  PROVE  Cardinality({t[a] : a \in DOMAIN t}) = Len(t)
<1> DEFINE S == {t[a] : a \in DOMAIN t}
           n == Len(t)
<1>1. n \in Nat /\ DOMAIN t = 1..n /\ t \in [1..n -> S]
  OBVIOUS
<1>2. t \in Bijection(1..n, S)
  <2>1. \A e \in S : \E a \in 1..n : t[a] = e
    BY <1>1
  <2> HIDE DEF S, n
  <2> QED BY <1>1, <2>1 DEF Bijection, Injection, IsInjective, Surjection
<1>3. ExistsBijection(1..n, S)
  BY <1>2 DEF ExistsBijection
<1> HIDE DEF S, n
<1>4. Cardinality(S) = n
  BY <1>1, <1>3, FS_CountingElements
<1> QED BY <1>4 DEF S, n

(* A stat that the aggregator took is in exactly one record, at exactly    *)
(* one place in it, until that record is handed over; no other stat is in  *)
(* any.                                                                    *)
THEOREM StatsAreConserved == Spec => []Conserved
<1>1. SInv => Conserved
  <2> SUFFICES ASSUME SInv PROVE Conserved
    OBVIOUS
  <2>1. Held = UNION {StatsOf(queue[i]) : i \in DOMAIN queue}
    BY DEF SInv, StatsInv, RecordsHold, RecordHolds, Kept, Held
  <2>2. \A i, j \in DOMAIN queue : i # j => StatsOf(queue[i]) \cap StatsOf(queue[j]) = {}
    <3> SUFFICES ASSUME NEW i \in DOMAIN queue, NEW j \in DOMAIN queue,
                        NEW n \in StatsOf(queue[i]), n \in StatsOf(queue[j])
                 PROVE  i = j
      OBVIOUS
    <3>1. PICK a \in DOMAIN queue[i].stats : n = queue[i].stats[a]
      BY DEF StatsOf
    <3>2. PICK b \in DOMAIN queue[j].stats : n = queue[j].stats[b]
      BY DEF StatsOf
    <3> QED BY <3>1, <3>2 DEF SInv, StatsInv, Once
  <2>3. ASSUME NEW i \in DOMAIN queue
        PROVE  Cardinality(StatsOf(queue[i])) = Len(queue[i].stats)
    <3>1. queue[i].stats \in Seq(Nat \ {0})
      BY QueueBlocks, RecordFields DEF SInv, Inv, TypeOK
    <3>2. \A a, b \in DOMAIN queue[i].stats : queue[i].stats[a] = queue[i].stats[b] => a = b
      BY DEF SInv, StatsInv, Once
    <3> QED BY <3>1, <3>2, DistinctCardinality DEF StatsOf
  <2> QED BY <2>1, <2>2, <2>3 DEF Conserved
<1> QED BY <1>1, StatsInvariance, PTL

(* No stat is overtaken by a later one of its series, whatever records     *)
(* were filled up or detached for want of space, if the series has its     *)
(* hash and record size for itself.                                        *)
THEOREM StatsStayInOrder == Spec => []SeriesOrder
<1>1. SInv => SeriesOrder
  <2> SUFFICES ASSUME SInv, NEW m \in DOMAIN seen, NEW n \in DOMAIN seen, m < n,
                      seen[m].series = seen[n].series, Alone(seen[m].series)
               PROVE  /\ ~(seen[m].fate = "held" /\ seen[n].fate \in {"handed", "dropped"})
                      /\ \A i, j \in DOMAIN queue :
                           m \in StatsOf(queue[i]) /\ n \in StatsOf(queue[j]) => i <= j
    BY DEF SeriesOrder
  <2>1. ~(seen[m].fate = "held" /\ seen[n].fate \in {"handed", "dropped"})
    BY DEF SInv, StatsInv, NoneOvertaken
  <2>2. ASSUME NEW i \in DOMAIN queue, NEW j \in DOMAIN queue,
               m \in StatsOf(queue[i]), n \in StatsOf(queue[j]), ~(i <= j)
        PROVE  FALSE
    <3>1. i \in Nat /\ j \in Nat /\ j < i
      BY <2>2, QueueBlocks DEF SInv, Inv, TypeOK
    <3>2. queue[i].series \in Series /\ queue[j].series \in Series
      BY QueueBlocks, RecordFields DEF SInv, Inv, TypeOK
    <3>3. Alike(seen[m].series, queue[i].series) /\ Alike(seen[n].series, queue[j].series)
      BY <2>2 DEF SInv, StatsInv, RecordsHold, RecordHolds
    <3>4. queue[i].series = seen[m].series /\ queue[j].series = seen[m].series
      BY <3>2, <3>3 DEF Alike, Alone
    <3>5. n < m
      BY <2>2, <3>1, <3>4 DEF SInv, StatsInv, Ordered
    <3>6. m \in Nat /\ n \in Nat
      BY FateValues DEF SInv, Inv
    <3> QED BY <3>5, <3>6
  <2> QED BY <2>1, <2>2
<1> QED BY <1>1, StatsInvariance, PTL

(* A stat leaves with the oldest record only, and only when its time is up *)
(* or the worker stops.                                                    *)
THEOREM StatsLeaveOnTime == Spec => LeavesOnTime
<1>1. ASSUME SInv, [Next]_vars, NEW n \in DOMAIN seen, seen[n].fate = "held", seen'[n].fate # "held"
      PROVE  n \in StatsOf(queue[1]) /\ (Stopping \/ Elapsed(queue[1].time) >= Interval)
  <2>1. TypeOK
    BY <1>1 DEF SInv, Inv
  <2>2. CASE Request
    <3>1. PICK s \in Series, f \in Fates : See(s, f)
      BY <2>2 DEF Request, Refuse, Merge, MergeAt, Store, StoreAt, NeedSpace, NeedSpaceAt, Fates
    <3> QED BY <1>1, <2>1, <3>1, SeeValues
  <2>3. ASSUME NEW rc \in {"ok", "declined"}, HandOver(rc)
        PROVE  n \in StatsOf(queue[1]) /\ (Stopping \/ Elapsed(queue[1].time) >= Interval)
    <3>1. PICK f : seen' = Fate(StatsOf(queue[1]), f)
      BY <2>3 DEF HandOver
    <3>2. n \in StatsOf(queue[1])
      BY <1>1, <2>1, <3>1, FateValues
    <3> QED BY <1>1, <2>3, <3>2 DEF HandOver, Due, SInv, CallHolds
  <2>4. ASSUME NEW rc \in ReturnCodes, EndStored(rc) \/ EndDeclined(rc) \/ EndFailed(rc)
        PROVE  FALSE
    <3>1. call.task = "stat" /\ \E f : seen' = Fate({Len(seen)}, f)
      BY <2>4 DEF EndStored, EndDeclined, EndFailed
    <3>2. seen[Len(seen)].fate = "pending"
      BY <1>1, <3>1 DEF SInv, CallHolds
    <3> QED BY <1>1, <2>1, <3>1, <3>2, FateValues
  <2>5. CASE seen' = seen
    BY <1>1, <2>5
  <2> QED BY <1>1, <2>2, <2>3, <2>4, <2>5
          DEF Next, Process, Enter, EndTimer, Loop, TimerRuns, Tick, Signal, Quit, Terminate, Exit, vars
<1>2. SInv /\ [Next]_vars => [\A n \in DOMAIN seen :
        (seen[n].fate = "held" /\ seen'[n].fate # "held") =>
          /\ n \in StatsOf(queue[1])
          /\ Stopping \/ Elapsed(queue[1].time) >= Interval]_vars
  BY <1>1
<1> QED BY <1>2, StatsInvariance, PTL DEF Spec, LeavesOnTime

----------------------------------------------------------------------------
(* Part four: the time *)

(* The records of q are queued by age, the oldest no older than allowed.   *)
AgesFall(q) ==
  \A i, j \in DOMAIN q : i < j => Elapsed(q[j].time) <= Elapsed(q[i].time)

AgesBounded(q) == q # <<>> => Elapsed(q[1].time) <= Interval + MaxLag

(* The timer d has expired, and the oldest record's time is up for no      *)
(* longer than that; or it expires when that record's time is up or        *)
(* earlier, which seen as a time past is MsecWrap less what remains.       *)
TimerMatches(q, d) ==
  d # NoTimer =>
    \/ /\ Elapsed(d) <= MaxLag
       /\ q # <<>> => Elapsed(q[1].time) <= Interval + Elapsed(d)
    \/ /\ MsecWrap - Elapsed(d) \in 1..Interval
       /\ q # <<>> => Elapsed(q[1].time) + (MsecWrap - Elapsed(d)) <= Interval

AgesInv(q, d) == AgesFall(q) /\ AgesBounded(q) /\ TimerMatches(q, d)

CInv == Inv /\ AgesInv(queue, deadline)

----------------------------------------------------------------------------
LEMMA Times ==
  /\ MsecWrap \in Nat \ {0} /\ Interval \in Nat /\ MaxLag \in Nat
  /\ 2 * (Interval + MaxLag) < MsecWrap
BY TimeAssumption

LEMMA ElapsedType ==
  ASSUME TypeOK, NEW t \in 0..MsecWrap-1
  PROVE  Elapsed(t) \in 0..MsecWrap-1
BY Times, Clk!SinceType DEF Elapsed, TypeOK

(* A record made just now is the youngest; of an empty queue it is the     *)
(* oldest, too, and no timer that is set is late for it.                   *)
LEMMA YoungestComes ==
  ASSUME TypeOK, NEW q \in Seq(Record), NEW d \in {NoTimer} \cup 0..MsecWrap-1,
         AgesInv(q, d), NEW r \in Record, r.time = now
  PROVE  AgesInv(Append(q, r), d)
<1> DEFINE p == Append(q, r)
           k == Len(q)
<1>1. /\ k \in Nat /\ DOMAIN q = 1..k /\ DOMAIN p = 1..k+1
      /\ \A i \in 1..k : p[i] = q[i] /\ q[i] \in Record
      /\ p[k+1] = r /\ (q = <<>> => k = 0) /\ p # <<>>
  OBVIOUS
<1> HIDE DEF p, k
<1>2. Elapsed(r.time) = 0
  BY Times, Clk!SinceNow DEF Elapsed, TypeOK
<1>3. \A i \in 1..k : Elapsed(q[i].time) \in 0..MsecWrap-1
  BY <1>1, ElapsedType, RecordFields
<1>4. AgesFall(p)
  <2> SUFFICES ASSUME NEW i \in DOMAIN p, NEW j \in DOMAIN p, i < j
               PROVE  Elapsed(p[j].time) <= Elapsed(p[i].time)
    BY DEF AgesFall
  <2>1. i \in 1..k /\ (j \in 1..k \/ j = k+1)
    BY <1>1
  <2>2. CASE j \in 1..k
    BY <1>1, <2>1, <2>2 DEF AgesInv, AgesFall
  <2>3. CASE j = k+1
    BY <1>1, <1>2, <1>3, <2>1, <2>3
  <2> QED BY <2>1, <2>2, <2>3
<1>5. CASE q = <<>>
  <2>1. p[1] = r
    BY <1>1, <1>5
  <2>2. AgesBounded(p)
    BY <1>2, <2>1, Times DEF AgesBounded
  <2>3. TimerMatches(p, d)
    <3> SUFFICES ASSUME d # NoTimer PROVE TimerMatches(p, d)
      BY DEF TimerMatches
    <3>1. Elapsed(d) \in 0..MsecWrap-1
      BY ElapsedType
    <3> QED BY <1>2, <2>1, <3>1, Times DEF AgesInv, TimerMatches
  <2> QED BY <1>4, <2>2, <2>3 DEF AgesInv, p
<1>6. CASE q # <<>>
  <2>1. p[1] = q[1]
    BY <1>1, <1>6
  <2>2. AgesBounded(p) /\ TimerMatches(p, d)
    BY <1>1, <1>6, <2>1 DEF AgesInv, AgesBounded, TimerMatches
  <2> QED BY <1>4, <2>2 DEF AgesInv, p
<1> QED BY <1>5, <1>6

(* The next record is younger than the one that leaves.                    *)
LEMMA OldestLeaves ==
  ASSUME TypeOK, NEW q \in Seq(Record), q # <<>>, NEW d \in {NoTimer} \cup 0..MsecWrap-1,
         AgesInv(q, d)
  PROVE  AgesInv(Tail(q), d)
<1> DEFINE p == Tail(q)
           k == Len(q)
<1>1. /\ k \in Nat \ {0} /\ DOMAIN q = 1..k /\ DOMAIN p = 1..k-1
      /\ \A i \in 1..k : q[i] \in Record
      /\ \A i \in 1..k-1 : p[i] = q[i+1] /\ i+1 \in 1..k
      /\ p # <<>> => 1 \in 1..k-1
  OBVIOUS
<1> HIDE DEF p, k
<1>2. \A i \in 1..k : Elapsed(q[i].time) \in 0..MsecWrap-1
  BY <1>1, ElapsedType, RecordFields
<1>3. AgesFall(p)
  <2> SUFFICES ASSUME NEW i \in DOMAIN p, NEW j \in DOMAIN p, i < j
               PROVE  Elapsed(p[j].time) <= Elapsed(p[i].time)
    BY DEF AgesFall
  <2>1. i+1 \in DOMAIN q /\ j+1 \in DOMAIN q /\ i+1 < j+1 /\ p[i] = q[i+1] /\ p[j] = q[j+1]
    BY <1>1
  <2> QED BY <2>1 DEF AgesInv, AgesFall
<1>4. p # <<>> => /\ Elapsed(p[1].time) <= Elapsed(q[1].time)
                  /\ Elapsed(p[1].time) \in 0..MsecWrap-1 /\ Elapsed(q[1].time) \in 0..MsecWrap-1
  <2> SUFFICES ASSUME p # <<>>
               PROVE  /\ Elapsed(q[2].time) <= Elapsed(q[1].time) /\ p[1] = q[2]
                      /\ Elapsed(q[2].time) \in 0..MsecWrap-1 /\ Elapsed(q[1].time) \in 0..MsecWrap-1
    OBVIOUS
  <2>1. 1 \in DOMAIN q /\ 2 \in DOMAIN q /\ p[1] = q[2] /\ 1 \in 1..k /\ 2 \in 1..k
    BY <1>1
  <2>2. Elapsed(q[2].time) <= Elapsed(q[1].time)
    BY <2>1 DEF AgesInv, AgesFall
  <2> QED BY <1>2, <2>1, <2>2
<1>5. AgesBounded(p)
  BY <1>4, Times DEF AgesInv, AgesBounded
<1>6. TimerMatches(p, d)
  <2> SUFFICES ASSUME d # NoTimer PROVE TimerMatches(p, d)
    BY DEF TimerMatches
  <2>1. Elapsed(d) \in 0..MsecWrap-1
    BY ElapsedType
  <2> QED BY <1>4, <2>1, Times DEF AgesInv, TimerMatches
<1> QED BY <1>3, <1>5, <1>6 DEF AgesInv, p

(* ngx_statshouse_aggregate_timer() sets the timer to when the oldest      *)
(* record's time is up.                                                    *)
LEMMA ArmTimerMatches ==
  ASSUME TypeOK, NEW q \in Seq(Record), AgesInv(q, deadline), ArmTimer(q)
  PROVE  AgesInv(q, deadline')
<1>1. CASE deadline # NoTimer \/ posted \/ q = <<>>
  BY <1>1 DEF ArmTimer
<1>2. CASE ~(deadline # NoTimer \/ posted \/ q = <<>>) /\ Elapsed(q[1].time) >= Interval
  BY <1>2 DEF ArmTimer
<1>3. CASE ~(deadline # NoTimer \/ posted \/ q = <<>>) /\ ~(Elapsed(q[1].time) >= Interval)
  <2> DEFINE age == Elapsed(q[1].time)
             left == Interval - age
  <2>1. deadline' = (now + Interval - age) % MsecWrap
    BY <1>3 DEF ArmTimer
  <2>2. age \in 0..MsecWrap-1 /\ ~(age >= Interval)
    BY <1>3, ElapsedType, RecordFields
  <2> HIDE DEF age
  <2>3. left \in 1..Interval /\ left \in 0..MsecWrap-1 /\ now + Interval - age = now + left
    BY <2>2, Times DEF TypeOK
  <2> HIDE DEF left
  <2>4. (now - deadline') % MsecWrap = MsecWrap - left
    <3>1. now \in 0..MsecWrap-1 /\ MsecWrap \in Nat \ {0} /\ left # 0
      BY <2>3, Times DEF TypeOK
    <3>2. deadline' = (now + left) % MsecWrap
      BY <2>1, <2>3
    <3>3. /\ (now + left) % MsecWrap \in 0..MsecWrap-1
          /\ (now - ((now + left) % MsecWrap)) % MsecWrap = MsecWrap - left
      BY <2>3, <3>1, Clk!SinceAhead
    <3> QED BY <2>3, <3>1, <3>2, <3>3
  <2>5. Elapsed(deadline') = MsecWrap - left
    BY <2>4 DEF Elapsed
  <2>6. MsecWrap - Elapsed(deadline') = left /\ age + left <= Interval
    BY <2>2, <2>3, <2>5, Times DEF left
  <2>7. TimerMatches(q, deadline')
    BY <2>3, <2>6 DEF TimerMatches, age
  <2> QED BY <2>7 DEF AgesInv
<1> QED BY <1>1, <1>2, <1>3

(* Ages depend on the records' times and on nothing else of them.          *)
LEMMA SameAges ==
  ASSUME NEW q \in Seq(Record), NEW p \in Seq(Record), NEW d, AgesInv(q, d),
         Len(p) = Len(q), \A i \in 1..Len(q) : p[i].time = q[i].time
  PROVE  AgesInv(p, d)
<1>1. /\ DOMAIN p = 1..Len(q) /\ DOMAIN q = 1..Len(q) /\ Len(q) \in Nat
      /\ p # <<>> => q # <<>> /\ 1 \in 1..Len(q)
  OBVIOUS
<1>2. AgesFall(p)
  BY <1>1 DEF AgesInv, AgesFall
<1>3. p # <<>> => q # <<>> /\ p[1].time = q[1].time
  BY <1>1
<1>4. AgesBounded(p) /\ TimerMatches(p, d)
  BY <1>3 DEF AgesInv, AgesBounded, TimerMatches
<1> QED BY <1>2, <1>4 DEF AgesInv

(* A record that ngx_statshouse_aggregate() places is made now.            *)
LEMMA PlaceAges ==
  ASSUME TypeOK, NEW s \in Series, Kind[s] = "counter" \/ Values # 0,
         NEW id \in Nat \ {0}, NEW q \in Seq(Record), AgesInv(q, deadline),
         NEW idx, Place(s, id, q, idx)
  PROVE  AgesInv(queue', deadline')
<1> DEFINE off == AllocPtr(pos, last, RecSize(s))
           r == [off |-> off, size |-> RecSize(s), time |-> now, key |-> Hash[s],
                 series |-> s, stats |-> <<id>>]
<1>1. off # NoSpace /\ queue' = Append(q, r) /\ ArmTimer(queue')
  BY DEF Place
<1>2. RecSize(s) \in Nat \ {0} /\ Hash[s] \in Nat \ {0}
  BY RecSizePositive, SeriesAssumption
<1>3. off \in Nat
  BY <1>1, <1>2 DEF AllocPtr, NoSpace, TypeOK
<1>4. r \in Record /\ r.time = now
  BY <1>2, <1>3 DEF Record, TypeOK
<1> HIDE DEF r
<1>5. queue' \in Seq(Record)
  BY <1>1, <1>4
<1>6. AgesInv(Append(q, r), deadline)
  BY <1>4, YoungestComes DEF TypeOK
<1>7. AgesInv(queue', deadline)
  BY <1>1, <1>6
<1> QED BY <1>1, <1>5, <1>7, ArmTimerMatches

(* While the clock stands, ages change with the queue and the timer only.  *)
LEMMA ClockStands ==
  ASSUME now' = now, AgesInv(queue', deadline')
  PROVE  AgesInv(queue, deadline)'
BY DEF AgesInv, AgesFall, AgesBounded, TimerMatches, Elapsed

(* The record found full stays in the queue with its time.                 *)
LEMMA DetachAges ==
  ASSUME CInv, NEW k \in 0..Len(queue)
  PROVE  Detach(k) \in Seq(Record) /\ AgesInv(Detach(k), deadline)
<1> DEFINE q == Detach(k)
<1>1. q \in Seq(Record) /\ Len(q) = Len(queue)
  BY DetachKeeps DEF CInv, Inv
<1>2. /\ queue \in Seq(Record) /\ DOMAIN queue = 1..Len(queue)
      /\ \A i \in 1..Len(queue) : queue[i] \in Record
  BY QueueBlocks DEF CInv, Inv, TypeOK
<1>3. \A i \in 1..Len(queue) : q[i].time = queue[i].time
  BY <1>2 DEF Detach, Record
<1> HIDE DEF q
<1>4. AgesInv(q, deadline)
  BY <1>1, <1>2, <1>3, SameAges DEF CInv
<1> QED BY <1>1, <1>4 DEF q

LEMMA MergeAges ==
  ASSUME CInv, Inv', NEW s \in Series, Merge(s)
  PROVE  AgesInv(queue', deadline') /\ now' = now
<1>1. PICK i \in Lookup(s) : MergeAt(s, i)
  BY DEF Merge
<1>2. /\ queue' = [queue EXCEPT ![i].stats = Append(@, New)]
      /\ deadline' = deadline /\ now' = now
  BY <1>1 DEF MergeAt
<1>3. /\ queue \in Seq(Record) /\ queue' \in Seq(Record)
      /\ DOMAIN queue = 1..Len(queue) /\ DOMAIN queue' = 1..Len(queue')
      /\ Len(queue) \in Nat /\ Len(queue') \in Nat
      /\ \A j \in 1..Len(queue) : queue[j] \in Record
  BY QueueBlocks DEF CInv, Inv, TypeOK
<1>4. DOMAIN queue' = DOMAIN queue /\ \A j \in DOMAIN queue : queue'[j].time = queue[j].time
  <2>1. DOMAIN queue' = DOMAIN queue
    BY <1>2
  <2>2. \A j \in DOMAIN queue : j # i => queue'[j] = queue[j]
    BY <1>2
  <2>3. i \in DOMAIN queue => queue'[i] = [queue[i] EXCEPT !.stats = Append(queue[i].stats, New)]
    BY <1>2
  <2>4. i \in DOMAIN queue => queue'[i].time = queue[i].time
    BY <1>3, <2>3 DEF Record
  <2> QED BY <2>1, <2>2, <2>4
<1>5. Len(queue') = Len(queue)
  <2>1. \A m, n \in Nat : 1..m = 1..n => m = n
    <3>1. ASSUME NEW m \in Nat, NEW n \in Nat, m < n PROVE n \in 1..n /\ n \notin 1..m
      BY <3>1
    <3> QED BY <3>1
  <2>2. 1..Len(queue') = 1..Len(queue)
    BY <1>3, <1>4
  <2> QED BY <1>3, <2>1, <2>2
<1>6. AgesInv(queue', deadline)
  BY <1>3, <1>4, <1>5, SameAges DEF CInv
<1> QED BY <1>2, <1>6

LEMMA RequestAges ==
  ASSUME CInv, Inv', Request
  PROVE  AgesInv(queue', deadline') /\ now' = now
<1>1. PICK s \in Series : Refuse(s) \/ Merge(s) \/ Store(s) \/ NeedSpace(s)
  BY DEF Request
<1>2. TypeOK /\ AgesInv(queue, deadline)
  BY DEF CInv, Inv
<1>3. CASE Refuse(s)
  BY <1>2, <1>3 DEF Refuse
<1>4. CASE Merge(s)
  BY <1>4, MergeAges
<1>5. CASE Store(s)
  <2>1. PICK i \in Lookup(s) : StoreAt(s, i)
    BY <1>5 DEF Store
  <2>2. /\ Place(s, New, Detach(i), DetachIndex(i)) /\ now' = now
        /\ Kind[s] = "counter" \/ Values # 0
    BY <2>1 DEF StoreAt, Accepts
  <2>3. i \in 0..Len(queue) /\ New \in Nat \ {0}
    BY <1>2, LookupInQueue DEF New, TypeOK
  <2>4. Detach(i) \in Seq(Record) /\ AgesInv(Detach(i), deadline)
    BY <2>3, DetachAges
  <2> QED BY <1>2, <2>2, <2>3, <2>4, PlaceAges
<1>6. CASE NeedSpace(s)
  <2>1. PICK i \in Lookup(s) : NeedSpaceAt(s, i)
    BY <1>6 DEF NeedSpace
  <2>2. queue' = Detach(i) /\ deadline' = deadline /\ now' = now
    BY <2>1 DEF NeedSpaceAt
  <2>3. i \in 0..Len(queue)
    BY <1>2, LookupInQueue
  <2>4. AgesInv(Detach(i), deadline)
    BY <2>3, DetachAges
  <2> QED BY <2>2, <2>4
<1> QED BY <1>1, <1>3, <1>4, <1>5, <1>6

LEMMA ProcessAges ==
  ASSUME CInv, Process
  PROVE  AgesInv(queue', deadline') /\ now' = now
<1>1. /\ TypeOK /\ AgesInv(queue, deadline) /\ queue \in Seq(Record)
      /\ deadline \in {NoTimer} \cup 0..MsecWrap-1
  BY DEF CInv, Inv, TypeOK
<1>2. CASE Enter
  BY <1>1, <1>2 DEF Enter
<1>3. CASE \E rc \in {"ok", "declined"} : HandOver(rc)
  <2>1. queue' = Tail(queue) /\ queue # <<>> /\ deadline' = deadline /\ now' = now
    BY <1>3 DEF HandOver, Due
  <2>2. AgesInv(Tail(queue), deadline)
    BY <1>1, <2>1, OldestLeaves
  <2> QED BY <2>1, <2>2
<1>4. CASE \E rc \in ReturnCodes : EndTimer(rc)
  <2>1. ArmTimer(queue) /\ queue' = queue /\ now' = now
    BY <1>4 DEF EndTimer
  <2>2. AgesInv(queue, deadline')
    BY <1>1, <2>1, ArmTimerMatches
  <2> QED BY <2>1, <2>2
<1>5. CASE \E rc \in ReturnCodes : EndStored(rc)
  <2> DEFINE s == seen[Len(seen)].series
  <2>1. Place(s, Len(seen), queue, index) /\ call.task = "stat" /\ now' = now
    BY <1>5 DEF EndStored
  <2>2. Len(seen) \in Nat \ {0} /\ s \in Series /\ (Kind[s] = "counter" \/ Values # 0)
    BY <2>1, PendingStat DEF CInv
  <2> HIDE DEF s
  <2> QED BY <1>1, <2>1, <2>2, PlaceAges
<1>6. CASE \E rc \in ReturnCodes : EndDeclined(rc) \/ EndFailed(rc)
  BY <1>1, <1>6 DEF EndDeclined, EndFailed
<1> QED BY <1>2, <1>3, <1>4, <1>5, <1>6 DEF Process

(* ngx_time_update(): everything grows a millisecond older, the timer runs *)
(* out or comes closer, and one that has run out waits no longer than      *)
(* MaxLag.                                                                 *)
LEMMA TickAges == ASSUME CInv, Tick PROVE AgesInv(queue, deadline)'
<1> DEFINE a(i) == Elapsed(queue[i].time)
           b(i) == Elapsed(queue[i].time)'
           dd == Elapsed(deadline)
           ee == Elapsed(deadline)'
<1>1. /\ queue' = queue /\ deadline' = deadline /\ now' = (now + 1) % MsecWrap
      /\ Expired => dd < MaxLag
      /\ call.task # "timer" /\ ~posted
      /\ AgesInv(queue, deadline)
      /\ queue # <<>> => deadline # NoTimer
  BY DEF CInv, Inv, Tick, Idle, NoCall, TimerInv, TimerSet
<1>2. /\ DOMAIN queue = 1..Len(queue) /\ Len(queue) \in Nat
      /\ \A i \in DOMAIN queue : queue[i].time \in 0..MsecWrap-1
      /\ queue # <<>> => 1 \in DOMAIN queue
      /\ \A i \in DOMAIN queue : i \in 1..Len(queue) /\ (i = 1 \/ 1 < i)
  BY QueueBlocks, RecordFields DEF CInv, Inv, TypeOK
<1>3. ASSUME NEW t \in 0..MsecWrap-1
      PROVE  /\ Elapsed(t) \in 0..MsecWrap-1
             /\ (now' - t) % MsecWrap
                  = IF Elapsed(t) = MsecWrap - 1 THEN 0 ELSE Elapsed(t) + 1
  BY <1>1, Times, Clk!SinceTick, Clk!SinceType DEF Elapsed, CInv, Inv, TypeOK
<1>4. \A i \in DOMAIN queue : /\ a(i) \in 0..MsecWrap-1
                              /\ b(i) = IF a(i) = MsecWrap - 1 THEN 0 ELSE a(i) + 1
  BY <1>1, <1>2, <1>3 DEF Elapsed
<1>5. deadline # NoTimer => /\ dd \in 0..MsecWrap-1
                            /\ ee = IF dd = MsecWrap - 1 THEN 0 ELSE dd + 1
  <2>1. SUFFICES ASSUME deadline # NoTimer
                 PROVE  /\ dd \in 0..MsecWrap-1
                        /\ ee = IF dd = MsecWrap - 1 THEN 0 ELSE dd + 1
    OBVIOUS
  <2>2. deadline \in 0..MsecWrap-1
    BY <2>1 DEF CInv, Inv, TypeOK
  <2> QED BY <1>1, <1>3, <2>2 DEF Elapsed
<1>6. /\ \A i, j \in DOMAIN queue : i < j => a(j) <= a(i)
      /\ queue # <<>> => a(1) <= Interval + MaxLag
      /\ deadline # NoTimer =>
           \/ dd <= MaxLag /\ (queue # <<>> => a(1) <= Interval + dd)
           \/ /\ MsecWrap - dd \in 1..Interval
              /\ queue # <<>> => a(1) + (MsecWrap - dd) <= Interval
      /\ deadline # NoTimer /\ 2 * dd < MsecWrap => dd < MaxLag
  BY <1>1 DEF AgesInv, AgesFall, AgesBounded, TimerMatches, Expired
<1> HIDE DEF a, b, dd, ee
<1>7. \A i \in DOMAIN queue : a(i) <= a(1) /\ b(i) = a(i) + 1
  <2> SUFFICES ASSUME NEW i \in DOMAIN queue
               PROVE  a(i) <= a(1) /\ b(i) = a(i) + 1
    OBVIOUS
  <2>1. queue # <<>> /\ 1 \in DOMAIN queue /\ (i = 1 \/ 1 < i)
    BY <1>2
  <2>2. a(i) \in 0..MsecWrap-1 /\ a(1) \in 0..MsecWrap-1 /\ dd \in 0..MsecWrap-1
    BY <1>1, <1>4, <1>5, <2>1
  <2>3. a(i) <= a(1)
    BY <1>6, <2>1, <2>2
  <2>4. a(1) < Interval + MaxLag
    <3>1. CASE dd <= MaxLag /\ a(1) <= Interval + dd
      <4>1. dd < MaxLag
        BY <1>1, <1>6, <2>1, <2>2, <3>1, Times
      <4> QED BY <2>2, <3>1, <4>1, Times
    <3>2. CASE MsecWrap - dd \in 1..Interval /\ a(1) + (MsecWrap - dd) <= Interval
      BY <2>2, <3>2, Times
    <3> QED BY <1>1, <1>6, <2>1, <3>1, <3>2
  <2>5. a(i) # MsecWrap - 1
    BY <2>2, <2>3, <2>4, Times
  <2>6. b(i) = a(i) + 1
    BY <1>4, <2>5
  <2> QED BY <2>3, <2>6
<1>8. \A i, j \in DOMAIN queue : i < j => b(j) <= b(i)
  BY <1>4, <1>6, <1>7
<1>9. deadline # NoTimer =>
           \/ ee <= MaxLag /\ (queue # <<>> => b(1) <= Interval + ee)
           \/ /\ MsecWrap - ee \in 1..Interval
              /\ queue # <<>> => b(1) + (MsecWrap - ee) <= Interval
  <2> SUFFICES ASSUME deadline # NoTimer
               PROVE  \/ ee <= MaxLag /\ (queue # <<>> => b(1) <= Interval + ee)
                      \/ /\ MsecWrap - ee \in 1..Interval
                         /\ queue # <<>> => b(1) + (MsecWrap - ee) <= Interval
    OBVIOUS
  <2>1. queue # <<>> => a(1) \in 0..MsecWrap-1 /\ b(1) = a(1) + 1
    BY <1>2, <1>4, <1>7
  <2>2. CASE dd <= MaxLag /\ (queue # <<>> => a(1) <= Interval + dd)
    <3>1. dd < MaxLag /\ ee = dd + 1
      BY <1>5, <1>6, <2>2, Times
    <3> QED BY <1>5, <2>1, <2>2, <3>1, Times
  <2>3. CASE /\ MsecWrap - dd \in 1..Interval
             /\ queue # <<>> => a(1) + (MsecWrap - dd) <= Interval
    BY <1>5, <2>1, <2>3, Times
  <2> QED BY <1>6, <2>2, <2>3
<1>10. queue # <<>> => b(1) <= Interval + MaxLag
  BY <1>1, <1>2, <1>4, <1>5, <1>7, <1>9, Times
<1> QED BY <1>1, <1>8, <1>9, <1>10 DEF AgesInv, AgesFall, AgesBounded, TimerMatches, b, ee

----------------------------------------------------------------------------
LEMMA InitCInv == Init => CInv
<1> SUFFICES ASSUME Init PROVE AgesInv(queue, deadline)
  BY InitInv DEF CInv
<1>1. queue = <<>> /\ DOMAIN queue = {} /\ deadline = NoTimer
  BY DEF Init
<1> QED BY <1>1 DEF AgesInv, AgesFall, AgesBounded, TimerMatches

LEMMA NextCInv == ASSUME CInv, [Next]_vars PROVE CInv'
<1>1. Inv' /\ AgesInv(queue, deadline)
  BY NextInv DEF CInv
<1>2. CASE Request
  BY <1>1, <1>2, RequestAges, ClockStands DEF CInv
<1>3. CASE Process
  BY <1>1, <1>3, ProcessAges, ClockStands DEF CInv
<1>4. CASE TimerRuns
  <2>1. /\ queue' = queue /\ now' = now
        /\ deadline' = deadline \/ deadline' = NoTimer
    BY <1>4 DEF TimerRuns
  <2>2. AgesInv(queue, NoTimer)
    BY <1>1 DEF AgesInv, TimerMatches
  <2>3. AgesInv(queue', deadline')
    BY <1>1, <2>1, <2>2
  <2> QED BY <1>1, <2>1, <2>3, ClockStands DEF CInv
<1>5. CASE Tick
  BY <1>1, <1>5, TickAges DEF CInv
<1>6. CASE Signal \/ UNCHANGED vars
  <2>1. queue' = queue /\ deadline' = deadline /\ now' = now
    BY <1>6 DEF Signal, Quit, Terminate, Exit, vars
  <2>2. AgesInv(queue', deadline')
    BY <1>1, <2>1
  <2> QED BY <1>1, <2>1, <2>2, ClockStands DEF CInv
<1> QED BY <1>2, <1>3, <1>4, <1>5, <1>6 DEF Next, Loop

(* Inductive: the records by age, and how long the timer still has.        *)
THEOREM AgesInvariance == Spec => []CInv
<1>1. Init => CInv
  BY InitCInv
<1>2. CInv /\ [Next]_vars => CInv'
  BY NextCInv
<1> QED BY <1>1, <1>2, PTL DEF Spec

(* No record stays in the aggregator longer than its interval and the      *)
(* event loop's delay, for every interval and delay whose sum is less than *)
(* half a turn of the clock, whenever the clock wraps.                     *)
THEOREM RecordsLeaveInTime == Spec => []HoldsNoLonger
<1>1. CInv => HoldsNoLonger
  <2> SUFFICES ASSUME CInv, NEW i \in DOMAIN queue
               PROVE  Elapsed(queue[i].time) <= Interval + MaxLag
    BY DEF HoldsNoLonger, Elapsed
  <2>1. /\ AgesFall(queue) /\ AgesBounded(queue) /\ queue # <<>>
        /\ DOMAIN queue = 1..Len(queue) /\ Len(queue) \in Nat
        /\ \A j \in DOMAIN queue : Elapsed(queue[j].time) \in 0..MsecWrap-1
    BY QueueBlocks, RecordFields, ElapsedType DEF CInv, Inv, TypeOK, AgesInv
  <2>2. 1 \in DOMAIN queue /\ (i = 1 \/ 1 < i)
    BY <2>1
  <2>3. Elapsed(queue[i].time) <= Elapsed(queue[1].time)
    BY <2>1, <2>2 DEF AgesFall
  <2> QED BY <2>1, <2>2, <2>3, Times DEF AgesBounded
<1> QED BY <1>1, AgesInvariance, PTL
=============================================================================
