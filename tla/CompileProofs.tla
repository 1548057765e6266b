---------------------------- MODULE CompileProofs ----------------------------
(***************************************************************************)
(* What ngx_statshouse_stat_compile() makes, for all metrics, requests and *)
(* times: the stats fit into server->splits, each has a number and its     *)
(* keys once and in order; they are exactly those that the lists of the    *)
(* request ask for (StatsAreExact), whose parts are the pieces between     *)
(* their commas (PartsExact); and a metric with a timeout makes stats no   *)
(* more often than that.                                                   *)
(*                                                                         *)
(* The recursions and folds of the model are what they say by the          *)
(* theorems of Lemmas.                                                     *)
(***************************************************************************)
EXTENDS CompileProps, FiniteSetTheorems, TLAPS

(* The recursions: over the blanks of a text, over its parts, over keys    *)
(* that are added and over the keys of a stat that is opened.              *)
AnyOp(a, x, y) == x

SkipDef(c, f, q) ==
  IF q >= EndOf(c) THEN q
  ELSE IF IsGroupDelimiter(c, q) THEN f[q + 3]
  ELSE IF Byte(c, q) = " " THEN f[q + 1]
  ELSE q
SkipRec == INSTANCE Lemmas WITH Def <- SkipDef, Op <- AnyOp

PartsDef(c, f, s) ==
  IF s[2] = 0 THEN [items |-> <<>>, fault |-> FALSE]
  ELSE LET r == StatPart(c, s[1]) IN
    IF r.kind # "part" THEN [items |-> <<>>, fault |-> r.kind = "fault"]
    ELSE LET rest == f[<<r.next, s[2] - 1>>] IN
      [items |-> <<r.item>> \o rest.items, fault |-> rest.fault]
PartsRec == INSTANCE Lemmas WITH Def <- PartsDef, Op <- AnyOp

AddOp(a, stats, i) == AddKey(a[1], a[2], stats, i)
AddDef(c, f, s) == IF s = {} THEN c[2] ELSE AddOp(c[1], f[s \ {Max(s)}], c[3][Max(s)])
AddRec == INSTANCE Lemmas WITH Def <- AddDef, Op <- AddOp

WholeOp(a, stat, p) == AddWhole(a[1], a[2], stat, p)
WholeDef(c, f, s) == IF s = {} THEN c[2] ELSE WholeOp(c[1], f[s \ {Max(s)}], c[3][Max(s)])
WholeRec == INSTANCE Lemmas WITH Def <- WholeDef, Op <- WholeOp

(* s is a sequence of n elements.                                          *)
Counts(s, n) == n \in Nat /\ s = [i \in 1..n |-> s[i]]

(* Such a sequence has its length and its places.                          *)
LEMMA CountsLen ==
  ASSUME NEW s, NEW n, Counts(s, n)
  PROVE  s \in Seq({s[i] : i \in 1..n}) /\ Len(s) = n /\ DOMAIN s = 1..n
BY DEF Counts

(* A sequence of n elements has them.                                      *)
LEMMA SeqCounts ==
  ASSUME NEW X, NEW s \in Seq(X), NEW n \in Nat, Len(s) = n
  PROVE  Counts(s, n)
BY DEF Counts

(* What Append() makes of a sequence                                       *)
LEMMA AppendIndices ==
  ASSUME NEW X, NEW s \in Seq(X), NEW x \in X
  PROVE  /\ Append(s, x) \in Seq(X) /\ Len(Append(s, x)) = Len(s) + 1
         /\ \A a \in 1..Len(s) : Append(s, x)[a] = s[a]
         /\ Append(s, x)[Len(s)+1] = x
OBVIOUS

(* t is s with one element more at the end.                                *)
Longer(t, s, n, x) == Counts(t, n + 1) /\ (\A i \in 1..n : t[i] = s[i]) /\ t[n+1] = x

(* Append() makes it so.                                                   *)
LEMMA CountsAppend ==
  ASSUME NEW s, NEW n, NEW x, Counts(s, n)
  PROVE  Longer(Append(s, x), s, n, x)
<1> DEFINE X == {s[i] : i \in 1..n} \cup {x}
           t == Append(s, x)
<1>1. s \in Seq(X) /\ x \in X /\ Len(s) = n /\ n \in Nat
  BY DEF Counts
<1> HIDE DEF X
<1>2. /\ t \in Seq(X) /\ Len(t) = n + 1
      /\ (\A a \in 1..n : t[a] = s[a]) /\ t[n+1] = x
  BY <1>1, AppendIndices
<1> HIDE DEF t
<1>3. n + 1 \in Nat
  BY <1>1
<1>4. Counts(t, n + 1)
  BY <1>2, <1>3, SeqCounts
<1> QED BY <1>2, <1>4 DEF t, Longer

(* One element more in front                                               *)
LEMMA CountsCons ==
  ASSUME NEW s, NEW n, NEW x, Counts(s, n)
  PROVE  Counts(<<x>> \o s, n + 1)
<1> DEFINE u == <<x>> \o s
<1>1. u = [i \in 1..n+1 |-> IF i <= 1 THEN x ELSE s[i-1]]
  BY DEF Counts
<1>2. u = [i \in 1..n+1 |-> u[i]] /\ n + 1 \in Nat
  BY <1>1 DEF Counts
<1> HIDE DEF u
<1> QED BY <1>2 DEF u, Counts
----------------------------------------------------------------------------
(* The least of a set of positions is one of them.                         *)
LEMMA MinIn ==
  ASSUME NEW S \in SUBSET Nat, S # {}
  PROVE  Min(S) \in S
<1> DEFINE T == {k \in Nat : (\E y \in S : y <= k) => \E x \in S : \A y \in S : x <= y}
<1>1. 0 \in T
  OBVIOUS
<1>2. ASSUME NEW k \in Nat, k \in T PROVE k + 1 \in T
  <2>1. SUFFICES ASSUME NEW z \in S, z <= k + 1, ~\E y \in S : y <= k
        PROVE  \E x \in S : \A y \in S : x <= y
    BY <1>2
  <2>2. \A y \in S : z <= y
    BY <2>1
  <2> QED BY <2>2
<1>3. \A k \in Nat : k \in T
  <2> HIDE DEF T
  <2> QED BY <1>1, <1>2, SkipRec!SetInduction
<1>4. PICK y \in S : TRUE
  OBVIOUS
<1>5. \E x \in S : \A z \in S : x <= z
  <2>1. y \in T /\ y <= y
    BY <1>3
  <2> QED BY <2>1
<1> QED BY <1>5 DEF Min

(* What SkipBlank does at a position                                       *)
LEMMA SkipHolds ==
  ASSUME NEW t \in Texts
  PROVE  \A q \in Nat : SkipBlank(t, q) =
           IF q >= EndOf(t) THEN q
           ELSE IF IsGroupDelimiter(t, q) THEN SkipBlank(t, q + 3)
           ELSE IF Byte(t, q) = " " THEN SkipBlank(t, q + 1)
           ELSE q
<1> DEFINE e == EndOf(t)
           m == [q \in Nat |-> IF q >= e THEN 0 ELSE e - q]
           skip == SkipRec!Recursive(t, Nat)
<1>1. e \in Nat
  BY DEF EndOf, Texts
<1> HIDE DEF e
<1>2. m \in [Nat -> Nat]
  BY <1>1
<1>3. \A q \in Nat : ~(q >= e) => m[q + 1] < m[q] /\ m[q + 3] < m[q]
  BY <1>1
<1> HIDE DEF m
<1>4. SkipRec!LooksBelow(t, m, Nat)
  <2>1. SUFFICES ASSUME NEW f, NEW g, NEW q \in Nat, \A y \in Nat : m[y] < m[q] => f[y] = g[y]
        PROVE  SkipDef(t, f, q) = SkipDef(t, g, q)
    BY DEF SkipRec!LooksBelow
  <2>2. CASE q >= e
    BY <2>2 DEF SkipDef, e
  <2>3. CASE ~(q >= e)
    <3>1. f[q + 1] = g[q + 1] /\ f[q + 3] = g[q + 3]
      <4>1. q + 1 \in Nat /\ q + 3 \in Nat
        OBVIOUS
      <4> QED BY <1>3, <2>1, <2>3, <4>1
    <3> QED BY <2>3, <3>1 DEF SkipDef, e
  <2> QED BY <2>2, <2>3
<1>5. skip = [q \in Nat |-> SkipDef(t, skip, q)]
  BY <1>2, <1>4, SkipRec!RecursionHolds
<1>6. \A q \in Nat : SkipBlank(t, q) = skip[q]
  BY DEF SkipBlank, SkipDef, SkipRec!Recursive
<1> HIDE DEF skip
<1>7. \A q \in Nat : q + 1 \in Nat /\ q + 3 \in Nat
  OBVIOUS
<1> QED BY <1>5, <1>6, <1>7 DEF SkipDef

(* Blanks end at a position.                                               *)
LEMMA SkipBlankNat ==
  ASSUME NEW t \in Texts, NEW p \in Nat
  PROVE  SkipBlank(t, p) \in Nat
<1> DEFINE e == EndOf(t)
           m == [q \in Nat |-> IF q >= e THEN 0 ELSE e - q]
           T == {n \in Nat : \A q \in Nat : m[q] <= n => SkipBlank(t, q) \in Nat}
<1>1. e \in Nat
  BY DEF EndOf, Texts
<1> HIDE DEF e
<1>2. m \in [Nat -> Nat]
  BY <1>1
<1>3. \A q \in Nat : ~(q >= e) => m[q + 1] < m[q] /\ m[q + 3] < m[q]
  BY <1>1
<1> HIDE DEF m
<1>7. ASSUME NEW q \in Nat, \A y \in Nat : m[y] < m[q] => SkipBlank(t, y) \in Nat
      PROVE  SkipBlank(t, q) \in Nat
  <2>1. SkipBlank(t, q) =
          IF q >= e THEN q
          ELSE IF IsGroupDelimiter(t, q) THEN SkipBlank(t, q + 3)
          ELSE IF Byte(t, q) = " " THEN SkipBlank(t, q + 1)
          ELSE q
    BY SkipHolds DEF e
  <2>2. ~(q >= e) => SkipBlank(t, q + 1) \in Nat /\ SkipBlank(t, q + 3) \in Nat
    <3>1. q + 1 \in Nat /\ q + 3 \in Nat
      OBVIOUS
    <3> QED BY <1>3, <1>7, <3>1
  <2> QED BY <2>1, <2>2
<1>8. 0 \in T
  <2>1. \A q, y \in Nat : m[q] <= 0 => ~(m[y] < m[q])
    BY <1>2
  <2> QED BY <1>7, <2>1
<1>9. ASSUME NEW n \in Nat, n \in T PROVE n + 1 \in T
  <2>1. SUFFICES ASSUME NEW q \in Nat, m[q] <= n + 1 PROVE SkipBlank(t, q) \in Nat
    OBVIOUS
  <2>2. \A y \in Nat : m[y] < m[q] => m[y] <= n
    BY <1>2, <2>1
  <2> QED BY <1>7, <1>9, <2>2
<1>10. \A n \in Nat : n \in T
  <2> HIDE DEF T
  <2> QED BY <1>8, <1>9, SkipRec!SetInduction
<1>11. m[p] \in Nat /\ m[p] <= m[p]
  BY <1>2
<1> QED BY <1>10, <1>11

(* So does an item, and the part after which the next one is looked for.   *)
LEMMA StatPartNat ==
  ASSUME NEW t \in Texts, NEW p \in Nat
  PROVE  StatPart(t, p).next \in Nat
<1> DEFINE start == SkipBlank(t, p)
           stop == ItemEnd(t, start)
           from == IF stop < EndOf(t) /\ Byte(t, stop) = "," THEN stop + 1 ELSE stop
<1>1. start \in Nat
  BY SkipBlankNat
<1>2. stop \in Nat
  <2> HIDE DEF start
  <2> DEFINE S == {EndOf(t)} \cup {q \in start..Len(t.str) : Byte(t, q) = "," \/ IsGroupDelimiter(t, q)}
  <2>1. EndOf(t) \in Nat /\ Len(t.str) \in Nat
    BY DEF EndOf, Texts
  <2>2. S \in SUBSET Nat /\ S # {}
    <3>1. \A q \in start..Len(t.str) : q \in Nat
      BY <1>1, <2>1
    <3>2. \A q \in S : q = EndOf(t) \/ q \in start..Len(t.str)
      OBVIOUS
    <3>3. EndOf(t) \in S
      OBVIOUS
    <3> HIDE DEF S
    <3> QED BY <2>1, <3>1, <3>2, <3>3
  <2>3. ItemEnd(t, start) = IF start >= EndOf(t) THEN start ELSE Min(S)
    BY DEF ItemEnd
  <2> HIDE DEF S
  <2>4. Min(S) \in Nat
    BY <2>2, MinIn
  <2> QED BY <1>1, <2>3, <2>4
<1>3. from \in Nat
  <2>1. stop + 1 \in Nat
    BY <1>2
  <2> HIDE DEF stop
  <2> QED BY <1>2, <2>1, Zenon
<1>4. StatPart(t, p).next = SkipBlank(t, from)
  BY DEF StatPart
<1> HIDE DEF from
<1> QED BY <1>3, <1>4, SkipBlankNat

(* What Parts takes from a position p, at most m parts                     *)
PartsStep(t, from, p, m) ==
  IF m = 0 THEN [items |-> <<>>, fault |-> FALSE]
  ELSE IF StatPart(t, p).kind # "part" THEN [items |-> <<>>, fault |-> StatPart(t, p).kind = "fault"]
  ELSE [items |-> <<StatPart(t, p).item>> \o from[<<StatPart(t, p).next, m - 1>>].items,
        fault |-> from[<<StatPart(t, p).next, m - 1>>].fault]

(* Parts takes them so.                                                    *)
LEMMA PartsHolds ==
  ASSUME NEW t \in Texts
  PROVE  \E from : /\ \A p, m \in Nat : from[<<p, m>>] = PartsStep(t, from, p, m)
                   /\ \A max \in Nat : Parts(t, max) = from[<<1, max>>]
<1> DEFINE S == Nat \X Nat
           m == [s \in S |-> s[2]]
           from == PartsRec!Recursive(t, S)
<1>1. m \in [S -> Nat]
  OBVIOUS
<1>2. \A p, n \in Nat : <<p, n>> \in S /\ m[<<p, n>>] = n
  OBVIOUS
<1>3. \A s \in S : s = <<s[1], s[2]>> /\ s[1] \in Nat /\ s[2] \in Nat /\ m[s] = s[2]
  OBVIOUS
<1>6. \A max : Parts(t, max) = from[<<1, max>>]
  BY DEF Parts, PartsDef, PartsRec!Recursive
<1> HIDE DEF m, S
<1>4. PartsRec!LooksBelow(t, m, S)
  <2>1. SUFFICES ASSUME NEW f, NEW g, NEW s \in S, \A y \in S : m[y] < m[s] => f[y] = g[y]
        PROVE  PartsDef(t, f, s) = PartsDef(t, g, s)
    BY DEF PartsRec!LooksBelow
  <2>2. CASE s[2] = 0
    BY <2>2 DEF PartsDef
  <2>3. CASE s[2] # 0
    <3> DEFINE r == StatPart(t, s[1])
               z == <<r.next, s[2] - 1>>
    <3>1. r.next \in Nat /\ s[2] - 1 \in Nat /\ s[2] - 1 < s[2]
      BY <1>3, <2>3, StatPartNat
    <3> HIDE DEF r
    <3>2. z \in S /\ m[z] < m[s]
      BY <1>2, <1>3, <3>1
    <3>3. f[z] = g[z]
      BY <2>1, <3>2
    <3> QED BY <3>3 DEF PartsDef, r
  <2> QED BY <2>2, <2>3
<1>5. from = [s \in S |-> PartsDef(t, from, s)]
  BY <1>1, <1>4, PartsRec!RecursionHolds
<1> HIDE DEF from
<1>7. ASSUME NEW p \in Nat, NEW k \in Nat PROVE from[<<p, k>>] = PartsStep(t, from, p, k)
  <2> DEFINE z == <<p, k>>
  <2>1. z[1] = p /\ z[2] = k /\ z \in S
    BY <1>2
  <2> HIDE DEF z
  <2>2. from[z] = PartsDef(t, from, z)
    BY <1>5, <2>1
  <2>3. PartsDef(t, from, z) = PartsStep(t, from, p, k)
    BY <2>1, Zenon DEF PartsDef, PartsStep
  <2> QED BY <2>2, <2>3 DEF z
<1> QED BY <1>6, <1>7

(* ngx_statshouse_stat_compile() takes at most max parts of a text.        *)
LEMMA PartsFit ==
  ASSUME NEW t \in Texts, NEW max \in Nat
  PROVE  \E n \in 0..max : Counts(Parts(t, max).items, n)
<1>1. PICK from : /\ \A p, m \in Nat : from[<<p, m>>] = PartsStep(t, from, p, m)
                  /\ Parts(t, max) = from[<<1, max>>]
  BY PartsHolds
<1> DEFINE T == {n \in Nat : \A p \in Nat : \E k \in 0..n : Counts(from[<<p, n>>].items, k)}
<1>8. Counts(<<>>, 0)
  BY DEF Counts
<1>9. 0 \in T
  <2>1. ASSUME NEW p \in Nat PROVE from[<<p, 0>>].items = <<>>
    <3>1. from[<<p, 0>>] = PartsStep(t, from, p, 0)
      BY <1>1
    <3>2. PartsStep(t, from, p, 0).items = <<>>
      BY DEF PartsStep
    <3> QED BY <3>1, <3>2
  <2> QED BY <1>8, <2>1
<1>10. ASSUME NEW n \in Nat, n \in T PROVE n + 1 \in T
  <2>1. SUFFICES ASSUME NEW p \in Nat
                 PROVE  \E k \in 0..n+1 : Counts(from[<<p, n + 1>>].items, k)
    OBVIOUS
  <2> DEFINE r == StatPart(t, p)
             rest == from[<<r.next, n>>]
  <2> DEFINE z == <<p, n + 1>>
             some == [items |-> <<r.item>> \o rest.items, fault |-> rest.fault]
             none == [items |-> <<>>, fault |-> r.kind = "fault"]
  <2>2. from[z] = IF r.kind # "part" THEN none ELSE some
    <3> DEFINE m == n + 1
    <3>1. m \in Nat /\ m # 0 /\ m - 1 = n
      OBVIOUS
    <3> HIDE DEF m
    <3>2. from[<<p, m>>] = PartsStep(t, from, p, m)
      BY <1>1, <3>1
    <3>3. PartsStep(t, from, p, m) = IF r.kind # "part" THEN none ELSE some
      BY <3>1 DEF PartsStep
    <3> QED BY <3>2, <3>3 DEF m
  <2> HIDE DEF z
  <2>3. from[z].items = <<>> \/ from[z].items = <<r.item>> \o rest.items
    <3>1. some.items = <<r.item>> \o rest.items /\ none.items = <<>>
      OBVIOUS
    <3> HIDE DEF some, none
    <3>2. from[z] = none \/ from[z] = some
      BY <2>2, Zenon
    <3> QED BY <3>1, <3>2
  <2> HIDE DEF some, none
  <2>4. r.next \in Nat
    BY StatPartNat
  <2> HIDE DEF r
  <2>5. PICK k \in 0..n : Counts(rest.items, k)
    BY <1>10, <2>4
  <2> HIDE DEF rest
  <2>6. Counts(<<r.item>> \o rest.items, k + 1) /\ k + 1 \in 0..n+1 /\ 0 \in 0..n+1
    BY <2>5, CountsCons
  <2>7. \E j \in 0..n+1 : Counts(from[z].items, j)
    BY <1>8, <2>3, <2>6
  <2> QED BY <2>7 DEF z
<1>11. max \in T
  <2> HIDE DEF T
  <2> QED BY <1>9, <1>10, SkipRec!SetInduction
<1> QED BY <1>1, <1>11
----------------------------------------------------------------------------
(* Adding the keys is a fold that Lemmas speaks of.                        *)
LEMMA AddIs ==
  ASSUME NEW c, NEW texts, NEW first, NEW seq
  PROVE  FoldLeft(LAMBDA stats, i : AddKey(c, texts, stats, i), first, seq) =
         AddRec!Fold(<<c, texts>>, first, seq)
BY DEF AddOp, FoldLeft, MapThenFoldSet, Max, AddRec!Fold, AddRec!FoldLeft,
       AddRec!MapThenFoldSet, AddRec!Max

(* So is adding the whole keys to a stat that is opened.                   *)
LEMMA WholeIs ==
  ASSUME NEW c, NEW texts, NEW first, NEW seq
  PROVE  FoldLeft(LAMBDA stat, p : AddWhole(c, texts, stat, p), first, seq) =
         WholeRec!Fold(<<c, texts>>, first, seq)
BY DEF WholeOp, FoldLeft, MapThenFoldSet, Max, WholeRec!Fold, WholeRec!FoldLeft,
       WholeRec!MapThenFoldSet, WholeRec!Max

(* What the first of them repeats                                          *)
LEMMA AddRepeats == AddRec!RepeatsOp
BY DEF AddRec!RepeatsOp, AddDef, Max, AddRec!Max

(* What the other one repeats                                              *)
LEMMA WholeRepeats == WholeRec!RepeatsOp
BY DEF WholeRec!RepeatsOp, WholeDef, Max, WholeRec!Max

(* The sequence of the first numbers and one more                          *)
LEMMA Numbers ==
  ASSUME NEW n \in Nat
  PROVE  /\ DOMAIN [i \in 1..0 |-> i] = {}
         /\ DOMAIN [i \in 1..n |-> i] = 1..n /\ DOMAIN [i \in 1..n+1 |-> i] = 1..n+1
         /\ \A j \in 1..n : [i \in 1..n |-> i][j] = [i \in 1..n+1 |-> i][j]
         /\ [i \in 1..n+1 |-> i][n+1] = n + 1
OBVIOUS

(* A stat that is opened, with the whole ones of the first n keys          *)
WholeUpto(c, texts, base, n) == WholeRec!Fold(<<c, texts>>, base, [i \in 1..n |-> i])

(* Its whole keys come one by one.                                         *)
LEMMA WholeSteps ==
  ASSUME NEW c, NEW texts, NEW base, NEW n \in Nat
  PROVE  /\ WholeUpto(c, texts, base, 0) = base
         /\ WholeUpto(c, texts, base, n + 1) = AddWhole(c, texts, WholeUpto(c, texts, base, n), n + 1)
<1> DEFINE a == <<c, texts>>
           seq(m) == [i \in 1..m |-> i]
<1>1. WholeUpto(c, texts, base, 0) = base
  <2>1. DOMAIN seq(0) = {}
    BY Numbers
  <2>2. WholeRec!Fold(a, base, seq(0)) = base
    BY <2>1, WholeRepeats, WholeRec!FoldNone
  <2> QED BY <2>2 DEF WholeUpto
<1>2. /\ DOMAIN seq(n) = 1..n /\ DOMAIN seq(n+1) = 1..n+1
      /\ \A i \in 1..n : seq(n)[i] = seq(n+1)[i]
      /\ seq(n+1)[n+1] = n + 1
  BY Numbers
<1> HIDE DEF seq
<1>3. WholeRec!Fold(a, base, seq(n+1)) = WholeOp(a, WholeRec!Fold(a, base, seq(n)), seq(n+1)[n+1])
  BY <1>2, WholeRepeats, WholeRec!FoldOneMore
<1> DEFINE u == WholeRec!Fold(a, base, seq(n+1))
           v == WholeRec!Fold(a, base, seq(n))
           k == n + 1
<1>4. u = WholeOp(a, v, k)
  BY <1>2, <1>3
<1>5. u = WholeUpto(c, texts, base, n + 1) /\ v = WholeUpto(c, texts, base, n)
  BY DEF WholeUpto, seq
<1> HIDE DEF u, v, k
<1>6. WholeOp(a, v, k) = AddWhole(c, texts, v, k)
  BY DEF WholeOp
<1>7. u = AddWhole(c, texts, v, k)
  BY <1>4, <1>6
<1> QED BY <1>1, <1>5, <1>7 DEF k

(* The stats with the first n keys                                         *)
AddUpto(c, texts, first, n) == AddRec!Fold(<<c, texts>>, first, [i \in 1..n |-> i])

(* The keys come one by one.                                               *)
LEMMA AddSteps ==
  ASSUME NEW c, NEW texts, NEW first, NEW n \in Nat
  PROVE  /\ AddUpto(c, texts, first, 0) = first
         /\ AddUpto(c, texts, first, n + 1) = AddKey(c, texts, AddUpto(c, texts, first, n), n + 1)
<1> DEFINE a == <<c, texts>>
           seq(m) == [i \in 1..m |-> i]
<1>1. AddUpto(c, texts, first, 0) = first
  <2>1. DOMAIN seq(0) = {}
    BY Numbers
  <2>2. AddRec!Fold(a, first, seq(0)) = first
    BY <2>1, AddRepeats, AddRec!FoldNone
  <2> QED BY <2>2 DEF AddUpto
<1>2. /\ DOMAIN seq(n) = 1..n /\ DOMAIN seq(n+1) = 1..n+1
      /\ \A i \in 1..n : seq(n)[i] = seq(n+1)[i]
      /\ seq(n+1)[n+1] = n + 1
  BY Numbers
<1> HIDE DEF seq
<1>3. AddRec!Fold(a, first, seq(n+1)) = AddOp(a, AddRec!Fold(a, first, seq(n)), seq(n+1)[n+1])
  BY <1>2, AddRepeats, AddRec!FoldOneMore
<1> DEFINE u == AddRec!Fold(a, first, seq(n+1))
           v == AddRec!Fold(a, first, seq(n))
           k == n + 1
<1>4. u = AddOp(a, v, k)
  BY <1>2, <1>3
<1>5. u = AddUpto(c, texts, first, n + 1) /\ v = AddUpto(c, texts, first, n)
  BY DEF AddUpto, seq
<1> HIDE DEF u, v, k
<1>6. AddOp(a, v, k) = AddKey(c, texts, v, k)
  BY DEF AddOp
<1>7. u = AddKey(c, texts, v, k)
  BY <1>4, <1>6
<1> QED BY <1>1, <1>5, <1>7 DEF k

(* The keys of a stat are among the first i, each once and in order.       *)
Ordered(keys, i) ==
  \E n \in Nat :
    /\ Counts(keys, n)
    /\ \A k \in 1..n : keys[k].key \in 1..i
    /\ \A a, b \in 1..n : a < b => keys[a].key < keys[b].key

(* A stat with a number and such keys                                      *)
StatOK(stat, i) ==
  /\ stat = [value |-> stat.value, keys |-> stat.keys]
  /\ Parses("value", stat.value)
  /\ Ordered(stat.keys, i)

(* Keys among the first i are among more than i.                           *)
LEMMA OrderedMore ==
  ASSUME NEW keys, NEW i \in Nat, NEW j \in Nat, i <= j, Ordered(keys, i)
  PROVE  Ordered(keys, j)
<1>1. \A x : x \in 1..i => x \in 1..j
  OBVIOUS
<1> QED BY <1>1 DEF Ordered

(* Key i is put behind keys before i.                                      *)
LEMMA OrderedAppend ==
  ASSUME NEW keys, NEW i \in Nat \ {0}, NEW x, Ordered(keys, i - 1), x.key = i
  PROVE  Ordered(Append(keys, x), i)
<1>1. PICK n \in Nat : /\ Counts(keys, n)
                       /\ \A k \in 1..n : keys[k].key \in 1..i-1
                       /\ \A a, b \in 1..n : a < b => keys[a].key < keys[b].key
  BY DEF Ordered
<1> DEFINE t == Append(keys, x)
<1>2. Counts(t, n + 1) /\ (\A k \in 1..n : t[k] = keys[k]) /\ t[n+1] = x
  <2>1. Counts(keys, n)
    BY <1>1
  <2>2. Longer(t, keys, n, x)
    BY <2>1, CountsAppend
  <2> HIDE DEF t
  <2> QED BY <2>2 DEF Longer
<1> HIDE DEF t
<1>3. \A k \in 1..n+1 : k \in 1..n \/ k = n + 1
  OBVIOUS
<1>4. \A k \in 1..n+1 : t[k].key \in 1..i
  BY <1>1, <1>2, <1>3
<1>5. ASSUME NEW a \in 1..n+1, NEW b \in 1..n+1, a < b PROVE t[a].key < t[b].key
  <2>1. a \in 1..n /\ t[a].key = keys[a].key /\ keys[a].key \in 1..i-1
    BY <1>1, <1>2, <1>5
  <2>2. CASE b = n + 1
    BY <1>2, <2>1, <2>2
  <2>3. CASE b \in 1..n
    BY <1>1, <1>2, <1>5, <2>1, <2>3
  <2> QED BY <1>3, <2>2, <2>3
<1>6. n + 1 \in Nat
  OBVIOUS
<1> QED BY <1>2, <1>4, <1>5, <1>6 DEF t, Ordered

(* ngx_statshouse_stat_key() adds key i to a stat that has keys before it. *)
LEMMA WithKeyOK ==
  ASSUME NEW stat, NEW i \in Nat \ {0}, NEW val, StatOK(stat, i - 1)
  PROVE  StatOK(WithKey(stat, i, val), i)
<1> DEFINE x == [key |-> i, val |-> val]
           u == WithKey(stat, i, val)
<1>1. u.value = stat.value /\ u.keys = Append(stat.keys, x) /\ u = [value |-> u.value, keys |-> u.keys]
  <2> DEFINE a == stat.value
             b == stat.keys
             c == Append(b, x)
  <2>1. stat = [value |-> a, keys |-> b]
    BY DEF StatOK
  <2>2. u = [stat EXCEPT !.keys = c]
    BY DEF WithKey
  <2> HIDE DEF a, b, c, x, u
  <2>3. u = [value |-> a, keys |-> c]
    BY <2>1, <2>2
  <2>4. stat.value = a /\ stat.keys = b /\ u.value = a /\ u.keys = c
    BY <2>1, <2>3
  <2> QED BY <2>3, <2>4 DEF c
<1>2. x.key = i
  OBVIOUS
<1> HIDE DEF x, u
<1>3. Ordered(u.keys, i)
  BY <1>1, <1>2, OrderedAppend DEF StatOK
<1> QED BY <1>1, <1>3 DEF StatOK, u

(* A stat with keys among the first i has keys among more.                 *)
LEMMA StatMore ==
  ASSUME NEW stat, NEW i \in Nat, NEW j \in Nat, i <= j, StatOK(stat, i)
  PROVE  StatOK(stat, j)
BY OrderedMore DEF StatOK

(* ngx_statshouse_stat_init() and a value, or zero if the part has no text *)
LEMMA NewStatOK ==
  ASSUME NEW v, v = <<>> \/ Parses("value", v)
  PROVE  StatOK(NewStat(v), 0)
<1>1. Parses("value", Zero)
  <2>1. AllDigits(Zero)
    BY DEF AllDigits, Zero
  <2>2. Zero[1] # "-"
    BY DEF Zero
  <2> QED BY <2>1, <2>2 DEF Parses
<1>2. Counts(<<>>, 0) /\ 0 \in Nat /\ \A k : k \notin 1..0
  BY DEF Counts
<1>3. Ordered(<<>>, 0)
  BY <1>2 DEF Ordered
<1> DEFINE u == NewStat(v)
<1>4. Parses("value", u.value) /\ u.keys = <<>> /\ u = [value |-> u.value, keys |-> u.keys]
  BY <1>1 DEF NewStat
<1> HIDE DEF u
<1> QED BY <1>3, <1>4 DEF u, StatOK
----------------------------------------------------------------------------
(* The stats so far: as many as fit, the keys up to i of each in order.    *)
Built(stats, i) ==
  \E n \in 1..SplitsMax : Counts(stats, n) /\ \A j \in 1..n : StatOK(stats[j], i)

(* A stat that key i opens has keys before i.                              *)
LEMMA OpenedOK ==
  ASSUME NEW c, NEW texts, NEW stats, NEW i \in Nat \ {0}, Built(stats, i - 1)
  PROVE  StatOK(Opened(c, texts, stats, i), i - 1)
<1> DEFINE base == NewStat(IF c.split THEN Zero ELSE stats[1].value)
           fold(n) == WholeUpto(c, texts, base, n)
           T == {n \in Nat : StatOK(fold(n), n)}
<1>1. StatOK(base, 0)
  <2>1. Parses("value", Zero)
    BY DEF Parses, AllDigits, Zero
  <2>2. Parses("value", stats[1].value)
    <3>1. PICK n \in 1..SplitsMax : \A j \in 1..n : StatOK(stats[j], i - 1)
      BY DEF Built
    <3>2. 1 \in 1..n
      BY CompileAssumption
    <3> QED BY <3>1, <3>2 DEF StatOK
  <2> DEFINE v == IF c.split THEN Zero ELSE stats[1].value
  <2>3. v = Zero \/ v = stats[1].value
    BY Zenon
  <2> HIDE DEF v
  <2>4. StatOK(NewStat(v), 0)
    BY <2>1, <2>2, <2>3, NewStatOK
  <2> QED BY <2>4 DEF v
<1> HIDE DEF base
<1>2. 0 \in T
  <2>1. 0 \in Nat
    OBVIOUS
  <2>2. fold(0) = base
    BY <2>1, WholeSteps
  <2> HIDE DEF fold
  <2> QED BY <1>1, <2>2
<1>3. ASSUME NEW n \in Nat, n \in T PROVE n + 1 \in T
  <2>2. fold(n+1) = AddWhole(c, texts, fold(n), n + 1)
    BY WholeSteps
  <2> HIDE DEF fold
  <2> DEFINE stat == fold(n)
             k == n + 1
  <2>3. k \in Nat \ {0} /\ n <= k /\ k - 1 = n /\ StatOK(stat, n)
    BY <1>3
  <2>4. fold(k) = AddWhole(c, texts, stat, k)
    BY <2>2
  <2> HIDE DEF stat, k
  <2>5. StatOK(stat, k) /\ StatOK(WithKey(stat, k, texts[k].str), k)
    BY <2>3, WithKeyOK, StatMore
  <2>6. StatOK(fold(k), k)
    BY <2>4, <2>5 DEF AddWhole
  <2> QED BY <2>3, <2>6 DEF k
<1>4. \A n \in Nat : n \in T
  <2> HIDE DEF T
  <2> QED BY <1>2, <1>3, SkipRec!SetInduction
<1>5. Opened(c, texts, stats, i) = fold(i - 1)
  BY WholeIs DEF Opened, WholeUpto, base
<1>6. i - 1 \in Nat
  OBVIOUS
<1> HIDE DEF fold
<1> QED BY <1>4, <1>5, <1>6

(* Adding a key keeps what was built.                                      *)
LEMMA AddKeyOK ==
  ASSUME NEW c, NEW texts, NEW stats, NEW i \in Nat \ {0}, IsEmpty(texts[i].str) \/ texts[i] \in Texts,
         Built(stats, i - 1)
  PROVE  Built(AddKey(c, texts, stats, i), i)
<1>1. PICK n \in 1..SplitsMax : Counts(stats, n) /\ \A j \in 1..n : StatOK(stats[j], i - 1)
  BY DEF Built
<1>2. SplitsMax \in Nat /\ i - 1 \in Nat /\ i - 1 <= i /\ i \in Nat
  BY CompileAssumption
<1>3. CASE IsEmpty(texts[i].str)
  <2>1. \A j \in 1..n : StatOK(stats[j], i)
    BY <1>1, <1>2, StatMore
  <2>2. AddKey(c, texts, stats, i) = stats
    BY <1>3 DEF AddKey
  <2> QED BY <1>1, <2>1, <2>2 DEF Built
<1>4. CASE ~IsEmpty(texts[i].str) /\ ~c.keys[i].split
  <2> DEFINE u == [j \in 1..n |-> WithKey(stats[j], i, texts[i].str)]
  <2>1. AddKey(c, texts, stats, i) = u
    <3>1. DOMAIN stats = 1..n
      BY <1>1, CountsLen
    <3> QED BY <1>4, <3>1 DEF AddKey
  <2>2. \A j \in 1..n : StatOK(u[j], i)
    BY <1>1, WithKeyOK
  <2>3. Counts(u, n)
    BY <1>1 DEF Counts
  <2> HIDE DEF u
  <2> QED BY <2>1, <2>2, <2>3 DEF Built
<1>5. CASE ~IsEmpty(texts[i].str) /\ c.keys[i].split
  <2> DEFINE parts == KeyParts(texts[i]).items
             stat(j) == IF j \in DOMAIN stats THEN stats[j] ELSE Opened(c, texts, stats, i)
             w(j) == IF j \in DOMAIN parts THEN WithKey(stat(j), i, parts[j]) ELSE stats[j]
             u == [j \in DOMAIN stats \cup DOMAIN parts |-> w(j)]
  <2>1. AddKey(c, texts, stats, i) = u
    BY <1>5 DEF AddKey
  <2>2. PICK m \in 0..SplitsMax : Counts(parts, m)
    BY <1>2, <1>5, PartsFit DEF KeyParts
  <2>3. DOMAIN parts = 1..m /\ DOMAIN stats = 1..n
    BY <1>1, <2>2, CountsLen
  <2> DEFINE k == IF n < m THEN m ELSE n
  <2>4. k \in 1..SplitsMax /\ 1..n \cup 1..m = 1..k /\ \A j \in 1..k : j \in 1..n \/ j \in 1..m
    BY <1>2
  <2> HIDE DEF parts, k
  <2>5. ASSUME NEW j \in 1..k PROVE StatOK(w(j), i)
    <3>1. CASE j \in 1..m
      <4>1. StatOK(stat(j), i - 1)
        BY <1>1, <2>3, OpenedOK
      <4>2. w(j) = WithKey(stat(j), i, parts[j])
        BY <2>3, <3>1
      <4> HIDE DEF stat, w
      <4> QED BY <4>1, <4>2, WithKeyOK
    <3>2. CASE ~(j \in 1..m)
      <4>1. w(j) = stats[j] /\ j \in 1..n
        BY <2>3, <2>4, <3>2
      <4> HIDE DEF w
      <4> QED BY <1>1, <1>2, <4>1, StatMore
    <3> QED BY <3>1, <3>2
  <2> HIDE DEF w
  <2>6. u = [j \in 1..k |-> w(j)]
    BY <2>3, <2>4
  <2>7. Counts(u, k) /\ \A j \in 1..k : u[j] = w(j)
    <3>1. k \in Nat
      BY <1>2, <2>4
    <3> QED BY <2>6, <3>1 DEF Counts
  <2> HIDE DEF u
  <2>8. \A j \in 1..k : StatOK(u[j], i)
    BY <2>5, <2>7
  <2> QED BY <2>1, <2>4, <2>7, <2>8 DEF Built
<1> QED BY <1>3, <1>4, <1>5

(* A text that parses as a number of some kind parses as a value.          *)
LEMMA ParsesValue ==
  ASSUME NEW type, NEW s, Parses(type, s)
  PROVE  Parses("value", s)
<1>1. CASE type = "value"
  BY <1>1
<1>2. CASE type # "value"
  <2>1. AllDigits(s)
    BY <1>2 DEF Parses
  <2>2. ~(s # <<>> /\ s[1] = "-")
    <3>1. SUFFICES ASSUME s # <<>>, s[1] = "-", 1 \in DOMAIN s PROVE FALSE
      BY <2>1 DEF AllDigits
    <3> QED BY <2>1, <3>1 DEF AllDigits
  <2> QED BY <2>1, <2>2 DEF Parses
<1> QED BY <1>1, <1>2

(* What a call returns                                                     *)
ResultOK(c, res) ==
  /\ res = [rc |-> res.rc, stats |-> res.stats]
  /\ res.rc \in {"none", "ok", "declined", "error", "fault"}
  /\ res.rc = "ok" => Built(res.stats, Len(c.keys))
  /\ res.rc # "ok" => res.stats = <<>>

(* A call that returns no stats                                            *)
LEMMA AnswerOK ==
  ASSUME NEW c, NEW rc \in {"none", "declined", "error", "fault"}
  PROVE  ResultOK(c, Answer(rc)) /\ Answer(rc).rc = rc
BY DEF ResultOK, Answer

(* The stats before the keys                                               *)
LEMMA FirstOK ==
  ASSUME NEW c \in Confs, NEW r \in Requests,
         \A j \in DOMAIN Values(c, r).items :
            Values(c, r).items[j] # <<>> => Parses(c.type, Values(c, r).items[j]),
         Values(c, r).items # <<>>
  PROVE  Built([j \in DOMAIN Values(c, r).items |-> NewStat(Values(c, r).items[j])], 0)
<1> DEFINE items == Values(c, r).items
           first == [j \in DOMAIN items |-> NewStat(items[j])]
<1>1. SplitsMax \in Nat \ {0} /\ r.value \in Texts
  BY CompileAssumption
<1>2. PICK n \in 0..SplitsMax : Counts(items, n)
  <2>1. CASE c.split
    <3>1. items = Parts(r.value, SplitsMax).items
      BY <2>1 DEF Values
    <3> QED BY <1>1, <3>1, PartsFit
  <2>2. CASE ~c.split
    <3>1. items = <<>> \/ items = <<r.value.str>>
      BY <2>2 DEF Values
    <3>2. Counts(<<>>, 0) /\ Counts(<<r.value.str>>, 1) /\ 0 \in 0..SplitsMax /\ 1 \in 0..SplitsMax
      BY <1>1 DEF Counts
    <3> QED BY <3>1, <3>2
  <2> QED BY <2>1, <2>2
<1>3. \A j \in DOMAIN items : items[j] # <<>> => Parses("value", items[j])
  BY ParsesValue
<1>4. items # <<>>
  OBVIOUS
<1> HIDE DEF items
<1>5. DOMAIN items = 1..n /\ n # 0
  <2>1. n # 0
    BY <1>2, <1>4 DEF Counts
  <2> QED BY <1>2, <2>1, CountsLen
<1>6. \A j \in 1..n : StatOK(first[j], 0)
  <2>1. SUFFICES ASSUME NEW j \in 1..n PROVE StatOK(NewStat(items[j]), 0)
    BY <1>5
  <2> QED BY <1>3, <1>5, NewStatOK
<1>7. Counts(first, n) /\ n \in 1..SplitsMax
  BY <1>1, <1>2, <1>5 DEF Counts
<1> HIDE DEF first
<1>8. Built(first, 0)
  BY <1>6, <1>7 DEF Built
<1> QED BY <1>8 DEF first, items

(* ngx_statshouse_stat_compile() returns stats that fit, or none.          *)
LEMMA CompiledOK ==
  ASSUME NEW c \in Confs, NEW r \in Requests, Len(r.keys) = Len(c.keys)
  PROVE  ResultOK(c, Compiled(c, r)) /\ Compiled(c, r).rc # "none"
<1> DEFINE values == Values(c, r)
           texts == KeyTexts(c, r)
           first == [j \in DOMAIN values.items |-> NewStat(values.items[j])]
           l == Len(c.keys)
           fold(n) == AddUpto(c, texts, first, n)
           T == {n \in Nat : n <= l => Built(fold(n), n)}
           bad == \E j \in DOMAIN values.items :
                    values.items[j] # <<>> /\ ~Parses(c.type, values.items[j])
           ok == [rc |-> "ok", stats |-> fold(l)]
<1>1. /\ l \in Nat /\ DOMAIN c.keys = 1..l /\ DOMAIN r.keys = 1..l
      /\ \A i \in 1..l : r.keys[i] \in Texts
      /\ r.condition \in {"ok", "declined", "error"}
  BY CompileAssumption
<1>2. \A i \in 1..l : IsEmpty(texts[i].str) \/ texts[i] \in Texts
  <2>1. IsEmpty(Empty.str)
    BY DEF Empty, Text, IsEmpty
  <2> QED BY <1>1, <2>1 DEF KeyTexts
<1>3. ASSUME ~bad, values.items # <<>> PROVE Built(fold(l), l)
  <2>1. Built(first, 0)
    BY <1>3, FirstOK
  <2> HIDE DEF first, values, texts
  <2>2. 0 \in T
    <3>1. 0 \in Nat
      OBVIOUS
    <3>2. fold(0) = first
      BY <3>1, AddSteps
    <3> HIDE DEF fold
    <3> QED BY <2>1, <3>2
  <2>3. ASSUME NEW n \in Nat, n \in T, n + 1 <= l PROVE Built(fold(n+1), n + 1)
    <3>2. fold(n+1) = AddKey(c, texts, fold(n), n + 1)
      BY AddSteps
    <3> HIDE DEF fold
    <3> DEFINE stats == fold(n)
               k == n + 1
    <3>3. k \in Nat \ {0} /\ k - 1 = n /\ k \in 1..l /\ Built(stats, n)
      BY <1>1, <2>3
    <3>4. fold(k) = AddKey(c, texts, stats, k)
      BY <3>2
    <3> HIDE DEF stats, k
    <3>5. Built(AddKey(c, texts, stats, k), k)
      BY <1>2, <3>3, AddKeyOK
    <3> QED BY <3>4, <3>5 DEF k
  <2>4. \A n \in Nat : n \in T
    <3>1. ASSUME NEW n \in Nat, n \in T PROVE n + 1 \in T
      <4>1. n + 1 \in Nat
        OBVIOUS
      <4> HIDE DEF fold
      <4> QED BY <2>3, <3>1, <4>1
    <3> HIDE DEF T
    <3> QED BY <2>2, <3>1, SkipRec!SetInduction
  <2> HIDE DEF fold
  <2> QED BY <1>1, <2>4
<1>4. \/ Compiled(c, r) \in {Answer("declined"), Answer("error"), Answer("fault")}
      \/ Compiled(c, r) = ok /\ ~bad /\ values.items # <<>>
  <2>1. FoldLeft(LAMBDA stats, i : AddKey(c, texts, stats, i), first, [i \in DOMAIN c.keys |-> i])
          = fold(l)
    BY <1>1, AddIs DEF AddUpto
  <2> DEFINE sum == FoldLeft(LAMBDA stats, i : AddKey(c, texts, stats, i), first, [i \in DOMAIN c.keys |-> i])
  <2>2. Compiled(c, r) =
          IF r.condition # "ok" THEN Answer(r.condition)
          ELSE IF r.fails THEN Answer("error")
          ELSE IF bad THEN Answer("error")
          ELSE IF values.fault THEN Answer("fault")
          ELSE IF values.items = <<>> THEN Answer("declined")
          ELSE IF KeyFaults(c, texts) THEN Answer("fault")
          ELSE [rc |-> "ok", stats |-> sum]
    BY DEF Compiled
  <2> HIDE DEF sum, fold, values, texts, bad
  <2>3. [rc |-> "ok", stats |-> sum] = ok
    BY <2>1 DEF sum
  <2> HIDE DEF ok
  <2> QED BY <1>1, <2>2, <2>3
<1>5. ASSUME ~bad, values.items # <<>> PROVE ResultOK(c, ok) /\ ok.rc = "ok"
  <2>1. Built(fold(l), l)
    BY <1>3, <1>5
  <2> HIDE DEF fold
  <2> QED BY <2>1 DEF ResultOK
<1> HIDE DEF ok, bad, values
<1> QED BY <1>4, <1>5, AnswerOK
----------------------------------------------------------------------------
(* Stats of a metric with a timeout were made when it last began, or       *)
(* before; without one the clock is not looked at.                         *)
PaceInv ==
  /\ conf.timeout = 0 => now = 1 /\ made <= 1
  /\ conf.timeout # 0 /\ made # 0 => last # 0 /\ made <= last

Inv ==
  /\ conf \in Confs
  /\ now \in 1..MaxTime /\ last \in 0..MaxTime /\ made \in 0..MaxTime
  /\ request # NoRequest <=> result # NoResult
  /\ ResultOK(conf, result)
  /\ PaceInv

(* Before the first request                                                *)
LEMMA InitInv == Init => Inv
<1> SUFFICES ASSUME Init PROVE Inv
  OBVIOUS
<1>1. 1 \in 1..MaxTime /\ 0 \in 0..MaxTime
  BY CompileAssumption
<1>2. ResultOK(conf, result)
  BY AnswerOK DEF Init, NoResult
<1> QED BY <1>1, <1>2 DEF Init, Inv, PaceInv

(* What every call begins with                                             *)
LEMMA BeginFacts ==
  ASSUME NEW r \in Requests, Begin(r)
  PROVE  request' = r /\ r # NoRequest /\ Len(r.keys) = Len(conf.keys)
<1>1. "keys" \in DOMAIN r
  BY CompileAssumption
<1>2. "keys" \notin DOMAIN NoRequest
  BY DEF NoRequest
<1> QED BY <1>1, <1>2 DEF Begin

(* Inv is inductive.                                                       *)
LEMMA NextInv == Inv /\ [Next]_vars => Inv'
<1> SUFFICES ASSUME Inv, [Next]_vars PROVE Inv'
  OBVIOUS
<1>0. NoResult.rc = "none" /\ MaxTime \in Nat
  BY CompileAssumption DEF NoResult, Answer
<1>1. ASSUME NEW r \in Requests, Decline(r) PROVE Inv'
  <2>1. request' # NoRequest
    BY <1>1, BeginFacts DEF Decline
  <2>2. ResultOK(conf', result') /\ result'.rc = "declined" /\ result' # NoResult
    BY <1>0, <1>1, AnswerOK DEF Decline
  <2> QED BY <1>1, <2>1, <2>2 DEF Decline, Inv, PaceInv
<1>2. ASSUME NEW r \in Requests, Compile(r) PROVE Inv'
  <2>1. request' # NoRequest /\ Len(r.keys) = Len(conf.keys) /\ conf \in Confs
    BY <1>2, BeginFacts DEF Compile, Inv
  <2>2. ResultOK(conf, Compiled(conf, r)) /\ Compiled(conf, r).rc # "none"
    BY <2>1, CompiledOK
  <2>3. ResultOK(conf, result)' /\ result' # NoResult
    BY <1>0, <1>2, <2>2 DEF Compile
  <2>4. last' \in {last, now} /\ made' \in {made, now} /\ now' = now /\ conf' = conf
        /\ (conf.timeout # 0 => last' = now)
    BY <1>2 DEF Compile
  <2>5. PaceInv'
    <3>0. ASSUME conf.timeout = 0 PROVE now = 1 /\ made' <= 1
      BY <2>4, <3>0 DEF Inv, PaceInv
    <3>1. SUFFICES ASSUME conf.timeout # 0, made' # 0 PROVE last' # 0 /\ made' <= last'
      BY <2>4, <3>0 DEF PaceInv
    <3>2. last' = now /\ now \in Nat /\ now # 0
      BY <1>0, <2>4, <3>1 DEF Inv
    <3>3. CASE made' = now
      BY <3>2, <3>3
    <3>4. CASE made' = made /\ made # 0
      <4>1. last # 0 /\ made <= last /\ last \in Nat /\ made \in Nat
        BY <3>1, <3>4 DEF Inv, PaceInv
      <4>2. conf \in Confs /\ conf.timeout \in Nat
        BY CompileAssumption DEF Inv
      <4>3. last + conf.timeout <= now
        BY <1>2, <3>1, <3>2, <4>1, <4>2 DEF Compile, TooSoon
      <4> QED BY <3>2, <3>4, <4>1, <4>2, <4>3
    <3> QED BY <2>4, <3>1, <3>3, <3>4
  <2> QED BY <2>1, <2>3, <2>4, <2>5 DEF Inv
<1>3. CASE Finish
  <2>1. ResultOK(conf', result')
    BY <1>3, AnswerOK DEF Finish, NoResult
  <2> QED BY <1>3, <2>1 DEF Finish, Inv, PaceInv
<1>4. CASE Clock
  BY <1>4 DEF Clock, Inv, PaceInv
<1>5. CASE UNCHANGED vars
  BY <1>5 DEF vars, Inv, PaceInv
<1> QED BY <1>1, <1>2, <1>3, <1>4, <1>5 DEF Next

(* Inv holds in every state.                                               *)
LEMMA Invariant == Spec => []Inv
BY InitInv, NextInv, PTL DEF Spec

(* Every variable keeps its type: each stat of the result has a number,    *)
(* and its keys are keys of the metric, for all metrics and requests.      *)
THEOREM TypeCorrect == Spec => []TypeOK
<1>1. ASSUME Inv PROVE TypeOK
  <2>1. Len(conf.keys) \in Nat /\ DOMAIN conf.keys = 1..Len(conf.keys)
    BY <1>1, CompileAssumption DEF Inv
  <2>2. CASE result.rc = "ok"
    <3>1. PICK n \in 1..SplitsMax : /\ Counts(result.stats, n)
                                    /\ \A j \in 1..n : StatOK(result.stats[j], Len(conf.keys))
      BY <1>1, <2>2 DEF Inv, ResultOK, Built
    <3>2. Len(result.stats) = n /\ DOMAIN result.stats = 1..n
      BY <3>1, CountsLen
    <3>3. ASSUME NEW j \in 1..n, NEW k \in DOMAIN result.stats[j].keys
          PROVE  result.stats[j].keys[k].key \in DOMAIN conf.keys
      <4>1. PICK m \in Nat : /\ Counts(result.stats[j].keys, m)
                             /\ \A a \in 1..m : result.stats[j].keys[a].key \in 1..Len(conf.keys)
        BY <3>1 DEF StatOK, Ordered
      <4>2. DOMAIN result.stats[j].keys = 1..m
        BY <4>1, CountsLen
      <4> QED BY <2>1, <3>3, <4>1, <4>2
    <3>4. \A j \in 1..n : Parses("value", result.stats[j].value)
      BY <3>1 DEF StatOK
    <3> QED BY <1>1, <3>2, <3>3, <3>4 DEF Inv, TypeOK, ResultOK
  <2>3. CASE result.rc # "ok"
    <3>1. result.stats = <<>>
      BY <1>1, <2>3 DEF Inv, ResultOK
    <3>2. DOMAIN result.stats = {} /\ 1..Len(result.stats) = {}
      BY <3>1
    <3> QED BY <1>1, <3>2 DEF Inv, TypeOK, ResultOK
  <2> QED BY <2>2, <2>3
<1> QED BY <1>1, Invariant, PTL

(* The stats fit into server->splits, however many parts the value and the *)
(* keys have, and no stat has a key twice, so its keys fit as well.        *)
THEOREM StatsFit == Spec => []WithinSplits
<1>1. ASSUME Inv PROVE WithinSplits
  <2>1. SplitsMax \in Nat
    BY CompileAssumption
  <2>2. CASE result.rc = "ok"
    <3>1. PICK n \in 1..SplitsMax : /\ Counts(result.stats, n)
                                    /\ \A j \in 1..n : StatOK(result.stats[j], Len(conf.keys))
      BY <1>1, <2>2 DEF Inv, ResultOK, Built
    <3>2. Len(result.stats) = n /\ DOMAIN result.stats = 1..n
      BY <3>1, CountsLen
    <3>3. result.stats # <<>> /\ n <= SplitsMax
      BY <2>1, <3>2
    <3>4. ASSUME NEW j \in 1..n, NEW a \in DOMAIN result.stats[j].keys,
                 NEW b \in DOMAIN result.stats[j].keys, a < b
          PROVE  result.stats[j].keys[a].key < result.stats[j].keys[b].key
      <4>1. PICK m \in Nat :
              /\ Counts(result.stats[j].keys, m)
              /\ \A x, y \in 1..m : x < y => result.stats[j].keys[x].key < result.stats[j].keys[y].key
        BY <3>1 DEF StatOK, Ordered
      <4>2. DOMAIN result.stats[j].keys = 1..m
        BY <4>1, CountsLen
      <4> QED BY <3>4, <4>1, <4>2
    <3> QED BY <3>2, <3>3, <3>4 DEF WithinSplits
  <2>3. CASE result.rc # "ok"
    <3>1. result.stats = <<>>
      BY <1>1, <2>3 DEF Inv, ResultOK
    <3>2. DOMAIN result.stats = {} /\ Len(result.stats) = 0
      BY <3>1
    <3> QED BY <2>1, <2>3, <3>2 DEF WithinSplits
  <2> QED BY <2>2, <2>3
<1> QED BY <1>1, Invariant, PTL

(* Stats of a metric with a timeout are made at times that lie the timeout *)
(* apart, also when the clock is set back.                                 *)
THEOREM MetricIsPaced == Spec => Paced
<1>1. ASSUME Inv, [Next]_vars
      PROVE  [result'.rc = "ok" /\ result.rc = "none" /\ made # 0 => now - made >= conf.timeout]_vars
  <2>1. SUFFICES ASSUME result'.rc = "ok", result.rc = "none", made # 0 PROVE now - made >= conf.timeout
    OBVIOUS
  <2>2. \E r \in Requests : Compile(r)
    <3>1. NoResult.rc = "none"
      BY DEF NoResult, Answer
    <3>2. ASSUME NEW r \in Requests PROVE ~Decline(r)
      BY <2>1 DEF Decline, Answer
    <3>3. ~Finish /\ ~Clock /\ ~UNCHANGED vars
      BY <2>1, <3>1 DEF Finish, Clock, vars
    <3> QED BY <1>1, <3>2, <3>3 DEF Next
  <2>3. ~TooSoon
    BY <2>2 DEF Compile
  <2>4. now \in Nat /\ last \in Nat /\ made \in Nat /\ conf.timeout \in Nat /\ made <= MaxTime
    BY <1>1, CompileAssumption DEF Inv
  <2>5. CASE conf.timeout # 0
    BY <1>1, <2>1, <2>3, <2>4, <2>5 DEF Inv, PaceInv, TooSoon
  <2>6. CASE conf.timeout = 0
    BY <1>1, <2>1, <2>4, <2>6 DEF Inv, PaceInv
  <2> QED BY <2>5, <2>6
<1> QED BY <1>1, Invariant, PTL DEF Spec, Paced
----------------------------------------------------------------------------
(* A list is cut at its commas; Pieces counts the cuts before a cut.       *)
Rank(S, p) == Cardinality({d \in S : d < p})

Bounded(S, n) == S \in SUBSET Nat /\ \A d \in S : d <= n

(* Ranks go up by one at each number of the set.                           *)
LEMMA RankSteps ==
  ASSUME NEW n \in Nat, NEW S, Bounded(S, n)
  PROVE  /\ IsFiniteSet(S) /\ Rank(S, 0) = 0 /\ Rank(S, n + 1) = Cardinality(S)
         /\ \A p \in Nat : Rank(S, p) \in Nat /\ Rank(S, p + 1) = Rank(S, p) + (IF p \in S THEN 1 ELSE 0)
<1>1. IsFiniteSet(S) /\ \A d \in S : d \in Nat /\ d <= n
  BY FS_BoundedSetOfNaturals DEF Bounded
<1>2. {d \in S : d < 0} = {} /\ {d \in S : d < n + 1} = S
  BY <1>1
<1>3. ASSUME NEW p \in Nat
      PROVE  Rank(S, p) \in Nat /\ Rank(S, p + 1) = Rank(S, p) + (IF p \in S THEN 1 ELSE 0)
  <2> DEFINE A == {d \in S : d < p}
  <2>1. IsFiniteSet(A) /\ A \in SUBSET S
    BY <1>1, FS_Subset
  <2>2. Cardinality(A) \in Nat
    BY <2>1, FS_CardinalityType
  <2>3. CASE p \in S
    <3>0. \A d \in S : d < p + 1 <=> d < p \/ d = p
      BY <1>1
    <3>1. {d \in S : d < p + 1} = A \cup {p} /\ p \notin A
      <4>1. ~(p < p)
        OBVIOUS
      <4>2. \A d : d \in {x \in S : x < p + 1} <=> d \in A \/ d = p
        BY <2>3, <3>0
      <4> QED BY <4>1, <4>2
    <3> HIDE DEF A
    <3>2. Cardinality(A \cup {p}) = Cardinality(A) + 1
      BY <2>1, <3>1, FS_AddElement
    <3> QED BY <2>2, <2>3, <3>1, <3>2 DEF A, Rank
  <2>4. CASE p \notin S
    <3>0. \A d \in S : d < p + 1 <=> d < p
      BY <1>1, <2>4
    <3>1. {d \in S : d < p + 1} = A
      BY <3>0
    <3> HIDE DEF A
    <3> QED BY <2>2, <2>4, <3>1 DEF A, Rank
  <2> QED BY <2>3, <2>4
<1> QED BY <1>1, <1>2, <1>3, FS_EmptySet DEF Rank

(* Each number below the number of elements is a rank, and ranks go up.    *)
LEMMA Ranks ==
  ASSUME NEW n \in Nat, NEW S, Bounded(S, n)
  PROVE  /\ \A a \in S : \A p \in Nat : a < p => Rank(S, a) < Rank(S, p)
         /\ \A k \in Nat : k < Cardinality(S) => \E c \in S : Rank(S, c) = k
<1>1. \A d \in S : d \in Nat
  BY DEF Bounded
<1>2. ASSUME NEW a \in S PROVE \A p \in Nat : a < p => Rank(S, a) < Rank(S, p)
  <2> DEFINE T == {p \in Nat : a < p => Rank(S, a) < Rank(S, p)}
  <2>1. 0 \in T
    BY <1>1
  <2>2. ASSUME NEW p \in Nat, p \in T PROVE p + 1 \in T
    <3>1. a \in Nat /\ Rank(S, a) \in Nat /\ Rank(S, p) \in Nat
      BY <1>1, RankSteps
    <3>2. Rank(S, p + 1) = Rank(S, p) + (IF p \in S THEN 1 ELSE 0)
      BY RankSteps
    <3>3. CASE a < p
      BY <2>2, <3>1, <3>2, <3>3
    <3>4. CASE a = p
      BY <3>1, <3>2, <3>4
    <3> QED BY <3>1, <3>3, <3>4
  <2>3. \A p \in Nat : p \in T
    <3> HIDE DEF T
    <3> QED BY <2>1, <2>2, SkipRec!SetInduction
  <2> QED BY <2>3
<1> DEFINE T == {p \in Nat : \A k \in Nat : k < Rank(S, p) => \E c \in S : Rank(S, c) = k}
<1>3. 0 \in T
  BY RankSteps
<1>4. ASSUME NEW p \in Nat, p \in T PROVE p + 1 \in T
  <2>1. SUFFICES ASSUME NEW k \in Nat, k < Rank(S, p + 1) PROVE \E c \in S : Rank(S, c) = k
    OBVIOUS
  <2>2. Rank(S, p) \in Nat /\ Rank(S, p + 1) = Rank(S, p) + (IF p \in S THEN 1 ELSE 0)
    BY RankSteps
  <2>3. CASE k < Rank(S, p)
    BY <1>4, <2>3
  <2>4. CASE ~(k < Rank(S, p))
    <3>1. p \in S /\ Rank(S, p) = k
      BY <2>1, <2>2, <2>4
    <3> QED BY <3>1
  <2> QED BY <2>3, <2>4
<1>5. \A p \in Nat : p \in T
  <2> HIDE DEF T
  <2> QED BY <1>3, <1>4, SkipRec!SetInduction
<1>6. n + 1 \in T /\ Rank(S, n + 1) = Cardinality(S)
  BY <1>5, RankSteps
<1> QED BY <1>2, <1>6

Cuts(str) == {0, Len(str) + 1} \cup {i \in DOMAIN str : str[i] = ","}

(* The cuts of a list, from the position before it to that after it, with  *)
(* no comma between two of them                                            *)
Cutting(str, n, cut) ==
  /\ n \in Nat \ {0}
  /\ cut[0] = 0 /\ cut[n] = Len(str) + 1
  /\ \A k \in 0..n : cut[k] \in Cuts(str) /\ cut[k] \in Nat
  /\ \A k \in 0..n-1 : cut[k] < cut[k+1] /\ \A i \in Cuts(str) : ~(cut[k] < i /\ i < cut[k+1])

(* Pieces are what lies between the cuts.                                  *)
LEMMA PiecesAre ==
  ASSUME NEW str \in Seq(STRING)
  PROVE  \E n, cut : /\ Cutting(str, n, cut)
                     /\ Pieces(str) = [k \in 1..n |-> SubSeq(str, cut[k-1] + 1, cut[k] - 1)]
<1> DEFINE S == Cuts(str)
           l == Len(str)
           n == Cardinality(S) - 1
           cut == [k \in 0..n |-> CHOOSE c \in S : Rank(S, c) = k]
<1>1. l \in Nat /\ DOMAIN str = 1..l
  OBVIOUS
<1>2. Bounded(S, l + 1) /\ 0 \in S /\ l + 1 \in S /\ \A d \in S : d \in Nat
  <2>1. S = {0, l + 1} \cup {i \in 1..l : str[i] = ","}
    BY <1>1 DEF Cuts
  <2> HIDE DEF S, l
  <2>2. \A d \in S : d \in Nat /\ d <= l + 1
    <3>1. SUFFICES ASSUME NEW d \in S PROVE d \in Nat /\ d <= l + 1
      OBVIOUS
    <3>2. d = 0 \/ d = l + 1 \/ d \in 1..l
      BY <2>1
    <3> QED BY <1>1, <3>2
  <2> QED BY <2>1, <2>2 DEF Bounded
<1>3. Pieces(str) = [k \in 1..n |-> SubSeq(str, cut[k-1] + 1, cut[k] - 1)]
  BY DEF Pieces, Cuts, Rank
<1> HIDE DEF S, l
<1>4. l + 1 \in Nat
  BY <1>1
<1>5. /\ Rank(S, 0) = 0 /\ Rank(S, l + 1 + 1) = Cardinality(S)
      /\ \A p \in Nat : Rank(S, p) \in Nat /\ Rank(S, p + 1) = Rank(S, p) + (IF p \in S THEN 1 ELSE 0)
  BY <1>2, <1>4, RankSteps
<1>6. /\ \A a \in S : \A p \in Nat : a < p => Rank(S, a) < Rank(S, p)
      /\ \A k \in Nat : k < Cardinality(S) => \E c \in S : Rank(S, c) = k
  BY <1>2, <1>4, Ranks
<1>7. n = Rank(S, l + 1) /\ n \in Nat \ {0} /\ Cardinality(S) = n + 1
  <2>1. Rank(S, l + 1 + 1) = Rank(S, l + 1) + 1 /\ Rank(S, l + 1) \in Nat
    BY <1>2, <1>4, <1>5
  <2>2. Rank(S, 0) < Rank(S, l + 1)
    <3>1. 0 < l + 1
      BY <1>1
    <3> QED BY <1>2, <1>4, <1>6, <3>1
  <2>3. Rank(S, l + 1) # 0 /\ Cardinality(S) = Rank(S, l + 1) + 1
    BY <1>5, <2>1, <2>2
  <2> QED BY <2>1, <2>3
<1>8. \A a, b \in S : Rank(S, a) = Rank(S, b) => a = b
  <2>1. SUFFICES ASSUME NEW a \in S, NEW b \in S, Rank(S, a) = Rank(S, b), a # b PROVE FALSE
    OBVIOUS
  <2>2. a < b \/ b < a
    BY <1>2, <2>1
  <2>3. Rank(S, a) \in Nat /\ Rank(S, b) \in Nat
    BY <1>2, <1>5
  <2>4. Rank(S, a) < Rank(S, b) \/ Rank(S, b) < Rank(S, a)
    BY <1>2, <1>6, <2>2
  <2> QED BY <2>1, <2>3, <2>4
<1> HIDE DEF n
<1>9. ASSUME NEW k \in 0..n PROVE cut[k] \in S /\ Rank(S, cut[k]) = k
  <2>1. k \in Nat /\ k < Cardinality(S)
    BY <1>7
  <2>2. \E c \in S : Rank(S, c) = k
    BY <1>6, <2>1
  <2> QED BY <2>2
<1> HIDE DEF cut
<1>10. cut[0] = 0 /\ cut[n] = l + 1
  <2>1. 0 \in 0..n /\ n \in 0..n
    BY <1>7
  <2>2. cut[0] \in S /\ Rank(S, cut[0]) = Rank(S, 0) /\ cut[n] \in S /\ Rank(S, cut[n]) = Rank(S, l + 1)
    BY <1>5, <1>7, <1>9, <2>1
  <2> QED BY <1>2, <1>8, <2>2
<1>11. ASSUME NEW k \in 0..n-1
       PROVE  cut[k] < cut[k+1] /\ \A i \in S : ~(cut[k] < i /\ i < cut[k+1])
  <2> DEFINE a == cut[k]
             b == cut[k+1]
  <2>1. a \in S /\ b \in S /\ Rank(S, a) = k /\ Rank(S, b) = k + 1 /\ a \in Nat /\ b \in Nat /\ k \in Nat
    <3>1. k \in 0..n /\ k + 1 \in 0..n
      BY <1>7
    <3> QED BY <1>2, <1>9, <3>1
  <2> HIDE DEF a, b
  <2>2. a < b
    <3>1. ~(b < a)
      <4>1. b < a => Rank(S, b) < Rank(S, a)
        BY <1>6, <2>1
      <4> QED BY <2>1, <4>1
    <3>2. a # b
      BY <2>1
    <3> QED BY <2>1, <3>1, <3>2
  <2>3. ASSUME NEW i \in S, a < i, i < b PROVE FALSE
    <3>1. Rank(S, a) < Rank(S, i) /\ Rank(S, i) < Rank(S, b) /\ Rank(S, i) \in Nat
      BY <1>2, <1>5, <1>6, <2>1, <2>3
    <3> QED BY <2>1, <3>1
  <2> QED BY <2>2, <2>3 DEF a, b
<1>12. Cutting(str, n, cut)
  <2>1. \A k \in 0..n : cut[k] \in S /\ cut[k] \in Nat
    BY <1>2, <1>9
  <2> QED BY <1>7, <1>10, <1>11, <2>1 DEF Cutting, S, l
<1> QED BY <1>3, <1>12
----------------------------------------------------------------------------
(* A part of a sequence, by its places                                     *)
LEMMA SubSeqIs ==
  ASSUME NEW X, NEW s \in Seq(X), NEW m \in Nat \ {0}, NEW n \in Nat, m <= n + 1, n <= Len(s)
  PROVE  /\ SubSeq(s, m, n) = [i \in 1..n-m+1 |-> s[m+i-1]]
         /\ SubSeq(s, m, n) \in Seq(X) /\ Len(SubSeq(s, m, n)) = n - m + 1
OBVIOUS

(* The least of a set of positions                                         *)
LEMMA MinLeast ==
  ASSUME NEW S \in SUBSET Nat, NEW x \in S, \A y \in S : x <= y
  PROVE  Min(S) = x
<1>1. Min(S) \in S /\ \A y \in S : Min(S) <= y
  BY DEF Min
<1>2. Min(S) <= x /\ x <= Min(S) /\ Min(S) \in Nat /\ x \in Nat
  BY <1>1
<1> QED BY <1>2

(* Where the blanks after p end in a list without delimiters of groups     *)
SkippedTo(t, p, q) ==
  /\ q \in p..EndOf(t)
  /\ \A i \in p..q-1 : t.str[i] = " "
  /\ q < EndOf(t) => t.str[q] # " "

(* What comes first in a sequence that is made of two                      *)
LEMMA ConcatFirst ==
  ASSUME NEW X, NEW s \in Seq(X), NEW u \in Seq(X), NEW p \in 1..Len(s)
  PROVE  (s \o u)[p] = s[p]
OBVIOUS

(* A byte of a text, by its position                                       *)
LEMMA ByteIs ==
  ASSUME NEW t \in Texts
  PROVE  /\ EndOf(t) = Len(t.str) + 1 /\ Len(t.str) \in Nat
         /\ DOMAIN t.str = 1..Len(t.str)
         /\ \A p \in 1..Len(t.str) : Byte(t, p) = t.str[p]
<1>1. t.str \in Seq(STRING) /\ t.after \in Seq(STRING)
  BY DEF Texts
<1>2. \A p \in 1..Len(t.str) : Byte(t, p) = t.str[p]
  BY <1>1, ConcatFirst DEF Byte
<1> QED BY <1>1, <1>2 DEF EndOf

(* SkipBlank passes over the blanks and stops at what is none.             *)
LEMMA Skips ==
  ASSUME NEW t \in Texts, Clean(t), NEW p \in 1..EndOf(t)
  PROVE  SkippedTo(t, p, SkipBlank(t, p))
<1> DEFINE e == EndOf(t)
           T == {n \in Nat : \A x \in 1..e : e - x = n => SkippedTo(t, x, SkipBlank(t, x))}
<1>1. /\ e = Len(t.str) + 1 /\ Len(t.str) \in Nat /\ DOMAIN t.str = 1..Len(t.str)
      /\ \A x \in 1..Len(t.str) : Byte(t, x) = t.str[x]
  BY ByteIs
<1>2. \A x \in Nat : SkipBlank(t, x) =
        IF x >= e THEN x
        ELSE IF IsGroupDelimiter(t, x) THEN SkipBlank(t, x + 3)
        ELSE IF Byte(t, x) = " " THEN SkipBlank(t, x + 1)
        ELSE x
  BY SkipHolds
<1>3. \A x \in 1..e-1 : ~IsGroupDelimiter(t, x)
  BY <1>1 DEF Clean
<1> HIDE DEF e
<1>4. 0 \in T
  <2>1. SUFFICES ASSUME NEW x \in 1..e, e - x = 0 PROVE SkippedTo(t, x, SkipBlank(t, x))
    OBVIOUS
  <2>2. x = e /\ x \in Nat
    BY <1>1, <2>1
  <2>3. SkipBlank(t, x) = e
    <3>1. x >= e
      BY <1>1, <2>2
    <3> QED BY <1>2, <2>2, <3>1
  <2>4. e \in e..e /\ (\A i : i \notin e..e-1) /\ ~(e < e)
    BY <1>1
  <2> QED BY <2>2, <2>3, <2>4 DEF SkippedTo, e
<1>5. ASSUME NEW n \in Nat, n \in T PROVE n + 1 \in T
  <2>1. SUFFICES ASSUME NEW x \in 1..e, e - x = n + 1 PROVE SkippedTo(t, x, SkipBlank(t, x))
    OBVIOUS
  <2>2. x \in 1..e-1 /\ x \in Nat /\ x < e /\ x + 1 \in 1..e /\ e - (x + 1) = n
    BY <1>1, <2>1
  <2>3. SkipBlank(t, x) = IF t.str[x] = " " THEN SkipBlank(t, x + 1) ELSE x
    <3>1. ~(x >= e) /\ x \in 1..Len(t.str)
      BY <1>1, <2>2
    <3> QED BY <1>1, <1>2, <1>3, <2>2, <3>1
  <2>4. SkippedTo(t, x + 1, SkipBlank(t, x + 1))
    BY <1>5, <2>2
  <2>5. CASE t.str[x] = " "
    <3> DEFINE q == SkipBlank(t, x + 1)
    <3>1. q \in x+1..e /\ (\A i \in x+1..q-1 : t.str[i] = " ") /\ (q < e => t.str[q] # " ")
      BY <2>4 DEF SkippedTo, e
    <3>2. SkipBlank(t, x) = q
      BY <2>3, <2>5
    <3> HIDE DEF q
    <3>3. q \in x..e /\ \A i \in x..q-1 : i = x \/ i \in x+1..q-1
      <4>0. x + 1 \in Nat /\ e \in Nat
        BY <1>1, <2>2
      <4>1. q \in Nat /\ x + 1 <= q /\ q <= e
        <5>1. q \in x+1..e
          BY <3>1
        <5> QED BY <4>0, <5>1
      <4>2. x <= q
        BY <2>2, <4>1
      <4> QED BY <1>1, <2>2, <4>1, <4>2
    <3>4. \A i \in x..q-1 : t.str[i] = " "
      BY <2>5, <3>1, <3>3
    <3> QED BY <3>1, <3>2, <3>3, <3>4 DEF SkippedTo, e
  <2>6. CASE t.str[x] # " "
    <3>1. x \in x..e /\ ~\E i : i \in x..x-1
      BY <1>1, <2>2
    <3> QED BY <2>3, <2>6, <3>1 DEF SkippedTo, e
  <2> QED BY <2>5, <2>6
<1>6. \A n \in Nat : n \in T
  <2> HIDE DEF T
  <2> QED BY <1>4, <1>5, SkipRec!SetInduction
<1>7. e - p \in Nat /\ p \in 1..e
  BY <1>1 DEF e
<1> QED BY <1>6, <1>7
----------------------------------------------------------------------------
(* A piece of a list: from a up to the comma or the end of the list at e   *)
Stretch(t, a, e) ==
  /\ a \in 1..EndOf(t) /\ e \in a..EndOf(t)
  /\ e < EndOf(t) => t.str[e] = ","
  /\ \A i \in a..e-1 : t.str[i] # ","

(* Position p is in the piece from a, and all before it is blank.          *)
BlankTo(t, a, e, p) == p \in a..e /\ \A i \in a..p-1 : t.str[i] = " "

(* The blanks before the text of a piece end at s.                         *)
TextAt(t, a, e, s) == BlankTo(t, a, e, s) /\ (s < e => t.str[s] # " ")

(* The numbers that there are in a piece                                   *)
LEMMA StretchNat ==
  ASSUME NEW t \in Texts, NEW a \in Nat, NEW e \in Nat, Stretch(t, a, e), NEW p \in Nat, BlankTo(t, a, e, p)
  PROVE  /\ EndOf(t) \in Nat \ {0} /\ a \in Nat \ {0} /\ e \in Nat \ {0} /\ p \in Nat \ {0}
         /\ a <= p /\ p <= e /\ e <= EndOf(t)
<1>1. EndOf(t) = Len(t.str) + 1 /\ Len(t.str) \in Nat
  BY ByteIs
<1>2. EndOf(t) \in Nat \ {0}
  BY <1>1
<1>3. a \in 1..EndOf(t) /\ e \in a..EndOf(t) /\ p \in a..e
  BY DEF Stretch, BlankTo
<1> QED BY <1>2, <1>3

(* Blanks end in the piece, or at its end.                                 *)
LEMMA StartIs ==
  ASSUME NEW t \in Texts, Clean(t), NEW a \in Nat, NEW e \in Nat, Stretch(t, a, e), NEW p \in Nat,
         BlankTo(t, a, e, p)
  PROVE  SkipBlank(t, p) \in Nat /\ TextAt(t, a, e, SkipBlank(t, p))
<1> DEFINE s == SkipBlank(t, p)
           l == EndOf(t)
<1>1. /\ l \in Nat \ {0} /\ a \in Nat \ {0} /\ e \in Nat \ {0} /\ p \in Nat \ {0}
      /\ a <= p /\ p <= e /\ e <= l
  BY StretchNat
<1>2. s \in p..l /\ (\A i \in p..s-1 : t.str[i] = " ") /\ (s < l => t.str[s] # " ")
  <2>1. p \in 1..l
    BY <1>1
  <2> QED BY <2>1, Skips DEF SkippedTo
<1>3. (e < l => t.str[e] = ",") /\ \A i \in a..p-1 : t.str[i] = " "
  BY DEF Stretch, BlankTo
<1> HIDE DEF s, l
<1>0. s \in Nat /\ p <= s /\ s <= l
  <2>1. s \in p..l
    BY <1>2
  <2> QED BY <1>1, <2>1
<1>4. s <= e
  <2>1. SUFFICES ASSUME e < s PROVE FALSE
    BY <1>0, <1>1
  <2>2. e \in p..s-1 /\ e < l
    BY <1>0, <1>1, <2>1
  <2> QED BY <1>2, <1>3, <2>2
<1>5. \A i \in a..s-1 : i \in a..p-1 \/ i \in p..s-1
  BY <1>0, <1>1
<1>6. \A i \in a..s-1 : t.str[i] = " "
  BY <1>2, <1>3, <1>5
<1>7. s < e => s < l
  BY <1>0, <1>1
<1>8. s \in Nat /\ s \in a..e
  BY <1>0, <1>1, <1>4
<1> QED BY <1>2, <1>6, <1>7, <1>8 DEF s, BlankTo, TextAt

(* An item ends where its piece does.                                      *)
LEMMA StopIs ==
  ASSUME NEW t \in Texts, Clean(t), NEW a \in Nat, NEW e \in Nat, Stretch(t, a, e), NEW s \in Nat,
         BlankTo(t, a, e, s)
  PROVE  ItemEnd(t, s) = e
<1> DEFINE l == EndOf(t)
           n == Len(t.str)
           S == {l} \cup {q \in s..n : Byte(t, q) = "," \/ IsGroupDelimiter(t, q)}
<1>1. /\ l \in Nat \ {0} /\ a \in Nat \ {0} /\ e \in Nat \ {0} /\ s \in Nat \ {0}
      /\ a <= s /\ s <= e /\ e <= l
  BY StretchNat
<1>2. l = n + 1 /\ n \in Nat /\ \A q \in 1..n : Byte(t, q) = t.str[q] /\ ~IsGroupDelimiter(t, q)
  BY ByteIs DEF Clean
<1>3. (e < l => t.str[e] = ",") /\ \A i \in a..e-1 : t.str[i] # ","
  BY DEF Stretch
<1>4. ItemEnd(t, s) = IF s >= l THEN s ELSE Min(S)
  BY DEF ItemEnd
<1> HIDE DEF l, n
<1>5. CASE s >= l
  BY <1>1, <1>4, <1>5
<1>6. CASE ~(s >= l)
  <2>1. \A q \in s..n : q \in 1..n
    BY <1>1, <1>2
  <2>2. S = {l} \cup {q \in s..n : t.str[q] = ","}
    BY <1>2, <2>1
  <2> HIDE DEF S
  <2>3. \A y \in S : y \in Nat /\ (y = l \/ (y \in 1..n /\ s <= y /\ t.str[y] = ","))
    <3>1. \A y \in s..n : y \in Nat /\ s <= y
      BY <1>1, <1>2
    <3> QED BY <1>1, <2>1, <2>2, <3>1
  <2>4. e \in S
    <3>1. e < l => e \in s..n
      BY <1>1, <1>2
    <3>2. e < l \/ e = l
      BY <1>1
    <3> QED BY <1>3, <2>2, <3>1, <3>2
  <2>5. \A y \in S : e <= y
    <3>1. ASSUME NEW y \in Nat, y \in S, y < e PROVE FALSE
      <4>1. y # l
        BY <1>1, <3>1
      <4>2. s <= y /\ t.str[y] = ","
        BY <2>3, <3>1, <4>1
      <4>3. y \in a..e-1
        <5>1. s <= y /\ y < e
          BY <3>1, <4>2
        <5> QED BY <1>1, <5>1
      <4> QED BY <1>3, <4>2, <4>3
    <3>2. \A y \in Nat : y \in S => e <= y
      BY <1>1, <3>1
    <3> QED BY <2>3, <3>2
  <2>6. Min(S) = e
    BY <2>3, <2>4, <2>5, MinLeast
  <2> QED BY <1>4, <1>6, <2>6
<1> QED BY <1>5, <1>6

(* What the code cuts off a piece is what Cleaned does.                    *)
LEMMA ItemIs ==
  ASSUME NEW t \in Texts, Clean(t), NEW a \in Nat, NEW e \in Nat, Stretch(t, a, e), NEW s \in Nat,
         TextAt(t, a, e, s)
  PROVE  LET item == Trimmed(SubSeq(t.str, s, e - 1))
             piece == SubSeq(t.str, a, e - 1)
         IN /\ Undashed(item) = Cleaned(piece)
            /\ Blank(piece) <=> s = e
            /\ item = <<>> <=> s = e
<1> DEFINE item == Trimmed(SubSeq(t.str, s, e - 1))
           piece == SubSeq(t.str, a, e - 1)
           rest == SubSeq(t.str, s, e - 1)
           text == {i \in DOMAIN piece : piece[i] # " "}
           n == e - a
           w == e - s
<1>1. /\ EndOf(t) \in Nat \ {0} /\ a \in Nat \ {0} /\ e \in Nat \ {0} /\ s \in Nat \ {0}
      /\ a <= s /\ s <= e /\ e <= EndOf(t)
  BY StretchNat DEF TextAt
<1>2. t.str \in Seq(STRING) /\ Len(t.str) \in Nat /\ EndOf(t) = Len(t.str) + 1
  BY DEF Texts, EndOf
<1>3. n \in Nat /\ w \in Nat /\ w <= n /\ e - 1 \in Nat /\ e - 1 <= Len(t.str) /\ a <= e - 1 + 1 /\ s <= e - 1 + 1
      /\ e - 1 - a + 1 = n /\ e - 1 - s + 1 = w
  BY <1>1, <1>2
<1>4. piece = [i \in 1..n |-> t.str[a+i-1]] /\ piece \in Seq(STRING) /\ Len(piece) = n
  BY <1>1, <1>2, <1>3, SubSeqIs
<1>5. rest = [i \in 1..w |-> t.str[s+i-1]] /\ rest \in Seq(STRING) /\ Len(rest) = w
  BY <1>1, <1>2, <1>3, SubSeqIs
<1>6. \A i \in 1..s-a : piece[i] = " "
  <2>1. SUFFICES ASSUME NEW i \in 1..s-a PROVE piece[i] = " "
    OBVIOUS
  <2>2. a+i-1 \in a..s-1 /\ i \in 1..n
    BY <1>1
  <2> HIDE DEF piece, n
  <2> QED BY <1>4, <2>2 DEF BlankTo, TextAt
<1> HIDE DEF piece, rest
<1>7. CASE s = e
  <2>1. w = 0 /\ n = s - a
    BY <1>1, <1>7
  <2>2. rest = <<>>
    BY <1>5, <2>1
  <2>3. Blank(piece)
    BY <1>4, <1>6, <2>1 DEF Blank
  <2>4. text = {}
    BY <1>4, <1>6, <2>1
  <2>5. item = <<>>
    BY <2>2 DEF Trimmed, rest
  <2>6. Undashed(item) = <<>>
    BY <2>5 DEF Undashed
  <2>7. Cleaned(piece) = <<>>
    BY <2>4 DEF Cleaned
  <2> QED BY <1>7, <2>3, <2>5, <2>6, <2>7 DEF piece
<1>8. CASE s < e
  <2> DEFINE f == s - a + 1
             upto == IF piece[Len(piece)] = " " THEN Len(piece) - 1 ELSE Len(piece)
             left == SubSeq(piece, f, upto)
  <2>1. w \in Nat \ {0} /\ n \in Nat \ {0} /\ f \in 1..n /\ f \in Nat \ {0} /\ f = n - w + 1
    BY <1>1, <1>8
  <2>2. piece[f] = t.str[s] /\ t.str[s] # " "
    <3>1. a + f - 1 = s
      BY <1>1
    <3> HIDE DEF f
    <3> QED BY <1>4, <1>8, <2>1, <3>1 DEF TextAt
  <2>3. text \in SUBSET Nat /\ f \in text /\ \A y \in text : f <= y
    <3>1. text = {i \in 1..n : piece[i] # " "}
      BY <1>4
    <3> HIDE DEF text
    <3>2. ASSUME NEW y \in 1..n, y \in text, y < f PROVE FALSE
      <4>0. piece[y] # " "
        BY <3>1, <3>2
      <4>1. y \in 1..s-a
        BY <1>1, <3>2 DEF f
      <4> QED BY <1>6, <4>0, <4>1
    <3>3. \A y \in text : y \in Nat /\ y \in 1..n
      <4>1. \A y \in 1..n : y \in Nat
        OBVIOUS
      <4> HIDE DEF n
      <4> QED BY <3>1, <4>1
    <3>4. f \in text
      BY <2>1, <2>2, <3>1
    <3> QED BY <2>1, <3>2, <3>3, <3>4
  <2> HIDE DEF text, f
  <2>4. Min(text) = f /\ text # {}
    BY <2>3, MinLeast
  <2>5. Cleaned(piece) = IF left = <<"-">> THEN <<>> ELSE left
    BY <2>4 DEF Cleaned, text
  <2>6. rest[w] = piece[n] /\ \A i \in 1..w : rest[i] = piece[f+i-1]
    <3>1. SUFFICES ASSUME NEW i \in 1..w PROVE rest[i] = piece[f+i-1] /\ f+w-1 = n /\ w \in 1..w
      BY <2>1
    <3>2. f+i-1 \in 1..n /\ a + (f+i-1) - 1 = s+i-1
      BY <1>1, <1>3, <2>1 DEF f
    <3> HIDE DEF n, w
    <3>3. piece[f+i-1] = t.str[a + (f+i-1) - 1] /\ rest[i] = t.str[s+i-1]
      BY <1>4, <1>5, <3>2
    <3>4. f+w-1 = n /\ w \in 1..w
      BY <2>1
    <3> QED BY <3>2, <3>3, <3>4
  <2>7. Blank(piece) <=> FALSE
    BY <1>4, <2>1, <2>2 DEF Blank
  <2> HIDE DEF n, w
  <2>8. CASE piece[n] = " "
    <3>1. upto = n - 1
      BY <1>4, <2>8
    <3>2. w # 1
      <4>1. SUFFICES ASSUME w = 1 PROVE FALSE
        OBVIOUS
      <4>2. f = n
        BY <2>1, <4>1
      <4> QED BY <2>2, <2>8, <4>2
    <3>3. item = SubSeq(rest, 1, w - 1)
      <4>1. rest # <<>> /\ rest[Len(rest)] = " "
        BY <1>5, <2>1, <2>6, <2>8
      <4> QED BY <1>5, <4>1 DEF Trimmed, rest
    <3>4. item = [i \in 1..w-1 |-> rest[i]] /\ Len(item) = w - 1
      <4>1. 1 \in Nat \ {0} /\ w - 1 \in Nat /\ 1 <= w - 1 + 1 /\ w - 1 <= Len(rest) /\ w - 1 - 1 + 1 = w - 1
        BY <1>5, <2>1
      <4>2. /\ SubSeq(rest, 1, w - 1) = [i \in 1..w-1 |-> rest[1+i-1]] /\ Len(SubSeq(rest, 1, w - 1)) = w - 1
        BY <1>5, <4>1, SubSeqIs
      <4>3. \A i \in 1..w-1 : 1+i-1 = i
        OBVIOUS
      <4> QED BY <3>3, <4>2, <4>3
    <3>5. left = [i \in 1..w-1 |-> piece[f+i-1]]
      <4>1. f <= n - 1 + 1 /\ n - 1 \in Nat /\ n - 1 <= Len(piece) /\ n - 1 - f + 1 = w - 1
        BY <1>4, <2>1
      <4>2. f \in Nat \ {0} /\ piece \in Seq(STRING)
        BY <1>4, <2>1
      <4>3. SubSeq(piece, f, n - 1) = [i \in 1..n-1-f+1 |-> piece[f+i-1]]
        BY <4>1, <4>2, SubSeqIs
      <4> HIDE DEF upto
      <4> QED BY <3>1, <4>1, <4>3
    <3>6. left = item
      <4>1. \A i \in 1..w-1 : i \in 1..w
        BY <2>1
      <4> HIDE DEF left, item
      <4> QED BY <2>6, <3>4, <3>5, <4>1
    <3>7. item # <<>>
      <4>1. w - 1 # 0
        BY <2>1, <3>2
      <4> HIDE DEF item
      <4> QED BY <3>4, <4>1
    <3> HIDE DEF item, left, upto
    <3>8. Undashed(item) = Cleaned(piece)
      BY <2>5, <3>6 DEF Undashed
    <3> QED BY <1>1, <1>8, <2>7, <3>7, <3>8 DEF item, piece
  <2>9. CASE piece[n] # " "
    <3>1. upto = n
      BY <1>4, <2>9
    <3>3. item = rest
      <4>1. rest[Len(rest)] # " "
        BY <1>5, <2>1, <2>6, <2>9
      <4> QED BY <4>1 DEF Trimmed, rest
    <3>5. left = [i \in 1..w |-> piece[f+i-1]]
      <4>1. f <= n + 1 /\ n \in Nat /\ n <= Len(piece) /\ n - f + 1 = w
        BY <1>4, <2>1
      <4>2. f \in Nat \ {0} /\ piece \in Seq(STRING)
        BY <1>4, <2>1
      <4>3. SubSeq(piece, f, n) = [i \in 1..n-f+1 |-> piece[f+i-1]]
        BY <4>1, <4>2, SubSeqIs
      <4> HIDE DEF upto
      <4> QED BY <3>1, <4>1, <4>3
    <3>6. left = item
      <4> HIDE DEF left, item
      <4> QED BY <1>5, <2>6, <3>3, <3>5
    <3>7. item # <<>>
      <4> HIDE DEF item
      <4> QED BY <1>5, <2>1, <3>3
    <3> HIDE DEF item, left, upto
    <3>8. Undashed(item) = Cleaned(piece)
      BY <2>5, <3>6 DEF Undashed
    <3> QED BY <1>1, <1>8, <2>7, <3>7, <3>8 DEF item, piece
  <2> QED BY <2>8, <2>9
<1> QED BY <1>1, <1>7, <1>8
----------------------------------------------------------------------------
(* Where the code goes on after a piece that ends at e                     *)
After(t, e) == SkipBlank(t, IF e < EndOf(t) THEN e + 1 ELSE e)

(* StatPart takes the piece that it is called in, and goes to the next; it *)
(* finds no part where the rest of the list is blank.                      *)
LEMMA StatPartIs ==
  ASSUME NEW t \in Texts, Clean(t), NEW a \in Nat, NEW e \in Nat, Stretch(t, a, e), NEW p \in Nat,
         BlankTo(t, a, e, p)
  PROVE  LET piece == SubSeq(t.str, a, e - 1)
         IN StatPart(t, p) = [kind |-> IF Blank(piece) /\ After(t, e) = EndOf(t) THEN "none" ELSE "part",
                              item |-> Cleaned(piece), next |-> After(t, e)]
<1> DEFINE start == SkipBlank(t, p)
           stop == ItemEnd(t, start)
           item == Trimmed(SubSeq(t.str, start, stop - 1))
           next == SkipBlank(t, IF stop < EndOf(t) /\ Byte(t, stop) = "," THEN stop + 1 ELSE stop)
           piece == SubSeq(t.str, a, e - 1)
           answer(kind) == [kind |-> kind, item |-> Undashed(item), next |-> next]
           l == EndOf(t)
<1>1. start \in Nat /\ TextAt(t, a, e, start)
  BY StartIs
<1>2. StatPart(t, p) =
        IF start = l THEN answer("none")
        ELSE IF stop < l /\ IsGroupDelimiter(t, stop) THEN answer("fault")
        ELSE IF item = <<>> /\ next = l THEN answer("none")
        ELSE answer("part")
  BY DEF StatPart
<1>3. /\ l \in Nat \ {0} /\ start <= e /\ e <= l /\ e # 0
  <2>1. BlankTo(t, a, e, start)
    BY <1>1 DEF TextAt
  <2> HIDE DEF start
  <2> QED BY <1>1, <2>1, StretchNat
<1>4. stop = e
  <2>1. BlankTo(t, a, e, start)
    BY <1>1 DEF TextAt
  <2> HIDE DEF start
  <2> QED BY <1>1, <2>1, StopIs
<1>5. Undashed(item) = Cleaned(piece) /\ (Blank(piece) <=> start = e) /\ (item = <<>> <=> start = e)
  <2> HIDE DEF start, stop
  <2> QED BY <1>1, <1>4, ItemIs
<1>6. e < l => Byte(t, e) = "," /\ ~IsGroupDelimiter(t, e)
  <2>1. SUFFICES ASSUME e < l PROVE Byte(t, e) = "," /\ ~IsGroupDelimiter(t, e)
    OBVIOUS
  <2>2. l = Len(t.str) + 1 /\ Len(t.str) \in Nat /\ DOMAIN t.str = 1..Len(t.str)
    BY ByteIs
  <2>3. e \in 1..Len(t.str)
    <3> HIDE DEF l
    <3> QED BY <1>3, <2>1, <2>2
  <2>4. t.str[e] = "," /\ Byte(t, e) = t.str[e]
    BY <2>1, <2>3, ByteIs DEF Stretch
  <2> QED BY <2>2, <2>3, <2>4 DEF Clean
<1>7. next = After(t, e)
  <2> HIDE DEF stop
  <2> QED BY <1>4, <1>6 DEF After
<1>8. e = l => After(t, e) = l
  <2>1. SUFFICES ASSUME e = l PROVE SkipBlank(t, l) = l
    BY <1>3 DEF After
  <2>2. l \in Nat /\ l >= l
    BY <1>3
  <2> HIDE DEF l
  <2> QED BY <2>2, SkipHolds DEF l
<1> HIDE DEF item, next, stop, start, l, piece
<1>9. CASE start = l
  <2>1. e = l /\ start = e
    BY <1>1, <1>3, <1>9
  <2> QED BY <1>2, <1>5, <1>7, <1>8, <1>9, <2>1 DEF l, piece
<1>10. CASE start # l
  <2>1. ~(stop < l /\ IsGroupDelimiter(t, stop))
    BY <1>4, <1>6
  <2> QED BY <1>2, <1>5, <1>7, <1>10, <2>1 DEF l, piece
<1> QED BY <1>9, <1>10
----------------------------------------------------------------------------
(* Pieces that are cut as Cutting says, and how many of them are listed    *)
Piece(t, cut, k) == SubSeq(t.str, cut[k-1] + 1, cut[k] - 1)

Size(t, n, cut) ==
  IF ~Blank(Piece(t, cut, n)) THEN n
  ELSE IF n > 1 /\ Blank(Piece(t, cut, n - 1)) THEN n - 2 ELSE n - 1

(* Each piece is a stretch, and the next one begins after it.              *)
LEMMA CutStretch ==
  ASSUME NEW t \in Texts, NEW n, NEW cut, Cutting(t.str, n, cut), NEW k \in 1..n
  PROVE  /\ n \in Nat \ {0} /\ cut[k] \in Nat /\ cut[k-1] + 1 \in Nat
         /\ Stretch(t, cut[k-1] + 1, cut[k])
         /\ cut[k] < EndOf(t) <=> k < n
         /\ cut[k] = EndOf(t) <=> k = n
<1> DEFINE c == cut[k-1]
           a == c + 1
           e == cut[k]
           l == Len(t.str)
<1>1. EndOf(t) = l + 1 /\ l \in Nat /\ DOMAIN t.str = 1..l
  BY ByteIs
<1> DEFINE S == Cuts(t.str)
<1>2. /\ n \in Nat \ {0} /\ cut[0] = 0 /\ cut[n] = l + 1
      /\ \A j \in 0..n : cut[j] \in S /\ cut[j] \in Nat
      /\ \A j \in 0..n-1 : cut[j] < cut[j+1] /\ \A i \in S : ~(cut[j] < i /\ i < cut[j+1])
  BY DEF Cutting
<1>3. S = {0, l + 1} \cup {i \in 1..l : t.str[i] = ","}
  BY <1>1 DEF Cuts
<1> HIDE DEF S, l
<1>4. k \in 0..n /\ k - 1 \in 0..n-1 /\ k - 1 \in 0..n /\ k - 1 + 1 = k
  BY <1>2
<1>5. /\ e \in S /\ e \in Nat /\ c \in Nat /\ c < e
      /\ \A i \in S : ~(c < i /\ i < e)
  BY <1>2, <1>4
<1> HIDE DEF e, c
<1>6. a \in Nat /\ a # 0 /\ a <= e /\ e # 0 /\ l + 1 \in Nat
  BY <1>1, <1>5
<1>7. e = l + 1 \/ (e \in 1..l /\ t.str[e] = ",")
  BY <1>3, <1>5, <1>6
<1>8. e <= l + 1 /\ (e < l + 1 => t.str[e] = ",")
  <2>1. e = l + 1 \/ e \in 1..l
    BY <1>7
  <2>2. e <= l + 1 /\ (e < l + 1 => e # l + 1)
    BY <1>1, <1>5, <2>1
  <2> QED BY <1>7, <2>2
<1>9. ASSUME NEW i \in a..e-1, t.str[i] = "," PROVE FALSE
  <2>1. i \in a..e-1 /\ a = c + 1 /\ e <= l + 1
    BY <1>8
  <2>2. i \in 1..l /\ c < i /\ i < e
    BY <1>1, <1>5, <2>1
  <2> QED BY <1>3, <1>5, <1>9, <2>2
<1>10. k < n => e < l + 1
  <2>1. SUFFICES ASSUME k < n PROVE e < l + 1
    OBVIOUS
  <2>2. k \in 0..n-1 /\ k + 1 \in 0..n
    BY <1>2, <2>1
  <2>3. e < cut[k+1] /\ cut[k+1] \in S
    BY <1>2, <2>2 DEF e
  <2>4. cut[k+1] \in Nat
    BY <1>2, <2>2
  <2>5. cut[k+1] = 0 \/ cut[k+1] = l + 1 \/ cut[k+1] \in 1..l
    BY <1>3, <2>3
  <2> QED BY <1>1, <1>5, <2>3, <2>4, <2>5
<1>11. k = n => e = l + 1
  BY <1>2 DEF e
<1>12. k < n \/ k = n
  BY <1>2
<1>13. a \in 1..l+1 /\ e \in a..l+1
  <2>1. a \in Nat /\ a # 0 /\ a <= e /\ e <= l + 1 /\ e \in Nat /\ l + 1 \in Nat
    BY <1>5, <1>6, <1>8
  <2> HIDE DEF a
  <2> QED BY <2>1
<1>14. (e < l + 1 <=> k < n) /\ (e = l + 1 <=> k = n)
  BY <1>1, <1>2, <1>5, <1>8, <1>10, <1>11, <1>12
<1>15. Stretch(t, a, e)
  BY <1>1, <1>8, <1>9, <1>13 DEF Stretch
<1>16. n \in Nat \ {0} /\ e \in Nat /\ a \in Nat
  BY <1>2, <1>5, <1>6
<1> HIDE DEF a
<1>17. /\ Stretch(t, a, e) /\ (e < EndOf(t) <=> k < n) /\ (e = EndOf(t) <=> k = n)
  BY <1>1, <1>14, <1>15
<1> QED BY <1>16, <1>17 DEF e, a, c

(* So for all pieces together                                              *)
LEMMA CutStretches ==
  ASSUME NEW t \in Texts, NEW n, NEW cut, Cutting(t.str, n, cut)
  PROVE  \A i \in 1..n : /\ cut[i] \in Nat /\ cut[i-1] + 1 \in Nat
                         /\ Stretch(t, cut[i-1] + 1, cut[i])
                         /\ cut[i] = EndOf(t) <=> i = n
<1> SUFFICES ASSUME NEW i \in 1..n
             PROVE  /\ cut[i] \in Nat /\ cut[i-1] + 1 \in Nat
                    /\ Stretch(t, cut[i-1] + 1, cut[i])
                    /\ cut[i] = EndOf(t) <=> i = n
  OBVIOUS
<1>1. cut[i] \in Nat
  BY CutStretch
<1>2. cut[i-1] + 1 \in Nat
  BY CutStretch
<1>3. Stretch(t, cut[i-1] + 1, cut[i])
  BY CutStretch, Zenon
<1>4. cut[i] = EndOf(t) <=> i = n
  BY CutStretch
<1> QED BY <1>1, <1>2, <1>3, <1>4
(* The code goes from each piece into the next, and past the blanks there. *)
LEMMA AfterIs ==
  ASSUME NEW t \in Texts, Clean(t), NEW n, NEW cut, Cutting(t.str, n, cut), NEW k \in 1..n
  PROVE  /\ After(t, cut[k]) \in Nat
         /\ k = n => After(t, cut[k]) = EndOf(t)
         /\ k < n => BlankTo(t, cut[k] + 1, cut[k+1], After(t, cut[k]))
         /\ k < n => (After(t, cut[k]) = EndOf(t) <=> k + 1 = n /\ Blank(Piece(t, cut, n)))
<1>0. \A i \in 1..n : /\ cut[i] \in Nat /\ cut[i-1] + 1 \in Nat
                      /\ Stretch(t, cut[i-1] + 1, cut[i])
                      /\ cut[i] = EndOf(t) <=> i = n
  BY CutStretches
<1> DEFINE l == EndOf(t)
<1>1. n \in Nat \ {0} /\ cut[k] \in Nat /\ (cut[k] < l <=> k < n) /\ (cut[k] = l <=> k = n)
  BY CutStretch
<1>2. l \in Nat
  <2>1. l = Len(t.str) + 1 /\ Len(t.str) \in Nat
    BY ByteIs
  <2> HIDE DEF l
  <2> QED BY <2>1
<1>3. CASE k = n
  <2>1. After(t, cut[k]) = SkipBlank(t, l)
    <3>1. cut[k] = l /\ ~(l < l)
      BY <1>1, <1>2, <1>3
    <3> QED BY <3>1 DEF After
  <2>2. SkipBlank(t, l) = l
    <3>1. l >= l
      BY <1>2
    <3> QED BY <1>2, <3>1, SkipHolds
  <2> HIDE DEF l
  <2> QED BY <1>1, <1>2, <1>3, <2>1, <2>2 DEF l
<1>4. CASE k < n
  <2>0. \A j \in 1..n : j - 1 = k => /\ cut[j] \in Nat /\ cut[k] + 1 \in Nat
                                     /\ Stretch(t, cut[k] + 1, cut[j])
                                     /\ cut[j] = l <=> j = n
    BY <1>0
  <2>0a. k + 1 \in 1..n /\ (k + 1) - 1 = k
    BY <1>1, <1>4
  <2>0b. cut[k+1] \in Nat /\ cut[k] + 1 \in Nat /\ Stretch(t, cut[k] + 1, cut[k+1]) /\ (cut[k+1] = l <=> k + 1 = n)
    BY <2>0, <2>0a, Zenon
  <2> DEFINE s == After(t, cut[k])
             j == k + 1
             a == cut[k] + 1
             e == cut[j]
  <2>1. s = SkipBlank(t, a)
    BY <1>1, <1>4 DEF After
  <2>2. j \in 1..n /\ j - 1 = k
    BY <1>1, <1>4
  <2>3. a \in Nat /\ e \in Nat /\ Stretch(t, a, e) /\ (e = l <=> j = n)
    BY <2>0b
  <2> HIDE DEF a, e
  <2>4. BlankTo(t, a, e, a)
    <3>1. a \in 1..l /\ e \in a..l
      BY <2>3 DEF Stretch
    <3>2. a \in a..e /\ \A i : i \notin a..a-1
      BY <1>2, <2>3, <3>1
    <3> QED BY <3>2 DEF BlankTo
  <2>5. s \in Nat /\ TextAt(t, a, e, s)
    <3> HIDE DEF s
    <3> QED BY <2>1, <2>3, <2>4, StartIs
  <2> HIDE DEF s
  <2>6. BlankTo(t, a, e, s)
    BY <2>5 DEF TextAt
  <2>7. s <= e /\ e <= l
    BY <2>3, <2>5, <2>6, StretchNat
  <2>8. Blank(SubSeq(t.str, a, e - 1)) <=> s = e
    BY <2>3, <2>5, ItemIs
  <2>9. j = n => SubSeq(t.str, a, e - 1) = Piece(t, cut, n)
    BY <2>2 DEF Piece, a, e
  <2>10. s = l <=> j = n /\ Blank(Piece(t, cut, n))
    <3>1. s = l => e = l
      BY <1>2, <2>3, <2>5, <2>7
    <3> QED BY <2>3, <2>8, <2>9, <3>1
  <2>11. ~(k = n)
    BY <1>1, <1>4
  <2> QED BY <2>5, <2>6, <2>10, <2>11 DEF s, a, e, j, l
<1>5. k = n \/ k < n
  BY <1>1
<1> QED BY <1>3, <1>4, <1>5

(* It stops after the pieces that are listed.                              *)
LEMMA StopsAtSize ==
  ASSUME NEW t \in Texts, Clean(t), NEW n, NEW cut, Cutting(t.str, n, cut)
  PROVE  /\ Size(t, n, cut) \in 0..n
         /\ \A k \in 1..n : k <= Size(t, n, cut) + 1 =>
              ((Blank(Piece(t, cut, k)) /\ After(t, cut[k]) = EndOf(t)) <=> k = Size(t, n, cut) + 1)
<1> DEFINE size == Size(t, n, cut)
           B(k) == Blank(Piece(t, cut, k))
           ends(k) == After(t, cut[k]) = EndOf(t)
<1>1. n \in Nat \ {0}
  BY DEF Cutting
<1>2. size = IF ~B(n) THEN n ELSE IF n > 1 /\ B(n - 1) THEN n - 2 ELSE n - 1
  BY DEF Size
<1>3. \A k \in 1..n : (k = n => ends(k)) /\ (k < n => (ends(k) <=> k + 1 = n /\ B(n)))
  BY AfterIs
<1> HIDE DEF size, B, ends
<1>4. size \in 0..n
  BY <1>1, <1>2
<1>5. ASSUME NEW k \in 1..n, k <= size + 1 PROVE (B(k) /\ ends(k)) <=> k = size + 1
  <2>1. CASE ~B(n)
    <3>1. size = n /\ k # size + 1
      BY <1>1, <1>2, <2>1
    <3>2. k = n \/ k < n
      BY <1>1
    <3> QED BY <1>3, <2>1, <3>1, <3>2
  <2>2. CASE B(n) /\ n > 1 /\ B(n - 1)
    <3>1. size = n - 2 /\ k < n
      BY <1>1, <1>2, <1>5, <2>2
    <3>2. k + 1 = n <=> k = size + 1
      BY <1>1, <3>1
    <3>3. k + 1 = n => k = n - 1
      BY <1>1
    <3> QED BY <1>3, <2>2, <3>1, <3>2, <3>3
  <2>3. CASE B(n) /\ ~(n > 1 /\ B(n - 1))
    <3>1. size = n - 1
      BY <1>1, <1>2, <2>3
    <3>2. k = n => k = size + 1
      BY <1>1, <3>1
    <3>3. k < n => k # size + 1
      BY <1>1, <3>1
    <3>4. k < n /\ k + 1 = n => n > 1 /\ k = n - 1
      BY <1>1
    <3>5. k = n \/ k < n
      BY <1>1
    <3> QED BY <1>3, <2>3, <3>2, <3>3, <3>4, <3>5
  <2> QED BY <2>1, <2>2, <2>3
<1> QED BY <1>4, <1>5 DEF size, B, ends
----------------------------------------------------------------------------
Least(m, n) == IF m <= n THEN m ELSE n

(* The pieces from k on, at most m, each cleaned                           *)
Walked(t, n, cut, k, m) ==
  [items |-> [i \in 1..Least(m, Size(t, n, cut) + 1 - k) |-> Cleaned(Piece(t, cut, k + i - 1))],
   fault |-> FALSE]

(* No part is at the end.                                                  *)
LEMMA NoneAtEnd ==
  ASSUME NEW t \in Texts, Clean(t)
  PROVE  StatPart(t, EndOf(t)).kind = "none" /\ EndOf(t) \in Nat
<1>1. EndOf(t) \in Nat
  BY DEF EndOf, Texts
<1>2. SkipBlank(t, EndOf(t)) = EndOf(t)
  <2> DEFINE l == EndOf(t)
  <2>1. l \in Nat /\ l >= l
    BY <1>1
  <2> HIDE DEF l
  <2>2. SkipBlank(t, l) = l
    BY <2>1, SkipHolds DEF l
  <2> QED BY <2>2 DEF l
<1> QED BY <1>1, <1>2 DEF StatPart

(* One piece and those after it                                            *)
LEMMA WalkedMore ==
  ASSUME NEW t, NEW n, NEW cut, NEW k \in Nat, NEW m \in Nat, Size(t, n, cut) \in Nat, k <= Size(t, n, cut)
  PROVE  <<Cleaned(Piece(t, cut, k))>> \o Walked(t, n, cut, k + 1, m).items = Walked(t, n, cut, k, m + 1).items
<1> DEFINE z == Size(t, n, cut)
           w == Least(m, z + 1 - (k + 1))
           v == Least(m + 1, z + 1 - k)
           C(i) == Cleaned(Piece(t, cut, i))
           rest == [i \in 1..w |-> C(k + 1 + i - 1)]
<1>1. z \in Nat /\ k <= z
  OBVIOUS
<1> HIDE DEF z
<1>2. w \in Nat /\ v = w + 1
  BY <1>1 DEF Least
<1>3. Walked(t, n, cut, k + 1, m).items = rest /\ Walked(t, n, cut, k, m + 1).items = [i \in 1..v |-> C(k + i - 1)]
  BY DEF Walked, z
<1> HIDE DEF w, v, C
<1>4. <<C(k)>> \o rest = [i \in 1..v |-> C(k + i - 1)]
  <2>1. /\ DOMAIN rest = 1..w /\ Len(rest) = w
        /\ \A i \in 1..w : rest[i] = C(k + 1 + i - 1)
    BY <1>2
  <2>0. Counts(rest, w)
    BY <1>2 DEF Counts
  <2> HIDE DEF rest
  <2>2. rest \in Seq({rest[i] : i \in 1..w})
    BY <2>0, CountsLen
  <2>3. <<C(k)>> \o rest = [i \in 1..w+1 |-> IF i = 1 THEN C(k) ELSE rest[i-1]]
    BY <1>2, <2>1, <2>2
  <2>4. \A i \in 1..w+1 : (IF i = 1 THEN C(k) ELSE rest[i-1]) = C(k + i - 1)
    <3>1. SUFFICES ASSUME NEW i \in 1..w+1 PROVE (IF i = 1 THEN C(k) ELSE rest[i-1]) = C(k + i - 1)
      OBVIOUS
    <3>2. CASE i = 1
      <4>1. k + i - 1 = k
        BY <3>2
      <4> QED BY <3>2, <4>1
    <3>3. CASE i # 1
      <4>1. i - 1 \in 1..w /\ k + 1 + (i - 1) - 1 = k + i - 1
        BY <1>2, <3>3
      <4> QED BY <2>1, <3>3, <4>1
    <3> QED BY <3>2, <3>3
  <2> QED BY <1>2, <2>3, <2>4
<1> QED BY <1>3, <1>4 DEF C

(* None of them                                                            *)
LEMMA WalkedNone ==
  ASSUME NEW t, NEW n, NEW cut, NEW k \in Nat, NEW m \in Nat, Size(t, n, cut) \in Nat,
         Size(t, n, cut) + 1 - k \in Nat, m = 0 \/ Size(t, n, cut) + 1 - k = 0
  PROVE  Walked(t, n, cut, k, m) = [items |-> <<>>, fault |-> FALSE]
<1> DEFINE u == Size(t, n, cut) + 1 - k
           w == Least(m, u)
           C(i) == Cleaned(Piece(t, cut, k + i - 1))
<1>1. u \in Nat /\ (m = 0 \/ u = 0)
  OBVIOUS
<1>2. Walked(t, n, cut, k, m) = [items |-> [i \in 1..w |-> C(i)], fault |-> FALSE]
  BY DEF Walked
<1> HIDE DEF u, C
<1>3. w = 0
  BY <1>1 DEF Least
<1> HIDE DEF w
<1>4. [i \in 1..w |-> C(i)] = <<>>
  BY <1>3
<1> QED BY <1>2, <1>4

(* from is such a function.                                                *)
Takes(t, from) == \A p, m \in Nat : from[<<p, m>>] = PartsStep(t, from, p, m)

InPiece(t, cut, k, p) == BlankTo(t, cut[k-1] + 1, cut[k], p)

(* From each piece that is listed, and from the one after them, it takes   *)
(* the pieces from there on.                                               *)
Walk(t, n, cut, from, m) ==
  \A k \in 1..n : \A p \in Nat :
    (k <= Size(t, n, cut) + 1 /\ InPiece(t, cut, k, p)) => from[<<p, m>>] = Walked(t, n, cut, k, m)

(* What StatPart does in a piece that is listed, or in the one after them  *)
LEMMA PartInPiece ==
  ASSUME NEW t \in Texts, Clean(t), NEW n, NEW cut, Cutting(t.str, n, cut), NEW k \in 1..n,
         k <= Size(t, n, cut) + 1, NEW p \in Nat, InPiece(t, cut, k, p)
  PROVE  StatPart(t, p) = [kind |-> IF k = Size(t, n, cut) + 1 THEN "none" ELSE "part",
                           item |-> Cleaned(Piece(t, cut, k)), next |-> After(t, cut[k])]
<1> DEFINE a == cut[k-1] + 1
           e == cut[k]
<1>1. a \in Nat /\ e \in Nat /\ Stretch(t, a, e)
  BY CutStretches
<1>2. BlankTo(t, a, e, p)
  BY DEF InPiece
<1>3. SubSeq(t.str, a, e - 1) = Piece(t, cut, k)
  BY DEF Piece
<1> HIDE DEF a, e
<1>4. StatPart(t, p) = [kind |-> IF Blank(SubSeq(t.str, a, e - 1)) /\ After(t, e) = EndOf(t) THEN "none" ELSE "part",
                        item |-> Cleaned(SubSeq(t.str, a, e - 1)), next |-> After(t, e)]
  BY <1>1, <1>2, StatPartIs
<1>5. (Blank(Piece(t, cut, k)) /\ After(t, e) = EndOf(t)) <=> k = Size(t, n, cut) + 1
  BY StopsAtSize DEF e
<1> QED BY <1>3, <1>4, <1>5 DEF e

(* One part more                                                           *)
LEMMA WalkStep ==
  ASSUME NEW t \in Texts, Clean(t), NEW n, NEW cut, Cutting(t.str, n, cut), NEW from, Takes(t, from),
         NEW m \in Nat, Walk(t, n, cut, from, m)
  PROVE  Walk(t, n, cut, from, m + 1)
<1> DEFINE z == Size(t, n, cut)
<1>1. n \in Nat \ {0} /\ z \in 0..n /\ z \in Nat
  <2>1. n \in Nat \ {0}
    BY DEF Cutting
  <2>2. z \in 0..n
    BY StopsAtSize
  <2> HIDE DEF z
  <2> QED BY <2>1, <2>2
<1>2. SUFFICES ASSUME NEW k \in 1..n, NEW p \in Nat, k <= z + 1, InPiece(t, cut, k, p)
      PROVE  from[<<p, m + 1>>] = Walked(t, n, cut, k, m + 1)
  BY DEF Walk
<1> DEFINE r == StatPart(t, p)
           next == After(t, cut[k])
           none == [items |-> <<>>, fault |-> FALSE]
<1>3. r = [kind |-> IF k = z + 1 THEN "none" ELSE "part", item |-> Cleaned(Piece(t, cut, k)), next |-> next]
  BY <1>2, PartInPiece
<1>4. from[<<p, m + 1>>] = IF r.kind # "part" THEN [items |-> <<>>, fault |-> r.kind = "fault"]
                           ELSE [items |-> <<r.item>> \o from[<<r.next, m>>].items, fault |-> from[<<r.next, m>>].fault]
  <2>1. m + 1 \in Nat /\ m + 1 # 0 /\ m + 1 - 1 = m
    OBVIOUS
  <2>2. from[<<p, m + 1>>] = PartsStep(t, from, p, m + 1)
    BY <2>1 DEF Takes
  <2> DEFINE j == m + 1
  <2> HIDE DEF j
  <2>3. PartsStep(t, from, p, j) = IF r.kind # "part" THEN [items |-> <<>>, fault |-> r.kind = "fault"]
                           ELSE [items |-> <<r.item>> \o from[<<r.next, m>>].items, fault |-> from[<<r.next, m>>].fault]
    BY <2>1 DEF PartsStep, j
  <2> QED BY <2>2, <2>3 DEF j
<1>5. k \in Nat /\ k <= n /\ (k < n \/ k = n)
  BY <1>1
<1>6. next \in Nat /\ (k = n => next = EndOf(t)) /\ (k < n => InPiece(t, cut, k + 1, next))
  <2>1. next \in Nat /\ (k = n => next = EndOf(t)) /\ (k < n => BlankTo(t, cut[k] + 1, cut[k+1], next))
    BY AfterIs
  <2>2. k + 1 - 1 = k
    BY <1>5
  <2> QED BY <2>1, <2>2 DEF InPiece
<1> HIDE DEF r, next
<1>7. CASE k = z + 1
  <2>1. from[<<p, m + 1>>] = none
    BY <1>3, <1>4, <1>7
  <2>2. Walked(t, n, cut, k, m + 1) = none
    <3> DEFINE j == m + 1
    <3>1. j \in Nat /\ z + 1 - k = 0 /\ z + 1 - k \in Nat
      BY <1>1, <1>7
    <3> HIDE DEF j
    <3>2. Walked(t, n, cut, k, j) = none
      BY <1>1, <1>5, <3>1, WalkedNone
    <3> QED BY <3>2 DEF j
  <2> QED BY <2>1, <2>2
<1>8. CASE k # z + 1
  <2>1. k <= z /\ k + 1 \in Nat /\ k + 1 <= z + 1
    BY <1>1, <1>2, <1>5, <1>8
  <2>2. from[<<p, m + 1>>] = [items |-> <<Cleaned(Piece(t, cut, k))>> \o from[<<next, m>>].items,
                              fault |-> from[<<next, m>>].fault]
    BY <1>3, <1>4, <1>8
  <2>3. from[<<next, m>>] = Walked(t, n, cut, k + 1, m)
    <3>1. CASE k < n
      <4>1. k + 1 \in 1..n
        BY <1>1, <1>5, <3>1
      <4> QED BY <1>6, <2>1, <3>1, <4>1 DEF Walk
    <3>2. CASE k = n
      <4>1. z + 1 - (k + 1) = 0 /\ z + 1 - (k + 1) \in Nat
        BY <1>1, <2>1, <3>2
      <4>2. Walked(t, n, cut, k + 1, m) = none
        BY <1>1, <2>1, <4>1, WalkedNone
      <4>3. StatPart(t, next).kind = "none"
        BY <1>6, <3>2, NoneAtEnd
      <4>4. from[<<next, m>>] = PartsStep(t, from, next, m)
        BY <1>6 DEF Takes
      <4>5. from[<<next, m>>] = none
        BY <4>3, <4>4 DEF PartsStep
      <4> QED BY <4>2, <4>5
    <3> QED BY <1>5, <3>1, <3>2
  <2>4. <<Cleaned(Piece(t, cut, k))>> \o Walked(t, n, cut, k + 1, m).items = Walked(t, n, cut, k, m + 1).items
    BY <1>1, <1>5, <2>1, WalkedMore
  <2>5. Walked(t, n, cut, k + 1, m).fault = FALSE
        /\ Walked(t, n, cut, k, m + 1) = [items |-> Walked(t, n, cut, k, m + 1).items, fault |-> FALSE]
    BY DEF Walked
  <2> QED BY <2>2, <2>3, <2>4, <2>5
<1> QED BY <1>7, <1>8

(* The loop of the callers takes the first parts that the list has.        *)
LEMMA PartsAre ==
  ASSUME NEW t \in Texts, Clean(t), NEW max \in Nat
  PROVE  \E n \in Nat : \E list :
           /\ Listed(t.str) = [i \in 1..n |-> list[i]]
           /\ Parts(t, max) = [items |-> [i \in 1..Least(max, n) |-> list[i]], fault |-> FALSE]
<1>1. PICK from : Takes(t, from) /\ \A m \in Nat : Parts(t, m) = from[<<1, m>>]
  BY PartsHolds DEF Takes
<1>2. PICK n, cut : /\ Cutting(t.str, n, cut)
                    /\ Pieces(t.str) = [k \in 1..n |-> SubSeq(t.str, cut[k-1] + 1, cut[k] - 1)]
  <2>1. t.str \in Seq(STRING)
    BY DEF Texts
  <2> QED BY <2>1, PiecesAre
<1> DEFINE z == Size(t, n, cut)
           list == [i \in 1..z |-> Cleaned(Piece(t, cut, i))]
<1>3. n \in Nat \ {0} /\ z \in 0..n /\ z \in Nat
  <2>1. n \in Nat \ {0}
    BY <1>2 DEF Cutting
  <2>2. z \in 0..n
    BY <1>2, StopsAtSize
  <2> HIDE DEF z
  <2> QED BY <2>1, <2>2
<1>4. Listed(t.str) = list
  <2> DEFINE p == Pieces(t.str)
             size == IF ~Blank(p[Len(p)]) THEN Len(p)
                     ELSE IF Len(p) > 1 /\ Blank(p[Len(p)-1]) THEN Len(p) - 2 ELSE Len(p) - 1
  <2>1. Listed(t.str) = [k \in 1..size |-> Cleaned(p[k])]
    BY DEF Listed
  <2>2. p = [k \in 1..n |-> Piece(t, cut, k)]
    BY <1>2 DEF Piece
  <2> HIDE DEF p
  <2>3. Len(p) = n /\ \A k \in 1..n : p[k] = Piece(t, cut, k)
    BY <1>3, <2>2
  <2>4. size = z
    <3>1. p[n] = Piece(t, cut, n) /\ (n > 1 => p[n-1] = Piece(t, cut, n - 1))
      <4>1. n \in 1..n /\ (n > 1 => n - 1 \in 1..n)
        BY <1>3
      <4> QED BY <2>3, <4>1
    <3> QED BY <2>3, <3>1 DEF Size
  <2> HIDE DEF size, z
  <2>5. \A k \in 1..z : k \in 1..n
    BY <1>3
  <2> QED BY <2>1, <2>3, <2>4, <2>5
<1>5. \A m \in Nat : Walk(t, n, cut, from, m)
  <2> DEFINE T == {m \in Nat : Walk(t, n, cut, from, m)}
  <2>1. Walk(t, n, cut, from, 0)
    <3>1. SUFFICES ASSUME NEW k \in 1..n, NEW p \in Nat, k <= z + 1
          PROVE  from[<<p, 0>>] = Walked(t, n, cut, k, 0)
      BY DEF Walk
    <3>2. z + 1 - k \in Nat /\ k \in Nat
      BY <1>3, <3>1
    <3>3. Walked(t, n, cut, k, 0) = [items |-> <<>>, fault |-> FALSE]
      BY <1>3, <3>2, WalkedNone
    <3>4. from[<<p, 0>>] = PartsStep(t, from, p, 0)
      BY <1>1 DEF Takes
    <3> QED BY <3>3, <3>4 DEF PartsStep
  <2>2. ASSUME NEW m \in Nat, m \in T PROVE m + 1 \in T
    BY <1>1, <1>2, <2>2, WalkStep
  <2> HIDE DEF T
  <2>3. \A m \in Nat : m \in T
    <3>1. 0 \in T
      BY <2>1 DEF T
    <3> QED BY <2>2, <3>1, SkipRec!SetInduction
  <2> QED BY <2>3 DEF T
<1>6. InPiece(t, cut, 1, 1)
  <2>1. cut[1] \in Nat /\ Stretch(t, cut[1-1] + 1, cut[1])
    <3>1. 1 \in 1..n
      BY <1>3
    <3> QED BY <1>2, <3>1, CutStretches
  <2>2. cut[1-1] + 1 = 1
    <3>1. cut[0] = 0
      BY <1>2 DEF Cutting
    <3> QED BY <3>1
  <2>3. 1 \in 1..cut[1]
    <3>1. Stretch(t, 1, cut[1])
      BY <2>1, <2>2
    <3>2. 1 \in 1..EndOf(t) /\ cut[1] \in 1..EndOf(t)
      BY <3>1 DEF Stretch
    <3>3. EndOf(t) \in Nat
      BY DEF EndOf, Texts
    <3> QED BY <2>1, <3>2, <3>3
  <2>4. \A i : i \notin 1..1-1
    OBVIOUS
  <2> QED BY <2>2, <2>3, <2>4 DEF InPiece, BlankTo
<1>7. from[<<1, max>>] = Walked(t, n, cut, 1, max)
  <2>1. 1 \in 1..n /\ 1 <= z + 1 /\ 1 \in Nat
    BY <1>3
  <2>2. Walk(t, n, cut, from, max)
    BY <1>5
  <2> QED BY <1>6, <2>1, <2>2 DEF Walk
<1>8. Walked(t, n, cut, 1, max) = [items |-> [i \in 1..Least(max, z) |-> list[i]], fault |-> FALSE]
  <2>1. z + 1 - 1 = z /\ \A i \in 1..Least(max, z) : i \in 1..z /\ 1 + i - 1 = i
    BY <1>3 DEF Least
  <2> HIDE DEF z
  <2> QED BY <2>1 DEF Walked, z
<1>9. list = [i \in 1..z |-> list[i]]
  BY <1>3
<1>10. /\ z \in Nat /\ Listed(t.str) = [i \in 1..z |-> list[i]]
       /\ Parts(t, max) = [items |-> [i \in 1..Least(max, z) |-> list[i]], fault |-> FALSE]
  BY <1>1, <1>3, <1>4, <1>7, <1>8, <1>9
<1> HIDE DEF z, list
<1> QED BY <1>10, Zenon

(* The lesser of two numbers, as AtMost has it                             *)
LEMMA MinPair ==
  ASSUME NEW m \in Nat, NEW n \in Nat
  PROVE  Min({n, m}) = Least(m, n)
<1> DEFINE x == Least(m, n)
<1>1. x \in {n, m} /\ (\A y \in {n, m} : x <= y) /\ {n, m} \in SUBSET Nat
  BY DEF Least
<1> HIDE DEF x
<1>2. Min({n, m}) = x
  BY <1>1, MinLeast
<1> QED BY <1>2 DEF x

(* AtMost takes the first splits_max of a sequence.                        *)
LEMMA AtMostIs ==
  ASSUME NEW n \in Nat, NEW list
  PROVE  LET s == [i \in 1..n |-> list[i]]
         IN AtMost(s) = [i \in 1..Least(SplitsMax, n) |-> list[i]]
<1> DEFINE s == [i \in 1..n |-> list[i]]
           m == Least(SplitsMax, n)
<1>0. SplitsMax \in Nat
  BY CompileAssumption
<1>1. Counts(s, n)
  BY DEF Counts
<1>2. m \in Nat /\ m <= n
  BY <1>0 DEF Least
<1>3. s \in Seq({s[i] : i \in 1..n}) /\ Len(s) = n
  BY <1>1, CountsLen
<1>4. \A i \in 1..n : s[i] = list[i]
  OBVIOUS
<1>5. AtMost(s) = SubSeq(s, 1, m)
  BY <1>0, <1>3, MinPair DEF AtMost
<1> HIDE DEF s, m
<1>6. SubSeq(s, 1, m) = [i \in 1..m-1+1 |-> s[1+i-1]]
  <2>1. 1 \in Nat \ {0} /\ 1 <= m + 1 /\ m <= Len(s)
    BY <1>2, <1>3
  <2> QED BY <1>2, <1>3, <2>1, SubSeqIs
<1>7. m - 1 + 1 = m /\ \A i \in 1..m : 1 + i - 1 = i /\ i \in 1..n
  BY <1>2
<1>8. AtMost(s) = [i \in 1..m |-> list[i]]
  BY <1>4, <1>5, <1>6, <1>7
<1> QED BY <1>8 DEF s, m

(* What ngx_statshouse_stat_compile() takes of a list that has no          *)
(* delimiter of groups is what the list says, up to splits_max.            *)
THEOREM PartsExact ==
  ASSUME NEW t \in Texts, Clean(t)
  PROVE  /\ Parts(t, SplitsMax) = [items |-> AtMost(Listed(t.str)), fault |-> FALSE]
         /\ \E n \in 0..SplitsMax : Counts(AtMost(Listed(t.str)), n)
<1>0. SplitsMax \in Nat
  BY CompileAssumption
<1>1. PICK n \in Nat : \E list :
         /\ Listed(t.str) = [i \in 1..n |-> list[i]]
         /\ Parts(t, SplitsMax) = [items |-> [i \in 1..Least(SplitsMax, n) |-> list[i]], fault |-> FALSE]
  BY <1>0, PartsAre
<1>2. PICK list :
        /\ Listed(t.str) = [i \in 1..n |-> list[i]]
        /\ Parts(t, SplitsMax) = [items |-> [i \in 1..Least(SplitsMax, n) |-> list[i]], fault |-> FALSE]
  BY <1>1
<1>3. AtMost(Listed(t.str)) = [i \in 1..Least(SplitsMax, n) |-> list[i]]
  BY <1>2, AtMostIs
<1>4. Least(SplitsMax, n) \in 0..SplitsMax
  BY <1>0 DEF Least
<1>5. Counts([i \in 1..Least(SplitsMax, n) |-> list[i]], Least(SplitsMax, n))
  BY <1>0, <1>4 DEF Counts
<1> QED BY <1>2, <1>3, <1>4, <1>5
----------------------------------------------------------------------------
(* What a metric and a request give to the loop over the keys: the first   *)
(* values, the parts of the keys that are split, and the texts             *)
Given(c, r, values, parts, texts) ==
  /\ Len(c.keys) \in Nat /\ DOMAIN c.keys = 1..Len(c.keys)
  /\ Len(values) \in Nat \ {0} /\ DOMAIN values = 1..Len(values)
  /\ \A i : i \in DOMAIN parts <=> i \in Shown(c, r) /\ c.keys[i].split
  /\ \A i \in DOMAIN parts :
       /\ Len(parts[i]) \in Nat /\ DOMAIN parts[i] = 1..Len(parts[i])
       /\ KeyParts(texts[i]).items = parts[i]
  /\ \A i \in 1..Len(c.keys) :
       /\ i \in Shown(c, r) <=> ~IsEmpty(texts[i].str)
       /\ i \in Shown(c, r) => texts[i].str = r.keys[i].str /\ c.keys[i].named

(* The keys of stat j, of the first n keys of the metric                   *)
KeysOp(a, keys, i) == WithKeyOf(a[1], a[2], a[3], a[4], keys, i)
KeysDef(c, f, s) == IF s = {} THEN c[2] ELSE KeysOp(c[1], f[s \ {Max(s)}], c[3][Max(s)])
KeysRec == INSTANCE Lemmas WITH Def <- KeysDef, Op <- KeysOp

KeysUpto(c, r, parts, j, n) == KeysRec!Fold(<<c, r, parts, j>>, <<>>, [i \in 1..n |-> i])

(* Expected's keys are such a fold.                                        *)
LEMMA KeysIs ==
  ASSUME NEW c, NEW r, NEW parts, NEW j, NEW seq
  PROVE  FoldLeft(LAMBDA keys, i : WithKeyOf(c, r, parts, j, keys, i), <<>>, seq) =
         KeysRec!Fold(<<c, r, parts, j>>, <<>>, seq)
BY DEF KeysOp, FoldLeft, MapThenFoldSet, Max, KeysRec!Fold, KeysRec!FoldLeft,
       KeysRec!MapThenFoldSet, KeysRec!Max

(* What it repeats                                                         *)
LEMMA KeysRepeats == KeysRec!RepeatsOp
BY DEF KeysRec!RepeatsOp, KeysDef, Max, KeysRec!Max

(* The keys of stat j, one by one                                          *)
LEMMA KeysSteps ==
  ASSUME NEW c, NEW r, NEW parts, NEW j, NEW n \in Nat
  PROVE  /\ KeysUpto(c, r, parts, j, 0) = <<>>
         /\ KeysUpto(c, r, parts, j, n + 1) = WithKeyOf(c, r, parts, j, KeysUpto(c, r, parts, j, n), n + 1)
<1> DEFINE a == <<c, r, parts, j>>
           seq(m) == [i \in 1..m |-> i]
<1>1. KeysUpto(c, r, parts, j, 0) = <<>>
  <2>1. DOMAIN seq(0) = {}
    BY Numbers
  <2>2. KeysRec!Fold(a, <<>>, seq(0)) = <<>>
    BY <2>1, KeysRepeats, KeysRec!FoldNone
  <2> QED BY <2>2 DEF KeysUpto
<1>2. /\ DOMAIN seq(n) = 1..n /\ DOMAIN seq(n+1) = 1..n+1
      /\ \A i \in 1..n : seq(n)[i] = seq(n+1)[i]
      /\ seq(n+1)[n+1] = n + 1
  BY Numbers
<1> HIDE DEF seq
<1>3. KeysRec!Fold(a, <<>>, seq(n+1)) = KeysOp(a, KeysRec!Fold(a, <<>>, seq(n)), seq(n+1)[n+1])
  BY <1>2, KeysRepeats, KeysRec!FoldOneMore
<1> DEFINE u == KeysRec!Fold(a, <<>>, seq(n+1))
           v == KeysRec!Fold(a, <<>>, seq(n))
           k == n + 1
<1>4. u = KeysOp(a, v, k)
  BY <1>2, <1>3
<1>5. u = KeysUpto(c, r, parts, j, n + 1) /\ v = KeysUpto(c, r, parts, j, n)
  BY DEF KeysUpto, seq
<1> HIDE DEF u, v, k
<1>6. KeysOp(a, v, k) = WithKeyOf(c, r, parts, j, v, k)
  BY DEF KeysOp
<1>7. u = WithKeyOf(c, r, parts, j, v, k)
  BY <1>4, <1>6
<1> QED BY <1>1, <1>5, <1>7 DEF k
----------------------------------------------------------------------------
(* Stat j with what the first n keys give it                               *)
StatUpto(c, r, values, parts, j, n) ==
  [value |-> ValueOf(c, values, j), keys |-> KeysUpto(c, r, parts, j, n)]

(* A key added to a stat                                                   *)
LEMMA WithKeyIs ==
  ASSUME NEW v, NEW keys, NEW i, NEW val
  PROVE  WithKey([value |-> v, keys |-> keys], i, val)
           = [value |-> v, keys |-> Append(keys, [key |-> i, val |-> val])]
<1> DEFINE a == Append(keys, [key |-> i, val |-> val])
           stat == [value |-> v, keys |-> keys]
<1>1. WithKey(stat, i, val) = [stat EXCEPT !.keys = a]
  BY DEF WithKey
<1> HIDE DEF a
<1>2. [stat EXCEPT !.keys = a] = [value |-> v, keys |-> a]
  OBVIOUS
<1> QED BY <1>1, <1>2 DEF a

(* A stat that has key i gets it.                                          *)
LEMMA StatGets ==
  ASSUME NEW c, NEW r, NEW values, NEW parts, NEW j, NEW n \in Nat, n + 1 \in Shown(c, r),
         c.keys[n+1].split => j <= Len(parts[n+1])
  PROVE  StatUpto(c, r, values, parts, j, n + 1)
           = WithKey(StatUpto(c, r, values, parts, j, n), n + 1,
                     IF c.keys[n+1].split THEN parts[n+1][j] ELSE r.keys[n+1].str)
<1> DEFINE i == n + 1
           keys == KeysUpto(c, r, parts, j, n)
           v == ValueOf(c, values, j)
           val == IF c.keys[i].split THEN parts[i][j] ELSE r.keys[i].str
<1>1. KeysUpto(c, r, parts, j, i) = WithKeyOf(c, r, parts, j, keys, i)
  BY KeysSteps
<1>2. i \in Shown(c, r) /\ (c.keys[i].split => j <= Len(parts[i]))
  OBVIOUS
<1> HIDE DEF i, keys, v
<1>3. WithKeyOf(c, r, parts, j, keys, i) = Append(keys, [key |-> i, val |-> val])
  BY <1>2 DEF WithKeyOf
<1> HIDE DEF val
<1>4. WithKey([value |-> v, keys |-> keys], i, val) = [value |-> v, keys |-> Append(keys, [key |-> i, val |-> val])]
  BY WithKeyIs
<1>5. WithKey([value |-> v, keys |-> keys], i, val) = [value |-> v, keys |-> KeysUpto(c, r, parts, j, i)]
  BY <1>1, <1>3, <1>4
<1> QED BY <1>5 DEF StatUpto, i, keys, v, val

(* One that does not have it stays.                                        *)
LEMMA StatStays ==
  ASSUME NEW c, NEW r, NEW values, NEW parts, NEW j, NEW n \in Nat,
         ~(n + 1 \in Shown(c, r) /\ (c.keys[n+1].split => j <= Len(parts[n+1])))
  PROVE  StatUpto(c, r, values, parts, j, n + 1) = StatUpto(c, r, values, parts, j, n)
<1>1. KeysUpto(c, r, parts, j, n + 1) = KeysUpto(c, r, parts, j, n)
  BY KeysSteps DEF WithKeyOf
<1> QED BY <1>1 DEF StatUpto

(* No part that the keys before i have reaches stat j.                     *)
Beyond(c, r, parts, i, j) == \A p \in DOMAIN parts : p < i => ~(j <= Len(parts[p]))

(* A stat that key i opens is as if it had been there all along.           *)
LEMMA OpenedIs ==
  ASSUME NEW c, NEW r, NEW values, NEW parts, NEW texts, Given(c, r, values, parts, texts),
         NEW i \in 1..Len(c.keys), NEW j \in Nat, Beyond(c, r, parts, i, j), ~(j <= Len(values)),
         NEW stats, stats[1].value = ValueOf(c, values, 1)
  PROVE  Opened(c, texts, stats, i) = StatUpto(c, r, values, parts, j, i - 1)
<1> DEFINE base == NewStat(IF c.split THEN Zero ELSE stats[1].value)
           l == Len(c.keys)
           fold(n) == WholeUpto(c, texts, base, n)
           stat(n) == StatUpto(c, r, values, parts, j, n)
           T == {n \in Nat : n < i => fold(n) = stat(n)}
<1>1. l \in Nat /\ i \in Nat /\ i <= l /\ i - 1 \in Nat /\ i - 1 < i
  BY DEF Given
<1>2. Opened(c, texts, stats, i) = fold(i - 1)
  BY WholeIs DEF Opened, WholeUpto
<1>3. base = stat(0)
  <2>1. Zero # <<>>
    BY DEF Zero
  <2>2. base = [value |-> IF c.split THEN Zero ELSE stats[1].value, keys |-> <<>>]
    <3>1. 1 <= Len(values)
      BY DEF Given
    <3>2. stats[1].value # <<>>
      BY <2>1, <3>1 DEF ValueOf
    <3> QED BY <2>1, <3>2 DEF NewStat
  <2>3. ValueOf(c, values, j) = IF c.split THEN Zero ELSE ValueOf(c, values, 1)
    <3>1. 1 <= Len(values)
      BY DEF Given
    <3> QED BY <3>1 DEF ValueOf
  <2>4. KeysUpto(c, r, parts, j, 0) = <<>>
    <3>1. 0 \in Nat
      OBVIOUS
    <3> QED BY <3>1, KeysSteps
  <2> HIDE DEF base
  <2> QED BY <2>2, <2>3, <2>4 DEF StatUpto
<1> HIDE DEF base, l
<1>4. 0 \in T
  <2>1. fold(0) = base
    <3>1. 0 \in Nat
      OBVIOUS
    <3> QED BY <3>1, WholeSteps
  <2> HIDE DEF fold, stat
  <2> QED BY <1>3, <2>1
<1>5. ASSUME NEW n \in Nat, n \in T PROVE n + 1 \in T
  <2>1. SUFFICES ASSUME n + 1 < i PROVE fold(n+1) = stat(n+1)
    OBVIOUS
  <2>2. n < i /\ n + 1 \in 1..l /\ n + 1 \in Nat
    BY <1>1, <2>1
  <2>3. fold(n) = stat(n)
    BY <1>5, <2>2
  <2>4. fold(n+1) = AddWhole(c, texts, stat(n), n + 1)
    <3>1. fold(n+1) = AddWhole(c, texts, fold(n), n + 1)
      BY WholeSteps
    <3> HIDE DEF fold, stat
    <3> QED BY <2>3, <3>1
  <2> DEFINE k == n + 1
  <2>5. /\ k \in Shown(c, r) <=> ~IsEmpty(texts[k].str)
        /\ k \in Shown(c, r) => texts[k].str = r.keys[k].str /\ c.keys[k].named
        /\ k \in DOMAIN parts <=> k \in Shown(c, r) /\ c.keys[k].split
    BY <2>2 DEF Given, l
  <2>6. k \in DOMAIN parts => ~(j <= Len(parts[k]))
    BY <2>1 DEF Beyond
  <2>7. CASE k \in Shown(c, r) /\ ~c.keys[k].split
    <3>1. stat(k) = WithKey(stat(n), k, r.keys[k].str)
      BY <2>7, StatGets
    <3> HIDE DEF k, stat, fold
    <3>2. AddWhole(c, texts, stat(n), k) = WithKey(stat(n), k, r.keys[k].str)
      BY <2>5, <2>7 DEF AddWhole
    <3> QED BY <2>4, <3>1, <3>2 DEF k
  <2>8. CASE ~(k \in Shown(c, r) /\ ~c.keys[k].split)
    <3>1. ~(k \in Shown(c, r) /\ (c.keys[k].split => j <= Len(parts[k])))
      BY <2>5, <2>6, <2>8
    <3>2. stat(k) = stat(n)
      BY <3>1, StatStays
    <3> HIDE DEF k, stat, fold
    <3>3. AddWhole(c, texts, stat(n), k) = stat(n)
      BY <2>5, <2>8 DEF AddWhole
    <3> QED BY <2>4, <3>2, <3>3 DEF k
  <2> QED BY <2>7, <2>8
<1>6. \A n \in Nat : n \in T
  <2> HIDE DEF T
  <2> QED BY <1>4, <1>5, SkipRec!SetInduction
<1>7. fold(i - 1) = stat(i - 1)
  <2> DEFINE m == i - 1
  <2>1. m \in T /\ m < i
    BY <1>1, <1>6
  <2> HIDE DEF m
  <2>2. fold(m) = stat(m)
    BY <2>1
  <2> QED BY <2>2 DEF m
<1> QED BY <1>2, <1>7
----------------------------------------------------------------------------
(* As many stats as the values and the parts of the first n keys make      *)
SizeUpto(values, parts, n, size) ==
  /\ size \in Nat /\ Len(values) <= size
  /\ \A i \in DOMAIN parts : i <= n => Len(parts[i]) <= size
  /\ size = Len(values) \/ \E i \in DOMAIN parts : i <= n /\ size = Len(parts[i])

(* The stats after the first n keys are those that there are to be.        *)
MadeUpto(c, r, values, parts, stats, n) ==
  \E size \in Nat : /\ SizeUpto(values, parts, n, size)
                    /\ stats = [j \in 1..size |-> StatUpto(c, r, values, parts, j, n)]

(* How many there are after one more key                                   *)
LEMMA SizeMore ==
  ASSUME NEW c, NEW r, NEW values, NEW parts, NEW texts, Given(c, r, values, parts, texts),
         NEW n \in Nat, NEW size \in Nat, SizeUpto(values, parts, n, size), NEW more \in Nat,
         n + 1 \in DOMAIN parts => more = IF size <= Len(parts[n+1]) THEN Len(parts[n+1]) ELSE size,
         n + 1 \notin DOMAIN parts => more = size
  PROVE  SizeUpto(values, parts, n + 1, more)
<1> DEFINE k == n + 1
           l == Len(values)
           len(i) == Len(parts[i])
<1>1. /\ l \in Nat
      /\ \A i \in DOMAIN parts : i \in Nat /\ len(i) \in Nat
  <2>1. \A i \in DOMAIN parts : i \in 1..Len(c.keys)
    BY DEF Given, Shown
  <2>2. l \in Nat /\ Len(c.keys) \in Nat /\ \A i \in DOMAIN parts : len(i) \in Nat
    BY DEF Given
  <2> HIDE DEF l, len
  <2> QED BY <2>1, <2>2
<1>2. /\ l <= size
      /\ \A i \in DOMAIN parts : i <= n => len(i) <= size
      /\ size = l \/ \E i \in DOMAIN parts : i <= n /\ size = len(i)
  BY DEF SizeUpto
<1>3. k \in DOMAIN parts => more = IF size <= len(k) THEN len(k) ELSE size
  OBVIOUS
<1>4. k \notin DOMAIN parts => more = size
  OBVIOUS
<1> HIDE DEF l, len
<1>5. \A i \in DOMAIN parts : i <= k <=> (i <= n \/ i = k)
  BY <1>1
<1>6. size <= more /\ (k \in DOMAIN parts => len(k) <= more) /\ (more = size \/ (k \in DOMAIN parts /\ more = len(k)))
  BY <1>1, <1>3, <1>4
<1>7. k \in Nat /\ k <= k
  OBVIOUS
<1> HIDE DEF k
<1>8. l <= more
  BY <1>1, <1>2, <1>6
<1>9. \A i \in DOMAIN parts : i <= k => len(i) <= more
  BY <1>1, <1>2, <1>5, <1>6
<1>10. more = l \/ \E i \in DOMAIN parts : i <= k /\ more = len(i)
  BY <1>2, <1>5, <1>6, <1>7
<1> QED BY <1>8, <1>9, <1>10 DEF SizeUpto, l, len, k

(* Adding a key makes the stats that there are to be with it.              *)
LEMMA AddKeyIs ==
  ASSUME NEW c, NEW r, NEW values, NEW parts, NEW texts, Given(c, r, values, parts, texts),
         NEW n \in Nat, n + 1 \in 1..Len(c.keys), NEW stats, MadeUpto(c, r, values, parts, stats, n)
  PROVE  MadeUpto(c, r, values, parts, AddKey(c, texts, stats, n + 1), n + 1)
<1>1. PICK size \in Nat : /\ SizeUpto(values, parts, n, size)
                          /\ stats = [j \in 1..size |-> StatUpto(c, r, values, parts, j, n)]
  BY DEF MadeUpto
<1> DEFINE k == n + 1
           stat(j) == StatUpto(c, r, values, parts, j, n)
           next(j) == StatUpto(c, r, values, parts, j, k)
<1>2. /\ k \in Shown(c, r) <=> ~IsEmpty(texts[k].str)
      /\ k \in Shown(c, r) => texts[k].str = r.keys[k].str /\ c.keys[k].named
      /\ k \in DOMAIN parts <=> k \in Shown(c, r) /\ c.keys[k].split
  BY DEF Given
<1>3. k \in Nat /\ k - 1 = n /\ k \in 1..Len(c.keys)
  OBVIOUS
<1>4. \A j : k \in Shown(c, r) /\ (c.keys[k].split => j <= Len(parts[k])) =>
        next(j) = WithKey(stat(j), k, IF c.keys[k].split THEN parts[k][j] ELSE r.keys[k].str)
  BY StatGets
<1>5. \A j : ~(k \in Shown(c, r) /\ (c.keys[k].split => j <= Len(parts[k]))) => next(j) = stat(j)
  BY StatStays
<1>6. \A more \in Nat :
        /\ k \in DOMAIN parts => more = IF size <= Len(parts[k]) THEN Len(parts[k]) ELSE size
        /\ k \notin DOMAIN parts => more = size
        => SizeUpto(values, parts, k, more)
  BY <1>1, SizeMore
<1>7. stats = [j \in 1..size |-> stat(j)]
  BY <1>1
<1>8. SUFFICES \E more \in Nat : /\ SizeUpto(values, parts, k, more)
                                 /\ AddKey(c, texts, stats, k) = [j \in 1..more |-> next(j)]
  BY DEF MadeUpto
<1>9. CASE k \notin Shown(c, r)
  <2>1. AddKey(c, texts, stats, k) = stats
    BY <1>2, <1>9 DEF AddKey
  <2>2. SizeUpto(values, parts, k, size)
    BY <1>2, <1>6, <1>9
  <2> HIDE DEF stat, next, k
  <2>3. \A j \in 1..size : next(j) = stat(j)
    BY <1>5, <1>9
  <2>4. AddKey(c, texts, stats, k) = [j \in 1..size |-> next(j)]
    BY <1>7, <2>1, <2>3
  <2> QED BY <2>2, <2>4
<1>10. CASE k \in Shown(c, r) /\ ~c.keys[k].split
  <2>1. SizeUpto(values, parts, k, size)
    BY <1>2, <1>6, <1>10
  <2> HIDE DEF stat, next, k
  <2>2. DOMAIN stats = 1..size /\ \A j \in 1..size : stats[j] = stat(j)
    BY <1>7
  <2>3. AddKey(c, texts, stats, k) = [j \in 1..size |-> WithKey(stats[j], k, r.keys[k].str)]
    BY <1>2, <1>10, <2>2 DEF AddKey
  <2>4. \A j \in 1..size : next(j) = WithKey(stats[j], k, r.keys[k].str)
    BY <1>4, <1>10, <2>2
  <2>5. AddKey(c, texts, stats, k) = [j \in 1..size |-> next(j)]
    BY <2>3, <2>4
  <2> QED BY <2>1, <2>5
<1>11. CASE k \in Shown(c, r) /\ c.keys[k].split
  <2> DEFINE m == Len(parts[k])
             more == IF size <= m THEN m ELSE size
             opened == Opened(c, texts, stats, k)
             old(j) == IF j \in DOMAIN stats THEN stats[j] ELSE opened
             new(j) == IF j \in DOMAIN parts[k] THEN WithKey(old(j), k, parts[k][j]) ELSE stats[j]
  <2>1. m \in Nat /\ DOMAIN parts[k] = 1..m /\ KeyParts(texts[k]).items = parts[k]
    <3>1. k \in DOMAIN parts
      BY <1>2, <1>11
    <3> HIDE DEF k
    <3> QED BY <3>1 DEF Given
  <2>2. more \in Nat /\ SizeUpto(values, parts, k, more)
    <3>1. k \in DOMAIN parts /\ more \in Nat
      BY <1>2, <1>11, <2>1
    <3> QED BY <1>6, <3>1
  <2>3. AddKey(c, texts, stats, k) = [j \in DOMAIN stats \cup DOMAIN parts[k] |-> new(j)]
    <3> HIDE DEF k
    <3> QED BY <1>2, <1>11, <2>1 DEF AddKey
  <2>4. DOMAIN stats = 1..size /\ \A j \in 1..size : stats[j] = stat(j)
    <3> HIDE DEF stat
    <3> QED BY <1>7
  <2>5. 1..size \cup 1..m = 1..more
    BY <2>1
  <2>6. \A j \in 1..more : j \in Nat /\ (j \in 1..size \/ j \in 1..m) /\ (j \in 1..m <=> j <= m)
          /\ (j \notin 1..size => size < j)
    BY <2>1
  <2>7. ASSUME NEW j \in 1..more, j \notin 1..size PROVE opened = stat(j)
    <3>1. j \in Nat /\ size < j /\ k \in 1..Len(c.keys)
      BY <2>6, <2>7
    <3>2. ~(j <= Len(values)) /\ 1 \in 1..size
      <4>1. Len(values) \in Nat \ {0} /\ Len(values) <= size
        BY <1>1 DEF Given, SizeUpto
      <4> QED BY <3>1, <4>1
    <3>3. Beyond(c, r, parts, k, j)
      <4>1. SUFFICES ASSUME NEW p \in DOMAIN parts, p < k PROVE ~(j <= Len(parts[p]))
        BY DEF Beyond
      <4>2. p \in Nat /\ Len(parts[p]) \in Nat
        <5>1. p \in 1..Len(c.keys)
          BY DEF Given, Shown
        <5> QED BY <5>1 DEF Given
      <4>3. p <= n
        BY <4>1, <4>2
      <4>4. Len(parts[p]) <= size
        BY <1>1, <4>3 DEF SizeUpto
      <4> QED BY <3>1, <4>2, <4>4
    <3>4. stats[1].value = ValueOf(c, values, 1)
      BY <2>4, <3>2 DEF StatUpto
    <3> HIDE DEF k
    <3>5. opened = StatUpto(c, r, values, parts, j, k - 1)
      BY <3>1, <3>2, <3>3, <3>4, OpenedIs
    <3> QED BY <1>3, <3>5
  <2> HIDE DEF opened, k, stat, next
  <2>8. ASSUME NEW j \in 1..more PROVE new(j) = next(j)
    <3>1. CASE j \in 1..m
      <4>1. old(j) = stat(j)
        BY <2>4, <2>7
      <4>2. new(j) = WithKey(stat(j), k, parts[k][j])
        BY <2>1, <3>1, <4>1
      <4>3. j <= m
        BY <3>1, <2>6
      <4> QED BY <1>4, <1>11, <4>2, <4>3
    <3>2. CASE j \notin 1..m
      <4>1. ~(j <= m) /\ j \in 1..size
        BY <2>6, <3>2
      <4>2. new(j) = stat(j)
        BY <2>1, <2>4, <3>2, <4>1
      <4> QED BY <1>5, <1>11, <4>1, <4>2
    <3> QED BY <3>1, <3>2
  <2> HIDE DEF new, m, more
  <2>9. AddKey(c, texts, stats, k) = [j \in 1..more |-> next(j)]
    BY <2>1, <2>3, <2>4, <2>5, <2>8
  <2> QED BY <2>2, <2>9
<1> QED BY <1>9, <1>10, <1>11
----------------------------------------------------------------------------
(* The greatest of a set of sizes                                          *)
LEMMA MaxGreatest ==
  ASSUME NEW S \in SUBSET Nat, NEW x \in S, \A y \in S : y <= x
  PROVE  Max(S) = x
<1>1. Max(S) \in S /\ \A y \in S : Max(S) >= y
  BY DEF Max
<1>2. Max(S) <= x /\ Max(S) >= x /\ Max(S) \in Nat /\ x \in Nat
  BY <1>1
<1> QED BY <1>2

(* The loop over the parts of the value                                    *)
LEMMA ValuesExact ==
  ASSUME NEW c \in Confs, NEW r \in Requests, CleanRequest(r)
  PROVE  /\ Values(c, r) = [items |-> ListedValues(c, r), fault |-> FALSE]
         /\ \E n \in Nat : Counts(ListedValues(c, r), n)
<1>1. r.value \in Texts /\ Clean(r.value) /\ SplitsMax \in Nat \ {0}
  BY CompileAssumption DEF CleanRequest
<1>2. CASE c.split
  <2>1. ListedValues(c, r) = AtMost(Listed(r.value.str))
    BY <1>2 DEF ListedValues
  <2>2. PICK n \in 0..SplitsMax : Counts(AtMost(Listed(r.value.str)), n)
    BY <1>1, PartsExact
  <2>3. n \in Nat
    BY <1>1
  <2>4. Parts(r.value, SplitsMax) = [items |-> AtMost(Listed(r.value.str)), fault |-> FALSE]
    BY <1>1, PartsExact
  <2>5. Values(c, r) = Parts(r.value, SplitsMax)
    BY <1>2 DEF Values
  <2> QED BY <2>1, <2>2, <2>3, <2>4, <2>5
<1>3. CASE ~c.split
  <2> DEFINE x == r.value.str
             s == IF x = <<>> THEN <<>> ELSE <<x>>
             n == IF x = <<>> THEN 0 ELSE 1
  <2>1. n \in Nat /\ Least(SplitsMax, n) = n
    BY <1>1 DEF Least
  <2>2. s = [i \in 1..n |-> s[i]]
    <3>1. CASE x = <<>>
      BY <3>1
    <3>2. CASE x # <<>>
      BY <3>2
    <3> QED BY <3>1, <3>2
  <2> HIDE DEF s, n
  <2>3. AtMost([i \in 1..n |-> s[i]]) = [i \in 1..n |-> s[i]]
    BY <2>1, AtMostIs
  <2>4. AtMost(s) = s
    BY <2>2, <2>3
  <2>5. ListedValues(c, r) = s
    BY <1>3, <2>4 DEF ListedValues, s
  <2>6. Values(c, r) = [items |-> s, fault |-> FALSE]
    BY <1>3 DEF Values, s
  <2>7. Counts(s, n)
    BY <2>1, <2>2 DEF Counts
  <2> QED BY <2>1, <2>5, <2>6, <2>7
<1> QED BY <1>2, <1>3

(* What the loop over the keys is given, and that no key makes it fail     *)
LEMMA GivenHolds ==
  ASSUME NEW c \in Confs, NEW r \in Requests, Len(r.keys) = Len(c.keys), CleanRequest(r),
         ListedValues(c, r) # <<>>
  PROVE  /\ Given(c, r, ListedValues(c, r), ListedParts(c, r), KeyTexts(c, r))
<1> DEFINE values == ListedValues(c, r)
           parts == ListedParts(c, r)
           texts == KeyTexts(c, r)
           l == Len(c.keys)
<1>1. /\ l \in Nat /\ DOMAIN c.keys = 1..l /\ DOMAIN r.keys = 1..l
      /\ \A i \in 1..l : r.keys[i] \in Texts /\ Clean(r.keys[i])
  BY CompileAssumption DEF CleanRequest
<1>2. Len(values) \in Nat \ {0} /\ DOMAIN values = 1..Len(values)
  <2>1. PICK n \in Nat : Counts(values, n)
    BY ValuesExact
  <2>2. values # <<>>
    OBVIOUS
  <2> HIDE DEF values
  <2>3. n # 0
    BY <2>1, <2>2 DEF Counts
  <2> QED BY <2>1, <2>3, CountsLen
<1>3. \A i : i \in DOMAIN parts <=> i \in Shown(c, r) /\ c.keys[i].split
  BY DEF ListedParts
<1>4. \A i \in 1..l : /\ i \in Shown(c, r) <=> ~IsEmpty(texts[i].str)
                      /\ i \in Shown(c, r) => texts[i] = r.keys[i] /\ c.keys[i].named
  <2>1. IsEmpty(Empty.str)
    BY DEF Empty, Text, IsEmpty
  <2>2. SUFFICES ASSUME NEW i \in 1..l
                 PROVE  /\ i \in Shown(c, r) <=> ~IsEmpty(texts[i].str)
                        /\ i \in Shown(c, r) => texts[i] = r.keys[i] /\ c.keys[i].named
    OBVIOUS
  <2>3. texts[i] = IF c.keys[i].named /\ ~c.keys[i].disable THEN r.keys[i] ELSE Empty
    BY <1>1 DEF KeyTexts
  <2>4. i \in Shown(c, r) <=> c.keys[i].named /\ ~c.keys[i].disable /\ ~IsEmpty(r.keys[i].str)
    BY <1>1 DEF Shown
  <2> HIDE DEF texts
  <2> QED BY <2>1, <2>3, <2>4
<1>5. ASSUME NEW i \in DOMAIN parts
      PROVE  /\ Len(parts[i]) \in Nat /\ DOMAIN parts[i] = 1..Len(parts[i])
             /\ KeyParts(texts[i]).items = parts[i]
  <2>1. i \in Shown(c, r) /\ i \in 1..l /\ parts[i] = AtMost(Listed(r.keys[i].str))
    BY <1>1, <1>5 DEF ListedParts, Shown
  <2>2. texts[i] = r.keys[i] /\ r.keys[i] \in Texts /\ Clean(r.keys[i])
    BY <1>1, <1>4, <2>1
  <2> HIDE DEF parts, texts
  <2>3. Parts(texts[i], SplitsMax) = [items |-> parts[i], fault |-> FALSE]
    BY <2>1, <2>2, PartsExact
  <2>4. PICK n \in 0..SplitsMax : Counts(parts[i], n)
    BY <2>1, <2>2, PartsExact
  <2> QED BY <2>3, <2>4, CountsLen DEF KeyParts, Counts
<1> HIDE DEF values, parts, texts
<1>6. Given(c, r, values, parts, texts)
  BY <1>1, <1>2, <1>3, <1>4, <1>5 DEF Given
<1> QED BY <1>6 DEF values, parts, texts

(* Nor does a key's list take the worker down.                             *)
LEMMA NoKeyFaults ==
  ASSUME NEW c \in Confs, NEW r \in Requests, Len(r.keys) = Len(c.keys), CleanRequest(r)
  PROVE  ~KeyFaults(c, KeyTexts(c, r))
<1> DEFINE texts == KeyTexts(c, r)
           l == Len(c.keys)
<1>1. /\ l \in Nat /\ DOMAIN c.keys = 1..l /\ DOMAIN r.keys = 1..l
      /\ \A i \in 1..l : r.keys[i] \in Texts /\ Clean(r.keys[i])
  BY CompileAssumption DEF CleanRequest
<1>2. SUFFICES ASSUME NEW i \in 1..l, ~IsEmpty(texts[i].str) PROVE ~KeyParts(texts[i]).fault
  BY <1>1 DEF KeyFaults
<1>3. texts[i] = r.keys[i]
  <2>1. IsEmpty(Empty.str)
    BY DEF Empty, Text, IsEmpty
  <2>2. texts[i] = IF c.keys[i].named /\ ~c.keys[i].disable THEN r.keys[i] ELSE Empty
    BY <1>1 DEF KeyTexts
  <2> HIDE DEF texts
  <2> QED BY <1>2, <2>1, <2>2
<1> HIDE DEF texts
<1>4. Parts(r.keys[i], SplitsMax) = [items |-> AtMost(Listed(r.keys[i].str)), fault |-> FALSE]
  BY <1>1, PartsExact
<1> QED BY <1>3, <1>4 DEF KeyParts

(* The stats after all keys                                                *)
LEMMA MadeHolds ==
  ASSUME NEW c, NEW r, NEW values, NEW parts, NEW texts, Given(c, r, values, parts, texts),
         NEW first, first = [j \in DOMAIN values |-> NewStat(values[j])]
  PROVE  MadeUpto(c, r, values, parts, AddUpto(c, texts, first, Len(c.keys)), Len(c.keys))
<1> DEFINE l == Len(c.keys)
           fold(n) == AddUpto(c, texts, first, n)
           T == {n \in Nat : n <= l => MadeUpto(c, r, values, parts, fold(n), n)}
<1>1. /\ l \in Nat /\ Len(values) \in Nat /\ DOMAIN values = 1..Len(values)
      /\ \A i \in DOMAIN parts : i \in 1..l
  BY DEF Given, Shown
<1>2. 0 \in T
  <2>1. SizeUpto(values, parts, 0, Len(values))
    <3>1. \A i \in DOMAIN parts : ~(i <= 0)
      BY <1>1
    <3>2. Len(values) <= Len(values)
      BY <1>1
    <3> QED BY <1>1, <3>1, <3>2 DEF SizeUpto
  <2>2. \A j \in 1..Len(values) : NewStat(values[j]) = StatUpto(c, r, values, parts, j, 0)
    <3>1. SUFFICES ASSUME NEW j \in 1..Len(values)
          PROVE  NewStat(values[j]) = StatUpto(c, r, values, parts, j, 0)
      OBVIOUS
    <3>2. KeysUpto(c, r, parts, j, 0) = <<>>
      <4>1. 0 \in Nat
        OBVIOUS
      <4> QED BY <4>1, KeysSteps
    <3>3. j <= Len(values)
      BY <1>1
    <3> QED BY <3>2, <3>3 DEF NewStat, StatUpto, ValueOf
  <2>3. first = [j \in 1..Len(values) |-> StatUpto(c, r, values, parts, j, 0)]
    BY <1>1, <2>2
  <2>4. fold(0) = first
    <3>1. 0 \in Nat
      OBVIOUS
    <3> QED BY <3>1, AddSteps
  <2> HIDE DEF fold
  <2>5. MadeUpto(c, r, values, parts, fold(0), 0)
    BY <1>1, <2>1, <2>3, <2>4 DEF MadeUpto
  <2> QED BY <2>5
<1>3. ASSUME NEW n \in Nat, n \in T PROVE n + 1 \in T
  <2>1. SUFFICES ASSUME n + 1 <= l PROVE MadeUpto(c, r, values, parts, fold(n+1), n + 1)
    OBVIOUS
  <2>2. n <= l /\ n + 1 \in 1..l
    BY <1>1, <2>1
  <2>3. MadeUpto(c, r, values, parts, fold(n), n)
    BY <1>3, <2>2
  <2>4. fold(n+1) = AddKey(c, texts, fold(n), n + 1)
    BY AddSteps
  <2> HIDE DEF fold
  <2> DEFINE stats == fold(n)
  <2> HIDE DEF stats
  <2>5. MadeUpto(c, r, values, parts, AddKey(c, texts, stats, n + 1), n + 1)
    BY <2>2, <2>3, AddKeyIs DEF stats
  <2> QED BY <2>4, <2>5 DEF stats
<1>4. \A n \in Nat : n \in T
  <2> HIDE DEF T
  <2> QED BY <1>2, <1>3, SkipRec!SetInduction
<1>5. l \in T /\ l <= l
  BY <1>1, <1>4
<1> QED BY <1>5

(* Which are those that Expected has                                       *)
LEMMA MadeIsExpected ==
  ASSUME NEW c, NEW r, NEW values, NEW parts, NEW texts, Given(c, r, values, parts, texts),
         NEW stats, MadeUpto(c, r, values, parts, stats, Len(c.keys))
  PROVE  stats = [j \in 1..Max({Len(values)} \cup {Len(parts[i]) : i \in DOMAIN parts}) |->
                    StatUpto(c, r, values, parts, j, Len(c.keys))]
<1> DEFINE l == Len(c.keys)
           S == {Len(values)} \cup {Len(parts[i]) : i \in DOMAIN parts}
<1>1. PICK size \in Nat : /\ SizeUpto(values, parts, l, size)
                          /\ stats = [j \in 1..size |-> StatUpto(c, r, values, parts, j, l)]
  BY DEF MadeUpto
<1>2. \A i \in DOMAIN parts : i <= l /\ Len(parts[i]) \in Nat
  <2>1. \A i \in DOMAIN parts : i \in 1..l
    BY DEF Given, Shown
  <2>2. l \in Nat /\ \A i \in DOMAIN parts : Len(parts[i]) \in Nat
    BY DEF Given
  <2> HIDE DEF l
  <2> QED BY <2>1, <2>2
<1>3. Len(values) \in Nat
  BY DEF Given
<1> HIDE DEF l
<1>4. S \in SUBSET Nat /\ size \in S /\ \A y \in S : y <= size
  BY <1>1, <1>2, <1>3 DEF SizeUpto
<1> HIDE DEF S
<1>5. Max(S) = size
  BY <1>4, MaxGreatest
<1> QED BY <1>1, <1>5 DEF S, l

(* A call makes exactly the stats that there are to be.                    *)
LEMMA CompiledExact ==
  ASSUME NEW c \in Confs, NEW r \in Requests, Len(r.keys) = Len(c.keys), CleanRequest(r),
         r.condition = "ok", ~r.fails
  PROVE  Compiled(c, r) = Expected(c, r)
<1> DEFINE values == ListedValues(c, r)
           parts == ListedParts(c, r)
           texts == KeyTexts(c, r)
           l == Len(c.keys)
           first == [j \in DOMAIN values |-> NewStat(values[j])]
           size == Max({Len(values)} \cup {Len(parts[i]) : i \in DOMAIN parts})
           bad == \E j \in DOMAIN values : values[j] # <<>> /\ ~Parses(c.type, values[j])
           built == FoldLeft(LAMBDA stats, i : AddKey(c, texts, stats, i), first, [i \in DOMAIN c.keys |-> i])
           keys(j) == FoldLeft(LAMBDA keys, i : WithKeyOf(c, r, parts, j, keys, i), <<>>, [i \in DOMAIN c.keys |-> i])
           stats == [j \in 1..size |-> [value |-> ValueOf(c, values, j), keys |-> keys(j)]]
<1>1. l \in Nat /\ DOMAIN c.keys = 1..l
  BY CompileAssumption
<1>2. Values(c, r) = [items |-> values, fault |-> FALSE]
  BY ValuesExact
<1>3. ~KeyFaults(c, texts)
  BY NoKeyFaults
<1>4. Compiled(c, r) = IF bad THEN Answer("error") ELSE IF values = <<>> THEN Answer("declined")
                       ELSE [rc |-> "ok", stats |-> built]
  <2> DEFINE V == Values(c, r)
             start == [j \in DOMAIN V.items |-> NewStat(V.items[j])]
             sum == FoldLeft(LAMBDA s, i : AddKey(c, texts, s, i), start, [i \in DOMAIN c.keys |-> i])
             wrong == \E j \in DOMAIN V.items : V.items[j] # <<>> /\ ~Parses(c.type, V.items[j])
  <2>1. Compiled(c, r) =
          IF r.condition # "ok" THEN Answer(r.condition)
          ELSE IF r.fails THEN Answer("error")
          ELSE IF wrong THEN Answer("error")
          ELSE IF V.fault THEN Answer("fault")
          ELSE IF V.items = <<>> THEN Answer("declined")
          ELSE IF KeyFaults(c, texts) THEN Answer("fault")
          ELSE [rc |-> "ok", stats |-> sum]
    BY DEF Compiled
  <2>2. V.items = values /\ V.fault = FALSE
    BY <1>2
  <2> HIDE DEF V, values
  <2>3. (wrong <=> bad) /\ start = first
    BY <2>2
  <2>4. sum = built
    <3> HIDE DEF start, first
    <3> QED BY <2>3
  <2> HIDE DEF sum, built, wrong, bad, texts, start, first
  <2> QED BY <1>3, <2>1, <2>2, <2>3, <2>4
<1>5. Expected(c, r) = IF bad THEN Answer("error") ELSE IF values = <<>> THEN Answer("declined")
                       ELSE [rc |-> "ok", stats |-> stats]
  <2> DEFINE wrong == \E v \in {values[j] : j \in DOMAIN values} : v # <<>> /\ ~Parses(c.type, v)
  <2>1. Expected(c, r) = IF wrong THEN Answer("error") ELSE IF values = <<>> THEN Answer("declined")
                         ELSE [rc |-> "ok", stats |-> stats]
    BY DEF Expected
  <2> HIDE DEF values, stats
  <2>2. wrong <=> bad
    OBVIOUS
  <2> HIDE DEF wrong, bad
  <2> QED BY <2>1, <2>2
<1>6. values # <<>> => built = stats
  <2>1. SUFFICES ASSUME values # <<>> PROVE built = stats
    OBVIOUS
  <2>2. Given(c, r, values, parts, texts)
    BY <2>1, GivenHolds
  <2>3. built = AddUpto(c, texts, first, l)
    BY <1>1, AddIs DEF AddUpto
  <2> HIDE DEF built
  <2>4. \A j : keys(j) = KeysUpto(c, r, parts, j, l)
    BY <1>1, KeysIs DEF KeysUpto
  <2>5. first = [j \in DOMAIN values |-> NewStat(values[j])]
    OBVIOUS
  <2> HIDE DEF keys, first, values, parts, texts
  <2>6. MadeUpto(c, r, values, parts, AddUpto(c, texts, first, l), l)
    BY <2>2, <2>5, MadeHolds
  <2>7. built = [j \in 1..size |-> StatUpto(c, r, values, parts, j, l)]
    BY <2>2, <2>3, <2>6, MadeIsExpected
  <2> HIDE DEF size
  <2>8. \A j : StatUpto(c, r, values, parts, j, l) = [value |-> ValueOf(c, values, j), keys |-> keys(j)]
    BY <2>4 DEF StatUpto
  <2> QED BY <2>7, <2>8
<1> HIDE DEF values, bad, built, stats
<1> QED BY <1>4, <1>5, <1>6
----------------------------------------------------------------------------
(* What a call has answered, or that the metric was not to be asked        *)
Answered ==
  request # NoRequest =>
    /\ request \in Requests /\ Len(request.keys) = Len(conf.keys)
    /\ \/ result = Compiled(conf, request)
       \/ result = Answer("declined") /\ (conf.disable \/ conf.timeout # 0)

(* ngx_statshouse_stat_compile() adds the keys one after the other and     *)
(* opens stats as it goes; what comes out is what each stat is to be, for  *)
(* every metric and every request without delimiters of groups.            *)
THEOREM StatsAreExact == Spec => []StatsExact
<1>1. Init => Answered
  BY DEF Init, Answered
<1>2. Answered /\ [Next]_vars => Answered'
  <2>1. SUFFICES ASSUME Answered, [Next]_vars PROVE Answered'
    OBVIOUS
  <2>2. ASSUME NEW r \in Requests, Decline(r) PROVE Answered'
    <3>1. request' = r /\ Len(r.keys) = Len(conf.keys)
      BY <2>2, BeginFacts DEF Decline
    <3>2. conf' = conf /\ result' = Answer("declined") /\ (conf.disable \/ conf.timeout # 0)
      BY <2>2 DEF Decline, TooSoon
    <3> QED BY <3>1, <3>2 DEF Answered
  <2>3. ASSUME NEW r \in Requests, Compile(r) PROVE Answered'
    <3>1. request' = r /\ Len(r.keys) = Len(conf.keys)
      BY <2>3, BeginFacts DEF Compile
    <3>2. conf' = conf /\ result' = Compiled(conf, r)
      BY <2>3 DEF Compile
    <3> QED BY <3>1, <3>2 DEF Answered
  <2>4. CASE Finish
    BY <2>4 DEF Finish, Answered
  <2>5. CASE Clock
    BY <2>1, <2>5 DEF Clock, Answered
  <2>6. CASE UNCHANGED vars
    BY <2>1, <2>6 DEF vars, Answered
  <2> QED BY <2>1, <2>2, <2>3, <2>4, <2>5, <2>6 DEF Next
<1>3. Inv /\ Answered => StatsExact
  <2>1. SUFFICES ASSUME conf \in Confs, Answered, request # NoRequest, CleanRequest(request),
                        ~request.fails, request.condition = "ok",
                        conf.disable \/ conf.timeout # 0 => result.rc # "declined"
                 PROVE  result = Expected(conf, request)
    BY DEF Inv, StatsExact
  <2>2. request \in Requests /\ Len(request.keys) = Len(conf.keys)
    BY <2>1 DEF Answered
  <2>3. result = Compiled(conf, request)
    BY <2>1 DEF Answered, Answer
  <2> QED BY <2>1, <2>2, <2>3, CompiledExact
<1> QED BY <1>1, <1>2, <1>3, Invariant, PTL DEF Spec
=============================================================================
