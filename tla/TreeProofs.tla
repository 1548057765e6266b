----------------------------- MODULE TreeProofs -----------------------------
(***************************************************************************)
(* The aggregator with its red-black tree, for every tree of any size, in  *)
(* three parts:                                                            *)
(*   - the walks: in a tree whose nodes are in order, an insertion goes    *)
(*     down to where order is kept, and a lookup finds nothing but what it *)
(*     looks for, and finds that unless a node of another type ties;       *)
(*   - the nodes: insertion and deletion, however they rotate, add and     *)
(*     remove one node and keep the others in order;                       *)
(*   - the aggregator: the tree links the open records of the queue, and   *)
(*     so a walk over it answers as Aggregate says that a lookup may.      *)
(***************************************************************************)
EXTENDS AggregateTree, AggregateProofs

(* Part one: the two walks *)

(* The recursions: from a subtree to the one below in which the walk goes  *)
(* on                                                                      *)
DescendDef(c, f, s) ==
  LET i == Top(c[1], s)
  IN IF Sentinel(s) THEN s[1]
     ELSE IF Before(c[2], c[1].nodes[i]) THEN f[Left(s, i)]
     ELSE f[Right(s, i)]
DescendRec == INSTANCE Lemmas WITH Def <- DescendDef, Op <- NoOp

WalkDef(c, f, s) ==
  LET i == Top(c[1], s)
      n == c[1].nodes[i]
  IN IF Sentinel(s) THEN NotFound
     ELSE IF <<c[2], c[3], c[4]>> = <<n.key, n.size, n.type>> THEN n.off
     ELSE IF TurnsLeft(c[2], c[3], c[4], n) THEN f[Left(s, i)]
     ELSE f[Right(s, i)]
WalkRec == INSTANCE Lemmas WITH Def <- WalkDef, Op <- NoOp

Nodes == [off : Nat, key : Nat, size : Nat, type : 1..3]

IsTree(t) ==
  /\ t.nodes \in Seq(Nodes)
  /\ t.depth \in [1..Len(t.nodes) -> Nat]

(* No node lies to the right of one that it goes to the left of.           *)
Sorted(t) == \A i, j \in 1..Len(t.nodes) : i < j => ~Before(t.nodes[j], t.nodes[i])

(* How many nodes a subtree has                                            *)
Nodecount(s) == IF Sentinel(s) THEN 0 ELSE s[2] - s[1] + 1

(* A tree has a length and its places.                                     *)
LEMMA TreePlaces ==
  ASSUME NEW t, IsTree(t)
  PROVE  Len(t.nodes) \in Nat /\ DOMAIN t.nodes = 1..Len(t.nodes) /\ \A i \in 1..Len(t.nodes) : t.nodes[i] \in Nodes
BY DEF IsTree

(* A subtree that has nodes has one at its top.                            *)
LEMMA TopIn ==
  ASSUME NEW t, IsTree(t), NEW s \in Spans(t), ~Sentinel(s)
  PROVE  Top(t, s) \in s[1]..s[2]
<1> DEFINE I == s[1]..s[2]
           d == t.depth
           T == {k \in Nat : (\E y \in I : d[y] <= k) => \E x \in I : \A y \in I : d[x] <= d[y]}
<1>1. I # {} /\ \A y \in I : d[y] \in Nat
  <2>1. s[1] \in 1..Len(t.nodes)+1 /\ s[2] \in 0..Len(t.nodes) /\ s[1] <= s[2]
    BY TreePlaces DEF Spans, Sentinel
  <2>2. \A y \in I : y \in 1..Len(t.nodes)
    BY <2>1, TreePlaces
  <2> QED BY <2>1, <2>2 DEF IsTree
<1> HIDE DEF I, d
<1>2. 0 \in T
  BY <1>1
<1>3. ASSUME NEW k \in Nat, k \in T PROVE k + 1 \in T
  <2>1. SUFFICES ASSUME NEW z \in I, d[z] <= k + 1, ~\E y \in I : d[y] <= k
        PROVE  \E x \in I : \A y \in I : d[x] <= d[y]
    BY <1>3
  <2>2. \A y \in I : d[z] <= d[y]
    BY <1>1, <2>1
  <2> QED BY <2>2
<1>4. \A k \in Nat : k \in T
  <2> HIDE DEF T
  <2> QED BY <1>2, <1>3, WalkRec!SetInduction
<1>5. \E x \in I : \A y \in I : d[x] <= d[y]
  <2>1. PICK y \in I : TRUE
    BY <1>1
  <2>2. d[y] \in T /\ d[y] <= d[y]
    BY <1>1, <1>4
  <2> QED BY <2>2
<1> QED BY <1>5 DEF I, d, Top

(* The two subtrees below the top have fewer nodes.                        *)
LEMMA SubtreesBelow ==
  ASSUME NEW t, IsTree(t), NEW s \in Spans(t), ~Sentinel(s), NEW i \in s[1]..s[2]
  PROVE  /\ Left(s, i) \in Spans(t) /\ Nodecount(Left(s, i)) < Nodecount(s)
         /\ Right(s, i) \in Spans(t) /\ Nodecount(Right(s, i)) < Nodecount(s)
         /\ Nodecount(s) \in Nat
<1>1. s[1] \in 1..Len(t.nodes)+1 /\ s[2] \in 0..Len(t.nodes) /\ s[1] <= s[2] /\ Len(t.nodes) \in Nat
  BY TreePlaces DEF Spans, Sentinel
<1>2. Left(s, i) \in Spans(t) /\ Right(s, i) \in Spans(t)
  BY <1>1 DEF Left, Right, Spans
<1> QED BY <1>1, <1>2 DEF Left, Right, Nodecount, Sentinel

(* What the walks recur on                                                 *)
LEMMA Descents ==
  ASSUME NEW t, IsTree(t), NEW n, NEW key, NEW size, NEW type
  PROVE  /\ \A s \in Spans(t) :
              DescendRec!Recursive(<<t, n>>, Spans(t))[s]
                = DescendDef(<<t, n>>, DescendRec!Recursive(<<t, n>>, Spans(t)), s)
         /\ \A s \in Spans(t) :
              WalkRec!Recursive(<<t, key, size, type>>, Spans(t))[s]
                = WalkDef(<<t, key, size, type>>, WalkRec!Recursive(<<t, key, size, type>>, Spans(t)), s)
<1> DEFINE S == Spans(t)
           m == [s \in S |-> Nodecount(s)]
           a == <<t, n>>
           b == <<t, key, size, type>>
<1>1. m \in [S -> Nat]
  <2>1. ASSUME NEW s \in S PROVE Nodecount(s) \in Nat
    <3>1. s[1] \in 1..Len(t.nodes)+1 /\ s[2] \in 0..Len(t.nodes) /\ Len(t.nodes) \in Nat
      BY TreePlaces DEF Spans
    <3> QED BY <3>1 DEF Nodecount, Sentinel
  <2> QED BY <2>1
<1>2. ASSUME NEW f, NEW g, NEW s \in S, \A u \in S : m[u] < m[s] => f[u] = g[u], ~Sentinel(s)
      PROVE  f[Left(s, Top(t, s))] = g[Left(s, Top(t, s))] /\ f[Right(s, Top(t, s))] = g[Right(s, Top(t, s))]
  <2>1. Top(t, s) \in s[1]..s[2]
    BY <1>2, TopIn
  <2>2. /\ Left(s, Top(t, s)) \in S /\ Nodecount(Left(s, Top(t, s))) < Nodecount(s)
        /\ Right(s, Top(t, s)) \in S /\ Nodecount(Right(s, Top(t, s))) < Nodecount(s)
    BY <1>2, <2>1, SubtreesBelow
  <2> QED BY <1>2, <2>2
<1>3. a[1] = t /\ a[2] = n /\ b[1] = t /\ b[2] = key /\ b[3] = size /\ b[4] = type
  OBVIOUS
<1> HIDE DEF m, a, b, S
<1>4. DescendRec!LooksBelow(a, m, S)
  <2>1. SUFFICES ASSUME NEW f, NEW g, NEW s \in S, \A u \in S : m[u] < m[s] => f[u] = g[u]
        PROVE  DescendDef(a, f, s) = DescendDef(a, g, s)
    BY DEF DescendRec!LooksBelow
  <2>2. CASE Sentinel(s)
    BY <2>2 DEF DescendDef
  <2>3. CASE ~Sentinel(s)
    BY <1>2, <1>3, <2>1, <2>3 DEF DescendDef
  <2> QED BY <2>2, <2>3
<1>5. WalkRec!LooksBelow(b, m, S)
  <2>1. SUFFICES ASSUME NEW f, NEW g, NEW s \in S, \A u \in S : m[u] < m[s] => f[u] = g[u]
        PROVE  WalkDef(b, f, s) = WalkDef(b, g, s)
    BY DEF WalkRec!LooksBelow
  <2>2. CASE Sentinel(s)
    BY <2>2 DEF WalkDef
  <2>3. CASE ~Sentinel(s)
    BY <1>2, <1>3, <2>1, <2>3 DEF WalkDef
  <2> QED BY <2>2, <2>3
<1>6. DescendRec!Recursive(a, S) = [s \in S |-> DescendDef(a, DescendRec!Recursive(a, S), s)]
  BY <1>1, <1>4, DescendRec!RecursionHolds
<1>7. WalkRec!Recursive(b, S) = [s \in S |-> WalkDef(b, WalkRec!Recursive(b, S), s)]
  BY <1>1, <1>5, WalkRec!RecursionHolds
<1> DEFINE F == DescendRec!Recursive(a, S)
           G == WalkRec!Recursive(b, S)
           P(s) == DescendDef(a, F, s)
           Q(s) == WalkDef(b, G, s)
<1>8. F = [s \in S |-> P(s)] /\ G = [s \in S |-> Q(s)]
  BY <1>6, <1>7
<1>9. (\A s \in S : F[s] = P(s)) /\ (\A s \in S : G[s] = Q(s))
  <2> HIDE DEF F, G, P, Q
  <2> QED BY <1>8
<1> QED BY <1>9 DEF a, b, S

(* What holds of a subtree if it holds of the smaller ones holds of all.   *)
LEMMA SubtreeInduction ==
  ASSUME NEW t, IsTree(t), NEW P,
         \A s \in Spans(t) : Sentinel(s) => s \in P,
         \A s \in Spans(t) :
           ~Sentinel(s) /\ Left(s, Top(t, s)) \in P /\ Right(s, Top(t, s)) \in P => s \in P
  PROVE  \A s \in Spans(t) : s \in P
<1> DEFINE T == {k \in Nat : \A s \in Spans(t) : Nodecount(s) < k => s \in P}
<1>0. \A s \in Spans(t) : Nodecount(s) \in Nat
  <2>1. SUFFICES ASSUME NEW s \in Spans(t) PROVE Nodecount(s) \in Nat
    OBVIOUS
  <2>2. s[1] \in 1..Len(t.nodes)+1 /\ s[2] \in 0..Len(t.nodes) /\ Len(t.nodes) \in Nat
    BY TreePlaces DEF Spans
  <2> QED BY <2>2 DEF Nodecount, Sentinel
<1>1. 0 \in T
  BY <1>0
<1>2. ASSUME NEW k \in Nat, k \in T PROVE k + 1 \in T
  <2>1. SUFFICES ASSUME NEW s \in Spans(t), Nodecount(s) < k + 1, ~Sentinel(s) PROVE s \in P
    OBVIOUS
  <2> DEFINE l == Left(s, Top(t, s))
             r == Right(s, Top(t, s))
  <2>2. /\ l \in Spans(t) /\ Nodecount(l) < Nodecount(s)
        /\ r \in Spans(t) /\ Nodecount(r) < Nodecount(s)
    BY <2>1, TopIn, SubtreesBelow
  <2>3. l \in P /\ r \in P
    <3> HIDE DEF l, r
    <3> QED BY <1>0, <1>2, <2>1, <2>2
  <2> QED BY <2>1, <2>3
<1>3. \A k \in Nat : k \in T
  <2> HIDE DEF T
  <2> QED BY <1>1, <1>2, WalkRec!SetInduction
<1>4. ASSUME NEW s \in Spans(t) PROVE s \in P
  <2>1. Nodecount(s) + 1 \in T /\ Nodecount(s) < Nodecount(s) + 1
    BY <1>0, <1>3
  <2> QED BY <2>1
<1> QED BY <1>4
(* The walks start at the root.                                            *)
LEMMA SlotIs ==
  ASSUME NEW t, NEW n
  PROVE  Slot(t, n) = DescendRec!Recursive(<<t, n>>, Spans(t))[Root(t)]
BY DEF Slot, DescendDef, DescendRec!Recursive

(* Likewise                                                                *)
LEMMA WalkIs ==
  ASSUME NEW t, NEW key, NEW size, NEW type
  PROVE  Walk(t, key, size, type) = WalkRec!Recursive(<<t, key, size, type>>, Spans(t))[Root(t)]
BY DEF Walk, WalkDef, WalkRec!Recursive

(* A new node is linked where those on its left do not lie to its right    *)
(* and those on its right do.                                              *)
LEMMA SlotSplits ==
  ASSUME NEW t, IsTree(t), Sorted(t), NEW n \in Nodes
  PROVE  /\ Slot(t, n) \in 1..Len(t.nodes)+1
         /\ \A j \in 1..Len(t.nodes) : j < Slot(t, n) => ~Before(n, t.nodes[j])
         /\ \A j \in 1..Len(t.nodes) : j >= Slot(t, n) => Before(n, t.nodes[j])
<1> DEFINE l == Len(t.nodes)
           F == DescendRec!Recursive(<<t, n>>, Spans(t))
           P == {s \in Spans(t) : s[1] <= s[2] + 1 =>
                  /\ F[s] \in s[1]..s[2]+1
                  /\ \A j \in s[1]..s[2] : j < F[s] => ~Before(n, t.nodes[j])
                  /\ \A j \in s[1]..s[2] : j >= F[s] => Before(n, t.nodes[j])}
<1>1. l \in Nat /\ \A i \in 1..l : t.nodes[i] \in Nodes
  BY TreePlaces
<1>2. \A s \in Spans(t) : F[s] = IF Sentinel(s) THEN s[1]
                                 ELSE IF Before(n, t.nodes[Top(t, s)]) THEN F[Left(s, Top(t, s))]
                                 ELSE F[Right(s, Top(t, s))]
  <2>1. \A s \in Spans(t) : F[s] = DescendDef(<<t, n>>, F, s)
    BY Descents
  <2> HIDE DEF F
  <2> QED BY <2>1 DEF DescendDef
<1>3. Slot(t, n) = F[Root(t)]
  BY SlotIs
<1> HIDE DEF F
<1>4. ASSUME NEW s \in Spans(t), Sentinel(s) PROVE s \in P
  <2>1. s[1] \in 1..l+1 /\ s[2] \in 0..l /\ s[1] > s[2]
    BY <1>4 DEF Spans, Sentinel
  <2>2. F[s] = s[1]
    BY <1>2, <1>4
  <2> QED BY <1>1, <2>1, <2>2
<1>5. ASSUME NEW s \in Spans(t), ~Sentinel(s), Left(s, Top(t, s)) \in P, Right(s, Top(t, s)) \in P
      PROVE  s \in P
  <2> DEFINE a == s[1]
             b == s[2]
             i == Top(t, s)
  <2>1. a \in 1..l+1 /\ b \in 0..l /\ a <= b /\ i \in a..b
    BY <1>5, TopIn DEF Spans, Sentinel
  <2>2. Left(s, i)[1] = a /\ Left(s, i)[2] = i - 1 /\ Right(s, i)[1] = i + 1 /\ Right(s, i)[2] = b
    BY DEF Left, Right
  <2>3. F[s] = IF Before(n, t.nodes[i]) THEN F[Left(s, i)] ELSE F[Right(s, i)]
    BY <1>2, <1>5
  <2>4. /\ F[Left(s, i)] \in a..i
        /\ \A j \in a..i-1 : j < F[Left(s, i)] => ~Before(n, t.nodes[j])
        /\ \A j \in a..i-1 : j >= F[Left(s, i)] => Before(n, t.nodes[j])
    BY <1>1, <1>5, <2>1, <2>2
  <2>5. /\ F[Right(s, i)] \in i+1..b+1
        /\ \A j \in i+1..b : j < F[Right(s, i)] => ~Before(n, t.nodes[j])
        /\ \A j \in i+1..b : j >= F[Right(s, i)] => Before(n, t.nodes[j])
    BY <1>1, <1>5, <2>1, <2>2
  <2> HIDE DEF i
  <2>6. \A j \in a..b : j \in 1..l /\ (j < i \/ j = i \/ i < j)
    BY <1>1, <2>1
  <2>7. CASE Before(n, t.nodes[i])
    <3>1. ASSUME NEW j \in a..b, i <= j PROVE Before(n, t.nodes[j])
      <4>1. i = j \/ ~Before(t.nodes[j], t.nodes[i])
        BY <1>1, <2>1, <2>6, <3>1 DEF Sorted
      <4>2. t.nodes[i] \in Nodes /\ t.nodes[j] \in Nodes
        BY <1>1, <2>1, <2>6
      <4> QED BY <2>7, <4>1, <4>2 DEF Before, Nodes
    <3>2. F[s] = F[Left(s, i)]
      BY <2>3, <2>7
    <3>3. F[s] \in a..b+1
      BY <1>1, <2>1, <2>4, <3>2
    <3>4. ASSUME NEW j \in a..b PROVE (j < F[s] => ~Before(n, t.nodes[j])) /\ (j >= F[s] => Before(n, t.nodes[j]))
      <4>1. CASE j < i
        <5>1. j \in a..i-1
          BY <1>1, <2>1, <2>6, <4>1
        <5> QED BY <2>4, <3>2, <5>1
      <4>2. CASE i <= j
        <5>1. ~(j < F[s])
          BY <1>1, <2>1, <2>4, <3>2, <4>2
        <5> QED BY <3>1, <4>2, <5>1
      <4> QED BY <2>6, <4>1, <4>2, <2>1
    <3> QED BY <3>3, <3>4
  <2>8. CASE ~Before(n, t.nodes[i])
    <3>1. ASSUME NEW j \in a..b, j <= i PROVE ~Before(n, t.nodes[j])
      <4>1. i = j \/ ~Before(t.nodes[i], t.nodes[j])
        BY <1>1, <2>1, <2>6, <3>1 DEF Sorted
      <4>2. t.nodes[i] \in Nodes /\ t.nodes[j] \in Nodes
        BY <1>1, <2>1, <2>6
      <4> QED BY <2>8, <4>1, <4>2 DEF Before, Nodes
    <3>2. F[s] = F[Right(s, i)]
      BY <2>3, <2>8
    <3>3. F[s] \in a..b+1
      BY <1>1, <2>1, <2>5, <3>2
    <3>4. ASSUME NEW j \in a..b PROVE (j < F[s] => ~Before(n, t.nodes[j])) /\ (j >= F[s] => Before(n, t.nodes[j]))
      <4>1. CASE i < j
        <5>1. j \in i+1..b
          BY <1>1, <2>1, <2>6, <4>1
        <5> QED BY <2>5, <3>2, <5>1
      <4>2. CASE j <= i
        <5>1. ~(j >= F[s])
          BY <1>1, <2>1, <2>5, <3>2, <4>2
        <5> QED BY <3>1, <4>2, <5>1
      <4> QED BY <2>6, <4>1, <4>2, <2>1
    <3> QED BY <3>3, <3>4
  <2> QED BY <2>7, <2>8
<1>6. Root(t) \in P
  <2>1. Root(t) \in Spans(t)
    BY <1>1 DEF Root, Spans
  <2>2. \A s \in Spans(t) : s \in P
    <3> HIDE DEF P
    <3> QED BY <1>4, <1>5, SubtreeInduction
  <2> QED BY <2>1, <2>2
<1>7. Root(t)[1] = 1 /\ Root(t)[2] = l
  BY DEF Root
<1> QED BY <1>1, <1>3, <1>6, <1>7

(* The node at place i is one that is looked for.                          *)
Fits(t, i, key, size, type) ==
  t.nodes[i].key = key /\ t.nodes[i].size = size /\ t.nodes[i].type = type

(* The walk finds nothing but what is looked for, and finds it if it is    *)
(* there and no node of another type ties with it.                         *)
LEMMA WalkFinds ==
  ASSUME NEW t, IsTree(t), Sorted(t), NEW key \in Nat, NEW size \in Nat, NEW type \in 1..3
  PROVE  LET off == Walk(t, key, size, type)
         IN /\ \/ off = NotFound
               \/ \E i \in 1..Len(t.nodes) : off = t.nodes[i].off /\ Fits(t, i, key, size, type)
            /\ /\ \E i \in 1..Len(t.nodes) : Fits(t, i, key, size, type)
               /\ \A i \in 1..Len(t.nodes) :
                    t.nodes[i].key = key /\ t.nodes[i].size = size => t.nodes[i].type = type
               => off # NotFound
<1> DEFINE l == Len(t.nodes)
           G == WalkRec!Recursive(<<t, key, size, type>>, Spans(t))
           fit(i) == Fits(t, i, key, size, type)
           lone == \A i \in 1..l : t.nodes[i].key = key /\ t.nodes[i].size = size => t.nodes[i].type = type
           P == {s \in Spans(t) :
                  /\ G[s] = NotFound \/ \E i \in 1..l : G[s] = t.nodes[i].off /\ fit(i)
                  /\ lone /\ (\E i \in s[1]..s[2] : fit(i)) => G[s] # NotFound}
<1>1. l \in Nat /\ \A i \in 1..l : t.nodes[i] \in Nodes
  BY TreePlaces
<1>2. \A s \in Spans(t) :
        G[s] = LET n == t.nodes[Top(t, s)]
               IN IF Sentinel(s) THEN NotFound
                  ELSE IF <<key, size, type>> = <<n.key, n.size, n.type>> THEN n.off
                  ELSE IF TurnsLeft(key, size, type, n) THEN G[Left(s, Top(t, s))]
                  ELSE G[Right(s, Top(t, s))]
  <2>1. \A s \in Spans(t) : G[s] = WalkDef(<<t, key, size, type>>, G, s)
    BY Descents
  <2> HIDE DEF G
  <2> QED BY <2>1 DEF WalkDef
<1>3. Walk(t, key, size, type) = G[Root(t)]
  BY WalkIs
<1> HIDE DEF G
<1>4. ASSUME NEW s \in Spans(t), Sentinel(s) PROVE s \in P
  <2>1. s[1] \in 1..l+1 /\ s[2] \in 0..l /\ s[1] > s[2]
    BY <1>4 DEF Spans, Sentinel
  <2>2. G[s] = NotFound
    BY <1>2, <1>4
  <2>3. ~\E i \in s[1]..s[2] : TRUE
    BY <1>1, <2>1
  <2> QED BY <2>2, <2>3
<1>5. ASSUME NEW s \in Spans(t), ~Sentinel(s), Left(s, Top(t, s)) \in P, Right(s, Top(t, s)) \in P
      PROVE  s \in P
  <2> DEFINE a == s[1]
             b == s[2]
             i == Top(t, s)
             n == t.nodes[i]
  <2>1. a \in 1..l+1 /\ b \in 0..l /\ a <= b /\ i \in a..b
    BY <1>5, TopIn DEF Spans, Sentinel
  <2>2. Left(s, i)[1] = a /\ Left(s, i)[2] = i - 1 /\ Right(s, i)[1] = i + 1 /\ Right(s, i)[2] = b
    BY DEF Left, Right
  <2>3. G[s] = IF fit(i) THEN n.off
               ELSE IF TurnsLeft(key, size, type, n) THEN G[Left(s, i)] ELSE G[Right(s, i)]
    BY <1>2, <1>5 DEF Fits
  <2>4. /\ G[Left(s, i)] = NotFound \/ \E j \in 1..l : G[Left(s, i)] = t.nodes[j].off /\ fit(j)
        /\ lone /\ (\E j \in a..i-1 : fit(j)) => G[Left(s, i)] # NotFound
    BY <1>5, <2>2
  <2>5. /\ G[Right(s, i)] = NotFound \/ \E j \in 1..l : G[Right(s, i)] = t.nodes[j].off /\ fit(j)
        /\ lone /\ (\E j \in i+1..b : fit(j)) => G[Right(s, i)] # NotFound
    BY <1>5, <2>2
  <2> HIDE DEF i
  <2>6. i \in 1..l /\ n \in Nodes /\ n.off # NotFound
    <3>1. i \in 1..l /\ n \in Nodes
      BY <1>1, <2>1
    <3> QED BY <3>1 DEF Nodes, NotFound
  <2>7. CASE fit(i)
    <3>1. G[s] = n.off
      BY <2>3, <2>7
    <3> HIDE DEF n
    <3> QED BY <2>6, <2>7, <3>1 DEF n
  <2>8. CASE ~fit(i)
    <3>1. G[s] = NotFound \/ \E j \in 1..l : G[s] = t.nodes[j].off /\ fit(j)
      BY <2>3, <2>4, <2>5, <2>8
    <3>2. ASSUME lone, NEW j \in a..b, fit(j) PROVE G[s] # NotFound
      <4>1. j \in 1..l /\ j # i /\ t.nodes[j] \in Nodes
        BY <1>1, <2>1, <2>8, <3>2
      <4>2. ~(n.key = key /\ n.size = size)
        BY <2>6, <2>8, <3>2 DEF Fits
      <4>3. CASE j < i
        <5>1. ~Before(n, t.nodes[j])
          BY <2>6, <4>1, <4>3 DEF Sorted
        <5>2. TurnsLeft(key, size, type, n)
          BY <2>6, <3>2, <4>1, <4>2, <5>1 DEF TurnsLeft, Before, Fits, Nodes
        <5>3. j \in a..i-1
          BY <1>1, <2>1, <2>6, <4>3
        <5> QED BY <2>3, <2>4, <2>8, <3>2, <5>2, <5>3
      <4>4. CASE i < j
        <5>1. ~Before(t.nodes[j], n)
          BY <2>6, <4>1, <4>4 DEF Sorted
        <5>2. ~TurnsLeft(key, size, type, n)
          BY <2>6, <3>2, <4>1, <4>2, <5>1 DEF TurnsLeft, Before, Fits, Nodes
        <5>3. j \in i+1..b
          BY <1>1, <2>1, <2>6, <4>4
        <5> QED BY <2>3, <2>5, <2>8, <3>2, <5>2, <5>3
      <4> QED BY <2>6, <4>1, <4>3, <4>4
    <3> QED BY <3>1, <3>2
  <2> QED BY <2>7, <2>8
<1>6. Root(t) \in P
  <2>1. Root(t) \in Spans(t)
    BY <1>1 DEF Root, Spans
  <2>2. \A s \in Spans(t) : s \in P
    <3> HIDE DEF P
    <3> QED BY <1>4, <1>5, SubtreeInduction
  <2> QED BY <2>1, <2>2
<1>7. Root(t)[1] = 1 /\ Root(t)[2] = l
  BY DEF Root
<1> HIDE DEF l
<1>8. G[Root(t)] = NotFound \/ \E i \in 1..l : G[Root(t)] = t.nodes[i].off /\ fit(i)
  BY <1>6
<1>9. lone /\ (\E i \in 1..l : fit(i)) => G[Root(t)] # NotFound
  BY <1>6, <1>7
<1> QED BY <1>3, <1>8, <1>9 DEF l
----------------------------------------------------------------------------
(* Part two: what becomes of the nodes                                     *)

(* A sequence with one more element                                        *)
LEMMA InsertIs ==
  ASSUME NEW s \in Seq(Nodes), NEW x \in Nodes, NEW k \in 1..Len(s)+1
  PROVE  /\ InsertAt(s, k, x) \in Seq(Nodes) /\ Len(InsertAt(s, k, x)) = Len(s) + 1
         /\ \A j \in 1..Len(s)+1 : InsertAt(s, k, x)[j] = IF j < k THEN s[j] ELSE IF j = k THEN x ELSE s[j-1]
<1> DEFINE l == Len(s)
           a == SubSeq(s, 1, k-1)
           b == SubSeq(s, k, l)
           m == l - k + 1
<1>1. l \in Nat /\ DOMAIN s = 1..l /\ k \in 1..l+1 /\ m \in Nat /\ k - 1 \in Nat /\ k \in Nat
  OBVIOUS
<1>2. a \in Seq(Nodes) /\ Len(a) = k - 1 /\ \A j \in 1..k-1 : a[j] = s[j]
  OBVIOUS
<1>3. b \in Seq(Nodes) /\ Len(b) = m /\ \A j \in 1..m : b[j] = s[k+j-1]
  OBVIOUS
<1> HIDE DEF a, b, m
<1>4. /\ a \o <<x>> \in Seq(Nodes) /\ Len(a \o <<x>>) = k
      /\ (\A j \in 1..k-1 : (a \o <<x>>)[j] = a[j]) /\ (a \o <<x>>)[k] = x
  BY <1>1, <1>2
<1> DEFINE c == a \o <<x>>
           u == c \o b
<1> HIDE DEF c
<1>5. c \in Seq(Nodes) /\ Len(c) = k /\ (\A j \in 1..k-1 : c[j] = a[j]) /\ c[k] = x
  BY <1>4 DEF c
<1>6. u \in Seq(Nodes) /\ Len(u) = k + m /\ \A j \in 1..k+m : u[j] = IF j <= k THEN c[j] ELSE b[j-k]
  <2>1. u \in Seq(Nodes)
    BY <1>3, <1>5
  <2>2. Len(u) = k + m
    BY <1>3, <1>5
  <2>3. ASSUME NEW j \in 1..k+m PROVE u[j] = IF j <= k THEN c[j] ELSE b[j-k]
    <3> HIDE DEF l
    <3>1. k \in Nat /\ m \in Nat
      BY <1>1
    <3>2. CASE j <= k
      <4>1. j \in 1..Len(c)
        BY <1>5, <3>1, <3>2
      <4>2. (c \o b)[j] = c[j]
        BY <1>3, <1>5, <4>1
      <4> QED BY <3>2, <4>2
    <3>3. CASE ~(j <= k)
      <4>1. j \in Len(c)+1..Len(c)+Len(b)
        BY <1>3, <1>5, <3>1, <3>3
      <4>2. (c \o b)[j] = b[j - Len(c)]
        BY <1>3, <1>5, <3>1, <4>1
      <4> QED BY <1>5, <3>3, <4>2
    <3> QED BY <3>2, <3>3
  <2> QED BY <2>1, <2>2, <2>3
<1>7. InsertAt(s, k, x) = u
  BY DEF InsertAt, a, b, c
<1> HIDE DEF u
<1>8. k + m = l + 1
  BY <1>1 DEF m
<1>9. ASSUME NEW j \in 1..l+1 PROVE u[j] = IF j < k THEN s[j] ELSE IF j = k THEN x ELSE s[j-1]
  <2>1. CASE j < k
    BY <1>1, <1>2, <1>5, <1>6, <1>8, <2>1
  <2>2. CASE j = k
    BY <1>1, <1>5, <1>6, <1>8, <2>2
  <2>3. CASE j > k
    <3>1. j - k \in 1..m /\ k + (j - k) - 1 = j - 1
      BY <1>1, <1>8, <2>3
    <3> QED BY <1>1, <1>3, <1>6, <1>8, <2>3, <3>1
  <2> QED BY <1>1, <2>1, <2>2, <2>3
<1> QED BY <1>6, <1>7, <1>8, <1>9

(* A sequence with one element less                                        *)
LEMMA RemoveIs ==
  ASSUME NEW X, NEW s \in Seq(X), NEW k \in 1..Len(s)
  PROVE  /\ RemoveAt(s, k) \in Seq(X) /\ Len(RemoveAt(s, k)) = Len(s) - 1
         /\ \A j \in 1..Len(s)-1 : RemoveAt(s, k)[j] = IF j < k THEN s[j] ELSE s[j+1]
<1> DEFINE l == Len(s)
           a == SubSeq(s, 1, k-1)
           b == SubSeq(s, k+1, l)
           m == l - k
           p == k - 1
           u == a \o b
<1>1. l \in Nat /\ DOMAIN s = 1..l /\ k \in 1..l /\ m \in Nat /\ p \in Nat /\ k \in Nat /\ p + m = l - 1
  OBVIOUS
<1>2. a \in Seq(X) /\ Len(a) = p /\ \A j \in 1..p : a[j] = s[j]
  OBVIOUS
<1>3. b \in Seq(X) /\ Len(b) = m /\ \A j \in 1..m : b[j] = s[k+j]
  OBVIOUS
<1> HIDE DEF a, b, p, m
<1>4. u \in Seq(X) /\ Len(u) = p + m /\ \A j \in 1..p+m : u[j] = IF j <= p THEN a[j] ELSE b[j-p]
  BY <1>1, <1>2, <1>3
<1>5. RemoveAt(s, k) = u
  BY DEF RemoveAt, a, b
<1> HIDE DEF u
<1>6. ASSUME NEW j \in 1..l-1 PROVE u[j] = IF j < k THEN s[j] ELSE s[j+1]
  <2>1. CASE j < k
    BY <1>1, <1>2, <1>4, <2>1 DEF p
  <2>2. CASE j >= k
    <3>1. j - p \in 1..m /\ k + (j - p) = j + 1 /\ ~(j <= p)
      BY <1>1, <2>2 DEF m, p
    <3>2. u[j] = b[j-p]
      BY <1>1, <1>4, <3>1
    <3>3. b[j-p] = s[k+(j-p)]
      BY <1>3, <3>1
    <3> QED BY <2>2, <3>1, <3>2, <3>3
  <2> QED BY <1>1, <2>1, <2>2
<1> QED BY <1>1, <1>4, <1>5, <1>6

(* The nodes of a tree; no two are one record's.                           *)
NodesOf(t) == {t.nodes[i] : i \in 1..Len(t.nodes)}
Distinct(t) == \A i, j \in 1..Len(t.nodes) : t.nodes[i].off = t.nodes[j].off => i = j

(* A tree fit for the walks                                                *)
Sound(t) == IsTree(t) /\ Sorted(t) /\ Distinct(t)

(* Rotations leave the nodes and their order.                              *)
LEMMA BalancedIs ==
  ASSUME NEW nodes \in Seq(Nodes), NEW u \in Balanced(nodes)
  PROVE  u.nodes = nodes /\ IsTree(u)
<1>1. PICK d \in [DOMAIN nodes -> 0..Len(nodes)] : u = [nodes |-> nodes, depth |-> d]
  BY DEF Balanced
<1>2. DOMAIN nodes = 1..Len(nodes) /\ Len(nodes) \in Nat
  OBVIOUS
<1>3. u.nodes = nodes /\ u.depth = d /\ d \in [1..Len(nodes) -> Nat]
  BY <1>1, <1>2
<1> QED BY <1>3 DEF IsTree

(* ngx_rbtree_insert() adds the node where it belongs.                     *)
LEMMA InsertedIs ==
  ASSUME NEW t, Sound(t), NEW n \in Nodes, \A m \in NodesOf(t) : m.off # n.off, NEW u \in Inserted(t, n)
  PROVE  Sound(u) /\ NodesOf(u) = NodesOf(t) \cup {n}
<1> DEFINE l == Len(t.nodes)
           k == Slot(t, n)
           q == InsertAt(t.nodes, k, n)
<1>1. l \in Nat /\ t.nodes \in Seq(Nodes) /\ \A i \in 1..l : t.nodes[i] \in Nodes
  BY TreePlaces DEF Sound, IsTree
<1>2. /\ k \in 1..l+1
      /\ \A j \in 1..l : j < k => ~Before(n, t.nodes[j])
      /\ \A j \in 1..l : j >= k => Before(n, t.nodes[j])
  BY SlotSplits DEF Sound
<1> HIDE DEF k
<1>3. /\ q \in Seq(Nodes) /\ Len(q) = l + 1
      /\ \A j \in 1..l+1 : q[j] = IF j < k THEN t.nodes[j] ELSE IF j = k THEN n ELSE t.nodes[j-1]
  <2>1. PICK s, i : s = t.nodes /\ i = k
    OBVIOUS
  <2>2. s \in Seq(Nodes) /\ i \in 1..Len(s)+1
    BY <1>1, <1>2, <2>1
  <2>3. /\ InsertAt(s, i, n) \in Seq(Nodes) /\ Len(InsertAt(s, i, n)) = Len(s) + 1
        /\ \A j \in 1..Len(s)+1 :
             InsertAt(s, i, n)[j] = IF j < i THEN s[j] ELSE IF j = i THEN n ELSE s[j-1]
    BY <2>2, InsertIs
  <2> QED BY <2>1, <2>3
<1>4. u \in Balanced(q)
  BY DEF Inserted, k
<1> HIDE DEF q
<1>5. u.nodes = q /\ IsTree(u)
  BY <1>3, <1>4, BalancedIs
<1> HIDE DEF l
<1> DEFINE old(j) == IF j < k THEN j ELSE j - 1
<1>6. \A j \in 1..l+1 : j # k => old(j) \in 1..l /\ q[j] = t.nodes[old(j)]
  BY <1>1, <1>2, <1>3
<1>7. q[k] = n
  BY <1>2, <1>3
<1>8. \A i, j \in 1..l+1 : i # k /\ j # k => (i < j <=> old(i) < old(j)) /\ (old(i) = old(j) => i = j)
  BY <1>1, <1>2
<1>9. \A i \in 1..l+1 : (i < k => old(i) < k) /\ (i > k => old(i) >= k)
  BY <1>1, <1>2
<1> HIDE DEF old
<1>10. Sorted(u)
  <2>1. SUFFICES ASSUME NEW i \in 1..l+1, NEW j \in 1..l+1, i < j PROVE ~Before(q[j], q[i])
    BY <1>3, <1>5 DEF Sorted
  <2>2. CASE i # k /\ j # k
    BY <1>6, <1>8, <2>1, <2>2 DEF Sound, Sorted, l
  <2>3. CASE i = k
    <3>1. Before(n, q[j]) /\ q[j] \in Nodes
      BY <1>1, <1>2, <1>6, <1>9, <2>1, <2>3
    <3> QED BY <1>7, <2>3, <3>1 DEF Before, Nodes
  <2>4. CASE j = k
    BY <1>1, <1>2, <1>6, <1>7, <1>9, <2>1, <2>4
  <2> QED BY <2>2, <2>3, <2>4
<1>11. Distinct(u)
  <2>1. SUFFICES ASSUME NEW i \in 1..l+1, NEW j \in 1..l+1, q[i].off = q[j].off PROVE i = j
    BY <1>3, <1>5 DEF Distinct
  <2>2. \A a \in 1..l : t.nodes[a].off # n.off
    BY DEF NodesOf, l
  <2>3. CASE i # k /\ j # k
    BY <1>6, <1>8, <2>1, <2>3 DEF Sound, Distinct, l
  <2>4. CASE i = k \/ j = k
    BY <1>6, <1>7, <2>1, <2>2, <2>4
  <2> QED BY <2>3, <2>4
<1>12. NodesOf(u) = NodesOf(t) \cup {n}
  <2>1. \A j \in 1..l+1 : q[j] \in NodesOf(t) \cup {n}
    BY <1>6, <1>7 DEF NodesOf, l
  <2>2. ASSUME NEW a \in 1..l PROVE \E j \in 1..l+1 : q[j] = t.nodes[a]
    <3>1. CASE a < k
      <4>1. a \in 1..l+1 /\ q[a] = t.nodes[a]
        BY <1>1, <1>3, <3>1
      <4> QED BY <4>1
    <3>2. CASE a >= k
      <4>1. a + 1 \in 1..l+1 /\ q[a+1] = t.nodes[a]
        BY <1>1, <1>2, <1>3, <3>2
      <4> QED BY <4>1
    <3> QED BY <1>1, <1>2, <3>1, <3>2
  <2>3. k \in 1..l+1 /\ q[k] = n
    BY <1>2, <1>7
  <2>4. NodesOf(u) = {q[j] : j \in 1..l+1} /\ NodesOf(t) = {t.nodes[a] : a \in 1..l}
    BY <1>3, <1>5 DEF NodesOf, l
  <2> QED BY <2>1, <2>2, <2>3, <2>4
<1> QED BY <1>5, <1>10, <1>11, <1>12 DEF Sound

(* ngx_rbtree_delete() takes the record's node out and leaves the others.  *)
LEMMA DeletedIs ==
  ASSUME NEW t, Sound(t), NEW n \in NodesOf(t), NEW u \in Deleted(t, n.off)
  PROVE  Sound(u) /\ NodesOf(u) = NodesOf(t) \ {n}
<1> DEFINE l == Len(t.nodes)
           k == CHOOSE i \in DOMAIN t.nodes : t.nodes[i].off = n.off
           q == RemoveAt(t.nodes, k)
<1>1. /\ l \in Nat /\ t.nodes \in Seq(Nodes) /\ DOMAIN t.nodes = 1..l
      /\ \A i \in 1..l : t.nodes[i] \in Nodes
  BY TreePlaces DEF Sound, IsTree
<1>2. k \in 1..l /\ t.nodes[k].off = n.off
  BY <1>1 DEF NodesOf
<1>3. t.nodes[k] = n
  <2>1. PICK i \in 1..l : t.nodes[i] = n
    BY DEF NodesOf
  <2>2. i = k
    <3> HIDE DEF k
    <3> QED BY <1>2, <2>1 DEF Sound, Distinct
  <2> QED BY <2>1, <2>2
<1> HIDE DEF k
<1>4. /\ q \in Seq(Nodes) /\ Len(q) = l - 1
      /\ \A j \in 1..l-1 : q[j] = IF j < k THEN t.nodes[j] ELSE t.nodes[j+1]
  BY <1>1, <1>2, RemoveIs
<1>5. u \in Balanced(q)
  BY DEF Deleted, k
<1> HIDE DEF q
<1>6. u.nodes = q /\ IsTree(u)
  BY <1>4, <1>5, BalancedIs
<1> HIDE DEF l
<1> DEFINE old(j) == IF j < k THEN j ELSE j + 1
<1>7. \A j \in 1..l-1 : old(j) \in 1..l /\ old(j) # k /\ q[j] = t.nodes[old(j)]
  BY <1>1, <1>2, <1>4
<1>8. \A i, j \in 1..l-1 : (i < j => old(i) < old(j)) /\ (old(i) = old(j) => i = j)
  BY <1>1, <1>2
<1>9. \A a \in 1..l : a # k => \E j \in 1..l-1 : old(j) = a
  <2>1. SUFFICES ASSUME NEW a \in 1..l, a # k PROVE \E j \in 1..l-1 : old(j) = a
    OBVIOUS
  <2>2. CASE a < k
    <3>1. a \in 1..l-1 /\ old(a) = a
      BY <1>1, <1>2, <2>2
    <3> QED BY <3>1
  <2>3. CASE a > k
    <3>1. a - 1 \in 1..l-1 /\ old(a - 1) = a
      BY <1>1, <1>2, <2>3
    <3> QED BY <3>1
  <2> QED BY <1>1, <1>2, <2>1, <2>2, <2>3
<1> HIDE DEF old
<1>10. Sorted(u)
  <2>1. SUFFICES ASSUME NEW i \in 1..l-1, NEW j \in 1..l-1, i < j PROVE ~Before(q[j], q[i])
    BY <1>4, <1>6 DEF Sorted
  <2> QED BY <1>7, <1>8, <2>1 DEF Sound, Sorted, l
<1>11. Distinct(u)
  <2>1. SUFFICES ASSUME NEW i \in 1..l-1, NEW j \in 1..l-1, q[i].off = q[j].off PROVE i = j
    BY <1>4, <1>6 DEF Distinct
  <2> QED BY <1>7, <1>8, <2>1 DEF Sound, Distinct, l
<1>12. NodesOf(u) = NodesOf(t) \ {n}
  <2>1. ASSUME NEW a \in 1..l, a # k PROVE t.nodes[a] # n
    BY <1>2, <1>3, <2>1 DEF Sound, Distinct, l
  <2>2. \A j \in 1..l-1 : q[j] \in NodesOf(t) /\ q[j] # n
    BY <1>7, <2>1 DEF NodesOf, l
  <2>3. ASSUME NEW a \in 1..l, t.nodes[a] # n PROVE \E j \in 1..l-1 : q[j] = t.nodes[a]
    BY <1>3, <1>7, <1>9, <2>3
  <2>4. NodesOf(u) = {q[j] : j \in 1..l-1} /\ NodesOf(t) = {t.nodes[a] : a \in 1..l}
    BY <1>4, <1>6 DEF NodesOf, l
  <2> QED BY <2>2, <2>3, <2>4
<1> QED BY <1>6, <1>10, <1>11, <1>12 DEF Sound
----------------------------------------------------------------------------
(* Part three: the aggregator with its tree                                *)

(* The nodes of the records of q that are open                             *)
Open(q) == {NodeOf(q[i]) : i \in {j \in 1..Len(q) : q[j].key # 0}}

(* The tree t links the open records of q.                                 *)
Links(t, q) == Sound(t) /\ NodesOf(t) = Open(q)

TInv == Inv /\ Links(tree, queue)

(* The types have different numbers.                                       *)
LEMMA TypesDiffer ==
  ASSUME NEW a \in Series, NEW b \in Series
  PROVE  TypeNo(Kind[a]) \in 1..3 /\ (TypeNo(Kind[a]) = TypeNo(Kind[b]) => Kind[a] = Kind[b])
<1>1. Kind[a] \in {"counter", "value", "unique"} /\ Kind[b] \in {"counter", "value", "unique"}
  BY SeriesAssumption DEF Kinds
<1> QED BY <1>1 DEF TypeNo

(* The node of a record                                                    *)
LEMMA NodeIs ==
  ASSUME NEW r \in Record
  PROVE  /\ NodeOf(r) \in Nodes /\ NodeOf(r).off = r.off /\ NodeOf(r).key = r.key
         /\ NodeOf(r).size = r.size /\ NodeOf(r).type = TypeNo(Kind[r.series])
<1>1. r.off \in Nat /\ r.key \in Nat /\ r.size \in Nat /\ TypeNo(Kind[r.series]) \in 1..3
  BY RecordFields, TypesDiffer
<1> QED BY <1>1 DEF NodeOf, Nodes

(* What Inv says of the queue                                              *)
LEMMA QueueFacts ==
  ASSUME Inv
  PROVE  /\ queue \in Seq(Record) /\ Len(queue) \in Nat /\ DOMAIN queue = 1..Len(queue)
         /\ \A i \in 1..Len(queue) : queue[i] \in Record
         /\ \A i, j \in 1..Len(queue) : queue[i].off = queue[j].off => i = j
         /\ \A i \in 1..Len(queue) : queue[i].key # 0 => queue[i].off \in index
<1>1. TypeOK /\ ArenaTiled /\ IndexExact
  BY DEF Inv
<1>2. /\ queue \in Seq(Record) /\ Len(queue) \in Nat /\ DOMAIN queue = 1..Len(queue)
      /\ \A i \in 1..Len(queue) : queue[i] \in Record
  BY <1>1, QueueBlocks DEF TypeOK
<1>3. \A i, j \in 1..Len(queue) : queue[i].off = queue[j].off => i = j
  BY <1>1, <1>2, OffsetsDiffer DEF ArenaTiled
<1>4. \A i \in 1..Len(queue) : queue[i].key # 0 => queue[i].off \in index
  BY <1>1, <1>2 DEF IndexExact, OpenOffs
<1> QED BY <1>2, <1>3, <1>4

(* The walk answers as Aggregate says that a lookup may.                   *)
LEMMA FoundInLookup ==
  ASSUME TInv, NEW s \in Series, Kind[s] = "counter" \/ Values # 0
  PROVE  /\ Found(s) \in Lookup(s) /\ Found(s) \in 0..Len(queue)
         /\ Found(s) # 0 => queue[Found(s)].key # 0
<1> DEFINE l == Len(queue)
           key == Hash[s]
           size == RecSize(s)
           type == TypeNo(Kind[s])
           off == Walk(tree, key, size, type)
           n == Len(tree.nodes)
<1>1. /\ l \in Nat /\ DOMAIN queue = 1..l /\ (\A i \in 1..l : queue[i] \in Record)
      /\ (\A i, j \in 1..l : queue[i].off = queue[j].off => i = j)
      /\ \A i \in 1..l : queue[i].key # 0 => queue[i].off \in index
  BY QueueFacts DEF TInv
<1>2. key \in Nat /\ key # 0 /\ size \in Nat /\ type \in 1..3
  BY RecSizePositive, TypesDiffer, SeriesAssumption
<1>3. IsTree(tree) /\ Sorted(tree) /\ NodesOf(tree) = Open(queue)
  BY DEF TInv, Links, Sound
<1> HIDE DEF l, key, size, type
<1>4. /\ \/ off = NotFound
         \/ \E a \in 1..n : off = tree.nodes[a].off /\ Fits(tree, a, key, size, type)
      /\ /\ \E a \in 1..n : Fits(tree, a, key, size, type)
         /\ \A a \in 1..n : tree.nodes[a].key = key /\ tree.nodes[a].size = size => tree.nodes[a].type = type
         => off # NotFound
  BY <1>2, <1>3, WalkFinds
<1> HIDE DEF off, n
<1>5. \A a \in 1..n : \E j \in 1..l :
        /\ queue[j].key # 0 /\ tree.nodes[a].off = queue[j].off /\ tree.nodes[a].key = queue[j].key
        /\ tree.nodes[a].size = queue[j].size /\ tree.nodes[a].type = TypeNo(Kind[queue[j].series])
  <2>1. SUFFICES ASSUME NEW a \in 1..n
        PROVE  \E j \in 1..l :
                 /\ queue[j].key # 0 /\ tree.nodes[a].off = queue[j].off /\ tree.nodes[a].key = queue[j].key
                 /\ tree.nodes[a].size = queue[j].size /\ tree.nodes[a].type = TypeNo(Kind[queue[j].series])
    OBVIOUS
  <2>2. tree.nodes[a] \in Open(queue)
    BY <1>3 DEF NodesOf, n
  <2>3. PICK j \in 1..l : queue[j].key # 0 /\ tree.nodes[a] = NodeOf(queue[j])
    BY <2>2 DEF Open, l
  <2> QED BY <1>1, <2>3, NodeIs
<1>6. Tie(s) = {i \in 1..l : queue[i].off \in index /\ queue[i].key = key /\ queue[i].size = size}
  BY <1>1 DEF Tie, key, size
<1>7. Found(s) = IF off = NotFound THEN 0 ELSE CHOOSE i \in 1..l : queue[i].off = off
  BY <1>1 DEF Found, off, key, size, type
<1>8. CASE off = NotFound
  <2>1. SUFFICES ASSUME OfKind(s, Tie(s)) = Tie(s), Tie(s) # {} PROVE FALSE
    BY <1>1, <1>7, <1>8 DEF Lookup
  <2>2. PICK i \in Tie(s) : Kind[queue[i].series] = Kind[s]
    BY <2>1 DEF OfKind
  <2>3. i \in 1..l /\ queue[i].key # 0 /\ NodeOf(queue[i]) \in NodesOf(tree)
    BY <1>2, <1>3, <1>6 DEF Open, l
  <2>4. PICK a \in 1..n : tree.nodes[a] = NodeOf(queue[i])
    BY <2>3 DEF NodesOf, n
  <2>5. Fits(tree, a, key, size, type)
    BY <1>1, <1>6, <2>2, <2>3, <2>4, NodeIs DEF Fits, type
  <2>6. ASSUME NEW b \in 1..n, tree.nodes[b].key = key, tree.nodes[b].size = size
        PROVE  tree.nodes[b].type = type
    <3>1. PICK j \in 1..l :
            /\ queue[j].key # 0 /\ tree.nodes[b].key = queue[j].key
            /\ tree.nodes[b].size = queue[j].size /\ tree.nodes[b].type = TypeNo(Kind[queue[j].series])
      BY <1>5
    <3>2. j \in Tie(s)
      BY <1>1, <1>6, <2>6, <3>1
    <3>3. Kind[queue[j].series] = Kind[s]
      BY <2>1, <3>2 DEF OfKind
    <3> QED BY <3>1, <3>3 DEF type
  <2> QED BY <1>4, <1>8, <2>5, <2>6
<1>9. CASE off # NotFound
  <2>1. PICK a \in 1..n : off = tree.nodes[a].off /\ Fits(tree, a, key, size, type)
    BY <1>4, <1>9
  <2>2. PICK j \in 1..l :
          /\ queue[j].key # 0 /\ tree.nodes[a].off = queue[j].off /\ tree.nodes[a].key = queue[j].key
          /\ tree.nodes[a].size = queue[j].size /\ tree.nodes[a].type = TypeNo(Kind[queue[j].series])
    BY <1>5
  <2>3. Found(s) = j
    <3>1. queue[j].off = off /\ \A i \in 1..l : queue[i].off = off => i = j
      BY <1>1, <2>1, <2>2
    <3> QED BY <1>7, <1>9, <3>1
  <2>4. j \in Tie(s)
    BY <1>1, <1>6, <2>1, <2>2 DEF Fits
  <2>5. Kind[queue[j].series] = Kind[s]
    <3>1. TypeNo(Kind[queue[j].series]) = TypeNo(Kind[s]) /\ queue[j].series \in Series
      BY <1>1, <2>1, <2>2, RecordFields DEF Fits, type
    <3> QED BY <3>1, TypesDiffer
  <2> QED BY <1>1, <2>2, <2>3, <2>4, <2>5 DEF Lookup, OfKind, l
<1> QED BY <1>8, <1>9

(* Queues whose records have the same nodes                                *)
LEMMA SameNodes ==
  ASSUME NEW q, NEW r, Len(r) = Len(q),
         \A i \in 1..Len(q) : /\ r[i].key = q[i].key
                              /\ q[i].key # 0 => NodeOf(r[i]) = NodeOf(q[i])
  PROVE  Open(r) = Open(q)
BY DEF Open

(* Two records have different nodes.                                       *)
LEMMA NodesDiffer ==
  ASSUME Inv, NEW i \in 1..Len(queue), NEW j \in 1..Len(queue), i # j
  PROVE  NodeOf(queue[i]) # NodeOf(queue[j])
<1>1. queue[i] \in Record /\ queue[j] \in Record /\ queue[i].off # queue[j].off
  BY QueueFacts
<1> QED BY <1>1, NodeIs

(* The tree without an open record                                         *)
LEMMA WithoutIs ==
  ASSUME TInv, NEW i \in 1..Len(queue), queue[i].key # 0, NEW t \in Without(i)
  PROVE  Sound(t) /\ NodesOf(t) = Open(queue) \ {NodeOf(queue[i])}
<1>1. i # 0 /\ queue[i] \in Record /\ NodeOf(queue[i]).off = queue[i].off
  BY QueueFacts, NodeIs DEF TInv
<1>2. NodeOf(queue[i]) \in NodesOf(tree) /\ Sound(tree) /\ NodesOf(tree) = Open(queue)
  BY DEF TInv, Links, Open
<1>3. t \in Deleted(tree, NodeOf(queue[i]).off)
  BY <1>1 DEF Without
<1> QED BY <1>2, <1>3, DeletedIs

(* A full record leaves the tree as it is marked.                          *)
LEMMA DetachLinks ==
  ASSUME TInv, NEW i \in 0..Len(queue), i # 0 => queue[i].key # 0, NEW t \in Without(i)
  PROVE  Links(t, Detach(i)) /\ Detach(i) \in Seq(Record)
<1> DEFINE l == Len(queue)
           q == Detach(i)
<1>1. /\ l \in Nat /\ DOMAIN queue = 1..l /\ (\A j \in 1..l : queue[j] \in Record)
      /\ TypeOK /\ ArenaTiled /\ IndexExact
  BY QueueFacts DEF TInv, Inv
<1>2. q \in Seq(Record) /\ Len(q) = l
  BY <1>1, DetachKeeps
<1>3. \A j \in 1..l : q[j] = IF j = i THEN [queue[j] EXCEPT !.key = 0] ELSE queue[j]
  BY <1>1 DEF Detach
<1> HIDE DEF q
<1>4. CASE i = 0
  <2>1. \A j \in 1..l : q[j] = queue[j]
    <3>1. SUFFICES ASSUME NEW j \in 1..l PROVE q[j] = queue[j]
      OBVIOUS
    <3>2. j # i
      BY <1>1, <1>4
    <3> QED BY <1>3, <3>2
  <2>2. Open(q) = Open(queue)
    BY <1>2, <2>1, SameNodes
  <2>3. t = tree
    BY <1>4 DEF Without
  <2> QED BY <1>2, <2>2, <2>3 DEF Links, TInv, q
<1>5. CASE i # 0
  <2>1. i \in 1..l /\ queue[i].key # 0
    BY <1>1, <1>5
  <2>2. Sound(t) /\ NodesOf(t) = Open(queue) \ {NodeOf(queue[i])}
    BY <2>1, WithoutIs
  <2>3. q[i].key = 0 /\ \A j \in 1..l : j # i => q[j] = queue[j] /\ NodeOf(queue[j]) # NodeOf(queue[i])
    BY <1>1, <1>3, <2>1, NodesDiffer DEF Record, TInv
  <2>4. Open(q) = Open(queue) \ {NodeOf(queue[i])}
    BY <1>2, <2>1, <2>3 DEF Open
  <2> QED BY <1>2, <2>2, <2>4 DEF Links, q
<1> QED BY <1>4, <1>5

(* The new record is linked.                                               *)
LEMMA PlaceLinks ==
  ASSUME Inv', NEW q \in Seq(Record), NEW t, Links(t, q), NEW s \in Series, NEW id, NEW idx,
         Place(s, id, q, idx), Link(t)
  PROVE  Links(tree, queue)'
<1> DEFINE l == Len(q)
           r == queue'[l+1]
           n == NodeOf(r)
<1>1. l \in Nat /\ \A i \in 1..l : q[i] \in Record
  BY QueueBlocks
<1>2. /\ Len(queue') = l + 1 /\ (\A i \in 1..l : queue'[i] = q[i])
      /\ r.key = Hash[s]
  <2> DEFINE x == [off |-> AllocPtr(pos, last, RecSize(s)), size |-> RecSize(s), time |-> now, key |-> Hash[s],
                   series |-> s, stats |-> <<id>>]
  <2>1. queue' = Append(q, x) /\ x.key = Hash[s]
    BY DEF Place
  <2> HIDE DEF x
  <2>2. Len(queue') = l + 1 /\ (\A i \in 1..l : queue'[i] = q[i]) /\ queue'[l+1] = x
    BY <1>1, <2>1
  <2> QED BY <2>1, <2>2
<1>3. r.key # 0
  BY <1>2, SeriesAssumption
<1>4. /\ \A i \in 1..l+1 : queue'[i] \in Record
      /\ \A i, j \in 1..l+1 : queue'[i].off = queue'[j].off => i = j
  <2>1. queue' \in Seq(Record) /\ ArenaInv(queue', pos', last')
    BY DEF Inv, TypeOK, ArenaTiled
  <2>2. (\A i \in 1..Len(queue') : queue'[i] \in Record)
        /\ \A i, j \in 1..Len(queue') : queue'[i].off = queue'[j].off => i = j
    BY <2>1, QueueBlocks, OffsetsDiffer
  <2> QED BY <1>2, <2>2
<1>5. n \in Nodes /\ n.off = r.off
  BY <1>1, <1>4, NodeIs
<1>6. \A m \in NodesOf(t) : m.off # n.off
  <2>1. SUFFICES ASSUME NEW m \in NodesOf(t) PROVE m.off # n.off
    OBVIOUS
  <2>2. PICK j \in 1..l : m = NodeOf(q[j])
    BY DEF Links, Open
  <2>3. m.off = queue'[j].off
    BY <1>1, <1>2, <2>2, NodeIs
  <2>4. j \in 1..l+1 /\ l+1 \in 1..l+1 /\ j # l+1
    BY <1>1
  <2> QED BY <1>4, <1>5, <2>3, <2>4
<1>7. tree' \in Inserted(t, n)
  BY <1>2 DEF Link
<1> HIDE DEF n, r
<1>8. Sound(tree') /\ NodesOf(tree') = Open(q) \cup {n}
  BY <1>5, <1>6, <1>7, InsertedIs DEF Links
<1>9. Open(queue') = Open(q) \cup {n}
  <2>1. \A i \in 1..l+1 : i \in 1..l \/ i = l+1
    BY <1>1
  <2>2. 1..l \subseteq 1..l+1 /\ l+1 \in 1..l+1 /\ queue'[l+1].key # 0 /\ n = NodeOf(queue'[l+1])
    BY <1>1, <1>3 DEF n, r
  <2> HIDE DEF l
  <2>3. Open(queue') = {NodeOf(queue'[i]) : i \in {j \in 1..l+1 : queue'[j].key # 0}}
    BY <1>2 DEF Open
  <2>4. Open(q) = {NodeOf(q[i]) : i \in {j \in 1..l : q[j].key # 0}}
    BY DEF Open, l
  <2> QED BY <1>2, <2>1, <2>2, <2>3, <2>4
<1>10. (Links(tree, queue))' <=> Links(tree', queue')
  BY DEF Links, Sound, IsTree, Sorted, Distinct, NodesOf, Open, NodeOf, TypeNo
<1> QED BY <1>8, <1>9, <1>10 DEF Links

(* Every step of the aggregator with its tree is one of the aggregator.    *)
LEMMA StepIsAggregate == ASSUME TInv, [TreeNext]_treeVars PROVE [Next]_vars
<1>1. ASSUME NEW s \in Series, TreeMerge(s) \/ TreeStore(s) \/ TreeNeedSpace(s) PROVE Request
  <2>1. Accepts(s)
    BY <1>1 DEF TreeMerge, TreeStore, TreeNeedSpace, MergeAt, StoreAt, NeedSpaceAt
  <2>2. Found(s) \in Lookup(s)
    BY <2>1, FoundInLookup DEF Accepts
  <2>3. MergeAt(s, Found(s)) \/ StoreAt(s, Found(s)) \/ NeedSpaceAt(s, Found(s))
    BY <1>1 DEF TreeMerge, TreeStore, TreeNeedSpace
  <2> QED BY <2>2, <2>3 DEF Merge, Store, NeedSpace, Request
<1>2. TreeRequest => Request
  BY <1>1 DEF TreeRequest, Request
<1>3. TreeProcess => Process
  BY DEF TreeProcess, Process, TreeHandOver, TreeEndStored
<1>4. TreeRest => Loop \/ Signal
  BY DEF TreeRest
<1>5. UNCHANGED treeVars => UNCHANGED vars
  BY DEF treeVars, vars
<1> QED BY <1>2, <1>3, <1>4, <1>5 DEF TreeNext, Next

(* A step that leaves the tree and the nodes of the queue alone            *)
LEMMA KeepsLinks ==
  ASSUME TInv, UNCHANGED tree, Open(queue') = Open(queue)
  PROVE  Links(tree', queue')
BY DEF TInv, Links

(* A stat that is offered                                                  *)
LEMMA RequestLinks ==
  ASSUME TInv, Inv', NEW s \in Series, TreeMerge(s) \/ TreeStore(s) \/ TreeNeedSpace(s)
  PROVE  Links(tree', queue')
<1> DEFINE i == Found(s)
<1>1. Accepts(s)
  BY DEF TreeMerge, TreeStore, TreeNeedSpace, MergeAt, StoreAt, NeedSpaceAt
<1>2. i \in 0..Len(queue) /\ (i # 0 => queue[i].key # 0)
  BY <1>1, FoundInLookup DEF Accepts
<1> HIDE DEF i
<1>3. CASE TreeMerge(s)
  <2>1. MergeAt(s, i) /\ UNCHANGED tree
    BY <1>3 DEF TreeMerge, i
  <2>2. Len(queue) \in Nat /\ DOMAIN queue = 1..Len(queue) /\ \A j \in 1..Len(queue) : queue[j] \in Record
    BY QueueFacts DEF TInv
  <2>3. queue' = [queue EXCEPT ![i].stats = Append(@, New)] /\ i \in 1..Len(queue)
    BY <1>2, <2>1, <2>2 DEF MergeAt
  <2>4. Len(queue') = Len(queue)
    <3>1. DOMAIN queue' = 1..Len(queue)
      BY <2>2, <2>3
    <3>2. queue' \in Seq(Record)
      BY DEF Inv, TypeOK
    <3> QED BY <2>2, <3>1, <3>2
  <2>5. \A j \in 1..Len(queue) : queue'[j].key = queue[j].key /\ NodeOf(queue'[j]) = NodeOf(queue[j])
    <3>1. SUFFICES ASSUME NEW j \in 1..Len(queue)
          PROVE  queue'[j].key = queue[j].key /\ NodeOf(queue'[j]) = NodeOf(queue[j])
      OBVIOUS
    <3>2. CASE j = i
      <4>1. queue'[i] = [queue[i] EXCEPT !.stats = Append(queue[i].stats, New)]
        BY <2>2, <2>3
      <4>2. /\ queue'[i].key = queue[i].key /\ queue'[i].off = queue[i].off
            /\ queue'[i].size = queue[i].size /\ queue'[i].series = queue[i].series
        BY <2>2, <2>3, <4>1 DEF Record
      <4> QED BY <3>2, <4>2 DEF NodeOf
    <3>3. CASE j # i
      BY <2>2, <2>3, <3>3
    <3> QED BY <3>2, <3>3
  <2>6. Open(queue') = Open(queue)
    BY <2>4, <2>5, SameNodes
  <2> QED BY <2>1, <2>6, KeepsLinks
<1>4. CASE TreeStore(s)
  <2>1. PICK t \in Without(i) : Link(t)
    BY <1>4 DEF TreeStore, i
  <2>2. Place(s, New, Detach(i), DetachIndex(i))
    BY <1>4 DEF TreeStore, StoreAt, i
  <2>3. Links(t, Detach(i)) /\ Detach(i) \in Seq(Record)
    BY <1>2, DetachLinks
  <2> QED BY <2>1, <2>2, <2>3, PlaceLinks
<1>5. CASE TreeNeedSpace(s)
  <2>1. queue' = Detach(i) /\ tree' \in Without(i)
    BY <1>5 DEF TreeNeedSpace, NeedSpaceAt, i
  <2> QED BY <1>2, <2>1, DetachLinks
<1> QED BY <1>3, <1>4, <1>5

(* The oldest record leaves.                                               *)
LEMMA HandOverLinks ==
  ASSUME TInv, NEW rc, TreeHandOver(rc)
  PROVE  Links(tree', queue')
<1> DEFINE l == Len(queue)
<1>1. /\ queue # <<>> /\ queue' = Tail(queue)
      /\ tree' \in IF queue[1].key # 0 THEN Without(1) ELSE {tree}
  BY DEF TreeHandOver, HandOver, Due
<1>2. queue \in Seq(Record) /\ l \in Nat /\ \A j \in 1..l : queue[j] \in Record
  BY QueueFacts DEF TInv
<1>3. 1 \in 1..l /\ Len(queue') = l - 1 /\ \A j \in 1..l-1 : queue'[j] = queue[j+1]
  BY <1>1, <1>2
<1> HIDE DEF l
<1>4. /\ \A j \in 1..l-1 : j+1 \in 1..l /\ j+1 # 1
      /\ \A j \in 1..l : j # 1 => j-1 \in 1..l-1 /\ (j-1)+1 = j
  BY <1>2
<1>5. Open(queue') = {NodeOf(queue[j]) : j \in {k \in 1..l : k # 1 /\ queue[k].key # 0}}
  <2>1. Open(queue') = {NodeOf(queue'[j]) : j \in {k \in 1..l-1 : queue'[k].key # 0}}
    BY <1>3 DEF Open
  <2>2. \A j \in 1..l : j # 1 => queue'[j-1] = queue[j]
    BY <1>3, <1>4
  <2> QED BY <1>3, <1>4, <2>1, <2>2
<1>6. Open(queue) = {NodeOf(queue[j]) : j \in {k \in 1..l : queue[k].key # 0}}
  BY DEF Open, l
<1>7. CASE queue[1].key = 0
  <2>1. Open(queue') = Open(queue)
    BY <1>5, <1>6, <1>7
  <2> QED BY <1>1, <1>7, <2>1, KeepsLinks
<1>8. CASE queue[1].key # 0
  <2>1. Sound(tree') /\ NodesOf(tree') = Open(queue) \ {NodeOf(queue[1])}
    BY <1>1, <1>3, <1>8, WithoutIs DEF l
  <2>2. \A j \in 1..l : j # 1 => NodeOf(queue[j]) # NodeOf(queue[1])
    BY <1>3, NodesDiffer DEF TInv, l
  <2>3. Open(queue') = Open(queue) \ {NodeOf(queue[1])}
    BY <1>5, <1>6, <2>2
  <2> QED BY <2>1, <2>3 DEF Links
<1> QED BY <1>7, <1>8

(* The stat that waited for space is stored.                               *)
LEMMA EndStoredLinks ==
  ASSUME TInv, Inv', NEW rc, TreeEndStored(rc)
  PROVE  Links(tree', queue')
<1>1. Place(seen[Len(seen)].series, Len(seen), queue, index) /\ Link(tree) /\ call.task = "stat"
  BY DEF TreeEndStored, EndStored, Returns
<1>2. seen[Len(seen)].series \in Series
  BY <1>1, PendingStat DEF TInv
<1>3. Links(tree, queue) /\ queue \in Seq(Record)
  BY DEF TInv, Inv, TypeOK
<1> QED BY <1>1, <1>2, <1>3, PlaceLinks

(* The tree links the open records, whatever happens.                      *)
LEMMA NextLinks == ASSUME TInv, [TreeNext]_treeVars PROVE TInv'
<1>1. [Next]_vars
  BY StepIsAggregate
<1>2. Inv'
  BY <1>1, NextInv DEF TInv
<1>3. ASSUME UNCHANGED <<queue, tree>> PROVE Links(tree', queue')
  BY <1>3, KeepsLinks
<1>4. Links(tree', queue')
  <2>1. CASE TreeRequest
    <3>1. ASSUME NEW s \in Series, Refuse(s) /\ UNCHANGED tree PROVE UNCHANGED <<queue, tree>>
      BY <3>1 DEF Refuse
    <3> QED BY <1>2, <1>3, <2>1, <3>1, RequestLinks DEF TreeRequest
  <2>2. CASE TreeProcess
    <3>1. ASSUME NEW rc, EndTimer(rc) \/ EndDeclined(rc) \/ EndFailed(rc) PROVE UNCHANGED queue
      BY <3>1 DEF EndTimer, EndDeclined, EndFailed
    <3>2. Enter => UNCHANGED queue
      BY DEF Enter
    <3> QED BY <1>2, <1>3, <2>2, <3>1, <3>2, HandOverLinks, EndStoredLinks DEF TreeProcess
  <2>3. CASE TreeRest
    <3>1. UNCHANGED <<queue, tree>>
      BY <2>3 DEF TreeRest, Loop, Signal, TimerRuns, Tick, Quit, Terminate, Exit
    <3> QED BY <1>3, <3>1
  <2>4. CASE UNCHANGED treeVars
    BY <1>3, <2>4 DEF treeVars, vars
  <2> QED BY <2>1, <2>2, <2>3, <2>4 DEF TreeNext
<1> QED BY <1>2, <1>4 DEF TInv, Links, Sound, IsTree, Sorted, Distinct, NodesOf, Open, NodeOf, TypeNo

(* The tree is empty, and so is the queue.                                 *)
LEMMA InitTree == TreeInit => TInv
<1> SUFFICES ASSUME TreeInit PROVE TInv
  OBVIOUS
<1>1. Inv
  BY InitInv DEF TreeInit
<1>2. queue = <<>> /\ tree = EmptyTree
  BY DEF TreeInit, Init
<1>3. Len(queue) = 0 /\ tree.nodes = <<>> /\ tree.depth = <<>>
  BY <1>2 DEF EmptyTree
<1>4. Len(tree.nodes) = 0 /\ tree.nodes \in Seq(Nodes) /\ tree.depth \in [1..0 -> Nat]
  BY <1>3
<1>5. Sound(tree)
  BY <1>4 DEF Sound, IsTree, Sorted, Distinct
<1>6. NodesOf(tree) = {} /\ Open(queue) = {}
  BY <1>3, <1>4 DEF NodesOf, Open
<1> QED BY <1>1, <1>5, <1>6 DEF TInv, Links

(* The inductive invariant of the aggregator with its tree                 *)
THEOREM TreeInvariance == TreeSpec => []TInv
<1>1. TreeInit => TInv
  BY InitTree
<1>2. TInv /\ [TreeNext]_treeVars => TInv'
  BY NextLinks
<1> QED BY <1>1, <1>2, PTL DEF TreeSpec

(* The tree links each open record once and nothing that was freed, in the *)
(* order by which walks turn, whatever was inserted and deleted and        *)
(* however the tree was rotated.                                           *)
THEOREM TreeIsExact == TreeSpec => []TreeExact
<1>1. TInv => TreeExact
  <2> SUFFICES ASSUME TInv PROVE TreeExact
    OBVIOUS
  <2> DEFINE nodes == tree.nodes
             n == Len(nodes)
             offs == [a \in 1..n |-> nodes[a].off]
  <2>1. /\ n \in Nat /\ DOMAIN nodes = 1..n /\ (\A a \in 1..n : nodes[a] \in Nodes)
        /\ Sorted(tree) /\ Distinct(tree) /\ NodesOf(tree) = Open(queue)
    BY TreePlaces DEF TInv, Links, Sound
  <2>2. /\ Len(queue) \in Nat /\ DOMAIN queue = 1..Len(queue)
        /\ \A i \in 1..Len(queue) : queue[i] \in Record
    BY QueueFacts DEF TInv
  <2>3. {nodes[i] : i \in DOMAIN nodes} = {NodeOf(queue[i]) : i \in {j \in DOMAIN queue : queue[j].key # 0}}
    BY <2>1, <2>2 DEF NodesOf, Open
  <2>4. \A i, j \in DOMAIN nodes : i < j => ~Before(nodes[j], nodes[i])
    BY <2>1 DEF Sorted
  <2>5. n = Cardinality(index)
    <3>1. offs \in Seq(Nat) /\ Len(offs) = n /\ DOMAIN offs = 1..n
      <4>1. \A a \in 1..n : nodes[a].off \in Nat
        BY <2>1 DEF Nodes
      <4>2. offs \in [1..n -> Nat]
        BY <4>1
      <4> HIDE DEF offs, n
      <4> QED BY <2>1, <4>2, SeqOfFunction
    <3>2. \A a, b \in 1..n : offs[a] = offs[b] => a = b
      BY <2>1 DEF Distinct
    <3>3. {offs[a] : a \in 1..n} = index
      <4>1. index = {queue[i].off : i \in {j \in 1..Len(queue) : queue[j].key # 0}}
        BY <2>2 DEF TInv, Inv, IndexExact, OpenOffs
      <4>2. {offs[a] : a \in 1..n} = {m.off : m \in NodesOf(tree)}
        BY DEF NodesOf
      <4>3. {m.off : m \in Open(queue)} = {queue[i].off : i \in {j \in 1..Len(queue) : queue[j].key # 0}}
        <5>1. \A i \in 1..Len(queue) : NodeOf(queue[i]).off = queue[i].off
          BY <2>2, NodeIs
        <5> QED BY <5>1 DEF Open
      <4> QED BY <2>1, <4>1, <4>2, <4>3
    <3> HIDE DEF offs
    <3>4. Cardinality({offs[a] : a \in DOMAIN offs}) = Len(offs)
      BY <3>1, <3>2, DistinctCardinality
    <3> QED BY <3>1, <3>3, <3>4
  <2> QED BY <2>3, <2>4, <2>5 DEF TreeExact
<1> QED BY <1>1, TreeInvariance, PTL

(* The aggregator with its tree implements the one whose lookups may find  *)
(* any record that Lookup names: what is proved of that one holds of this. *)
THEOREM TreeImplements == TreeSpec => AggregateImplemented
<1>1. TreeInit => Init
  BY DEF TreeInit
<1>2. TInv /\ [TreeNext]_treeVars => [Next]_vars
  BY StepIsAggregate
<1> QED BY <1>1, <1>2, TreeInvariance, PTL DEF TreeSpec, AggregateImplemented, Spec
=============================================================================
