------------------------------- MODULE Lemmas -------------------------------
(***************************************************************************)
(* Facts that proofs about several modules need: about a clock that counts *)
(* modulo W, as ngx_current_msec does, and about what a recursive function *)
(* and a fold compute, for every argument.                                 *)
(*                                                                         *)
(* Def(c, f, x) is the right-hand side of the definition of a recursive    *)
(* function f at x, with parameters c; Op(a, x, y) is the operator of a    *)
(* fold of a sequence, with a parameter a. A module with proofs about a    *)
(* recursion f[x \in S] == e instantiates this one with an operator that   *)
(* gives e for Def; for a fold it takes for Op what is folded and for Def  *)
(* what RepeatsOp says, which is what the definition of FoldLeft repeats.  *)
(* The facts here are then facts about the model's own definitions: a      *)
(* definition by CHOOSE, which is what TLA+ makes of a recursive one,      *)
(* equals its right-hand side.                                             *)
(***************************************************************************)
EXTENDS Integers, Sequences, SequencesExt, WellFoundedInduction, TLAPS

CONSTANTS Def(_, _, _), Op(_, _, _)

(* How long ago, by (now - t) % W, something happened                      *)

(* A remainder is what is in range and differs by a turn of the clock.     *)
LEMMA ModuloIs ==
  ASSUME NEW W \in Nat \ {0}, NEW n \in Int, NEW m \in 0..W-1, n = m \/ n = m + W \/ n = m - W
  PROVE  n % W = m
<1>1. m % W = m
  OBVIOUS
<1>2. (m + W) % W = m
  OBVIOUS
<1>3. (m - W) % W = m
  OBVIOUS
<1> QED BY <1>1, <1>2, <1>3

(* How long ago is less than a turn.                                       *)
LEMMA SinceType ==
  ASSUME NEW W \in Nat \ {0}, NEW now \in 0..W-1, NEW t \in 0..W-1
  PROVE  (now - t) % W \in 0..W-1
<1>1. now - t \in Int
  OBVIOUS
<1> QED BY <1>1

(* What happens now is 0 old.                                              *)
LEMMA SinceNow ==
  ASSUME NEW W \in Nat \ {0}, NEW now \in 0..W-1
  PROVE  (now - now) % W = 0
BY ModuloIs

(* The difference, before the clock wraps and after                        *)
LEMMA SinceIs ==
  ASSUME NEW W \in Nat \ {0}, NEW now \in 0..W-1, NEW t \in 0..W-1
  PROVE  (now - t) % W = IF t <= now THEN now - t ELSE now - t + W
<1>1. CASE t <= now
  <2>1. now - t \in 0..W-1
    BY <1>1
  <2> QED BY <1>1, <2>1, ModuloIs
<1>2. CASE ~(t <= now)
  <2>1. now - t + W \in 0..W-1 /\ now - t \in Int
    BY <1>2
  <2> QED BY <1>2, <2>1, ModuloIs
<1> QED BY <1>1, <1>2

(* The sum, likewise                                                       *)
LEMMA PlusIs ==
  ASSUME NEW W \in Nat \ {0}, NEW now \in 0..W-1, NEW k \in 0..W-1
  PROVE  (now + k) % W = IF now + k < W THEN now + k ELSE now + k - W
<1>1. CASE now + k < W
  <2>1. now + k \in 0..W-1
    BY <1>1
  <2> QED BY <1>1, <2>1, ModuloIs
<1>2. CASE ~(now + k < W)
  <2>1. now + k - W \in 0..W-1 /\ now + k \in Int
    BY <1>2
  <2> QED BY <1>2, <2>1, ModuloIs
<1> QED BY <1>1, <1>2

(* One tick makes everything one older, until a full turn of the clock.    *)
LEMMA SinceTick ==
  ASSUME NEW W \in Nat \ {0}, NEW now \in 0..W-1, NEW t \in 0..W-1
  PROVE  /\ (now + 1) % W \in 0..W-1
         /\ (((now + 1) % W) - t) % W
              = IF (now - t) % W = W - 1 THEN 0 ELSE ((now - t) % W) + 1
<1> DEFINE next == (now + 1) % W
<1>1. next \in 0..W-1 /\ next = IF now + 1 < W THEN now + 1 ELSE 0
  <2>1. CASE now + 1 < W
    <3>1. now + 1 \in 0..W-1
      BY <2>1
    <3> QED BY <2>1, <3>1, ModuloIs
  <2>2. CASE ~(now + 1 < W)
    <3>1. now + 1 = 0 + W /\ now + 1 \in Int /\ 0 \in 0..W-1
      BY <2>2
    <3> QED BY <2>2, <3>1, ModuloIs
  <2> QED BY <2>1, <2>2
<1> HIDE DEF next
<1>2. (now - t) % W = IF t <= now THEN now - t ELSE now - t + W
  BY SinceIs
<1>3. (next - t) % W = IF t <= next THEN next - t ELSE next - t + W
  BY <1>1, SinceIs
<1> QED BY <1>1, <1>2, <1>3 DEF next

(* What is due in k is seen, before that, as W - k old.                    *)
LEMMA SinceAhead ==
  ASSUME NEW W \in Nat \ {0}, NEW now \in 0..W-1, NEW k \in 0..W-1
  PROVE  /\ (now + k) % W \in 0..W-1
         /\ (now - ((now + k) % W)) % W = IF k = 0 THEN 0 ELSE W - k
<1> DEFINE d == (now + k) % W
<1>1. d = IF now + k < W THEN now + k ELSE now + k - W
  BY PlusIs
<1>2. d \in 0..W-1
  BY <1>1
<1> HIDE DEF d
<1>3. (now - d) % W = IF d <= now THEN now - d ELSE now - d + W
  BY <1>2, SinceIs
<1> QED BY <1>1, <1>2, <1>3 DEF d
----------------------------------------------------------------------------
(* Recursion and folds                                                     *)

(* A set of numbers that has 0, and n+1 with n, has all.                   *)
LEMMA SetInduction ==
  ASSUME NEW T, 0 \in T, \A n \in Nat : n \in T => n + 1 \in T
  PROVE  \A n \in Nat : n \in T
<1> DEFINE U == Nat \ T
           R == {ss \in Nat \X Nat : ss[1] < ss[2]}
<1>1. IsWellFoundedOn(R, Nat)
  BY NatLessThanWellFounded DEF OpToRel
<1>2. SUFFICES ASSUME U # {} PROVE FALSE
  OBVIOUS
<1>3. PICK x \in U : \A y \in U : <<y, x>> \notin R
  <2>1. U \subseteq Nat
    OBVIOUS
  <2> HIDE DEF U, R
  <2> QED BY <1>1, <1>2, <2>1, WFMin, Zenon
<1>4. x \in Nat /\ x # 0 /\ x - 1 \in Nat /\ x - 1 + 1 = x
  BY <1>3
<1>5. <<x - 1, x>> \in R
  BY <1>4
<1>6. x - 1 \in T
  BY <1>3, <1>4, <1>5
<1> QED BY <1>3, <1>4, <1>6
----------------------------------------------------------------------------
(* Def(c, f, x) looks at f only where m is smaller than at x.              *)
LooksBelow(c, m, S) ==
  \A f, g : \A x \in S :
    (\A y \in S : m[y] < m[x] => f[y] = g[y]) => Def(c, f, x) = Def(c, g, x)

(* g satisfies the equation where m is below n.                            *)
Upto(c, m, S, g, n) == \A x \in S : m[x] < n => g[x] = Def(c, g, x)

(* Two functions that satisfy the equation below n are equal there.        *)
LEMMA Agree ==
  ASSUME NEW c, NEW S, NEW m \in [S -> Nat], LooksBelow(c, m, S), NEW n \in Nat, NEW g, NEW h,
         Upto(c, m, S, g, n), Upto(c, m, S, h, n)
  PROVE  \A x \in S : m[x] < n => g[x] = h[x]
<1> DEFINE T == {k \in Nat : \A x \in S : (m[x] < k /\ m[x] < n) => g[x] = h[x]}
<1>1. 0 \in T
  OBVIOUS
<1>2. ASSUME NEW k \in Nat, k \in T PROVE k + 1 \in T
  <2> SUFFICES ASSUME NEW x \in S, m[x] < k + 1, m[x] < n PROVE g[x] = h[x]
    OBVIOUS
  <2>1. \A y \in S : m[y] < m[x] => g[y] = h[y]
    BY <1>2
  <2>2. Def(c, g, x) = Def(c, h, x)
    BY <2>1, Zenon DEF LooksBelow
  <2> QED BY <2>2 DEF Upto
<1>3. n \in T
  <2> HIDE DEF T
  <2> QED BY <1>1, <1>2, SetInduction
<1> QED BY <1>3

(* For every n a function satisfies the equation below n.                  *)
LEMMA Approximate ==
  ASSUME NEW c, NEW S, NEW m \in [S -> Nat], LooksBelow(c, m, S)
  PROVE  \A n \in Nat : \E g : Upto(c, m, S, g, n)
<1> DEFINE T == {n \in Nat : \E g : Upto(c, m, S, g, n)}
<1>1. 0 \in T
  BY DEF Upto
<1>2. ASSUME NEW n \in Nat, n \in T PROVE n + 1 \in T
  <2>1. PICK g : Upto(c, m, S, g, n)
    BY <1>2
  <2> DEFINE h == [x \in S |-> Def(c, g, x)]
  <2>2. ASSUME NEW x \in S, m[x] < n + 1 PROVE h[x] = Def(c, h, x)
    <3>1. \A y \in S : m[y] < m[x] => g[y] = h[y]
      BY <2>1, <2>2 DEF Upto
    <3>2. Def(c, g, x) = Def(c, h, x)
      <4> HIDE DEF h
      <4> QED BY <3>1, Zenon DEF LooksBelow
    <3> QED BY <3>2
  <2>3. Upto(c, m, S, h, n + 1)
    BY <2>2 DEF Upto
  <2> HIDE DEF h
  <2> QED BY <2>3
<1> HIDE DEF T
<1>3. \A n \in Nat : n \in T
  BY <1>1, <1>2, SetInduction
<1> QED BY <1>3 DEF T

(* The recursive function on S that Def defines, as TLA+ has it            *)
Recursive(c, S) == CHOOSE f : f = [x \in S |-> Def(c, f, x)]

(* A recursive function is what its definition says.                       *)
THEOREM RecursionHolds ==
  ASSUME NEW c, NEW S, NEW m \in [S -> Nat], LooksBelow(c, m, S)
  PROVE  Recursive(c, S) = [x \in S |-> Def(c, Recursive(c, S), x)]
<1> DEFINE G(n) == CHOOSE g : Upto(c, m, S, g, n)
           h == [x \in S |-> G(m[x] + 1)[x]]
<1>1. \A n \in Nat : Upto(c, m, S, G(n), n)
  BY Approximate, Zenon
<1> HIDE DEF G
<1>2. ASSUME NEW x \in S PROVE h[x] = Def(c, h, x)
  <2> DEFINE n == m[x] + 1
  <2>0. n \in Nat /\ m[x] < n /\ Upto(c, m, S, G(n), n)
    BY <1>1
  <2>1. ASSUME NEW y \in S, m[y] < m[x] PROVE h[y] = G(n)[y]
    <3>1. Upto(c, m, S, G(m[y] + 1), m[y] + 1) /\ Upto(c, m, S, G(n), m[y] + 1)
      BY <1>1, <2>0, <2>1 DEF Upto
    <3>2. m[y] < m[y] + 1
      OBVIOUS
    <3> QED BY <3>1, <3>2, Agree
  <2>2. Def(c, h, x) = Def(c, G(n), x)
    <3> HIDE DEF h, n
    <3> QED BY <2>1, Zenon DEF LooksBelow
  <2>3. G(n)[x] = Def(c, G(n), x)
    BY <2>0 DEF Upto
  <2> QED BY <2>2, <2>3
<1>3. h = [x \in S |-> Def(c, h, x)]
  BY <1>2
<1> HIDE DEF h
<1> QED BY <1>3, Zenon DEF Recursive
----------------------------------------------------------------------------
(* FoldLeft, where Def is what its definition repeats, from the right end  *)
(* of the sequence: c has a value for Op, the base and the sequence.       *)
RepeatsOp ==
  \A c, f, s : Def(c, f, s) = IF s = {} THEN c[2] ELSE Op(c[1], f[s \ {Max(s)}], c[3][Max(s)])

(* A set of places that is not empty has a greatest one.                   *)
LEMMA MaxFacts ==
  ASSUME NEW n \in Nat, NEW s \in SUBSET (1..n), s # {}
  PROVE  Max(s) \in s /\ \A y \in s : Max(s) >= y
<1> DEFINE T == {k \in Nat : (\E y \in s : y >= n - k) => \E x \in s : \A y \in s : x >= y}
<1>1. 0 \in T
  OBVIOUS
<1>2. ASSUME NEW k \in Nat, k \in T PROVE k + 1 \in T
  <2>1. SUFFICES ASSUME NEW z \in s, z >= n - (k + 1), ~\E y \in s : y >= n - k
        PROVE  \E x \in s : \A y \in s : x >= y
    BY <1>2
  <2>2. \A y \in s : z >= y
    BY <2>1
  <2> QED BY <2>2
<1>3. n \in T
  <2> HIDE DEF T
  <2> QED BY <1>1, <1>2, SetInduction
<1>4. \E x \in s : \A y \in s : x >= y
  <2>1. PICK y \in s : TRUE
    OBVIOUS
  <2>2. y \in 1..n
    OBVIOUS
  <2>3. y >= n - n
    BY <2>2
  <2> QED BY <1>3, <2>3
<1> QED BY <1>4 DEF Max

Iter(c) == Recursive(c, SUBSET DOMAIN c[3])

(* FoldLeft goes over sets of places; what it is for a set follows from    *)
(* what it is for the set without its greatest place.                      *)
LEMMA IterHolds ==
  ASSUME RepeatsOp, NEW c, NEW n \in Nat, DOMAIN c[3] = 1..n
  PROVE  Iter(c) = [s \in SUBSET (1..n) |-> Def(c, Iter(c), s)]
<1> DEFINE S == SUBSET (1..n)
           m == [s \in S |-> IF s = {} THEN 0 ELSE Max(s)]
<1>1. m \in [S -> Nat]
  <2>1. ASSUME NEW s \in S, s # {} PROVE Max(s) \in Nat
    <3>1. Max(s) \in s /\ s \subseteq 1..n
      BY <2>1, MaxFacts
    <3>2. Max(s) \in 1..n
      BY <3>1
    <3> QED BY <3>2
  <2> QED BY <2>1
<1>2. LooksBelow(c, m, S)
  <2>1. SUFFICES ASSUME NEW f, NEW g, NEW s \in S, \A y \in S : m[y] < m[s] => f[y] = g[y]
        PROVE  Def(c, f, s) = Def(c, g, s)
    BY DEF LooksBelow
  <2>2. CASE s = {}
    BY <2>2 DEF RepeatsOp
  <2>3. CASE s # {}
    <3>1. s \ {Max(s)} \in S /\ m[s \ {Max(s)}] < m[s]
      <4> DEFINE t == s \ {Max(s)}
      <4>1. Max(s) \in s /\ (\A y \in s : Max(s) >= y) /\ m[s] = Max(s)
        BY <2>3, MaxFacts
      <4>2. CASE t = {}
        <5>1. Max(s) \in 1..n
          BY <4>1
        <5> QED BY <5>1, <4>1, <4>2
      <4>3. CASE t # {}
        <5>1. Max(t) \in t /\ m[t] = Max(t)
          BY <4>3, MaxFacts
        <5>2. Max(t) \in 1..n /\ Max(s) \in 1..n /\ Max(t) # Max(s) /\ Max(s) >= Max(t)
          BY <4>1, <5>1
        <5>3. Max(t) < Max(s)
          BY <5>2
        <5>4. t \in S
          OBVIOUS
        <5> HIDE DEF m
        <5> QED BY <5>3, <5>4, <4>1, <5>1, <5>2
      <4> QED BY <4>2, <4>3
    <3>2. f[s \ {Max(s)}] = g[s \ {Max(s)}]
      BY <2>1, <3>1
    <3> QED BY <3>2 DEF RepeatsOp
  <2> QED BY <2>2, <2>3
<1> HIDE DEF m
<1>3. S = SUBSET DOMAIN c[3]
  OBVIOUS
<1> HIDE DEF S
<1>4. Iter(c) = Recursive(c, S)
  BY <1>3 DEF Iter
<1>5. Recursive(c, S) = [s \in S |-> Def(c, Recursive(c, S), s)]
  BY <1>1, <1>2, RecursionHolds
<1>6. Iter(c) = [s \in S |-> Def(c, Iter(c), s)]
  BY <1>4, <1>5
<1> QED BY <1>6 DEF S

(* A fold of the sequence, with the value a for every step                 *)
Fold(a, base, seq) == FoldLeft(LAMBDA x, y : Op(a, x, y), base, seq)

(* A fold is what that recursion gives for all the places.                 *)
LEMMA FoldIs ==
  ASSUME RepeatsOp, NEW a, NEW base, NEW seq
  PROVE  Fold(a, base, seq) = Iter(<<a, base, seq>>)[DOMAIN seq]
BY DEF RepeatsOp, Fold, FoldLeft, MapThenFoldSet, Iter, Recursive

(* What a fold of the sequence has done for each set of its first places   *)
Steps(f, a, base, seq, n) ==
  /\ f[{}] = base
  /\ \A s \in SUBSET (1..n) : s # {} => f[s] = Op(a, f[s \ {Max(s)}], seq[Max(s)])

(* The recursion takes such steps.                                         *)
LEMMA IterSteps ==
  ASSUME RepeatsOp, NEW a, NEW base, NEW n \in Nat, NEW seq, DOMAIN seq = 1..n
  PROVE  \E f : f = Iter(<<a, base, seq>>) /\ Steps(f, a, base, seq, n)
<1> DEFINE c == <<a, base, seq>>
<1>1. c[1] = a /\ c[2] = base /\ c[3] = seq
  OBVIOUS
<1> HIDE DEF c
<1>2. ASSUME NEW s \in SUBSET (1..n) PROVE Iter(c)[s] = Def(c, Iter(c), s)
  BY <1>1, IterHolds
<1>3. Iter(c)[{}] = base
  BY <1>1, <1>2 DEF RepeatsOp
<1>4. ASSUME NEW s \in SUBSET (1..n), s # {}
      PROVE  Iter(c)[s] = Op(a, Iter(c)[s \ {Max(s)}], seq[Max(s)])
  <2>1. Def(c, Iter(c), s) = Op(c[1], Iter(c)[s \ {Max(s)}], c[3][Max(s)])
    BY <1>4 DEF RepeatsOp
  <2> QED BY <1>1, <1>2, <2>1
<1>5. Steps(Iter(c), a, base, seq, n)
  BY <1>3, <1>4 DEF Steps
<1> QED BY <1>5 DEF c

(* Sequences that begin alike have like folds so far.                      *)
LEMMA StepsAgree ==
  ASSUME NEW a, NEW base, NEW n \in Nat, NEW seq, NEW pre, NEW f, NEW g, NEW m \in Nat, n <= m,
         Steps(f, a, base, pre, n), Steps(g, a, base, seq, m), \A i \in 1..n : pre[i] = seq[i]
  PROVE  f[1..n] = g[1..n]
<1> DEFINE T == {k \in Nat : \A s \in SUBSET (1..n) : s \subseteq 1..k => f[s] = g[s]}
<1>1. f[{}] = g[{}]
  BY DEF Steps
<1>2. ASSUME NEW s \in SUBSET (1..n), s # {}
      PROVE  /\ f[s] = Op(a, f[s \ {Max(s)}], seq[Max(s)])
             /\ g[s] = Op(a, g[s \ {Max(s)}], seq[Max(s)])
             /\ Max(s) \in s /\ \A y \in s : Max(s) >= y
  <2>1. Max(s) \in s /\ \A y \in s : Max(s) >= y
    BY <1>2, MaxFacts
  <2>2. pre[Max(s)] = seq[Max(s)]
    BY <2>1
  <2>3. s \in SUBSET (1..m)
    OBVIOUS
  <2>4. f[s] = Op(a, f[s \ {Max(s)}], pre[Max(s)])
    BY <1>2 DEF Steps
  <2>5. g[s] = Op(a, g[s \ {Max(s)}], seq[Max(s)])
    BY <1>2, <2>3 DEF Steps
  <2> QED BY <2>1, <2>2, <2>4, <2>5
<1>3. 0 \in T
  <2>1. \A s : s \subseteq 1..0 => s = {}
    OBVIOUS
  <2> QED BY <1>1, <2>1
<1>4. ASSUME NEW k \in Nat, k \in T PROVE k + 1 \in T
  <2>1. SUFFICES ASSUME NEW s \in SUBSET (1..n), s \subseteq 1..k+1 PROVE f[s] = g[s]
    OBVIOUS
  <2>2. CASE s = {}
    BY <1>1, <2>2
  <2>3. CASE s # {}
    <3> DEFINE t == s \ {Max(s)}
    <3>1. \A y \in t : y \in 1..k
      <4>1. ASSUME NEW y \in t PROVE y \in 1..k
        <5>1. Max(s) \in 1..k+1 /\ y \in 1..k+1 /\ y # Max(s) /\ Max(s) >= y
          BY <1>2, <2>1, <2>3
        <5> QED BY <5>1
      <4> QED BY <4>1
    <3>2. f[t] = g[t]
      BY <1>4, <3>1
    <3> QED BY <1>2, <2>3, <3>2
  <2> QED BY <2>2, <2>3
<1>5. n \in T
  <2> HIDE DEF T
  <2> QED BY <1>3, <1>4, SetInduction
<1> QED BY <1>5

(* A fold of no element is its base.                                       *)
THEOREM FoldNone ==
  ASSUME RepeatsOp, NEW a, NEW base, NEW seq, DOMAIN seq = {}
  PROVE  Fold(a, base, seq) = base
<1> DEFINE n == 0
<1>1. n \in Nat /\ DOMAIN seq = 1..n
  OBVIOUS
<1> HIDE DEF n
<1>2. PICK f : f = Iter(<<a, base, seq>>) /\ Steps(f, a, base, seq, n)
  BY <1>1, IterSteps, Zenon
<1>3. Fold(a, base, seq) = f[{}]
  BY <1>2, FoldIs, Zenon
<1> QED BY <1>2, <1>3 DEF Steps

(* A fold of one more element is the operator's value for the fold of the  *)
(* others and that element.                                                *)
THEOREM FoldOneMore ==
  ASSUME RepeatsOp, NEW a, NEW base, NEW n \in Nat, NEW seq, DOMAIN seq = 1..n+1,
         NEW pre, DOMAIN pre = 1..n, \A i \in 1..n : pre[i] = seq[i]
  PROVE  Fold(a, base, seq) = Op(a, Fold(a, base, pre), seq[n+1])
<1> DEFINE m == n + 1
<1>1. m \in Nat /\ n <= m /\ 1..m # {} /\ DOMAIN seq = 1..m
  OBVIOUS
<1>2. Max(1..m) = m /\ (1..m) \ {m} = 1..n
  <2>1. Max(1..m) \in 1..m /\ \A y \in 1..m : Max(1..m) >= y
    BY <1>1, MaxFacts, 1..m \in SUBSET (1..m)
  <2>2. m \in 1..m
    OBVIOUS
  <2>3. Max(1..m) = m
    <3> HIDE DEF m
    <3> QED BY <1>1, <2>1, <2>2
  <2>4. (1..m) \ {m} = 1..n
    OBVIOUS
  <2> QED BY <2>3, <2>4
<1> HIDE DEF m
<1>3. PICK g : g = Iter(<<a, base, seq>>) /\ Steps(g, a, base, seq, m)
  BY <1>1, IterSteps, Zenon
<1>4. PICK f : f = Iter(<<a, base, pre>>) /\ Steps(f, a, base, pre, n)
  BY IterSteps, Zenon
<1>5. Fold(a, base, seq) = g[1..m] /\ Fold(a, base, pre) = f[1..n]
  BY <1>1, <1>3, <1>4, FoldIs, Zenon
<1>6. g[1..m] = Op(a, g[1..n], seq[m])
  <2>1. 1..m \in SUBSET (1..m)
    OBVIOUS
  <2> QED BY <1>1, <1>2, <1>3, <2>1 DEF Steps
<1>7. f[1..n] = g[1..n]
  BY <1>1, <1>3, <1>4, StepsAgree
<1>8. Fold(a, base, seq) = Op(a, Fold(a, base, pre), seq[m])
  BY <1>5, <1>6, <1>7
<1> QED BY <1>8 DEF m
=============================================================================
