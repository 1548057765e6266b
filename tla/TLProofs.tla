------------------------------ MODULE TLProofs ------------------------------
(***************************************************************************)
(* The packet format, for every set of stats and every batch of them: what *)
(* ngx_statshouse_tl_metrics_len() says is what                            *)
(* ngx_statshouse_tl_metrics() writes, fields lie on multiples of four     *)
(* bytes, and a reader of the schema gets back what was written.           *)
(*                                                                         *)
(* The model adds up and joins fields with the folds of the community      *)
(* modules; what those compute for every sequence follows from the         *)
(* theorems of Lemmas, once for each operator folded.                      *)
(***************************************************************************)
EXTENDS TL, TLAPS

(* The recursions of the module: the sum of the sizes of fields, the sum   *)
(* of the lengths of keys and the joining of sequences.                    *)
BytesOp(a, n, f) == n + f.size
BytesDef(c, f, s) == IF s = {} THEN c[2] ELSE BytesOp(c[1], f[s \ {Max(s)}], c[3][Max(s)])
BytesRec == INSTANCE Lemmas WITH Def <- BytesDef, Op <- BytesOp

KeysOp(a, n, k) == n + StringLen(k.name.len) + StringLen(k.value.len)
KeysDef(c, f, s) == IF s = {} THEN c[2] ELSE KeysOp(c[1], f[s \ {Max(s)}], c[3][Max(s)])
KeysRec == INSTANCE Lemmas WITH Def <- KeysDef, Op <- KeysOp

FlatDef(c, f, i) == IF i = 1 THEN c[i] ELSE f[i-1] \o c[i]
FlatRec == INSTANCE Lemmas WITH Def <- FlatDef, Op <- BytesOp

(* s is a sequence of n elements.                                          *)
Counts(s, n) == n \in Nat /\ s = [i \in 1..n |-> s[i]]

(* Such a sequence has its length and its places.                          *)
LEMMA CountsLen ==
  ASSUME NEW s, NEW n, Counts(s, n)
  PROVE  s \in Seq({s[i] : i \in 1..n}) /\ Len(s) = n /\ DOMAIN s = 1..n
BY DEF Counts

(* A sequence of one element                                               *)
LEMMA OneCounts ==
  ASSUME NEW x
  PROVE  Counts(<<x>>, 1) /\ <<x>>[1] = x
BY DEF Counts

(* u is the n elements of s and then the m of t.                           *)
Joined(u, s, n, t, m) ==
  /\ Counts(u, n + m)
  /\ \A i \in 1..n : u[i] = s[i]
  /\ \A i \in 1..m : u[n + i] = t[i]

(* What \o joins has the elements of both.                                 *)
LEMMA JoinCounts ==
  ASSUME NEW s, NEW n \in Nat, NEW t, NEW m \in Nat, Counts(s, n), Counts(t, m)
  PROVE  Joined(s \o t, s, n, t, m)
<1>1. s \o t = [i \in 1..n+m |-> IF i <= n THEN s[i] ELSE t[i-n]]
  BY DEF Counts
<1>2. \A i \in 1..m : n + i \in 1..n+m /\ ~(n + i <= n) /\ n + i - n = i
  BY DEF Counts
<1>3. \A i \in 1..n : i \in 1..n+m /\ i <= n
  BY DEF Counts
<1>4. n + m \in Nat
  BY DEF Counts
<1> DEFINE u == s \o t
<1>5. \A i \in 1..n+m : u[i] = IF i <= n THEN s[i] ELSE t[i-n]
  BY <1>1
<1>6. u = [i \in 1..n+m |-> u[i]]
  BY <1>1
<1> HIDE DEF u
<1>7. (\A i \in 1..n : u[i] = s[i]) /\ \A i \in 1..m : u[n+i] = t[i]
  BY <1>2, <1>3, <1>5
<1> QED BY <1>4, <1>6, <1>7 DEF u, Counts, Joined
----------------------------------------------------------------------------
(* Bytes() is a fold that Lemmas speaks of.                                *)
LEMMA BytesIs ==
  ASSUME NEW fields
  PROVE  Bytes(fields) = BytesRec!Fold(0, 0, fields)
BY DEF Bytes, BytesOp, FoldLeft, MapThenFoldSet, Max, BytesRec!Fold, BytesRec!FoldLeft,
       BytesRec!MapThenFoldSet, BytesRec!Max

(* The operator that it repeats                                            *)
LEMMA BytesRepeats == BytesRec!RepeatsOp
BY DEF BytesRec!RepeatsOp, BytesDef, Max, BytesRec!Max

(* No field takes no bytes.                                                *)
LEMMA BytesNone ==
  ASSUME NEW s, Counts(s, 0)
  PROVE  Bytes(s) = 0
<1>1. DOMAIN s = {}
  BY DEF Counts
<1> QED BY <1>1, BytesRepeats, BytesIs, BytesRec!FoldNone

(* One field more takes the bytes of that field more.                      *)
LEMMA BytesMore ==
  ASSUME NEW n \in Nat, NEW s, Counts(s, n + 1), NEW t, Counts(t, n), \A i \in 1..n : t[i] = s[i]
  PROVE  Bytes(s) = Bytes(t) + s[n+1].size
<1>1. DOMAIN s = 1..n+1 /\ DOMAIN t = 1..n
  BY DEF Counts
<1>2. BytesRec!Fold(0, 0, s) = BytesOp(0, BytesRec!Fold(0, 0, t), s[n+1])
  BY <1>1, BytesRepeats, BytesRec!FoldOneMore
<1> QED BY <1>2, BytesIs DEF BytesOp

(* A field by itself                                                       *)
LEMMA BytesOne ==
  ASSUME NEW x, x.size \in Nat
  PROVE  Bytes(<<x>>) = x.size
<1> DEFINE none == [i \in 1..0 |-> x]
           one == <<x>>
<1>1. Counts(none, 0) /\ Counts(one, 0 + 1) /\ one[0 + 1] = x /\ \A i \in 1..0 : none[i] = one[i]
  BY DEF Counts
<1> HIDE DEF none, one
<1>2. Bytes(one) = Bytes(none) + one[0+1].size
  BY <1>1, BytesMore
<1>3. Bytes(none) = 0
  BY <1>1, BytesNone
<1> QED BY <1>1, <1>2, <1>3 DEF one

(* Fields one after another take the bytes of each.                        *)
LEMMA BytesJoin ==
  ASSUME NEW s, NEW n \in Nat, NEW t, NEW m \in Nat, Counts(s, n), Counts(t, m),
         \A i \in 1..m : t[i].size \in Nat, Bytes(s) \in Nat
  PROVE  Bytes(t) \in Nat /\ Bytes(s \o t) = Bytes(s) + Bytes(t)
<1> DEFINE pre(k) == [i \in 1..k |-> t[i]]
           T == {k \in Nat : k <= m => Bytes(pre(k)) \in Nat
                                         /\ Bytes(s \o pre(k)) = Bytes(s) + Bytes(pre(k))}
<1>1. \A k \in Nat : Counts(pre(k), k) /\ \A i \in 1..k : pre(k)[i] = t[i]
  BY DEF Counts
<1>2. 0 \in T
  <2>1. Counts(pre(0), 0)
    BY <1>1
  <2>2. s \o pre(0) = s
    BY DEF Counts
  <2>3. Bytes(pre(0)) = 0
    BY <2>1, BytesNone
  <2> QED BY <2>2, <2>3
<1>3. ASSUME NEW k \in Nat, k \in T PROVE k + 1 \in T
  <2>1. SUFFICES ASSUME k + 1 <= m
        PROVE  /\ Bytes(pre(k+1)) \in Nat
               /\ Bytes(s \o pre(k+1)) = Bytes(s) + Bytes(pre(k+1))
    OBVIOUS
  <2> DEFINE p == pre(k)
             q == pre(k+1)
  <2>0. Counts(s, n) /\ n \in Nat /\ k \in Nat
    OBVIOUS
  <2>2. Counts(p, k) /\ Counts(q, k + 1) /\ (\A i \in 1..k : p[i] = q[i]) /\ q[k+1] = t[k+1]
    BY <1>1
  <2>3. Bytes(p) \in Nat /\ Bytes(s \o p) = Bytes(s) + Bytes(p) /\ t[k+1].size \in Nat
    BY <1>3, <2>1
  <2> HIDE DEF p, q, T, pre
  <2>4. Bytes(q) = Bytes(p) + t[k+1].size
    BY <2>2, BytesMore
  <2>5. /\ Counts(s \o p, n + k) /\ Counts(s \o q, n + k + 1)
        /\ \A i \in 1..n+k : (s \o p)[i] = (s \o q)[i]
        /\ (s \o q)[n+k+1] = t[k+1]
    <3>1. Joined(s \o p, s, n, p, k)
      BY <2>0, <2>2, JoinCounts
    <3>2. Joined(s \o q, s, n, q, k + 1)
      <4>1. k + 1 \in Nat
        OBVIOUS
      <4> QED BY <2>2, <4>1, JoinCounts
    <3>3. n + (k + 1) = n + k + 1 /\ k + 1 \in 1..k+1
      OBVIOUS
    <3>4. ASSUME NEW i \in 1..n+k PROVE (s \o p)[i] = (s \o q)[i]
      <4>1. CASE i \in 1..n
        BY <3>1, <3>2, <4>1 DEF Joined
      <4>2. CASE i \notin 1..n
        <5>1. i - n \in 1..k /\ i - n \in 1..k+1 /\ n + (i - n) = i
          BY <4>2
        <5>2. (s \o p)[n + (i - n)] = p[i - n] /\ (s \o q)[n + (i - n)] = q[i - n]
          BY <5>1, <3>1, <3>2 DEF Joined
        <5> QED BY <5>1, <5>2, <2>2
      <4> QED BY <4>1, <4>2
    <3>5. (s \o q)[n + (k + 1)] = q[k+1]
      BY <3>2, <3>3 DEF Joined
    <3> QED BY <2>2, <3>1, <3>2, <3>3, <3>4, <3>5 DEF Joined
  <2>6. n + k \in Nat
    OBVIOUS
  <2>7. Bytes(s \o q) = Bytes(s \o p) + t[k+1].size
    BY <2>5, <2>6, BytesMore
  <2>8. Bytes(q) \in Nat /\ Bytes(s \o q) = Bytes(s) + Bytes(q)
    BY <2>3, <2>4, <2>7
  <2> QED BY <2>8 DEF q
<1>4. m \in T
  <2> HIDE DEF T
  <2> QED BY <1>2, <1>3, BytesRec!SetInduction
<1>5. pre(m) = t
  BY DEF Counts
<1> QED BY <1>4, <1>5
----------------------------------------------------------------------------
(* flat[i] is the first i of the sequences, one after another.             *)
Flattens(flat, seqs, n) ==
  /\ flat[1] = seqs[1]
  /\ \A k \in Nat : (k # 0 /\ k + 1 \in 1..n) => flat[k+1] = flat[k] \o seqs[k+1]

(* No sequences give no fields.                                            *)
LEMMA FlattenNone ==
  ASSUME NEW seqs, Counts(seqs, 0)
  PROVE  Counts(FlattenSeq(seqs), 0)
<1>1. Len(seqs) = 0
  BY CountsLen
<1> QED BY <1>1 DEF FlattenSeq

(* FlattenSeq joins one sequence after another.                            *)
LEMMA FlattenSteps ==
  ASSUME NEW seqs, NEW n \in Nat, Counts(seqs, n), n # 0
  PROVE  \E flat : FlattenSeq(seqs) = flat[n] /\ Flattens(flat, seqs, n)
<1> DEFINE S == 1..n
           m == [i \in S |-> i]
           flat == FlatRec!Recursive(seqs, S)
<1>1. m \in [S -> Nat]
  OBVIOUS
<1>2. FlatRec!LooksBelow(seqs, m, S)
  <2>1. SUFFICES ASSUME NEW f, NEW g, NEW i \in S, \A j \in S : m[j] < m[i] => f[j] = g[j]
        PROVE  FlatDef(seqs, f, i) = FlatDef(seqs, g, i)
    BY DEF FlatRec!LooksBelow
  <2>2. CASE i = 1
    BY <2>2 DEF FlatDef
  <2>3. CASE i # 1
    <3>1. i - 1 \in S /\ m[i-1] < m[i]
      BY <2>3
    <3>2. f[i-1] = g[i-1]
      BY <2>1, <3>1
    <3> QED BY <2>3, <3>2 DEF FlatDef
  <2> QED BY <2>2, <2>3
<1> HIDE DEF m
<1>3. flat = [i \in S |-> FlatDef(seqs, flat, i)]
  BY <1>1, <1>2, FlatRec!RecursionHolds
<1>4. FlattenSeq(seqs) = flat[n]
  <2>1. Len(seqs) = n
    BY CountsLen
  <2> QED BY <2>1 DEF FlattenSeq, FlatDef, FlatRec!Recursive
<1> HIDE DEF flat
<1>5. Flattens(flat, seqs, n)
  <2>1. \A i \in S : flat[i] = FlatDef(seqs, flat, i)
    BY <1>3
  <2>2. flat[1] = seqs[1]
    <3>1. 1 \in S
      OBVIOUS
    <3> QED BY <2>1, <3>1 DEF FlatDef
  <2>3. ASSUME NEW k \in Nat, k # 0, k + 1 \in 1..n PROVE flat[k+1] = flat[k] \o seqs[k+1]
    <3> DEFINE j == k + 1
    <3>1. j \in S /\ j # 1 /\ j - 1 = k
      BY <2>3
    <3> HIDE DEF j
    <3>2. flat[j] = flat[j-1] \o seqs[j]
      BY <2>1, <3>1 DEF FlatDef
    <3>3. flat[j] = flat[k] \o seqs[j]
      BY <3>1, <3>2
    <3> QED BY <3>3 DEF j
  <2> QED BY <2>2, <2>3 DEF Flattens
<1> QED BY <1>4, <1>5

(* Sequences of one field each                                             *)
Ones(u, v, n) == Counts(u, n) /\ \A i \in 1..n : u[i] = v[i]

(* Sequences of one field each give as many fields.                        *)
LEMMA FlattenOnes ==
  ASSUME NEW v, NEW n \in Nat, NEW seqs, Counts(seqs, n), \A i \in 1..n : seqs[i] = <<v[i]>>
  PROVE  Ones(FlattenSeq(seqs), v, n)
<1>1. CASE n = 0
  BY <1>1, FlattenNone DEF Ones
<1>2. CASE n # 0
  <2>1. PICK flat : FlattenSeq(seqs) = flat[n] /\ Flattens(flat, seqs, n)
    BY <1>2, FlattenSteps
  <2> DEFINE T == {k \in Nat : k \in 1..n => Ones(flat[k], v, k)}
  <2>2. 0 \in T
    OBVIOUS
  <2>3. ASSUME NEW k \in Nat, k \in T PROVE k + 1 \in T
    <3>1. SUFFICES ASSUME k + 1 \in 1..n PROVE Ones(flat[k+1], v, k + 1)
      OBVIOUS
    <3>2. Counts(<<v[k+1]>>, 1) /\ <<v[k+1]>>[1] = v[k+1]
      BY OneCounts
    <3>3. CASE k = 0
      <4>1. flat[1] = <<v[1]>>
        BY <2>1, <3>1, <3>3 DEF Flattens
      <4> QED BY <3>2, <3>3, <4>1 DEF Ones
    <3>4. CASE k # 0
      <4> DEFINE f == flat[k]
                 o == <<v[k+1]>>
      <4>1. flat[k+1] = f \o o
        <5>1. flat[k+1] = f \o seqs[k+1]
          BY <2>1, <3>1, <3>4 DEF Flattens
        <5>2. seqs[k+1] = o
          BY <3>1
        <5> QED BY <5>1, <5>2
      <4>2. Ones(f, v, k)
        BY <2>3, <3>1, <3>4
      <4>3. Counts(f, k) /\ Counts(o, 1) /\ o[1] = v[k+1] /\ 1 \in Nat
        BY <3>2, <4>2 DEF Ones
      <4> HIDE DEF f, o
      <4>4. Joined(f \o o, f, k, o, 1)
        BY <4>3, JoinCounts
      <4>5. (f \o o)[k+1] = v[k+1]
        <5>1. 1 \in 1..1
          OBVIOUS
        <5>2. (f \o o)[k+1] = o[1]
          BY <4>4, <5>1 DEF Joined
        <5> QED BY <4>3, <5>2
      <4>6. Ones(f \o o, v, k + 1)
        <5>1. Counts(f \o o, k + 1)
          BY <4>4 DEF Joined
        <5>2. ASSUME NEW i \in 1..k+1 PROVE (f \o o)[i] = v[i]
          <6>1. CASE i = k + 1
            BY <4>5, <6>1
          <6>2. CASE i # k + 1
            <7>1. i \in 1..k
              BY <6>2
            <7> QED BY <4>2, <4>4, <7>1 DEF Joined, Ones
          <6> QED BY <6>1, <6>2
        <5> QED BY <5>1, <5>2 DEF Ones
      <4> QED BY <4>1, <4>6
    <3> QED BY <3>3, <3>4
  <2>4. n \in T
    <3> HIDE DEF T
    <3> QED BY <2>2, <2>3, BytesRec!SetInduction
  <2> QED BY <1>2, <2>1, <2>4
<1> QED BY <1>1, <1>2

(* Sequences of two fields each                                            *)
Twos(u, v, w, n) ==
  Counts(u, 2 * n) /\ \A i \in 1..n : u[2 * i - 1] = v[i] /\ u[2 * i] = w[i]

(* Every one of the sequences has one field of v and one of w.             *)
Pairs(seqs, v, w, n) == \A i \in 1..n : seqs[i] = <<v[i]>> \o <<w[i]>>

(* Sequences of two fields each give the fields two by two.                *)
LEMMA FlattenTwos ==
  ASSUME NEW v, NEW w, NEW n \in Nat, NEW seqs, Counts(seqs, n), Pairs(seqs, v, w, n)
  PROVE  \/ n = 0 /\ Twos(FlattenSeq(seqs), v, w, n)
         \/ n # 0 /\ \E flat : /\ FlattenSeq(seqs) = flat[n]
                              /\ Flattens(flat, seqs, n)
                              /\ \A k \in 1..n : Twos(flat[k], v, w, k)
<1>1. CASE n = 0
  BY <1>1, FlattenNone DEF Twos
<1>2. CASE n # 0
  <2>1. PICK flat : FlattenSeq(seqs) = flat[n] /\ Flattens(flat, seqs, n)
    BY <1>2, FlattenSteps
  <2> DEFINE T == {k \in Nat : k \in 1..n => Twos(flat[k], v, w, k)}
  <2>2. 0 \in T
    OBVIOUS
  <2>3. ASSUME NEW k \in Nat, k \in T PROVE k + 1 \in T
    <3>1. SUFFICES ASSUME k + 1 \in 1..n PROVE Twos(flat[k+1], v, w, k + 1)
      OBVIOUS
    <3> DEFINE x == v[k+1]
               y == w[k+1]
               o == <<x>> \o <<y>>
    <3>2. Counts(o, 2) /\ o[1] = x /\ o[2] = y
      <4> HIDE DEF x, y, o
      <4>1. Counts(<<x>>, 1) /\ Counts(<<y>>, 1) /\ <<x>>[1] = x /\ <<y>>[1] = y /\ 1 \in Nat
        BY OneCounts
      <4>2. Joined(<<x>> \o <<y>>, <<x>>, 1, <<y>>, 1)
        BY <4>1, JoinCounts
      <4>3. 1 + 1 = 2 /\ 1 \in 1..1
        OBVIOUS
      <4> QED BY <4>1, <4>2, <4>3 DEF Joined, o
    <3>3. CASE k = 0
      <4>1. flat[1] = o
        <5>1. flat[k+1] = seqs[k+1]
          BY <2>1, <3>3 DEF Flattens
        <5>2. seqs[k+1] = o
          BY <3>1 DEF Pairs
        <5> QED BY <3>3, <5>1, <5>2
      <4> HIDE DEF o
      <4>2. Twos(flat[1], v, w, 1)
        BY <3>2, <3>3, <4>1 DEF Twos
      <4> QED BY <3>3, <4>2
    <3>4. CASE k # 0
      <4> DEFINE f == flat[k]
      <4>1. flat[k+1] = f \o o
        <5>1. flat[k+1] = f \o seqs[k+1]
          BY <2>1, <3>1, <3>4 DEF Flattens
        <5>2. seqs[k+1] = o
          BY <3>1 DEF Pairs
        <5> QED BY <5>1, <5>2
      <4>2. Twos(f, v, w, k)
        BY <2>3, <3>1, <3>4
      <4>3. Counts(f, 2 * k) /\ 2 * k \in Nat /\ 2 \in Nat
        BY <4>2 DEF Twos
      <4> HIDE DEF f, o
      <4>4. Joined(f \o o, f, 2 * k, o, 2)
        BY <3>2, <4>3, JoinCounts
      <4>5. (f \o o)[2 * k + 1] = x /\ (f \o o)[2 * k + 2] = y
        <5>1. 1 \in 1..2 /\ 2 \in 1..2
          OBVIOUS
        <5>2. (f \o o)[2 * k + 1] = o[1] /\ (f \o o)[2 * k + 2] = o[2]
          BY <4>4, <5>1 DEF Joined
        <5> QED BY <3>2, <5>2
      <4>6. Counts(f \o o, 2 * (k + 1))
        <5>1. 2 * k + 2 = 2 * (k + 1)
          OBVIOUS
        <5> QED BY <4>4, <5>1 DEF Joined
      <4>7. ASSUME NEW i \in 1..k+1
            PROVE  (f \o o)[2 * i - 1] = v[i] /\ (f \o o)[2 * i] = w[i]
        <5>1. CASE i = k + 1
          <6>1. 2 * i - 1 = 2 * k + 1 /\ 2 * i = 2 * k + 2
            BY <5>1
          <6> QED BY <4>5, <5>1, <6>1
        <5>2. CASE i # k + 1
          <6>1. i \in 1..k /\ 2 * i - 1 \in 1..2*k /\ 2 * i \in 1..2*k
            BY <5>2
          <6> QED BY <4>2, <4>4, <6>1 DEF Joined, Twos
        <5> QED BY <5>1, <5>2
      <4>8. Twos(f \o o, v, w, k + 1)
        BY <4>6, <4>7 DEF Twos
      <4> QED BY <4>1, <4>8
    <3> QED BY <3>3, <3>4
  <2>4. \A k \in Nat : k \in T
    <3> HIDE DEF T
    <3> QED BY <2>2, <2>3, BytesRec!SetInduction
  <2>5. \A k \in 1..n : Twos(flat[k], v, w, k)
    BY <2>4
  <2> QED BY <1>2, <2>1, <2>5
<1> QED BY <1>1, <1>2
----------------------------------------------------------------------------
StrField(s) == [kind |-> "str", val |-> [id |-> s.id, len |-> HeadValue(s.len)],
                size |-> StringLen(s.len)]

(* ngx_statshouse_tl_string_len() counts whole words of four bytes, the    *)
(* head among them, for every length.                                      *)
LEMMA StringFacts ==
  ASSUME NEW len \in Nat
  PROVE  /\ StringHead(len) \in Nat /\ StringPadding(len) \in 0..3
         /\ StringLen(len) \in Nat /\ StringLen(len) % 4 = 0
<1>1. CASE len <= Tiny
  <2>1. StringHead(len) = 1 /\ StringPadding(len) = (-(len + 1)) % 4
    BY <1>1 DEF StringHead, StringPadding
  <2>2. (-(len + 1)) % 4 \in 0..3
    OBVIOUS
  <2>3. (1 + len + ((-(len + 1)) % 4)) % 4 = 0
    OBVIOUS
  <2> QED BY <2>1, <2>2, <2>3 DEF StringLen
<1>2. CASE ~(len <= Tiny)
  <2>1. StringHead(len) = 4 /\ StringPadding(len) = (-len) % 4
    BY <1>2 DEF StringHead, StringPadding
  <2>2. (-len) % 4 \in 0..3
    OBVIOUS
  <2>3. (4 + len + ((-len) % 4)) % 4 = 0
    OBVIOUS
  <2> QED BY <2>1, <2>2, <2>3 DEF StringLen
<1> QED BY <1>1, <1>2

(* ngx_statshouse_tl_string() writes as much as is counted for it.         *)
LEMMA StrIs ==
  ASSUME NEW s
  PROVE  Str(s) = <<StrField(s)>>
BY DEF Str, StrField, StringLen

(* What ngx_statshouse_tl_metric_len() adds up for keys                    *)
KeysSum(keys) == KeysRec!Fold(0, 0, keys)

(* The operator that the sum of the keys repeats                           *)
LEMMA KeysRepeats == KeysRec!RepeatsOp
BY DEF KeysRec!RepeatsOp, KeysDef, Max, KeysRec!Max

(* What the code adds up for keys is a fold that Lemmas speaks of.         *)
LEMMA KeysLenIs ==
  ASSUME NEW stat
  PROVE  KeysLen(stat) = KeysSum(stat.keys)
BY DEF KeysLen, KeysSum, KeysOp, FoldLeft, MapThenFoldSet, Max, KeysRec!Fold, KeysRec!FoldLeft,
       KeysRec!MapThenFoldSet, KeysRec!Max

(* No keys take nothing.                                                   *)
LEMMA KeysNone ==
  ASSUME NEW s, Counts(s, 0)
  PROVE  KeysSum(s) = 0
<1>1. DOMAIN s = {}
  BY DEF Counts
<1> QED BY <1>1, KeysRepeats, KeysRec!FoldNone DEF KeysSum

(* One key more takes the bytes of its name and its value more.            *)
LEMMA KeysMore ==
  ASSUME NEW n \in Nat, NEW s, Counts(s, n + 1), NEW t, Counts(t, n), \A i \in 1..n : t[i] = s[i]
  PROVE  KeysSum(s) = KeysSum(t) + StringLen(s[n+1].name.len) + StringLen(s[n+1].value.len)
<1>1. DOMAIN s = 1..n+1 /\ DOMAIN t = 1..n
  BY DEF Counts
<1>2. KeysRec!Fold(0, 0, s) = KeysOp(0, KeysRec!Fold(0, 0, t), s[n+1])
  BY <1>1, KeysRepeats, KeysRec!FoldOneMore
<1> QED BY <1>2 DEF KeysOp, KeysSum

(* Keys with their lengths, and the fields of each                         *)
KeysGiven(keys, seqs, n) ==
  \A i \in 1..n : /\ keys[i].name.len \in Nat /\ keys[i].value.len \in Nat
                  /\ seqs[i] = Str(keys[i].name) \o Str(keys[i].value)

(* The fields of keys take the bytes that are added up for them.           *)
LEMMA KeysBytes ==
  ASSUME NEW n \in Nat, n # 0, NEW keys, Counts(keys, n), NEW seqs, KeysGiven(keys, seqs, n),
         NEW v, NEW w, NEW flat, Flattens(flat, seqs, n),
         \A k \in 1..n : Twos(flat[k], v, w, k)
  PROVE  Bytes(flat[n]) \in Nat /\ Bytes(flat[n]) = KeysSum(keys)
<1> DEFINE pre(k) == [i \in 1..k |-> keys[i]]
           Good(k) == Bytes(flat[k]) \in Nat /\ Bytes(flat[k]) = KeysSum(pre(k))
           T == {k \in Nat : k \in 1..n => Good(k)}
<1>1. \A k \in Nat : Counts(pre(k), k) /\ \A i \in 1..k : pre(k)[i] = keys[i]
  BY DEF Counts
<1>2. 0 \in T
  OBVIOUS
<1>3. ASSUME NEW k \in Nat, k \in T PROVE k + 1 \in T
  <2>1. SUFFICES ASSUME k + 1 \in 1..n PROVE Good(k + 1)
    OBVIOUS
  <2> DEFINE a == keys[k+1].name
             b == keys[k+1].value
             x == StrField(a)
             y == StrField(b)
             o == <<x>> \o <<y>>
             p == pre(k)
             q == pre(k+1)
  <2>2. a.len \in Nat /\ b.len \in Nat /\ seqs[k+1] = o
    BY <2>1, StrIs DEF KeysGiven
  <2>3. Counts(p, k) /\ Counts(q, k + 1) /\ (\A i \in 1..k : p[i] = q[i]) /\ q[k+1] = keys[k+1]
    BY <1>1
  <2> HIDE DEF p, q
  <2>4. KeysSum(q) = KeysSum(p) + StringLen(a.len) + StringLen(b.len)
    BY <2>3, KeysMore
  <2> HIDE DEF a, b
  <2>5. /\ x.size = StringLen(a.len) /\ y.size = StringLen(b.len)
        /\ StringLen(a.len) \in Nat /\ StringLen(b.len) \in Nat
    BY <2>2, StringFacts DEF StrField
  <2> HIDE DEF x, y
  <2>6. Counts(o, 2) /\ o[1] = x /\ o[2] = y /\ Bytes(o) = x.size + y.size
    <3>1. /\ Counts(<<x>>, 1) /\ Counts(<<y>>, 1) /\ <<x>>[1] = x /\ <<y>>[1] = y /\ 1 \in Nat
          /\ Bytes(<<x>>) = x.size /\ Bytes(<<y>>) = y.size /\ \A i \in 1..1 : <<y>>[i].size \in Nat
      BY <2>5, OneCounts, BytesOne
    <3>2. Joined(<<x>> \o <<y>>, <<x>>, 1, <<y>>, 1)
      BY <3>1, JoinCounts
    <3>3. Bytes(<<x>> \o <<y>>) = Bytes(<<x>>) + Bytes(<<y>>)
      BY <2>5, <3>1, BytesJoin
    <3>4. 1 + 1 = 2 /\ 1 \in 1..1
      OBVIOUS
    <3> QED BY <3>1, <3>2, <3>3, <3>4 DEF Joined
  <2> HIDE DEF o
  <2>7. Bytes(o) \in Nat /\ \A i \in 1..2 : o[i].size \in Nat
    BY <2>5, <2>6
  <2>8. CASE k = 0
    <3>1. flat[1] = seqs[1]
      BY DEF Flattens
    <3>2. Bytes(flat[k+1]) = Bytes(o)
      BY <2>2, <2>8, <3>1
    <3>3. KeysSum(p) = 0
      BY <2>3, <2>8, KeysNone
    <3> QED BY <2>4, <2>5, <2>6, <2>7, <3>2, <3>3 DEF q
  <2>9. CASE k # 0
    <3> DEFINE f == flat[k]
    <3>1. flat[k+1] = f \o o
      BY <2>1, <2>2, <2>9 DEF Flattens
    <3>2. k \in 1..n
      BY <2>1, <2>9
    <3>3. Counts(f, 2 * k) /\ Bytes(f) \in Nat /\ Bytes(f) = KeysSum(p)
      BY <1>3, <3>2 DEF p, Twos
    <3> HIDE DEF f
    <3>4. 2 * k \in Nat /\ 2 \in Nat
      OBVIOUS
    <3>5. Bytes(f \o o) = Bytes(f) + Bytes(o)
      BY <2>6, <2>7, <3>3, <3>4, BytesJoin
    <3>6. Bytes(flat[k+1]) \in Nat /\ Bytes(flat[k+1]) = KeysSum(q)
      BY <2>4, <2>5, <2>6, <2>7, <3>1, <3>3, <3>5
    <3> QED BY <3>6 DEF q
  <2> QED BY <2>8, <2>9
<1>4. n \in T
  <2> HIDE DEF T
  <2> QED BY <1>2, <1>3, BytesRec!SetInduction
<1>5. pre(n) = keys
  BY DEF Counts
<1> QED BY <1>4, <1>5

(* Fields of eight bytes each                                              *)
LEMMA EightsBytes ==
  ASSUME NEW n \in Nat, NEW u, Counts(u, n), \A i \in 1..n : u[i].size = 8
  PROVE  Bytes(u) = 8 * n
<1> DEFINE pre(k) == [i \in 1..k |-> u[i]]
           T == {k \in Nat : k <= n => Bytes(pre(k)) = 8 * k}
<1>1. \A k \in Nat : Counts(pre(k), k) /\ \A i \in 1..k : pre(k)[i] = u[i]
  BY DEF Counts
<1>2. 0 \in T
  <2>1. Counts(pre(0), 0)
    BY <1>1
  <2>2. Bytes(pre(0)) = 0
    <3> HIDE DEF pre
    <3> QED BY <2>1, BytesNone
  <2> QED BY <2>2
<1>3. ASSUME NEW k \in Nat, k \in T PROVE k + 1 \in T
  <2>1. SUFFICES ASSUME k + 1 <= n PROVE Bytes(pre(k+1)) = 8 * (k + 1)
    OBVIOUS
  <2> DEFINE p == pre(k)
             q == pre(k+1)
  <2>2. Counts(p, k) /\ Counts(q, k + 1) /\ (\A i \in 1..k : p[i] = q[i]) /\ q[k+1] = u[k+1]
    BY <1>1
  <2>3. Bytes(p) = 8 * k /\ u[k+1].size = 8
    BY <1>3, <2>1
  <2> HIDE DEF p, q
  <2>4. Bytes(q) = Bytes(p) + u[k+1].size
    BY <2>2, BytesMore
  <2>5. Bytes(q) = 8 * (k + 1)
    BY <2>3, <2>4
  <2> QED BY <2>5 DEF q
<1>4. n \in T
  <2> HIDE DEF T
  <2> QED BY <1>2, <1>3, BytesRec!SetInduction
<1>5. pre(n) = u
  BY DEF Counts
<1> QED BY <1>4, <1>5
----------------------------------------------------------------------------
(* n fields, aligned, that take b bytes                                    *)
Piece(s, n, b) ==
  /\ n \in Nat /\ b \in Nat /\ Counts(s, n) /\ Bytes(s) = b
  /\ \A i \in 1..n : s[i].size \in Nat /\ s[i].size % 4 = 0

(* One field is a piece.                                                   *)
LEMMA PieceOne ==
  ASSUME NEW x, x.size \in Nat, x.size % 4 = 0
  PROVE  Piece(<<x>>, 1, x.size)
<1>1. \A i \in 1..1 : <<x>>[i] = x
  OBVIOUS
<1> QED BY <1>1, OneCounts, BytesOne DEF Piece

(* Two pieces one after the other are a piece.                             *)
LEMMA PieceJoin ==
  ASSUME NEW s, NEW n, NEW b, NEW t, NEW m, NEW c, Piece(s, n, b), Piece(t, m, c)
  PROVE  Piece(s \o t, n + m, b + c) /\ Joined(s \o t, s, n, t, m)
<1>1. n \in Nat /\ m \in Nat /\ b \in Nat /\ c \in Nat /\ Counts(s, n) /\ Counts(t, m)
  BY DEF Piece
<1>2. Joined(s \o t, s, n, t, m)
  BY <1>1, JoinCounts
<1>3. Bytes(s \o t) = b + c
  <2>1. Bytes(s) = b /\ Bytes(t) = c /\ \A i \in 1..m : t[i].size \in Nat
    BY DEF Piece
  <2> QED BY <1>1, <2>1, BytesJoin
<1> DEFINE u == s \o t
<1> HIDE DEF u
<1>4. ASSUME NEW i \in 1..n+m PROVE u[i].size \in Nat /\ u[i].size % 4 = 0
  <2>1. CASE i \in 1..n
    <3>1. u[i] = s[i]
      BY <1>2, <2>1 DEF Joined, u
    <3> QED BY <2>1, <3>1 DEF Piece
  <2>2. CASE i \notin 1..n
    <3> DEFINE j == i - n
    <3>1. j \in 1..m /\ n + j = i
      BY <1>1, <2>2
    <3> HIDE DEF j
    <3>2. u[n + j] = t[j]
      BY <1>2, <3>1 DEF Joined, u
    <3>3. u[i] = t[j]
      BY <3>1, <3>2
    <3> QED BY <3>1, <3>3 DEF Piece
  <2> QED BY <2>1, <2>2
<1>5. Counts(u, n + m) /\ n + m \in Nat /\ b + c \in Nat
  BY <1>1, <1>2 DEF Joined, u
<1>6. Piece(u, n + m, b + c)
  BY <1>3, <1>4, <1>5 DEF Piece, u
<1> QED BY <1>2, <1>6 DEF u

U32Field(n) == [kind |-> "u32", val |-> n, size |-> 4]
I64Field(n) == [kind |-> "i64", val |-> n, size |-> 8]
F64Field(n) == [kind |-> "f64", val |-> n, size |-> 8]

(* The piece of a 32-bit number                                            *)
LEMMA U32Piece ==
  ASSUME NEW n
  PROVE  Piece(U32(n), 1, 4) /\ U32(n)[1] = U32Field(n)
<1> DEFINE x == U32Field(n)
<1>1. U32(n) = <<x>> /\ x.size = 4 /\ 4 \in Nat /\ 4 % 4 = 0
  BY DEF U32, U32Field
<1> HIDE DEF x
<1>2. Piece(<<x>>, 1, x.size) /\ <<x>>[1] = x
  BY <1>1, PieceOne, OneCounts
<1> QED BY <1>1, <1>2 DEF x

(* The piece of a double                                                   *)
LEMMA F64Piece ==
  ASSUME NEW n
  PROVE  Piece(F64(n), 1, 8) /\ F64(n)[1] = F64Field(n)
<1> DEFINE x == F64Field(n)
<1>1. F64(n) = <<x>> /\ x.size = 8 /\ 8 \in Nat /\ 8 % 4 = 0
  BY DEF F64, F64Field
<1> HIDE DEF x
<1>2. Piece(<<x>>, 1, x.size) /\ <<x>>[1] = x
  BY <1>1, PieceOne, OneCounts
<1> QED BY <1>1, <1>2 DEF x

(* The piece of a string                                                   *)
LEMMA StrPiece ==
  ASSUME NEW s, s.len \in Nat
  PROVE  Piece(Str(s), 1, StringLen(s.len)) /\ Str(s)[1] = StrField(s)
<1> DEFINE x == StrField(s)
<1>1. Str(s) = <<x>> /\ x.size = StringLen(s.len) /\ x.size \in Nat /\ x.size % 4 = 0
  BY StrIs, StringFacts DEF StrField
<1> HIDE DEF x
<1>2. Piece(<<x>>, 1, x.size) /\ <<x>>[1] = x
  BY <1>1, PieceOne, OneCounts
<1> QED BY <1>1, <1>2 DEF x
----------------------------------------------------------------------------
(* Every stat has the shape that is assumed of it.                         *)
Shaped(stat) ==
  /\ stat.type \in {"counter", "value", "unique"} /\ stat.name \in Strings
  /\ stat.keys \in Seq([name : Strings, value : Strings])
  /\ stat.values \in Seq(Int) /\ (stat.type = "counter" => Len(stat.values) = 1)
  /\ stat = [type |-> stat.type, name |-> stat.name, keys |-> stat.keys, values |-> stat.values]

(* Every stat is such a record.                                            *)
LEMMA StatsShaped == \A stat \in Stats : Shaped(stat)
<1>1. SUFFICES ASSUME NEW stat \in Stats PROVE Shaped(stat)
  OBVIOUS
<1>2. /\ stat \in [type : {"counter", "value", "unique"}, name : Strings,
                   keys : Seq([name : Strings, value : Strings]), values : Seq(Int)]
      /\ stat.type = "counter" => Len(stat.values) = 1
  BY StatsAssumption
<1> QED BY <1>2 DEF Shaped

(* The length of a string fits into its head.                              *)
LEMMA StringLens ==
  \A s \in Strings : /\ s.len \in Nat /\ s = [id |-> s.id, len |-> s.len]
                     /\ HeadValue(s.len) = s.len
<1>1. SUFFICES ASSUME NEW s \in Strings
               PROVE  /\ s.len \in Nat /\ s = [id |-> s.id, len |-> s.len]
                      /\ HeadValue(s.len) = s.len
  OBVIOUS
<1>2. s.len \in 0..2^24-1 /\ s = [id |-> s.id, len |-> s.len]
  BY DEF Strings
<1>3. 2^24 = 16777216
  OBVIOUS
<1>4. s.len \in Nat /\ s.len < 16777216
  BY <1>2, <1>3
<1>5. s.len % 2^24 = s.len
  BY <1>3, <1>4
<1> QED BY <1>2, <1>4, <1>5 DEF HeadValue

(* A sequence of its elements                                              *)
LEMMA SeqCounts ==
  ASSUME NEW X, NEW s \in Seq(X)
  PROVE  Counts(s, Len(s)) /\ Len(s) \in Nat /\ \A i \in 1..Len(s) : s[i] \in X
BY DEF Counts

(* The names and values of keys, as they follow the count of the keys      *)
KeysBody(stat) ==
  FlattenSeq([i \in DOMAIN stat.keys |-> Str(stat.keys[i].name) \o Str(stat.keys[i].value)])

NameField(stat, i) == StrField(stat.keys[i].name)
ValueField(stat, i) == StrField(stat.keys[i].value)

(* The fields that ngx_statshouse_tl_metric() writes for the keys take     *)
(* what is counted for them, name and value in turn.                       *)
LEMMA KeysBodyPiece ==
  ASSUME NEW stat, Shaped(stat)
  PROVE  /\ Piece(KeysBody(stat), 2 * Len(stat.keys), KeysLen(stat))
         /\ \A i \in 1..Len(stat.keys) : /\ KeysBody(stat)[2 * i - 1] = NameField(stat, i)
                                         /\ KeysBody(stat)[2 * i] = ValueField(stat, i)
<1> DEFINE n == Len(stat.keys)
           keys == stat.keys
           v == [i \in 1..n |-> NameField(stat, i)]
           w == [i \in 1..n |-> ValueField(stat, i)]
           seqs == [i \in DOMAIN keys |-> Str(keys[i].name) \o Str(keys[i].value)]
           body == KeysBody(stat)
<1>1. /\ n \in Nat /\ Counts(keys, n) /\ DOMAIN keys = 1..n
      /\ \A i \in 1..n : keys[i].name.len \in Nat /\ keys[i].value.len \in Nat
  <2>1. keys \in Seq([name : Strings, value : Strings])
    BY DEF Shaped
  <2>2. /\ Counts(keys, n) /\ n \in Nat
        /\ \A i \in 1..n : keys[i] \in [name : Strings, value : Strings]
    BY <2>1, SeqCounts
  <2>3. \A s \in Strings : s.len \in Nat
    BY StringLens
  <2> QED BY <2>2, <2>3, CountsLen
<1>2. \A i \in 1..n : /\ StringLen(keys[i].name.len) \in Nat /\ StringLen(keys[i].name.len) % 4 = 0
                      /\ StringLen(keys[i].value.len) \in Nat
                      /\ StringLen(keys[i].value.len) % 4 = 0
  BY <1>1, StringFacts
<1>3. \A i \in 1..n : /\ v[i] = StrField(keys[i].name) /\ v[i].size = StringLen(keys[i].name.len)
                      /\ w[i] = StrField(keys[i].value)
                      /\ w[i].size = StringLen(keys[i].value.len)
  BY DEF StrField, NameField, ValueField
<1>4. Counts(seqs, n) /\ \A i \in 1..n : seqs[i] = Str(keys[i].name) \o Str(keys[i].value)
  BY <1>1 DEF Counts
<1>5. Pairs(seqs, v, w, n) /\ KeysGiven(keys, seqs, n)
  BY <1>1, <1>3, <1>4, StrIs DEF Pairs, KeysGiven
<1>6. body = FlattenSeq(seqs)
  BY DEF KeysBody
<1> HIDE DEF body, seqs, v, w, n, keys
<1>7. Twos(body, v, w, n) /\ Bytes(body) \in Nat /\ Bytes(body) = KeysSum(keys)
  <2>1. CASE n = 0
    <3>1. Twos(body, v, w, n)
      BY <1>1, <1>4, <1>5, <1>6, <2>1, FlattenTwos
    <3>2. Counts(body, 0) /\ Counts(keys, 0)
      BY <1>1, <2>1, <3>1 DEF Twos
    <3> QED BY <3>1, <3>2, BytesNone, KeysNone
  <2>2. CASE n # 0
    <3>1. PICK flat : /\ body = flat[n] /\ Flattens(flat, seqs, n)
                      /\ \A k \in 1..n : Twos(flat[k], v, w, k)
      BY <1>1, <1>4, <1>5, <1>6, <2>2, FlattenTwos
    <3>2. Bytes(flat[n]) \in Nat /\ Bytes(flat[n]) = KeysSum(keys)
      BY <1>1, <1>5, <2>2, <3>1, KeysBytes
    <3>3. Twos(flat[n], v, w, n)
      BY <1>1, <2>2, <3>1
    <3> QED BY <3>1, <3>2, <3>3
  <2> QED BY <2>1, <2>2
<1>8. \A j \in 1..2*n : body[j].size \in Nat /\ body[j].size % 4 = 0
  <2>1. SUFFICES ASSUME NEW j \in 1..2*n PROVE body[j].size \in Nat /\ body[j].size % 4 = 0
    OBVIOUS
  <2>2. PICK i \in 1..n : j = 2 * i - 1 \/ j = 2 * i
    <3>1. j % 2 = 0 => j \div 2 \in 1..n /\ j = 2 * (j \div 2)
      BY <1>1
    <3>2. j % 2 # 0 => (j + 1) \div 2 \in 1..n /\ j = 2 * ((j + 1) \div 2) - 1
      BY <1>1
    <3> QED BY <3>1, <3>2
  <2>3. body[2 * i - 1] = v[i] /\ body[2 * i] = w[i]
    BY <1>7 DEF Twos
  <2> QED BY <1>2, <1>3, <2>2, <2>3
<1>9. KeysLen(stat) = KeysSum(keys) /\ Counts(body, 2 * n) /\ 2 * n \in Nat
  BY <1>1, <1>7, KeysLenIs DEF Twos, keys
<1>10. Piece(body, 2 * n, KeysLen(stat))
  BY <1>7, <1>8, <1>9 DEF Piece
<1>11. \A i \in 1..n : body[2 * i - 1] = NameField(stat, i) /\ body[2 * i] = ValueField(stat, i)
  BY <1>7 DEF Twos, v, w
<1> QED BY <1>10, <1>11 DEF body, n, keys

(* The fields of the values, and how many fields a stat has                *)
NumberField(stat, i) ==
  IF stat.type = "unique" THEN I64Field(stat.values[i]) ELSE F64Field(stat.values[i])
NumberCount(stat) == IF stat.type = "value" THEN Len(stat.values) ELSE 1
ValueFields(stat) == IF stat.type = "counter" THEN 1 ELSE 1 + Len(stat.values)
FieldsOf(stat) == 6 + 2 * Len(stat.keys) + ValueFields(stat)

(* The values of stat are in p from field b on.                            *)
ValuesLaid(p, b, stat) ==
  IF stat.type = "counter"
    THEN p[b] = NumberField(stat, 1)
    ELSE /\ p[b] = U32Field(NumberCount(stat))
         /\ \A i \in 1..Len(stat.values) : p[b+i] = NumberField(stat, i)

(* The fields of the numbers, each eight bytes                             *)
LEMMA NumbersPiece ==
  ASSUME NEW v, NEW n \in Nat, NEW seqs, Counts(seqs, n), \A i \in 1..n : seqs[i] = <<v[i]>>,
         \A i \in 1..n : v[i].size = 8
  PROVE  /\ Piece(FlattenSeq(seqs), n, 8 * n)
         /\ \A i \in 1..n : FlattenSeq(seqs)[i] = v[i]
<1> DEFINE u == FlattenSeq(seqs)
<1>1. Ones(u, v, n)
  BY FlattenOnes
<1> HIDE DEF u
<1>2. Counts(u, n) /\ \A i \in 1..n : u[i] = v[i]
  BY <1>1 DEF Ones
<1>3. \A i \in 1..n : u[i].size = 8
  BY <1>2
<1>4. Bytes(u) = 8 * n
  BY <1>2, <1>3, EightsBytes
<1>5. Piece(u, n, 8 * n)
  <2>1. 8 * n \in Nat /\ 8 \in Nat /\ 8 % 4 = 0
    OBVIOUS
  <2> QED BY <1>2, <1>3, <1>4, <2>1 DEF Piece
<1> QED BY <1>2, <1>5 DEF u

(* The fields of a stat's values take what is counted for them: a counter, *)
(* values, or unique values.                                               *)
LEMMA ValuesPiece ==
  ASSUME NEW stat, Shaped(stat)
  PROVE  Piece(Values(stat), ValueFields(stat), ValuesLen(stat)) /\ ValuesLaid(Values(stat), 1, stat)
<1> DEFINE n == Len(stat.values)
           v == [i \in 1..n |-> NumberField(stat, i)]
<1>1. n \in Nat /\ Counts(stat.values, n) /\ DOMAIN stat.values = 1..n
  <2>1. stat.values \in Seq(Int)
    BY DEF Shaped
  <2> QED BY <2>1, SeqCounts, CountsLen
<1>2. CASE stat.type = "counter"
  <2>1. Values(stat) = F64(stat.values[1]) /\ NumberField(stat, 1) = F64Field(stat.values[1])
    BY <1>2 DEF Values, NumberField
  <2>2. ValueFields(stat) = 1 /\ ValuesLen(stat) = 8
    BY <1>2 DEF ValueFields, ValuesLen
  <2> QED BY <1>2, <2>1, <2>2, F64Piece DEF ValuesLaid
<1>3. CASE stat.type # "counter"
  <2>1. PICK seqs : /\ Values(stat) = U32(NumberCount(stat)) \o FlattenSeq(seqs) /\ Counts(seqs, n)
                    /\ \A i \in 1..n : seqs[i] = <<v[i]>>
    <3>1. CASE stat.type = "value"
      <4> DEFINE seqs == [i \in DOMAIN stat.values |-> F64(stat.values[i])]
      <4>1. Values(stat) = U32(NumberCount(stat)) \o FlattenSeq(seqs)
        BY <3>1 DEF Values, NumberCount
      <4>2. Counts(seqs, n)
        BY <1>1 DEF Counts
      <4>3. \A i \in 1..n : seqs[i] = <<v[i]>>
        BY <1>1, <3>1 DEF F64, F64Field, NumberField
      <4> HIDE DEF seqs, v
      <4> QED BY <4>1, <4>2, <4>3
    <3>2. CASE stat.type = "unique"
      <4> DEFINE seqs == [i \in DOMAIN stat.values |-> I64(stat.values[i])]
      <4>1. Values(stat) = U32(NumberCount(stat)) \o FlattenSeq(seqs)
        BY <3>2 DEF Values, NumberCount
      <4>2. Counts(seqs, n)
        BY <1>1 DEF Counts
      <4>3. \A i \in 1..n : seqs[i] = <<v[i]>>
        BY <1>1, <3>2 DEF I64, I64Field, NumberField
      <4> HIDE DEF seqs, v
      <4> QED BY <4>1, <4>2, <4>3
    <3> QED BY <1>3, <3>1, <3>2 DEF Shaped
  <2>2. \A i \in 1..n : v[i].size = 8 /\ v[i] = NumberField(stat, i)
    BY DEF NumberField, I64Field, F64Field
  <2> DEFINE body == FlattenSeq(seqs)
             head == U32(NumberCount(stat))
  <2> HIDE DEF v
  <2>3. Piece(body, n, 8 * n) /\ \A i \in 1..n : body[i] = v[i]
    BY <1>1, <2>1, <2>2, NumbersPiece
  <2>4. Piece(head, 1, 4) /\ head[1] = U32Field(NumberCount(stat))
    BY U32Piece
  <2>5. ValueFields(stat) = 1 + n /\ ValuesLen(stat) = 4 + 8 * n
    BY <1>3 DEF ValueFields, ValuesLen
  <2> HIDE DEF body, head, n
  <2>6. Piece(head \o body, 1 + n, 4 + 8 * n) /\ Joined(head \o body, head, 1, body, n)
    BY <2>3, <2>4, PieceJoin
  <2>7. Values(stat) = head \o body
    BY <2>1 DEF body, head
  <2>8. Values(stat)[1] = U32Field(NumberCount(stat))
    <3>1. 1 \in 1..1
      OBVIOUS
    <3> QED BY <2>4, <2>6, <2>7, <3>1 DEF Joined
  <2>9. \A i \in 1..n : Values(stat)[1 + i] = NumberField(stat, i)
    BY <2>2, <2>3, <2>6, <2>7 DEF Joined
  <2> QED BY <1>3, <2>5, <2>6, <2>7, <2>8, <2>9 DEF ValuesLaid, n
<1> QED BY <1>2, <1>3

(* The second of two pieces begins where the first ends.                   *)
LEMMA TwoPieces ==
  ASSUME NEW s, NEW b \in Nat, NEW t, NEW c \in Nat, Piece(s, 1, b), Piece(t, 1, c)
  PROVE  Piece(s \o t, 2, b + c) /\ (s \o t)[1] = s[1] /\ (s \o t)[2] = t[1]
<1>1. Piece(s \o t, 1 + 1, b + c) /\ Joined(s \o t, s, 1, t, 1)
  BY PieceJoin
<1>2. 1 + 1 = 2 /\ 1 \in 1..1
  OBVIOUS
<1> QED BY <1>1, <1>2 DEF Joined

(* The stat is in p from field b on.                                       *)
Laid(p, b, stat) ==
  /\ p[b] = U32Field(Tag) /\ p[b+1] = U32Field(0) /\ p[b+2] = U32Field(1)
  /\ p[b+3] = U32Field(Mask(stat.type)) /\ p[b+4] = StrField(stat.name)
  /\ p[b+5] = U32Field(Len(stat.keys))
  /\ \A i \in 1..Len(stat.keys) :
       p[b + 4 + 2 * i] = NameField(stat, i) /\ p[b + 5 + 2 * i] = ValueField(stat, i)
  /\ ValuesLaid(p, b + 6 + 2 * Len(stat.keys), stat)

(* The fields of p from b on are those of s.                               *)
Within(p, b, s, n) == \A i \in 1..n : p[b + i - 1] = s[i]

(* The fields before the keys: the number of metrics, the mask and the     *)
(* name                                                                    *)
LEMMA HeadPiece ==
  LET h == U32(Tag) \o U32(0) \o U32(1)
  IN  Piece(h, 3, 12) /\ h[1] = U32Field(Tag) /\ h[2] = U32Field(0) /\ h[3] = U32Field(1)
<1> DEFINE a == U32(Tag)
           b == U32(0)
           c == U32(1)
<1>1. /\ Piece(a, 1, 4) /\ Piece(b, 1, 4) /\ Piece(c, 1, 4)
      /\ a[1] = U32Field(Tag) /\ b[1] = U32Field(0) /\ c[1] = U32Field(1)
  BY U32Piece
<1> HIDE DEF a, b, c
<1>2. Piece(a \o b, 2, 8) /\ (a \o b)[1] = a[1] /\ (a \o b)[2] = b[1]
  <2>1. 4 \in Nat /\ 4 + 4 = 8
    OBVIOUS
  <2>2. Piece(a \o b, 2, 4 + 4) /\ (a \o b)[1] = a[1] /\ (a \o b)[2] = b[1]
    BY <1>1, <2>1, TwoPieces, Zenon
  <2> QED BY <2>1, <2>2
<1> DEFINE ab == a \o b
<1> HIDE DEF ab
<1>3. Piece(ab \o c, 2 + 1, 8 + 4) /\ Joined(ab \o c, ab, 2, c, 1)
  BY <1>1, <1>2, PieceJoin DEF ab
<1>4. 2 + 1 = 3 /\ 8 + 4 = 12 /\ 1 \in 1..1 /\ 1 \in 1..2 /\ 2 \in 1..2
  OBVIOUS
<1>5. (ab \o c)[1] = ab[1] /\ (ab \o c)[2] = ab[2] /\ (ab \o c)[2+1] = c[1]
  BY <1>3, <1>4 DEF Joined
<1>6. Piece(ab \o c, 3, 12) /\ (ab \o c)[1] = a[1] /\ (ab \o c)[2] = b[1] /\ (ab \o c)[3] = c[1]
  BY <1>2, <1>3, <1>4, <1>5 DEF ab
<1> QED BY <1>1, <1>6 DEF ab, a, b, c

(* The number of the keys and their fields                                 *)
LEMMA KeysPiece ==
  ASSUME NEW stat, Shaped(stat)
  PROVE  /\ Piece(Keys(stat), 1 + 2 * Len(stat.keys), 4 + KeysLen(stat))
         /\ Keys(stat)[1] = U32Field(Len(stat.keys))
         /\ \A i \in 1..Len(stat.keys) : /\ Keys(stat)[2 * i] = NameField(stat, i)
                                         /\ Keys(stat)[2 * i + 1] = ValueField(stat, i)
<1> DEFINE n == Len(stat.keys)
           head == U32(n)
           body == KeysBody(stat)
<1>1. /\ Piece(body, 2 * n, KeysLen(stat)) /\ n \in Nat
      /\ \A i \in 1..n : body[2 * i - 1] = NameField(stat, i) /\ body[2 * i] = ValueField(stat, i)
  BY KeysBodyPiece, SeqCounts DEF Shaped
<1>2. Piece(head, 1, 4) /\ head[1] = U32Field(n)
  BY U32Piece
<1>3. Keys(stat) = head \o body
  BY DEF Keys, KeysBody
<1> HIDE DEF n, head, body
<1>4. Piece(head \o body, 1 + 2 * n, 4 + KeysLen(stat)) /\ Joined(head \o body, head, 1, body, 2 * n)
  BY <1>1, <1>2, PieceJoin
<1> DEFINE u == head \o body
<1> HIDE DEF u
<1>5. u[1] = head[1] /\ \A j \in 1..2*n : u[1 + j] = body[j]
  <2>1. 1 \in 1..1
    OBVIOUS
  <2> QED BY <1>4, <2>1 DEF Joined, u
<1>6. ASSUME NEW i \in 1..n PROVE u[2 * i] = body[2 * i - 1] /\ u[2 * i + 1] = body[2 * i]
  <2> DEFINE j == 2 * i - 1
             k == 2 * i
  <2>1. j \in 1..2*n /\ k \in 1..2*n /\ 1 + j = 2 * i /\ 1 + k = 2 * i + 1
    BY <1>1
  <2> HIDE DEF j, k
  <2>2. u[1 + j] = body[j] /\ u[1 + k] = body[k]
    BY <1>5, <2>1
  <2>3. u[2 * i] = body[j] /\ u[2 * i + 1] = body[k]
    BY <2>1, <2>2
  <2> QED BY <2>3 DEF j, k
<1>7. ASSUME NEW i \in 1..n
      PROVE  u[2 * i] = NameField(stat, i) /\ u[2 * i + 1] = ValueField(stat, i)
  <2>1. body[2 * i - 1] = NameField(stat, i) /\ body[2 * i] = ValueField(stat, i)
    BY <1>1
  <2> QED BY <1>6, <2>1
<1> QED BY <1>2, <1>3, <1>4, <1>5, <1>7 DEF u, n

(* What is written for a stat has its fields, each where it belongs, and   *)
(* takes what ngx_statshouse_tl_metrics_len() says.                        *)
LEMMA MetricsPiece ==
  ASSUME NEW stat, Shaped(stat)
  PROVE  Piece(Metrics(stat), FieldsOf(stat), MetricsLen(stat)) /\ Laid(Metrics(stat), 1, stat)
<1> DEFINE n == Len(stat.keys)
           m == ValueFields(stat)
           h == U32(Tag) \o U32(0) \o U32(1)
           a == U32(Mask(stat.type))
           b == Str(stat.name)
           ab == a \o b
           k == Keys(stat)
           abk == ab \o k
           v == Values(stat)
           abkv == abk \o v
           all == h \o abkv
           sl == StringLen(stat.name.len)
           kl == 4 + KeysLen(stat)
           vl == ValuesLen(stat)
<1>1. n \in Nat /\ sl \in Nat /\ stat.name.len \in Nat
  <2>1. stat.keys \in Seq([name : Strings, value : Strings]) /\ stat.name \in Strings
    BY DEF Shaped
  <2>2. n \in Nat
    BY <2>1, SeqCounts
  <2>3. stat.name.len \in Nat
    BY <2>1, StringLens
  <2> QED BY <2>2, <2>3, StringFacts
<1>2. Metrics(stat) = all
  BY DEF Metrics, Metric
<1>3. Piece(h, 3, 12) /\ h[1] = U32Field(Tag) /\ h[2] = U32Field(0) /\ h[3] = U32Field(1)
  BY HeadPiece
<1>4. Piece(a, 1, 4) /\ a[1] = U32Field(Mask(stat.type))
  BY U32Piece
<1>5. Piece(b, 1, sl) /\ b[1] = StrField(stat.name)
  BY <1>1, StrPiece
<1>6. /\ Piece(k, 1 + 2 * n, kl) /\ k[1] = U32Field(n)
      /\ \A i \in 1..n : k[2 * i] = NameField(stat, i) /\ k[2 * i + 1] = ValueField(stat, i)
  BY KeysPiece
<1>7. Piece(v, m, vl) /\ ValuesLaid(v, 1, stat)
  BY ValuesPiece
<1>8. MetricsLen(stat) = 12 + (4 + sl + kl + vl) /\ FieldsOf(stat) = 3 + (2 + (1 + 2 * n) + m)
  <2>1. m \in Nat /\ vl \in Nat /\ kl \in Nat
    BY <1>6, <1>7 DEF Piece
  <2>2. KeysLen(stat) \in Nat
    BY KeysBodyPiece DEF Piece
  <2>3. MetricsLen(stat) = 4 + 4 + 4 + (4 + sl + 4 + KeysLen(stat) + vl)
    BY DEF MetricsLen, MetricLen
  <2>4. FieldsOf(stat) = 6 + 2 * n + m
    BY DEF FieldsOf
  <2> HIDE DEF n, m, sl, vl
  <2> QED BY <1>1, <2>1, <2>2, <2>3, <2>4
<1> HIDE DEF h, a, b, ab, k, abk, v, abkv, all, sl, kl, vl, n, m
<1>9. Piece(ab, 2, 4 + sl) /\ ab[1] = a[1] /\ ab[2] = b[1]
  <2>1. Piece(ab, 1 + 1, 4 + sl) /\ Joined(ab, a, 1, b, 1)
    BY <1>4, <1>5, PieceJoin DEF ab
  <2>2. 1 + 1 = 2 /\ 1 \in 1..1
    OBVIOUS
  <2> QED BY <2>1, <2>2 DEF Joined
<1>10. Piece(abk, 2 + (1 + 2 * n), 4 + sl + kl) /\ Joined(abk, ab, 2, k, 1 + 2 * n)
  BY <1>6, <1>9, PieceJoin DEF abk
<1>11. /\ Piece(abkv, 2 + (1 + 2 * n) + m, 4 + sl + kl + vl)
       /\ Joined(abkv, abk, 2 + (1 + 2 * n), v, m)
  BY <1>7, <1>10, PieceJoin DEF abkv
<1>12. /\ Piece(all, 3 + (2 + (1 + 2 * n) + m), 12 + (4 + sl + kl + vl))
       /\ Joined(all, h, 3, abkv, 2 + (1 + 2 * n) + m)
  BY <1>3, <1>11, PieceJoin DEF all
<1>13. /\ \A j \in 1..3 : all[j] = h[j]
       /\ \A j \in 1..2 + (1 + 2 * n) + m : all[3 + j] = abkv[j]
       /\ \A j \in 1..2 + (1 + 2 * n) : abkv[j] = abk[j]
       /\ \A j \in 1..m : abkv[2 + (1 + 2 * n) + j] = v[j]
       /\ \A j \in 1..2 : abk[j] = ab[j]
       /\ \A j \in 1..1 + 2 * n : abk[2 + j] = k[j]
       /\ m \in Nat
  BY <1>7, <1>10, <1>11, <1>12 DEF Joined, Piece
<1>14. \A j \in 1..2 : all[3 + j] = ab[j]
  <2>1. SUFFICES ASSUME NEW j \in 1..2 PROVE all[3 + j] = ab[j]
    OBVIOUS
  <2>2. j \in 1..2 + (1 + 2 * n) + m /\ j \in 1..2 + (1 + 2 * n)
    BY <1>1, <1>13
  <2> QED BY <1>13, <2>2
<1>15. \A j \in 1..1 + 2 * n : all[5 + j] = k[j]
  <2>1. SUFFICES ASSUME NEW j \in 1..1 + 2 * n PROVE all[5 + j] = k[j]
    OBVIOUS
  <2> DEFINE i == 2 + j
  <2>2. i \in 1..2 + (1 + 2 * n) + m /\ i \in 1..2 + (1 + 2 * n) /\ 3 + i = 5 + j
    BY <1>1, <1>13
  <2>3. abk[i] = k[j]
    BY <1>13
  <2> HIDE DEF i
  <2>4. all[3 + i] = abkv[i] /\ abkv[i] = abk[i]
    BY <1>13, <2>2
  <2> QED BY <2>2, <2>3, <2>4
<1>16. \A j \in 1..m : all[6 + 2 * n + j] = v[j]
  <2>1. SUFFICES ASSUME NEW j \in 1..m PROVE all[6 + 2 * n + j] = v[j]
    OBVIOUS
  <2> DEFINE i == 2 + (1 + 2 * n) + j
  <2>2. i \in 1..2 + (1 + 2 * n) + m /\ 3 + i = 6 + 2 * n + j
    BY <1>1, <1>13
  <2>3. abkv[i] = v[j]
    BY <1>13
  <2> HIDE DEF i
  <2>4. all[3 + i] = abkv[i]
    BY <1>13, <2>2
  <2> QED BY <2>2, <2>3, <2>4
<1>17. /\ all[1] = U32Field(Tag) /\ all[1+1] = U32Field(0) /\ all[1+2] = U32Field(1)
       /\ all[1+3] = U32Field(Mask(stat.type)) /\ all[1+4] = StrField(stat.name)
       /\ all[1+5] = U32Field(n)
  <2>1. all[1] = h[1] /\ all[2] = h[2] /\ all[3] = h[3]
    BY <1>13
  <2>2. all[3 + 1] = ab[1] /\ all[3 + 2] = ab[2]
    BY <1>14
  <2>3. all[5 + 1] = k[1]
    BY <1>1, <1>15
  <2> QED BY <1>3, <1>4, <1>5, <1>6, <1>9, <2>1, <2>2, <2>3
<1>18. ASSUME NEW i \in 1..n
       PROVE  all[1 + 4 + 2 * i] = NameField(stat, i) /\ all[1 + 5 + 2 * i] = ValueField(stat, i)
  <2> DEFINE j == 2 * i
             jj == 2 * i + 1
  <2>1. /\ j \in 1..1 + 2 * n /\ jj \in 1..1 + 2 * n
        /\ 5 + j = 1 + 4 + 2 * i /\ 5 + jj = 1 + 5 + 2 * i
    BY <1>1
  <2>2. k[j] = NameField(stat, i) /\ k[jj] = ValueField(stat, i)
    BY <1>6
  <2> HIDE DEF j, jj
  <2>3. all[5 + j] = k[j] /\ all[5 + jj] = k[jj]
    BY <1>15, <2>1
  <2> QED BY <2>1, <2>2, <2>3
<1>19. ValuesLaid(all, 1 + 6 + 2 * n, stat)
  <2> DEFINE d == 1 + 6 + 2 * n
  <2>0. d \in Nat /\ d = 6 + 2 * n + 1
    BY <1>1
  <2>1. CASE stat.type = "counter"
    <3>1. m = 1
      BY <2>1 DEF m, ValueFields
    <3>2. all[6 + 2 * n + 1] = v[1]
      <4>1. 1 \in 1..m
        BY <3>1
      <4> QED BY <1>16, <4>1
    <3>3. v[1] = NumberField(stat, 1)
      BY <1>7, <2>1 DEF ValuesLaid
    <3> HIDE DEF d
    <3>4. all[d] = NumberField(stat, 1)
      BY <2>0, <3>2, <3>3
    <3> QED BY <2>1, <3>4 DEF ValuesLaid, d
  <2>2. CASE stat.type # "counter"
    <3> DEFINE c == Len(stat.values)
    <3>1. m = 1 + c /\ c \in Nat
      BY <2>2, SeqCounts DEF m, ValueFields, Shaped
    <3>2. v[1] = U32Field(NumberCount(stat)) /\ \A i \in 1..c : v[1 + i] = NumberField(stat, i)
      BY <1>7, <2>2 DEF ValuesLaid
    <3> HIDE DEF d, c
    <3>3. all[d] = U32Field(NumberCount(stat))
      <4>1. 1 \in 1..m
        BY <3>1
      <4>2. all[6 + 2 * n + 1] = v[1]
        BY <1>16, <4>1
      <4> QED BY <2>0, <3>2, <4>2
    <3>4. ASSUME NEW i \in 1..c PROVE all[d + i] = NumberField(stat, i)
      <4> DEFINE j == 1 + i
      <4>1. j \in 1..m /\ 6 + 2 * n + j = d + i
        BY <1>1, <2>0, <3>1
      <4>2. v[j] = NumberField(stat, i)
        BY <3>2
      <4> HIDE DEF j
      <4>3. all[6 + 2 * n + j] = v[j]
        BY <1>16, <4>1
      <4> QED BY <4>1, <4>2, <4>3
    <3> QED BY <2>2, <3>3, <3>4 DEF ValuesLaid, c, d
  <2> QED BY <2>1, <2>2
<1>20. Laid(all, 1, stat)
  BY <1>17, <1>18, <1>19 DEF Laid, n
<1> QED BY <1>2, <1>8, <1>12, <1>20
----------------------------------------------------------------------------
(* A stat has at least seven fields.                                       *)
LEMMA FieldsFacts ==
  ASSUME NEW stat, Shaped(stat)
  PROVE  /\ Len(stat.keys) \in Nat /\ Len(stat.values) \in Nat
         /\ \A i \in 1..Len(stat.keys) : /\ stat.keys[i].name \in Strings
                                         /\ stat.keys[i].value \in Strings
                                         /\ stat.keys[i] = [name |-> stat.keys[i].name,
                                                            value |-> stat.keys[i].value]
         /\ Counts(stat.keys, Len(stat.keys)) /\ Counts(stat.values, Len(stat.values))
         /\ ValueFields(stat) \in Nat /\ ValueFields(stat) >= 1
         /\ FieldsOf(stat) \in Nat /\ FieldsOf(stat) >= 7
<1>1. /\ stat.keys \in Seq([name : Strings, value : Strings])
      /\ stat.values \in Seq(Int)
  BY DEF Shaped
<1>2. /\ Len(stat.keys) \in Nat /\ Counts(stat.keys, Len(stat.keys))
      /\ \A i \in 1..Len(stat.keys) : stat.keys[i] \in [name : Strings, value : Strings]
  BY <1>1, SeqCounts
<1>3. Len(stat.values) \in Nat /\ Counts(stat.values, Len(stat.values))
  BY <1>1, SeqCounts
<1>4. ValueFields(stat) \in Nat /\ ValueFields(stat) >= 1
  BY <1>3 DEF ValueFields
<1>5. FieldsOf(stat) \in Nat /\ FieldsOf(stat) >= 7
  BY <1>2, <1>4 DEF FieldsOf
<1> QED BY <1>2, <1>3, <1>4, <1>5

(* A stat in one sequence of fields is also in another that has the same   *)
(* fields, further on.                                                     *)
LEMMA LaidMoved ==
  ASSUME NEW stat, Shaped(stat), NEW p, NEW b \in Nat, NEW q, NEW d \in Nat, Laid(p, b, stat),
         \A i \in 0..FieldsOf(stat) - 1 : q[b + d + i] = p[b + i]
  PROVE  Laid(q, b + d, stat)
<1> DEFINE n == Len(stat.keys)
           f == FieldsOf(stat)
           c == b + d
<1>1. /\ n \in Nat /\ Len(stat.values) \in Nat /\ f \in Nat /\ f >= 7
      /\ f = 6 + 2 * n + ValueFields(stat) /\ ValueFields(stat) \in Nat /\ ValueFields(stat) >= 1
  BY FieldsFacts DEF FieldsOf
<1>2. c \in Nat /\ \A i \in 0..f-1 : q[c + i] = p[b + i]
  OBVIOUS
<1> HIDE DEF n, f, c
<1>3. q[c] = p[b] /\ \A i \in 1..5 : q[c + i] = p[b + i]
  <2>1. 0 \in 0..f-1 /\ b + 0 = b /\ c + 0 = c /\ \A i \in 1..5 : i \in 0..f-1
    BY <1>1, <1>2
  <2>2. q[c + 0] = p[b + 0]
    BY <1>2, <2>1
  <2> QED BY <1>2, <2>1, <2>2
<1>4. ASSUME NEW i \in 1..n
      PROVE  q[c + 4 + 2 * i] = p[b + 4 + 2 * i] /\ q[c + 5 + 2 * i] = p[b + 5 + 2 * i]
  <2> DEFINE j == 4 + 2 * i
             k == 5 + 2 * i
  <2>1. /\ j \in 0..f-1 /\ k \in 0..f-1 /\ c + j = c + 4 + 2 * i /\ c + k = c + 5 + 2 * i
        /\ b + j = b + 4 + 2 * i /\ b + k = b + 5 + 2 * i
    BY <1>1, <1>2
  <2> HIDE DEF j, k
  <2>2. q[c + j] = p[b + j] /\ q[c + k] = p[b + k]
    BY <1>2, <2>1
  <2> QED BY <2>1, <2>2
<1>5. ValuesLaid(q, c + 6 + 2 * n, stat)
  <2> DEFINE x == b + 6 + 2 * n
             y == c + 6 + 2 * n
             m == Len(stat.values)
  <2>1. ValuesLaid(p, x, stat)
    BY DEF Laid, n
  <2>2. q[y] = p[x]
    <3> DEFINE i == 6 + 2 * n
    <3>1. i \in 0..f-1 /\ b + i = x /\ c + i = y
      BY <1>1, <1>2
    <3> HIDE DEF i
    <3>2. q[c + i] = p[b + i]
      BY <1>2, <3>1
    <3> HIDE DEF x, y
    <3> QED BY <3>1, <3>2
  <2>3. ASSUME stat.type # "counter", NEW i \in 1..m PROVE q[y + i] = p[x + i]
    <3> DEFINE j == 6 + 2 * n + i
    <3>1. ValueFields(stat) = 1 + m /\ m \in Nat
      BY <1>1, <2>3 DEF ValueFields
    <3>2. j \in 0..f-1 /\ b + j = x + i /\ c + j = y + i
      <4>1. n \in Nat /\ c \in Nat /\ f = 6 + 2 * n + (1 + m)
        BY <1>1, <1>2, <3>1
      <4>2. i \in Nat /\ i >= 1 /\ i <= m
        BY <3>1
      <4> HIDE DEF m
      <4> QED BY <3>1, <4>1, <4>2
    <3> HIDE DEF j
    <3>3. q[c + j] = p[b + j]
      BY <1>2, <3>2
    <3> HIDE DEF x, y
    <3> QED BY <3>2, <3>3
  <2> HIDE DEF x, y
  <2>4. ValuesLaid(q, y, stat)
    BY <2>1, <2>2, <2>3 DEF ValuesLaid, m
  <2> QED BY <2>4 DEF y
<1>6. /\ q[c] = p[b] /\ q[c+1] = p[b+1] /\ q[c+2] = p[b+2] /\ q[c+3] = p[b+3]
      /\ q[c+4] = p[b+4] /\ q[c+5] = p[b+5]
  BY <1>3
<1>7. \A i \in 1..n : /\ q[c + 4 + 2 * i] = NameField(stat, i)
                      /\ q[c + 5 + 2 * i] = ValueField(stat, i)
  BY <1>4 DEF Laid, n
<1>8. Laid(q, c, stat)
  BY <1>5, <1>6, <1>7 DEF Laid, n
<1> QED BY <1>8 DEF c

(* The reader takes from the mask what the stat has.                       *)
LEMMA MaskFacts ==
  ASSUME NEW stat, Shaped(stat)
  PROVE  LET mask == Mask(stat.type) IN
         /\ mask \in {1, 2, 4}
         /\ mask = 1 <=> stat.type = "counter"
         /\ mask = 2 <=> stat.type = "value"
         /\ mask = 4 <=> stat.type = "unique"
BY DEF Shaped, Mask

(* What a field is that the reader finds in a stat: the name, the name or  *)
(* the value of a key, or no string.                                       *)
LEMMA FieldsReads ==
  ASSUME NEW s \in Strings
  PROVE  /\ StrField(s).kind = "str" /\ StrField(s).val = s
         /\ StrField(s).size = StringLen(StrField(s).val.len)
<1>1. HeadValue(s.len) = s.len /\ s = [id |-> s.id, len |-> s.len]
  BY StringLens
<1> QED BY <1>1 DEF StrField

(* The reader finds each field of a stat where it looks for it.            *)
LEMMA LaidReads ==
  ASSUME NEW stat, Shaped(stat), NEW p, NEW b \in Nat, Laid(p, b, stat),
         NEW j \in 0..FieldsOf(stat) - 1
  PROVE  Reads(p[b + j])
<1> DEFINE n == Len(stat.keys)
           m == Len(stat.values)
           f == FieldsOf(stat)
<1>1. /\ n \in Nat /\ m \in Nat /\ f = 6 + 2 * n + ValueFields(stat)
      /\ ValueFields(stat) \in Nat /\ ValueFields(stat) >= 1
  BY FieldsFacts DEF FieldsOf
<1>2. \A x : /\ Reads(U32Field(x)) /\ Reads(I64Field(x)) /\ Reads(F64Field(x))
  BY DEF Reads, U32Field, I64Field, F64Field
<1>3. \A s \in Strings : Reads(StrField(s))
  BY FieldsReads DEF Reads
<1>4. CASE j \in 0..5
  <2>1. /\ p[b] = U32Field(Tag) /\ p[b+1] = U32Field(0) /\ p[b+2] = U32Field(1)
        /\ p[b+3] = U32Field(Mask(stat.type)) /\ p[b+4] = StrField(stat.name)
        /\ p[b+5] = U32Field(n) /\ stat.name \in Strings
    BY DEF Laid, Shaped
  <2>2. Reads(p[b+0]) /\ Reads(p[b+1]) /\ Reads(p[b+2]) /\ Reads(p[b+3]) /\ Reads(p[b+4])
          /\ Reads(p[b+5])
    <3>1. b + 0 = b
      OBVIOUS
    <3> QED BY <1>2, <1>3, <2>1, <3>1
  <2>3. j = 0 \/ j = 1 \/ j = 2 \/ j = 3 \/ j = 4 \/ j = 5
    BY <1>4
  <2> QED BY <2>2, <2>3
<1>5. CASE j \in 6..5 + 2 * n
  <2>1. PICK i \in 1..n : j = 4 + 2 * i \/ j = 5 + 2 * i
    <3>1. j % 2 = 0 => (j - 4) \div 2 \in 1..n /\ j = 4 + 2 * ((j - 4) \div 2)
      BY <1>1, <1>5
    <3>2. j % 2 # 0 => (j - 5) \div 2 \in 1..n /\ j = 5 + 2 * ((j - 5) \div 2)
      BY <1>1, <1>5
    <3> QED BY <3>1, <3>2
  <2>2. /\ p[b + 4 + 2 * i] = StrField(stat.keys[i].name)
        /\ p[b + 5 + 2 * i] = StrField(stat.keys[i].value)
    BY DEF Laid, NameField, ValueField
  <2>3. stat.keys[i].name \in Strings /\ stat.keys[i].value \in Strings
    BY FieldsFacts
  <2>4. Reads(p[b + 4 + 2 * i]) /\ Reads(p[b + 5 + 2 * i])
    BY <1>3, <2>2, <2>3
  <2>5. b + j = b + 4 + 2 * i \/ b + j = b + 5 + 2 * i
    BY <1>1, <2>1
  <2> QED BY <2>4, <2>5
<1>6. CASE j > 5 + 2 * n
  <2> DEFINE d == b + 6 + 2 * n
             i == j - (6 + 2 * n)
  <2>1. i \in 0..ValueFields(stat) - 1 /\ d \in Nat /\ b + j = d + i
    <3>1. j \in Nat /\ j < 6 + 2 * n + ValueFields(stat)
      BY <1>1
    <3> HIDE DEF n
    <3> QED BY <1>1, <1>6, <3>1
  <2>2. ValuesLaid(p, d, stat)
    BY DEF Laid
  <2>3. \A k : Reads(NumberField(stat, k))
    BY <1>2 DEF NumberField
  <2> HIDE DEF d, i, n, m
  <2>4. CASE i = 0
    <3>1. p[d] = NumberField(stat, 1) \/ p[d] = U32Field(NumberCount(stat))
      BY <2>2 DEF ValuesLaid
    <3>2. b + j = d
      BY <2>1, <2>4
    <3> QED BY <1>2, <2>3, <3>1, <3>2
  <2>5. CASE i # 0
    <3>1. ValueFields(stat) = 1 + m /\ stat.type # "counter"
      BY <2>1, <2>5 DEF ValueFields, m
    <3>2. i \in 1..m
      BY <1>1, <2>1, <2>5, <3>1
    <3>3. p[d + i] = NumberField(stat, i)
      BY <2>2, <3>1, <3>2 DEF ValuesLaid, m
    <3> QED BY <2>1, <2>3, <3>3
  <2> QED BY <2>4, <2>5
<1> QED BY <1>1, <1>4, <1>5, <1>6

(* The reader takes from where a stat was written that stat and its        *)
(* fields.                                                                 *)
LEMMA LaidIsRead ==
  ASSUME NEW stat, Shaped(stat), Plain(stat), NEW p, NEW b \in Nat, Laid(p, b, stat),
         \A i \in b..b + FieldsOf(stat) - 1 : i \in DOMAIN p
  PROVE  Wellformed(p, b) /\ ReadStat(p, b) = stat /\ Next1(p, b) = b + FieldsOf(stat)
<1> DEFINE n == Len(stat.keys)
           m == Len(stat.values)
           f == FieldsOf(stat)
           mask == Mask(stat.type)
           vf == ValueFields(stat)
           d == b + 6 + 2 * n
<1>1. /\ n \in Nat /\ m \in Nat /\ f = 6 + 2 * n + vf /\ f \in Nat
      /\ vf \in Nat /\ vf >= 1
  BY FieldsFacts DEF FieldsOf
<1>2. /\ mask \in {1, 2, 4} /\ (mask = 1 <=> stat.type = "counter")
      /\ (mask = 2 <=> stat.type = "value") /\ (mask = 4 <=> stat.type = "unique")
  BY MaskFacts
<1>3. /\ p[b] = U32Field(Tag) /\ p[b+1] = U32Field(0) /\ p[b+2] = U32Field(1)
      /\ p[b+3] = U32Field(mask) /\ p[b+4] = StrField(stat.name) /\ p[b+5] = U32Field(n)
      /\ ValuesLaid(p, d, stat)
  BY DEF Laid
<1>4. \A i \in 1..n : /\ p[b + 4 + 2 * i] = StrField(stat.keys[i].name)
                      /\ p[b + 5 + 2 * i] = StrField(stat.keys[i].value)
                      /\ stat.keys[i].name \in Strings /\ stat.keys[i].value \in Strings
  BY FieldsFacts DEF Laid, NameField, ValueField
<1>5. \A i \in 0..f-1 : b + i \in DOMAIN p
  <2>1. ASSUME NEW i \in 0..f-1 PROVE b + i \in DOMAIN p
    <3>1. b + i \in b..b + f - 1
      BY <1>1
    <3> QED BY <3>1
  <2> QED BY <2>1
<1>6. \A x : /\ U32Field(x).val = x /\ U32Field(x).kind = "u32"
             /\ I64Field(x).val = x /\ I64Field(x).kind = "i64"
             /\ F64Field(x).val = x /\ F64Field(x).kind = "f64"
  BY DEF U32Field, I64Field, F64Field
<1>7. /\ p[b].val = Tag /\ p[b+3].val = mask /\ KeyCount(p, b) = n /\ ValuesAt(p, b) = d
  BY <1>3, <1>6 DEF KeyCount, ValuesAt
<1>8. /\ ValueKind(p, b) = IF stat.type = "unique" THEN "i64" ELSE "f64"
      /\ FirstValue(p, b) = (IF stat.type = "counter" THEN d ELSE d + 1)
  BY <1>2, <1>7 DEF ValueKind, FirstValue
<1> HIDE DEF mask, d
<1>9. ValueCount(p, b) = m
  <2>1. CASE stat.type = "counter"
    <3>1. m = 1
      BY <2>1 DEF Shaped
    <3> QED BY <1>2, <1>7, <2>1, <3>1 DEF ValueCount
  <2>2. CASE stat.type # "counter"
    <3>1. p[d].val = NumberCount(stat)
      BY <1>3, <1>6, <2>2 DEF ValuesLaid
    <3>2. NumberCount(stat) = m
      BY <2>2 DEF NumberCount, Plain, Shaped
    <3> QED BY <1>2, <1>7, <2>2, <3>1, <3>2 DEF ValueCount
  <2> QED BY <2>1, <2>2
<1>10. Next1(p, b) = b + f /\ b + f = FirstValue(p, b) + m
  <2>1. CASE stat.type = "counter"
    <3>1. vf = 1 /\ m = 1
      BY <2>1 DEF ValueFields, Shaped
    <3> HIDE DEF vf, m, f, n
    <3> QED BY <1>1, <1>8, <1>9, <2>1, <3>1 DEF Next1, d
  <2>2. CASE stat.type # "counter"
    <3>1. vf = 1 + m
      BY <2>2 DEF ValueFields
    <3> HIDE DEF vf, m, f, n
    <3> QED BY <1>1, <1>8, <1>9, <2>2, <3>1 DEF Next1, d
  <2> QED BY <2>1, <2>2
<1>11. \A i \in 1..m : p[FirstValue(p, b) + i - 1] = NumberField(stat, i)
  <2>1. CASE stat.type = "counter"
    <3>1. m = 1 /\ p[d] = NumberField(stat, 1) /\ FirstValue(p, b) = d
      BY <1>3, <1>8, <2>1 DEF ValuesLaid, Shaped
    <3>2. d + 1 - 1 = d
      BY <1>1 DEF d
    <3>3. \A i \in 1..m : i = 1
      BY <3>1
    <3> QED BY <3>1, <3>2, <3>3
  <2>2. CASE stat.type # "counter"
    <3>1. \A i \in 1..m : p[d + i] = NumberField(stat, i)
      BY <1>3, <2>2 DEF ValuesLaid
    <3>2. ASSUME NEW i \in 1..m PROVE FirstValue(p, b) + i - 1 = d + i
      <4>1. d \in Nat /\ i \in Nat /\ FirstValue(p, b) = d + 1
        <5>1. d \in Nat
          <6> HIDE DEF n
          <6> QED BY <1>1 DEF d
        <5>2. i \in Nat
          BY <1>1
        <5>3. FirstValue(p, b) = d + 1
          BY <1>8, <2>2
        <5> QED BY <5>1, <5>2, <5>3
      <4> QED BY <4>1
    <3>3. ASSUME NEW i \in 1..m PROVE p[FirstValue(p, b) + i - 1] = NumberField(stat, i)
      BY <3>1, <3>2
    <3> QED BY <3>3
  <2> QED BY <2>1, <2>2
<1>12. \A i \in 1..m : NumberField(stat, i).val = stat.values[i]
                         /\ NumberField(stat, i).kind = ValueKind(p, b)
  BY <1>6, <1>8 DEF NumberField
<1>13. p[b+4].kind = "str" /\ p[b+4].val = stat.name
  BY <1>3, FieldsReads DEF Shaped
<1>14. \A i \in 1..n :
         /\ p[b + 4 + 2 * i].kind = "str" /\ p[b + 4 + 2 * i].val = stat.keys[i].name
         /\ p[b + 5 + 2 * i].kind = "str" /\ p[b + 5 + 2 * i].val = stat.keys[i].value
  <2>1. ASSUME NEW i \in 1..n
        PROVE  /\ p[b + 4 + 2 * i].kind = "str" /\ p[b + 4 + 2 * i].val = stat.keys[i].name
               /\ p[b + 5 + 2 * i].kind = "str" /\ p[b + 5 + 2 * i].val = stat.keys[i].value
    <3> DEFINE x == stat.keys[i].name
               y == stat.keys[i].value
    <3>1. /\ x \in Strings /\ y \in Strings
          /\ p[b + 4 + 2 * i] = StrField(x) /\ p[b + 5 + 2 * i] = StrField(y)
      BY <1>4
    <3>2. /\ StrField(x).kind = "str" /\ StrField(x).val = x
          /\ StrField(y).kind = "str" /\ StrField(y).val = y
      BY <3>1, FieldsReads
    <3> QED BY <3>1, <3>2
  <2> QED BY <2>1
<1> HIDE DEF n, m, f, mask, vf
<1>15. ReadStat(p, b) = stat
  <2>1. [i \in 1..n |-> [name |-> p[b+4+2*i].val, value |-> p[b+5+2*i].val]] = stat.keys
    <3>1. \A i \in 1..n : [name |-> p[b+4+2*i].val, value |-> p[b+5+2*i].val] = stat.keys[i]
      BY <1>14, FieldsFacts DEF n
    <3>2. stat.keys = [i \in 1..n |-> stat.keys[i]]
      BY FieldsFacts DEF n, Counts
    <3> QED BY <3>1, <3>2
  <2>2. [i \in 1..m |-> p[FirstValue(p, b) + i - 1].val] = stat.values
    <3>1. \A i \in 1..m : p[FirstValue(p, b) + i - 1].val = stat.values[i]
      BY <1>11, <1>12
    <3>2. stat.values = [i \in 1..m |-> stat.values[i]]
      BY FieldsFacts DEF m, Counts
    <3> QED BY <3>1, <3>2
  <2>3. (CASE p[b+3].val = 1 -> "counter" [] p[b+3].val = 2 -> "value" [] OTHER -> "unique")
          = stat.type
    BY <1>2, <1>7 DEF Shaped
  <2>4. stat = [type |-> stat.type, name |-> stat.name, keys |-> stat.keys,
                values |-> stat.values]
    BY DEF Shaped
  <2>5. ReadStat(p, b) = [type |-> stat.type, name |-> stat.name, keys |-> stat.keys,
                          values |-> stat.values]
    BY <1>7, <1>9, <1>13, <2>1, <2>2, <2>3 DEF ReadStat
  <2> QED BY <2>4, <2>5
<1>16. Wellformed(p, b)
  <2>1. \A i \in 0..f-1 : Kind(p, b + i) = p[b + i].kind
    BY <1>5 DEF Kind
  <2>2. \A i \in {0, 1, 2, 3, 5} : Kind(p, b+i) = "u32"
    <3>1. 0 \in 0..f-1 /\ 1 \in 0..f-1 /\ 2 \in 0..f-1 /\ 3 \in 0..f-1 /\ 5 \in 0..f-1 /\ b + 0 = b
      BY <1>1
    <3>2. /\ Kind(p, b+0) = "u32" /\ Kind(p, b+1) = "u32" /\ Kind(p, b+2) = "u32"
          /\ Kind(p, b+3) = "u32" /\ Kind(p, b+5) = "u32"
      BY <1>3, <1>6, <2>1, <3>1
    <3> QED BY <3>2
  <2>3. Kind(p, b+4) = "str"
    <3>1. 4 \in 0..f-1
      BY <1>1
    <3> QED BY <1>13, <2>1, <3>1
  <2>4. p[b].val = Tag /\ p[b+3].val \in {1, 2, 4}
    BY <1>2, <1>7
  <2>5. ASSUME NEW i \in 1..2 * n PROVE Kind(p, b + 5 + i) = "str"
    <3>1. PICK j \in 1..n : 5 + i = 4 + 2 * j \/ 5 + i = 5 + 2 * j
      <4>1. i % 2 = 0 => i \div 2 \in 1..n /\ 5 + i = 5 + 2 * (i \div 2)
        BY <1>1
      <4>2. i % 2 # 0 => (i + 1) \div 2 \in 1..n /\ 5 + i = 4 + 2 * ((i + 1) \div 2)
        BY <1>1
      <4> QED BY <4>1, <4>2
    <3> DEFINE k == 5 + i
    <3>2. k \in 0..f-1 /\ b + k = b + 5 + i
      BY <1>1
    <3>3. b + k = b + 4 + 2 * j \/ b + k = b + 5 + 2 * j
      BY <1>1, <3>1
    <3>4. p[b + k].kind = "str"
      BY <1>14, <3>3
    <3> HIDE DEF k
    <3> QED BY <2>1, <3>2, <3>4
  <2>6. ASSUME stat.type # "counter" PROVE Kind(p, d) = "u32"
    <3> DEFINE k == 6 + 2 * n
    <3>1. k \in 0..f-1 /\ b + k = d
      BY <1>1 DEF d
    <3>2. p[d].kind = "u32"
      BY <1>3, <1>6, <2>6 DEF ValuesLaid
    <3> HIDE DEF k
    <3> QED BY <2>1, <3>1, <3>2
  <2>7. ASSUME NEW i \in FirstValue(p, b)..b + f - 1 PROVE Kind(p, i) = ValueKind(p, b)
    <3> DEFINE j == i - FirstValue(p, b) + 1
               k == i - b
    <3>1. FirstValue(p, b) \in Nat /\ FirstValue(p, b) >= b
      BY <1>1, <1>8 DEF d
    <3>2. j \in 1..m /\ FirstValue(p, b) + j - 1 = i
      BY <1>1, <1>10, <3>1
    <3>3. k \in 0..f-1 /\ b + k = i
      BY <1>1, <3>1
    <3> HIDE DEF j, k
    <3>4. p[i].kind = ValueKind(p, b)
      BY <1>11, <1>12, <3>2
    <3> QED BY <2>1, <3>3, <3>4
  <2>8. ASSUME NEW i \in b..b + f - 1 PROVE Reads(p[i])
    <3> DEFINE k == i - b
    <3>1. k \in 0..f-1 /\ b + k = i
      BY <1>1
    <3> HIDE DEF k
    <3>2. Reads(p[b + k])
      BY <3>1, LaidReads DEF f
    <3> QED BY <3>1, <3>2
  <2>9. (p[b+3].val # 1 => Kind(p, ValuesAt(p, b)) = "u32")
    BY <1>2, <1>7, <2>6
  <2>10. \A i \in 1..2 * KeyCount(p, b) : Kind(p, b + 5 + i) = "str"
    BY <1>7, <2>5
  <2>11. \A i \in FirstValue(p, b)..Next1(p, b)-1 : Kind(p, i) = ValueKind(p, b)
    <3>1. FirstValue(p, b)..Next1(p, b)-1 = FirstValue(p, b)..b + f - 1
      BY <1>1, <1>10
    <3> QED BY <2>7, <3>1
  <2>12. \A i \in b..Next1(p, b)-1 : Reads(p[i])
    <3>1. b..Next1(p, b)-1 = b..b + f - 1
      BY <1>1, <1>10
    <3> QED BY <2>8, <3>1
  <2> QED BY <2>2, <2>3, <2>4, <2>9, <2>10, <2>11, <2>12, Zenon DEF Wellformed
<1> QED BY <1>10, <1>15, <1>16 DEF f
----------------------------------------------------------------------------
(* starts[k] is where the kth stat written begins, and the packet ends     *)
(* where the next one would.                                               *)
Batches(starts) ==
  /\ starts[1] = 1 /\ starts[Len(written) + 1] = Len(packet) + 1
  /\ \A k \in 1..Len(written) :
       /\ starts[k] \in Nat /\ starts[k] >= 1
       /\ starts[k+1] = starts[k] + FieldsOf(written[k]) /\ starts[k+1] <= Len(packet) + 1
       /\ Laid(packet, starts[k], written[k])

AllPlain == \A i \in DOMAIN written : Plain(written[i])

(* The reader has the first r of the stats and stands at the next.         *)
Reading(starts) ==
  /\ ~garbage
  /\ IF at = 0 THEN got = <<>>
     ELSE \E r \in 0..Len(written) : got = SubSeq(written, 1, r) /\ at = starts[r+1]

IInv ==
  /\ Piece(packet, Len(packet), expected)
  /\ written \in Seq(Stats)
  /\ \E starts : Batches(starts) /\ (AllPlain => Reading(starts))

(* The empty packet                                                        *)
LEMMA InitIInv == Init => IInv
<1>1. SUFFICES ASSUME Init PROVE IInv
  OBVIOUS
<1>2. packet = <<>> /\ expected = 0 /\ written = <<>> /\ at = 0 /\ got = <<>> /\ ~garbage
  BY <1>1 DEF Init
<1>3. Len(packet) = 0 /\ Counts(packet, 0) /\ Len(written) = 0
  BY <1>2 DEF Counts
<1>4. Bytes(packet) = 0
  BY <1>3, BytesNone
<1>5. Piece(packet, Len(packet), expected)
  BY <1>2, <1>3, <1>4 DEF Piece
<1>6. Batches([k \in 1..1 |-> 1])
  BY <1>3 DEF Batches
<1>7. Reading([k \in 1..1 |-> 1])
  BY <1>2 DEF Reading
<1>8. written \in Seq(Stats)
  BY <1>2
<1> QED BY <1>5, <1>6, <1>7, <1>8 DEF IInv

(* ngx_statshouse_tl_metrics() appends one stat.                           *)
LEMMA WriteKeepsIInv ==
  ASSUME IInv, NEW stat \in Stats, Write(stat)
  PROVE  IInv'
<1> DEFINE m == Len(written)
           l == Len(packet)
           f == FieldsOf(stat)
<1>1. PICK starts : Batches(starts) /\ (AllPlain => Reading(starts))
  BY DEF IInv
<1>0. PICK next : next = [k \in 1..m+2 |-> IF k <= m + 1 THEN starts[k] ELSE l + 1 + f]
  OBVIOUS
<1>2. /\ at = 0 /\ packet' = packet \o Metrics(stat) /\ expected' = expected + MetricsLen(stat)
      /\ written' = Append(written, stat) /\ at' = at /\ got' = got /\ garbage' = garbage
  BY DEF Write
<1>3. Shaped(stat) /\ f \in Nat /\ f >= 7
  BY StatsShaped, FieldsFacts
<1>4. Piece(Metrics(stat), f, MetricsLen(stat)) /\ Laid(Metrics(stat), 1, stat)
  BY <1>3, MetricsPiece
<1>5. Piece(packet, l, expected) /\ l \in Nat /\ written \in Seq(Stats) /\ m \in Nat
  BY DEF IInv, Piece
<1> DEFINE q == packet \o Metrics(stat)
<1> HIDE DEF f, l
<1>6. Piece(q, l + f, expected + MetricsLen(stat)) /\ Joined(q, packet, l, Metrics(stat), f)
  BY <1>4, <1>5, PieceJoin
<1> HIDE DEF q
<1>7. Len(q) = l + f
  BY <1>6, CountsLen DEF Piece
<1>8. Piece(packet', Len(packet'), expected')
  BY <1>2, <1>6, <1>7 DEF q
<1>9. /\ written' \in Seq(Stats) /\ Len(written') = m + 1 /\ written'[m+1] = stat
      /\ \A k \in 1..m : written'[k] = written[k]
  BY <1>2, <1>5
<1>10. /\ starts[1] = 1 /\ starts[m+1] = l + 1
       /\ \A k \in 1..m : /\ starts[k] \in Nat /\ starts[k] >= 1
                          /\ starts[k+1] = starts[k] + FieldsOf(written[k])
                          /\ starts[k+1] <= l + 1
                          /\ Laid(packet, starts[k], written[k])
  BY <1>1 DEF Batches, l
<1>11. \A k \in 1..m+1 : next[k] = starts[k]
  BY <1>0, <1>5
<1>12. next[m+2] = l + 1 + f
  BY <1>0, <1>3, <1>5
<1>13. \A k \in 1..m : Shaped(written[k]) /\ FieldsOf(written[k]) \in Nat
  BY <1>5, StatsShaped, FieldsFacts
<1> HIDE DEF m
<1>14. ASSUME NEW k \in 1..m+1
       PROVE  /\ next[k] \in Nat /\ next[k] >= 1
              /\ next[k+1] = next[k] + FieldsOf(written'[k]) /\ next[k+1] <= l + f + 1
              /\ Laid(q, next[k], written'[k])
  <2>1. CASE k \in 1..m
    <3> DEFINE s == written[k]
               b == starts[k]
    <3>1. /\ b \in Nat /\ b >= 1 /\ starts[k+1] = b + FieldsOf(s) /\ starts[k+1] <= l + 1
          /\ Laid(packet, b, s) /\ Shaped(s) /\ FieldsOf(s) \in Nat
      BY <1>10, <1>13, <2>1
    <3>2. next[k] = b /\ next[k+1] = starts[k+1] /\ written'[k] = s
      <4>1. k \in 1..m+1 /\ k + 1 \in 1..m+1
        BY <1>5, <2>1 DEF m
      <4> QED BY <1>9, <1>11, <2>1, <4>1
    <3> HIDE DEF s, b
    <3> DEFINE d == 0
    <3>3. \A i \in 0..FieldsOf(s) - 1 : q[b + d + i] = packet[b + i]
      <4>1. SUFFICES ASSUME NEW i \in 0..FieldsOf(s) - 1 PROVE q[b + d + i] = packet[b + i]
        OBVIOUS
      <4> DEFINE j == b + i
      <4>2. j \in 1..l /\ b + d + i = j
        BY <1>5, <3>1
      <4> HIDE DEF j
      <4>3. q[j] = packet[j]
        BY <1>6, <4>2 DEF Joined
      <4> QED BY <4>2, <4>3 DEF j
    <3>4. d \in Nat /\ b + d = b
      BY <3>1
    <3> HIDE DEF d
    <3>5. Laid(q, b + d, s)
      BY <3>1, <3>3, <3>4, LaidMoved
    <3>6. starts[k+1] <= l + f + 1
      BY <1>3, <1>5, <3>1
    <3> QED BY <3>1, <3>2, <3>4, <3>5, <3>6
  <2>2. CASE k = m + 1
    <3>1. next[k] = l + 1 /\ next[k+1] = l + 1 + f /\ written'[k] = stat
      <4>1. m + 1 \in 1..m+1 /\ m + 1 + 1 = m + 2
        BY <1>5 DEF m
      <4> QED BY <1>9, <1>10, <1>11, <1>12, <2>2, <4>1
    <3> DEFINE p == Metrics(stat)
               b == 1
    <3>2. \A i \in 0..FieldsOf(stat) - 1 : q[b + l + i] = p[b + i]
      <4>1. SUFFICES ASSUME NEW i \in 0..FieldsOf(stat) - 1 PROVE q[b + l + i] = p[b + i]
        OBVIOUS
      <4> DEFINE j == b + i
      <4>2. j \in 1..f /\ b + l + i = l + j
        BY <1>3, <1>5 DEF f
      <4> HIDE DEF j, p
      <4>3. q[l + j] = p[j]
        BY <1>6, <4>2 DEF Joined, p
      <4> QED BY <4>2, <4>3 DEF j
    <3>3. b \in Nat /\ b + l = l + 1 /\ Laid(p, b, stat)
      BY <1>4, <1>5
    <3> HIDE DEF p, b
    <3>4. Laid(q, b + l, stat)
      BY <1>3, <1>5, <3>2, <3>3, LaidMoved
    <3>5. l + 1 + f = l + 1 + FieldsOf(stat) /\ l + 1 + f <= l + f + 1
      BY <1>3, <1>5 DEF f
    <3> QED BY <1>5, <3>1, <3>3, <3>4, <3>5
  <2>3. k \in 1..m \/ k = m + 1
    BY <1>5 DEF m
  <2> QED BY <2>1, <2>2, <2>3
<1>15. Batches(next)'
  <2>1. next[1] = 1 /\ next[m + 1 + 1] = l + f + 1
    <3>1. 1 \in 1..m+1 /\ m + 1 + 1 = m + 2 /\ l + 1 + f = l + f + 1
      BY <1>3, <1>5 DEF m
    <3> QED BY <1>10, <1>11, <1>12, <3>1
  <2>2. Len(written') = m + 1 /\ Len(packet') = l + f /\ packet' = q
    BY <1>2, <1>7, <1>9 DEF q
  <2> QED BY <1>14, <2>1, <2>2 DEF Batches
<1>16. AllPlain' => Reading(next)'
  <2>1. SUFFICES ASSUME AllPlain' PROVE Reading(next)'
    OBVIOUS
  <2>2. DOMAIN written = 1..m /\ DOMAIN written' = 1..m+1
    BY <1>5, <1>9 DEF m
  <2>3. AllPlain
    <3>1. ASSUME NEW i \in 1..m PROVE Plain(written[i])
      <4>1. i \in 1..m+1 /\ written'[i] = written[i]
        BY <1>5, <1>9 DEF m
      <4> QED BY <2>1, <2>2, <4>1 DEF AllPlain, Plain
    <3> QED BY <2>2, <3>1 DEF AllPlain
  <2>4. ~garbage /\ got = <<>>
    BY <1>1, <1>2, <2>3 DEF Reading
  <2> QED BY <1>2, <2>4 DEF Reading
<1> QED BY <1>8, <1>9, <1>15, <1>16 DEF IInv

(* The packet is sent as it is.                                            *)
LEMMA SendKeepsIInv ==
  ASSUME IInv, Send
  PROVE  IInv'
<1>1. /\ packet' = packet /\ expected' = expected /\ written' = written /\ got' = got
      /\ garbage' = garbage /\ at = 0 /\ at' = 1
  BY DEF Send
<1>2. PICK starts : Batches(starts) /\ (AllPlain => Reading(starts))
  BY DEF IInv
<1>3. Piece(packet, Len(packet), expected)' /\ written' \in Seq(Stats)
  BY <1>1 DEF IInv
<1>4. Batches(starts)'
  BY <1>1, <1>2 DEF Batches
<1>5. ASSUME AllPlain' PROVE Reading(starts)'
  <2>1. AllPlain
    BY <1>1, <1>5 DEF AllPlain
  <2>2. ~garbage /\ got = <<>>
    BY <1>1, <1>2, <2>1 DEF Reading
  <2>3. Len(written) \in Nat /\ written \in Seq(Stats)
    BY DEF IInv
  <2>4. SubSeq(written, 1, 0) = <<>> /\ 0 \in 0..Len(written)
    BY <2>3
  <2>5. starts[0+1] = 1
    BY <1>2 DEF Batches
  <2> QED BY <1>1, <2>2, <2>4, <2>5 DEF Reading
<1> QED BY <1>3, <1>4, <1>5 DEF IInv

(* One element more of a sequence read so far                              *)
LEMMA AppendSubSeq ==
  ASSUME NEW X, NEW s \in Seq(X), NEW r \in 0..Len(s) - 1
  PROVE  Append(SubSeq(s, 1, r), s[r+1]) = SubSeq(s, 1, r + 1)
<1>1. Len(s) \in Nat /\ r \in Nat /\ r + 1 <= Len(s)
  OBVIOUS
<1>2. SubSeq(s, 1, r) = [i \in 1..r |-> s[i]] /\ SubSeq(s, 1, r + 1) = [i \in 1..r+1 |-> s[i]]
  BY <1>1
<1> DEFINE t == [i \in 1..r |-> s[i]]
<1>3. t \in Seq(X) /\ Len(t) = r
  BY <1>1
<1>4. Append(t, s[r+1]) = [i \in 1..r+1 |-> IF i = r + 1 THEN s[r+1] ELSE t[i]]
  BY <1>1, <1>3
<1>5. \A i \in 1..r+1 : (IF i = r + 1 THEN s[r+1] ELSE t[i]) = s[i]
  BY <1>1
<1> HIDE DEF t
<1> QED BY <1>2, <1>4, <1>5 DEF t

(* The reader takes the next stat.                                         *)
LEMMA ReadKeepsIInv ==
  ASSUME IInv, ReadOne
  PROVE  IInv'
<1>1. /\ packet' = packet /\ expected' = expected /\ written' = written
      /\ at \in DOMAIN packet
  BY DEF ReadOne
<1>2. PICK starts : Batches(starts) /\ (AllPlain => Reading(starts))
  BY DEF IInv
<1>3. Piece(packet, Len(packet), expected)' /\ written' \in Seq(Stats)
  BY <1>1 DEF IInv
<1>4. Batches(starts)'
  BY <1>1, <1>2 DEF Batches
<1>5. ASSUME AllPlain' PROVE Reading(starts)'
  <2> DEFINE l == Len(packet)
             m == Len(written)
  <2>1. AllPlain
    BY <1>1, <1>5 DEF AllPlain
  <2>2. /\ m \in Nat /\ written \in Seq(Stats) /\ DOMAIN written = 1..m
        /\ l \in Nat /\ DOMAIN packet = 1..l
    BY CountsLen DEF IInv, Piece
  <2>3. at # 0
    BY <1>1, <2>2
  <2>4. PICK r \in 0..m : got = SubSeq(written, 1, r) /\ at = starts[r+1]
    BY <1>2, <2>1, <2>3 DEF Reading
  <2>5. r \in 0..m - 1
    <3>1. starts[m+1] = l + 1 /\ at <= l
      BY <1>1, <1>2, <2>2 DEF Batches
    <3> HIDE DEF l, m
    <3>2. r # m
      BY <2>2, <2>4, <3>1
    <3> QED BY <2>2, <3>2
  <2> DEFINE k == r + 1
             stat == written[k]
             f == FieldsOf(stat)
  <2>6. k \in 1..m /\ k \in Nat /\ r \in Nat
    BY <2>2, <2>5
  <2>7. stat \in Stats /\ Plain(stat)
    BY <2>1, <2>2, <2>6 DEF AllPlain
  <2>8. Shaped(stat) /\ f \in Nat /\ f >= 7
    BY <2>7, StatsShaped, FieldsFacts
  <2>9. /\ at \in Nat /\ at >= 1 /\ starts[k+1] = at + f /\ starts[k+1] <= l + 1
        /\ Laid(packet, at, stat)
    <3> HIDE DEF k
    <3>1. at = starts[k]
      BY <2>4 DEF k
    <3> QED BY <1>2, <2>6, <3>1 DEF Batches
  <2> HIDE DEF k, stat, f, l, m
  <2>10. \A i \in at..at + f - 1 : i \in DOMAIN packet
    BY <2>2, <2>8, <2>9
  <2>11. Wellformed(packet, at) /\ ReadStat(packet, at) = stat /\ Next1(packet, at) = at + f
    BY <2>7, <2>8, <2>9, <2>10, LaidIsRead DEF f
  <2>12. got' = Append(got, stat) /\ at' = at + f /\ ~garbage'
    BY <2>11 DEF ReadOne
  <2>13. got' = SubSeq(written, 1, k)
    BY <2>2, <2>4, <2>5, <2>12, AppendSubSeq DEF k, stat, m
  <2>14. at' = starts[k+1] /\ at' # 0
    BY <2>8, <2>9, <2>12
  <2>15. k \in 0..Len(written')
    BY <1>1, <2>2, <2>6 DEF m
  <2>16. got' = SubSeq(written', 1, k)
    BY <1>1, <2>13
  <2> QED BY <2>12, <2>14, <2>15, <2>16 DEF Reading
<1> QED BY <1>3, <1>4, <1>5 DEF IInv

(* No step                                                                 *)
LEMMA StutterKeepsIInv ==
  ASSUME IInv, UNCHANGED vars
  PROVE  IInv'
<1>1. PICK starts : Batches(starts) /\ (AllPlain => Reading(starts))
  BY DEF IInv
<1>2. Batches(starts)' /\ (AllPlain' => Reading(starts)')
  BY <1>1 DEF Batches, AllPlain, Reading, vars
<1>3. Piece(packet, Len(packet), expected)' /\ written' \in Seq(Stats)
  BY DEF IInv, vars
<1> QED BY <1>2, <1>3 DEF IInv

(* IInv is inductive.                                                      *)
LEMMA NextIInv == IInv /\ [Next]_vars => IInv'
<1> SUFFICES ASSUME IInv, [Next]_vars PROVE IInv'
  OBVIOUS
<1>1. ASSUME NEW stat \in Stats, Write(stat) PROVE IInv'
  BY <1>1, WriteKeepsIInv
<1>2. CASE Send
  BY <1>2, SendKeepsIInv
<1>3. CASE ReadOne
  BY <1>3, ReadKeepsIInv
<1>4. CASE UNCHANGED vars
  BY <1>4, StutterKeepsIInv
<1> QED BY <1>1, <1>2, <1>3, <1>4 DEF Next

(* IInv holds in every state.                                              *)
LEMMA TLInvariant == Spec => []IInv
<1> QED BY InitIInv, NextIInv, PTL DEF Spec

(* What ngx_statshouse_tl_metrics_len() says of stats before they are      *)
(* written is the number of bytes that ngx_statshouse_tl_metrics() writes, *)
(* for every stat and every number of them.                                *)
(* ngx_statshouse_send_to_buffer() relies on it when it looks for room.    *)
THEOREM TLLengthExact == Spec => []LengthExact
<1>1. IInv => LengthExact
  BY DEF IInv, Piece, LengthExact
<1> QED BY <1>1, TLInvariant, PTL

(* Every field begins and ends on a multiple of four bytes, for strings of *)
(* every length, short and long.                                           *)
THEOREM TLAligned == Spec => []Aligned
<1>1. ASSUME IInv PROVE Aligned
  <2>1. DOMAIN packet = 1..Len(packet)
    BY <1>1, CountsLen DEF IInv, Piece
  <2> QED BY <1>1, <2>1 DEF IInv, Piece, Aligned
<1> QED BY <1>1, TLInvariant, PTL

(* A reader of the schema gets from a packet the stats that were written,  *)
(* in their order and none besides, if none of them is of unique values    *)
(* with a count other than one.                                            *)
THEOREM TLRoundTrip == Spec => []RoundTrip
<1>1. ASSUME IInv PROVE RoundTrip
  <2>1. SUFFICES ASSUME AllPlain
                 PROVE  /\ ~garbage /\ got = SubSeq(written, 1, Len(got))
                        /\ at > Len(packet) => Len(got) = Len(written)
    BY DEF RoundTrip, AllPlain
  <2>2. PICK starts : Batches(starts) /\ Reading(starts)
    BY <1>1, <2>1 DEF IInv
  <2> DEFINE l == Len(packet)
             m == Len(written)
  <2>3. m \in Nat /\ written \in Seq(Stats) /\ l \in Nat
    BY <1>1 DEF IInv, Piece
  <2>4. CASE at = 0
    <3>1. got = <<>> /\ ~garbage
      BY <2>2, <2>4 DEF Reading
    <3>2. Len(got) = 0 /\ SubSeq(written, 1, 0) = <<>>
      BY <2>3, <3>1
    <3>3. ~(at > l)
      BY <2>3, <2>4
    <3> QED BY <3>1, <3>2, <3>3
  <2>5. CASE at # 0
    <3>1. PICK r \in 0..m : got = SubSeq(written, 1, r) /\ at = starts[r+1]
      BY <2>2, <2>5 DEF Reading
    <3>2. Len(got) = r
      BY <2>3, <3>1
    <3>3. ASSUME r # m PROVE ~(at > l)
      <4> DEFINE k == r + 1
      <4>1. k \in 1..m
        BY <2>3, <3>3
      <4>2. written[k] \in Stats
        BY <2>3, <4>1
      <4>3. FieldsOf(written[k]) \in Nat /\ FieldsOf(written[k]) >= 7
        BY <4>2, StatsShaped, FieldsFacts
      <4>4. /\ starts[k] \in Nat /\ starts[k+1] = starts[k] + FieldsOf(written[k])
            /\ starts[k+1] <= l + 1
        <5> HIDE DEF k
        <5> QED BY <2>2, <4>1 DEF Batches
      <4>5. at = starts[k]
        BY <3>1
      <4> HIDE DEF k, l
      <4> QED BY <2>3, <4>3, <4>4, <4>5
    <3>4. ~garbage
      BY <2>2 DEF Reading
    <3> QED BY <3>1, <3>2, <3>3, <3>4
  <2> QED BY <2>4, <2>5
<1> QED BY <1>1, TLInvariant, PTL
=============================================================================
