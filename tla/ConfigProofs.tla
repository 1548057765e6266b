---------------------------- MODULE ConfigProofs ----------------------------
(***************************************************************************)
(* The configuration of both modules, for every tree of blocks and every   *)
(* file: no request meets memory that is not there, the stats of a metric  *)
(* are made its timeout apart in all blocks that share it, each block has  *)
(* the metrics and the server that the file gives it, and nginx refuses a  *)
(* file only for a cause.                                                  *)
(***************************************************************************)
EXTENDS ConfigProps, SequenceTheorems, TLAPS

(* What the parser may have built *)
MetricSet ==
  {[refs |-> m.refs, exists |-> m.exists, keys |-> m.keys, timeout |-> m.timeout,
    phase |-> m.phase, disable |-> d, last |-> t, origin |-> o] :
      m \in {Parsed(items) : items \in MetricArgs}, d \in BOOLEAN, t \in Nat, o \in Nat}

ServerSet == {[param |-> Param(d), flush |-> d.flush, ready |-> r] : d \in ServerArgs, r \in BOOLEAN}

WrittenSet == [block : {Main} \cup Inner, kind : {"server", "metric"}, arg : ServerArgs \cup MetricArgs]

TypeInv ==
  /\ module \in {"http", "stream"}
  /\ phase \in {"parse", "merge", "run", "refused", "dead"}
  /\ Main \in DOMAIN conf /\ DOMAIN conf \subseteq Blocks /\ cur \in DOMAIN conf
  /\ \A b \in DOMAIN conf \ {Main} : Parent[b] \in DOMAIN conf
  /\ conf \in [DOMAIN conf -> [confs : {Null} \cup DOMAIN arrays,
                               server : {Unset, Null} \cup DOMAIN servers,
                               enable : {Unset, 0, 1}]]
  /\ arrays \in Seq(Seq(DOMAIN metrics))
  /\ metrics \in Seq(MetricSet)
  /\ servers \in Seq(ServerSet)
  /\ written \in Seq(WrittenSet) /\ \A i \in DOMAIN written : written[i].block \in DOMAIN conf
  /\ merged \subseteq DOMAIN conf /\ Main \in merged
  /\ now \in Nat \ {0} /\ calls \in Nat

(* Before the last block is closed none is merged, and at the end all are. *)
PhaseInv ==
  /\ phase = "parse" => merged = {Main}
  /\ Running => merged = DOMAIN conf
  /\ call.rc = "fault" => phase = "dead"
  /\ ~Running => DOMAIN made = {}

(* Where each metric comes from *)
Block(i) == written[metrics[i].origin].block

OriginInv ==
  \A i \in DOMAIN metrics :
    /\ metrics[i].origin \in DOMAIN written /\ written[metrics[i].origin].kind = "metric"
    /\ metrics[i].timeout = Parsed(written[metrics[i].origin].arg).timeout
    /\ metrics[i].timeout \in Nat
    /\ metrics[i].last \in 0..now

(* A block has an array if metrics are written in it; without, it has none *)
(* until it is merged.  A server is off or set where one is written, and   *)
(* set or absent once the block is merged.                                 *)
BlockInv ==
  \A b \in DOMAIN conf :
    /\ Has(b, "metric") => conf[b].confs # Null
    /\ (b = Main \/ b \notin merged) /\ conf[b].confs # Null => Has(b, "metric")
    /\ conf[b].confs # Null => \E a \in DOMAIN conf : Has(a, "metric")
    /\ Has(b, "server") => conf[b].server # Unset \/ conf[b].enable = 0
    /\ b \in merged \ {Main} => conf[b].server # Unset

(* Servers are initialised, unless no metric can use them.                 *)
NoMetric == \A i \in DOMAIN written : written[i].kind = "server"

ReadyInv ==
  /\ metrics = <<>> => NoMetric
  /\ Running => \/ \A i \in DOMAIN servers : servers[i].ready
                \/ module = "http" /\ NoMetric

(* The http module has one metric for each directive, to which blocks      *)
(* point.                                                                  *)
HttpInv ==
  module = "http" =>
    \A i, j \in DOMAIN metrics : metrics[i].origin = metrics[j].origin => i = j

Array(b) == arrays[conf[b].confs]

(* In the stream module blocks share the array of the stream block only,   *)
(* those that have no metric of their own; an array has one metric for     *)
(* each directive of its block and, once merged, of the stream block.      *)
Shares == \A b \in DOMAIN conf : ~Has(b, "metric") => conf[b].confs \in {Null, conf[Main].confs}

Apart ==
  \A a, b \in DOMAIN conf :
    (a # b /\ conf[a].confs = conf[b].confs /\ conf[a].confs # Null) => (~Has(a, "metric") \/ a = Main)

OneEach(b) ==
  conf[b].confs # Null =>
    /\ \A x \in DOMAIN Array(b) : \/ Block(Array(b)[x]) = b
                                  \/ b \in merged /\ Block(Array(b)[x]) = Main
    /\ \A x, y \in DOMAIN Array(b) :
         metrics[Array(b)[x]].origin = metrics[Array(b)[y]].origin => x = y

StreamInv == module = "stream" => Shares /\ Apart /\ \A b \in DOMAIN conf : OneEach(b)

(* Whenever a metric was last made in a block, each block whose requests   *)
(* share its timeout knows.                                                *)
MadeInv ==
  \A x \in DOMAIN made :
    /\ x[2] \in DOMAIN conf
    /\ made[x] \in 1..now
    /\ \A b \in DOMAIN conf : Together(x[2], b) /\ conf[b].confs # Null =>
         \A y \in DOMAIN Array(b) :
           (metrics[Array(b)[y]].origin = x[1] /\ metrics[Array(b)[y]].timeout # 0) =>
              made[x] <= metrics[Array(b)[y]].last

FileInv == OriginInv /\ BlockInv /\ ReadyInv /\ HttpInv /\ StreamInv /\ MadeInv

Inv == TypeInv /\ PhaseInv /\ (phase # "refused" => FileInv)

----------------------------------------------------------------------------
(* The fold that parses a metric, as an instance of the general one        *)
ItemOp(a, m, i) == WithItem(m, i)
ItemDef(c, f, s) == IF s = {} THEN c[2] ELSE ItemOp(c[1], f[s \ {Max(s)}], c[3][Max(s)])
ItemRec == INSTANCE Lemmas WITH Def <- ItemDef, Op <- ItemOp

(* The fold that Parsed is                                                 *)
LEMMA ItemsIs ==
  ASSUME NEW items
  PROVE  FoldLeft(WithItem, NewMetric, items) = ItemRec!Fold(<<>>, NewMetric, items)
BY DEF ItemOp, FoldLeft, MapThenFoldSet, Max, ItemRec!Fold, ItemRec!FoldLeft, ItemRec!MapThenFoldSet, ItemRec!Max

(* The same step is made at each item.                                     *)
LEMMA ItemsRepeat == ItemRec!RepeatsOp
BY DEF ItemRec!RepeatsOp, ItemDef, Max, ItemRec!Max

(* What the first n items of a metric make                                 *)
KeysOf(items) == {[slot |-> items[i].slot, refs |-> items[i].refs, exists |-> items[i].exists] :
                    i \in DOMAIN items}

Dirs(items, n) == {items[i].dir : i \in 1..n}
KeySlots(items, n) == {items[i].slot : i \in {j \in 1..n : items[j].dir = "key"}}

Reads(items, n, m) ==
  /\ DOMAIN m = DOMAIN NewMetric
  /\ m.timeout \in Nat \cup {Unset}
  /\ m.keys \in Seq(KeysOf(items))
  /\ (\A i \in DOMAIN items : items[i].exists = {}) => m.exists = {}
  /\ m.type = "none" \/ m.type \in Types
  /\ m.type # "none" <=> \E t \in Types : t \in Dirs(items, n)
  /\ m.timeout # Unset => "timeout" \in Dirs(items, n)
  /\ m.phase # "" => "phase" \in Dirs(items, n)
  /\ \A k \in DOMAIN m.keys : m.keys[k].slot \in KeySlots(items, n)
  /\ WellFormed(items) => m.ok

(* What has been written when an item more is written                      *)
LEMMA OneItemMore ==
  ASSUME NEW items \in MetricArgs, NEW n \in Nat, n + 1 \in DOMAIN items
  PROVE  LET i == items[n+1]
         IN /\ Dirs(items, n + 1) = Dirs(items, n) \cup {i.dir}
            /\ i.dir = "key" => KeySlots(items, n + 1) = KeySlots(items, n) \cup {i.slot}
            /\ i.dir # "key" => KeySlots(items, n + 1) = KeySlots(items, n)
            /\ WellFormed(items) =>
                 /\ i.dir \in Types => \A t \in Types : t \notin Dirs(items, n)
                 /\ i.dir \in {"timeout", "phase"} => i.dir \notin Dirs(items, n)
                 /\ i.dir = "key" => i.slot \notin KeySlots(items, n)
<1>1. PICK l \in Nat : DOMAIN items = 1..l
  BY MetricAssumption
<1>2. 1..n+1 = 1..n \cup {n+1} /\ \A j \in 1..n : j \in DOMAIN items /\ j < n + 1
  BY <1>1
<1>3. Dirs(items, n + 1) = Dirs(items, n) \cup {items[n+1].dir}
  BY <1>2 DEF Dirs
<1>4. items[n+1].dir = "key" => KeySlots(items, n + 1) = KeySlots(items, n) \cup {items[n+1].slot}
  BY <1>2 DEF KeySlots
<1>5. items[n+1].dir # "key" => KeySlots(items, n + 1) = KeySlots(items, n)
  BY <1>2 DEF KeySlots
<1>6. ASSUME WellFormed(items), NEW j \in 1..n
      PROVE  /\ items[j].dir \in Types => items[n+1].dir \notin Types
             /\ items[j].dir = items[n+1].dir =>
                  /\ items[j].dir \notin {"timeout", "phase"}
                  /\ items[j].dir = "key" => items[j].slot # items[n+1].slot
  BY <1>2, <1>6 DEF WellFormed
<1> QED BY <1>3, <1>4, <1>5, <1>6 DEF Dirs, KeySlots

(* An item more is read.                                                   *)
LEMMA ItemRead ==
  ASSUME NEW items \in MetricArgs, NEW n \in Nat, n + 1 \in DOMAIN items, NEW m, Reads(items, n, m)
  PROVE  Reads(items, n + 1, WithItem(m, items[n+1]))
<1>1. PICK i, w : i = items[n+1] /\ w = WithItem(m, i)
  OBVIOUS
<1>2. /\ i.dir \in Types \cup {"key", "exists", "condition", "timeout", "phase"}
      /\ i.dir = "timeout" => i.n \in Nat
      /\ i.dir = "phase" => i.n # ""
      /\ (\A j \in DOMAIN items : items[j].exists = {}) => i.exists = {}
  BY <1>1, MetricAssumption, ItemAssumption
<1>3. /\ Dirs(items, n + 1) = Dirs(items, n) \cup {i.dir}
      /\ i.dir = "key" => KeySlots(items, n + 1) = KeySlots(items, n) \cup {i.slot}
      /\ i.dir # "key" => KeySlots(items, n + 1) = KeySlots(items, n)
      /\ WellFormed(items) =>
           /\ i.dir \in Types => \A t \in Types : t \notin Dirs(items, n)
           /\ i.dir \in {"timeout", "phase"} => i.dir \notin Dirs(items, n)
           /\ i.dir = "key" => i.slot \notin KeySlots(items, n)
  BY <1>1, OneItemMore
<1>4. DOMAIN m = {"ok", "type", "refs", "exists", "keys", "timeout", "phase"}
  BY DEF Reads, NewMetric
<1>5. CASE i.dir \in Types
  <2>1. /\ DOMAIN w = DOMAIN m /\ w.timeout = m.timeout /\ w.keys = m.keys /\ w.exists = m.exists
        /\ w.type = i.dir /\ w.phase = m.phase /\ w.ok = (m.ok /\ m.type = "none")
    BY <1>1, <1>4, <1>5 DEF WithItem, Types
  <2>2. i.dir # "none" /\ i.dir # "key"
    BY <1>5 DEF Types
  <2> QED BY <1>1, <1>3, <1>5, <2>1, <2>2 DEF Reads
<1>6. CASE i.dir = "key"
  <2>1. PICK q : q = [slot |-> i.slot, refs |-> i.refs, exists |-> i.exists]
    OBVIOUS
  <2>2. w = [m EXCEPT !.ok = @ /\ i.slot \notin Slots(m), !.keys = Append(@, q)]
    BY <1>1, <1>6, <2>1 DEF WithItem, Types
  <2>3. q \in KeysOf(items) /\ q.slot = i.slot
    BY <1>1, <2>1 DEF KeysOf
  <2>4. PICK l, k : l = m.keys /\ k = Append(l, q) /\ l \in Seq(KeysOf(items))
    BY DEF Reads
  <2>5. /\ k \in Seq(KeysOf(items))
        /\ \A x \in DOMAIN k : k[x] = q \/ (x \in DOMAIN l /\ k[x] = l[x])
    BY <2>3, <2>4
  <2>6. /\ DOMAIN w = DOMAIN m /\ w.timeout = m.timeout /\ w.keys = k /\ w.exists = m.exists
        /\ w.type = m.type /\ w.phase = m.phase /\ w.ok = (m.ok /\ i.slot \notin Slots(m))
    BY <1>4, <2>2, <2>4
  <2>7. WellFormed(items) => i.slot \notin Slots(m)
    BY <1>3, <1>6 DEF Reads, Slots
  <2>8. \A x \in DOMAIN k : k[x].slot \in KeySlots(items, n + 1)
    BY <1>3, <1>6, <2>3, <2>4, <2>5 DEF Reads
  <2>9. i.dir \notin Types \cup {"timeout", "phase"}
    BY <1>6 DEF Types
  <2> QED BY <1>1, <1>3, <2>5, <2>6, <2>7, <2>8, <2>9 DEF Reads
<1>7. CASE i.dir \in {"exists", "condition"}
  <2>1. /\ DOMAIN w = DOMAIN m /\ w.timeout = m.timeout /\ w.keys = m.keys
        /\ w.exists = (IF i.dir = "exists" THEN m.exists \cup i.exists ELSE m.exists)
        /\ w.type = m.type /\ w.phase = m.phase /\ w.ok = m.ok
    BY <1>1, <1>4, <1>7 DEF WithItem, Types
  <2>2. i.dir \notin Types \cup {"key", "timeout", "phase"}
    BY <1>7 DEF Types
  <2> QED BY <1>1, <1>2, <1>3, <2>1, <2>2 DEF Reads
<1>8. CASE i.dir = "timeout"
  <2>1. /\ DOMAIN w = DOMAIN m /\ w.timeout = i.n /\ w.keys = m.keys /\ w.exists = m.exists
        /\ w.type = m.type /\ w.phase = m.phase /\ w.ok = (m.ok /\ m.timeout = Unset)
    BY <1>1, <1>4, <1>8 DEF WithItem, Types
  <2>2. i.dir \notin Types \cup {"key", "phase"}
    BY <1>8 DEF Types
  <2> QED BY <1>1, <1>2, <1>3, <1>8, <2>1, <2>2 DEF Reads
<1>9. CASE i.dir = "phase"
  <2>1. /\ DOMAIN w = DOMAIN m /\ w.timeout = m.timeout /\ w.keys = m.keys /\ w.exists = m.exists
        /\ w.type = m.type /\ w.phase = i.n /\ w.ok = (m.ok /\ m.phase = "")
    BY <1>1, <1>4, <1>9 DEF WithItem, Types
  <2>2. i.dir \notin Types \cup {"key", "timeout"}
    BY <1>9 DEF Types
  <2> QED BY <1>1, <1>2, <1>3, <1>9, <2>1, <2>2 DEF Reads
<1> QED BY <1>2, <1>5, <1>6, <1>7, <1>8, <1>9

(* The parser reads all items.                                             *)
LEMMA ItemsRead ==
  ASSUME NEW items \in MetricArgs
  PROVE  Reads(items, Len(items), FoldLeft(WithItem, NewMetric, items))
<1> DEFINE seq(n) == [i \in 1..n |-> items[i]]
           fold(n) == ItemRec!Fold(<<>>, NewMetric, seq(n))
           Good(n) == Reads(items, n, fold(n))
           T == {n \in Nat : n <= Len(items) => Good(n)}
<1>1. PICK l : l = Len(items)
  OBVIOUS
<1>2. l \in Nat /\ DOMAIN items = 1..l /\ items = [i \in 1..l |-> items[i]]
  BY <1>1, MetricAssumption
<1>3. 0 \in T
  <2>1. DOMAIN seq(0) = {}
    OBVIOUS
  <2>2. fold(0) = NewMetric
    BY <2>1, ItemsRepeat, ItemRec!FoldNone
  <2>3. Dirs(items, 0) = {} /\ KeySlots(items, 0) = {}
    BY DEF Dirs, KeySlots
  <2>4. Reads(items, 0, NewMetric)
    BY <2>3 DEF Reads, NewMetric
  <2> HIDE DEF fold
  <2> QED BY <2>2, <2>4
<1>4. ASSUME NEW n \in Nat, n \in T PROVE n + 1 \in T
  <2> SUFFICES ASSUME n + 1 <= Len(items) PROVE Good(n+1)
    OBVIOUS
  <2>1. DOMAIN seq(n+1) = 1..n+1 /\ DOMAIN seq(n) = 1..n /\ \A i \in 1..n : seq(n)[i] = seq(n+1)[i]
    OBVIOUS
  <2>2. fold(n+1) = ItemOp(<<>>, fold(n), seq(n+1)[n+1])
    <3> HIDE DEF seq
    <3> QED BY <2>1, ItemsRepeat, ItemRec!FoldOneMore
  <2>3. seq(n+1)[n+1] = items[n+1] /\ n + 1 \in DOMAIN items
    BY <1>1, <1>2
  <2>4. Reads(items, n, fold(n))
    BY <1>1, <1>2, <1>4
  <2> HIDE DEF fold, seq
  <2>5. Reads(items, n+1, WithItem(fold(n), items[n+1]))
    BY <2>3, <2>4, ItemRead
  <2> QED BY <2>2, <2>3, <2>5 DEF ItemOp
<1>5. l \in T
  <2> HIDE DEF T
  <2> QED BY <1>2, <1>3, <1>4, ItemRec!SetInduction
<1>6. Good(l)
  <2>1. l <= Len(items)
    BY <1>1, <1>2
  <2> QED BY <1>5, <2>1
<1>7. seq(l) = items
  BY <1>2
<1> QED BY <1>1, <1>6, <1>7, ItemsIs

(* The variables that a metric and its keys ask for                        *)
Asks(m) == m.exists \cup UNION {m.keys[k].exists : k \in DOMAIN m.keys}

(* A metric has a time for its timeout, a sequence of keys, and asks for   *)
(* what its items ask for; it is accepted if it is well-formed.            *)
LEMMA ParsedFacts ==
  ASSUME NEW items \in MetricArgs
  PROVE  /\ Parsed(items).timeout \in Nat
         /\ Parsed(items).keys \in Seq(KeysOf(items))
         /\ (\A i \in DOMAIN items : items[i].exists = {}) => Asks(Parsed(items)) = {}
         /\ WellFormed(items) => Parsed(items).ok
<1>1. PICK m : m = FoldLeft(WithItem, NewMetric, items)
  OBVIOUS
<1>2. Reads(items, Len(items), m) /\ DOMAIN items = 1..Len(items)
  BY <1>1, ItemsRead, MetricAssumption
<1>3. PICK p : p = Parsed(items)
  OBVIOUS
<1>4. p = [m EXCEPT !.ok = @ /\ m.type # "none", !.timeout = IF @ = Unset THEN 0 ELSE @]
  BY <1>1, <1>3 DEF Parsed
<1>5. DOMAIN m = {"ok", "type", "refs", "exists", "keys", "timeout", "phase"}
  BY <1>2 DEF Reads, NewMetric
<1>6. /\ p.ok = (m.ok /\ m.type # "none") /\ p.timeout = (IF m.timeout = Unset THEN 0 ELSE m.timeout)
      /\ p.keys = m.keys /\ p.exists = m.exists
  BY <1>4, <1>5
<1>7. WellFormed(items) => p.ok
  BY <1>2, <1>6 DEF Reads, WellFormed, Dirs
<1>8. p.timeout \in Nat
  <2>1. m.timeout \in Nat \/ m.timeout = Unset
    BY <1>2 DEF Reads
  <2> QED BY <1>6, <2>1
<1>9. p.keys \in Seq(KeysOf(items)) /\ ((\A i \in DOMAIN items : items[i].exists = {}) => p.exists = {})
  BY <1>2, <1>6 DEF Reads
<1>10. ASSUME \A i \in DOMAIN items : items[i].exists = {} PROVE Asks(p) = {}
  <2>1. \A k \in DOMAIN p.keys : p.keys[k] \in KeysOf(items)
    BY <1>9
  <2>2. \A k \in DOMAIN p.keys : p.keys[k].exists = {}
    BY <1>10, <2>1 DEF KeysOf
  <2> QED BY <1>9, <1>10, <2>2 DEF Asks
<1> QED BY <1>3, <1>7, <1>8, <1>9, <1>10

(* The fields of a metric are its own but for those that a step changes.   *)
LEMMA Fields ==
  ASSUME NEW m \in MetricSet
  PROVE  /\ m.timeout \in Nat /\ m.last \in Nat /\ m.origin \in Nat
         /\ \A d \in BOOLEAN : LET n == [m EXCEPT !.disable = d]
              IN n \in MetricSet /\ n.timeout = m.timeout /\ n.last = m.last /\ n.origin = m.origin
         /\ \A t \in Nat : LET n == [m EXCEPT !.last = t]
              IN n \in MetricSet /\ n.timeout = m.timeout /\ n.last = t /\ n.origin = m.origin
<1>1. PICK items \in MetricArgs, d \in BOOLEAN, t \in Nat, o \in Nat :
        m = [refs |-> Parsed(items).refs, exists |-> Parsed(items).exists,
             keys |-> Parsed(items).keys, timeout |-> Parsed(items).timeout,
             phase |-> Parsed(items).phase, disable |-> d, last |-> t, origin |-> o]
  BY DEF MetricSet
<1>2. m.timeout \in Nat /\ m.last \in Nat /\ m.origin \in Nat
  BY <1>1, ParsedFacts
<1>3. ASSUME NEW e \in BOOLEAN
      PROVE  LET n == [m EXCEPT !.disable = e]
             IN n \in MetricSet /\ n.timeout = m.timeout /\ n.last = m.last /\ n.origin = m.origin
  <2>1. [m EXCEPT !.disable = e] =
          [refs |-> Parsed(items).refs, exists |-> Parsed(items).exists,
           keys |-> Parsed(items).keys, timeout |-> Parsed(items).timeout,
           phase |-> Parsed(items).phase, disable |-> e, last |-> t, origin |-> o]
    BY <1>1
  <2> QED BY <1>1, <2>1 DEF MetricSet
<1>4. ASSUME NEW u \in Nat
      PROVE  LET n == [m EXCEPT !.last = u]
             IN n \in MetricSet /\ n.timeout = m.timeout /\ n.last = u /\ n.origin = m.origin
  <2>1. [m EXCEPT !.last = u] =
          [refs |-> Parsed(items).refs, exists |-> Parsed(items).exists,
           keys |-> Parsed(items).keys, timeout |-> Parsed(items).timeout,
           phase |-> Parsed(items).phase, disable |-> d, last |-> u, origin |-> o]
    BY <1>1
  <2> QED BY <1>1, <2>1 DEF MetricSet
<1> QED BY <1>2, <1>3, <1>4

(* An array holds places of metrics.                                       *)
LEMMA ArrayType ==
  ASSUME TypeInv, NEW b \in DOMAIN conf, conf[b].confs # Null
  PROVE  /\ conf[b].confs \in DOMAIN arrays /\ Array(b) \in Seq(DOMAIN metrics)
         /\ \A x \in DOMAIN Array(b) : Array(b)[x] \in DOMAIN metrics
<1>1. conf[b].confs \in DOMAIN arrays
  BY DEF TypeInv
<1>2. arrays[conf[b].confs] \in Seq(DOMAIN metrics)
  BY <1>1 DEF TypeInv
<1> QED BY <1>1, <1>2 DEF Array

(* A block keeps its metrics in a step that leaves its array alone.        *)
LEMMA SameArray ==
  ASSUME TypeInv, NEW b \in DOMAIN conf, OneEach(b),
         conf'[b].confs = conf[b].confs, b \in merged => b \in merged',
         conf[b].confs # Null => arrays'[conf[b].confs] = arrays[conf[b].confs],
         \A i \in DOMAIN metrics :
           metrics'[i].origin = metrics[i].origin /\ written'[metrics'[i].origin].block = Block(i)
  PROVE  OneEach(b)'
<1> SUFFICES ASSUME conf[b].confs # Null PROVE OneEach(b)'
  BY DEF OneEach
<1> DEFINE a == Array(b)
<1>1. Array(b)' = a
  BY DEF Array
<1>2. \A x \in DOMAIN a : a[x] \in DOMAIN metrics
  BY ArrayType
<1>3. /\ \A x \in DOMAIN a : \/ Block(a[x]) = b
                             \/ b \in merged /\ Block(a[x]) = Main
      /\ \A x, y \in DOMAIN a : metrics[a[x]].origin = metrics[a[y]].origin => x = y
  BY DEF OneEach
<1> HIDE DEF a
<1>4. \A x \in DOMAIN a : \/ written'[metrics'[a[x]].origin].block = b
                          \/ b \in merged' /\ written'[metrics'[a[x]].origin].block = Main
  BY <1>2, <1>3 DEF Block
<1>5. \A x, y \in DOMAIN a : metrics'[a[x]].origin = metrics'[a[y]].origin => x = y
  BY <1>2, <1>3
<1> QED BY <1>1, <1>4, <1>5 DEF OneEach, Block

(* What a directive adds to the file                                       *)
LEMMA Written ==
  ASSUME TypeInv, NEW kind \in {"server", "metric"}, NEW d \in ServerArgs \cup MetricArgs, Write(kind, d)
  PROVE  /\ written' \in Seq(WrittenSet)
         /\ Len(written) \in Nat /\ Len(written') = Len(written) + 1 /\ Len(written') \notin DOMAIN written
         /\ DOMAIN written' = DOMAIN written \cup {Len(written')}
         /\ \A i \in DOMAIN written : written'[i] = written[i]
         /\ written'[Len(written')] = [block |-> cur, kind |-> kind, arg |-> d]
         /\ \A b, k : Has(b, k)' <=> Has(b, k) \/ (b = cur /\ k = kind)
<1> DEFINE w == [block |-> cur, kind |-> kind, arg |-> d]
<1>1. w \in WrittenSet /\ w.block = cur /\ w.kind = kind
  BY DEF TypeInv, WrittenSet, Blocks
<1>2. written \in Seq(WrittenSet) /\ written' = Append(written, w)
  BY DEF TypeInv, Write
<1> HIDE DEF w
<1>3. /\ written' \in Seq(WrittenSet)
      /\ Len(written) \in Nat /\ Len(written') = Len(written) + 1 /\ Len(written') \notin DOMAIN written
      /\ DOMAIN written' = DOMAIN written \cup {Len(written')}
      /\ \A i \in DOMAIN written : written'[i] = written[i]
      /\ written'[Len(written')] = w
  BY <1>1, <1>2
<1>4. \A b, k : Has(b, k)' <=> Has(b, k) \/ (b = cur /\ k = kind)
  BY <1>1, <1>3 DEF Has
<1> QED BY <1>3, <1>4 DEF w

(* Nothing is there at first but the outermost block.                      *)
LEMMA InitInv == Init => Inv
<1> SUFFICES ASSUME Init PROVE Inv
  OBVIOUS
<1>1. conf = [x \in {Main} |-> NewConf] /\ DOMAIN conf = {Main} /\ conf[Main] = NewConf
  BY DEF Init
<1>2. TypeInv
  BY <1>1 DEF Init, TypeInv, Blocks, NewConf, Null, Unset
<1>3. PhaseInv
  BY DEF Init, PhaseInv, Running, NoCall
<1>4. OriginInv /\ ReadyInv /\ HttpInv /\ MadeInv
  BY DEF Init, OriginInv, ReadyInv, HttpInv, MadeInv, NoMetric, Running
<1>5. BlockInv /\ StreamInv
  BY <1>1 DEF Init, BlockInv, StreamInv, Shares, Apart, OneEach, Has, NewConf, Null, Unset
<1> QED BY <1>2, <1>3, <1>4, <1>5 DEF Inv, FileInv

----------------------------------------------------------------------------
(* Steps that leave the metrics, the servers and the file alone *)

(* A block that is opened has no directive yet.                            *)
LEMMA OpenInv == ASSUME NEW b \in Inner, Inv, Open(b) PROVE Inv'
<1> USE DEF Open
<1>0. TypeInv /\ PhaseInv /\ FileInv
  BY DEF Inv
<1>1. /\ DOMAIN conf' = DOMAIN conf \cup {b} /\ conf'[b] = NewConf
      /\ \A x \in DOMAIN conf : conf'[x] = conf[x]
      /\ conf' = [x \in DOMAIN conf' |-> conf'[x]]
  BY DEF TypeInv
<1>2. b # Main /\ b \in Blocks /\ b \notin merged /\ Main \in DOMAIN conf /\ Main \in merged
  BY <1>0, BlocksAssumption DEF TypeInv, Inner
<1>3. TypeInv'
  BY <1>0, <1>1, <1>2 DEF TypeInv, Blocks, NewConf, Null, Unset
<1>4. PhaseInv'
  BY <1>0, <1>2 DEF PhaseInv, Running
<1>5. OriginInv' /\ ReadyInv' /\ HttpInv'
  BY <1>0 DEF FileInv, OriginInv, ReadyInv, HttpInv, NoMetric, Running
<1>6. \A kind : ~Has(b, kind)
  BY <1>0 DEF TypeInv, Has
<1>7. BlockInv'
  BY <1>0, <1>1, <1>2, <1>6 DEF FileInv, BlockInv, Has, NewConf, Null, Unset
<1>8. StreamInv'
  <2>1. module = "stream" => Shares'
    BY <1>0, <1>1, <1>2 DEF FileInv, StreamInv, Shares, Has, NewConf
  <2>2. module = "stream" => Apart'
    BY <1>0, <1>1, <1>2 DEF FileInv, StreamInv, Apart, Has, NewConf
  <2>3. ASSUME module = "stream", NEW x \in DOMAIN conf' PROVE OneEach(x)'
    <3>1. CASE x = b
      BY <1>1, <3>1 DEF OneEach, NewConf
    <3>2. CASE x # b
      <4>1. x \in DOMAIN conf /\ OneEach(x) /\ conf'[x] = conf[x]
        BY <1>0, <1>1, <2>3, <3>2 DEF FileInv, StreamInv
      <4>2. \A i : metrics'[i].origin = metrics[i].origin /\ written'[metrics'[i].origin].block = Block(i)
        BY DEF Block
      <4> QED BY <1>0, <4>1, <4>2, SameArray
    <3> QED BY <3>1, <3>2
  <2> QED BY <2>1, <2>2, <2>3 DEF StreamInv
<1>9. MadeInv'
  BY <1>0 DEF MadeInv, PhaseInv, Running
<1> QED BY <1>3, <1>4, <1>5, <1>7, <1>8, <1>9 DEF Inv, FileInv

(* The other steps outside the directives, the merging and the requests    *)
LEMMA CloseInv == Inv /\ Close => Inv'
<1> SUFFICES ASSUME Inv, Close PROVE Inv'
  OBVIOUS
<1>1. TypeInv /\ PhaseInv /\ FileInv
  BY DEF Inv, Close
<1>2. /\ phase = "parse" /\ phase' \in {"parse", "merge"} /\ cur' \in DOMAIN conf
      /\ UNCHANGED <<module, conf, arrays, metrics, servers, merged, now, call, calls, written, made>>
  BY <1>1 DEF Close, TypeInv
<1>3. TypeInv'
  BY <1>1, <1>2 DEF TypeInv, Blocks
<1>4. PhaseInv' /\ MadeInv'
  BY <1>1, <1>2 DEF PhaseInv, MadeInv, Running
<1>5. OriginInv' /\ ReadyInv' /\ HttpInv'
  BY <1>1, <1>2 DEF FileInv, OriginInv, ReadyInv, HttpInv, NoMetric, Running
<1>6. BlockInv' /\ StreamInv'
  BY <1>1, <1>2 DEF FileInv, BlockInv, StreamInv, Shares, Apart, OneEach, Has, Array, Block
<1> QED BY <1>3, <1>4, <1>5, <1>6 DEF Inv, FileInv

----------------------------------------------------------------------------
(* Directives *)

(* A configuration that is refused is one nginx does not start with.       *)
LEMMA RefuseInv ==
  ASSUME Inv, NEW kind \in {"server", "metric"}, NEW d \in ServerArgs \cup MetricArgs,
         Directive, Write(kind, d), Refuse
  PROVE  Inv'
<1>1. TypeInv /\ PhaseInv
  BY DEF Inv
<1>2. TypeInv'
  <2>1. written' \in Seq(WrittenSet)
    BY <1>1, Written
  <2>2. \A i \in DOMAIN written' : written'[i].block \in DOMAIN conf
    <3>1. \A i \in DOMAIN written : written'[i] = written[i]
      BY <1>1, Written
    <3>2. /\ DOMAIN written' = DOMAIN written \cup {Len(written')}
          /\ written'[Len(written')] = [block |-> cur, kind |-> kind, arg |-> d]
      BY <1>1, Written
    <3>3. written'[Len(written')].block = cur
      BY <3>2
    <3> QED BY <1>1, <3>1, <3>2, <3>3 DEF TypeInv
  <2> QED BY <1>1, <2>1, <2>2 DEF TypeInv, Refuse, Blocks
<1>3. PhaseInv' /\ phase' = "refused"
  BY <1>1 DEF PhaseInv, Running, Refuse, Directive
<1> QED BY <1>2, <1>3 DEF Inv

(* A server directive that is accepted changes what its block knows of a   *)
(* server, and may add one.                                                *)
LEMMA ServerEffect ==
  ASSUME TypeInv, NEW d \in ServerArgs,
         IF IsOff(d) THEN ServerOff
         ELSE IF SameServers(d) # {} THEN ServerFound(d) ELSE ServerNew(d)
  PROVE  /\ servers' \in Seq(ServerSet) /\ DOMAIN servers \subseteq DOMAIN servers'
         /\ DOMAIN conf' = DOMAIN conf
         /\ conf' \in [DOMAIN conf -> [confs : {Null} \cup DOMAIN arrays,
                                       server : {Unset, Null} \cup DOMAIN servers',
                                       enable : {Unset, 0, 1}]]
         /\ \A b \in DOMAIN conf : conf'[b].confs = conf[b].confs /\ (b # cur => conf'[b] = conf[b])
         /\ conf'[cur].server # Unset \/ conf'[cur].enable = 0
<1>1. /\ cur \in DOMAIN conf /\ servers \in Seq(ServerSet) /\ Len(servers) \in Nat
      /\ DOMAIN servers = 1..Len(servers)
      /\ conf \in [DOMAIN conf -> [confs : {Null} \cup DOMAIN arrays,
                                   server : {Unset, Null} \cup DOMAIN servers,
                                   enable : {Unset, 0, 1}]]
  BY DEF TypeInv
<1>2. CASE ServerOff
  BY <1>1, <1>2 DEF ServerOff
<1>3. CASE SameServers(d) # {} /\ ServerFound(d)
  <2> DEFINE i == CHOOSE j \in SameServers(d) : TRUE
  <2>1. i \in DOMAIN servers
    BY <1>3 DEF SameServers
  <2>2. servers' = servers /\ conf' = [conf EXCEPT ![cur].server = i, ![cur].enable = 1]
    BY <1>3 DEF ServerFound
  <2> HIDE DEF i
  <2> QED BY <1>1, <2>1, <2>2 DEF Unset
<1>4. CASE ServerNew(d)
  <2> DEFINE srv == [param |-> Param(d), flush |-> d.flush, ready |-> FALSE]
  <2>1. srv \in ServerSet
    <3>1. \A r \in BOOLEAN : [param |-> Param(d), flush |-> d.flush, ready |-> r] \in ServerSet
      BY DEF ServerSet
    <3>2. FALSE \in BOOLEAN
      OBVIOUS
    <3> QED BY <3>1, <3>2, Zenon
  <2>2. /\ servers' = Append(servers, srv)
        /\ conf' = [conf EXCEPT ![cur].server = Len(servers'), ![cur].enable = 1]
    BY <1>4 DEF ServerNew
  <2> HIDE DEF srv
  <2>3. servers' \in Seq(ServerSet) /\ DOMAIN servers' = 1..(Len(servers)+1) /\ Len(servers') = Len(servers) + 1
    BY <1>1, <2>1, <2>2
  <2> QED BY <1>1, <2>2, <2>3 DEF Unset
<1> QED BY <1>2, <1>3, <1>4

(* A server directive keeps the invariant, accepted or refused.            *)
LEMMA ServerInv == ASSUME Inv, NEW d \in ServerArgs, ServerDirective(d) PROVE Inv'
<1>0. TypeInv /\ PhaseInv /\ FileInv /\ phase = "parse" /\ Write("server", d) /\ Directive
  BY DEF Inv, ServerDirective, Directive
<1>1. CASE Refuse
  BY <1>0, <1>1, RefuseInv
<1>2. CASE ~Refuse
  <2>1. /\ IF IsOff(d) THEN ServerOff
           ELSE IF SameServers(d) # {} THEN ServerFound(d) ELSE ServerNew(d)
        /\ UNCHANGED <<module, phase, cur, arrays, metrics, merged, now, call, calls, made>>
    BY <1>2 DEF ServerDirective
  <2>2. /\ servers' \in Seq(ServerSet) /\ DOMAIN conf' = DOMAIN conf
        /\ conf' \in [DOMAIN conf -> [confs : {Null} \cup DOMAIN arrays,
                                      server : {Unset, Null} \cup DOMAIN servers',
                                      enable : {Unset, 0, 1}]]
        /\ \A b \in DOMAIN conf : conf'[b].confs = conf[b].confs /\ (b # cur => conf'[b] = conf[b])
        /\ conf'[cur].server # Unset \/ conf'[cur].enable = 0
    BY <1>0, <2>1, ServerEffect
  <2>3. /\ written' \in Seq(WrittenSet)
        /\ DOMAIN written' = DOMAIN written \cup {Len(written')}
        /\ \A i \in DOMAIN written : written'[i] = written[i]
        /\ written'[Len(written')] = [block |-> cur, kind |-> "server", arg |-> d]
        /\ \A b : /\ Has(b, "metric")' <=> Has(b, "metric")
                  /\ Has(b, "server")' <=> Has(b, "server") \/ b = cur
    BY <1>0, Written
  <2>4. written'[Len(written')].block = cur /\ written'[Len(written')].kind = "server"
    BY <2>3
  <2>5. TypeInv'
    BY <1>0, <2>1, <2>2, <2>3, <2>4 DEF TypeInv, Blocks
  <2>6. PhaseInv' /\ MadeInv' /\ HttpInv'
    BY <1>0, <2>1 DEF PhaseInv, Running, MadeInv, HttpInv, FileInv
  <2>7. OriginInv'
    BY <1>0, <2>1, <2>3 DEF FileInv, OriginInv
  <2>8. ReadyInv'
    BY <1>0, <2>1, <2>3, <2>4 DEF FileInv, ReadyInv, NoMetric, Running
  <2>9. BlockInv'
    BY <1>0, <2>1, <2>2, <2>3 DEF FileInv, BlockInv, PhaseInv
  <2>10. StreamInv'
    <3>1. module = "stream" => Shares' /\ Apart'
      BY <1>0, <2>1, <2>2, <2>3 DEF FileInv, StreamInv, Shares, Apart, TypeInv
    <3>2. ASSUME module = "stream", NEW b \in DOMAIN conf PROVE OneEach(b)'
      <4>1. OneEach(b) /\ conf'[b].confs = conf[b].confs /\ merged' = merged /\ arrays' = arrays
        BY <1>0, <2>1, <2>2, <3>2 DEF FileInv, StreamInv
      <4>2. \A i \in DOMAIN metrics :
              metrics'[i].origin = metrics[i].origin /\ written'[metrics'[i].origin].block = Block(i)
        BY <1>0, <2>1, <2>3 DEF FileInv, OriginInv, Block
      <4> QED BY <1>0, <4>1, <4>2, SameArray
    <3> QED BY <2>1, <2>2, <3>1, <3>2 DEF StreamInv
  <2> QED BY <2>5, <2>6, <2>7, <2>8, <2>9, <2>10 DEF Inv, FileInv
<1> QED BY <1>1, <1>2

(* A metric that is accepted is the last one.  Its block has an array of   *)
(* its own, with the metric at the end; the arrays are otherwise the same. *)
LEMMA PushEffect ==
  ASSUME TypeInv, NEW m \in MetricSet, Push(m)
  PROVE  /\ metrics' \in Seq(MetricSet) /\ metrics' # <<>> /\ Len(metrics') \notin DOMAIN metrics
         /\ DOMAIN metrics' = DOMAIN metrics \cup {Len(metrics')} /\ metrics'[Len(metrics')] = m
         /\ \A i \in DOMAIN metrics : metrics'[i] = metrics[i]
         /\ arrays' \in Seq(Seq(DOMAIN metrics'))
         /\ DOMAIN conf' = DOMAIN conf
         /\ conf' \in [DOMAIN conf -> [confs : {Null} \cup DOMAIN arrays',
                                       server : {Unset, Null} \cup DOMAIN servers,
                                       enable : {Unset, 0, 1}]]
         /\ \A b \in DOMAIN conf : /\ conf'[b].server = conf[b].server /\ conf'[b].enable = conf[b].enable
                                   /\ b # cur => conf'[b] = conf[b]
         /\ conf'[cur].confs # Null
         /\ conf[cur].confs = Null =>
              conf'[cur].confs \notin DOMAIN arrays /\ arrays'[conf'[cur].confs] = <<Len(metrics')>>
         /\ conf[cur].confs # Null =>
              conf' = conf /\ arrays'[conf[cur].confs] = Append(Array(cur), Len(metrics'))
         /\ \A k \in DOMAIN arrays : k # conf[cur].confs => arrays'[k] = arrays[k]
<1> DEFINE n == Len(metrics) + 1
<1>1. /\ metrics \in Seq(MetricSet) /\ Len(metrics) \in Nat /\ DOMAIN metrics = 1..Len(metrics)
      /\ arrays \in Seq(Seq(DOMAIN metrics)) /\ Len(arrays) \in Nat /\ DOMAIN arrays = 1..Len(arrays)
      /\ cur \in DOMAIN conf
      /\ conf \in [DOMAIN conf -> [confs : {Null} \cup DOMAIN arrays,
                                   server : {Unset, Null} \cup DOMAIN servers,
                                   enable : {Unset, 0, 1}]]
  BY DEF TypeInv
<1>2. /\ metrics' \in Seq(MetricSet) /\ metrics' # <<>> /\ Len(metrics') = n
      /\ DOMAIN metrics' = 1..n /\ metrics'[n] = m
      /\ \A i \in DOMAIN metrics : metrics'[i] = metrics[i]
  <2>1. metrics' = Append(metrics, m) /\ metrics \in Seq(MetricSet)
    BY <1>1 DEF Push
  <2>2. metrics' \in Seq(MetricSet) /\ Len(metrics') = n /\ metrics'[n] = m
    BY <2>1
  <2>3. \A i \in DOMAIN metrics : metrics'[i] = metrics[i]
    BY <2>1
  <2> QED BY <1>1, <2>2, <2>3
<1>3. \A q \in Seq(DOMAIN metrics) : q \in Seq(1..n) /\ Append(q, n) \in Seq(1..n)
  <2> SUFFICES ASSUME NEW q \in Seq(DOMAIN metrics)
               PROVE  q \in Seq(1..n) /\ Append(q, n) \in Seq(1..n)
    OBVIOUS
  <2> DEFINE S == DOMAIN metrics
             T == 1..n
  <2>1. q \in Seq(S) /\ n \in T /\ \A i \in S : i \in T
    BY <1>1
  <2> HIDE DEF S, T, n
  <2>2. q \in Seq(T)
    BY <2>1
  <2>3. Append(q, n) \in Seq(T)
    BY <2>1, <2>2
  <2> QED BY <2>2, <2>3 DEF T
<1>4. arrays \in Seq(Seq(1..n)) /\ \A k \in DOMAIN arrays : arrays[k] \in Seq(DOMAIN metrics)
  <2>1. \A k \in DOMAIN arrays : arrays[k] \in Seq(DOMAIN metrics)
    BY <1>1
  <2> DEFINE S == Seq(DOMAIN metrics)
             T == Seq(1..n)
  <2>2. arrays \in Seq(S) /\ \A q \in S : q \in T
    BY <1>1, <1>3
  <2> HIDE DEF S, T
  <2>3. arrays \in Seq(T)
    BY <2>2
  <2> QED BY <2>1, <2>3 DEF T
<1>5. Len(metrics') \notin DOMAIN metrics /\ DOMAIN metrics' = DOMAIN metrics \cup {Len(metrics')}
  BY <1>1, <1>2
<1>6. CASE conf[cur].confs = Null
  <2>1. <<n>> \in Seq(1..n)
    BY <1>1
  <2>2. /\ arrays' = Append(arrays, <<n>>)
        /\ conf' = [conf EXCEPT ![cur].confs = Len(arrays')]
    BY <1>2, <1>6 DEF Push
  <2>3. /\ arrays' \in Seq(Seq(1..n)) /\ Len(arrays') = Len(arrays) + 1
        /\ DOMAIN arrays' = 1..(Len(arrays) + 1) /\ arrays'[Len(arrays')] = <<n>>
        /\ \A k \in DOMAIN arrays : arrays'[k] = arrays[k]
    BY <1>1, <1>4, <2>1, <2>2
  <2>4. /\ conf'[cur].confs = Len(arrays') /\ Len(arrays') \notin DOMAIN arrays
        /\ Len(arrays') # Null
    BY <1>1, <2>2, <2>3 DEF Null
  <2>5. arrays'[conf'[cur].confs] = <<n>>
    BY <2>3, <2>4
  <2>6. /\ DOMAIN conf' = DOMAIN conf
        /\ conf' \in [DOMAIN conf -> [confs : {Null} \cup DOMAIN arrays',
                                      server : {Unset, Null} \cup DOMAIN servers,
                                      enable : {Unset, 0, 1}]]
        /\ \A b \in DOMAIN conf : /\ conf'[b].server = conf[b].server /\ conf'[b].enable = conf[b].enable
                                  /\ b # cur => conf'[b] = conf[b]
    BY <1>1, <2>2, <2>3 DEF Null
  <2> QED BY <1>2, <1>6, <1>5, <2>3, <2>4, <2>5, <2>6
<1>7. CASE conf[cur].confs # Null
  <2> DEFINE k == conf[cur].confs
  <2>1. /\ k \in DOMAIN arrays /\ conf' = conf
        /\ arrays' = [arrays EXCEPT ![k] = Append(arrays[k], n)]
    BY <1>1, <1>2, <1>7 DEF Push
  <2>2. Append(arrays[k], n) \in Seq(1..n)
    BY <1>3, <1>4, <2>1
  <2> HIDE DEF k
  <2>3. /\ arrays' \in Seq(Seq(1..n)) /\ DOMAIN arrays' = DOMAIN arrays
        /\ arrays'[k] = Append(arrays[k], n)
        /\ \A j \in DOMAIN arrays : j # k => arrays'[j] = arrays[j]
    BY <1>1, <1>4, <2>1, <2>2
  <2>4. arrays'[conf[cur].confs] = Append(Array(cur), n)
    BY <2>1, <2>3 DEF Array, k
  <2> QED BY <1>1, <1>2, <1>7, <1>5, <2>1, <2>3, <2>4 DEF k
<1> QED BY <1>6, <1>7

(* A metric directive keeps the invariant, accepted or refused.            *)
LEMMA MetricInv == ASSUME Inv, NEW items \in MetricArgs, MetricDirective(items) PROVE Inv'
<1>0. TypeInv /\ PhaseInv /\ FileInv /\ phase = "parse" /\ Write("metric", items) /\ Directive
  BY DEF Inv, MetricDirective, Directive
<1>1. CASE Refuse
  BY <1>0, <1>1, RefuseInv
<1>2. CASE ~Refuse
  <2> DEFINE o == Len(written')
             m == Metric(Parsed(items), o)
             n == Len(metrics')
             own == conf[cur].confs
  <2>1. Push(m) /\ UNCHANGED <<module, phase, cur, servers, merged, now, call, calls, made>>
    BY <1>2 DEF MetricDirective
  <2>2. /\ written' \in Seq(WrittenSet) /\ o \in Nat /\ o \notin DOMAIN written
        /\ DOMAIN written' = DOMAIN written \cup {o}
        /\ \A i \in DOMAIN written : written'[i] = written[i]
        /\ written'[o] = [block |-> cur, kind |-> "metric", arg |-> items]
        /\ \A b : /\ Has(b, "metric")' <=> Has(b, "metric") \/ b = cur
                  /\ Has(b, "server")' <=> Has(b, "server")
    <3>1. /\ written' \in Seq(WrittenSet)
          /\ Len(written) \in Nat /\ Len(written') = Len(written) + 1 /\ Len(written') \notin DOMAIN written
          /\ DOMAIN written' = DOMAIN written \cup {Len(written')}
          /\ \A i \in DOMAIN written : written'[i] = written[i]
          /\ written'[Len(written')] = [block |-> cur, kind |-> "metric", arg |-> items]
          /\ \A b, k : Has(b, k)' <=> Has(b, k) \/ (b = cur /\ k = "metric")
      BY <1>0, Written
    <3> QED BY <3>1
  <2>3. written'[o].block = cur /\ written'[o].kind = "metric" /\ written'[o].arg = items
    BY <2>2
  <2>4. /\ m \in MetricSet /\ m.origin = o /\ m.timeout = Parsed(items).timeout /\ m.timeout \in Nat
        /\ m.last = 0
    <3>1. \A d \in BOOLEAN : \A t \in Nat :
            [refs |-> Parsed(items).refs, exists |-> Parsed(items).exists,
             keys |-> Parsed(items).keys, timeout |-> Parsed(items).timeout,
             phase |-> Parsed(items).phase, disable |-> d, last |-> t, origin |-> o] \in MetricSet
      BY <2>2 DEF MetricSet
    <3>2. FALSE \in BOOLEAN /\ 0 \in Nat
      OBVIOUS
    <3>3. m \in MetricSet
      BY <3>1, <3>2, Zenon DEF Metric
    <3> QED BY <3>3, ParsedFacts DEF Metric
  <2> HIDE DEF m, o
  <2>5. /\ metrics' \in Seq(MetricSet) /\ metrics' # <<>> /\ n \notin DOMAIN metrics
        /\ DOMAIN metrics' = DOMAIN metrics \cup {n} /\ metrics'[n] = m
        /\ \A i \in DOMAIN metrics : metrics'[i] = metrics[i]
        /\ arrays' \in Seq(Seq(DOMAIN metrics'))
        /\ DOMAIN conf' = DOMAIN conf
        /\ conf' \in [DOMAIN conf -> [confs : {Null} \cup DOMAIN arrays',
                                      server : {Unset, Null} \cup DOMAIN servers,
                                      enable : {Unset, 0, 1}]]
        /\ \A b \in DOMAIN conf : /\ conf'[b].server = conf[b].server /\ conf'[b].enable = conf[b].enable
                                  /\ b # cur => conf'[b] = conf[b]
        /\ conf'[cur].confs # Null
    BY <1>0, <2>1, <2>4, PushEffect
  <2>6. /\ own = Null => conf'[cur].confs \notin DOMAIN arrays /\ arrays'[conf'[cur].confs] = <<n>>
        /\ own # Null => conf' = conf /\ arrays'[own] = Append(Array(cur), n)
        /\ \A k \in DOMAIN arrays : k # own => arrays'[k] = arrays[k]
    BY <1>0, <2>1, <2>4, PushEffect
  <2> HIDE DEF n
  <2>7. cur \in DOMAIN conf /\ Main \in DOMAIN conf /\ merged = {Main} /\ DOMAIN made = {} /\ ~Running'
    BY <1>0, <2>1 DEF TypeInv, PhaseInv, Running
  <2>8. TypeInv'
    BY <1>0, <2>1, <2>2, <2>3, <2>5, <2>7 DEF TypeInv, Blocks
  <2>9. PhaseInv' /\ MadeInv'
    BY <1>0, <2>1, <2>7 DEF PhaseInv, Running, MadeInv
  <2>10. OriginInv'
    <3>1. \A i \in DOMAIN metrics : metrics[i].origin \in DOMAIN written'
      BY <1>0, <2>2 DEF FileInv, OriginInv
    <3> SUFFICES ASSUME NEW i \in DOMAIN metrics'
                 PROVE  LET p == metrics'[i].origin IN
                          /\ p \in DOMAIN written' /\ written'[p].kind = "metric"
                          /\ metrics'[i].timeout = Parsed(written'[p].arg).timeout
                          /\ metrics'[i].timeout \in Nat
                          /\ metrics'[i].last \in 0..now
      BY <2>1 DEF OriginInv
    <3>2. CASE i \in DOMAIN metrics
      BY <1>0, <2>2, <2>5, <3>1, <3>2 DEF FileInv, OriginInv
    <3>3. CASE i = n
      BY <1>0, <2>2, <2>3, <2>4, <2>5, <3>3 DEF TypeInv
    <3> QED BY <2>5, <3>2, <3>3
  <2>11. ReadyInv'
    BY <2>5, <2>7 DEF ReadyInv
  <2>12. BlockInv'
    BY <1>0, <2>1, <2>2, <2>5, <2>7 DEF FileInv, BlockInv
  <2>13. HttpInv'
    BY <1>0, <2>1, <2>4, <2>5, <2>2 DEF FileInv, HttpInv, OriginInv
  <2>14. StreamInv'
    <3> SUFFICES ASSUME module = "stream" PROVE Shares' /\ Apart' /\ \A b \in DOMAIN conf : OneEach(b)'
      BY <2>1, <2>5 DEF StreamInv
    <3>0. Shares /\ Apart /\ (\A b \in DOMAIN conf : OneEach(b)) /\ OriginInv /\ BlockInv
      BY <1>0 DEF FileInv, StreamInv
    <3>1. Shares'
      BY <2>2, <2>5, <2>6, <2>7, <3>0 DEF Shares
    <3>2. own # Null => Has(cur, "metric")
      BY <2>7, <3>0 DEF BlockInv
    <3>3. \A b \in DOMAIN conf : b # cur /\ conf[b].confs # Null => conf[b].confs # own
      <4> SUFFICES ASSUME NEW b \in DOMAIN conf, b # cur, conf[b].confs # Null, conf[b].confs = own
                   PROVE  FALSE
        OBVIOUS
      <4>1. Has(b, "metric")
        BY <2>7, <3>0 DEF BlockInv
      <4> QED BY <2>7, <3>0, <3>2, <4>1 DEF Apart
    <3>4. Apart'
      <4> SUFFICES ASSUME NEW a \in DOMAIN conf, NEW b \in DOMAIN conf, a # b,
                          conf'[a].confs = conf'[b].confs, conf'[a].confs # Null
                   PROVE  ~Has(a, "metric")' \/ a = Main
        BY <2>5 DEF Apart
      <4>1. \A x \in DOMAIN conf : conf[x].confs # Null => conf[x].confs \in DOMAIN arrays
        BY <1>0 DEF TypeInv
      <4>2. a # cur /\ b # cur
        BY <2>5, <2>6, <2>7, <3>3, <4>1
      <4> QED BY <2>2, <2>5, <3>0, <4>2 DEF Apart
    <3>5. \A i \in DOMAIN metrics :
            metrics'[i].origin = metrics[i].origin /\ written'[metrics'[i].origin].block = Block(i)
      BY <2>2, <2>5, <3>0 DEF OriginInv, Block
    <3>6. ASSUME NEW b \in DOMAIN conf, b # cur PROVE OneEach(b)'
      <4>1. /\ conf'[b].confs = conf[b].confs /\ merged' = merged
            /\ conf[b].confs # Null => arrays'[conf[b].confs] = arrays[conf[b].confs]
        BY <1>0, <2>1, <2>5, <2>6, <3>3, <3>6 DEF TypeInv
      <4> QED BY <1>0, <3>0, <3>5, <4>1, SameArray
    <3>7. ASSUME NEW b \in DOMAIN conf, b = cur PROVE OneEach(b)'
      <4> DEFINE q == Array(b)
                 r == arrays'[conf'[b].confs]
      <4>1. /\ own # Null => /\ q \in Seq(DOMAIN metrics) /\ r = Append(q, n)
                             /\ \A x \in DOMAIN q : q[x] \in DOMAIN metrics
            /\ own = Null => r = <<n>>
        BY <1>0, <2>6, <2>7, <3>7, ArrayType
      <4>2. /\ own # Null => OneEach(b)
            /\ own # Null => \A x \in DOMAIN q : \/ written[metrics[q[x]].origin].block = b
                                                 \/ b \in merged /\ written[metrics[q[x]].origin].block = Main
            /\ own # Null => \A x, y \in DOMAIN q :
                               metrics[q[x]].origin = metrics[q[y]].origin => x = y
        BY <3>0, <3>7 DEF OneEach, Block
      <4> HIDE DEF q, r
      <4>3. \A x \in DOMAIN r : \/ r[x] = n /\ x = (IF own = Null THEN 1 ELSE Len(q) + 1)
                                \/ own # Null /\ x \in DOMAIN q /\ r[x] = q[x] /\ r[x] \in DOMAIN metrics
        <5>1. CASE own = Null
          BY <4>1, <5>1
        <5>2. CASE own # Null
          <6>1. q \in Seq(DOMAIN metrics) /\ r = Append(q, n)
            BY <4>1, <5>2
          <6>2. Len(q) \in Nat /\ DOMAIN q = 1..Len(q) /\ DOMAIN r = 1..(Len(q) + 1) /\ r[Len(q)+1] = n
                /\ \A x \in DOMAIN q : r[x] = q[x]
            BY <6>1
          <6> QED BY <4>1, <5>2, <6>2
        <5> QED BY <5>1, <5>2
      <4>4. /\ metrics'[n].origin = o /\ written'[o].block = b
            /\ \A i \in DOMAIN metrics : metrics'[i].origin \in DOMAIN written /\ metrics'[i].origin # o
        BY <2>2, <2>3, <2>4, <2>5, <3>0, <3>7 DEF OriginInv
      <4>5. \A x \in DOMAIN r : \/ written'[metrics'[r[x]].origin].block = b
                                \/ b \in merged' /\ written'[metrics'[r[x]].origin].block = Main
        BY <2>1, <2>2, <2>5, <4>1, <4>2, <4>3, <4>4
      <4>6. \A x, y \in DOMAIN r : metrics'[r[x]].origin = metrics'[r[y]].origin => x = y
        BY <2>5, <4>1, <4>2, <4>3, <4>4
      <4> QED BY <4>5, <4>6 DEF OneEach, Array, Block, r
    <3> QED BY <3>1, <3>4, <3>6, <3>7
  <2> QED BY <2>8, <2>9, <2>10, <2>11, <2>12, <2>13, <2>14, <2>1 DEF Inv, FileInv
<1> QED BY <1>1, <1>2

----------------------------------------------------------------------------
(* Merging *)

(* A merged block keeps its array, or takes that of the block around it;   *)
(* afterwards its server is set or absent.                                 *)
LEMMA MergeEffect ==
  ASSUME TypeInv, NEW b \in Inner, Merge(b)
  PROVE  /\ b \in DOMAIN conf /\ b \notin merged /\ b # Main /\ Parent[b] \in DOMAIN conf /\ Parent[b] \in merged
         /\ module = "stream" => Parent[b] = Main
         /\ DOMAIN conf' = DOMAIN conf /\ \A x \in DOMAIN conf : x # b => conf'[x] = conf[x]
         /\ conf'[b].confs = IF conf[b].confs = Null THEN conf[Parent[b]].confs ELSE conf[b].confs
         /\ conf'[b].server # Unset
         /\ conf' \in [DOMAIN conf -> [confs : {Null} \cup DOMAIN arrays,
                                       server : {Unset, Null} \cup DOMAIN servers,
                                       enable : {Unset, 0, 1}]]
<1> DEFINE c == conf[b]
           p == conf[Parent[b]]
<1>1. /\ b \in DOMAIN conf /\ b \notin merged /\ b # Main /\ Parent[b] \in DOMAIN conf /\ Parent[b] \in merged
      /\ conf' = [conf EXCEPT ![b] = MergeConf(c, p)]
  BY DEF Merge, TypeInv
<1>2. module = "stream" => Parent[b] = Main
  BY <1>1 DEF TypeInv, Blocks
<1>3. conf \in [DOMAIN conf -> [confs : {Null} \cup DOMAIN arrays,
                                server : {Unset, Null} \cup DOMAIN servers,
                                enable : {Unset, 0, 1}]]
  BY DEF TypeInv
<1>4. /\ c \in [confs : {Null} \cup DOMAIN arrays, server : {Unset, Null} \cup DOMAIN servers,
                enable : {Unset, 0, 1}]
      /\ p \in [confs : {Null} \cup DOMAIN arrays, server : {Unset, Null} \cup DOMAIN servers,
                enable : {Unset, 0, 1}]
  BY <1>1, <1>3
<1> DEFINE m == MergeConf(c, p)
<1>5. /\ m \in [confs : {Null} \cup DOMAIN arrays, server : {Unset, Null} \cup DOMAIN servers,
                enable : {Unset, 0, 1}]
      /\ m.server # Unset
      /\ m.confs = IF c.confs = Null THEN p.confs ELSE c.confs
  <2> HIDE DEF c, p
  <2> QED BY <1>4 DEF MergeConf, MergeValue, Unset, Null
<1> HIDE DEF m
<1>6. conf' = [conf EXCEPT ![b] = m]
  BY <1>1 DEF m
<1> QED BY <1>1, <1>2, <1>3, <1>5, <1>6

(* The places and the metrics that a merge adds                            *)
LEMMA HttpMergeEffect ==
  ASSUME TypeInv, NEW b \in Inner, Merge(b), module = "http"
  PROVE  metrics' = metrics /\ arrays' \in Seq(Seq(DOMAIN metrics)) /\ DOMAIN arrays' = DOMAIN arrays
<1> DEFINE c == conf[b].confs
           p == conf[Parent[b]].confs
<1>1. CASE p = Null \/ c = Null
  BY <1>1 DEF Merge, TypeInv
<1>2. CASE p # Null /\ c # Null
  <2>1. metrics' = metrics /\ arrays' = [arrays EXCEPT ![c] = arrays[c] \o arrays[p]]
    BY <1>2 DEF Merge, HttpMerge
  <2>2. c \in DOMAIN arrays /\ p \in DOMAIN arrays
    BY <1>2, MergeEffect DEF TypeInv
  <2> HIDE DEF c, p
  <2> DEFINE S == Seq(DOMAIN metrics)
  <2>3. arrays[c] \in S /\ arrays[p] \in S
    BY <2>2 DEF TypeInv
  <2>4. arrays[c] \o arrays[p] \in S
    BY <2>3
  <2>5. arrays \in Seq(S)
    BY DEF TypeInv
  <2> HIDE DEF S
  <2>6. arrays' \in Seq(S) /\ DOMAIN arrays' = DOMAIN arrays
    BY <2>1, <2>2, <2>4, <2>5
  <2> QED BY <2>1, <2>6 DEF S
<1> QED BY <1>1, <1>2

(* What the stream module's merge does to the array of its block           *)
LEMMA StreamMergeEffect ==
  ASSUME TypeInv, NEW b \in Inner, Merge(b), module = "stream"
  PROVE  LET c == conf[b].confs
             p == conf[Main].confs
         IN \/ (p = Null \/ c = Null) /\ arrays' = arrays /\ metrics' = metrics
            \/ /\ c \in DOMAIN arrays /\ p \in DOMAIN arrays
               /\ metrics' \in Seq(MetricSet) /\ Len(metrics') = Len(metrics) + Len(arrays[p])
               /\ \A i \in DOMAIN metrics : metrics'[i] = metrics[i]
               /\ \A i \in DOMAIN arrays[p] : metrics'[Len(metrics)+i] = metrics[arrays[p][i]]
               /\ arrays' \in Seq(Seq(DOMAIN metrics')) /\ DOMAIN arrays' = DOMAIN arrays
               /\ \A k \in DOMAIN arrays : k # c => arrays'[k] = arrays[k]
               /\ Len(arrays'[c]) = Len(arrays[c]) + Len(arrays[p])
               /\ \A x \in DOMAIN arrays[c] : arrays'[c][x] = arrays[c][x]
               /\ \A x \in DOMAIN arrays[p] : arrays'[c][Len(arrays[c])+x] = Len(metrics) + x
<1> DEFINE c == conf[b].confs
           p == conf[Main].confs
           k == Len(metrics)
<1>1. Parent[b] = Main /\ b \in DOMAIN conf /\ Main \in DOMAIN conf
  BY MergeEffect
<1>2. CASE p = Null \/ c = Null
  BY <1>1, <1>2 DEF Merge
<1>3. CASE p # Null /\ c # Null
  <2> DEFINE q == arrays[p]
             r == arrays[c]
             copies == [i \in DOMAIN q |-> metrics[q[i]]]
             places == [i \in DOMAIN q |-> k + i]
  <2>1. metrics' = metrics \o copies /\ arrays' = [arrays EXCEPT ![c] = r \o places]
    BY <1>1, <1>3 DEF Merge, StreamMerge
  <2>2. c \in DOMAIN arrays /\ p \in DOMAIN arrays
    BY <1>1, <1>3 DEF TypeInv
  <2>3. /\ q \in Seq(DOMAIN metrics) /\ r \in Seq(DOMAIN metrics) /\ metrics \in Seq(MetricSet)
        /\ k \in Nat /\ DOMAIN metrics = 1..k
        /\ arrays \in Seq(Seq(DOMAIN metrics))
    BY <2>2 DEF TypeInv
  <2> HIDE DEF c, p, q, r, k
  <2> DEFINE n == Len(q)
             S == 1..(k + n)
  <2>4. n \in Nat /\ DOMAIN q = 1..n /\ \A i \in 1..n : q[i] \in DOMAIN metrics /\ k + i \in S
    BY <2>3
  <2>5. copies \in Seq(MetricSet) /\ Len(copies) = n
    BY <2>3, <2>4
  <2>6. places \in Seq(S) /\ Len(places) = n
    BY <2>4
  <2>7. \A j \in 1..k : j \in S
    BY <2>3, <2>4
  <2>8. metrics' \in Seq(MetricSet) /\ Len(metrics') = k + n /\ DOMAIN metrics' = S
    <3> HIDE DEF copies, n
    <3>1. metrics \o copies \in Seq(MetricSet)
      BY <2>3, <2>5
    <3>2. Len(metrics \o copies) = Len(metrics) + Len(copies)
      BY <2>3, <2>5, ConcatProperties
    <3>3. metrics' \in Seq(MetricSet) /\ Len(metrics') = k + n
      BY <2>1, <2>5, <3>1, <3>2 DEF k
    <3> QED BY <3>3
  <2>9. \A i \in DOMAIN metrics : metrics'[i] = metrics[i]
    BY <2>1, <2>3, <2>5 DEF k
  <2>10. \A i \in DOMAIN q : metrics'[k + i] = metrics[q[i]]
    BY <2>1, <2>3, <2>4, <2>5 DEF k
  <2> HIDE DEF S
  <2>11. \A s \in Seq(DOMAIN metrics) : s \in Seq(S)
    BY <2>3, <2>7
  <2>12. arrays \in Seq(Seq(S)) /\ r \in Seq(S)
    <3> DEFINE A == Seq(DOMAIN metrics)
               B == Seq(S)
    <3>1. arrays \in Seq(A) /\ r \in A /\ \A s \in A : s \in B
      BY <2>3, <2>11
    <3> HIDE DEF A, B
    <3>2. arrays \in Seq(B) /\ r \in B
      BY <3>1
    <3> QED BY <3>2 DEF B
  <2> HIDE DEF places, copies, n
  <2>13. r \o places \in Seq(S) /\ Len(r \o places) = Len(r) + n
         /\ \A x \in DOMAIN r : (r \o places)[x] = r[x]
    <3>1. r \o places \in Seq(S)
      BY <2>6, <2>12
    <3>2. Len(r \o places) = Len(r) + Len(places)
      BY <2>6, <2>12, ConcatProperties
    <3>3. \A x \in DOMAIN r : (r \o places)[x] = r[x]
      BY <2>6, <2>12
    <3> QED BY <2>6, <3>1, <3>2, <3>3
  <2>14. \A x \in 1..n : (r \o places)[Len(r) + x] = k + x
    <3>1. \A x \in 1..n : (r \o places)[Len(r) + x] = places[x]
      BY <2>4, <2>6, <2>12
    <3> QED BY <2>4, <3>1 DEF places
  <2>15. arrays' \in Seq(Seq(S)) /\ DOMAIN arrays' = DOMAIN arrays /\ arrays'[c] = r \o places
         /\ \A j \in DOMAIN arrays : j # c => arrays'[j] = arrays[j]
    <3> DEFINE B == Seq(S)
               s == r \o places
    <3>1. arrays \in Seq(B) /\ s \in B /\ arrays' = [arrays EXCEPT ![c] = s]
      BY <2>1, <2>12, <2>13
    <3> HIDE DEF B, s
    <3>2. arrays' \in Seq(B) /\ DOMAIN arrays' = DOMAIN arrays /\ arrays'[c] = s
          /\ \A j \in DOMAIN arrays : j # c => arrays'[j] = arrays[j]
      BY <2>2, <3>1
    <3> QED BY <3>2 DEF B, s
  <2> QED BY <2>2, <2>4, <2>8, <2>9, <2>10, <2>13, <2>14, <2>15 DEF c, p, q, r, k, n
<1> QED BY <1>2, <1>3

(* A merge keeps the invariant.                                            *)
LEMMA MergeInv == ASSUME Inv, NEW b \in Inner, Merge(b) PROVE Inv'
<1> DEFINE par == Parent[b]
           c == conf[b].confs
           p == conf[Main].confs
           k == Len(metrics)
<1>0. /\ TypeInv /\ PhaseInv /\ FileInv /\ phase = "merge" /\ merged' = merged \cup {b}
      /\ UNCHANGED <<module, phase, cur, servers, now, call, calls, written, made>>
  BY DEF Inv, Merge
<1>1. /\ b \in DOMAIN conf /\ b \notin merged /\ b # Main /\ par \in DOMAIN conf /\ par \in merged
      /\ module = "stream" => par = Main
      /\ DOMAIN conf' = DOMAIN conf /\ \A x \in DOMAIN conf : x # b => conf'[x] = conf[x]
      /\ conf'[b].confs = IF c = Null THEN conf[par].confs ELSE c
      /\ conf'[b].server # Unset
      /\ conf' \in [DOMAIN conf -> [confs : {Null} \cup DOMAIN arrays,
                                    server : {Unset, Null} \cup DOMAIN servers,
                                    enable : {Unset, 0, 1}]]
  BY <1>0, MergeEffect
<1> HIDE DEF par
<1>2. Main \in DOMAIN conf /\ Main \in merged /\ DOMAIN made = {} /\ ~Running /\ ~Running'
  BY <1>0 DEF TypeInv, PhaseInv, Running
<1>3. k \in Nat /\ DOMAIN metrics = 1..k /\ metrics \in Seq(MetricSet)
  BY <1>0 DEF TypeInv
<1>4. p # Null => /\ p \in DOMAIN arrays /\ arrays[p] \in Seq(DOMAIN metrics)
                  /\ \A i \in DOMAIN arrays[p] : arrays[p][i] \in DOMAIN metrics
  BY <1>0, <1>2, ArrayType DEF Array
<1>5. c # Null => /\ c \in DOMAIN arrays /\ arrays[c] \in Seq(DOMAIN metrics)
                  /\ \A i \in DOMAIN arrays[c] : arrays[c][i] \in DOMAIN metrics
  BY <1>0, <1>1, ArrayType DEF Array
<1>6. /\ metrics' \in Seq(MetricSet) /\ arrays' \in Seq(Seq(DOMAIN metrics')) /\ DOMAIN arrays' = DOMAIN arrays
      /\ \A i \in DOMAIN metrics : i \in DOMAIN metrics' /\ metrics'[i] = metrics[i]
      /\ \A j \in DOMAIN metrics' : \E i \in DOMAIN metrics : metrics'[j] = metrics[i]
      /\ metrics' = <<>> => metrics = <<>>
      /\ module = "http" => metrics' = metrics
  <2>1. CASE module = "http"
    BY <1>0, <1>3, <2>1, HttpMergeEffect
  <2>2. CASE module = "stream"
    <3>1. CASE arrays' = arrays /\ metrics' = metrics
      BY <1>0, <1>3, <3>1, <2>2 DEF TypeInv
    <3>2. CASE ~(arrays' = arrays /\ metrics' = metrics)
      <4>1. /\ metrics' \in Seq(MetricSet) /\ Len(metrics') = k + Len(arrays[p])
            /\ \A i \in DOMAIN metrics : metrics'[i] = metrics[i]
            /\ \A i \in DOMAIN arrays[p] : metrics'[k+i] = metrics[arrays[p][i]]
            /\ arrays' \in Seq(Seq(DOMAIN metrics')) /\ DOMAIN arrays' = DOMAIN arrays
            /\ p \in DOMAIN arrays
        BY <1>0, <2>2, <3>2, StreamMergeEffect
      <4>2. p # Null
        BY <1>0, <4>1 DEF TypeInv, Null
      <4> DEFINE n == Len(arrays[p])
      <4>3. n \in Nat /\ DOMAIN arrays[p] = 1..n /\ DOMAIN metrics' = 1..(k+n)
        BY <1>4, <4>1, <4>2
      <4> HIDE DEF n, k, p
      <4>4. ASSUME NEW j \in DOMAIN metrics' PROVE \E i \in DOMAIN metrics : metrics'[j] = metrics[i]
        <5>1. CASE j \in 1..k
          BY <1>3, <4>1, <5>1
        <5>2. CASE j \notin 1..k
          <6>1. j - k \in 1..n /\ k + (j - k) = j
            BY <1>3, <4>3, <5>2
          <6> QED BY <1>4, <4>1, <4>2, <4>3, <6>1
        <5> QED BY <5>1, <5>2
      <4>5. \A i \in DOMAIN metrics : i \in DOMAIN metrics'
        BY <1>3, <4>3
      <4>6. metrics' = <<>> => metrics = <<>>
        BY <1>3, <4>1, <4>3 DEF n, k
      <4> QED BY <2>2, <4>1, <4>4, <4>5, <4>6
    <3> QED BY <3>1, <3>2
  <2> QED BY <1>0, <2>1, <2>2 DEF TypeInv
<1> HIDE DEF c, p, k
<1>7. TypeInv'
  BY <1>0, <1>1, <1>2, <1>6 DEF TypeInv, Blocks
<1>8. PhaseInv' /\ MadeInv'
  BY <1>0, <1>2 DEF PhaseInv, MadeInv, Running
<1>9. OriginInv'
  BY <1>0, <1>6 DEF FileInv, OriginInv
<1>10. ReadyInv' /\ HttpInv'
  BY <1>0, <1>2, <1>6 DEF FileInv, ReadyInv, HttpInv, NoMetric
<1>11. BlockInv'
  BY <1>0, <1>1, <1>2 DEF FileInv, BlockInv, Has, c, Null
<1>12. StreamInv'
  <2> SUFFICES ASSUME module = "stream" PROVE Shares' /\ Apart' /\ \A x \in DOMAIN conf : OneEach(x)'
    BY <1>0, <1>1 DEF StreamInv
  <2>0. /\ Shares /\ Apart /\ (\A x \in DOMAIN conf : OneEach(x)) /\ OriginInv /\ BlockInv
        /\ par = Main /\ conf[par].confs = p
        /\ \A x : Has(x, "metric")' <=> Has(x, "metric")
    BY <1>0, <1>1 DEF FileInv, StreamInv, Has, p
  <2>1. Shares'
    BY <1>1, <1>2, <2>0 DEF Shares, c, p
  <2>2. Has(b, "metric") <=> c # Null
    BY <1>1, <1>2, <2>0 DEF BlockInv, c
  <2>3. Apart'
    <3> SUFFICES ASSUME NEW x \in DOMAIN conf, NEW y \in DOMAIN conf, x # y,
                        conf'[x].confs = conf'[y].confs, conf'[x].confs # Null
                 PROVE  ~Has(x, "metric") \/ x = Main
      BY <1>1, <2>0 DEF Apart
    <3>1. CASE x # b /\ y # b
      BY <1>1, <2>0, <3>1 DEF Apart
    <3>2. CASE x = b
      BY <1>1, <2>0, <2>2, <3>2 DEF Apart, c
    <3>3. CASE y = b
      BY <1>1, <1>2, <2>0, <3>3 DEF Apart, c, p
    <3> QED BY <3>1, <3>2, <3>3
  <2>4. \A i \in DOMAIN metrics :
          metrics'[i].origin = metrics[i].origin /\ written'[metrics'[i].origin].block = Block(i)
    BY <1>0, <1>6 DEF Block
  <2>5. \A j \in DOMAIN arrays : j # c => arrays'[j] = arrays[j]
    BY <1>0, StreamMergeEffect DEF c
  <2>6. ASSUME NEW x \in DOMAIN conf, x # b PROVE OneEach(x)'
    <3>1. conf[x].confs # Null => conf[x].confs \in DOMAIN arrays
      BY <1>0 DEF TypeInv
    <3>2. conf[x].confs # Null => conf[x].confs # c
      BY <1>1, <2>0, <2>2, <2>6 DEF Apart, c
    <3> QED BY <1>0, <1>1, <2>0, <2>4, <2>5, <2>6, <3>1, <3>2, SameArray
  <2>7. OneEach(b)'
    <3> DEFINE q == arrays[p]
               r == arrays[c]
               s == arrays'[conf'[b].confs]
    <3>1. p # Null =>
            /\ \A x \in DOMAIN q : written[metrics[q[x]].origin].block = Main
            /\ \A x, y \in DOMAIN q : metrics[q[x]].origin = metrics[q[y]].origin => x = y
      BY <1>2, <2>0 DEF OneEach, Array, Block, p
    <3>2. c # Null =>
            /\ \A x \in DOMAIN r : written[metrics[r[x]].origin].block = b
            /\ \A x, y \in DOMAIN r : metrics[r[x]].origin = metrics[r[y]].origin => x = y
      BY <1>1, <2>0 DEF OneEach, Array, Block, c
    <3> HIDE DEF q, r, s
    <3> SUFFICES ASSUME conf'[b].confs # Null
                 PROVE  /\ \A x \in DOMAIN s : written'[metrics'[s[x]].origin].block \in {b, Main}
                        /\ \A x, y \in DOMAIN s : metrics'[s[x]].origin = metrics'[s[y]].origin => x = y
      <4>1. b \in merged'
        BY <1>0
      <4> QED BY <4>1 DEF OneEach, Array, Block, s
    <3>3. CASE c = Null
      <4>1. conf'[b].confs = p /\ p # Null
        BY <1>1, <2>0, <3>3
      <4>2. s = q /\ \A x \in DOMAIN q : q[x] \in DOMAIN metrics
        BY <1>4, <2>5, <3>3, <4>1 DEF s, q
      <4> QED BY <1>0, <1>6, <3>1, <4>1, <4>2
    <3>4. CASE c # Null /\ arrays' = arrays
      <4>1. s = r /\ \A x \in DOMAIN r : r[x] \in DOMAIN metrics
        BY <1>1, <1>5, <3>4 DEF s, r
      <4> QED BY <1>0, <1>6, <3>2, <3>4, <4>1
    <3>5. CASE c # Null /\ arrays' # arrays
      <4>1. /\ p \in DOMAIN arrays
            /\ \A i \in DOMAIN q : metrics'[k+i] = metrics[q[i]]
            /\ Len(s) = Len(r) + Len(q)
            /\ \A x \in DOMAIN r : s[x] = r[x]
            /\ \A x \in DOMAIN q : s[Len(r)+x] = k + x
            /\ s \in Seq(DOMAIN metrics')
        <5>1. conf'[b].confs = c
          BY <1>1, <3>5
        <5>2. arrays'[c] \in Seq(DOMAIN metrics')
          BY <1>5, <1>6, <3>5
        <5> QED BY <1>0, <3>5, <5>1, <5>2, StreamMergeEffect DEF s, r, q, c, p, k
      <4>2. p # Null
        BY <1>0, <4>1 DEF TypeInv, Null
      <4>3. /\ Len(q) \in Nat /\ DOMAIN q = 1..Len(q) /\ \A x \in DOMAIN q : q[x] \in DOMAIN metrics
            /\ Len(r) \in Nat /\ DOMAIN r = 1..Len(r) /\ \A x \in DOMAIN r : r[x] \in DOMAIN metrics
        BY <1>4, <1>5, <3>5, <4>2 DEF q, r
      <4>4. DOMAIN s = 1..(Len(r) + Len(q))
        BY <4>1
      <4>5. \A x \in DOMAIN s :
              \/ x \in DOMAIN r /\ metrics'[s[x]] = metrics[r[x]]
              \/ x \notin DOMAIN r /\ x - Len(r) \in DOMAIN q /\ metrics'[s[x]] = metrics[q[x - Len(r)]]
        <5> SUFFICES ASSUME NEW x \in DOMAIN s
                     PROVE  \/ x \in DOMAIN r /\ metrics'[s[x]] = metrics[r[x]]
                            \/ /\ x \notin DOMAIN r /\ x - Len(r) \in DOMAIN q
                               /\ metrics'[s[x]] = metrics[q[x - Len(r)]]
          OBVIOUS
        <5>1. CASE x \in DOMAIN r
          BY <1>6, <4>1, <4>3, <5>1
        <5>2. CASE x \notin DOMAIN r
          <6>1. x - Len(r) \in DOMAIN q /\ Len(r) + (x - Len(r)) = x
            BY <4>3, <4>4, <5>2
          <6>2. s[x] = k + (x - Len(r))
            BY <4>1, <6>1
          <6> QED BY <4>1, <5>2, <6>1, <6>2
        <5> QED BY <5>1, <5>2
      <4>6. \A x \in DOMAIN s : written[metrics'[s[x]].origin].block = IF x \in DOMAIN r THEN b ELSE Main
        BY <3>1, <3>2, <3>5, <4>2, <4>5
      <4>7. \A x, y \in DOMAIN s : metrics'[s[x]].origin = metrics'[s[y]].origin => x = y
        <5> SUFFICES ASSUME NEW x \in DOMAIN s, NEW y \in DOMAIN s,
                            metrics'[s[x]].origin = metrics'[s[y]].origin
                     PROVE  x = y
          OBVIOUS
        <5>1. x \in DOMAIN r <=> y \in DOMAIN r
          BY <1>1, <4>6
        <5>2. CASE x \in DOMAIN r
          BY <3>2, <3>5, <4>5, <5>1, <5>2
        <5>3. CASE x \notin DOMAIN r
          <6>1. x - Len(r) = y - Len(r)
            BY <3>1, <4>2, <4>5, <5>1, <5>3
          <6> QED BY <4>3, <4>4, <6>1
        <5> QED BY <5>2, <5>3
      <4> QED BY <1>0, <4>6, <4>7
    <3> QED BY <3>3, <3>4, <3>5
  <2> QED BY <2>1, <2>3, <2>6, <2>7
<1> QED BY <1>0, <1>7, <1>8, <1>9, <1>10, <1>11, <1>12 DEF Inv, FileInv

----------------------------------------------------------------------------
(* From the end of the configuration on the file, the blocks and their     *)
(* arrays stay as they are.                                                *)

(* A step that keeps them, and every metric but for `disable' and `last'   *)
LEMMA Settled ==
  ASSUME TypeInv, FileInv, phase' \in {"merge", "run", "refused", "dead"},
         UNCHANGED <<module, cur, conf, arrays, merged, written>>,
         metrics' \in Seq(MetricSet), DOMAIN metrics' = DOMAIN metrics,
         servers' \in Seq(ServerSet), DOMAIN servers' = DOMAIN servers,
         now' \in Nat \ {0}, calls' \in Nat,
         \A i \in DOMAIN metrics : /\ metrics'[i].origin = metrics[i].origin
                                   /\ metrics'[i].timeout = metrics[i].timeout
                                   /\ metrics'[i].last \in 0..now'
  PROVE  /\ TypeInv' /\ OriginInv' /\ BlockInv' /\ HttpInv' /\ StreamInv'
         /\ metrics' = <<>> => NoMetric'
<1>1. TypeInv'
  BY DEF TypeInv, Blocks
<1>2. OriginInv' /\ HttpInv'
  BY DEF FileInv, OriginInv, HttpInv
<1>3. BlockInv' /\ Shares' = Shares /\ Apart' = Apart
  BY DEF FileInv, BlockInv, Shares, Apart, Has
<1>4. ASSUME module = "stream", NEW b \in DOMAIN conf PROVE OneEach(b)'
  <2>1. OneEach(b)
    BY <1>4 DEF FileInv, StreamInv
  <2>2. \A i \in DOMAIN metrics :
          metrics'[i].origin = metrics[i].origin /\ written'[metrics'[i].origin].block = Block(i)
    BY DEF Block
  <2> QED BY <2>1, <2>2, SameArray
<1>5. metrics' = <<>> => NoMetric'
  BY DEF FileInv, ReadyInv, NoMetric
<1> QED BY <1>1, <1>2, <1>3, <1>4, <1>5 DEF FileInv, StreamInv

(* The end of the configuration keeps the invariant.                       *)
LEMMA StartInv == Inv /\ Start => Inv'
<1> SUFFICES ASSUME Inv, Start PROVE Inv'
  OBVIOUS
<1>0. /\ TypeInv /\ PhaseInv /\ FileInv /\ phase = "merge" /\ merged = DOMAIN conf
      /\ phase' \in {"run", "refused"}
      /\ UNCHANGED <<module, cur, conf, arrays, merged, now, call, calls, written, made>>
  BY DEF Inv, Start
<1>1. metrics \in Seq(MetricSet) /\ servers \in Seq(ServerSet)
  BY <1>0 DEF TypeInv
<1>2. \A i \in DOMAIN metrics : metrics[i].last \in 0..now
  BY <1>0 DEF FileInv, OriginInv
<1>3. /\ metrics' \in Seq(MetricSet) /\ DOMAIN metrics' = DOMAIN metrics
      /\ \A i \in DOMAIN metrics : /\ metrics'[i].origin = metrics[i].origin
                                   /\ metrics'[i].timeout = metrics[i].timeout
                                   /\ metrics'[i].last \in 0..now'
  <2>1. CASE metrics' = metrics
    BY <1>0, <1>1, <1>2, <2>1
  <2>2. CASE metrics' = HttpCompiled.metrics
    <3> DEFINE Off(i) == Disabled(Indexed(SubSeq(metrics, 1, i-1)), metrics[i])
               m(i) == [metrics[i] EXCEPT !.disable = Off(i)]
    <3>1. metrics' = [i \in DOMAIN metrics |-> m(i)]
      BY <2>2 DEF HttpCompiled
    <3>2. \A i : Off(i) \in BOOLEAN
      BY DEF Disabled
    <3> HIDE DEF Off
    <3>3. \A i \in DOMAIN metrics : /\ m(i) \in MetricSet /\ m(i).origin = metrics[i].origin
                                    /\ m(i).timeout = metrics[i].timeout /\ m(i).last = metrics[i].last
      BY <1>1, <3>2, Fields
    <3> HIDE DEF m
    <3> QED BY <1>0, <1>1, <1>2, <3>1, <3>3
  <2> QED BY <2>1, <2>2 DEF Start, StreamCompiled
<1>4. /\ servers' \in Seq(ServerSet) /\ DOMAIN servers' = DOMAIN servers
      /\ Starts => \A i \in DOMAIN servers : servers'[i].ready
  <2>1. CASE ~Starts
    BY <1>1, <2>1 DEF Start
  <2>2. CASE Starts
    <3> DEFINE r(x) == [x EXCEPT !.ready = TRUE]
    <3>1. servers' = [i \in DOMAIN servers |-> r(servers[i])]
      BY <2>2 DEF Start
    <3>2. ASSUME NEW x \in ServerSet PROVE r(x) \in ServerSet /\ r(x).ready
      <4>1. PICK d \in ServerArgs, e \in BOOLEAN : x = [param |-> Param(d), flush |-> d.flush, ready |-> e]
        BY DEF ServerSet
      <4>2. \A t \in BOOLEAN :
              [x EXCEPT !.ready = t] = [param |-> Param(d), flush |-> d.flush, ready |-> t]
        BY <4>1
      <4>3. \A t \in BOOLEAN : [x EXCEPT !.ready = t] \in ServerSet /\ [x EXCEPT !.ready = t].ready = t
        BY <4>2 DEF ServerSet
      <4>4. TRUE \in BOOLEAN
        OBVIOUS
      <4> QED BY <4>3, <4>4, Zenon
    <3> HIDE DEF r
    <3>3. servers' \in Seq(ServerSet) /\ DOMAIN servers' = DOMAIN servers
      BY <1>1, <3>1, <3>2
    <3>4. \A i \in DOMAIN servers : servers'[i].ready
      BY <1>1, <3>1, <3>2
    <3> QED BY <3>3, <3>4
  <2> QED BY <2>1, <2>2
<1>5. /\ TypeInv' /\ OriginInv' /\ BlockInv' /\ HttpInv' /\ StreamInv'
      /\ metrics' = <<>> => NoMetric'
  <2>1. now' \in Nat \ {0} /\ calls' \in Nat
    BY <1>0 DEF TypeInv
  <2> QED BY <1>0, <1>3, <1>4, <2>1, Settled
<1>6. PhaseInv' /\ MadeInv'
  BY <1>0 DEF PhaseInv, MadeInv, Running
<1>7. ReadyInv'
  <2>1. CASE Starts
    BY <1>4, <1>5, <2>1 DEF ReadyInv
  <2>2. CASE servers = <<>>
    BY <1>4, <1>5, <2>2 DEF ReadyInv
  <2>3. CASE module = "http" /\ metrics = <<>>
    BY <1>0, <1>1, <1>3, <1>5, <2>3 DEF ReadyInv
  <2> QED BY <1>0, <2>1, <2>2, <2>3 DEF Starts, HttpStarts, StreamStarts
<1> QED BY <1>0, <1>5, <1>6, <1>7 DEF Inv, FileInv

----------------------------------------------------------------------------
(* Calls *)

(* A call that makes nothing                                               *)
LEMMA QuietInv ==
  ASSUME Inv, NEW kind, NEW b, NEW rc, Call, Return(kind, b, rc, {}), Quiet
  PROVE  Inv'
<1>0. /\ TypeInv /\ PhaseInv /\ FileInv /\ phase = "run" /\ phase' \in {"run", "dead"}
      /\ UNCHANGED <<module, cur, conf, arrays, metrics, servers, merged, now, written, made>>
      /\ call'.rc = "fault" => phase' = "dead"
  BY DEF Inv, Call, Return, Quiet
<1>1. /\ TypeInv' /\ OriginInv' /\ BlockInv' /\ HttpInv' /\ StreamInv'
      /\ metrics' = <<>> => NoMetric'
  <2>1. now' \in Nat \ {0} /\ calls' \in Nat
    BY <1>0 DEF TypeInv, Return
  <2>2. metrics \in Seq(MetricSet) /\ servers \in Seq(ServerSet)
    BY <1>0 DEF TypeInv
  <2>3. \A i \in DOMAIN metrics : metrics[i].last \in 0..now
    BY <1>0 DEF FileInv, OriginInv
  <2> QED BY <1>0, <2>1, <2>2, <2>3, Settled
<1>2. PhaseInv'
  BY <1>0 DEF PhaseInv, Running
<1>3. ReadyInv'
  BY <1>0 DEF FileInv, ReadyInv, Running, NoMetric
<1>4. MadeInv'
  BY <1>0 DEF FileInv, MadeInv, Together, Has, Array
<1> QED BY <1>0, <1>1, <1>2, <1>3, <1>4 DEF Inv, FileInv

(* The clock keeps the invariant.                                          *)
LEMMA ClockInv == Inv /\ Clock => Inv'
<1> SUFFICES ASSUME Inv, Clock PROVE Inv'
  OBVIOUS
<1>0. /\ TypeInv /\ PhaseInv /\ FileInv /\ phase = "run" /\ now' = now + 1
      /\ UNCHANGED <<module, phase, cur, conf, arrays, metrics, servers, merged, call, calls, written, made>>
  BY DEF Inv, Clock
<1>1. /\ TypeInv' /\ OriginInv' /\ BlockInv' /\ HttpInv' /\ StreamInv'
      /\ metrics' = <<>> => NoMetric'
  <2>1. now' \in Nat \ {0} /\ calls' \in Nat
    BY <1>0 DEF TypeInv
  <2>2. metrics \in Seq(MetricSet) /\ servers \in Seq(ServerSet)
    BY <1>0 DEF TypeInv
  <2>3. \A i \in DOMAIN metrics : metrics[i].last \in 0..now'
    BY <1>0 DEF FileInv, OriginInv, TypeInv
  <2> QED BY <1>0, <2>1, <2>2, <2>3, Settled
<1>2. PhaseInv'
  BY <1>0 DEF PhaseInv, Running
<1>3. ReadyInv'
  BY <1>0 DEF FileInv, ReadyInv, Running, NoMetric
<1>4. MadeInv'
  <2>1. \A x \in DOMAIN made : made[x] \in 1..now => made[x] \in 1..now'
    BY <1>0 DEF TypeInv
  <2> QED BY <1>0, <2>1 DEF FileInv, MadeInv, Together, Has, Array
<1> QED BY <1>0, <1>1, <1>2, <1>3, <1>4 DEF Inv, FileInv

(* Two metrics of one directive that blocks with a common timeout have are *)
(* one metric.                                                             *)
LEMMA OneMetric ==
  ASSUME TypeInv, FileInv, NEW a \in DOMAIN conf, NEW b \in DOMAIN conf, Together(a, b),
         conf[a].confs # Null, conf[b].confs # Null,
         NEW x \in DOMAIN Array(a), NEW y \in DOMAIN Array(b),
         metrics[Array(a)[x]].origin = metrics[Array(b)[y]].origin
  PROVE  Array(a)[x] = Array(b)[y]
<1>1. Array(a)[x] \in DOMAIN metrics /\ Array(b)[y] \in DOMAIN metrics
  BY ArrayType
<1>2. CASE module = "http"
  BY <1>1, <1>2 DEF FileInv, HttpInv
<1>3. CASE module = "stream"
  <2>1. Array(a) = Array(b)
    BY <1>3 DEF FileInv, StreamInv, Shares, Together, Array
  <2>2. OneEach(a)
    BY <1>3 DEF FileInv, StreamInv
  <2> QED BY <2>1, <2>2 DEF OneEach
<1> QED BY <1>2, <1>3 DEF TypeInv

(* What a call that is not skipped does                                    *)
Sends(kind, b, ph, holds, picked, sent) ==
  /\ picked = Picked(conf[b], ph) /\ sent = (IF holds THEN {metrics[i].origin : i \in picked} ELSE {})
  /\ conf[b].confs # Null
  /\ metrics' = [i \in DOMAIN metrics |-> IF i \in picked /\ metrics[i].timeout # 0
                                            THEN [metrics[i] EXCEPT !.last = now] ELSE metrics[i]]
  /\ made' = [x \in DOMAIN made \cup (sent \X {b}) |-> IF x \in sent \X {b} THEN now ELSE made[x]]
  /\ Return(kind, b, "sent", sent)

(* What a request sends, and what becomes of the metrics it sends          *)
LEMMA SendCases ==
  ASSUME NEW kind, NEW b, NEW ph, NEW holds \in BOOLEAN, Send(kind, b, ph, holds)
  PROVE  /\ Call
         /\ \/ Return(kind, b, "skipped", {}) /\ Quiet
            \/ /\ Return(kind, b, "fault", {}) /\ Quiet
               /\ conf[b].server # Null /\ conf[b].confs # Null /\ conf[b].enable # 0 /\ Wild(conf[b])
            \/ \E picked, sent : Sends(kind, b, ph, holds, picked, sent)
<1> DEFINE c == conf[b]
           picked == Picked(c, ph)
           sent == IF holds THEN {metrics[i].origin : i \in picked} ELSE {}
<1>1. CASE c.server = Null \/ c.confs = Null \/ c.enable = 0
  BY <1>1 DEF Send
<1>2. CASE ~(c.server = Null \/ c.confs = Null \/ c.enable = 0) /\ Wild(c)
  BY <1>2 DEF Send
<1>3. CASE ~(c.server = Null \/ c.confs = Null \/ c.enable = 0) /\ ~Wild(c)
  <2>1. Call /\ Sends(kind, b, ph, holds, picked, sent)
    BY <1>3 DEF Send, Sends
  <2> QED BY <2>1
<1> QED BY <1>1, <1>2, <1>3

(* A metric of the block that was picked waited for its timeout, whatever  *)
(* other metrics were made.                                                *)
LEMMA PickedFacts ==
  ASSUME TypeInv, NEW b \in DOMAIN conf, NEW kind, NEW ph, NEW holds, NEW picked, NEW sent,
         Sends(kind, b, ph, holds, picked, sent)
  PROVE  /\ picked \subseteq DOMAIN metrics
         /\ \A i \in picked : (\E x \in DOMAIN Array(b) : i = Array(b)[x]) /\ ~TooSoon(metrics[i])
         /\ \A o \in sent : \E i \in picked : o = metrics[i].origin
<1>1. \A i \in picked : (\E x \in DOMAIN Array(b) : i = Array(b)[x]) /\ ~TooSoon(metrics[i])
  BY DEF Sends, Picked, Range, Array
<1>2. \A x \in DOMAIN Array(b) : Array(b)[x] \in DOMAIN metrics
  BY ArrayType DEF Sends
<1>3. picked \subseteq DOMAIN metrics
  BY <1>1, <1>2
<1> QED BY <1>1, <1>3 DEF Sends

(* A request's stats keep the invariant.                                   *)
LEMMA SendsInv ==
  ASSUME Inv, NEW b \in DOMAIN conf, NEW kind, NEW ph, NEW holds, NEW picked, NEW sent, Call,
         Sends(kind, b, ph, holds, picked, sent)
  PROVE  Inv'
<1>0. /\ TypeInv /\ PhaseInv /\ FileInv /\ phase = "run" /\ phase' = "run" /\ call'.rc = "sent"
      /\ UNCHANGED <<module, cur, conf, arrays, servers, merged, now, written>>
      /\ calls' = calls + 1
  BY DEF Inv, Call, Return, Sends
<1>1. /\ metrics \in Seq(MetricSet) /\ servers \in Seq(ServerSet) /\ now \in Nat \ {0} /\ calls' \in Nat
      /\ \A i \in DOMAIN metrics : metrics[i].last \in 0..now
  BY <1>0 DEF FileInv, OriginInv, TypeInv
<1> DEFINE m(i) == [metrics[i] EXCEPT !.last = now]
           hit(i) == i \in picked /\ metrics[i].timeout # 0
<1>2. metrics' = [i \in DOMAIN metrics |-> IF hit(i) THEN m(i) ELSE metrics[i]]
  BY DEF Sends
<1>3. \A i \in DOMAIN metrics : /\ m(i) \in MetricSet /\ m(i).origin = metrics[i].origin
                                /\ m(i).timeout = metrics[i].timeout /\ m(i).last = now
  BY <1>1, Fields
<1> HIDE DEF m, hit
<1>4. /\ metrics' \in Seq(MetricSet) /\ DOMAIN metrics' = DOMAIN metrics
      /\ \A i \in DOMAIN metrics : /\ metrics'[i].origin = metrics[i].origin
                                   /\ metrics'[i].timeout = metrics[i].timeout
                                   /\ metrics'[i].last = IF hit(i) THEN now ELSE metrics[i].last
  BY <1>1, <1>2, <1>3
<1>5. \A i \in DOMAIN metrics : metrics'[i].last \in 0..now /\ metrics[i].last <= metrics'[i].last
  BY <1>1, <1>4
<1>6. /\ TypeInv' /\ OriginInv' /\ BlockInv' /\ HttpInv' /\ StreamInv'
      /\ metrics' = <<>> => NoMetric'
  BY <1>0, <1>1, <1>4, <1>5, Settled
<1>7. PhaseInv' /\ ReadyInv'
  BY <1>0, <1>6 DEF FileInv, PhaseInv, ReadyInv, Running, NoMetric
<1>8. MadeInv'
  <2>1. \A x, y : Together(x, y)' = Together(x, y)
    BY <1>0 DEF Together, Has
  <2> SUFFICES ASSUME NEW x \in DOMAIN made'
               PROVE  /\ x[2] \in DOMAIN conf
                      /\ made'[x] \in 1..now
                      /\ \A a \in DOMAIN conf : Together(x[2], a) /\ conf[a].confs # Null =>
                           \A y \in DOMAIN Array(a) :
                             (metrics'[Array(a)[y]].origin = x[1] /\ metrics'[Array(a)[y]].timeout # 0) =>
                                made'[x] <= metrics'[Array(a)[y]].last
    BY <1>0, <2>1 DEF MadeInv, Array
  <2>2. made' = [z \in DOMAIN made \cup (sent \X {b}) |-> IF z \in sent \X {b} THEN now ELSE made[z]]
    BY DEF Sends
  <2>3. \A a \in DOMAIN conf : conf[a].confs # Null =>
          \A y \in DOMAIN Array(a) : Array(a)[y] \in DOMAIN metrics
    BY <1>0, ArrayType
  <2>4. CASE x \in sent \X {b}
    <3>1. x[1] \in sent /\ x[2] = b /\ made'[x] = now
      BY <2>2, <2>4
    <3>2. PICK i \in picked : x[1] = metrics[i].origin
      BY <1>0, <3>1, PickedFacts
    <3>3. PICK z \in DOMAIN Array(b) : i = Array(b)[z]
      BY <1>0, PickedFacts
    <3>4. ASSUME NEW a \in DOMAIN conf, Together(b, a), conf[a].confs # Null, NEW y \in DOMAIN Array(a),
                 metrics'[Array(a)[y]].origin = x[1], metrics'[Array(a)[y]].timeout # 0
          PROVE  metrics'[Array(a)[y]].last = now
      <4>1. Array(a)[y] \in DOMAIN metrics /\ metrics[Array(a)[y]].origin = x[1]
        BY <1>4, <2>3, <3>4
      <4>2. conf[b].confs # Null
        BY DEF Sends
      <4>3. Array(a)[y] = i
        BY <1>0, <3>2, <3>3, <3>4, <4>1, <4>2, OneMetric
      <4> QED BY <1>4, <3>4, <4>1, <4>3 DEF hit
    <3> QED BY <1>1, <3>1, <3>4
  <2>5. CASE x \notin sent \X {b}
    <3>1. x \in DOMAIN made /\ made'[x] = made[x]
      BY <2>2, <2>5
    <3>2. /\ x[2] \in DOMAIN conf /\ made[x] \in 1..now
          /\ \A a \in DOMAIN conf : Together(x[2], a) /\ conf[a].confs # Null =>
               \A y \in DOMAIN Array(a) :
                 (metrics[Array(a)[y]].origin = x[1] /\ metrics[Array(a)[y]].timeout # 0) =>
                    made[x] <= metrics[Array(a)[y]].last
      BY <1>0, <3>1 DEF FileInv, MadeInv
    <3>3. ASSUME NEW a \in DOMAIN conf, Together(x[2], a), conf[a].confs # Null, NEW y \in DOMAIN Array(a),
                 metrics'[Array(a)[y]].origin = x[1], metrics'[Array(a)[y]].timeout # 0
          PROVE  made[x] <= metrics'[Array(a)[y]].last
      <4> DEFINE j == Array(a)[y]
      <4>1. j \in DOMAIN metrics
        BY <2>3, <3>3
      <4>2. made[x] <= metrics[j].last
        BY <1>4, <3>2, <3>3, <4>1
      <4> HIDE DEF j
      <4>3. made[x] <= metrics'[j].last
        BY <1>1, <1>5, <3>2, <4>1, <4>2
      <4> QED BY <4>3 DEF j
    <3> QED BY <3>1, <3>2, <3>3
  <2> QED BY <2>4, <2>5
<1> QED BY <1>0, <1>6, <1>7, <1>8 DEF Inv, FileInv

(* A request, a phase, a call for the http block, or a stat of another     *)
(* module: what they have in common                                        *)
LEMMA Calls ==
  ASSUME TypeInv, Run
  PROVE  \/ Clock
         \/ \E b \in DOMAIN conf, holds \in BOOLEAN, kind \in {"request", "phase", "http"}, ph \in {"", "start"} :
              (b = Main => kind = "http") /\ Send(kind, b, ph, holds)
         \/ \E b \in DOMAIN conf \ {Main} : SendStat(b)
<1> USE DEF Run
<1>1. ASSUME NEW b \in Inner, NEW holds \in BOOLEAN, Handler(b, holds)
      PROVE  /\ b \in DOMAIN conf /\ b # Main /\ Send("request", b, "", holds)
  BY <1>1 DEF Handler
<1>2. ASSUME NEW b \in Inner, NEW holds \in BOOLEAN, SendPhase(b, holds)
      PROVE  /\ b \in DOMAIN conf /\ b # Main /\ Send("phase", b, "start", holds)
  BY <1>2 DEF SendPhase
<1>3. ASSUME NEW holds \in BOOLEAN, SendHttp(holds)
      PROVE  Main \in DOMAIN conf /\ Send("http", Main, "start", holds)
  BY <1>3 DEF SendHttp, TypeInv
<1>4. ASSUME NEW b \in Inner, SendStat(b) PROVE b \in DOMAIN conf \ {Main}
  BY <1>4 DEF SendStat
<1>5. /\ "request" \in {"request", "phase", "http"} /\ "phase" \in {"request", "phase", "http"}
      /\ "http" \in {"request", "phase", "http"} /\ "" \in {"", "start"} /\ "start" \in {"", "start"}
  OBVIOUS
<1> QED BY <1>1, <1>2, <1>3, <1>4, <1>5, Zenon

(* A stat of another module changes nothing but what the call returns.     *)
LEMMA StatReturns ==
  ASSUME NEW b, SendStat(b)
  PROVE  /\ Call /\ Quiet
         /\ \/ \E rc \in {"skipped", "sent"} : Return("stat", b, rc, {})
            \/ /\ Return("stat", b, "fault", {})
               /\ conf[b].server # Null /\ conf[b].enable # 0 /\ Wild(conf[b])
<1> DEFINE c == conf[b]
<1>1. CASE c.server = Null \/ c.enable = 0
  BY <1>1 DEF SendStat
<1>2. CASE ~(c.server = Null \/ c.enable = 0) /\ Wild(c)
  BY <1>2 DEF SendStat
<1>3. CASE ~(c.server = Null \/ c.enable = 0) /\ ~Wild(c)
  BY <1>3 DEF SendStat
<1> QED BY <1>1, <1>2, <1>3

(* The invariant is inductive.                                             *)
LEMMA NextInv == Inv /\ [Next]_vars => Inv'
<1> SUFFICES ASSUME Inv, [Next]_vars PROVE Inv'
  OBVIOUS
<1>1. CASE Parse
  BY <1>1, OpenInv, CloseInv, ServerInv, MetricInv DEF Parse
<1>2. CASE \E b \in Inner : Merge(b)
  BY <1>2, MergeInv
<1>3. CASE Start
  BY <1>3, StartInv
<1>4. CASE Run
  <2>1. ASSUME NEW b \in DOMAIN conf, NEW holds \in BOOLEAN, NEW kind, NEW ph, Send(kind, b, ph, holds)
        PROVE  Inv'
    BY <2>1, SendCases, QuietInv, SendsInv
  <2>2. ASSUME NEW b \in DOMAIN conf, SendStat(b) PROVE Inv'
    BY <2>2, StatReturns, QuietInv
  <2>3. TypeInv
    BY DEF Inv
  <2> QED BY <1>4, <2>1, <2>2, <2>3, Calls, ClockInv
<1>5. CASE UNCHANGED vars
  <2> USE <1>5 DEF vars
  <2>1. TypeInv' = TypeInv /\ PhaseInv' = PhaseInv
    BY DEF TypeInv, PhaseInv, Blocks, Running
  <2>2. OriginInv' = OriginInv /\ BlockInv' = BlockInv /\ ReadyInv' = ReadyInv /\ HttpInv' = HttpInv
    BY DEF OriginInv, BlockInv, ReadyInv, HttpInv, NoMetric, Running, Has
  <2>3. StreamInv' = StreamInv
    BY DEF StreamInv, Shares, Apart, OneEach, Has, Array, Block
  <2>4. MadeInv' = MadeInv
    BY DEF MadeInv, Together, Has, Array
  <2> QED BY <2>1, <2>2, <2>3, <2>4 DEF Inv, FileInv
<1> QED BY <1>1, <1>2, <1>3, <1>4, <1>5 DEF Next

(* What is kept through the whole life of a configuration                  *)
THEOREM Invariance == Spec => []Inv
<1>1. Init => Inv
  BY InitInv
<1>2. Inv /\ [Next]_vars => Inv'
  BY NextInv
<1> QED BY <1>1, <1>2, PTL DEF Spec

----------------------------------------------------------------------------
(* A call meets memory that is not there only in a configuration without   *)
(* a metric, or for an http block with metrics and no server.              *)
LEMMA FaultCause ==
  ASSUME Inv, NEW b \in DOMAIN conf, NEW kind \in {"request", "phase", "http", "stat"},
         Call, Return(kind, b, "fault", {}), b = Main => kind = "http",
         conf[b].server # Null, conf[b].enable # 0, Wild(conf[b]),
         kind = "stat" \/ conf[b].confs # Null
  PROVE  FaultsForCause'
<1>0. /\ TypeInv /\ PhaseInv /\ FileInv /\ phase = "run" /\ merged = DOMAIN conf
      /\ call'.kind = kind /\ module' = module /\ written' = written
  BY DEF Inv, Call, Return, PhaseInv, Running
<1>1. CASE conf[b].server = Unset
  <2>1. b = Main
    BY <1>0, <1>1 DEF FileInv, BlockInv
  <2>2. conf[b].confs # Null
    BY <2>1
  <2>3. Has(Main, "metric") /\ ~Has(Main, "server")
    BY <1>0, <1>1, <2>1, <2>2 DEF FileInv, BlockInv
  <2> QED BY <1>0, <2>1, <2>3 DEF FaultsForCause, Has
<1>2. CASE conf[b].server # Unset
  <2>1. conf[b].server \in DOMAIN servers /\ ~servers[conf[b].server].ready
    BY <1>0, <1>2 DEF TypeInv, Wild
  <2>2. module = "http" /\ NoMetric
    BY <1>0, <2>1 DEF FileInv, ReadyInv, Running
  <2>3. \A a : ~Has(a, "metric")
    BY <2>2 DEF NoMetric, Has
  <2>4. kind = "stat"
    BY <1>0, <2>3 DEF FileInv, BlockInv
  <2> QED BY <1>0, <2>2, <2>4 DEF FaultsForCause, NoMetric
<1> QED BY <1>1, <1>2

(* No request ends in memory that is not there: ready servers, and a block *)
(* that knows its server as soon as it is merged.                          *)
THEOREM NoneFaults == Spec => []FaultsForCause
<1>1. Init => FaultsForCause
  BY DEF Init, NoCall, FaultsForCause
<1>2. Inv /\ FaultsForCause /\ [Next]_vars => FaultsForCause'
  <2> SUFFICES ASSUME Inv, FaultsForCause, [Next]_vars PROVE FaultsForCause'
    OBVIOUS
  <2>0. TypeInv /\ PhaseInv
    BY DEF Inv
  <2>1. ASSUME phase \in {"parse", "merge", "run"}, call' = call PROVE FaultsForCause'
    BY <2>0, <2>1 DEF PhaseInv, FaultsForCause
  <2>2. CASE Parse
    BY <2>1, <2>2 DEF Parse, Open, Close, ServerDirective, MetricDirective, Directive, Refuse
  <2>3. CASE Start \/ Clock \/ \E b \in Inner : Merge(b)
    BY <2>1, <2>3 DEF Start, Clock, Merge
  <2>4. ASSUME NEW kind, NEW b, NEW rc, NEW sent, Return(kind, b, rc, sent), rc # "fault"
        PROVE  FaultsForCause'
    BY <2>4 DEF Return, FaultsForCause
  <2>5. ASSUME NEW b \in DOMAIN conf, NEW holds \in BOOLEAN, NEW kind \in {"request", "phase", "http"}, NEW ph,
               b = Main => kind = "http", Send(kind, b, ph, holds)
        PROVE  FaultsForCause'
    <3>1. ASSUME NEW picked, NEW sent, Sends(kind, b, ph, holds, picked, sent) PROVE FaultsForCause'
      BY <2>4, <3>1 DEF Sends
    <3>2. CASE Return(kind, b, "skipped", {})
      BY <2>4, <3>2
    <3>3. kind \in {"request", "phase", "http", "stat"}
      OBVIOUS
    <3> QED BY <2>5, <3>1, <3>2, <3>3, SendCases, FaultCause
  <2>6. ASSUME NEW b \in DOMAIN conf \ {Main}, SendStat(b) PROVE FaultsForCause'
    <3>1. ASSUME NEW rc \in {"skipped", "sent"}, Return("stat", b, rc, {}) PROVE FaultsForCause'
      BY <2>4, <3>1
    <3>2. "stat" \in {"request", "phase", "http", "stat"}
      OBVIOUS
    <3> QED BY <2>6, <3>1, <3>2, StatReturns, FaultCause
  <2>7. CASE Run
    BY <2>0, <2>3, <2>5, <2>6, <2>7, Calls
  <2>8. CASE UNCHANGED vars
    BY <2>8 DEF vars, FaultsForCause, Has
  <2> QED BY <2>2, <2>3, <2>7, <2>8 DEF Next
<1> QED BY <1>1, <1>2, Invariance, PTL DEF Spec

(* The stats of a metric are made its timeout apart in all blocks that     *)
(* share it, through whichever arrays merging has taken it: what a call    *)
(* picks was last made a timeout ago.  Stream blocks with metrics of their *)
(* own share none.                                                         *)
THEOREM MetricsArePaced == Spec => PacedWhereShared
<1> DEFINE Paced == calls' # calls =>
             \A x \in DOMAIN made :
               x[1] \in call'.sent /\ Together(x[2], call'.block) => TimeoutOver(x)
<1>1. Inv /\ [Next]_vars => [Paced]_vars
  <2> SUFFICES ASSUME Inv, Next PROVE Paced
    OBVIOUS
  <2>0. TypeInv /\ PhaseInv
    BY DEF Inv
  <2>1. CASE calls' = calls
    BY <2>1
  <2>2. CASE call'.sent = {}
    BY <2>2
  <2>3. ASSUME NEW b \in DOMAIN conf, NEW kind, NEW ph, NEW holds, NEW picked, NEW sent, Call,
               Sends(kind, b, ph, holds, picked, sent)
        PROVE  Paced
    <3>0. FileInv
      BY <2>3 DEF Inv, Call
    <3>1. call'.sent = sent /\ call'.block = b
      BY <2>3 DEF Sends, Return
    <3> SUFFICES ASSUME NEW o \in sent, NEW x \in DOMAIN made, x[1] = o, Together(x[2], b)
                 PROVE  made[x] + Parsed(written[o].arg).timeout <= now
      BY <3>1 DEF TimeoutOver
    <3>2. PICK i \in picked : o = metrics[i].origin
      BY <2>0, <2>3, PickedFacts
    <3>3. i \in DOMAIN metrics /\ ~TooSoon(metrics[i])
      BY <2>0, <2>3, PickedFacts
    <3>4. PICK y \in DOMAIN Array(b) : i = Array(b)[y]
      BY <2>0, <2>3, PickedFacts
    <3>5. metrics[i].timeout = Parsed(written[o].arg).timeout /\ metrics[i].timeout \in Nat
          /\ metrics[i].last \in Nat
      BY <3>0, <3>2, <3>3, <2>0 DEF FileInv, OriginInv, TypeInv
    <3>6. made[x] \in 1..now /\ (metrics[i].timeout # 0 => made[x] <= metrics[i].last)
      <4>1. conf[b].confs # Null
        BY <2>3 DEF Sends
      <4> QED BY <3>0, <3>2, <3>4, <4>1 DEF FileInv, MadeInv
    <3>7. now \in Nat
      BY <2>0 DEF TypeInv
    <3>8. CASE metrics[i].timeout = 0
      BY <3>5, <3>6, <3>7, <3>8
    <3>9. CASE metrics[i].timeout # 0
      BY <3>3, <3>5, <3>6, <3>7, <3>9 DEF TooSoon
    <3> QED BY <3>8, <3>9
  <2> HIDE DEF Paced
  <2>4. CASE Parse
    BY <2>1, <2>4 DEF Parse, Open, Close, ServerDirective, MetricDirective, Refuse
  <2>5. CASE Start \/ Clock \/ \E b \in Inner : Merge(b)
    BY <2>1, <2>5 DEF Start, Clock, Merge
  <2>6. ASSUME NEW kind, NEW b, NEW rc, Return(kind, b, rc, {}) PROVE Paced
    BY <2>2, <2>6 DEF Return
  <2>7. CASE Run
    <3>1. ASSUME NEW b \in DOMAIN conf, NEW holds \in BOOLEAN, NEW kind, NEW ph, Send(kind, b, ph, holds)
          PROVE  Paced
      BY <2>3, <2>6, <3>1, SendCases
    <3>2. ASSUME NEW b \in DOMAIN conf, SendStat(b) PROVE Paced
      BY <2>6, <3>2, StatReturns
    <3> QED BY <2>0, <2>5, <2>7, <3>1, <3>2, Calls
  <2> QED BY <2>4, <2>5, <2>7 DEF Next
<1>2. PacedWhereShared <=> [][Paced]_vars
  BY DEF PacedWhereShared
<1> QED BY <1>1, <1>2, Invariance, PTL DEF Spec

----------------------------------------------------------------------------
(* The recursions and folds of the model, as instances of the general one *)
InOp(a, places, d) == IF d[2].block = a[1] /\ d[2].kind = a[2] THEN Append(places, d[1]) ELSE places
InDef(c, f, s) == IF s = {} THEN c[2] ELSE InOp(c[1], f[s \ {Max(s)}], c[3][Max(s)])
InRec == INSTANCE Lemmas WITH Def <- InDef, Op <- InOp

EffectiveDef(c, f, b) == In(b, "metric") \o (IF b = Main THEN <<>> ELSE f[Parent[b]])
EffectiveRec == INSTANCE Lemmas WITH Def <- EffectiveDef, Op <- InOp

NearestDef(c, f, b) ==
  LET own == In(b, "server")
  IN IF own # <<>> THEN Last(own) ELSE IF b = Main THEN Null ELSE f[Parent[b]]
NearestRec == INSTANCE Lemmas WITH Def <- NearestDef, Op <- InOp

IndexOp(a, indexed, m) == CompileMetric(indexed, m)
IndexDef(c, f, s) == IF s = {} THEN c[2] ELSE IndexOp(c[1], f[s \ {Max(s)}], c[3][Max(s)])
IndexRec == INSTANCE Lemmas WITH Def <- IndexDef, Op <- IndexOp
----------------------------------------------------------------------------
(* What a block has is what the file says *)

(* The places where the metrics of a block are written                     *)
Origins(b) ==
  LET c == conf[b].confs
  IN [i \in 1..(IF c = Null THEN 0 ELSE Len(arrays[c])) |-> metrics[arrays[c][i]].origin]

(* Blocks with one array have been merged.                                 *)
Exclusive ==
  \A a, b \in DOMAIN conf :
    (a # b /\ conf[a].confs = conf[b].confs /\ conf[a].confs # Null) => a \in merged /\ b \in merged

(* A block that is not merged has what is written in it; a merged one has  *)
(* what it inherits, too.                                                  *)
Alone(b) == b = Main \/ b \notin merged

MetricsInv ==
  \A b \in DOMAIN conf : Origins(b) = IF Alone(b) THEN In(b, "metric") ELSE Effective[b]

(* The last server directive of a block                                    *)
Own(b) == LET own == In(b, "server") IN IF own # <<>> THEN Last(own) ELSE Null

Spoken(b) == IF Alone(b) THEN Own(b) ELSE Nearest[b]

(* Block b is as the server directive n, if there is one, says.            *)
Obeys(b, n) ==
  LET c == conf[b]
  IN CASE n = Null -> c.server \in {Unset, Null} /\ c.enable \in {Unset, 0}
       [] n # Null /\ IsOff(Server(n)) -> c.enable = 0
       [] OTHER -> /\ c.enable = 1 /\ c.server \in DOMAIN servers
                   /\ servers[c.server].param = Param(Server(n))

(* A block that is not merged has a server only from a directive of its    *)
(* own.                                                                    *)
ServersInv ==
  \A b \in DOMAIN conf :
    /\ Obeys(b, Spoken(b))
    /\ Alone(b) /\ Own(b) = Null => conf[b].server = Unset /\ conf[b].enable = Unset
    /\ Alone(b) /\ Own(b) # Null /\ IsOff(Server(Own(b))) => conf[b].server = Unset

(* The directives with parameters p                                        *)
Alike(p) == {i \in DOMAIN written : written[i].kind = "server" /\ ~IsOff(Server(i)) /\ Param(Server(i)) = p}

(* Each server is that of the first directive with its parameters, and all *)
(* directives have one.                                                    *)
FirstInv ==
  /\ \A j \in DOMAIN servers :
       \E i \in Alike(servers[j].param) :
         servers[j].flush = Server(i).flush /\ \A k \in Alike(servers[j].param) : i <= k
  /\ \A i \in DOMAIN written : written[i].kind = "server" /\ ~IsOff(Server(i)) =>
       \E j \in DOMAIN servers : servers[j].param = Param(Server(i))

(* What In gives                                                           *)
PlacesInv ==
  \A b, kind :
    /\ In(b, kind) \in Seq(DOMAIN written)
    /\ \A x \in DOMAIN In(b, kind) :
         written[In(b, kind)[x]].block = b /\ written[In(b, kind)[x]].kind = kind

(* The stream module's metrics ask for no variable.                        *)
AsksInv == module = "stream" => \A i \in DOMAIN metrics : Asks(metrics[i]) = {}

Kept == Exclusive /\ MetricsInv /\ ServersInv /\ FirstInv /\ AsksInv

----------------------------------------------------------------------------
(* The fold that In is                                                     *)
LEMMA InIs ==
  ASSUME NEW b, NEW kind
  PROVE  In(b, kind) = InRec!Fold(<<b, kind>>, <<>>, Numbered)
BY DEF In, InOp, FoldLeft, MapThenFoldSet, Max, InRec!Fold, InRec!FoldLeft, InRec!MapThenFoldSet, InRec!Max

(* The same step is made at each directive.                                *)
LEMMA InRepeats == InRec!RepeatsOp
BY DEF InRec!RepeatsOp, InDef, Max, InRec!Max

(* There is no place in an empty file.                                     *)
LEMMA InNone ==
  ASSUME written = <<>>, NEW b, NEW kind
  PROVE  In(b, kind) = <<>>
<1>1. DOMAIN Numbered = {}
  BY DEF Numbered
<1> QED BY <1>1, InIs, InRepeats, InRec!FoldNone

(* A directive adds its place to those of its block and its kind.          *)
LEMMA InMore ==
  ASSUME TypeInv, NEW kind \in {"server", "metric"}, NEW d \in ServerArgs \cup MetricArgs, Write(kind, d)
  PROVE  \A b, k : In(b, k)' = IF b = cur /\ k = kind THEN Append(In(b, k), Len(written')) ELSE In(b, k)
<1> SUFFICES ASSUME NEW b, NEW k
             PROVE  In(b, k)' = IF b = cur /\ k = kind THEN Append(In(b, k), Len(written')) ELSE In(b, k)
  OBVIOUS
<1>1. PICK n : n = Len(written)
  OBVIOUS
<1>2. /\ n \in Nat /\ Len(written') = n + 1 /\ DOMAIN written = 1..n /\ DOMAIN written' = 1..n+1
      /\ (\A i \in 1..n : written'[i] = written[i])
      /\ written'[n+1] = [block |-> cur, kind |-> kind, arg |-> d]
  <2>1. written \in Seq(WrittenSet)
    BY DEF TypeInv
  <2> QED BY <1>1, <2>1, Written
<1>3. PICK new, old : new = Numbered' /\ old = Numbered
  OBVIOUS
<1>4. /\ DOMAIN new = 1..n+1 /\ DOMAIN old = 1..n /\ (\A i \in 1..n : old[i] = new[i])
      /\ new[n+1] = <<n+1, written'[n+1]>>
  <2>1. n+1 \in 1..n+1 /\ \A i \in 1..n : i \in 1..n+1
    BY <1>2
  <2> QED BY <1>2, <1>3, <2>1 DEF Numbered
<1>5. InRec!Fold(<<b, k>>, <<>>, new) = InOp(<<b, k>>, InRec!Fold(<<b, k>>, <<>>, old), new[n+1])
  BY <1>2, <1>4, InRepeats, InRec!FoldOneMore
<1>6. In(b, k) = InRec!Fold(<<b, k>>, <<>>, old)
  BY <1>3, InIs
<1>7. In(b, k)' = InRec!Fold(<<b, k>>, <<>>, new)
  BY <1>3 DEF In, InOp, FoldLeft, MapThenFoldSet, Max, InRec!Fold, InRec!FoldLeft, InRec!MapThenFoldSet, InRec!Max
<1>8. InOp(<<b, k>>, In(b, k), new[n+1]) =
        IF b = cur /\ k = kind THEN Append(In(b, k), n + 1) ELSE In(b, k)
  BY <1>2, <1>4 DEF InOp
<1> QED BY <1>2, <1>5, <1>6, <1>7, <1>8

(* A block's depth                                                         *)
LEMMA Depths ==
  \E m \in [{Main} \cup Inner -> Nat] : \A b \in Inner : Parent[b] \in {Main} \cup Inner /\ m[Parent[b]] < m[b]
<1>1. PICK depth \in [DOMAIN Parent -> 1..Cardinality(DOMAIN Parent)] :
        \A b \in DOMAIN Parent : Parent[b] # Main => depth[Parent[b]] < depth[b]
  BY BlocksAssumption
<1> DEFINE m == [b \in {Main} \cup Inner |-> IF b = Main THEN 0 ELSE depth[b]]
<1>2. \A b \in Inner : b # Main /\ depth[b] \in Nat /\ depth[b] > 0
  BY <1>1, BlocksAssumption DEF Inner
<1>3. m \in [{Main} \cup Inner -> Nat]
  BY <1>2
<1>4. ASSUME NEW b \in Inner PROVE Parent[b] \in {Main} \cup Inner /\ m[Parent[b]] < m[b]
  BY <1>1, <1>2, BlocksAssumption DEF Inner
<1> QED BY <1>3, <1>4

(* The definitions of Effective and Nearest hold for every block.          *)
LEMMA EffectiveHolds ==
  \A b \in {Main} \cup Inner :
    Effective[b] = In(b, "metric") \o (IF b = Main THEN <<>> ELSE Effective[Parent[b]])
<1> DEFINE S == {Main} \cup Inner
           c == <<>>
<1>1. PICK m \in [S -> Nat] : \A b \in Inner : Parent[b] \in S /\ m[Parent[b]] < m[b]
  BY Depths
<1>2. EffectiveRec!LooksBelow(c, m, S)
  BY <1>1 DEF EffectiveRec!LooksBelow, EffectiveDef
<1>3. EffectiveRec!Recursive(c, S) = [b \in S |-> EffectiveDef(c, EffectiveRec!Recursive(c, S), b)]
  <2> HIDE DEF S, c
  <2> QED BY <1>1, <1>2, EffectiveRec!RecursionHolds
<1>4. Effective = EffectiveRec!Recursive(c, S)
  BY DEF Effective, EffectiveDef, EffectiveRec!Recursive
<1> HIDE DEF c
<1> QED BY <1>3, <1>4 DEF EffectiveDef

(* A block with no server directive has that of the block around it.       *)
LEMMA NearestHolds ==
  \A b \in {Main} \cup Inner :
    LET own == In(b, "server")
    IN Nearest[b] = IF own # <<>> THEN Last(own) ELSE IF b = Main THEN Null ELSE Nearest[Parent[b]]
<1> DEFINE S == {Main} \cup Inner
           c == <<>>
<1>1. PICK m \in [S -> Nat] : \A b \in Inner : Parent[b] \in S /\ m[Parent[b]] < m[b]
  BY Depths
<1>2. NearestRec!LooksBelow(c, m, S)
  BY <1>1 DEF NearestRec!LooksBelow, NearestDef
<1>3. NearestRec!Recursive(c, S) = [b \in S |-> NearestDef(c, NearestRec!Recursive(c, S), b)]
  <2> HIDE DEF S, c
  <2> QED BY <1>1, <1>2, NearestRec!RecursionHolds
<1>4. Nearest = NearestRec!Recursive(c, S)
  BY DEF Nearest, NearestDef, NearestRec!Recursive
<1> HIDE DEF c
<1> QED BY <1>3, <1>4 DEF NearestDef

(* As long as the file stays as it is, so does what it says.               *)
LEMMA SameFile ==
  ASSUME written' = written
  PROVE  /\ \A b, kind : In(b, kind)' = In(b, kind)
         /\ Effective' = Effective /\ Nearest' = Nearest
         /\ \A b : Own(b)' = Own(b)
         /\ \A p : Alike(p)' = Alike(p)
<1>1. ASSUME NEW b, NEW kind PROVE In(b, kind)' = In(b, kind)
  <2>1. PICK new : new = Numbered' /\ new = Numbered
    BY DEF Numbered
  <2>2. In(b, kind) = InRec!Fold(<<b, kind>>, <<>>, new)
    BY <2>1, InIs
  <2>3. In(b, kind)' = InRec!Fold(<<b, kind>>, <<>>, new)
    BY <2>1 DEF In, InOp, FoldLeft, MapThenFoldSet, Max, InRec!Fold, InRec!FoldLeft, InRec!MapThenFoldSet, InRec!Max
  <2> QED BY <2>2, <2>3
<1>2. Effective' = Effective /\ Nearest' = Nearest
  BY <1>1 DEF Effective, Nearest
<1>3. \A b : Own(b)' = Own(b)
  BY <1>1 DEF Own
<1>4. \A p : Alike(p)' = Alike(p)
  BY DEF Alike, Server
<1> QED BY <1>1, <1>2, <1>3, <1>4

(* Whatever In gives is written there.                                     *)
LEMMA PlacesMore ==
  ASSUME TypeInv, PlacesInv,
         NEW kind \in {"server", "metric"}, NEW d \in ServerArgs \cup MetricArgs, Write(kind, d)
  PROVE  PlacesInv'
<1>1. PICK n : n = Len(written')
  OBVIOUS
<1>2. /\ n \in DOMAIN written' /\ n \notin DOMAIN written /\ DOMAIN written \subseteq DOMAIN written'
      /\ \A i \in DOMAIN written : written'[i] = written[i]
      /\ written'[n] = [block |-> cur, kind |-> kind, arg |-> d]
  BY <1>1, Written
<1> SUFFICES ASSUME NEW b, NEW k
             PROVE  /\ In(b, k)' \in Seq(DOMAIN written')
                    /\ \A x \in DOMAIN In(b, k)' :
                         written'[In(b, k)'[x]].block = b /\ written'[In(b, k)'[x]].kind = k
  BY DEF PlacesInv
<1>3. PICK old, new : old = In(b, k) /\ new = In(b, k)'
  OBVIOUS
<1>4. new = IF b = cur /\ k = kind THEN Append(old, n) ELSE old
  BY <1>1, <1>3, InMore
<1>5. /\ old \in Seq(DOMAIN written)
      /\ \A x \in DOMAIN old : old[x] \in DOMAIN written /\ written[old[x]].block = b /\ written[old[x]].kind = k
  <2>1. old \in Seq(DOMAIN written)
    BY <1>3 DEF PlacesInv
  <2>2. \A x \in DOMAIN old : old[x] \in DOMAIN written
    BY <2>1
  <2> QED BY <1>3, <2>1, <2>2 DEF PlacesInv
<1>6. old \in Seq(DOMAIN written')
  BY <1>2, <1>5
<1>7. CASE ~(b = cur /\ k = kind)
  BY <1>2, <1>3, <1>4, <1>5, <1>6, <1>7
<1>8. CASE b = cur /\ k = kind
  <2>1. new = Append(old, n)
    BY <1>4, <1>8
  <2>2. new \in Seq(DOMAIN written') /\ \A x \in DOMAIN new : (x \in DOMAIN old /\ new[x] = old[x]) \/ new[x] = n
    BY <1>2, <1>6, <2>1
  <2>3. written'[n].block = b /\ written'[n].kind = k
    BY <1>2, <1>8
  <2> QED BY <1>2, <1>3, <1>5, <2>2, <2>3
<1> QED BY <1>7, <1>8

(* The last server directive of a block is one of them.                    *)
LEMMA OwnFacts ==
  ASSUME TypeInv, PlacesInv, NEW b
  PROVE  /\ In(b, "server") = <<>> => Own(b) = Null
         /\ In(b, "server") # <<>> =>
              /\ Own(b) \in DOMAIN written /\ Own(b) # Null
              /\ written[Own(b)].block = b /\ written[Own(b)].kind = "server"
              /\ \E x \in DOMAIN In(b, "server") : In(b, "server")[x] = Own(b)
<1> DEFINE own == In(b, "server")
<1>1. CASE own = <<>>
  BY <1>1 DEF Own
<1>2. CASE own # <<>>
  <2>1. own \in Seq(DOMAIN written)
    BY DEF PlacesInv
  <2>2. \A x \in DOMAIN own : written[own[x]].block = b /\ written[own[x]].kind = "server"
    BY DEF PlacesInv
  <2>3. Own(b) = Last(own)
    BY <1>2 DEF Own
  <2> HIDE DEF own
  <2>4. Len(own) \in DOMAIN own
    BY <1>2, <2>1
  <2>5. Own(b) = own[Len(own)]
    BY <2>3 DEF Last
  <2>6. Own(b) \in DOMAIN written
    BY <2>1, <2>4, <2>5
  <2>7. DOMAIN written = 1..Len(written)
    BY DEF TypeInv
  <2>8. Own(b) # Null
    BY <2>6, <2>7 DEF Null
  <2> QED BY <1>2, <2>2, <2>4, <2>5, <2>6, <2>8 DEF own
<1> QED BY <1>1, <1>2

(* A block of which nothing is written                                     *)
LEMMA NothingIn ==
  ASSUME PlacesInv, NEW b, \A i \in DOMAIN written : written[i].block # b
  PROVE  \A kind : In(b, kind) = <<>>
<1> SUFFICES ASSUME NEW kind, In(b, kind) # <<>> PROVE FALSE
  OBVIOUS
<1>1. PICK q : q = In(b, kind)
  OBVIOUS
<1>2. q \in Seq(DOMAIN written) /\ \A x \in DOMAIN q : written[q[x]].block = b
  BY <1>1 DEF PlacesInv
<1>3. 1 \in DOMAIN q
  BY <1>1, <1>2
<1>4. q[1] \in DOMAIN written
  BY <1>2, <1>3
<1> QED BY <1>2, <1>3, <1>4

(* The places of a block's metrics, by its array                           *)
LEMMA OriginsAre ==
  ASSUME TypeInv, NEW b \in DOMAIN conf
  PROVE  /\ conf[b].confs = Null => Origins(b) = <<>>
         /\ conf[b].confs # Null => Origins(b) = [i \in 1..Len(Array(b)) |-> metrics[Array(b)[i]].origin]
BY DEF Origins, Array

(* A block with the array that it had has the metrics that it had.         *)
LEMMA SameOrigins ==
  ASSUME TypeInv, NEW b \in DOMAIN conf, conf'[b].confs = conf[b].confs,
         conf[b].confs # Null => arrays'[conf[b].confs] = arrays[conf[b].confs],
         \A i \in DOMAIN metrics : metrics'[i].origin = metrics[i].origin
  PROVE  Origins(b)' = Origins(b)
<1>1. CASE conf[b].confs = Null
  BY <1>1 DEF Origins
<1>2. CASE conf[b].confs # Null
  <2>1. PICK q : q = Array(b)
    OBVIOUS
  <2>2. q \in Seq(DOMAIN metrics) /\ arrays'[conf'[b].confs] = q
    BY <1>2, <2>1, ArrayType DEF Array
  <2>3. Origins(b) = [i \in 1..Len(q) |-> metrics[q[i]].origin]
    BY <1>2, <2>1 DEF Origins, Array
  <2>4. Origins(b)' = [i \in 1..Len(q) |-> metrics'[q[i]].origin]
    BY <1>2, <2>2 DEF Origins
  <2>5. \A i \in 1..Len(q) : q[i] \in DOMAIN metrics
    BY <2>2
  <2> QED BY <2>3, <2>4, <2>5
<1> QED BY <1>1, <1>2

(* A step that leaves the file, the blocks and the arrays alone, and the   *)
(* metrics and the servers but for what requests and initialisation change *)
LEMMA SettledKept ==
  ASSUME TypeInv, Kept, UNCHANGED <<module, conf, arrays, merged, written>>,
         DOMAIN metrics' = DOMAIN metrics, DOMAIN servers' = DOMAIN servers,
         \A i \in DOMAIN metrics : metrics'[i].origin = metrics[i].origin /\ Asks(metrics'[i]) = Asks(metrics[i]),
         \A j \in DOMAIN servers : servers'[j].param = servers[j].param /\ servers'[j].flush = servers[j].flush
  PROVE  Kept'
<1>1. Exclusive'
  BY DEF Kept, Exclusive
<1>2. /\ \A b, kind : In(b, kind)' = In(b, kind)
      /\ Effective' = Effective /\ Nearest' = Nearest
      /\ \A b : Own(b)' = Own(b)
      /\ \A p : Alike(p)' = Alike(p)
  BY SameFile
<1>3. \A b : Alone(b)' = Alone(b) /\ Spoken(b)' = Spoken(b)
  BY <1>2 DEF Alone, Spoken
<1>4. MetricsInv'
  <2>1. \A b \in DOMAIN conf : Origins(b)' = Origins(b)
    BY SameOrigins
  <2> QED BY <1>2, <1>3, <2>1 DEF Kept, MetricsInv
<1>5. ServersInv'
  <2>1. \A b \in DOMAIN conf : \A n : Obeys(b, n) => Obeys(b, n)'
    BY DEF Obeys, Server
  <2>2. \A n : Server(n)' = Server(n)
    BY DEF Server
  <2> QED BY <1>2, <1>3, <2>1, <2>2 DEF Kept, ServersInv
<1>6. FirstInv'
  <2>1. \A n : Server(n)' = Server(n)
    BY DEF Server
  <2> QED BY <1>2, <2>1 DEF Kept, FirstInv
<1>7. AsksInv'
  BY DEF Kept, AsksInv
<1> QED BY <1>1, <1>4, <1>5, <1>6, <1>7 DEF Kept

(* A block that is opened has nothing, and nothing is written in it.       *)
LEMMA OpenKept ==
  ASSUME Inv, PlacesInv, Kept, NEW b \in Inner, Open(b)
  PROVE  Kept'
<1> USE DEF Open
<1>0. TypeInv
  BY DEF Inv
<1>1. /\ DOMAIN conf' = DOMAIN conf \cup {b} /\ conf'[b] = NewConf
      /\ \A x \in DOMAIN conf : conf'[x] = conf[x]
      /\ b \notin DOMAIN conf /\ b \notin merged /\ b \notin merged'
      /\ UNCHANGED <<module, arrays, metrics, servers, merged, written>>
  BY <1>0 DEF TypeInv
<1>2. /\ \A x, kind : In(x, kind)' = In(x, kind)
      /\ Effective' = Effective /\ Nearest' = Nearest
      /\ \A x : Own(x)' = Own(x)
      /\ \A p : Alike(p)' = Alike(p)
  BY <1>1, SameFile
<1>3. \A x : Alone(x)' = Alone(x) /\ Spoken(x)' = Spoken(x)
  BY <1>1, <1>2 DEF Alone, Spoken
<1>4. \A kind : In(b, kind) = <<>>
  BY <1>0, <1>1, NothingIn DEF TypeInv
<1>5. Alone(b) /\ Own(b) = Null
  BY <1>1, <1>4 DEF Alone, Own
<1>6. Exclusive'
  BY <1>1 DEF Kept, Exclusive, NewConf
<1>7. MetricsInv'
  <2>1. \A x \in DOMAIN conf : Origins(x)' = Origins(x)
    BY <1>0, <1>1, SameOrigins
  <2>2. Origins(b)' = <<>>
    BY <1>1 DEF Origins, NewConf
  <2> QED BY <1>1, <1>2, <1>3, <1>4, <1>5, <2>1, <2>2 DEF Kept, MetricsInv
<1>8. ServersInv'
  <2>1. \A n : Server(n)' = Server(n)
    BY <1>1 DEF Server
  <2>2. \A x \in DOMAIN conf : \A n : Obeys(x, n)' = Obeys(x, n)
    BY <1>1, <2>1 DEF Obeys
  <2>3. Obeys(b, Null)' /\ conf'[b].server = Unset /\ conf'[b].enable = Unset
    BY <1>1 DEF Obeys, NewConf
  <2>4. Spoken(b) = Null
    BY <1>5 DEF Spoken
  <2> QED BY <1>1, <1>2, <1>3, <1>5, <2>1, <2>2, <2>3, <2>4 DEF Kept, ServersInv
<1>9. FirstInv'
  BY <1>1, <1>2 DEF Kept, FirstInv, Server
<1>10. AsksInv'
  BY <1>1 DEF Kept, AsksInv
<1> QED BY <1>6, <1>7, <1>8, <1>9, <1>10 DEF Kept

(* What a server directive that is accepted says is what its block has.    *)
LEMMA ServerSays ==
  ASSUME TypeInv, NEW d \in ServerArgs,
         IF IsOff(d) THEN ServerOff
         ELSE IF SameServers(d) # {} THEN ServerFound(d) ELSE ServerNew(d)
  PROVE  /\ IsOff(d) => servers' = servers /\ conf'[cur].enable = 0 /\ conf'[cur].server = conf[cur].server
         /\ ~IsOff(d) =>
              /\ conf'[cur].enable = 1 /\ conf'[cur].server \in DOMAIN servers'
              /\ servers'[conf'[cur].server].param = Param(d)
              /\ \/ servers' = servers
                 \/ /\ \A j \in DOMAIN servers : servers[j].param # Param(d)
                    /\ servers \in Seq(ServerSet)
                    /\ servers' = Append(servers, [param |-> Param(d), flush |-> d.flush, ready |-> FALSE])
<1>1. /\ cur \in DOMAIN conf /\ servers \in Seq(ServerSet)
      /\ conf \in [DOMAIN conf -> [confs : {Null} \cup DOMAIN arrays,
                                   server : {Unset, Null} \cup DOMAIN servers,
                                   enable : {Unset, 0, 1}]]
  BY DEF TypeInv
<1>2. CASE IsOff(d)
  BY <1>1, <1>2 DEF ServerOff
<1>3. CASE ~IsOff(d) /\ SameServers(d) # {}
  <2> DEFINE i == CHOOSE j \in SameServers(d) : TRUE
  <2>1. i \in DOMAIN servers /\ servers[i].param = Param(d)
    BY <1>3 DEF SameServers
  <2>2. servers' = servers /\ conf' = [conf EXCEPT ![cur].server = i, ![cur].enable = 1]
    BY <1>3 DEF ServerFound
  <2> HIDE DEF i
  <2> QED BY <1>1, <1>3, <2>1, <2>2
<1>4. CASE ~IsOff(d) /\ SameServers(d) = {}
  <2> DEFINE srv == [param |-> Param(d), flush |-> d.flush, ready |-> FALSE]
  <2>1. \A j \in DOMAIN servers : servers[j].param # Param(d)
    BY <1>4 DEF SameServers
  <2>2. /\ servers' = Append(servers, srv)
        /\ conf' = [conf EXCEPT ![cur].server = Len(servers'), ![cur].enable = 1]
    BY <1>4 DEF ServerNew
  <2>3. srv.param = Param(d)
    OBVIOUS
  <2> HIDE DEF srv
  <2>4. Len(servers') \in DOMAIN servers' /\ servers'[Len(servers')] = srv
    BY <1>1, <2>2
  <2> QED BY <1>1, <1>4, <2>1, <2>2, <2>3, <2>4 DEF srv
<1> QED BY <1>2, <1>3, <1>4

(* The first directives with their parameters stay so: a new one comes     *)
(* last.                                                                   *)
LEMMA FirstMore ==
  ASSUME TypeInv, FirstInv, NEW d \in ServerArgs, Write("server", d),
         IF IsOff(d) THEN ServerOff
         ELSE IF SameServers(d) # {} THEN ServerFound(d) ELSE ServerNew(d)
  PROVE  FirstInv'
<1> DEFINE n == Len(written')
<1>1. /\ n \in Nat /\ n \in DOMAIN written' /\ n \notin DOMAIN written
      /\ DOMAIN written' = DOMAIN written \cup {n}
      /\ \A i \in DOMAIN written : written'[i] = written[i] /\ i <= n
      /\ written'[n].kind = "server" /\ written'[n].arg = d
  <2>1. /\ Len(written) \in Nat /\ n = Len(written) + 1 /\ n \notin DOMAIN written
        /\ DOMAIN written' = DOMAIN written \cup {n}
        /\ \A i \in DOMAIN written : written'[i] = written[i]
        /\ written'[n] = [block |-> cur, kind |-> "server", arg |-> d]
    BY Written
  <2>2. DOMAIN written = 1..Len(written)
    BY DEF TypeInv
  <2> QED BY <2>1, <2>2
<1>2. n <= n
  BY <1>1
<1> HIDE DEF n
<1> DEFINE After(p) == {i \in DOMAIN written' : /\ written'[i].kind = "server" /\ ~IsOff(written'[i].arg)
                                                /\ Param(written'[i].arg) = p}
<1>3. \A p : After(p) = IF ~IsOff(d) /\ Param(d) = p THEN Alike(p) \cup {n} ELSE Alike(p)
  BY <1>1 DEF Alike, Server
<1> HIDE DEF After
<1>4. \A p : Alike(p) \subseteq DOMAIN written
  BY DEF Alike
<1>5. \A j \in DOMAIN servers : \E i \in After(servers[j].param) :
        servers[j].flush = written'[i].arg.flush /\ \A k \in After(servers[j].param) : i <= k
  <2> SUFFICES ASSUME NEW j \in DOMAIN servers
               PROVE  \E i \in After(servers[j].param) :
                        servers[j].flush = written'[i].arg.flush /\ \A k \in After(servers[j].param) : i <= k
    OBVIOUS
  <2>1. PICK p : p = servers[j].param
    OBVIOUS
  <2>2. PICK i \in Alike(p) : servers[j].flush = Server(i).flush /\ \A k \in Alike(p) : i <= k
    BY <2>1 DEF FirstInv
  <2>3. i \in DOMAIN written /\ i <= n /\ written'[i].arg = Server(i)
    BY <1>1, <1>4, <2>2 DEF Server
  <2>4. i \in After(p) /\ \A k \in After(p) : i <= k
    BY <1>3, <2>2, <2>3
  <2> QED BY <2>1, <2>2, <2>3, <2>4
<1>6. CASE servers' = servers
  <2>1. \A i \in DOMAIN written' : written'[i].kind = "server" /\ ~IsOff(written'[i].arg) =>
          \E j \in DOMAIN servers : servers[j].param = Param(written'[i].arg)
    <3>1. ~IsOff(d) => \E j \in DOMAIN servers : servers[j].param = Param(d)
      BY <1>6, ServerSays
    <3> QED BY <1>1, <3>1 DEF FirstInv, Server
  <2> QED BY <1>5, <1>6, <2>1 DEF FirstInv, Alike, Server, After
<1>7. CASE servers' # servers
  <2> DEFINE srv == [param |-> Param(d), flush |-> d.flush, ready |-> FALSE]
  <2>1. /\ ~IsOff(d) /\ servers \in Seq(ServerSet) /\ servers' = Append(servers, srv)
        /\ \A j \in DOMAIN servers : servers[j].param # Param(d)
    BY <1>7, ServerSays
  <2>2. srv.param = Param(d) /\ srv.flush = d.flush
    OBVIOUS
  <2> HIDE DEF srv
  <2>3. PICK l : l = Len(servers')
    OBVIOUS
  <2>4. /\ DOMAIN servers' = DOMAIN servers \cup {l} /\ servers'[l] = srv
        /\ \A j \in DOMAIN servers : servers'[j] = servers[j]
    BY <2>1, <2>3
  <2>5. Alike(Param(d)) = {}
    BY <2>1 DEF Alike, FirstInv
  <2>6. /\ n \in After(Param(d)) /\ srv.flush = written'[n].arg.flush
        /\ \A k \in After(Param(d)) : n <= k
    BY <1>1, <1>2, <1>3, <2>1, <2>2, <2>5 DEF Server
  <2>7. \A j \in DOMAIN servers' : \E i \in After(servers'[j].param) :
          servers'[j].flush = written'[i].arg.flush /\ \A k \in After(servers'[j].param) : i <= k
    BY <1>5, <2>2, <2>4, <2>6
  <2>8. \A i \in DOMAIN written' : written'[i].kind = "server" /\ ~IsOff(written'[i].arg) =>
          \E j \in DOMAIN servers' : servers'[j].param = Param(written'[i].arg)
    BY <1>1, <2>2, <2>4 DEF FirstInv, Server
  <2> QED BY <2>7, <2>8 DEF FirstInv, Alike, Server, After
<1> QED BY <1>6, <1>7

(* A block that a server directive is accepted in has none but such as are *)
(* off before it.                                                          *)
LEMMA ServerKept ==
  ASSUME Inv, PlacesInv, Kept, NEW d \in ServerArgs, ServerDirective(d), ~Refuse
  PROVE  Kept'
<1>0. TypeInv /\ phase = "parse" /\ merged = {Main} /\ Write("server", d)
  BY DEF Inv, ServerDirective, Directive, PhaseInv
<1>1. /\ IF IsOff(d) THEN ServerOff
         ELSE IF SameServers(d) # {} THEN ServerFound(d) ELSE ServerNew(d)
      /\ conf[cur].server = Unset
      /\ UNCHANGED <<module, phase, cur, arrays, metrics, merged>>
  BY DEF ServerDirective
<1>2. /\ servers' \in Seq(ServerSet) /\ DOMAIN servers \subseteq DOMAIN servers' /\ DOMAIN conf' = DOMAIN conf
      /\ \A b \in DOMAIN conf : conf'[b].confs = conf[b].confs /\ (b # cur => conf'[b] = conf[b])
  BY <1>0, <1>1, ServerEffect
<1>3. PICK n : n = Len(written')
  OBVIOUS
<1>4. \A b, k : In(b, k)' = IF b = cur /\ k = "server" THEN Append(In(b, k), n) ELSE In(b, k)
  BY <1>0, <1>3, InMore
<1>5. /\ n \notin DOMAIN written /\ n # Null
      /\ \A i \in DOMAIN written : Server(i)' = Server(i)
      /\ Server(n)' = d
  <2>1. /\ Len(written) \in Nat /\ n = Len(written) + 1 /\ n \notin DOMAIN written
        /\ \A i \in DOMAIN written : written'[i] = written[i]
        /\ written'[n] = [block |-> cur, kind |-> "server", arg |-> d]
    BY <1>0, <1>3, Written
  <2>2. n # Null
    BY <2>1 DEF Null
  <2> QED BY <2>1, <2>2 DEF Server
<1>7. \A b : Alone(b) /\ Alone(b)'
  BY <1>0, <1>1 DEF Alone
<1>8. \A b : Own(b)' = IF b = cur THEN n ELSE Own(b)
  <2> SUFFICES ASSUME NEW b PROVE Own(b)' = IF b = cur THEN n ELSE Own(b)
    OBVIOUS
  <2>1. CASE b = cur
    <3>1. PICK old, new : old = In(b, "server") /\ new = In(b, "server")'
      OBVIOUS
    <3>2. new = Append(old, n) /\ old \in Seq(DOMAIN written)
      BY <1>4, <2>1, <3>1 DEF PlacesInv
    <3>3. new # <<>> /\ Last(new) = n
      BY <3>2 DEF Last
    <3> QED BY <2>1, <3>1, <3>3 DEF Own
  <2>2. CASE b # cur
    BY <1>4, <2>2 DEF Own
  <2> QED BY <2>1, <2>2
<1>9. Exclusive'
  BY <1>1, <1>2 DEF Kept, Exclusive
<1>10. MetricsInv'
  <2>1. \A b \in DOMAIN conf : Origins(b)' = Origins(b)
    BY <1>0, <1>1, <1>2, SameOrigins
  <2>2. \A b : In(b, "metric")' = In(b, "metric")
    BY <1>4
  <2> QED BY <1>2, <1>7, <2>1, <2>2 DEF Kept, MetricsInv
<1>11. ServersInv'
  <2>1. ASSUME NEW b \in DOMAIN conf, b # cur
        PROVE  /\ Obeys(b, Own(b))' /\ (Own(b) = Null => conf[b].server = Unset /\ conf[b].enable = Unset)'
               /\ (Own(b) # Null /\ IsOff(Server(Own(b))) => conf[b].server = Unset)'
    <3>1. /\ Obeys(b, Own(b))
          /\ Own(b) = Null => conf[b].server = Unset /\ conf[b].enable = Unset
          /\ Own(b) # Null /\ IsOff(Server(Own(b))) => conf[b].server = Unset
      BY <1>7 DEF Kept, ServersInv, Spoken
    <3>2. Own(b)' = Own(b) /\ conf'[b] = conf[b]
      BY <1>2, <1>8, <2>1
    <3>3. Own(b) # Null => Own(b) \in DOMAIN written
      BY <1>0, OwnFacts
    <3>4. \A j \in DOMAIN servers : servers'[j].param = servers[j].param /\ j \in DOMAIN servers'
      <4>1. CASE servers' = servers
        BY <4>1
      <4>2. CASE servers' # servers
        <5> DEFINE srv == [param |-> Param(d), flush |-> d.flush, ready |-> FALSE]
        <5>1. servers' = Append(servers, srv) /\ servers \in Seq(ServerSet)
          BY <1>0, <1>1, <4>2, ServerSays
        <5> HIDE DEF srv
        <5> QED BY <5>1
      <4> QED BY <4>1, <4>2
    <3>5. PICK m : m = Own(b) /\ m = Own(b)'
      BY <3>2
    <3>6. Obeys(b, m) /\ (m # Null => Server(m)' = Server(m))
      <4>1. Obeys(b, m)
        BY <3>1, <3>5
      <4>2. m # Null => m \in DOMAIN written
        BY <3>3, <3>5
      <4> QED BY <1>5, <4>1, <4>2
    <3>7. Obeys(b, m)'
      <4>1. CASE m = Null
        BY <3>2, <3>6, <4>1 DEF Obeys
      <4>2. CASE m # Null /\ IsOff(Server(m))
        BY <3>2, <3>6, <4>2 DEF Obeys
      <4>3. CASE m # Null /\ ~IsOff(Server(m))
        BY <3>2, <3>4, <3>6, <4>3 DEF Obeys
      <4> QED BY <4>1, <4>2, <4>3
    <3> QED BY <3>1, <3>2, <3>5, <3>6, <3>7
  <2>2. /\ Obeys(cur, Own(cur))' /\ (Own(cur) # Null)'
        /\ (IsOff(Server(Own(cur))) => conf[cur].server = Unset)'
    <3>1. Own(cur)' = n /\ cur' = cur
      BY <1>1, <1>8
    <3>2. IsOff(d) => conf'[cur].enable = 0 /\ conf'[cur].server = Unset
      BY <1>0, <1>1, ServerSays
    <3>3. ~IsOff(d) => /\ conf'[cur].enable = 1 /\ conf'[cur].server \in DOMAIN servers'
                       /\ servers'[conf'[cur].server].param = Param(d)
      BY <1>0, <1>1, ServerSays
    <3> QED BY <1>5, <3>1, <3>2, <3>3 DEF Obeys
  <2> QED BY <1>1, <1>2, <1>7, <2>1, <2>2 DEF ServersInv, Spoken
<1>12. FirstInv'
  BY <1>0, <1>1, FirstMore DEF Kept
<1>13. AsksInv'
  BY <1>1 DEF Kept, AsksInv
<1> QED BY <1>9, <1>10, <1>11, <1>12, <1>13 DEF Kept

(* The fold that Indexed is                                                *)
LEMMA IndexedIs ==
  ASSUME NEW ms
  PROVE  Indexed(ms) = IndexRec!Fold(<<>>, {}, ms)
BY DEF Indexed, IndexOp, FoldLeft, MapThenFoldSet, Max, IndexRec!Fold, IndexRec!FoldLeft,
       IndexRec!MapThenFoldSet, IndexRec!Max

(* The same step is made at each metric.                                   *)
LEMMA IndexedRepeats == IndexRec!RepeatsOp
BY DEF IndexRec!RepeatsOp, IndexDef, Max, IndexRec!Max

(* What a metric directive makes                                           *)
LEMMA MetricMade ==
  ASSUME NEW items \in MetricArgs, NEW o \in Nat
  PROVE  LET m == Metric(Parsed(items), o)
         IN m \in MetricSet /\ m.origin = o /\ Asks(m) = Asks(Parsed(items))
<1>1. \A d \in BOOLEAN : \A t \in Nat :
        [refs |-> Parsed(items).refs, exists |-> Parsed(items).exists,
         keys |-> Parsed(items).keys, timeout |-> Parsed(items).timeout,
         phase |-> Parsed(items).phase, disable |-> d, last |-> t, origin |-> o] \in MetricSet
  BY DEF MetricSet
<1>2. FALSE \in BOOLEAN /\ 0 \in Nat
  OBVIOUS
<1>3. Metric(Parsed(items), o) \in MetricSet
  BY <1>1, <1>2, Zenon DEF Metric
<1> QED BY <1>3 DEF Metric, Asks

(* A metric goes to the end of its block's, and to no other block's.       *)
LEMMA MetricKept ==
  ASSUME Inv, PlacesInv, Kept, NEW items \in MetricArgs, MetricDirective(items), ~Refuse
  PROVE  Kept'
<1>0. TypeInv /\ phase = "parse" /\ merged = {Main} /\ Write("metric", items)
  BY DEF Inv, MetricDirective, Directive, PhaseInv
<1>1. PICK o : o = Len(written')
  OBVIOUS
<1>2. /\ o \in Nat /\ o \notin DOMAIN written /\ DOMAIN written' = DOMAIN written \cup {o}
      /\ (\A i \in DOMAIN written : written'[i] = written[i])
      /\ written'[o].kind = "metric"
  <2>1. /\ Len(written) \in Nat /\ o = Len(written) + 1 /\ o \notin DOMAIN written
        /\ DOMAIN written' = DOMAIN written \cup {o}
        /\ (\A i \in DOMAIN written : written'[i] = written[i])
        /\ written'[o] = [block |-> cur, kind |-> "metric", arg |-> items]
    BY <1>0, <1>1, Written
  <2> QED BY <2>1
<1>3. PICK m \in MetricSet : /\ m = Metric(Parsed(items), o) /\ m.origin = o
                             /\ Asks(m) = Asks(Parsed(items))
  BY <1>2, MetricMade
<1>4. Push(m) /\ UNCHANGED <<module, phase, cur, servers, merged, now, call, calls, made>>
  BY <1>1, <1>3 DEF MetricDirective
<1>5. PICK n : n = Len(metrics')
  OBVIOUS
<1>6. /\ n \notin DOMAIN metrics /\ DOMAIN metrics' = DOMAIN metrics \cup {n} /\ metrics'[n] = m
      /\ (\A i \in DOMAIN metrics : metrics'[i] = metrics[i])
      /\ DOMAIN conf' = DOMAIN conf
      /\ \A b \in DOMAIN conf : /\ conf'[b].server = conf[b].server /\ conf'[b].enable = conf[b].enable
                                /\ b # cur => conf'[b] = conf[b]
      /\ conf'[cur].confs # Null
  BY <1>0, <1>4, <1>5, PushEffect
<1>7. /\ conf[cur].confs = Null =>
           conf'[cur].confs \notin DOMAIN arrays /\ arrays'[conf'[cur].confs] = <<n>>
      /\ conf[cur].confs # Null =>
           conf' = conf /\ arrays'[conf[cur].confs] = Append(Array(cur), n)
      /\ \A k \in DOMAIN arrays : k # conf[cur].confs => arrays'[k] = arrays[k]
  BY <1>0, <1>4, <1>5, PushEffect
<1>8. \A b, k : In(b, k)' = IF b = cur /\ k = "metric" THEN Append(In(b, k), o) ELSE In(b, k)
  BY <1>0, <1>1, InMore
<1>9. \A b : Alone(b) /\ Alone(b)'
  BY <1>0, <1>4 DEF Alone
<1>10. /\ \A b : Own(b)' = Own(b)
       /\ \A p : Alike(p)' = Alike(p)
       /\ \A i \in DOMAIN written : Server(i)' = Server(i)
  <2>1. \A i \in DOMAIN written : Server(i)' = Server(i)
    BY <1>2 DEF Server
  <2>2. \A p : Alike(p)' = Alike(p)
    BY <1>2, <2>1 DEF Alike
  <2>3. \A b : In(b, "server")' = In(b, "server")
    BY <1>8
  <2> QED BY <2>1, <2>2, <2>3 DEF Own
<1>11. \A b \in DOMAIN conf : conf[b].confs # Null => conf[b].confs \in DOMAIN arrays
  BY <1>0 DEF TypeInv
<1>12. \A b \in DOMAIN conf : b # cur /\ conf[b].confs # Null => conf[b].confs # conf[cur].confs
  BY <1>0 DEF Kept, Exclusive, TypeInv
<1>13. Exclusive'
  <2>1. ASSUME NEW b \in DOMAIN conf, b # cur, conf'[b].confs # Null PROVE conf'[b].confs # conf'[cur].confs
    BY <1>6, <1>7, <1>11, <1>12, <2>1
  <2> QED BY <1>4, <1>6, <2>1 DEF Kept, Exclusive
<1>14. MetricsInv'
  <2>1. ASSUME NEW b \in DOMAIN conf, b # cur PROVE Origins(b)' = Origins(b)
    BY <1>0, <1>6, <1>7, <1>11, <1>12, <2>1, SameOrigins
  <2>2. Origins(cur)' = Append(Origins(cur), o)
    <3>1. CASE conf[cur].confs = Null
      <4>1. Origins(cur) = <<>>
        BY <3>1 DEF Origins
      <4>2. Origins(cur)' = [i \in 1..1 |-> metrics'[<<n>>[i]].origin]
        BY <1>4, <1>6, <1>7, <3>1 DEF Origins
      <4>3. \A i \in 1..1 : metrics'[<<n>>[i]].origin = o
        BY <1>3, <1>6
      <4> QED BY <4>1, <4>2, <4>3
    <3>2. CASE conf[cur].confs # Null
      <4>1. PICK q : q = Array(cur)
        OBVIOUS
      <4>2. cur \in DOMAIN conf
        BY <1>0 DEF TypeInv
      <4>3. q \in Seq(DOMAIN metrics)
        BY <1>0, <3>2, <4>1, <4>2, ArrayType
      <4>4. Origins(cur) = [i \in 1..Len(q) |-> metrics[q[i]].origin]
        BY <3>2, <4>1 DEF Origins, Array
      <4>5. PICK r : r = Append(q, n)
        OBVIOUS
      <4>6. Origins(cur)' = [i \in 1..Len(r) |-> metrics'[r[i]].origin]
        BY <1>4, <1>7, <3>2, <4>1, <4>5 DEF Origins
      <4>7. /\ Len(q) \in Nat /\ Len(r) = Len(q) + 1 /\ r[Len(q)+1] = n
            /\ \A i \in 1..Len(q) : r[i] = q[i] /\ q[i] \in DOMAIN metrics
        BY <4>3, <4>5
      <4>8. /\ metrics'[r[Len(q)+1]].origin = o
            /\ \A i \in 1..Len(q) : metrics'[r[i]].origin = metrics[q[i]].origin
        BY <1>3, <1>6, <4>7
      <4>9. [i \in 1..Len(q)+1 |-> metrics'[r[i]].origin] =
              Append([i \in 1..Len(q) |-> metrics[q[i]].origin], o)
        BY <4>7, <4>8
      <4> QED BY <4>4, <4>6, <4>7, <4>9
    <3> QED BY <3>1, <3>2
  <2>3. \A b : In(b, "metric")' = IF b = cur THEN Append(In(b, "metric"), o) ELSE In(b, "metric")
    BY <1>8
  <2>4. cur' = cur /\ cur \in DOMAIN conf
    BY <1>0, <1>4 DEF TypeInv
  <2> QED BY <1>6, <1>9, <2>1, <2>2, <2>3, <2>4 DEF Kept, MetricsInv
<1>15. ServersInv'
  <2> SUFFICES ASSUME NEW b \in DOMAIN conf
               PROVE  /\ Obeys(b, Own(b))'
                      /\ (Own(b) = Null => conf[b].server = Unset /\ conf[b].enable = Unset)'
                      /\ (Own(b) # Null /\ IsOff(Server(Own(b))) => conf[b].server = Unset)'
    BY <1>6, <1>9 DEF ServersInv, Spoken
  <2>1. PICK k : k = Own(b) /\ k = Own(b)'
    BY <1>10
  <2>2. /\ Obeys(b, k)
        /\ k = Null => conf[b].server = Unset /\ conf[b].enable = Unset
        /\ k # Null /\ IsOff(Server(k)) => conf[b].server = Unset
    BY <1>9, <2>1 DEF Kept, ServersInv, Spoken
  <2>3. k # Null => Server(k)' = Server(k)
    BY <1>0, <1>10, <2>1, OwnFacts
  <2>4. conf'[b].server = conf[b].server /\ conf'[b].enable = conf[b].enable /\ servers' = servers
    BY <1>4, <1>6
  <2>5. Obeys(b, k)'
    <3>1. CASE k = Null
      BY <2>2, <2>4, <3>1 DEF Obeys
    <3>2. CASE k # Null /\ IsOff(Server(k))
      BY <2>2, <2>3, <2>4, <3>2 DEF Obeys
    <3>3. CASE k # Null /\ ~IsOff(Server(k))
      BY <2>2, <2>3, <2>4, <3>3 DEF Obeys
    <3> QED BY <3>1, <3>2, <3>3
  <2> QED BY <2>1, <2>2, <2>3, <2>4, <2>5
<1>16. FirstInv'
  <2>1. servers' = servers /\ FirstInv /\ \A p : Alike(p) \subseteq DOMAIN written
    BY <1>4 DEF Kept, Alike
  <2>2. \A j \in DOMAIN servers :
          \E i \in Alike(servers[j].param) :
            servers[j].flush = Server(i)'.flush /\ \A k \in Alike(servers[j].param) : i <= k
    BY <1>10, <2>1 DEF FirstInv
  <2>3. \A i \in DOMAIN written' : written'[i].kind = "server" /\ ~IsOff(Server(i)') =>
          \E j \in DOMAIN servers : servers[j].param = Param(Server(i)')
    BY <1>2, <1>10, <2>1 DEF FirstInv
  <2> QED BY <1>10, <2>1, <2>2, <2>3 DEF FirstInv
<1>17. AsksInv'
  <2>1. module = "stream" => Asks(m) = {}
    BY <1>3, ParsedFacts DEF MetricDirective
  <2> QED BY <1>4, <1>6, <2>1 DEF Kept, AsksInv
<1> QED BY <1>13, <1>14, <1>15, <1>16, <1>17 DEF Kept

(* A block's places are numbers.                                           *)
LEMMA OriginsType ==
  ASSUME TypeInv, NEW b \in DOMAIN conf
  PROVE  Origins(b) \in Seq(Nat)
<1>1. CASE conf[b].confs = Null
  BY <1>1 DEF Origins
<1>2. CASE conf[b].confs # Null
  <2>1. PICK q : q = Array(b)
    OBVIOUS
  <2>2. q \in Seq(DOMAIN metrics) /\ \A i \in 1..Len(q) : q[i] \in DOMAIN metrics
    BY <1>2, <2>1, ArrayType
  <2>3. \A i \in 1..Len(q) : metrics[q[i]].origin \in Nat
    BY <2>2, Fields DEF TypeInv
  <2>4. Origins(b) = [i \in 1..Len(q) |-> metrics[q[i]].origin]
    BY <1>2, <2>1 DEF Origins, Array
  <2> QED BY <2>2, <2>3, <2>4
<1> QED BY <1>1, <1>2

(* What a merge does to the array of its block, and what it leaves alone   *)
LEMMA MergedArray ==
  ASSUME TypeInv, NEW b \in Inner, Merge(b)
  PROVE  LET c == conf[b].confs
             p == conf[Parent[b]].confs
             q == arrays[p]
             r == arrays[c]
             s == arrays'[c]
         IN /\ p = Null \/ c = Null => arrays' = arrays /\ metrics' = metrics
            /\ \A i \in DOMAIN metrics : i \in DOMAIN metrics' /\ metrics'[i] = metrics[i]
            /\ \A k \in DOMAIN arrays : k # c => arrays'[k] = arrays[k]
            /\ \A j \in DOMAIN metrics' : \E i \in DOMAIN metrics : metrics'[j] = metrics[i]
            /\ p # Null /\ c # Null =>
                 /\ Len(q) \in Nat /\ Len(r) \in Nat /\ Len(s) = Len(r) + Len(q)
                 /\ \A x \in 1..Len(r) : metrics'[s[x]] = metrics[r[x]]
                 /\ \A x \in 1..Len(q) : metrics'[s[Len(r)+x]] = metrics[q[x]]
<1> DEFINE c == conf[b].confs
           p == conf[Parent[b]].confs
           q == arrays[p]
           r == arrays[c]
           s == arrays'[c]
           k == Len(metrics)
<1>0. b \in DOMAIN conf /\ Parent[b] \in DOMAIN conf /\ (module = "stream" => Parent[b] = Main)
  BY MergeEffect
<1>1. /\ p # Null => p \in DOMAIN arrays /\ q \in Seq(DOMAIN metrics)
      /\ c # Null => c \in DOMAIN arrays /\ r \in Seq(DOMAIN metrics)
  BY <1>0, ArrayType DEF Array
<1>2. k \in Nat /\ DOMAIN metrics = 1..k /\ arrays \in Seq(Seq(DOMAIN metrics))
  BY DEF TypeInv
<1>3. CASE p = Null \/ c = Null
  <2>1. arrays' = arrays /\ metrics' = metrics
    BY <1>3 DEF Merge
  <2> QED BY <1>3, <2>1
<1>4. CASE p # Null /\ c # Null /\ module = "http"
  <2>1. metrics' = metrics /\ arrays' = [arrays EXCEPT ![c] = r \o q]
    BY <1>4 DEF Merge, HttpMerge
  <2> HIDE DEF c, p, q, r, s, k
  <2>2. arrays'[c] = r \o q /\ \A j \in DOMAIN arrays : j # c => arrays'[j] = arrays[j]
    BY <1>1, <1>2, <1>4, <2>1
  <2>3. /\ Len(q) \in Nat /\ Len(r) \in Nat /\ Len(r \o q) = Len(r) + Len(q)
        /\ \A x \in 1..Len(r) : (r \o q)[x] = r[x]
        /\ \A x \in 1..Len(q) : (r \o q)[Len(r)+x] = q[x]
    BY <1>1, <1>4
  <2>4. s = r \o q
    BY <2>2 DEF s
  <2> QED BY <1>4, <2>1, <2>2, <2>3, <2>4 DEF c, p, q, r, s
<1>5. CASE p # Null /\ c # Null /\ module = "stream"
  <2>1. \/ arrays' = arrays /\ metrics' = metrics /\ (conf[Main].confs = Null \/ c = Null)
        \/ /\ metrics' \in Seq(MetricSet) /\ Len(metrics') = k + Len(q)
           /\ \A i \in DOMAIN metrics : metrics'[i] = metrics[i]
           /\ \A i \in DOMAIN q : metrics'[k+i] = metrics[q[i]]
           /\ \A j \in DOMAIN arrays : j # c => arrays'[j] = arrays[j]
           /\ Len(s) = Len(r) + Len(q)
           /\ \A x \in DOMAIN r : s[x] = r[x]
           /\ \A x \in DOMAIN q : s[Len(r)+x] = k + x
    BY <1>0, <1>5, StreamMergeEffect
  <2>2. conf[Main].confs # Null
    BY <1>0, <1>5
  <2> HIDE DEF c, p, q, r, s, k
  <2>3. /\ Len(q) \in Nat /\ DOMAIN q = 1..Len(q) /\ \A x \in 1..Len(q) : q[x] \in DOMAIN metrics
        /\ Len(r) \in Nat /\ DOMAIN r = 1..Len(r) /\ \A x \in 1..Len(r) : r[x] \in DOMAIN metrics
    BY <1>1, <1>5
  <2>4. DOMAIN metrics' = 1..(k + Len(q))
    BY <1>2, <1>5, <2>1, <2>2, <2>3
  <2>5. \A i \in DOMAIN metrics : i \in DOMAIN metrics'
    BY <1>2, <2>3, <2>4
  <2>6. ASSUME NEW j \in DOMAIN metrics' PROVE \E i \in DOMAIN metrics : metrics'[j] = metrics[i]
    <3>1. CASE j \in 1..k
      BY <1>2, <1>5, <2>1, <2>2, <3>1
    <3>2. CASE j \notin 1..k
      <4>1. j - k \in 1..Len(q) /\ k + (j - k) = j
        BY <1>2, <2>3, <2>4, <3>2
      <4> QED BY <1>5, <2>1, <2>2, <2>3, <4>1
    <3> QED BY <3>1, <3>2
  <2>7. /\ \A x \in 1..Len(r) : metrics'[s[x]] = metrics[r[x]]
        /\ \A x \in 1..Len(q) : metrics'[s[Len(r)+x]] = metrics[q[x]]
    BY <1>5, <2>1, <2>2, <2>3
  <2> QED BY <1>5, <2>1, <2>2, <2>3, <2>5, <2>6, <2>7 DEF c, p, q, r, s
<1> QED BY <1>3, <1>4, <1>5 DEF TypeInv

(* A sequence made of two is the one and then the other.                   *)
LEMMA OneThenOther ==
  ASSUME NEW S, NEW u \in Seq(S), NEW v \in Seq(S), NEW w, w = [i \in 1..Len(u) + Len(v) |-> w[i]],
         \A i \in 1..Len(u) : w[i] = u[i], \A i \in 1..Len(v) : w[Len(u) + i] = v[i]
  PROVE  w = u \o v
<1> DEFINE m == Len(u)
           n == Len(v)
<1>1. m \in Nat /\ n \in Nat /\ m + n \in Nat
  OBVIOUS
<1>2. PICK t : t = u \o v
  OBVIOUS
<1>3. /\ t \in Seq(S) /\ Len(t) = m + n
      /\ \A i \in 1..m + n : t[i] = IF i <= m THEN u[i] ELSE v[i - m]
  BY <1>2, ConcatProperties
<1>4. w = [i \in 1..m + n |-> w[i]] /\ (\A i \in 1..m : w[i] = u[i]) /\ (\A i \in 1..n : w[m + i] = v[i])
  OBVIOUS
<1> HIDE DEF m, n
<1>5. t = [i \in 1..m + n |-> t[i]]
  BY <1>1, <1>3
<1>6. ASSUME NEW i \in 1..m + n PROVE w[i] = t[i]
  <2>1. CASE i <= m
    <3>1. i \in 1..m
      BY <1>1, <2>1
    <3> QED BY <1>3, <1>4, <2>1, <3>1
  <2>2. CASE ~(i <= m)
    <3>1. i - m \in 1..n /\ m + (i - m) = i
      BY <1>1, <2>2
    <3> QED BY <1>3, <1>4, <2>2, <3>1
  <2> QED BY <2>1, <2>2
<1> QED BY <1>2, <1>4, <1>5, <1>6

(* A merge gives a block what the block around it has, and nothing to any  *)
(* other block.                                                            *)
LEMMA MergeKept ==
  ASSUME Inv, PlacesInv, Kept, NEW b \in Inner, Merge(b)
  PROVE  Kept'
<1> DEFINE par == Parent[b]
           c == conf[b].confs
           p == conf[par].confs
<1>0. /\ TypeInv /\ merged' = merged \cup {b}
      /\ UNCHANGED <<module, phase, cur, servers, now, call, calls, written, made>>
  BY DEF Inv, Merge
<1>1. /\ b \in DOMAIN conf /\ b \notin merged /\ b # Main /\ par \in DOMAIN conf /\ par \in merged
      /\ DOMAIN conf' = DOMAIN conf /\ \A x \in DOMAIN conf : x # b => conf'[x] = conf[x]
      /\ conf'[b].confs = IF c = Null THEN p ELSE c
  BY <1>0, MergeEffect
<1>2. /\ p = Null \/ c = Null => arrays' = arrays /\ metrics' = metrics
      /\ \A i \in DOMAIN metrics : i \in DOMAIN metrics' /\ metrics'[i] = metrics[i]
      /\ \A k \in DOMAIN arrays : k # c => arrays'[k] = arrays[k]
      /\ \A j \in DOMAIN metrics' : \E i \in DOMAIN metrics : metrics'[j] = metrics[i]
  BY <1>0, MergedArray
<1>3. /\ \A x, kind : In(x, kind)' = In(x, kind)
      /\ Effective' = Effective /\ Nearest' = Nearest
      /\ \A x : Own(x)' = Own(x)
      /\ \A a : Alike(a)' = Alike(a)
  BY <1>0, SameFile
<1>4. /\ \A x : x # b => Alone(x)' = Alone(x) /\ Spoken(x)' = Spoken(x)
      /\ Alone(b) /\ ~Alone(b)' /\ Spoken(b) = Own(b) /\ Spoken(b)' = Nearest[b]
  BY <1>0, <1>1, <1>3 DEF Alone, Spoken
<1>5. \A x \in DOMAIN conf : x # b /\ conf[x].confs = c => c = Null
  BY <1>1 DEF Kept, Exclusive
<1>6. Exclusive'
  <2> SUFFICES ASSUME NEW x \in DOMAIN conf, NEW y \in DOMAIN conf, x # y,
                      conf'[x].confs = conf'[y].confs, conf'[x].confs # Null
               PROVE  x \in merged'
    BY <1>1 DEF Exclusive
  <2>1. CASE x # b /\ y # b
    BY <1>0, <1>1, <2>1 DEF Kept, Exclusive
  <2>2. CASE x = b
    BY <1>0, <2>2
  <2>3. CASE y = b
    <3>1. conf[x].confs = p /\ p # Null
      BY <1>1, <1>5, <2>3
    <3> QED BY <1>0, <1>1, <3>1 DEF Kept, Exclusive
  <2> QED BY <2>1, <2>2, <2>3
<1>7. MetricsInv'
  <2>1. ASSUME NEW x \in DOMAIN conf, x # b PROVE Origins(x)' = Origins(x)
    <3>1. conf[x].confs # Null => conf[x].confs \in DOMAIN arrays /\ conf[x].confs # c
      BY <1>0, <1>5, <2>1 DEF TypeInv
    <3>2. conf'[x].confs = conf[x].confs /\ (conf[x].confs # Null => arrays'[conf[x].confs] = arrays[conf[x].confs])
      BY <1>1, <1>2, <2>1, <3>1
    <3> QED BY <1>0, <1>2, <3>2, SameOrigins
  <2>2. Origins(par) = Effective[par]
    <3>1. CASE par = Main
      <4>1. Effective[Main] = In(Main, "metric") \o <<>>
        BY EffectiveHolds
      <4>2. In(Main, "metric") \o <<>> = In(Main, "metric")
        BY DEF PlacesInv
      <4>3. Origins(Main) = In(Main, "metric")
        BY <1>1, <3>1 DEF Kept, MetricsInv, Alone
      <4> QED BY <3>1, <4>1, <4>2, <4>3
    <3>2. CASE par # Main
      BY <1>1, <3>2 DEF Kept, MetricsInv, Alone
    <3> QED BY <3>1, <3>2
  <2>3. Origins(b) = In(b, "metric")
    BY <1>1, <1>4 DEF Kept, MetricsInv
  <2>4. Effective[b] = In(b, "metric") \o Effective[par]
    BY <1>1, EffectiveHolds
  <2>5. Origins(b)' = Origins(b) \o Origins(par)
    <3>0. Origins(b) \in Seq(Nat) /\ Origins(par) \in Seq(Nat)
      BY <1>0, <1>1, OriginsType
    <3>1. CASE c = Null
      <4>1. conf'[b].confs = p /\ arrays' = arrays /\ metrics' = metrics
        BY <1>1, <1>2, <3>1
      <4>2. Origins(b)' = Origins(par)
        BY <4>1 DEF Origins
      <4>3. Origins(b) = <<>>
        BY <3>1 DEF Origins
      <4> QED BY <3>0, <4>2, <4>3
    <3>2. CASE c # Null /\ p = Null
      <4>1. conf'[b].confs = c /\ arrays' = arrays /\ metrics' = metrics
        BY <1>1, <1>2, <3>2
      <4>2. Origins(b)' = Origins(b)
        BY <4>1 DEF Origins
      <4>3. Origins(par) = <<>>
        BY <3>2 DEF Origins
      <4> QED BY <3>0, <4>2, <4>3
    <3>3. CASE c # Null /\ p # Null
      <4>1. PICK q, r, s : q = arrays[p] /\ r = arrays[c] /\ s = arrays'[c]
        OBVIOUS
      <4>2. /\ Len(q) \in Nat /\ Len(r) \in Nat /\ Len(s) = Len(r) + Len(q)
            /\ \A x \in 1..Len(r) : metrics'[s[x]] = metrics[r[x]]
            /\ \A x \in 1..Len(q) : metrics'[s[Len(r)+x]] = metrics[q[x]]
        BY <1>0, <3>3, <4>1, MergedArray
      <4>3. /\ Origins(b) = [i \in 1..Len(r) |-> metrics[r[i]].origin]
            /\ Origins(par) = [i \in 1..Len(q) |-> metrics[q[i]].origin]
            /\ Origins(b)' = [i \in 1..Len(s) |-> metrics'[s[i]].origin]
        BY <1>1, <3>3, <4>1 DEF Origins
      <4>4. PICK u, v, w : u = Origins(b) /\ v = Origins(par) /\ w = Origins(b)'
        OBVIOUS
      <4>5. /\ u \in Seq(Nat) /\ v \in Seq(Nat) /\ Len(u) = Len(r) /\ Len(v) = Len(q)
            /\ w = [i \in 1..Len(u) + Len(v) |-> w[i]]
            /\ \A i \in 1..Len(u) : w[i] = u[i]
            /\ \A i \in 1..Len(v) : w[Len(u) + i] = v[i]
        <5>1. Len(u) = Len(r) /\ Len(v) = Len(q)
          BY <3>0, <4>2, <4>3, <4>4
        <5>2. w = [i \in 1..Len(u) + Len(v) |-> w[i]]
          BY <4>2, <4>3, <4>4, <5>1
        <5>3. \A i \in 1..Len(u) : w[i] = u[i]
          BY <4>2, <4>3, <4>4, <5>1
        <5>4. \A i \in 1..Len(v) : w[Len(u) + i] = v[i]
          BY <4>2, <4>3, <4>4, <5>1
        <5> QED BY <3>0, <4>4, <5>1, <5>2, <5>3, <5>4
      <4>6. w = u \o v
        BY <4>5, OneThenOther
      <4> QED BY <4>4, <4>6
    <3> QED BY <3>1, <3>2, <3>3
  <2>6. Origins(b)' = Effective[b]
    BY <2>2, <2>3, <2>4, <2>5
  <2> QED BY <1>1, <1>3, <1>4, <2>1, <2>6 DEF Kept, MetricsInv
<1>8. ServersInv'
  <2>0. (\A n : Server(n)' = Server(n)) /\ servers' = servers
    BY <1>0 DEF Server
  <2>1. ASSUME NEW x \in DOMAIN conf, x # b
        PROVE  /\ Obeys(x, Spoken(x))'
               /\ (Alone(x) /\ Own(x) = Null => conf[x].server = Unset /\ conf[x].enable = Unset)'
               /\ (Alone(x) /\ Own(x) # Null /\ IsOff(Server(Own(x))) => conf[x].server = Unset)'
    <3>1. \A n : Obeys(x, n)' = Obeys(x, n)
      BY <1>1, <2>0, <2>1 DEF Obeys
    <3> QED BY <1>1, <1>3, <1>4, <2>0, <2>1, <3>1 DEF Kept, ServersInv
  <2>2. Obeys(par, Nearest[par])
    <3>1. CASE par = Main
      <4>1. Nearest[Main] = Own(Main)
        BY NearestHolds DEF Own
      <4> QED BY <1>1, <3>1, <4>1 DEF Kept, ServersInv, Spoken, Alone
    <3>2. CASE par # Main
      BY <1>1, <3>2 DEF Kept, ServersInv, Spoken, Alone
    <3> QED BY <3>1, <3>2
  <2>3. /\ Obeys(b, Own(b))
        /\ Own(b) = Null => conf[b].server = Unset /\ conf[b].enable = Unset
        /\ Own(b) # Null => Nearest[b] = Own(b)
        /\ Own(b) = Null => Nearest[b] = Nearest[par]
    <3>1. /\ Obeys(b, Own(b))
          /\ Own(b) = Null => conf[b].server = Unset /\ conf[b].enable = Unset
      BY <1>1, <1>4 DEF Kept, ServersInv
    <3>2. CASE In(b, "server") = <<>>
      <4>1. Own(b) = Null /\ Nearest[b] = Nearest[par]
        BY <1>1, <3>2, NearestHolds DEF Own
      <4> QED BY <3>1, <4>1
    <3>3. CASE In(b, "server") # <<>>
      <4>1. Nearest[b] = Own(b)
        BY <3>3, NearestHolds DEF Own
      <4>2. Own(b) # Null
        BY <1>0, <3>3, OwnFacts
      <4> QED BY <3>1, <4>1, <4>2
    <3> QED BY <3>2, <3>3
  <2>4. PICK n : n = Nearest[b]
    OBVIOUS
  <2>5. /\ conf'[b].server = MergeValue(conf[b].server, conf[par].server, Null)
        /\ conf'[b].enable = MergeValue(conf[b].enable, conf[par].enable, 0)
    <3>1. conf' = [conf EXCEPT ![b] = MergeConf(conf[b], conf[par])]
      BY DEF Merge
    <3>2. conf \in [DOMAIN conf -> [confs : {Null} \cup DOMAIN arrays,
                                    server : {Unset, Null} \cup DOMAIN servers,
                                    enable : {Unset, 0, 1}]]
      BY <1>0 DEF TypeInv
    <3> QED BY <1>1, <3>1, <3>2 DEF MergeConf
  <2>6. \A j \in DOMAIN servers : j # Unset
    BY <1>0 DEF TypeInv, Unset
  <2>7. Obeys(b, n)'
    <3>1. CASE Own(b) # Null
      <4>1. Obeys(b, n) /\ n # Null
        BY <2>3, <2>4, <3>1
      <4>2. CASE IsOff(Server(n))
        BY <2>0, <2>5, <4>1, <4>2 DEF Obeys, MergeValue, Unset
      <4>3. CASE ~IsOff(Server(n))
        BY <2>0, <2>5, <2>6, <4>1, <4>3 DEF Obeys, MergeValue, Unset
      <4> QED BY <4>2, <4>3
    <3>2. CASE Own(b) = Null
      <4>1. Obeys(par, n) /\ conf[b].server = Unset /\ conf[b].enable = Unset
        BY <2>2, <2>3, <2>4, <3>2
      <4>2. /\ conf'[b].server = IF conf[par].server # Unset THEN conf[par].server ELSE Null
            /\ conf'[b].enable = IF conf[par].enable # Unset THEN conf[par].enable ELSE 0
        BY <2>5, <4>1 DEF MergeValue
      <4>3. CASE n = Null
        BY <4>1, <4>2, <4>3 DEF Obeys
      <4>4. CASE n # Null /\ IsOff(Server(n))
        BY <2>0, <4>1, <4>2, <4>4 DEF Obeys, Unset
      <4>5. CASE n # Null /\ ~IsOff(Server(n))
        BY <2>0, <2>6, <4>1, <4>2, <4>5 DEF Obeys, Unset
      <4> QED BY <4>3, <4>4, <4>5
    <3> QED BY <3>1, <3>2
  <2>8. Obeys(b, Spoken(b))'
    BY <1>4, <2>4, <2>7
  <2> QED BY <1>1, <1>4, <2>1, <2>8 DEF ServersInv
<1>9. FirstInv'
  <2>1. servers' = servers /\ written' = written
    BY <1>0
  <2> QED BY <1>3, <2>1 DEF Kept, FirstInv, Server
<1>10. AsksInv'
  BY <1>0, <1>2 DEF Kept, AsksInv
<1> QED BY <1>6, <1>7, <1>8, <1>9, <1>10 DEF Kept

(* What initialisation and calls leave of a metric and of a server         *)
LEMMA OtherFields ==
  ASSUME NEW m \in MetricSet
  PROVE  /\ \A d \in BOOLEAN : LET n == [m EXCEPT !.disable = d]
              IN n.exists = m.exists /\ n.origin = m.origin /\ n.refs = m.refs /\ n.keys = m.keys
         /\ \A t \in Nat : LET n == [m EXCEPT !.last = t] IN Asks(n) = Asks(m) /\ n.origin = m.origin
<1>1. PICK items \in MetricArgs, d \in BOOLEAN, t \in Nat, o \in Nat :
        m = [refs |-> Parsed(items).refs, exists |-> Parsed(items).exists,
             keys |-> Parsed(items).keys, timeout |-> Parsed(items).timeout,
             phase |-> Parsed(items).phase, disable |-> d, last |-> t, origin |-> o]
  BY DEF MetricSet
<1> QED BY <1>1 DEF Asks

(* A server that gets ready keeps its parameters and its flush.            *)
LEMMA ServerFields ==
  ASSUME NEW s \in ServerSet
  PROVE  [s EXCEPT !.ready = TRUE].param = s.param /\ [s EXCEPT !.ready = TRUE].flush = s.flush
<1>1. PICK d \in ServerArgs, r \in BOOLEAN : s = [param |-> Param(d), flush |-> d.flush, ready |-> r]
  BY DEF ServerSet
<1> QED BY <1>1

(* Initialisation changes what metrics and servers are ready for only.     *)
LEMMA StartFields ==
  ASSUME TypeInv, Start
  PROVE  /\ DOMAIN metrics' = DOMAIN metrics /\ DOMAIN servers' = DOMAIN servers
         /\ \A i \in DOMAIN metrics :
              /\ metrics'[i].origin = metrics[i].origin /\ metrics'[i].exists = metrics[i].exists
              /\ metrics'[i].refs = metrics[i].refs /\ metrics'[i].keys = metrics[i].keys
         /\ \A j \in DOMAIN servers : servers'[j].param = servers[j].param /\ servers'[j].flush = servers[j].flush
<1>1. metrics \in Seq(MetricSet) /\ servers \in Seq(ServerSet)
  BY DEF TypeInv
<1>2. /\ DOMAIN metrics' = DOMAIN metrics
      /\ \A i \in DOMAIN metrics :
           /\ metrics'[i].origin = metrics[i].origin /\ metrics'[i].exists = metrics[i].exists
           /\ metrics'[i].refs = metrics[i].refs /\ metrics'[i].keys = metrics[i].keys
  <2>1. CASE metrics' = metrics
    BY <2>1
  <2>2. CASE metrics' = HttpCompiled.metrics
    <3> DEFINE Off(i) == Disabled(Indexed(SubSeq(metrics, 1, i-1)), metrics[i])
               m(i) == [metrics[i] EXCEPT !.disable = Off(i)]
    <3>1. metrics' = [i \in DOMAIN metrics |-> m(i)]
      BY <2>2 DEF HttpCompiled
    <3>2. \A i : Off(i) \in BOOLEAN
      BY DEF Disabled
    <3> HIDE DEF Off
    <3>3. \A i \in DOMAIN metrics :
            /\ m(i).origin = metrics[i].origin /\ m(i).exists = metrics[i].exists
            /\ m(i).refs = metrics[i].refs /\ m(i).keys = metrics[i].keys
      BY <1>1, <3>2, OtherFields
    <3> HIDE DEF m
    <3> QED BY <3>1, <3>3
  <2> QED BY <2>1, <2>2 DEF Start, StreamCompiled
<1>3. /\ DOMAIN servers' = DOMAIN servers
      /\ \A j \in DOMAIN servers : servers'[j].param = servers[j].param /\ servers'[j].flush = servers[j].flush
  <2>1. CASE servers' = servers
    BY <2>1
  <2>2. CASE servers' = [i \in DOMAIN servers |-> [servers[i] EXCEPT !.ready = TRUE]]
    <3> DEFINE r(x) == [x EXCEPT !.ready = TRUE]
    <3>1. \A x \in ServerSet : r(x).param = x.param /\ r(x).flush = x.flush
      BY ServerFields
    <3>2. servers' = [i \in DOMAIN servers |-> r(servers[i])]
      BY <2>2
    <3> HIDE DEF r
    <3> QED BY <1>1, <3>1, <3>2
  <2> QED BY <2>1, <2>2 DEF Start
<1> QED BY <1>2, <1>3

(* A request's stats change neither the blocks nor what they have.         *)
LEMMA SendsKept ==
  ASSUME Inv, Kept, NEW b, NEW kind, NEW ph, NEW holds, NEW picked, NEW sent,
         Sends(kind, b, ph, holds, picked, sent)
  PROVE  Kept'
<1>0. TypeInv /\ metrics \in Seq(MetricSet) /\ now \in Nat
  BY DEF Inv, TypeInv
<1> DEFINE m(i) == [metrics[i] EXCEPT !.last = now]
<1>1. metrics' = [i \in DOMAIN metrics |-> IF i \in picked /\ metrics[i].timeout # 0 THEN m(i) ELSE metrics[i]]
  BY DEF Sends
<1>2. \A i \in DOMAIN metrics : m(i).origin = metrics[i].origin /\ Asks(m(i)) = Asks(metrics[i])
  BY <1>0, OtherFields
<1> HIDE DEF m
<1>3. /\ DOMAIN metrics' = DOMAIN metrics
      /\ \A i \in DOMAIN metrics : metrics'[i].origin = metrics[i].origin /\ Asks(metrics'[i]) = Asks(metrics[i])
  BY <1>1, <1>2
<1>4. UNCHANGED <<module, conf, arrays, servers, merged, written>>
  BY DEF Sends, Return
<1> QED BY <1>0, <1>3, <1>4, SettledKept

(* No step of the parser, of a merge or of a request parts what blocks     *)
(* have from what the file says.                                           *)
LEMMA NextKept ==
  ASSUME Inv, PlacesInv, phase # "refused" => Kept, [Next]_vars
  PROVE  PlacesInv' /\ (phase' # "refused" => Kept')
<1>0. TypeInv
  BY DEF Inv
<1>1. ASSUME written' = written PROVE PlacesInv'
  BY <1>1, SameFile DEF PlacesInv
<1>2. ASSUME Kept, UNCHANGED <<module, conf, arrays, metrics, servers, merged, written>>
      PROVE  PlacesInv' /\ Kept'
  <2>1. /\ DOMAIN metrics' = DOMAIN metrics /\ DOMAIN servers' = DOMAIN servers
        /\ \A i \in DOMAIN metrics : metrics'[i].origin = metrics[i].origin /\ Asks(metrics'[i]) = Asks(metrics[i])
        /\ \A j \in DOMAIN servers : servers'[j].param = servers[j].param /\ servers'[j].flush = servers[j].flush
    BY <1>2
  <2> QED BY <1>0, <1>1, <1>2, <2>1, SettledKept
<1>3. ASSUME NEW d \in ServerArgs, ServerDirective(d) PROVE PlacesInv' /\ (phase' # "refused" => Kept')
  <2>1. Write("server", d) /\ phase = "parse"
    BY <1>3 DEF ServerDirective, Directive
  <2>2. PlacesInv'
    BY <1>0, <2>1, PlacesMore
  <2>3. phase' # "refused" => ~Refuse
    BY DEF Refuse
  <2> QED BY <1>3, <2>1, <2>2, <2>3, ServerKept
<1>4. ASSUME NEW items \in MetricArgs, MetricDirective(items) PROVE PlacesInv' /\ (phase' # "refused" => Kept')
  <2>1. Write("metric", items) /\ phase = "parse"
    BY <1>4 DEF MetricDirective, Directive
  <2>2. PlacesInv'
    BY <1>0, <2>1, PlacesMore
  <2>3. phase' # "refused" => ~Refuse
    BY DEF Refuse
  <2> QED BY <1>4, <2>1, <2>2, <2>3, MetricKept
<1>5. ASSUME NEW b \in Inner, Open(b) PROVE PlacesInv' /\ Kept'
  <2>1. phase = "parse" /\ written' = written
    BY <1>5 DEF Open
  <2> QED BY <1>1, <1>5, <2>1, OpenKept
<1>6. ASSUME NEW b \in Inner, Merge(b) PROVE PlacesInv' /\ Kept'
  <2>1. phase = "merge" /\ written' = written
    BY <1>6 DEF Merge
  <2> QED BY <1>1, <1>6, <2>1, MergeKept
<1>7. ASSUME Close PROVE PlacesInv' /\ Kept'
  BY <1>2, <1>7 DEF Close
<1>8. ASSUME Start PROVE PlacesInv' /\ Kept'
  <2>1. phase = "merge" /\ UNCHANGED <<module, conf, arrays, merged, written>>
    BY <1>8 DEF Start
  <2>2. /\ DOMAIN metrics' = DOMAIN metrics /\ DOMAIN servers' = DOMAIN servers
        /\ \A i \in DOMAIN metrics : metrics'[i].origin = metrics[i].origin /\ Asks(metrics'[i]) = Asks(metrics[i])
        /\ \A j \in DOMAIN servers : servers'[j].param = servers[j].param /\ servers'[j].flush = servers[j].flush
    BY <1>0, <1>8, StartFields DEF Asks
  <2> QED BY <1>0, <1>1, <2>1, <2>2, SettledKept
<1>9. ASSUME Clock PROVE PlacesInv' /\ Kept'
  BY <1>2, <1>9 DEF Clock
<1>10. ASSUME NEW kind, NEW b, NEW rc, Call, Return(kind, b, rc, {}), Quiet PROVE PlacesInv' /\ Kept'
  BY <1>2, <1>10 DEF Call, Return, Quiet
<1>11. ASSUME NEW b, NEW kind, NEW ph, NEW holds, NEW picked, NEW sent, Call,
              Sends(kind, b, ph, holds, picked, sent)
       PROVE  PlacesInv' /\ Kept'
  <2>1. Kept /\ written' = written
    BY <1>11 DEF Call, Sends, Return
  <2> QED BY <1>1, <1>11, <2>1, SendsKept
<1>12. CASE Run
  <2>1. ASSUME NEW b \in DOMAIN conf, NEW holds \in BOOLEAN, NEW kind, NEW ph, Send(kind, b, ph, holds)
        PROVE  PlacesInv' /\ Kept'
    BY <1>10, <1>11, <2>1, SendCases
  <2>2. ASSUME NEW b \in DOMAIN conf, SendStat(b) PROVE PlacesInv' /\ Kept'
    BY <1>10, <2>2, StatReturns
  <2> QED BY <1>0, <1>9, <1>12, <2>1, <2>2, Calls
<1>13. CASE UNCHANGED vars
  <2>1. UNCHANGED <<phase, module, conf, arrays, metrics, servers, merged, written>>
    BY <1>13 DEF vars
  <2> QED BY <1>1, <1>2, <2>1
<1> QED BY <1>3, <1>4, <1>5, <1>6, <1>7, <1>8, <1>12, <1>13 DEF Next, Parse

(* What is written is what blocks have, unless the file is refused.        *)
Keeps == PlacesInv /\ (phase # "refused" => Kept)

(* The blocks keep to the file at every step that does not refuse it.      *)
THEOREM Keeping == Spec => []Keeps
<1>1. Init => Keeps
  <2> SUFFICES ASSUME Init PROVE Keeps
    OBVIOUS
  <2>0. conf = [x \in {Main} |-> NewConf] /\ DOMAIN conf = {Main} /\ conf[Main] = NewConf
    BY DEF Init
  <2>1. \A b, kind : In(b, kind) = <<>>
    BY InNone DEF Init
  <2>2. PlacesInv
    <3>1. ASSUME NEW q, q = <<>> PROVE q \in Seq(DOMAIN written) /\ DOMAIN q = {}
      BY <3>1
    <3> QED BY <2>1, <3>1 DEF PlacesInv
  <2>3. \A b : Own(b) = Null
    BY <2>1 DEF Own
  <2>4. Alone(Main) /\ Spoken(Main) = Null
    BY <2>3 DEF Alone, Spoken
  <2>5. Exclusive /\ FirstInv /\ AsksInv
    BY <2>0 DEF Init, Exclusive, FirstInv, AsksInv
  <2>6. MetricsInv
    <3>1. Origins(Main) = <<>>
      BY <2>0 DEF Origins, NewConf
    <3> QED BY <2>0, <2>1, <2>4, <3>1 DEF MetricsInv
  <2>7. ServersInv
    <3>1. Obeys(Main, Null)
      BY <2>0 DEF Obeys, NewConf
    <3> QED BY <2>0, <2>3, <2>4, <3>1 DEF ServersInv, NewConf
  <2> QED BY <2>2, <2>5, <2>6, <2>7 DEF Keeps, Kept
<1>2. Inv /\ Keeps /\ [Next]_vars => Keeps'
  BY NextKept DEF Keeps
<1> QED BY <1>1, <1>2, Invariance, PTL DEF Spec

(* Each block has the metrics written in it and in the blocks around it:   *)
(* an array is its block's alone until the block is merged.                *)
THEOREM MetricsAreInherited == Spec => []MetricsInherited
<1>1. Inv /\ Keeps => MetricsInherited
  <2> SUFFICES ASSUME Inv, Keeps, Running, NEW b \in Around PROVE Origins(b) = Effective[b]
    BY DEF MetricsInherited, Origins
  <2>1. Kept /\ merged = DOMAIN conf /\ b \in DOMAIN conf /\ b # Main
    BY BlocksAssumption DEF Inv, PhaseInv, Keeps, Running, Around, Inner
  <2> QED BY <2>1 DEF Kept, MetricsInv, Alone
<1> QED BY <1>1, Invariance, Keeping, PTL

(* Each block sends where the nearest server directive says: servers       *)
(* differ in their parameters, and each keeps those of its first           *)
(* directive.  No address may begin with "off", which is all the code      *)
(* looks at.                                                               *)
THEOREM ServersAreAsWritten == ASSUME OffWords = {"off"} PROVE Spec => []ServerAsWritten
<1>0. \A d : SaysOff(d) <=> IsOff(d)
  BY DEF SaysOff, IsOff
<1>1. Inv /\ Keeps => ServerAsWritten
  <2> SUFFICES ASSUME Inv, Keeps, Running, NEW b \in Around
               PROVE  LET n == Nearest[b]
                          c == conf[b]
                          equal == {i \in DOMAIN written : /\ written[i].kind = "server" /\ ~IsOff(Server(i))
                                                           /\ Param(Server(i)) = Param(Server(n))}
                      IN CASE n = Null -> c.server = Null
                           [] n # Null /\ IsOff(Server(n)) -> c.enable = 0
                           [] OTHER -> /\ c.enable = 1
                                       /\ servers[c.server].param = Param(Server(n))
                                       /\ servers[c.server].flush =
                                            Server(CHOOSE i \in equal : \A j \in equal : i <= j).flush
    BY <1>0 DEF ServerAsWritten
  <2>1. Kept /\ merged = DOMAIN conf /\ b \in DOMAIN conf /\ b # Main /\ FileInv /\ TypeInv
    BY BlocksAssumption DEF Inv, PhaseInv, Keeps, Running, Around, Inner
  <2>2. PICK n : n = Nearest[b]
    OBVIOUS
  <2>3. Obeys(b, n)
    BY <2>1, <2>2 DEF Kept, ServersInv, Spoken, Alone
  <2>4. n = Null => conf[b].server = Null
    BY <2>1, <2>3 DEF Obeys, FileInv, BlockInv
  <2>5. n # Null /\ IsOff(Server(n)) => conf[b].enable = 0
    BY <2>3 DEF Obeys
  <2>6. ASSUME n # Null, ~IsOff(Server(n))
        PROVE  /\ conf[b].enable = 1
               /\ servers[conf[b].server].param = Param(Server(n))
               /\ servers[conf[b].server].flush =
                    Server(CHOOSE i \in Alike(Param(Server(n))) : \A j \in Alike(Param(Server(n))) : i <= j).flush
    <3>1. /\ conf[b].enable = 1 /\ conf[b].server \in DOMAIN servers
          /\ servers[conf[b].server].param = Param(Server(n))
      BY <2>3, <2>6 DEF Obeys
    <3>2. PICK equal : equal = Alike(Param(Server(n)))
      OBVIOUS
    <3>3. PICK i \in equal : servers[conf[b].server].flush = Server(i).flush /\ \A j \in equal : i <= j
      BY <2>1, <3>1, <3>2 DEF Kept, FirstInv
    <3>4. \A j \in equal : j \in Nat
      BY <2>1, <3>2 DEF Alike, TypeInv
    <3>5. (CHOOSE j \in equal : \A k \in equal : j <= k) = i
      BY <3>3, <3>4
    <3> QED BY <3>1, <3>2, <3>3, <3>5
  <2> QED BY <2>2, <2>4, <2>5, <2>6 DEF Alike
<1> QED BY <1>1, Invariance, Keeping, PTL

(* The fold over the keys of a metric                                      *)
KeyOp(a, indexed, k) == CompileKey(indexed, k)
KeyDef(c, f, s) == IF s = {} THEN c[2] ELSE KeyOp(c[1], f[s \ {Max(s)}], c[3][Max(s)])
KeyRec == INSTANCE Lemmas WITH Def <- KeyDef, Op <- KeyOp

LEMMA KeysAre ==
  ASSUME NEW base, NEW keys
  PROVE  FoldLeft(CompileKey, base, keys) = KeyRec!Fold(<<>>, base, keys)
BY DEF KeyOp, FoldLeft, MapThenFoldSet, Max, KeyRec!Fold, KeyRec!FoldLeft, KeyRec!MapThenFoldSet, KeyRec!Max

(* The same step is made at each key.                                      *)
LEMMA KeysRepeat == KeyRec!RepeatsOp
BY DEF KeyRec!RepeatsOp, KeyDef, Max, KeyRec!Max

(* Keys that ask for what they may miss refer to what is defined, whatever *)
(* precedes them.                                                          *)
LEMMA KeysKnown ==
  ASSUME NEW keys, NEW l \in Nat, keys = [k \in 1..l |-> keys[k]],
         \A k \in 1..l : keys[k].refs \subseteq Known \/ ~(keys[k].exists \subseteq Known),
         NEW base, base \subseteq Known
  PROVE  FoldLeft(CompileKey, base, keys) \subseteq Known
<1> DEFINE seq(n) == [k \in 1..n |-> keys[k]]
           fold(n) == KeyRec!Fold(<<>>, base, seq(n))
           Small(x) == x \subseteq Known
           T == {n \in Nat : n <= l => Small(fold(n))}
<1>1. 0 \in T
  <2>1. DOMAIN seq(0) = {}
    OBVIOUS
  <2>2. fold(0) = base
    BY <2>1, KeysRepeat, KeyRec!FoldNone
  <2>3. Small(base)
    OBVIOUS
  <2> HIDE DEF fold, Small
  <2> QED BY <2>2, <2>3
<1>2. ASSUME NEW n \in Nat, n \in T PROVE n + 1 \in T
  <2> HIDE DEF Small, fold
  <2> SUFFICES ASSUME n + 1 <= l PROVE Small(fold(n+1))
    OBVIOUS
  <2>1. DOMAIN seq(n+1) = 1..n+1 /\ DOMAIN seq(n) = 1..n /\ \A i \in 1..n : seq(n)[i] = seq(n+1)[i]
    OBVIOUS
  <2>2. fold(n+1) = KeyOp(<<>>, fold(n), seq(n+1)[n+1])
    <3> HIDE DEF seq
    <3> QED BY <2>1, KeysRepeat, KeyRec!FoldOneMore DEF fold
  <2>3. seq(n+1)[n+1] = keys[n+1] /\ n + 1 \in 1..l
    OBVIOUS
  <2>4. Small(fold(n))
    BY <1>2
  <2> HIDE DEF seq
  <2>5. PICK f, k : f = fold(n) /\ k = keys[n+1]
    OBVIOUS
  <2>6. f \subseteq Known /\ Known \cup f = Known /\ (k.refs \subseteq Known \/ ~(k.exists \subseteq Known))
    BY <2>3, <2>4, <2>5 DEF Small
  <2>7. CompileKey(f, k) \subseteq Known
    BY <2>6 DEF CompileKey, Disabled
  <2>8. fold(n+1) = CompileKey(f, k)
    BY <2>2, <2>3, <2>5 DEF KeyOp
  <2> QED BY <2>7, <2>8 DEF Small
<1>3. l \in T
  <2> HIDE DEF T
  <2> QED BY <1>1, <1>2, KeyRec!SetInduction
<1>4. Small(fold(l))
  BY <1>3
<1>5. seq(l) = keys
  OBVIOUS
<1> QED BY <1>4, <1>5, KeysAre

(* A metric has a sequence of keys.                                        *)
LEMMA KeysType ==
  ASSUME NEW m \in MetricSet
  PROVE  LET l == Len(m.keys) IN l \in Nat /\ DOMAIN m.keys = 1..l /\ m.keys = [k \in 1..l |-> m.keys[k]]
<1>1. PICK items \in MetricArgs : m.keys = Parsed(items).keys
  BY DEF MetricSet
<1>2. m.keys \in Seq(KeysOf(items))
  BY <1>1, ParsedFacts
<1> QED BY <1>2

(* Guarded metrics refer to what is defined, whatever precedes them.       *)
LEMMA IndexedKnown ==
  ASSUME NEW ms, NEW l \in Nat, ms = [i \in 1..l |-> ms[i]],
         \A i \in 1..l : Guarded(ms[i]) /\ ms[i] \in MetricSet
  PROVE  Indexed(ms) \subseteq Known
<1> DEFINE seq(n) == [i \in 1..n |-> ms[i]]
           fold(n) == IndexRec!Fold(<<>>, {}, seq(n))
           Small(x) == x \subseteq Known
           T == {n \in Nat : n <= l => Small(fold(n))}
<1>1. 0 \in T
  <2>1. DOMAIN seq(0) = {}
    OBVIOUS
  <2>2. fold(0) = {}
    BY <2>1, IndexedRepeats, IndexRec!FoldNone
  <2>3. Small({})
    OBVIOUS
  <2> HIDE DEF fold, Small
  <2> QED BY <2>2, <2>3
<1>2. ASSUME NEW n \in Nat, n \in T PROVE n + 1 \in T
  <2> HIDE DEF Small, fold
  <2> SUFFICES ASSUME n + 1 <= l PROVE Small(fold(n+1))
    OBVIOUS
  <2>1. DOMAIN seq(n+1) = 1..n+1 /\ DOMAIN seq(n) = 1..n /\ \A i \in 1..n : seq(n)[i] = seq(n+1)[i]
    OBVIOUS
  <2>2. fold(n+1) = IndexOp(<<>>, fold(n), seq(n+1)[n+1])
    <3> HIDE DEF seq
    <3> QED BY <2>1, IndexedRepeats, IndexRec!FoldOneMore DEF fold
  <2>3. seq(n+1)[n+1] = ms[n+1] /\ n + 1 \in 1..l
    OBVIOUS
  <2>4. Small(fold(n))
    BY <1>2
  <2> HIDE DEF seq
  <2>5. PICK f, m : f = fold(n) /\ m = ms[n+1]
    OBVIOUS
  <2>6. f \subseteq Known /\ Guarded(m) /\ Known \cup f = Known /\ m \in MetricSet
    BY <2>3, <2>4, <2>5 DEF Small
  <2>7. CompileMetric(f, m) \subseteq Known
    <3>1. CASE Disabled(f, m)
      BY <2>6, <3>1 DEF CompileMetric
    <3>2. CASE ~Disabled(f, m)
      <4>1. /\ f \cup m.refs \subseteq Known
            /\ \A k \in DOMAIN m.keys : m.keys[k].refs \subseteq Known \/ ~(m.keys[k].exists \subseteq Known)
        BY <2>6, <3>2 DEF Disabled, Guarded
      <4>2. PICK keys, c : keys = m.keys /\ c = Len(keys)
        OBVIOUS
      <4>3. c \in Nat /\ keys = [k \in 1..c |-> keys[k]] /\ DOMAIN keys = 1..c
        BY <2>6, <4>2, KeysType
      <4>4. FoldLeft(CompileKey, f \cup m.refs, keys) \subseteq Known
        BY <4>1, <4>2, <4>3, KeysKnown
      <4> QED BY <3>2, <4>2, <4>4 DEF CompileMetric
    <3> QED BY <3>1, <3>2
  <2>8. fold(n+1) = CompileMetric(f, m)
    BY <2>2, <2>3, <2>5 DEF IndexOp
  <2> QED BY <2>7, <2>8 DEF Small
<1>3. l \in T
  <2> HIDE DEF T
  <2> QED BY <1>1, <1>2, IndexRec!SetInduction
<1>4. Small(fold(l))
  BY <1>3
<1>5. seq(l) = ms
  OBVIOUS
<1> QED BY <1>4, <1>5, IndexedIs

(* The end of the configuration refuses only metrics that are not guarded. *)
LEMMA StartRefuses ==
  ASSUME TypeInv, AsksInv, Start, \A i \in DOMAIN metrics : Guarded(metrics[i])
  PROVE  phase' = "run"
<1>1. PICK l \in Nat : l = Len(metrics) /\ DOMAIN metrics = 1..l /\ metrics = [i \in 1..l |-> metrics[i]]
  <2>1. metrics \in Seq(MetricSet)
    BY DEF TypeInv
  <2> QED BY <2>1
<1>2. CASE module = "http"
  <2>1. PICK ms : ms = metrics
    OBVIOUS
  <2>2. \A i \in 1..l : ms[i] \in MetricSet
    BY <1>1, <2>1 DEF TypeInv
  <2>3. Indexed(ms) \subseteq Known
    BY <1>1, <2>1, <2>2, IndexedKnown
  <2> QED BY <1>2, <2>1, <2>3 DEF Start, HttpCompiled
<1>3. CASE module = "stream"
  <2>1. \A i \in DOMAIN metrics : StreamRefs(metrics[i]) \subseteq Known
    BY <1>3 DEF AsksInv, Asks, Guarded, StreamRefs
  <2>2. UNION {StreamRefs(metrics[i]) : i \in DOMAIN metrics} \subseteq Known
    BY <2>1
  <2> QED BY <1>3, <2>2 DEF Start, StreamCompiled
<1> QED BY <1>2, <1>3 DEF TypeInv

(* nginx refuses a configuration only for what is wrong in the directive   *)
(* that ends it, or for a metric that is not guarded; but the stream       *)
(* module refuses aggregate_values=, too.                                  *)
THEOREM RefusedForACause == Spec => []RefusedForCause
<1>0. \A d : SaysOff(d) => IsOff(d)
  BY OffAssumption DEF SaysOff, IsOff
<1>1. Init => RefusedForCause
  BY DEF Init, RefusedForCause
<1>2. Inv /\ Keeps /\ RefusedForCause /\ [Next]_vars => RefusedForCause'
  <2> SUFFICES ASSUME Inv, Keeps, RefusedForCause, [Next]_vars PROVE RefusedForCause'
    OBVIOUS
  <2>0. TypeInv /\ PlacesInv /\ PhaseInv
    BY DEF Inv, Keeps
  <2>1. ASSUME phase' # "refused" PROVE RefusedForCause'
    BY <2>1 DEF RefusedForCause
  <2>2. ASSUME NEW d \in ServerArgs, ServerDirective(d), phase' = "refused" PROVE RefusedForCause'
    <3>1. /\ Write("server", d) /\ phase = "parse" /\ Refuse /\ Kept /\ merged = {Main}
          /\ conf[cur].server # Unset \/ (~IsOff(d) /\ ~Accepts(d))
      BY <2>0, <2>2 DEF ServerDirective, Directive, Keeps, PhaseInv
    <3>2. PICK n : n = Len(written')
      OBVIOUS
    <3>3. /\ n \notin DOMAIN written /\ \A i \in DOMAIN written : written'[i] = written[i]
          /\ written'[n].block = cur /\ written'[n].kind = "server" /\ written'[n].arg = d
      <4>1. /\ n \notin DOMAIN written /\ \A i \in DOMAIN written : written'[i] = written[i]
            /\ written'[n] = [block |-> cur, kind |-> "server", arg |-> d]
        BY <2>0, <3>1, <3>2, Written
      <4> QED BY <4>1
    <3>4. CASE ~IsOff(d) /\ ~Accepts(d)
      <4>1. module' = module /\ (~d.valid \/ (module = "stream" /\ d.values # Unset))
        BY <2>0, <3>1, <3>4 DEF Refuse, Accepts, HttpAccepts, StreamAccepts, TypeInv
      <4>2. ~SaysOff(d)
        BY <1>0, <3>4
      <4> QED BY <3>2, <3>3, <4>1, <4>2 DEF RefusedForCause
    <3>6. CASE conf[cur].server # Unset
      <4>1. PICK k : k = Own(cur)
        OBVIOUS
      <4>2. k # Null /\ ~IsOff(Server(k))
        <5>1. Alone(cur) /\ cur \in DOMAIN conf
          BY <2>0, <3>1 DEF Alone, TypeInv
        <5> QED BY <3>1, <3>6, <4>1, <5>1 DEF Kept, ServersInv
      <4>3. PICK b, old, new : b = cur /\ b = cur' /\ old = In(b, "server") /\ new = In(b, "server")'
        BY <3>1 DEF Refuse
      <4>4. PICK x \in DOMAIN old : old[x] = k /\ k \in DOMAIN written
        BY <2>0, <4>1, <4>2, <4>3, OwnFacts
      <4>5. cur' = cur /\ new = Append(old, n) /\ old \in Seq(DOMAIN written)
        <5>1. new = Append(old, n)
          BY <2>0, <3>1, <3>2, <4>3, InMore
        <5> QED BY <2>0, <4>3, <5>1 DEF PlacesInv
      <4>6. x \in DOMAIN new /\ new[x] = k
        BY <4>4, <4>5
      <4>7. k # n /\ Server(k)' = Server(k)
        BY <3>3, <4>4 DEF Server
      <4>8. \E y \in DOMAIN new : new[y] # n /\ ~SaysOff(written'[new[y]].arg)
        BY <1>0, <4>2, <4>6, <4>7 DEF Server
      <4>9. written'[n].block = cur /\ cur' = cur
        BY <3>3, <4>5
      <4> QED BY <3>2, <3>3, <4>3, <4>8, <4>9 DEF RefusedForCause, Server
    <3> QED BY <3>1, <3>4, <3>6
  <2>3. ASSUME NEW items \in MetricArgs, MetricDirective(items), phase' = "refused" PROVE RefusedForCause'
    <3>1. Write("metric", items) /\ phase = "parse"
      BY <2>3 DEF MetricDirective, Directive
    <3>2. ~WellFormed(items)
      BY <2>3, <3>1, ParsedFacts DEF MetricDirective
    <3>3. written'[Len(written')] = [block |-> cur, kind |-> "metric", arg |-> items]
      BY <2>0, <3>1, Written
    <3>4. written'[Len(written')].kind = "metric" /\ written'[Len(written')].arg = items
      BY <3>3
    <3> QED BY <3>2, <3>4 DEF RefusedForCause
  <2>4. ASSUME Start, phase' = "refused" PROVE RefusedForCause'
    <3>1. Kept
      BY <2>4 DEF Start, Keeps
    <3>2. PICK i \in DOMAIN metrics : ~Guarded(metrics[i])
      BY <2>0, <2>4, <3>1, StartRefuses DEF Kept
    <3>3. i \in DOMAIN metrics' /\ ~Guarded(metrics'[i])
      BY <2>0, <2>4, <3>2, StartFields DEF Guarded
    <3> QED BY <3>3 DEF RefusedForCause
  <2>5. CASE Parse
    BY <2>1, <2>2, <2>3, <2>5 DEF Parse, Open, Close
  <2>6. CASE \E b \in Inner : Merge(b)
    BY <2>1, <2>6 DEF Merge
  <2>7. CASE Run
    <3>1. ASSUME Clock PROVE RefusedForCause'
      BY <2>1, <3>1 DEF Clock
    <3>2. ASSUME NEW kind, NEW b, NEW rc, NEW sent, Call, Return(kind, b, rc, sent) PROVE RefusedForCause'
      BY <2>1, <3>2 DEF Call, Return
    <3>3. ASSUME NEW b \in DOMAIN conf, NEW holds \in BOOLEAN, NEW kind, NEW ph, Send(kind, b, ph, holds)
          PROVE  RefusedForCause'
      <4>1. ASSUME NEW picked, NEW sent, Sends(kind, b, ph, holds, picked, sent), Call PROVE RefusedForCause'
        BY <3>2, <4>1 DEF Sends
      <4> QED BY <3>2, <3>3, <4>1, SendCases
    <3>4. ASSUME NEW b \in DOMAIN conf, SendStat(b) PROVE RefusedForCause'
      BY <3>2, <3>4, StatReturns
    <3> QED BY <2>0, <2>7, <3>1, <3>3, <3>4, Calls
  <2>8. CASE UNCHANGED vars
    <3>1. UNCHANGED <<module, phase, metrics, written>>
      BY <2>8 DEF vars
    <3>2. \A b, kind : In(b, kind)' = In(b, kind)
      BY <3>1, SameFile
    <3> QED BY <3>1, <3>2 DEF RefusedForCause, Server
  <2> QED BY <2>1, <2>4, <2>5, <2>6, <2>7, <2>8 DEF Next
<1> QED BY <1>1, <1>2, Invariance, Keeping, PTL DEF Spec
=============================================================================
