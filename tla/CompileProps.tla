---------------------------- MODULE CompileProps ----------------------------
(***************************************************************************)
(* What ngx_statshouse_stat_compile() promises.                            *)
(***************************************************************************)
EXTENDS Compile

(* What a comma-separated list says: the pieces between the commas. *)
Pieces(str) ==
  LET cuts == {0, Len(str) + 1} \cup {i \in DOMAIN str : str[i] = ","}
      cut == [k \in 0..Cardinality(cuts)-1 |->
                CHOOSE c \in cuts : Cardinality({d \in cuts : d < c}) = k]
  IN [k \in 1..Cardinality(cuts)-1 |-> SubSeq(str, cut[k-1] + 1, cut[k] - 1)]

Blank(s) == \A i \in DOMAIN s : s[i] = " "

(* A piece without the spaces before it and one space after it. *)
Cleaned(s) ==
  LET text == {i \in DOMAIN s : s[i] # " "}
  IN IF text = {} THEN <<>>
     ELSE LET upto == IF s[Len(s)] = " " THEN Len(s) - 1 ELSE Len(s)
              rest == SubSeq(s, Min(text), upto)
          IN IF rest = <<"-">> THEN <<>> ELSE rest

(* A list that ends in a comma has no last piece, and none before it if    *)
(* that is blank too.                                                      *)
Listed(str) ==
  LET p    == Pieces(str)
      n    == Len(p)
      size == IF ~Blank(p[n]) THEN n
              ELSE IF n > 1 /\ Blank(p[n-1]) THEN n - 2 ELSE n - 1
  IN [k \in 1..size |-> Cleaned(p[k])]

AtMost(s) == SubSeq(s, 1, Min({Len(s), SplitsMax}))

----------------------------------------------------------------------------
(* A text in which the code sees no group delimiter.  In other texts it    *)
(* may read past the end or follow a NULL pointer.                         *)
Clean(t) == \A p \in DOMAIN t.str : ~IsGroupDelimiter(t, p)
CleanRequest(r) == Clean(r.value) /\ \A i \in DOMAIN r.keys : Clean(r.keys[i])

(* The texts of the value, and the keys that have a text to show with the  *)
(* parts of those that are split                                           *)
ListedValues(c, r) ==
  AtMost(IF c.split THEN Listed(r.value.str)
         ELSE IF r.value.str = <<>> THEN <<>> ELSE <<r.value.str>>)

Shown(c, r) ==
  {i \in DOMAIN c.keys : c.keys[i].named /\ ~c.keys[i].disable /\ ~IsEmpty(r.keys[i].str)}

ListedParts(c, r) ==
  [i \in {k \in Shown(c, r) : c.keys[k].split} |-> AtMost(Listed(r.keys[i].str))]

(* What stat j counts: those beyond the parts of a split value zero, those *)
(* beyond a whole value the same again                                     *)
ValueOf(c, values, j) ==
  LET number(v) == IF v = <<>> THEN Zero ELSE v
  IN IF j <= Len(values) THEN number(values[j])
     ELSE IF c.split THEN Zero ELSE number(values[1])

(* The keys of stat j, with key i if stat j has it *)
WithKeyOf(c, r, parts, j, keys, i) ==
  IF i \in Shown(c, r) /\ (c.keys[i].split => j <= Len(parts[i]))
    THEN Append(keys, [key |-> i, val |-> IF c.keys[i].split THEN parts[i][j] ELSE r.keys[i].str])
    ELSE keys

(* The stats that a metric is to make of a request, each by itself: stat j *)
(* has part j of the value and of every key that is split, and the keys    *)
(* that are not split whole.                                               *)
Expected(c, r) ==
  LET values == ListedValues(c, r)
      parts == ListedParts(c, r)
      size == Max({Len(values)} \cup {Len(parts[i]) : i \in DOMAIN parts})
      keys(j) == FoldLeft(LAMBDA keys, i : WithKeyOf(c, r, parts, j, keys, i),
                          <<>>, [i \in DOMAIN c.keys |-> i])
  IN IF \E v \in {values[j] : j \in DOMAIN values} : v # <<>> /\ ~Parses(c.type, v)
       THEN Answer("error")
     ELSE IF values = <<>> THEN Answer("declined")
     ELSE [rc |-> "ok",
           stats |-> [j \in 1..size |-> [value |-> ValueOf(c, values, j), keys |-> keys(j)]]]

----------------------------------------------------------------------------
(* The types of the variables.  A stat has one value, which is a number:   *)
(* ngx_statshouse_stat_init() has left it with none.                       *)
TypeOK ==
  /\ conf \in Confs
  /\ now \in 1..MaxTime /\ last \in 0..MaxTime /\ made \in 0..MaxTime
  /\ request # NoRequest <=> result # NoResult
  /\ result.rc \in {"none", "ok", "declined", "error", "fault"}
  /\ DOMAIN result.stats = 1..Len(result.stats)
  /\ \A j \in DOMAIN result.stats :
       /\ Parses("value", result.stats[j].value)
       /\ \A k \in DOMAIN result.stats[j].keys : result.stats[j].keys[k].key \in DOMAIN conf.keys

(* ngx_statshouse_stat_compile() adds the keys one after the other and     *)
(* opens stats as it goes; what comes out is what each stat is to be.  A   *)
(* number that does not parse leaves no stat at all.                       *)
StatsExact ==
  (request # NoRequest /\ CleanRequest(request) /\ ~request.fails /\ request.condition = "ok"
    /\ (conf.disable \/ conf.timeout # 0 => result.rc # "declined"))
  => result = Expected(conf, request)

(* server->splits has room for splits_max stats, keys[] for each key once. *)
WithinSplits ==
  /\ Len(result.stats) <= SplitsMax
  /\ result.rc = "ok" => result.stats # <<>>
  /\ \A j \in DOMAIN result.stats :
       LET keys == result.stats[j].keys
       IN \A a, b \in DOMAIN keys : a < b => keys[a].key < keys[b].key

(* Whatever becomes of the clock, stats of a metric with a timeout are     *)
(* made at times that lie the timeout apart.                               *)
Paced ==
  [][result'.rc = "ok" /\ result.rc = "none" /\ made # 0 => now - made >= conf.timeout]_vars
=============================================================================
