-------------------------------- MODULE Tree --------------------------------
(***************************************************************************)
(* The red-black tree of the aggregator: the two functions of the module   *)
(* that walk it, ngx_statshouse_aggregate_insert_value() and               *)
(* ngx_statshouse_aggregate_lookup() (src/ngx_statshouse_aggregate.c).     *)
(* Rotations are nginx's: an insertion and a deletion leave some red-black *)
(* tree with the right nodes in the right order, and which one is open.    *)
(*                                                                         *)
(* A tree is its nodes from left to right and the depth of each, 0 at the  *)
(* root.  The depths say how the nodes are linked: a subtree is a span     *)
(* <<from, to>> of places, the shallowest of them is at its top, and the   *)
(* places on either side of that one are the two subtrees below.  A node   *)
(* is [off, key, size, type]: the record's place, hash, size and type.     *)
(***************************************************************************)
EXTENDS Integers, FiniteSets, SequencesExt

EmptyTree == [nodes |-> <<>>, depth |-> <<>>]

Spans(t) == (1..Len(t.nodes)+1) \X (0..Len(t.nodes))
Root(t) == <<1, Len(t.nodes)>>
Sentinel(s) == s[1] > s[2]

Top(t, s) == CHOOSE i \in s[1]..s[2] : \A j \in s[1]..s[2] : t.depth[i] <= t.depth[j]
Left(s, i) == <<s[1], i-1>>
Right(s, i) == <<i+1, s[2]>>

NotFound == -1

(* m goes to the left of n. *)
Before(m, n) == m.key < n.key \/ (m.key = n.key /\ m.size < n.size)

(* ngx_statshouse_aggregate_insert_value(): the place where n is linked    *)
Slot(t, n) ==
  LET descend[s \in Spans(t)] ==
        LET i == Top(t, s)
        IN IF Sentinel(s) THEN s[1]
           ELSE IF Before(n, t.nodes[i]) THEN descend[Left(s, i)]
           ELSE descend[Right(s, i)]
  IN descend[Root(t)]

(* Slip: sizes are compared the other way round. *)
TurnsLeftBySize(key, size, type, n) ==
  \/ key < n.key
  \/ key = n.key /\ size > n.size
  \/ key = n.key /\ size = n.size /\ n.type < type

(* Where the lookup goes from a node that is not the one looked for.  By   *)
(* type it turns against the order of the types, and the insertion does    *)
(* not look at the type at all.                                            *)
TurnsLeft(key, size, type, n) ==
  \/ key < n.key
  \/ key = n.key /\ size < n.size
  \/ key = n.key /\ size = n.size /\ n.type < type

(* ngx_statshouse_aggregate_lookup(): the record's place in the arena      *)
Walk(t, key, size, type) ==
  LET walk[s \in Spans(t)] ==
        LET i == Top(t, s)
            n == t.nodes[i]
        IN IF Sentinel(s) THEN NotFound
           ELSE IF <<key, size, type>> = <<n.key, n.size, n.type>> THEN n.off
           ELSE IF TurnsLeft(key, size, type, n) THEN walk[Left(s, i)]
           ELSE walk[Right(s, i)]
  IN walk[Root(t)]

----------------------------------------------------------------------------
(* nginx's ngx_rbtree *)

(* Of the places S, i has the least depth.                                 *)
Tops(depth, i, S) == \A k \in S \ {i} : depth[i] < depth[k]

(* The nodes above the one at j, and those above the sentinel between the  *)
(* places j and j+1                                                        *)
Above(depth, j) == {i \in DOMAIN depth \ {j} : Tops(depth, i, i..j \cup j..i)}
AboveGap(depth, j) == {i \in DOMAIN depth : Tops(depth, i, i..j \cup j+1..i)}

(* The depths are those of the nodes of one tree.                          *)
Linked(depth) ==
  /\ \A i \in DOMAIN depth : depth[i] = Cardinality(Above(depth, i))
  /\ \A i, j \in DOMAIN depth : i < j /\ depth[i] = depth[j] => \E k \in i..j : depth[k] < depth[i]

(* The root is black, no red node is linked to a red one, and as many      *)
(* black nodes are above each sentinel.                                    *)
RedBlack(depth) ==
  \E red \in SUBSET DOMAIN depth :
    /\ \A i \in red : depth[i] # 0 /\ \A j \in Above(depth, i) \cap red : depth[i] # depth[j] + 1
    /\ \A i, j \in 0..Len(depth) :
         Cardinality(AboveGap(depth, i) \ red) = Cardinality(AboveGap(depth, j) \ red)

(* What ngx_rbtree_insert() and ngx_rbtree_delete() may leave of nodes     *)
Balanced(nodes) ==
  {[nodes |-> nodes, depth |-> d] :
     d \in {e \in [DOMAIN nodes -> 0..Len(nodes)] : Linked(e) /\ RedBlack(e)}}

Inserted(t, n) == Balanced(InsertAt(t.nodes, Slot(t, n), n))
Deleted(t, off) == Balanced(RemoveAt(t.nodes, CHOOSE i \in DOMAIN t.nodes : t.nodes[i].off = off))
=============================================================================
