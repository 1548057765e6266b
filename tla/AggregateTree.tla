--------------------------- MODULE AggregateTree ---------------------------
(***************************************************************************)
(* The aggregator with its red-black tree.  Aggregate knows the tree as    *)
(* the set `index' and lets a lookup return any record that it may find;   *)
(* here the tree is there, and the lookup walks it.                        *)
(***************************************************************************)
EXTENDS AggregateProps, Tree

VARIABLE tree    \* aggregate->rbtree

treeVars == <<vars, tree>>

(* ngx_statshouse_stat_type_e *)
TypeNo(k) == CASE k = "counter" -> 1 [] k = "value" -> 2 [] k = "unique" -> 3

NodeOf(r) == [off |-> r.off, key |-> r.key, size |-> r.size, type |-> TypeNo(Kind[r.series])]

(* The position of the record that the lookup finds, 0 for none *)
Found(s) ==
  LET off == Walk(tree, Hash[s], RecSize(s), TypeNo(Kind[s]))
  IN IF off = NotFound THEN 0 ELSE CHOOSE i \in DOMAIN queue : queue[i].off = off

(* The tree without the record at position i, if there is one *)
Without(i) == IF i = 0 THEN {tree} ELSE Deleted(tree, queue[i].off)

(* The new record, which is the last of the queue, is linked. *)
Link(t) == tree' \in Inserted(t, NodeOf(queue'[Len(queue')]))

----------------------------------------------------------------------------
TreeInit == Init /\ tree = EmptyTree

TreeMerge(s) == MergeAt(s, Found(s)) /\ UNCHANGED tree

TreeStore(s) == StoreAt(s, Found(s)) /\ \E t \in Without(Found(s)) : Link(t)

TreeNeedSpace(s) == NeedSpaceAt(s, Found(s)) /\ tree' \in Without(Found(s))

(* Slip: the record stays in the tree. *)
TreeHandOverKept(rc) == HandOver(rc) /\ UNCHANGED tree

TreeHandOver(rc) ==
  /\ HandOver(rc)
  /\ tree' \in IF queue[1].key # 0 THEN Without(1) ELSE {tree}

TreeEndStored(rc) == EndStored(rc) /\ Link(tree)

TreeRequest == \E s \in Series : \/ Refuse(s) /\ UNCHANGED tree
                                 \/ TreeMerge(s) \/ TreeStore(s) \/ TreeNeedSpace(s)
TreeProcess ==
  \/ Enter /\ UNCHANGED tree
  \/ \E rc \in {"ok", "declined"} : TreeHandOver(rc)
  \/ \E rc \in ReturnCodes : \/ TreeEndStored(rc)
                             \/ (EndTimer(rc) \/ EndDeclined(rc) \/ EndFailed(rc)) /\ UNCHANGED tree
TreeRest == (Loop \/ Signal) /\ UNCHANGED tree

TreeNext == TreeRequest \/ TreeProcess \/ TreeRest

(* As in Aggregate *)
TreeFairness ==
  /\ WF_treeVars(TreeProcess)
  /\ WF_treeVars(TimerRuns /\ UNCHANGED tree) /\ WF_treeVars(Tick /\ UNCHANGED tree)

TreeSpec == TreeInit /\ [][TreeNext]_treeVars
TreeFairSpec == TreeSpec /\ TreeFairness

----------------------------------------------------------------------------
(* The tree links each open record of the queue once, as it was when it    *)
(* was linked, and nothing that was freed; its order is that by which      *)
(* insertions and lookups turn, whatever has been inserted and deleted.    *)
TreeExact ==
  LET nodes == tree.nodes
  IN /\ {nodes[i] : i \in DOMAIN nodes} = {NodeOf(queue[i]) : i \in {j \in DOMAIN queue : queue[j].key # 0}}
     /\ Len(nodes) = Cardinality(index)
     /\ \A i, j \in DOMAIN nodes : i < j => ~Before(nodes[j], nodes[i])

(* The walk finds what Aggregate says a lookup finds: the open record of   *)
(* the series whenever no record of another type ties with it, never the   *)
(* record of another series.                                               *)
AggregateImplemented == Spec
=============================================================================
