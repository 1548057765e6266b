-------------------------------- MODULE MCTL --------------------------------
(***************************************************************************)
(* Stats of every type, with names and keys on both sides of the lengths   *)
(* at which the form of a string changes.                                  *)
(***************************************************************************)
EXTENDS TL

CONSTANTS MCLens, MCMaxKeys, MCMaxValues

MCStrings == {[id |-> "s", len |-> n] : n \in MCLens}
MCKeys == UNION {[1..k -> [name : {[id |-> "k", len |-> 2]}, value : MCStrings]] : k \in 0..MCMaxKeys}
MCValues == UNION {{[i \in 1..k |-> i]} : k \in 1..MCMaxValues}

MCStats ==
  {stat \in [type : {"counter", "value", "unique"}, name : MCStrings, keys : MCKeys,
             values : MCValues] : stat.type = "counter" => Len(stat.values) = 1}
=============================================================================
