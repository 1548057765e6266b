-------------------------- MODULE MCAggregateTree --------------------------
(***************************************************************************)
(* Five series of which four have the same hash: errors, time and users    *)
(* tie on the record size too and differ in type, size has a larger one;   *)
(* hits has a smaller hash.                                                *)
(***************************************************************************)
EXTENDS AggregateTree

CONSTANTS errors, time, users, size, hits    \* model values: the series

MCSeries == {errors, time, users, size, hits}
MCKind == [s \in MCSeries |-> CASE s \in {errors, hits} -> "counter"
                                [] s = users -> "unique" [] OTHER -> "value"]
MCHash == [s \in MCSeries |-> IF s = hits THEN 1 ELSE 2]
MCKeyBytes == [s \in MCSeries |-> IF s = size THEN 2 ELSE 1]
=============================================================================
