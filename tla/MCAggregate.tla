---------------------------- MODULE MCAggregate ----------------------------
(***************************************************************************)
(* Four series: errors and time tie on hash and record size and differ in  *)
(* type, size has the hash and the type of time and a smaller record, hits *)
(* has a hash of its own and a record of more than half the arena.         *)
(***************************************************************************)
EXTENDS AggregateProps

CONSTANTS errors, time, size, hits    \* model values: the series

MCSeries == {errors, time, size, hits}
MCKind == [s \in MCSeries |-> IF s \in {errors, hits} THEN "counter" ELSE "value"]
MCHash == [s \in MCSeries |-> IF s = hits THEN 2 ELSE 1]
MCKeyBytes == [s \in MCSeries |->
                 CASE s = size -> 1 [] s = time -> 2 [] s = errors -> 3 [] OTHER -> 5]
=============================================================================
