---------------------------- MODULE MCStatshouse ----------------------------
(***************************************************************************)
(* A series of counters and one of values; the arena holds two records,    *)
(* the buffer two or three metrics.                                        *)
(***************************************************************************)
EXTENDS StatshouseProps

CONSTANTS hits, time    \* model values: the series

MCSeries == {hits, time}
MCKind == [s \in MCSeries |-> IF s = hits THEN "counter" ELSE "value"]
MCHash == [s \in MCSeries |-> IF s = hits THEN 2 ELSE 1]
MCKeyBytes == [s \in MCSeries |-> 2]
MCMetricBytes == [s \in MCSeries |-> IF s = hits THEN 1 ELSE 3]
=============================================================================
