------------------------------ MODULE MCConfig ------------------------------
(***************************************************************************)
(* An http block with two servers and a location in the first, or a stream *)
(* block with the two servers.                                             *)
(***************************************************************************)
EXTENDS ConfigProps

CONSTANTS http, front, back, images    \* model values: the blocks

MCParent == [b \in {front, back, images} |-> IF b = images THEN front ELSE http]

To(addr, alone, values, flush) ==
  [addr |-> addr, alone |-> alone, valid |-> TRUE, params |-> "default",
   values |-> values, flush |-> flush]

East(alone, values, flush) == To("east", alone, values, flush)

MCServerArgs == {East(TRUE, Unset, 1000), East(FALSE, Unset, 50), East(FALSE, 8, 1000),
                 [East(FALSE, Unset, 50) EXCEPT !.valid = FALSE], To("off", TRUE, Unset, 1000)}

(* An address that begins with "off" *)
MCOffServerArgs == {East(TRUE, Unset, 1000), To("offshore", TRUE, Unset, 1000)}

Item(dir, refs, exists, n) == [dir |-> dir, refs |-> refs, exists |-> exists, slot |-> 1, n |-> n]

MCMetricArgs ==
  {<<Item("value", {"known"}, {}, 0), Item("timeout", {}, {}, 1)>>,
   <<Item("count", {}, {}, 0), Item("phase", {}, {}, "start"), Item("key", {"missing"}, {"missing"}, 0)>>,
   <<Item("exists", {}, {"missing"}, 0), Item("value", {"missing"}, {}, 0)>>,
   <<Item("key", {"missing"}, {}, 0), Item("value", {"known"}, {}, 0)>>,
   <<Item("value", {"known"}, {}, 0), Item("count", {}, {}, 0)>>}
=============================================================================
