----------------------------- MODULE MCCompile -----------------------------
(***************************************************************************)
(* Metrics of every shape with three keys, and requests with every short   *)
(* list; delimiters of groups in the middle, at the end and past it.       *)
(***************************************************************************)
EXTENDS CompileProps

CONSTANTS MCShort, MCLength

MCStrings(length) == UNION {[1..n -> {"1", "-", ",", " "}] : n \in 0..length}
MCGroups == {<<"1", " ", ":", " ", "2", "2">>, <<"1", " ", ":", " ">>, <<" ", ":", " ">>}
MCLong == {<<"1", ",", "2", ",", "1">>, <<"1", ",", " ", "2", ",", "x">>, <<"1", "x">>}
MCPast == {[str |-> <<"1", ",", " ">>, after |-> <<":", " ">>]}

MCValues == {Text(s) : s \in MCStrings(MCShort) \cup MCGroups \cup MCLong} \cup MCPast
MCKeyTexts == {Text(s) : s \in {<<>>, <<"0">>, <<"x">>, <<"x", ",", "-">>,
                                <<"x", " ", ",", "2", ",", "1", ",", "1">>}}

MCRequests ==
  {[phase |-> "", condition |-> "ok", fails |-> FALSE, value |-> v, keys |-> <<k1, k2, k3>>] :
     v \in MCValues, k1 \in MCKeyTexts, k2 \in MCKeyTexts, k3 \in {Text(<<"x">>)}}
  \cup {[phase |-> "", condition |-> "ok", fails |-> FALSE, value |-> Text(s),
          keys |-> <<Text(<<>>), Text(s), Text(<<"x">>)>>] : s \in MCStrings(MCLength)}
  \cup {[phase |-> p, condition |-> c, fails |-> f, value |-> Text(<<"1">>), keys |-> <<>>] :
     p \in {"", "early"}, c \in {"ok", "declined", "error"}, f \in BOOLEAN}

MCKey(split) == [named |-> TRUE, disable |-> FALSE, split |-> split]

MCConfs ==
  {[phase |-> "", disable |-> FALSE, timeout |-> 0, type |-> t, split |-> s,
    keys |-> <<MCKey(s1), MCKey(s2), [named |-> s2, disable |-> ~s1, split |-> FALSE]>>] :
     t \in {"counter", "value"}, s \in BOOLEAN, s1 \in BOOLEAN, s2 \in BOOLEAN}
  \cup {[phase |-> p, disable |-> d, timeout |-> 2, type |-> "counter", split |-> FALSE, keys |-> <<>>] :
     p \in {"", "early"}, d \in BOOLEAN}
=============================================================================
