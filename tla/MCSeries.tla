------------------------------ MODULE MCSeries ------------------------------
(***************************************************************************)
(* Series that share a record although the checksum never collides: Hash   *)
(* gives different numbers to different bytes, but the bytes are a name,   *)
(* the names of its keys and their values with nothing in between.  The    *)
(* first two have the same: "hits", "0", "a", "1", "b", "1", "c".          *)
(***************************************************************************)
EXTENDS AggregateProps, SequencesExt

Key(name, value) == [name |-> name, value |-> value]

MCSeries ==
  {[name |-> <<"hits">>, keys |-> <<Key("0", <<"a", "1", "b">>), Key("1", <<"c">>)>>],
   [name |-> <<"hits">>, keys |-> <<Key("0", <<"a">>), Key("1", <<"b", "1", "c">>)>>],
   [name |-> <<"hits">>, keys |-> <<Key("0", <<"a">>), Key("1", <<"c">>)>>]}

MCKind == [s \in MCSeries |-> "counter"]

KeyText(k) == <<k.name>> \o k.value

(* The bytes that the checksum is of *)
Hashed(s) == s.name \o FlattenSeq([i \in DOMAIN s.keys |-> KeyText(s.keys[i])])

MCHash ==
  LET numbers == SetToSeq({Hashed(s) : s \in MCSeries})
  IN [s \in MCSeries |-> CHOOSE i \in DOMAIN numbers : numbers[i] = Hashed(s)]

(* One byte for the record, and the values of the keys *)
MCKeyBytes == [s \in MCSeries |-> 1 + Len(FlattenSeq([i \in DOMAIN s.keys |-> s.keys[i].value]))]
=============================================================================
