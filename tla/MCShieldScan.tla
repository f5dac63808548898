----------------------------- MODULE MCShieldScan -----------------------------
(* ShieldScan on small tables and all short inputs. *)
EXTENDS ShieldScan

Texts(bytes, n) == UNION {[1..k -> bytes] : k \in 0..n}

Row(cat, flavour, sigs) == [cat |-> cat, match |-> {flavour}, sigs |-> sigs]
Rule(cat, flavour, terms) == [cat |-> cat, match |-> {flavour}, terms |-> terms]

\* Words that nest, overlap and share their ends.
Overlapping ==
  {<<"a">>, <<"a", "b">>, <<"b", "a">>, <<"a", "b", "a">>, <<"b", "b">>}

SigSets == {S \in SUBSET Overlapping : Cardinality(S) \in 1..2}

RuleSets ==
  {<<>>,
   <<Rule(2, "decoded", {<<"b", "b">>, <<"a", "b", "a">>})>>,
   <<Rule(1, "raw", {<<"b">>, <<"b", "a">>}),
     Rule(2, "decoded", {<<"a">>, <<"b", "a", "b">>})>>,
   <<Rule(3, "decoded", {<<"b">>}), Rule(1, "decoded", {<<"b">>})>>}

\* Two categories, numbered against their order in the table.
OverlapTables ==
  {[categories |-> <<Row(2, "decoded", S), Row(1, "decoded", T)>>,
    rules |-> R, inputs |-> Texts({"a", "b"}, 4)] :
     S \in SigSets, T \in SigSets, R \in RuleSets}

\* Signatures of encoded text, of an encoded percent sign, and of spaces.
EncodedTable ==
  [categories |-> <<Row(1, "decoded", {<<"a", "b">>, <<"b", " ">>}),
                    Row(2, "raw", {<<"%", "1", "2">>}),
                    Row(3, "decoded", {<<"%", "1">>, <<"a", "a">>})>>,
   rules |-> <<Rule(3, "raw", {<<"2">>, <<"a">>})>>,
   inputs |-> Texts({"a", "A", "b", "%", "1", "2", "+"}, 3)
                \union Texts({"b", "%", "1", "2"}, 5)]

\* More terms than bits, more bytes than states.
LargeTables ==
  {[categories |-> <<>>, inputs |-> {<<"a">>},
    rules |-> <<Rule(1, "raw", {<<"a">>, <<"b">>, <<"b", "a">>, <<"b", "b">>}),
                Rule(2, "raw", {<<"a">>, <<"b">>})>>],
   [categories |-> <<Row(1, "raw", [1..6 -> {"a", "b"}])>>, rules |-> <<>>,
    inputs |-> {<<"a">>}]}

AllTables == OverlapTables \union {EncodedTable} \union LargeTables

Bytes == {"a", "A", "b", "%", "1", "2", "+", " "}
LowerCase(b) == IF b = "A" THEN "a" ELSE b
HexByte(x, y) ==
  CASE x = "1" /\ y = "1" -> "a" [] x = "1" /\ y = "2" -> "%"
    [] x = "2" /\ y = "1" -> "A" [] OTHER -> "+"
==============================================================================
