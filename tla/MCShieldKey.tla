------------------------------ MODULE MCShieldKey ------------------------------
(* ShieldKey with addresses whose hashes collide. *)
EXTENDS ShieldKey

\* c is longer than a and b and starts with the byte of a; p is a proxy.
BytesOf(x) ==
  CASE x = "a" -> <<1>> [] x = "b" -> <<2>> [] x = "c" -> <<1, 0>> [] x = "d" -> <<0, 2>>
    [] x = "p" -> <<3>>

HashOf(x) == IF x = "p" THEN 0 ELSE 1

Texts(pieces, n) == UNION {[1..k -> pieces] : k \in 0..n}

ForgedLines ==
  {<<>>, <<<<"a", ",", " ">>>>, <<<<"b", ",", "tab", "junk">>>>}
    \union {<<l>> : l \in Texts({"a", ",", "junk"}, 2)}
    \union {<<l, m>> : l \in Texts({"a", ","}, 1), m \in Texts({"b", "junk", ","}, 1)}
==============================================================================
