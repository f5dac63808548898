--------------------------- MODULE MCShieldReclaim ---------------------------
(* ShieldReclaim on small instances. *)
EXTENDS ShieldReclaim

\* A ban at the first hit, so that a node lives as long as its ban.
PolicyOne == {[count |-> 1, window |-> 2, ban_time |-> 2, block |-> TRUE]}
==============================================================================
