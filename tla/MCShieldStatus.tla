---------------------------- MODULE MCShieldStatus ----------------------------
(* ShieldStatus on small instances. *)
EXTENDS ShieldStatus

\* A location that blocks and one that detects, with windows of their own on one zone.
PolicyMixed ==
  {[count |-> 1, window |-> 1, ban_time |-> 1, block |-> TRUE],
   [count |-> 2, window |-> 2, ban_time |-> 1, block |-> FALSE]}

Symmetry == Permutations(Slot) \union Permutations(Addr)
              \union Permutations(Proc)
==============================================================================
