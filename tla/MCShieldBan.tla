----------------------------- MODULE MCShieldBan -----------------------------
(* ShieldBan on small instances. *)
EXTENDS ShieldBanRefines

\* A ban after two hits of one window, which outlasts the window.
PolicyTwo == {[count |-> 2, window |-> 2, ban_time |-> 2, block |-> TRUE]}

Symmetry == Permutations(Slot) \union Permutations(Addr)
              \union Permutations(Proc)
==============================================================================
