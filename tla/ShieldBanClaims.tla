--------------------------- MODULE ShieldBanClaims ---------------------------
(* What the README says of the ban zone and the zone does not keep.          *)
EXTENDS ShieldBan

\* README, "Repeat-offender banning": "an entry with a live ban or a live
\* counting window is never evicted to make room".  Live by the wall clock,
\* under every policy in use.
LiveWindowKept ==
  [][\A s \in tree :
       (\A pol \in Policies : LiveWindow(node[s], clock, pol.window))
         => s \in tree']_vars
==============================================================================
