--------------------------- MODULE MCShieldRequest ---------------------------
(* ShieldRequest on small instances. *)
EXTENDS ShieldRequest

BanAfter(n) == [count |-> n, window |-> 2, ban_time |-> 1]

Location(mode, body, ban) ==
  [mode |-> mode, body |-> body, ban |-> ban, policy |-> BanAfter(2)]

\* Every mode, with and without body inspection and a ban zone.
AllLocations ==
  {Location("off", FALSE, FALSE), Location("detect", TRUE, TRUE),
   Location("block", TRUE, TRUE), Location("block", FALSE, FALSE)}
==============================================================================
