--------------------------- MODULE ShieldBanRefines ---------------------------
(* The zone implements the per-address policy, whatever slots, queue order,  *)
(* cursor and mutex do, as long as the wall clock is not stepped backward.   *)
EXTENDS ShieldBan

CONSTANT Absent  \* the entry of an address without a node

ASSUME AbsentAssumption == Absent \notin Node

\* The policy's view of the zone: the node a lookup of the address finds.
EntryOf(a) == IF Found(a) THEN node[SlotOf(a)] ELSE Absent

Policy == INSTANCE BanPolicy WITH entry <- [a \in Addr |-> EntryOf(a)]

\* Every step of the zone is a step of the policy on one address, or none: a
\* slot freed and handed out again, a lost or duplicated node, or a stale field
\* of a reused slot would show as a change the policy does not allow
\* (record_locked, expire and lookup together).
ImplementsPolicy == Policy!Spec
==============================================================================
