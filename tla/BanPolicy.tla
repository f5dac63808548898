------------------------------ MODULE BanPolicy ------------------------------
(***************************************************************************)
(* What a ban zone promises, one address at a time: a hit counts towards   *)
(* the ban of its own address and of no other, at a time the clock has     *)
(* shown; an entry may be forgotten only when it is stale; nothing else    *)
(* changes an entry.  Slots, queue, cursor and mutex are gone.  ShieldBan  *)
(* implements it.                                                          *)
(***************************************************************************)
EXTENDS BanNode

CONSTANTS
  Addr,     \* client addresses
  Policies, \* the policies in use
  MaxClock, \* bound: the last second of a behaviour
  Absent    \* the entry of an address the zone does not hold

VARIABLES
  entry, \* the entry of each address, or Absent
  clock  \* the wall clock

policyVars == <<entry, clock>>

Init ==
  /\ entry = [a \in Addr |-> Absent]
  /\ clock = 1

\* A hit of a, at a time not later than the clock, counted under a policy.
Hit(a) ==
  /\ \E t \in 1..clock, pol \in Policies :
       entry' = [entry EXCEPT ![a] =
                   Count(IF @ = Absent THEN FreshNode(a, t) ELSE @, t, pol)]
  /\ UNCHANGED clock

\* The entry of a is stale for some request's time and window: it may go.
Forget(a) ==
  /\ entry[a] # Absent
  /\ \E t \in 1..clock, pol \in Policies : ~Live(entry[a], t, pol.window)
  /\ entry' = [entry EXCEPT ![a] = Absent]
  /\ UNCHANGED clock

Tick ==
  /\ clock < MaxClock
  /\ clock' = clock + 1
  /\ UNCHANGED entry

Next == Tick \/ \E a \in Addr : Hit(a) \/ Forget(a)

Spec == Init /\ [][Next]_policyVars
==============================================================================
