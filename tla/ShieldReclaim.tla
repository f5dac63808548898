---------------------------- MODULE ShieldReclaim ----------------------------
(***************************************************************************)
(* Does the eviction walk get round the queue?  ShieldBan with history     *)
(* variables that count, for every node in use, the walks that ended since *)
(* one examined it.                                                        *)
(***************************************************************************)
EXTENDS ShieldBan

ASSUME SlabAssumption == IsFiniteSet(Slot)

VARIABLES
  seen,  \* the nodes the current walk has examined
  still  \* walks since the node was linked or last examined, starting again
         \* whenever a lookup reorders the queue; bound: the number of slots

reclaimVars == <<vars, seen, still>>

ReclaimInit ==
  /\ Init
  /\ seen = {}
  /\ still = [s \in Slot |-> 0]

Examines == \E p \in Proc : ExpireSkip(p) \/ ExpireEvict(p)

WalkEnds == \E p \in Proc : ExpireDone(p)

\* A lookup moved a node: the queue has the same nodes in another order.
Reorders == tree' = tree /\ queue' # queue

Missed(n, s) ==
  IF s \notin tree \/ s \in seen THEN 0
  ELSE IF n > Cardinality(Slot) THEN n ELSE n + 1

\* ShieldBan's step, and what the history makes of it.
ReclaimNext ==
  /\ ForwardNext
  /\ seen' = IF Examines THEN seen \union {walk.q}
             ELSE IF WalkEnds THEN {} ELSE seen
  /\ still' = IF WalkEnds THEN [s \in Slot |-> Missed(still[s], s)]
              ELSE IF Reorders THEN [s \in Slot |-> 0]
              ELSE still

ReclaimSpec == ReclaimInit /\ [][ReclaimNext]_reclaimVars

FairReclaimSpec == ReclaimSpec /\ \A p \in Proc : WF_vars(HolderStep(p))

\* What the cursor gains on any node in one walk: a walk that leaves nodes out has
\* spent a budget, and the node linked after it may stand in the cursor's way.
Gain == (IF SCAN < EVICT THEN SCAN ELSE EVICT) - 1

\* While no lookup reorders the queue, each node is examined within as many walks
\* as it takes to get round, however many live nodes stand at the tail: the walk
\* resumes where the last one stopped (the cursor that replaced restarting at the
\* tail).  It says nothing where a walk frees one node at most.
ExaminedWhileStill ==
  \A s \in tree : still[s] # 0 => Gain * still[s] <= Cardinality(Slot) - 2
==============================================================================
