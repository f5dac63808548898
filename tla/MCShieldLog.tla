------------------------------ MODULE MCShieldLog ------------------------------
(* ShieldLog on small instances. *)
EXTENDS ShieldLog, TLC
CONSTANTS l1, l2, l3

\* A location of each kind.
EverySink == l1 :> "file" @@ l2 :> "syslog" @@ l3 :> "off"

Symmetry == Permutations(Worker)
==============================================================================
