------------------------------ MODULE MCReporter ------------------------------
(* Reporter on small instances. *)
EXTENDS ReporterClaims, TLC

\* A server that asks for nothing, for less than nothing or for too much.
RetryAfterAny == {-1, 9}

Symmetry == Permutations(Ip)
==============================================================================
