--------------------------- MODULE MCRuntimeLease ---------------------------
(* Instances of RuntimeLease for TLC: two processes share a host, a third  *)
(* (if there is one) is alone on another.                                  *)
EXTENDS RuntimeLease

CONSTANTS p1, p2, p3, h1, h2

TwoHosts == [p \in Procs |-> IF p = p3 THEN h2 ELSE h1]
=============================================================================
