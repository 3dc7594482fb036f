--------------------------- MODULE MCRequestPool ---------------------------
(* Instances of RequestPool for TLC. *)
EXTENDS RequestPool, TLC

\* Workers are interchangeable, and so are requests.
PoolSymmetry == Permutations(Workers) \cup Permutations(Requests)
=============================================================================
