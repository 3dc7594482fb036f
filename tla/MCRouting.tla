------------------------------ MODULE MCRouting ------------------------------
(* Instances of Routing for TLC.                                           *)
EXTENDS Routing

CONSTANTS a, b, c, short, long, e1, e2

Lengths == [p \in Paths |-> IF p = short THEN 1 ELSE 2]
AtA == [e \in Endpoints |-> a]
TwoPaths == [e \in Endpoints |-> IF e = e2 THEN long ELSE short]
Ids == {<<n, n>> : n \in Nodes}
\* The id of b, say node-10, contains that of a, say node-1.
PartOfB == Ids \cup {<<b, a>>}
=============================================================================
