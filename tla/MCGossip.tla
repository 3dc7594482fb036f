------------------------------ MODULE MCGossip ------------------------------
EXTENDS Gossip

CONSTANTS a, b, s1, s2, p1

\* Two services of node a with the same path.
SharedNode == [s \in Services |-> a]
SharedPath == [s \in Services |-> p1]

\* A broadcast always reaches its sender.
Itself == {<<n, n>> : n \in Nodes}
BothWays == Itself \cup {<<a, b>>, <<b, a>>}

ByHand == {<<a, b>>}
None == {}

=============================================================================
