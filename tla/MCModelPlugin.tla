---------------------------- MODULE MCModelPlugin ----------------------------
(* Small instances of ModelPlugin.                                         *)
EXTENDS ModelPlugin

CONSTANTS m1, b1, b2, s1, s2, r1, r2, r3

\* All backends serve m1.
OneModel == {m1} \X Backends
AllM1 == [r \in Requests |-> m1]
AllS1 == [r \in Requests |-> s1]
\* r1 and r2 share a session.
PairS1 == [r \in Requests |-> IF r = r3 THEN s2 ELSE s1]

=============================================================================
