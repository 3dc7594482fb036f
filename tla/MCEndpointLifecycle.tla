------------------------ MODULE MCEndpointLifecycle ------------------------
EXTENDS EndpointLifecycle, TLC

CONSTANTS s1, s2, e1, e2, e3, p, q

MCPlain == [x \in Paths |-> x]

\* Two services that register a plugin each, on the same path; the second brings
\* an endpoint on another path along.
MCRivalServiceOf == (e1 :> s1) @@ (e2 :> s2) @@ (e3 :> s2)
MCRivalPathOf == (e1 :> p) @@ (e2 :> p) @@ (e3 :> q)

\* One service with one endpoint.
MCSingleServiceOf == (e1 :> s1)
MCSinglePathOf == (e1 :> p)
=============================================================================
