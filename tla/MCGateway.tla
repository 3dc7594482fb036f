------------------------------ MODULE MCGateway ------------------------------
(***************************************************************************)
(* Instances of Gateway.  The default port is 5, so that gossip listens on *)
(* port 6 whenever the listen address has no host.                         *)
(***************************************************************************)
EXTENDS Gateway

Given(listen, tls, positive) ==
    [readable |-> TRUE, complete |-> TRUE,
     settings |-> [listen |-> listen, key |-> TRUE, auth |-> TRUE, tls |-> tls,
                   positive |-> positive]]

At(p) == [host |-> FALSE, port |-> p]
Default == Given(At(5), FALSE, TRUE)

\* The default address, with TLS and without, one with a host, one whose admin port
\* is the port of gossip, and settings that Load refuses.
MCStarts ==
    {Default, Given(At(5), TRUE, TRUE), Given([host |-> TRUE, port |-> 5], FALSE, TRUE),
     Given(At(7), FALSE, TRUE), Given(At(5), FALSE, FALSE)}

\* The start's settings again, addresses that exchange ports with each other, the
\* file of CreateDefaultConfig, and one that lacks a key.
MCFiles ==
    {Default, Given(At(4), FALSE, TRUE), DefaultConfigs, [Default EXCEPT !.complete = FALSE]}

OneStart == {Default}

MCForeign == {3, 6}
=============================================================================
