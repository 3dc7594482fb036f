-------------------------------- MODULE Config --------------------------------
(***************************************************************************)
(* The configuration of a gateway (internal/config): what is read from the *)
(* command line and the configuration file, how it is checked, and which   *)
(* ports each part of the program derives from the listen address.         *)
(*                                                                         *)
(* A listen address is a port, with a host in front of it ("1.2.3.4:15050")*)
(* or without (":15050").  Of the other settings, key says whether APIKey  *)
(* is set, auth whether the admin API asks for it, tls whether the servers *)
(* use TLS, and positive whether all timeouts, intervals and counts are    *)
(* above zero.  The node id and the derived addresses are never empty.     *)
(***************************************************************************)
EXTENDS Integers

CONSTANT DefaultPort    \* 15050 in the code

ASSUME ConfigAssumption == DefaultPort \in Nat \ {0}

Addresses == [host : BOOLEAN, port : Nat]

\* The empty string, which names no port.
Empty == [host |-> TRUE, port |-> 0]

Settings == [listen : Addresses, key : BOOLEAN, auth : BOOLEAN, tls : BOOLEAN,
             positive : BOOLEAN]

\* A source of settings.  It may be unreadable, and a file that Reload reads may
\* lack a setting or have one of the wrong type (then it is not complete).
Sources == [readable : BOOLEAN, complete : BOOLEAN, settings : Settings]

-----------------------------------------------------------------------------
(* Checks.                                                                 *)

ValidateConfig(c) ==
    /\ c.listen # Empty
    /\ c.auth => c.key
    /\ c.positive

\* Load gives a configuration, or an error that ends the program.
Loads(source) == source.readable /\ ValidateConfig(source.settings)

\* cm.LoadConfig and cm.ValidateConfig: all keys of DefaultConfigs are there, each
\* with a value of its type.  What the values are is not looked at.
FileAccepted(source) == source.readable /\ source.complete

\* The configuration that Reload builds: TLS is not among the keys it reads.
Reloaded(source) == [source.settings EXCEPT !.tls = FALSE]

\* The file that CreateDefaultConfig writes: it asks for a key and has none.
DefaultConfigs ==
    [readable |-> TRUE, complete |-> TRUE,
     settings |-> [listen |-> [host |-> FALSE, port |-> DefaultPort],
                   key |-> FALSE, auth |-> TRUE, tls |-> FALSE, positive |-> TRUE]]

-----------------------------------------------------------------------------
(* Ports.  A port below zero is one that nobody can listen on.             *)

\* fmt.Sscanf(addr, ":%d", &port), which leaves zero when there is a host.
Scanned(a) == IF a.host THEN 0 ELSE a.port

BusinessPort(a) == a.port

AdminPort(a) == Scanned(a) - 1

\* GossipServer.Start looks for the last colon and ignores it at the beginning.
GossipPort(a) == (IF a.host /\ a.port # 0 THEN a.port ELSE DefaultPort) + 1

\* Where a peer that runs on the same listen address is posted to.
PostPort(a) == Scanned(a) + 1

\* The ports that runGateway looks at before it starts.
CheckedPorts(a) ==
    LET bind == IF Scanned(a) = 0 THEN DefaultPort ELSE Scanned(a)
    IN  {bind, bind - 1, bind - 2, bind + 2}

=============================================================================
