-------------------------- MODULE RegistryService --------------------------
(***************************************************************************)
(* What the endpoint registry promises, without locks, lists and handlers  *)
(* in progress: a registration is accepted as a whole or refused as a      *)
(* whole, a plugin never takes a node path that another service's plugin   *)
(* has, and only endpoints whose registration was answered are removed, a  *)
(* service's endpoints on one path together or a silent one alone.  A late *)
(* update may put back what was removed, and such an endpoint does not     *)
(* count when plugins compete for a path.                                  *)
(***************************************************************************)
CONSTANTS Services, Eps, Paths, ServiceOf, PathOf, Plugins

VARIABLES registered,  \* the endpoints that are registered
          restored,    \* endpoints that were put back after their removal
          outcome      \* of each registration

registryVars == <<registered, restored, outcome>>

Batch(s) == {e \in Eps : ServiceOf[e] = s}

RegistryInit ==
    /\ registered = {}
    /\ restored = {}
    /\ outcome = [s \in Services |-> "open"]

Decide(s, from, to) ==
    /\ outcome[s] = from
    /\ outcome' = [outcome EXCEPT ![s] = to]

Competes(s, f) ==
    f \in Plugins /\ \E e \in Batch(s) \cap Plugins : PathOf[e] = PathOf[f]

Accept(s) ==
    /\ Decide(s, "open", "accepted")
    /\ \A f \in registered \ restored : ~Competes(s, f)
    /\ registered' = registered \cup Batch(s)
    /\ UNCHANGED restored

Refuse(s) ==
    /\ Decide(s, "open", "refused")
    /\ \E f \in registered : Competes(s, f)
    /\ UNCHANGED <<registered, restored>>

Answer(s) ==
    /\ Decide(s, "accepted", "answered")
    /\ UNCHANGED <<registered, restored>>

Delete(s, q) ==
    /\ outcome[s] = "answered"
    /\ registered' = registered \ {e \in Batch(s) : PathOf[e] = q}
    /\ UNCHANGED <<restored, outcome>>

Expire(e) ==
    /\ outcome[ServiceOf[e]] = "answered"
    /\ registered' = registered \ {e}
    /\ UNCHANGED <<restored, outcome>>

PutBack(e) ==
    /\ outcome[ServiceOf[e]] = "answered"
    /\ e \notin registered
    /\ registered' = registered \cup {e}
    /\ restored' = restored \cup {e}
    /\ UNCHANGED outcome

RegistryNext ==
    \/ \E s \in Services : Accept(s) \/ Refuse(s) \/ Answer(s)
    \/ \E s \in Services, q \in Paths : Delete(s, q)
    \/ \E e \in Eps : Expire(e) \/ PutBack(e)

RegistrySpec == RegistryInit /\ [][RegistryNext]_registryVars
=============================================================================
