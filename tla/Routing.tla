------------------------------- MODULE Routing -------------------------------
(***************************************************************************)
(* The way of a request through the cluster                                *)
(* (internal/business/router/router.go, forwarder/forwarder.go and         *)
(* server.go): a node collects its own endpoints and the remote nodes that *)
(* match the path, selects one, and either hands the request to one of its *)
(* pools or forwards it to the other node, which does the same.  The       *)
(* header X-Forwarded-By names the nodes that forwarded the request.       *)
(*                                                                         *)
(* All Paths match the path of the requests.  What a node has heard of the *)
(* others may be out of date in any way, so that whenever the router reads *)
(* it, it is any function of the right type.                               *)
(***************************************************************************)
EXTENDS Integers, Sequences, FiniteSets

CONSTANTS Nodes,
          Paths, Length,      \* the node paths that match, and their lengths
          Endpoints,          \* registered endpoints
          NodeOf, PathOf, Plugin,
          Changing,           \* endpoints that get removed, added and unhealthy
          Requests,
          Contains,           \* <<n, m>>: the id of n, a string, contains that of m
          Mortal,             \* nodes that crash and may be started again
          None

ASSUME RoutingAssumption ==
    /\ IsFiniteSet(Requests)
    /\ Length \in [Paths -> Nat \ {0}]
    /\ \A p, q \in Paths : Length[p] = Length[q] => p = q
    /\ NodeOf \in [Endpoints -> Nodes]
    /\ PathOf \in [Endpoints -> Paths]
    /\ Plugin \subseteq Endpoints
    /\ Changing \subseteq Endpoints
    /\ \A n \in Nodes : <<n, n>> \in Contains
    /\ Mortal \subseteq Nodes
    /\ None \notin Nodes \cup Paths \cup Endpoints

VARIABLES
    up,          \* nodes that run
    registered,  \* endpoints in the registry of their node
    healthy,     \* those of them that are healthy
    pools,       \* endpoints with a request pool
    phase,       \* where the handling of a request stands, at its last node
    at,          \* that node
    hops,        \* the forwards that wait for an answer, the first one first
    best,        \* bestNodePath of getNodesForPath
    choice,      \* the candidate that was selected
    pool,        \* the pool that was selected
    answer,
    remoteActive \* PoolManager.remoteCounters of every node

registry == <<registered, healthy, pools>>
requests == <<phase, at, hops, best, choice, pool, answer>>
vars == <<up, registry, requests, remoteActive>>

Candidates == [node : Nodes, path : Paths, plugin : BOOLEAN]
Hops == [from : Nodes, to : Nodes, path : Paths]
Handled == {"arrived", "collect", "forward", "sent", "broken", "pool", "endpoint", "serve"}
Phases == {"idle"} \cup Handled \cup {"answered", "done"}
\* "empty": the handler returned without an answer, which is sent as status 200.
Answers == {"none", "ok", "notFound", "unavailable", "loop", "empty", "cancelled", "reset"}

TypeOK ==
    /\ up \subseteq Nodes
    /\ healthy \subseteq registered /\ registered \subseteq Endpoints
    /\ pools \subseteq Endpoints
    /\ phase \in [Requests -> Phases]
    /\ at \in [Requests -> Nodes \cup {None}]
    /\ hops \in [Requests -> Seq(Hops)]
    /\ best \in [Requests -> Paths \cup {None}]
    /\ choice \in [Requests -> Candidates \cup {None}]
    /\ pool \in [Requests -> Endpoints \cup {None}]
    /\ answer \in [Requests -> Answers]
    /\ remoteActive \in [Nodes -> [Nodes \X Paths -> Int]]
    /\ \A r \in Requests : phase[r] \in Handled \cup {"answered"} => at[r] \in Nodes

NoneActive == [key \in Nodes \X Paths |-> 0]

Init ==
    /\ up = Nodes
    /\ registered = Endpoints /\ healthy = Endpoints /\ pools = Endpoints
    /\ phase = [r \in Requests |-> "idle"]
    /\ at = [r \in Requests |-> None]
    /\ hops = [r \in Requests |-> <<>>]
    /\ best = [r \in Requests |-> None]
    /\ choice = [r \in Requests |-> None]
    /\ pool = [r \in Requests |-> None]
    /\ answer = [r \in Requests |-> "none"]
    /\ remoteActive = [n \in Nodes |-> NoneActive]

-----------------------------------------------------------------------------
(* The router.                                                             *)

\* The longest of some paths; none, if there are none.
Longest(paths) == {p \in paths : \A q \in paths : Length[q] <= Length[p]}

\* Healthy endpoints of node n with path p.
Local(n, p) == {e \in healthy : NodeOf[e] = n /\ PathOf[e] = p}

\* The own node is a candidate with the longest path found before, if that still
\* has a healthy endpoint; it counts as a plugin when all of those are.
LocalNode(n, seen, p) ==
    IF p = None \/ n \in seen THEN {}
    ELSE IF Local(n, p) = {} THEN {}
    ELSE {[node |-> n, path |-> p, plugin |-> Local(n, p) \subseteq Plugin]}

\* What a node has heard of the others: EndpointStates and EndpointDescriptions.
RemoteViews(n) == [Nodes \ {n} -> [Paths -> {"none", "unhealthy", "plugin", "regular"}]]

\* remoteBestMatchLen: the health does not matter here.
RemoteLongest(view) ==
    Longest({p \in Paths : \E m \in DOMAIN view : view[m][p] # "none"})

\* Mutant: the nodes that forwarded the request are not excluded.
RemoteNodesSeen(n, seen, longest, view) ==
    {c \in [node : Nodes \ {n}, path : longest, plugin : BOOLEAN] :
        view[c.node][c.path] = (IF c.plugin THEN "plugin" ELSE "regular")}

\* The other nodes that have the longest path and did not forward the request.
RemoteNodes(n, seen, longest, view) ==
    {c \in [node : Nodes \ ({n} \cup seen), path : longest, plugin : BOOLEAN] :
        view[c.node][c.path] = (IF c.plugin THEN "plugin" ELSE "regular")}

\* All that the router can find, as it reads the store twice.
RemoteCandidates(n, seen) ==
    {RemoteNodes(n, seen, longest, view) :
        longest \in {RemoteLongest(view) : view \in RemoteViews(n)}, view \in RemoteViews(n)}

\* Plugins go first.  Which of the candidates SelectNode takes depends on their
\* load and on chance.
selectNodeWithFallback(nodes) ==
    IF \E c \in nodes : c.plugin THEN {c \in nodes : c.plugin} ELSE nodes

-----------------------------------------------------------------------------
(* The handling of a request.                                              *)

\* X-Forwarded-By.
Seen(r) == {hops[r][i].from : i \in 1..Len(hops[r])}

Moves(r, from, to) == phase[r] = from /\ phase' = [phase EXCEPT ![r] = to]

Answered(r, from, what) ==
    /\ Moves(r, from, "answered")
    /\ answer' = [answer EXCEPT ![r] = what]
    /\ UNCHANGED <<up, registry, at, hops, best, choice, pool, remoteActive>>

Arrive(r, n) ==
    /\ n \in up
    /\ Moves(r, "idle", "arrived")
    /\ at' = [at EXCEPT ![r] = n]
    /\ UNCHANGED <<up, registry, hops, best, choice, pool, answer, remoteActive>>

\* getNodesForPath, first the longest local path with a healthy endpoint, ...
FindLocal(r) ==
    /\ Moves(r, "arrived", "collect")
    /\ LET longest == Longest({p \in Paths : Local(at[r], p) # {}})
       IN  \/ \E p \in longest : best' = [best EXCEPT ![r] = p]
           \/ longest = {} /\ best' = [best EXCEPT ![r] = None]
    /\ UNCHANGED <<up, registry, at, hops, choice, pool, answer, remoteActive>>

\* ... and then its endpoints and the remote nodes.  HandleRequest selects one;
\* as there is one, its further attempts are never made.
HandleRequest(r) ==
    /\ phase[r] = "collect"
    /\ \E remote \in RemoteCandidates(at[r], Seen(r)) :
          LET nodes == LocalNode(at[r], Seen(r), best[r]) \cup remote
          IN  \/ nodes = {} /\ Answered(r, "collect", "notFound")
              \/ \E c \in selectNodeWithFallback(nodes) :
                    /\ Moves(r, "collect", IF c.node = at[r] THEN "pool" ELSE "forward")
                    /\ choice' = [choice EXCEPT ![r] = c]
                    /\ UNCHANGED <<up, registry, at, hops, best, pool, answer, remoteActive>>

-----------------------------------------------------------------------------
(* HandleLocalRequestByPath: a pool, its endpoint, and its pool again.     *)

\* selectPoolByLoad looks at the load alone.
SelectPool(r) ==
    /\ phase[r] = "pool"
    /\ LET found == {e \in pools : NodeOf[e] = at[r] /\ PathOf[e] = choice[r].path}
       IN  \/ found = {} /\ Answered(r, "pool", "unavailable")
           \/ \E e \in found :
                 /\ Moves(r, "pool", "endpoint")
                 /\ pool' = [pool EXCEPT ![r] = e]
                 /\ UNCHANGED <<up, registry, at, hops, best, choice, answer, remoteActive>>

\* Mutant: the removal of the endpoint since then is not noticed.
GetEndpointWaits(r) ==
    /\ pool[r] \in registered
    /\ Moves(r, "endpoint", "serve")
    /\ UNCHANGED <<up, registry, at, hops, best, choice, pool, answer, remoteActive>>

GetEndpointByEpID(r) ==
    \/ pool[r] \notin registered /\ Answered(r, "endpoint", "unavailable")
    \/ /\ pool[r] \in registered
       /\ Moves(r, "endpoint", "serve")
       /\ UNCHANGED <<up, registry, at, hops, best, choice, pool, answer, remoteActive>>

\* The pool is gone or its queue full, or else it has the request answered.
HandleLocalRequestWithError(r) ==
    \/ Answered(r, "serve", "unavailable")
    \/ pool[r] \in pools /\ Answered(r, "serve", "ok")

-----------------------------------------------------------------------------
(* HandleForwardedRequestWithError.                                        *)

Count(counters, hop, d) ==
    [n \in Nodes |-> [key \in Nodes \X Paths |->
        IF n = hop.from /\ key = <<hop.to, hop.path>> THEN counters[n][key] + d
        ELSE counters[n][key]]]

\* The header is searched for the own id, which another id may contain.
LoopDetected(r) == \E m \in Seen(r) : <<m, at[r]>> \in Contains

IncRemoteActive(r) ==
    \/ LoopDetected(r) /\ Answered(r, "forward", "loop")
    \/ /\ ~LoopDetected(r)
       /\ Moves(r, "forward", "sent")
       /\ LET hop == [from |-> at[r], to |-> choice[r].node, path |-> choice[r].path]
          IN  /\ hops' = [hops EXCEPT ![r] = Append(@, hop)]
              /\ remoteActive' = Count(remoteActive, hop, 1)
       /\ UNCHANGED <<up, registry, at, best, choice, pool, answer>>

LastHop(r) == hops[r][Len(hops[r])]

Deliver(r) ==
    /\ phase[r] = "sent" /\ LastHop(r).to \in up
    /\ Moves(r, "sent", "arrived")
    /\ at' = [at EXCEPT ![r] = LastHop(r).to]
    /\ UNCHANGED <<up, registry, hops, best, choice, pool, answer, remoteActive>>

\* The forward is over: the counter is decremented by a deferred call.
Back(r, from, what) ==
    /\ Moves(r, from, "answered")
    /\ at' = [at EXCEPT ![r] = LastHop(r).from]
    /\ hops' = [hops EXCEPT ![r] = SubSeq(@, 1, Len(@) - 1)]
    /\ remoteActive' = Count(remoteActive, LastHop(r), -1)
    /\ answer' = [answer EXCEPT ![r] = what]
    /\ UNCHANGED <<up, registry, best, choice, pool>>

\* Mutant: the counter is decremented after a successful forward only.
DoFailsCounted(r) ==
    /\ phase[r] \in {"sent", "broken"}
    /\ Moves(r, phase[r], "answered")
    /\ hops' = [hops EXCEPT ![r] = SubSeq(@, 1, Len(@) - 1)]
    /\ answer' = [answer EXCEPT ![r] = "empty"]
    /\ UNCHANGED <<up, registry, at, best, choice, pool, remoteActive>>

\* httpClient.Do fails: the error is counted and logged, nothing is answered.
DoFails(r) == phase[r] \in {"sent", "broken"} /\ Back(r, phase[r], "empty")

\* The status and the body are handed on.
Relay(r) ==
    \/ phase[r] = "answered" /\ hops[r] # <<>> /\ Back(r, "answered", answer[r])
    \/ /\ hops[r] = <<>>
       /\ Moves(r, "answered", "done")
       /\ UNCHANGED <<up, registry, at, hops, best, choice, pool, answer, remoteActive>>

\* The client goes away and the contexts of the request are cancelled.  Handlers
\* that see it later, when they wait for a backend or a node, change nothing until then.
Cancel(r) ==
    /\ phase[r] \in Handled
    /\ Answered(r, phase[r], "cancelled")

-----------------------------------------------------------------------------
(* Crashes.  The node before the crashed one sees its forward fail; those  *)
(* after it see their contexts cancelled, and stop at once.                *)

\* The hops before node n took part in the request.
Kept(r, n) ==
    IF \E i \in 1..Len(hops[r]) : hops[r][i].from = n
    THEN SubSeq(hops[r], 1, (CHOOSE i \in 1..Len(hops[r]) : hops[r][i].from = n) - 1)
    ELSE hops[r]

TakesPart(r, n) == phase[r] \in Handled \cup {"answered"} /\ (n = at[r] \/ n \in Seen(r))

InFlight(hs, n, key) ==
    {r \in Requests : \E i \in 1..Len(hs[r]) :
        hs[r][i].from = n /\ key = <<hs[r][i].to, hs[r][i].path>>}

Crash(n) ==
    /\ n \in up \cap Mortal
    /\ up' = up \ {n}
    /\ hops' = [r \in Requests |-> IF TakesPart(r, n) THEN Kept(r, n) ELSE hops[r]]
    /\ phase' = [r \in Requests |->
                    IF ~TakesPart(r, n) THEN phase[r]
                    ELSE IF Kept(r, n) = <<>> THEN "done" ELSE "broken"]
    /\ at' = [r \in Requests |->
                    IF TakesPart(r, n) /\ Kept(r, n) # <<>>
                    THEN Kept(r, n)[Len(Kept(r, n))].from ELSE at[r]]
    /\ answer' = [r \in Requests |->
                    IF TakesPart(r, n) THEN IF Kept(r, n) = <<>> THEN "reset" ELSE "none"
                    ELSE answer[r]]
    /\ remoteActive' = [m \in Nodes |-> IF m = n THEN NoneActive ELSE
                          [key \in Nodes \X Paths |-> remoteActive[m][key]
                              - Cardinality(InFlight(hops, m, key) \ InFlight(hops', m, key))]]
    /\ registered' = {e \in registered : NodeOf[e] # n}
    /\ healthy' = {e \in healthy : NodeOf[e] # n}
    /\ pools' = {e \in pools : NodeOf[e] # n}
    /\ UNCHANGED <<best, choice, pool>>

Restart(n) ==
    /\ n \notin up
    /\ up' = up \cup {n}
    /\ UNCHANGED <<registry, requests, remoteActive>>

-----------------------------------------------------------------------------
(* The registry: an endpoint comes before its pool and goes before it.     *)

AddEndpoint(e) ==
    /\ NodeOf[e] \in up
    /\ e \notin registered \cup pools
    /\ registered' = registered \cup {e}
    /\ healthy' = healthy \cup {e}
    /\ UNCHANGED <<up, pools, requests, remoteActive>>

CreatePool(e) ==
    /\ e \in registered \ pools
    /\ pools' = pools \cup {e}
    /\ UNCHANGED <<up, registered, healthy, requests, remoteActive>>

UpdateHeartbeat(e) ==
    /\ e \in registered
    /\ healthy' = (healthy \cup {e}) \ (healthy \cap {e})
    /\ UNCHANGED <<up, registered, pools, requests, remoteActive>>

RemoveEndpoint(e) ==
    /\ e \in registered \cap pools
    /\ registered' = registered \ {e}
    /\ healthy' = healthy \ {e}
    /\ UNCHANGED <<up, pools, requests, remoteActive>>

RemovePool(e) ==
    /\ e \in pools \ registered
    /\ pools' = pools \ {e}
    /\ UNCHANGED <<up, registered, healthy, requests, remoteActive>>

-----------------------------------------------------------------------------
Handle(r) ==
    \/ FindLocal(r) \/ HandleRequest(r)
    \/ SelectPool(r) \/ GetEndpointByEpID(r) \/ HandleLocalRequestWithError(r)
    \/ IncRemoteActive(r) \/ Deliver(r) \/ DoFails(r) \/ Relay(r)

Next ==
    \/ \E r \in Requests, n \in Nodes : Arrive(r, n)
    \/ \E r \in Requests : Handle(r) \/ Cancel(r)
    \/ \E n \in Nodes : Crash(n) \/ Restart(n)
    \/ \E e \in Changing : \/ AddEndpoint(e) \/ CreatePool(e) \/ UpdateHeartbeat(e)
                           \/ RemoveEndpoint(e) \/ RemovePool(e)

Spec == Init /\ [][Next]_vars

\* Handlers are scheduled, the backends have a timeout and a vanished node is
\* noticed by TCP.
FairSpec == Spec /\ \A r \in Requests : WF_vars(Handle(r))

-----------------------------------------------------------------------------
(* Properties.                                                             *)

\* A request never gets back to a node that forwarded it, whatever the nodes
\* believe of each other: the forwards of a request are bounded by the nodes.
NeverBack ==
    \A r \in Requests : \A i \in 1..Len(hops[r]), j \in 1..Len(hops[r]) :
        j <= i => hops[r][i].to # hops[r][j].from

\* remoteCounters are the forwards in flight, for every node and path: after
\* failed forwards, refused ones, clients that left and crashes of other nodes.
Balanced ==
    \A n \in Nodes, key \in Nodes \X Paths :
        remoteActive[n][key] = Cardinality(InFlight(hops, n, key))

\* A request that is refused as looping is at a node that never forwarded it: the
\* exclusion of the nodes in X-Forwarded-By prevents loops before the check is made,
\* and the check only meets ids that contain one another.
NoRealLoop ==
    [][\A r \in Requests :
          phase[r] = "forward" /\ answer'[r] = "loop" => at[r] \notin Seen(r)]_vars

\* Every request that arrives is in the end answered, or its connection reset.
AllAnswered == \A r \in Requests : phase[r] = "arrived" ~> phase[r] = "done"

=============================================================================
