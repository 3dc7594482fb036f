------------------------- MODULE EndpointLifecycle -------------------------
(***************************************************************************)
(* The endpoints of one node and their request pools: registration,        *)
(* deletion and heartbeat requests of the admin server, the sweep that     *)
(* removes silent endpoints, and the metrics callback of the pools         *)
(* (internal/admin/handlers.go, internal/admin/server.go,                  *)
(* internal/registry/local/local.go, internal/models/endpoint.go).         *)
(*                                                                         *)
(* The endpoint store locks each of its operations, and nothing else locks *)
(* a whole request: every handler lists or reads first and writes later.   *)
(* Endpoint ids are random, so a registration never reuses one.            *)
(***************************************************************************)
EXTENDS Naturals, FiniteSets

CONSTANTS Services,    \* registration requests; each gets a service id
          Eps,         \* the endpoints (by EpID) they register
          Paths,       \* node paths
          ServiceOf, PathOf,
          Plugins,     \* endpoints registered with plugin = true
          Ported,      \* endpoints whose service_path starts with a port
          Unescape,    \* url.QueryUnescape of an already decoded path
          Heartbeats,  \* heartbeat requests that may be handled at one time
          Deletions,   \* DELETE requests that may be handled at one time
          NoService, NoEp, AllPaths

ASSUME LifecycleAssumption ==
    /\ ServiceOf \in [Eps -> Services]
    /\ PathOf \in [Eps -> Paths]
    /\ Plugins \subseteq Eps
    /\ Ported \subseteq Eps
    /\ Unescape \in [Paths -> Paths]
    /\ NoService \notin Services
    /\ NoEp \notin Eps
    /\ AllPaths \notin Paths
    /\ \A s \in Services : \E e \in Eps : ServiceOf[e] = s

VARIABLES
    endpoints,     \* the endpoints in the store
    revived,       \* history: endpoints that Set put back after a removal
    healthy,       \* ep.Healthy, shared by all who hold the endpoint
    age,           \* 0, 1, 2: not late, later than the timeout, than twice the timeout
    pools,         \* the pools in the pool manager
    inUse,         \* pools some goroutine still runs requests in
    callbacks,     \* metrics callbacks that have read the endpoint
    mu,            \* holder of the registry's registration lock
    post, postTodo,
    beatOk, beatTodo, beatHalf,
    del, delService, delPath, delPools, delPaths,
    sweepTodo, victim, sweepDeleted

store == <<endpoints, revived>>
objects == <<healthy, age>>
poolVars == <<pools, inUse>>
postVars == <<mu, post, postTodo>>
beatVars == <<beatOk, beatTodo, beatHalf>>
delVars == <<del, delService, delPath, delPools, delPaths>>
sweepVars == <<sweepTodo, victim, sweepDeleted>>
vars == <<store, objects, poolVars, callbacks, postVars, beatVars, delVars, sweepVars>>

EpsOf(s) == {e \in Eps : ServiceOf[e] = s}

TypeOK ==
    /\ endpoints \subseteq Eps /\ revived \subseteq Eps
    /\ healthy \in [Eps -> BOOLEAN]
    /\ age \in [Eps -> 0..2]
    /\ pools \subseteq Eps /\ inUse \subseteq Eps /\ callbacks \subseteq Eps
    /\ mu \in Services \cup {NoService}
    /\ post \in [Services -> {"idle", "checking", "storing", "pooling", "done", "rejected"}]
    /\ postTodo \in [Services -> SUBSET Eps]
    /\ beatOk \in [Heartbeats -> BOOLEAN]
    /\ beatTodo \in [Heartbeats -> SUBSET Eps]
    /\ beatHalf \in [Heartbeats -> Eps \cup {NoEp}]
    /\ del \in [Deletions -> {"idle", "collected", "removing"}]
    /\ delService \in [Deletions -> Services \cup {NoService}]
    /\ delPath \in [Deletions -> Paths \cup {AllPaths}]
    /\ delPools \in [Deletions -> SUBSET Eps]
    /\ delPaths \in [Deletions -> SUBSET Paths]
    /\ sweepTodo \subseteq Eps
    /\ victim \in Eps \cup {NoEp}
    /\ sweepDeleted \subseteq Eps

\* An empty registry.  An endpoint is created healthy and just heard of.
Init ==
    /\ endpoints = {} /\ revived = {}
    /\ healthy = [e \in Eps |-> TRUE]
    /\ age = [e \in Eps |-> 0]
    /\ pools = {} /\ inUse = {} /\ callbacks = {}
    /\ mu = NoService
    /\ post = [s \in Services |-> "idle"]
    /\ postTodo = [s \in Services |-> {}]
    /\ beatOk = [h \in Heartbeats |-> FALSE]
    /\ beatTodo = [h \in Heartbeats |-> {}]
    /\ beatHalf = [h \in Heartbeats |-> NoEp]
    /\ del = [d \in Deletions |-> "idle"]
    /\ delService = [d \in Deletions |-> NoService]
    /\ delPath = [d \in Deletions |-> AllPaths]
    /\ delPools = [d \in Deletions |-> {}]
    /\ delPaths = [d \in Deletions |-> {}]
    /\ sweepTodo = {}
    /\ victim = NoEp
    /\ sweepDeleted = {}

\* LocalEndpointStore.Set of an endpoint that was read before.
SetAgain(e) ==
    /\ endpoints' = endpoints \cup {e}
    /\ revived' = IF e \in endpoints THEN revived ELSE revived \cup {e}

-----------------------------------------------------------------------------
(* handlePostEndpoints: RegisterEndpoints checks all endpoints and then    *)
(* stores all of them under its lock; the pools follow without it.         *)

\* Mutant: registrations are not serialised.
PostLockFree(s) ==
    /\ post[s] = "idle"
    /\ mu' = s
    /\ post' = [post EXCEPT ![s] = "checking"]
    /\ postTodo' = [postTodo EXCEPT ![s] = EpsOf(s)]
    /\ UNCHANGED <<store, objects, poolVars, callbacks, beatVars, delVars, sweepVars>>

PostLock(s) ==
    /\ post[s] = "idle"
    /\ mu = NoService
    /\ mu' = s
    /\ post' = [post EXCEPT ![s] = "checking"]
    /\ postTodo' = [postTodo EXCEPT ![s] = EpsOf(s)]
    /\ UNCHANGED <<store, objects, poolVars, callbacks, beatVars, delVars, sweepVars>>

\* One round of a loop over the endpoints of s; the next loop follows.
PostRound(s, e, loop, next) ==
    /\ post[s] = loop
    /\ e \in postTodo[s]
    /\ post' = [post EXCEPT ![s] = IF postTodo[s] = {e} THEN next ELSE loop]
    /\ postTodo' = [postTodo EXCEPT ![s] =
                       IF postTodo[s] # {e} THEN postTodo[s] \ {e}
                       ELSE IF next = "done" THEN {} ELSE EpsOf(s)]

Conflict(e) ==
    e \in Plugins /\ \E f \in endpoints : f \in Plugins /\ PathOf[f] = PathOf[e]

\* Mutant: an endpoint is stored as soon as it passed its own check.
PostCheckStores(s, e) ==
    /\ ~Conflict(e)
    /\ PostRound(s, e, "checking", "storing")
    /\ endpoints' = endpoints \cup {e}
    /\ UNCHANGED <<mu, revived, objects, poolVars, callbacks, beatVars, delVars, sweepVars>>

PostCheck(s, e) ==
    /\ ~Conflict(e)
    /\ PostRound(s, e, "checking", "storing")
    /\ UNCHANGED <<mu, store, objects, poolVars, callbacks, beatVars, delVars, sweepVars>>

PostReject(s, e) ==
    /\ post[s] = "checking"
    /\ e \in postTodo[s]
    /\ Conflict(e)
    /\ post' = [post EXCEPT ![s] = "rejected"]
    /\ postTodo' = [postTodo EXCEPT ![s] = {}]
    /\ mu' = NoService
    /\ UNCHANGED <<store, objects, poolVars, callbacks, beatVars, delVars, sweepVars>>

\* Mutant: the lock is released after the first endpoint.
PostStoreUnlocks(s, e) ==
    /\ PostRound(s, e, "storing", "pooling")
    /\ endpoints' = endpoints \cup {e}
    /\ mu' = NoService
    /\ UNCHANGED <<revived, objects, poolVars, callbacks, beatVars, delVars, sweepVars>>

PostStore(s, e) ==
    /\ PostRound(s, e, "storing", "pooling")
    /\ endpoints' = endpoints \cup {e}
    /\ mu' = IF postTodo[s] = {e} THEN NoService ELSE mu
    /\ UNCHANGED <<revived, objects, poolVars, callbacks, beatVars, delVars, sweepVars>>

\* CreatePool, unless the port cannot be parsed: the endpoint stays without one.
PostPool(s, e) ==
    /\ PostRound(s, e, "pooling", "done")
    /\ pools' = pools \cup ({e} \cap Ported)
    /\ inUse' = inUse \cup ({e} \cap Ported)
    /\ UNCHANGED <<mu, store, objects, callbacks, beatVars, delVars, sweepVars>>

-----------------------------------------------------------------------------
(* handleHeartbeat and UpdateHeartbeat.  The caller knows the service id   *)
(* from the answer to its registration.                                    *)

HeartbeatList(h, s, ok) ==
    /\ beatTodo[h] = {}
    /\ beatHalf[h] = NoEp
    /\ post[s] = "done"
    /\ beatTodo' = [beatTodo EXCEPT ![h] = endpoints \cap EpsOf(s)]
    /\ beatOk' = [beatOk EXCEPT ![h] = ok]
    /\ UNCHANGED <<beatHalf, store, objects, poolVars, callbacks, postVars, delVars, sweepVars>>

\* ep.Healthy = healthy, on the shared endpoint and without a lock.
HeartbeatHealthy(h, e) ==
    /\ beatHalf[h] = NoEp
    /\ e \in beatTodo[h]
    /\ healthy' = [healthy EXCEPT ![e] = beatOk[h]]
    /\ beatTodo' = [beatTodo EXCEPT ![h] = beatTodo[h] \ {e}]
    /\ beatHalf' = [beatHalf EXCEPT ![h] = e]
    /\ UNCHANGED <<beatOk, age, store, poolVars, callbacks, postVars, delVars, sweepVars>>

\* ep.LastHeartbeat = now, then Set.
HeartbeatSet(h) ==
    /\ beatHalf[h] # NoEp
    /\ age' = [age EXCEPT ![beatHalf[h]] = 0]
    /\ SetAgain(beatHalf[h])
    /\ beatHalf' = [beatHalf EXCEPT ![h] = NoEp]
    /\ UNCHANGED <<beatOk, beatTodo, healthy, poolVars, callbacks, postVars, delVars, sweepVars>>

-----------------------------------------------------------------------------
(* handleDeleteEndpoints: the pools to remove are collected first, then    *)
(* the registry lists again and removes path by path, then the pools go.   *)
(* A path that cannot be unescaped is refused with nothing changed, which  *)
(* is no step here.  What is broadcast in the end is for module Gossip.    *)

DeleteCollect(d, s, p) ==
    /\ del[d] = "idle"
    /\ post[s] = "done"
    /\ del' = [del EXCEPT ![d] = "collected"]
    /\ delService' = [delService EXCEPT ![d] = s]
    /\ delPath' = [delPath EXCEPT ![d] = p]
    /\ delPools' = [delPools EXCEPT ![d] =
                       {e \in endpoints \cap EpsOf(s) : p \in {AllPaths, PathOf[e]}}]
    /\ UNCHANGED <<delPaths, store, objects, poolVars, callbacks, postVars, beatVars, sweepVars>>

\* RemoveByServiceID lists the service's endpoints; RemoveByServiceIDAndPath goes
\* to the path, which the handler has unescaped once more.
DeleteList(d) ==
    /\ del[d] = "collected"
    /\ del' = [del EXCEPT ![d] = "removing"]
    /\ delPaths' = [delPaths EXCEPT ![d] =
                       IF delPath[d] = AllPaths
                       THEN {PathOf[e] : e \in endpoints \cap EpsOf(delService[d])}
                       ELSE {Unescape[delPath[d]]}]
    /\ UNCHANGED <<delService, delPath, delPools, store, objects, poolVars, callbacks, postVars, beatVars, sweepVars>>

\* DeleteByServiceID, for one path.
DeleteAt(d, q) ==
    /\ q \in delPaths[d]
    /\ endpoints' = endpoints \ {e \in EpsOf(delService[d]) : PathOf[e] = q}
    /\ delPaths' = [delPaths EXCEPT ![d] = delPaths[d] \ {q}]
    /\ UNCHANGED <<del, delService, delPath, delPools, revived, objects, poolVars, callbacks, postVars, beatVars, sweepVars>>

\* Mutant: the pools go before the endpoints.
DeletePoolFirst(d, e) ==
    /\ del[d] = "removing"
    /\ e \in delPools[d]
    /\ pools' = pools \ {e}
    /\ delPools' = [delPools EXCEPT ![d] = delPools[d] \ {e}]
    /\ UNCHANGED <<del, delService, delPath, delPaths, inUse, store, objects, callbacks, postVars, beatVars, sweepVars>>

DeletePool(d, e) ==
    /\ del[d] = "removing"
    /\ delPaths[d] = {}
    /\ e \in delPools[d]
    /\ pools' = pools \ {e}
    /\ delPools' = [delPools EXCEPT ![d] = delPools[d] \ {e}]
    /\ UNCHANGED <<del, delService, delPath, delPaths, inUse, store, objects, callbacks, postVars, beatVars, sweepVars>>

DeleteReturn(d) ==
    /\ del[d] = "removing"
    /\ delPaths[d] = {}
    /\ delPools[d] = {}
    /\ del' = [del EXCEPT ![d] = "idle"]
    /\ delService' = [delService EXCEPT ![d] = NoService]
    /\ delPath' = [delPath EXCEPT ![d] = AllPaths]
    /\ UNCHANGED <<delPools, delPaths, store, objects, poolVars, callbacks, postVars, beatVars, sweepVars>>

-----------------------------------------------------------------------------
(* The admin server's ticker: CheckStaleEndpoints, then the pools of what  *)
(* it deleted.                                                             *)

SweepList ==
    /\ sweepTodo = {}
    /\ victim = NoEp
    /\ sweepDeleted = {}
    /\ sweepTodo' = endpoints
    /\ UNCHANGED <<victim, sweepDeleted, store, objects, poolVars, callbacks, postVars, beatVars, delVars>>

\* Mutant: a late endpoint is never marked unhealthy.
SweepCheckUnmarked(e) ==
    /\ victim = NoEp
    /\ e \in sweepTodo
    /\ sweepTodo' = sweepTodo \ {e}
    /\ victim' = IF ~healthy[e] /\ age[e] = 2 THEN e ELSE NoEp
    /\ UNCHANGED <<sweepDeleted, objects, store, poolVars, callbacks, postVars, beatVars, delVars>>

\* The age is compared and the health is read and cleared without a lock.
SweepCheck(e) ==
    /\ victim = NoEp
    /\ e \in sweepTodo
    /\ sweepTodo' = sweepTodo \ {e}
    /\ healthy' = [healthy EXCEPT ![e] = healthy[e] /\ age[e] = 0]
    /\ victim' = IF ~healthy[e] /\ age[e] = 2 THEN e ELSE NoEp
    /\ UNCHANGED <<sweepDeleted, age, store, poolVars, callbacks, postVars, beatVars, delVars>>

\* Mutant: the deleted endpoint is not reported to the caller.
SweepDeleteUnreported ==
    /\ victim # NoEp
    /\ endpoints' = endpoints \ {victim}
    /\ victim' = NoEp
    /\ UNCHANGED <<sweepTodo, sweepDeleted, revived, objects, poolVars, callbacks, postVars, beatVars, delVars>>

\* DeleteByEpID.
SweepDelete ==
    /\ victim # NoEp
    /\ endpoints' = endpoints \ {victim}
    /\ sweepDeleted' = sweepDeleted \cup {victim}
    /\ victim' = NoEp
    /\ UNCHANGED <<sweepTodo, revived, objects, poolVars, callbacks, postVars, beatVars, delVars>>

\* The pools of the deleted endpoints, when all endpoints were checked.
SweepPool(e) ==
    /\ sweepTodo = {}
    /\ victim = NoEp
    /\ e \in sweepDeleted
    /\ pools' = pools \ {e}
    /\ sweepDeleted' = sweepDeleted \ {e}
    /\ UNCHANGED <<sweepTodo, victim, inUse, store, objects, callbacks, postVars, beatVars, delVars>>

\* One more heartbeat timeout passes without a heartbeat.  The comparisons of a
\* sweep all use the time at which it began, and a registration, which waits for
\* nothing, takes less than a timeout.  Nobody reads the age of an endpoint that
\* is not stored, so it may as well grow later.
Silence(e) ==
    /\ e \in endpoints
    /\ age[e] < 2
    /\ sweepTodo = {} /\ victim = NoEp
    /\ post[ServiceOf[e]] = "done"
    /\ age' = [age EXCEPT ![e] = age[e] + 1]
    /\ UNCHANGED <<healthy, store, poolVars, callbacks, postVars, beatVars, delVars, sweepVars>>

-----------------------------------------------------------------------------
(* UpdateEndpointMetricsByEpID, called by the goroutines that run requests *)
(* in the pool of e.  They go on for a while after the pool is removed.    *)

CallbackGet(e) ==
    /\ e \in inUse \cap endpoints
    /\ e \notin callbacks
    /\ callbacks' = callbacks \cup {e}
    /\ UNCHANGED <<store, objects, poolVars, postVars, beatVars, delVars, sweepVars>>

CallbackSet(e) ==
    /\ e \in callbacks
    /\ SetAgain(e)
    /\ callbacks' = callbacks \ {e}
    /\ UNCHANGED <<objects, poolVars, postVars, beatVars, delVars, sweepVars>>

\* The last request leaves a pool that was removed.
PoolQuiet(e) ==
    /\ e \in inUse \ pools
    /\ inUse' = inUse \ {e}
    /\ UNCHANGED <<pools, store, objects, callbacks, postVars, beatVars, delVars, sweepVars>>

-----------------------------------------------------------------------------
PostNext(s) ==
    \E e \in Eps : PostCheck(s, e) \/ PostReject(s, e) \/ PostStore(s, e) \/ PostPool(s, e)

HeartbeatNext(h) ==
    \/ \E e \in Eps : HeartbeatHealthy(h, e)
    \/ HeartbeatSet(h)

DeleteNext(d) ==
    \/ DeleteList(d)
    \/ \E q \in Paths : DeleteAt(d, q)
    \/ \E e \in Eps : DeletePool(d, e)
    \/ DeleteReturn(d)

SweepNext ==
    \/ SweepList
    \/ \E e \in Eps : SweepCheck(e)
    \/ SweepDelete
    \/ \E e \in Eps : SweepPool(e)

Next ==
    \/ \E s \in Services : PostLock(s) \/ PostNext(s)
    \/ \E h \in Heartbeats, s \in Services, ok \in BOOLEAN : HeartbeatList(h, s, ok)
    \/ \E h \in Heartbeats : HeartbeatNext(h)
    \/ \E d \in Deletions, s \in Services, p \in Paths \cup {AllPaths} : DeleteCollect(d, s, p)
    \/ \E d \in Deletions : DeleteNext(d)
    \/ SweepNext
    \/ \E e \in Eps : Silence(e) \/ CallbackGet(e) \/ CallbackSet(e) \/ PoolQuiet(e)

Spec == Init /\ [][Next]_vars

(* Handlers that have begun run to their end, the ticker keeps ticking, and *)
(* the requests of a removed pool come to an end because the backend client *)
(* has a timeout.  Time passes between two ticks, again and again, which is *)
(* strong fairness because Silence is disabled while a sweep compares.      *)
(* Nobody has to call.                                                      *)
Fairness ==
    /\ \A s \in Services : WF_vars(PostNext(s))
    /\ \A h \in Heartbeats : WF_vars(HeartbeatNext(h))
    /\ \A d \in Deletions : WF_vars(DeleteNext(d))
    /\ WF_vars(SweepNext)
    /\ \A e \in Eps : SF_vars(Silence(e)) /\ WF_vars(CallbackSet(e)) /\ WF_vars(PoolQuiet(e))

FairSpec == Spec /\ Fairness

-----------------------------------------------------------------------------
(* Properties.                                                             *)

\* Somebody still has the removal of this pool on a list.
PoolDoomed(e) == e \in sweepDeleted \/ \E d \in Deletions : e \in delPools[d]

\* No node path contains a character that unescaping changes once more.
PlainPaths == \A x \in Paths : Unescape[x] = x

\* A pool never outlives its endpoint unnoticed: whenever a pool has no endpoint in
\* the registry, some DELETE handler or the sweep still has it on its list.  (A pool
\* nobody removes would be chosen by selectPoolByLoad for ever.)
PoolsAccounted == \A e \in pools \ endpoints : PoolDoomed(e)

\* A registered endpoint with a port has its pool, once its registration has
\* answered, unless a heartbeat or a metrics callback put it back after its removal.
EndpointsServed ==
    \A e \in (endpoints \cap Ported) \ revived :
        post[ServiceOf[e]] = "done" => e \in pools

\* A registration that is refused leaves nothing behind, and until it is accepted
\* as a whole no endpoint of it can be seen.
RejectedLeavesNothing ==
    \A e \in Eps :
        post[ServiceOf[e]] \in {"idle", "checking", "rejected"} => e \notin endpoints \cup pools

\* Two registrations that race never both get a plugin on the same node path.
PluginExclusive ==
    \A e, f \in (endpoints \cap Plugins) \ revived :
        PathOf[e] = PathOf[f] => ServiceOf[e] = ServiceOf[f]

(* A registration counts from its last check on, when nothing can refuse it *)
(* any more, although its endpoints are stored one by one.                  *)
Storing == UNION {postTodo[s] : s \in {t \in Services : post[t] = "storing"}}

Outcome(s) ==
    IF post[s] \in {"idle", "checking"} THEN "open"
    ELSE IF post[s] \in {"storing", "pooling"} THEN "accepted"
    ELSE IF post[s] = "done" THEN "answered"
    ELSE "refused"

Registry == INSTANCE RegistryService WITH
    registered <- endpoints \cup Storing,
    restored <- revived,
    outcome <- [s \in Services |-> Outcome(s)]

\* The handlers, each of which lists first and writes later, implement the promise
\* of the registry: registration is all or nothing and excludes rival plugins, and
\* no removal hits an endpoint before its registration is answered.
ImplementsRegistry == Registry!RegistrySpec

HeartbeatsQuiet == \A h \in Heartbeats : beatTodo[h] = {} /\ beatHalf[h] = NoEp

\* Once the services are silent for good, every endpoint and every pool is removed
\* for good, even those that a late callback put back after their removal
\* (CheckStaleEndpoints and the ticker of AdminServer.Start).
SilentRemoved == <>[]HeartbeatsQuiet => <>[](endpoints = {} /\ pools = {})
=============================================================================
