------------------------- MODULE EndpointPoolProofs -------------------------
(***************************************************************************)
(* Proofs about the pools of EndpointLifecycle, for any sets of services,  *)
(* endpoints and paths.                                                    *)
(***************************************************************************)
EXTENDS EndpointLifecycleProofs

(* Pools.  A deletion dooms every pool in its scope before it touches the  *)
(* registry, a doomed pool stays doomed until it is gone, and an endpoint  *)
(* that was put back had its pool doomed when it was removed.              *)

InScope(d, e) ==
    /\ del[d] # "idle"
    /\ ServiceOf[e] = delService[d]
    /\ delPath[d] \in {AllPaths, PathOf[e]}

PoolInv ==
    /\ PoolsAccounted
    /\ EndpointsServed
    /\ \A e \in revived \cap pools : PoolDoomed(e)
    /\ \A e \in sweepDeleted : e \in revived \/ e \notin endpoints
    /\ \A d \in Deletions, e \in pools : InScope(d, e) => PoolDoomed(e)
    /\ \A d \in Deletions, e \in Eps :
          e \in delPools[d] =>
              /\ InScope(d, e)
              /\ del[d] = "removing" => \/ PathOf[e] \in delPaths[d]
                                        \/ e \in revived
                                        \/ e \notin endpoints
    /\ \A d \in Deletions, q \in Paths :
          q \in delPaths[d] => delPath[d] \in {AllPaths, q}

\* A step keeps PoolInv if it leaves the registry, the pools and the deletions alone
\* and completes no registration.
LEMMA PoolFrame ==
    ASSUME PoolInv, \A s \in Services : post'[s] = "done" => post[s] = "done",
           UNCHANGED <<endpoints, revived, pools, sweepDeleted, del, delService, delPath,
                       delPools, delPaths>>
    PROVE  PoolInv'
  BY LifecycleAssumption
     DEF PoolInv, PoolsAccounted, EndpointsServed, PoolDoomed, InScope

\* So does putting an endpoint back.
LEMMA PoolSetAgain ==
    ASSUME PoolInv, NEW e \in Eps, SetAgain(e),
           UNCHANGED <<pools, post, sweepDeleted, del, delService, delPath, delPools, delPaths>>
    PROVE  PoolInv'
  BY LifecycleAssumption, SMTT(60)
     DEF SetAgain, PoolInv, PoolsAccounted, EndpointsServed, PoolDoomed, InScope

LEMMA PoolStep ==
    ASSUME PlainPaths, TypeOK, RegistrationInv, PoolInv, [Next]_vars
    PROVE  PoolInv'
  <1>a. /\ post \in [Services -> {"idle", "checking", "storing", "pooling", "done", "rejected"}]
        /\ postTodo \in [Services -> SUBSET Eps]
        /\ endpoints \subseteq Eps /\ pools \subseteq Eps /\ sweepDeleted \subseteq Eps
    BY DEF TypeOK
  <1>b. /\ del \in [Deletions -> {"idle", "collected", "removing"}]
        /\ delService \in [Deletions -> Services \cup {NoService}]
        /\ delPath \in [Deletions -> Paths \cup {AllPaths}]
        /\ delPools \in [Deletions -> SUBSET Eps] /\ delPaths \in [Deletions -> SUBSET Paths]
        /\ endpoints \subseteq Eps /\ pools \subseteq Eps
    BY DEF TypeOK
  <1>c. \A d \in Deletions :
          /\ del[d] # "removing" => delPaths[d] = {}
          /\ del[d] = "idle" => delPools[d] = {}
    BY DEF RegistrationInv
  <1>d. \A e \in Eps :
          /\ post[ServiceOf[e]] # "done" =>
                /\ e \notin revived \cup sweepDeleted
                /\ \A d \in Deletions : e \notin delPools[d]
          /\ post[ServiceOf[e]] = "pooling" => e \in endpoints
          /\ e \in pools => post[ServiceOf[e]] \in {"pooling", "done"}
          /\ e \in Ported /\ post[ServiceOf[e]] = "pooling" /\ e \notin postTodo[ServiceOf[e]] =>
                e \in pools
    BY <1>a DEF RegistrationInv, PhaseOf, Untouched
  <1>e. \A s \in Services : postTodo[s] \subseteq EpsOf(s)
    BY DEF RegistrationInv
  <1>f. \A d \in Deletions :
          del[d] # "idle" => delService[d] \in Services /\ post[delService[d]] = "done"
    BY DEF RegistrationInv
  <1> USE DEF store, objects, poolVars, postVars, beatVars, delVars, sweepVars
  <1>1. ASSUME NEW s \in Services, PostLock(s)  PROVE PoolInv'
    BY <1>1, <1>a, PoolFrame DEF PostLock
  <1>2. ASSUME NEW s \in Services, NEW e \in Eps, PostCheck(s, e)  PROVE PoolInv'
    BY <1>2, <1>a, PoolFrame DEF PostCheck, PostRound
  <1>3. ASSUME NEW s \in Services, NEW e \in Eps, PostReject(s, e)  PROVE PoolInv'
    BY <1>3, <1>a, PoolFrame DEF PostReject
  <1>4. ASSUME NEW h \in Heartbeats, NEW s \in Services, NEW ok \in BOOLEAN,
               HeartbeatList(h, s, ok)
        PROVE  PoolInv'
    BY <1>4, PoolFrame DEF HeartbeatList
  <1>5. ASSUME NEW h \in Heartbeats, NEW e \in Eps, HeartbeatHealthy(h, e)
        PROVE  PoolInv'
    BY <1>5, PoolFrame DEF HeartbeatHealthy
  <1>6. ASSUME NEW h \in Heartbeats, HeartbeatSet(h)  PROVE PoolInv'
    <2>1. beatHalf[h] \in Eps
      BY <1>6 DEF TypeOK, HeartbeatSet
    <2>. QED  BY <1>6, <2>1, PoolSetAgain DEF HeartbeatSet
  <1>7. CASE SweepList
    BY <1>7, PoolFrame DEF SweepList
  <1>8. ASSUME NEW e \in Eps, SweepCheck(e)  PROVE PoolInv'
    BY <1>8, PoolFrame DEF SweepCheck
  <1>9. ASSUME NEW e \in Eps, Silence(e)  PROVE PoolInv'
    BY <1>9, PoolFrame DEF Silence
  <1>10. ASSUME NEW e \in Eps, CallbackGet(e) \/ CallbackSet(e) \/ PoolQuiet(e)
         PROVE  PoolInv'
    <2>1. CASE CallbackGet(e)
      BY <2>1, PoolFrame DEF CallbackGet
    <2>2. CASE CallbackSet(e)
      BY <2>2, PoolSetAgain DEF CallbackSet
    <2>3. CASE PoolQuiet(e)
      BY <2>3, PoolFrame DEF PoolQuiet
    <2>. QED  BY <1>10, <2>1, <2>2, <2>3
  <1>11. CASE UNCHANGED vars
    BY <1>11, PoolFrame DEF vars
  <1> USE LifecycleAssumption, SMTT(120) DEF PoolInv, PoolsAccounted, EndpointsServed, InScope,
          PoolDoomed
  <1>12. ASSUME NEW s \in Services, NEW e \in Eps, PostStore(s, e)  PROVE PoolInv'
    BY <1>12, <1>a, <1>d, <1>e, <1>f DEF PostStore, PostRound, EpsOf
  <1>13. ASSUME NEW s \in Services, NEW e \in Eps, PostPool(s, e)  PROVE PoolInv'
    BY <1>13, <1>a, <1>d, <1>e, <1>f DEF PostPool, PostRound, EpsOf
  <1>14. ASSUME NEW d \in Deletions, NEW s \in Services, NEW p \in Paths \cup {AllPaths},
               DeleteCollect(d, s, p)
        PROVE  PoolInv'
    BY <1>14, <1>b, <1>c, <1>d, <1>f DEF DeleteCollect, EpsOf
  <1>15. ASSUME NEW d \in Deletions, DeleteList(d)  PROVE PoolInv'
    BY <1>15, <1>b, <1>c DEF DeleteList, EpsOf, PlainPaths
  <1>16. ASSUME NEW d \in Deletions, NEW q \in Paths, DeleteAt(d, q)  PROVE PoolInv'
    BY <1>16, <1>b, <1>c DEF DeleteAt, EpsOf
  <1>17. ASSUME NEW d \in Deletions, NEW e \in Eps, DeletePool(d, e)  PROVE PoolInv'
    BY <1>17 DEF DeletePool
  <1>18. ASSUME NEW d \in Deletions, DeleteReturn(d)  PROVE PoolInv'
    BY <1>18, <1>b, <1>c DEF DeleteReturn
  <1>19. CASE SweepDelete
    BY <1>19 DEF SweepDelete
  <1>20. ASSUME NEW e \in Eps, SweepPool(e)  PROVE PoolInv'
    BY <1>20 DEF SweepPool
  <1> HIDE DEF PoolInv
  <1>. QED
    BY <1>1, <1>2, <1>3, <1>12, <1>13, <1>4, <1>5, <1>6, <1>14, <1>15, <1>16, <1>17, <1>18,
       <1>7, <1>8, <1>19, <1>20, <1>9, <1>10, <1>11
       DEF Next, PostNext, HeartbeatNext, DeleteNext, SweepNext

\* PoolInv is an invariant.
LEMMA PoolInvHolds == ASSUME PlainPaths PROVE Spec => []PoolInv
  <1>1. Init => PoolInv
    BY LifecycleAssumption
       DEF Init, PoolInv, PoolsAccounted, EndpointsServed, InScope, PoolDoomed
  <1>2. TypeOK /\ RegistrationInv /\ PoolInv /\ [Next]_vars => PoolInv'
    BY PlainPaths, PoolStep
  <1>. QED  BY <1>1, <1>2, TypeCorrect, RegistrationCorrect, PTL DEF Spec

(* No pool outlives its endpoint unnoticed, however registrations, deletions, *)
(* heartbeats, sweeps and metrics callbacks interleave, for node paths that   *)
(* unescaping leaves alone (handlers.go:370-409, 455-499, server.go:82-94).   *)
THEOREM PoolsCorrect == ASSUME PlainPaths PROVE Spec => []PoolsAccounted
  <1>1. PoolInv => PoolsAccounted
    BY DEF PoolInv
  <1>. QED  BY <1>1, PoolInvHolds, PTL

(* No registered endpoint lacks its pool unless a heartbeat or a metrics      *)
(* callback put it back (local.go:174, 207) or its registration is not over,  *)
(* under the same condition and in every interleaving.                        *)
THEOREM EndpointsServedCorrect == ASSUME PlainPaths PROVE Spec => []EndpointsServed
  <1>1. PoolInv => EndpointsServed
    BY DEF PoolInv
  <1>. QED  BY <1>1, PoolInvHolds, PTL

=============================================================================
