---------------------- MODULE EndpointLifecycleProofs ----------------------
(***************************************************************************)
(* Proofs about EndpointLifecycle, for any number of services, endpoints   *)
(* and concurrent requests.                                                *)
(***************************************************************************)
EXTENDS EndpointLifecycle, TLAPS

(* The type invariant of the endpoint store, the pools and the requests in   *)
(* progress (local.go, handlers.go, server.go).                              *)
THEOREM TypeCorrect == Spec => []TypeOK
  <1>1. Init => TypeOK
    BY LifecycleAssumption DEF Init, TypeOK
  <1>2. TypeOK /\ [Next]_vars => TypeOK'
    <2> SUFFICES ASSUME TypeOK, [Next]_vars  PROVE TypeOK'
      OBVIOUS
    <2> USE LifecycleAssumption DEF TypeOK, store, objects, poolVars, postVars, beatVars,
            delVars, sweepVars, EpsOf
    <2>1. ASSUME NEW s \in Services, PostLock(s)  PROVE TypeOK'
      BY <2>1 DEF PostLock
    <2>2. ASSUME NEW s \in Services, NEW e \in Eps,
                 PostCheck(s, e) \/ PostReject(s, e) \/ PostStore(s, e) \/ PostPool(s, e)
          PROVE  TypeOK'
      <3>1. post' \in [Services -> {"idle", "checking", "storing", "pooling", "done", "rejected"}]
        BY <2>2 DEF PostCheck, PostReject, PostStore, PostPool, PostRound
      <3>2. postTodo' \in [Services -> SUBSET Eps]
        BY <2>2 DEF PostCheck, PostReject, PostStore, PostPool, PostRound
      <3>. QED  BY <2>2, <3>1, <3>2 DEF PostCheck, PostReject, PostStore, PostPool
    <2>3. ASSUME NEW h \in Heartbeats, NEW s \in Services, NEW ok \in BOOLEAN,
                 HeartbeatList(h, s, ok)
          PROVE  TypeOK'
      BY <2>3 DEF HeartbeatList
    <2>4. ASSUME NEW h \in Heartbeats, HeartbeatNext(h)  PROVE TypeOK'
      <3>1. ASSUME NEW e \in Eps, HeartbeatHealthy(h, e)  PROVE TypeOK'
        BY <3>1 DEF HeartbeatHealthy
      <3>2. CASE HeartbeatSet(h)
        BY <3>2 DEF HeartbeatSet, SetAgain
      <3>. QED  BY <2>4, <3>1, <3>2 DEF HeartbeatNext
    <2>5. ASSUME NEW d \in Deletions, NEW s \in Services, NEW p \in Paths \cup {AllPaths},
                 DeleteCollect(d, s, p)
          PROVE  TypeOK'
      BY <2>5 DEF DeleteCollect
    <2>6. ASSUME NEW d \in Deletions, DeleteNext(d)  PROVE TypeOK'
      <3>1. CASE DeleteList(d)
        <4>1. IF delPath[d] = AllPaths
              THEN {PathOf[e] : e \in endpoints \cap EpsOf(delService[d])} \subseteq Paths
              ELSE {Unescape[delPath[d]]} \subseteq Paths
          OBVIOUS
        <4>2. delPaths' \in [Deletions -> SUBSET Paths]
          BY <3>1, <4>1 DEF DeleteList
        <4>. QED  BY <3>1, <4>2 DEF DeleteList
      <3>2. ASSUME NEW q \in Paths, DeleteAt(d, q)  PROVE TypeOK'
        BY <3>2 DEF DeleteAt
      <3>3. ASSUME NEW e \in Eps, DeletePool(d, e)  PROVE TypeOK'
        BY <3>3 DEF DeletePool
      <3>4. CASE DeleteReturn(d)
        BY <3>4 DEF DeleteReturn
      <3>. QED  BY <2>6, <3>1, <3>2, <3>3, <3>4, Zenon DEF DeleteNext
    <2>7. CASE SweepNext
      <3>1. ASSUME NEW e \in Eps, SweepCheck(e)  PROVE TypeOK'
        BY <3>1 DEF SweepCheck
      <3>2. CASE SweepList \/ SweepDelete \/ \E e \in Eps : SweepPool(e)
        BY <3>2 DEF SweepList, SweepDelete, SweepPool
      <3>. QED  BY <2>7, <3>1, <3>2 DEF SweepNext
    <2>8. ASSUME NEW e \in Eps, Silence(e) \/ CallbackGet(e) \/ CallbackSet(e) \/ PoolQuiet(e)
          PROVE  TypeOK'
      <3>1. CASE Silence(e)
        <4>1. age[e] + 1 \in 0..2
          BY <3>1, SMTT(60) DEF Silence
        <4>. QED  BY <3>1, <4>1 DEF Silence
      <3>2. CASE CallbackGet(e) \/ CallbackSet(e) \/ PoolQuiet(e)
        BY <3>2 DEF CallbackGet, CallbackSet, PoolQuiet, SetAgain
      <3>. QED  BY <2>8, <3>1, <3>2
    <2>9. CASE UNCHANGED vars
      BY <2>9 DEF vars
    <2> HIDE DEF TypeOK
    <2>. QED  BY <2>1, <2>2, <2>3, <2>4, <2>5, <2>6, <2>7, <2>8, <2>9 DEF Next, PostNext
  <1>. QED  BY <1>1, <1>2, PTL DEF Spec

-----------------------------------------------------------------------------
(* Registrations.  Until a registration has answered, no other request can *)
(* hold its endpoints and they are not late, so nothing removes them.      *)

Untouched(e) ==
    /\ age[e] = 0
    /\ e \notin revived
    /\ e # victim
    /\ e \notin sweepDeleted
    /\ \A h \in Heartbeats : e \notin beatTodo[h] /\ e # beatHalf[h]
    /\ \A d \in Deletions : e \notin delPools[d]

PhaseOf(e) == post[ServiceOf[e]]

RegistrationInv ==
    /\ \A s \in Services : post[s] \in {"checking", "storing"} <=> mu = s
    /\ \A s \in Services : postTodo[s] \subseteq EpsOf(s)
    /\ \A e \in Eps : PhaseOf(e) # "done" => Untouched(e)
    /\ \A e \in Eps : PhaseOf(e) \in {"idle", "checking", "rejected"} => e \notin endpoints
    /\ \A e \in Eps : PhaseOf(e) = "pooling" => e \in endpoints
    /\ \A e \in Eps : PhaseOf(e) = "storing" /\ e \notin postTodo[ServiceOf[e]] => e \in endpoints
    /\ \A e \in inUse \cup callbacks \cup pools : PhaseOf(e) \in {"pooling", "done"}
    /\ \A e \in Ported :
          PhaseOf(e) = "pooling" /\ e \notin postTodo[ServiceOf[e]] => e \in pools
    /\ \A d \in Deletions :
          /\ del[d] # "idle" => delService[d] \in Services /\ post[delService[d]] = "done"
          /\ del[d] # "removing" => delPaths[d] = {}
          /\ del[d] = "idle" => delPools[d] = {}

LEMMA RegistrationInit == Init => RegistrationInv
  BY LifecycleAssumption
     DEF Init, RegistrationInv, PhaseOf, Untouched, EpsOf

LEMMA RegistrationPost ==
    ASSUME TypeOK, RegistrationInv, NEW s \in Services, PostLock(s) \/ PostNext(s)
    PROVE  RegistrationInv'
  <1> USE LifecycleAssumption DEF TypeOK, store, objects, poolVars, postVars, beatVars,
          delVars, sweepVars, RegistrationInv, PhaseOf, Untouched
  <1>1. CASE PostLock(s)
    BY <1>1 DEF PostLock, EpsOf
  <1>2. ASSUME NEW e \in Eps, PostCheck(s, e)  PROVE RegistrationInv'
    BY <1>2 DEF PostCheck, PostRound, EpsOf
  <1>3. ASSUME NEW e \in Eps, PostReject(s, e)  PROVE RegistrationInv'
    BY <1>3 DEF PostReject, EpsOf
  <1>4. ASSUME NEW e \in Eps, PostStore(s, e)  PROVE RegistrationInv'
    BY <1>4 DEF PostStore, PostRound, EpsOf
  <1>5. ASSUME NEW e \in Eps, PostPool(s, e)  PROVE RegistrationInv'
    BY <1>5 DEF PostPool, PostRound, EpsOf
  <1> HIDE DEF TypeOK, RegistrationInv
  <1>. QED  BY <1>1, <1>2, <1>3, <1>4, <1>5 DEF PostNext

LEMMA RegistrationRequests ==
    ASSUME TypeOK, RegistrationInv,
           \/ \E h \in Heartbeats, s \in Services, ok \in BOOLEAN : HeartbeatList(h, s, ok)
           \/ \E h \in Heartbeats : HeartbeatNext(h)
           \/ \E d \in Deletions, s \in Services, p \in Paths \cup {AllPaths} : DeleteCollect(d, s, p)
           \/ \E d \in Deletions : DeleteNext(d)
    PROVE  RegistrationInv'
  <1> USE LifecycleAssumption DEF TypeOK, store, objects, poolVars, postVars, beatVars,
          delVars, sweepVars, RegistrationInv, PhaseOf, Untouched
  <1>1. ASSUME NEW h \in Heartbeats, NEW s \in Services, NEW ok \in BOOLEAN,
               HeartbeatList(h, s, ok)
        PROVE  RegistrationInv'
    BY <1>1, SMTT(60) DEF HeartbeatList, EpsOf
  <1>2. ASSUME NEW h \in Heartbeats, NEW e \in Eps, HeartbeatHealthy(h, e)
        PROVE  RegistrationInv'
    BY <1>2 DEF HeartbeatHealthy
  <1>3. ASSUME NEW h \in Heartbeats, HeartbeatSet(h)  PROVE RegistrationInv'
    BY <1>3 DEF HeartbeatSet, SetAgain
  <1>4. ASSUME NEW d \in Deletions, NEW s \in Services, NEW p \in Paths \cup {AllPaths},
               DeleteCollect(d, s, p)
        PROVE  RegistrationInv'
    BY <1>4, SMTT(60) DEF DeleteCollect, EpsOf
  <1>5. ASSUME NEW d \in Deletions, DeleteList(d)  PROVE RegistrationInv'
    BY <1>5 DEF DeleteList
  <1>6. ASSUME NEW d \in Deletions, NEW q \in Paths, DeleteAt(d, q)  PROVE RegistrationInv'
    BY <1>6 DEF DeleteAt, EpsOf
  <1>7. ASSUME NEW d \in Deletions, NEW e \in Eps, DeletePool(d, e)  PROVE RegistrationInv'
    BY <1>7 DEF DeletePool
  <1>8. ASSUME NEW d \in Deletions, DeleteReturn(d)  PROVE RegistrationInv'
    BY <1>8 DEF DeleteReturn
  <1> HIDE DEF TypeOK, RegistrationInv
  <1>. QED  BY <1>1, <1>2, <1>3, <1>4, <1>5, <1>6, <1>7, <1>8 DEF HeartbeatNext, DeleteNext

LEMMA RegistrationRest ==
    ASSUME TypeOK, RegistrationInv,
           \/ SweepNext
           \/ \E e \in Eps : Silence(e) \/ CallbackGet(e) \/ CallbackSet(e) \/ PoolQuiet(e)
           \/ UNCHANGED vars
    PROVE  RegistrationInv'
  <1> USE LifecycleAssumption DEF TypeOK, store, objects, poolVars, postVars, beatVars,
          delVars, sweepVars, RegistrationInv, PhaseOf, Untouched
  <1>1. CASE SweepList
    BY <1>1 DEF SweepList
  <1>2. ASSUME NEW e \in Eps, SweepCheck(e)  PROVE RegistrationInv'
    BY <1>2 DEF SweepCheck
  <1>3. CASE SweepDelete
    BY <1>3 DEF SweepDelete
  <1>4. ASSUME NEW e \in Eps, SweepPool(e)  PROVE RegistrationInv'
    BY <1>4 DEF SweepPool
  <1>5. ASSUME NEW e \in Eps, Silence(e)  PROVE RegistrationInv'
    BY <1>5 DEF Silence
  <1>6. ASSUME NEW e \in Eps, CallbackGet(e) \/ CallbackSet(e) \/ PoolQuiet(e)
        PROVE  RegistrationInv'
    BY <1>6, SMTT(60) DEF CallbackGet, CallbackSet, PoolQuiet, SetAgain
  <1>7. CASE UNCHANGED vars
    BY <1>7 DEF vars
  <1> HIDE DEF TypeOK, RegistrationInv
  <1>. QED  BY <1>1, <1>2, <1>3, <1>4, <1>5, <1>6, <1>7 DEF SweepNext

LEMMA RegistrationCorrect == Spec => []RegistrationInv
  <1>1. TypeOK /\ RegistrationInv /\ [Next]_vars => RegistrationInv'
    BY RegistrationPost, RegistrationRequests, RegistrationRest DEF Next
  <1>. QED  BY <1>1, RegistrationInit, TypeCorrect, PTL DEF Spec

(* A refused registration leaves nothing behind, and one in its checks shows  *)
(* nothing yet: RegisterEndpoints checks every endpoint before it stores the  *)
(* first (local.go:44-71).                                                    *)
THEOREM RejectionCorrect == Spec => []RejectedLeavesNothing
  <1>1. TypeOK /\ RegistrationInv => RejectedLeavesNothing
    BY DEF TypeOK, RegistrationInv, PhaseOf, RejectedLeavesNothing
  <1>. QED  BY <1>1, TypeCorrect, RegistrationCorrect, PTL

-----------------------------------------------------------------------------
(* Plugins.  What the holder of the lock has checked stays true until it   *)
(* has stored, because only the holder adds endpoints that are not revived.*)

Rival(e, f) == f \in (endpoints \cap Plugins) \ revived /\ PathOf[f] = PathOf[e]

PluginInv ==
    /\ PluginExclusive
    /\ \A e \in Plugins, f \in Eps :
          /\ PhaseOf(e) = "storing" \/ (PhaseOf(e) = "checking" /\ e \notin postTodo[ServiceOf[e]])
          /\ Rival(e, f)
          => ServiceOf[f] = ServiceOf[e]

LEMMA PluginStep ==
    ASSUME TypeOK, RegistrationInv, PluginInv, [Next]_vars
    PROVE  PluginInv'
  <1> USE LifecycleAssumption, SMTT(60) DEF TypeOK, store, objects, poolVars, postVars, beatVars,
          delVars, sweepVars, RegistrationInv, PhaseOf, PluginInv, PluginExclusive, Rival
  <1>1. ASSUME NEW s \in Services, PostLock(s)  PROVE PluginInv'
    BY <1>1 DEF PostLock, EpsOf
  <1>2. ASSUME NEW s \in Services, NEW e \in Eps, PostCheck(s, e)  PROVE PluginInv'
    BY <1>2 DEF PostCheck, PostRound, Conflict, EpsOf
  <1>3. ASSUME NEW s \in Services, NEW e \in Eps, PostReject(s, e)  PROVE PluginInv'
    BY <1>3 DEF PostReject, EpsOf
  <1>4. ASSUME NEW s \in Services, NEW e \in Eps, PostStore(s, e)  PROVE PluginInv'
    BY <1>4 DEF PostStore, PostRound, EpsOf
  <1>5. ASSUME NEW s \in Services, NEW e \in Eps, PostPool(s, e)  PROVE PluginInv'
    BY <1>5 DEF PostPool, PostRound, EpsOf
  <1>6. ASSUME NEW h \in Heartbeats, NEW s \in Services, NEW ok \in BOOLEAN,
               HeartbeatList(h, s, ok)
        PROVE  PluginInv'
    BY <1>6 DEF HeartbeatList
  <1>7. ASSUME NEW h \in Heartbeats, NEW e \in Eps, HeartbeatHealthy(h, e)
        PROVE  PluginInv'
    BY <1>7 DEF HeartbeatHealthy
  <1>8. ASSUME NEW h \in Heartbeats, HeartbeatSet(h)  PROVE PluginInv'
    BY <1>8 DEF HeartbeatSet, SetAgain
  <1>9. ASSUME NEW d \in Deletions, NEW s \in Services, NEW p \in Paths \cup {AllPaths},
               DeleteCollect(d, s, p)
        PROVE  PluginInv'
    BY <1>9 DEF DeleteCollect, EpsOf
  <1>10. ASSUME NEW d \in Deletions, DeleteList(d)  PROVE PluginInv'
    BY <1>10 DEF DeleteList, EpsOf
  <1>11. ASSUME NEW d \in Deletions, NEW q \in Paths, DeleteAt(d, q)  PROVE PluginInv'
    BY <1>11 DEF DeleteAt, EpsOf
  <1>12. ASSUME NEW d \in Deletions, NEW e \in Eps, DeletePool(d, e)  PROVE PluginInv'
    BY <1>12 DEF DeletePool
  <1>13. ASSUME NEW d \in Deletions, DeleteReturn(d)  PROVE PluginInv'
    BY <1>13 DEF DeleteReturn
  <1>14. CASE SweepList
    BY <1>14 DEF SweepList
  <1>15. ASSUME NEW e \in Eps, SweepCheck(e)  PROVE PluginInv'
    BY <1>15 DEF SweepCheck
  <1>16. CASE SweepDelete
    BY <1>16 DEF SweepDelete
  <1>17. ASSUME NEW e \in Eps, SweepPool(e)  PROVE PluginInv'
    BY <1>17 DEF SweepPool
  <1>18. ASSUME NEW e \in Eps, Silence(e)  PROVE PluginInv'
    BY <1>18 DEF Silence
  <1>19. ASSUME NEW e \in Eps, CallbackGet(e) \/ CallbackSet(e) \/ PoolQuiet(e)
         PROVE  PluginInv'
    BY <1>19 DEF CallbackGet, CallbackSet, PoolQuiet, SetAgain
  <1>20. CASE UNCHANGED vars
    BY <1>20 DEF vars
  <1> HIDE DEF TypeOK, RegistrationInv, PluginInv
  <1>. QED
    BY <1>1, <1>2, <1>3, <1>4, <1>5, <1>6, <1>7, <1>8, <1>9, <1>10, <1>11, <1>12, <1>13,
       <1>14, <1>15, <1>16, <1>17, <1>18, <1>19, <1>20
       DEF Next, PostNext, HeartbeatNext, DeleteNext, SweepNext

\* PluginInv is an invariant.
LEMMA PluginInvHolds == Spec => []PluginInv
  <1>1. Init => PluginInv
    BY LifecycleAssumption DEF Init, PluginInv, PluginExclusive, PhaseOf, Rival
  <1>. QED  BY <1>1, PluginStep, TypeCorrect, RegistrationCorrect, PTL DEF Spec

(* Of two registrations that race for a plugin on the same node path, at most *)
(* one succeeds: RegisterEndpoints holds its lock from the first check to the *)
(* last store (local.go:44-71).                                               *)
THEOREM PluginCorrect == Spec => []PluginExclusive
  <1>1. PluginInv => PluginExclusive
    BY DEF PluginInv
  <1>. QED  BY <1>1, PluginInvHolds, PTL

-----------------------------------------------------------------------------
(* The registry as a service.  Storing has nothing of a registration that  *)
(* is not at its stores, so only the last check and the refusal decide.    *)

LEMMA StoringIs ==
    ASSUME TypeOK, RegistrationInv
    PROVE  \A e \in Eps : e \in Storing <=> PhaseOf(e) = "storing" /\ e \in postTodo[ServiceOf[e]]
  BY LifecycleAssumption DEF TypeOK, RegistrationInv, Storing, PhaseOf, EpsOf

\* What leaves the registrations and the store alone is no step of the service.
LEMMA RegistryStutters ==
    ASSUME UNCHANGED <<store, post, postTodo>>
    PROVE  UNCHANGED Registry!registryVars
  BY Zenon DEF store, Storing, Outcome, Registry!registryVars

LEMMA RegistryPost ==
    ASSUME TypeOK, TypeOK', RegistrationInv, RegistrationInv', PluginInv',
           NEW s \in Services, PostLock(s) \/ PostNext(s)
    PROVE  Registry!RegistryNext \/ UNCHANGED Registry!registryVars
  <1> DEFINE In(e) == PhaseOf(e) = "storing" /\ e \in postTodo[ServiceOf[e]]
  <1>1. \A e \in Eps : e \in Storing <=> In(e)
    BY StoringIs
  <1>2. \A e \in Eps : e \in Storing' <=> In(e)'
    BY LifecycleAssumption, SMTT(60) DEF TypeOK, RegistrationInv, Storing, PhaseOf, EpsOf
  <1>3. Storing \subseteq Eps /\ Storing' \subseteq Eps
    BY DEF TypeOK, Storing
  <1>4. CASE PostLock(s)
    <2>1. \A t \in Services : Outcome(t)' = Outcome(t)
      BY <1>4, Zenon DEF PostLock, Outcome, TypeOK
    <2>2. \A e \in Eps : In(e)' <=> In(e)
      BY <1>4, LifecycleAssumption, ZenonT(60) DEF PostLock, TypeOK, PhaseOf
    <2>3. Storing' = Storing
      BY <1>1, <1>2, <1>3, <2>2, Zenon
    <2>. QED  BY <1>4, <2>1, <2>3 DEF PostLock, store, Registry!registryVars
  <1>5. ASSUME NEW e \in Eps, PostCheck(s, e)
        PROVE  Registry!RegistryNext \/ UNCHANGED Registry!registryVars
    <2>1. mu = s /\ post[s] = "checking" /\ Storing = {}
      BY <1>1, <1>3, <1>5, LifecycleAssumption, SMTT(60)
         DEF PostCheck, PostRound, RegistrationInv, TypeOK, PhaseOf
    <2>2. CASE postTodo[s] # {e}
      <3>1. \A t \in Services : Outcome(t)' = Outcome(t)
        BY <1>5, <2>1, <2>2, Zenon DEF PostCheck, PostRound, Outcome, TypeOK
      <3>2. \A f \in Eps : ~In(f)'
        BY <1>1, <1>5, <2>1, <2>2, LifecycleAssumption, ZenonT(60)
           DEF PostCheck, PostRound, TypeOK, PhaseOf
      <3>3. Storing' = {}
        BY <1>2, <1>3, <3>2, Zenon
      <3>. QED  BY <1>5, <2>1, <3>1, <3>3 DEF PostCheck, store, Registry!registryVars
    <2>3. CASE postTodo[s] = {e}
      <3>1. post' = [post EXCEPT ![s] = "storing"] /\ postTodo' = [postTodo EXCEPT ![s] = EpsOf(s)]
        BY <1>5, <2>3 DEF PostCheck, PostRound
      <3>2. endpoints' = endpoints /\ revived' = revived
        BY <1>5 DEF PostCheck, store
      <3>3. Outcome(s) = "open" /\ Outcome(s)' = "accepted"
        BY <2>1, <3>1, Zenon DEF Outcome, TypeOK
      <3>4. \A t \in Services : t # s => Outcome(t)' = Outcome(t)
        BY <3>1, Zenon DEF Outcome, TypeOK
      <3>5. Registry!Decide(s, "open", "accepted")
        BY <3>3, <3>4, Zenon DEF Registry!Decide
      <3>6. \A f \in Eps : In(f)' <=> f \in EpsOf(s)
        BY <1>1, <2>1, <3>1, LifecycleAssumption, ZenonT(60) DEF TypeOK, PhaseOf, EpsOf
      <3>7. Storing' = EpsOf(s)
        BY <1>2, <1>3, <3>6, Zenon DEF EpsOf
      <3>8. ASSUME NEW f \in endpoints \ revived, Registry!Competes(s, f)  PROVE FALSE
        <4>1. f \in Eps /\ f \in Plugins
          BY <3>8, Zenon DEF Registry!Competes, TypeOK
        <4>2. PICK g \in Plugins : g \in EpsOf(s) /\ PathOf[g] = PathOf[f]
          BY <3>8, Zenon DEF Registry!Competes, Registry!Batch, EpsOf
        <4>3. g \in Eps /\ ServiceOf[g] = s
          BY <4>2 DEF EpsOf
        <4>4. PhaseOf(g)' = "storing"
          BY <3>1, <4>3, Zenon DEF PhaseOf, TypeOK
        <4>5. Rival(g, f)'
          BY <3>2, <3>8, <4>1, <4>2 DEF Rival
        <4>6. ServiceOf[f] = s
          BY <4>1, <4>2, <4>3, <4>4, <4>5, Zenon DEF PluginInv
        <4>. QED  BY <2>1, <3>8, <4>1, <4>6, Zenon DEF RegistrationInv, PhaseOf
      <3>9. Registry!Accept(s)
        BY <2>1, <3>2, <3>5, <3>7, <3>8, Zenon DEF Registry!Accept, Registry!Batch, EpsOf
      <3>. QED  BY <3>9 DEF Registry!RegistryNext
    <2>. QED  BY <2>2, <2>3, Zenon
  <1>6. ASSUME NEW e \in Eps, PostReject(s, e)  PROVE Registry!Refuse(s)
    <2>1. post[s] = "checking" /\ post' = [post EXCEPT ![s] = "rejected"]
      BY <1>6 DEF PostReject
    <2>2. Outcome(s) = "open" /\ Outcome(s)' = "refused"
      BY <2>1, Zenon DEF Outcome, TypeOK
    <2>3. \A t \in Services : t # s => Outcome(t)' = Outcome(t)
      BY <2>1, Zenon DEF Outcome, TypeOK
    <2>4. Registry!Decide(s, "open", "refused")
      BY <2>2, <2>3, Zenon DEF Registry!Decide
    <2>5. \A f \in Eps : In(f)' <=> In(f)
      BY <1>6, <2>1, LifecycleAssumption, ZenonT(60) DEF PostReject, TypeOK, PhaseOf
    <2>6. Storing' = Storing
      BY <1>1, <1>2, <1>3, <2>5, Zenon
    <2>7. e \in EpsOf(s) /\ Conflict(e)
      BY <1>6, Zenon DEF PostReject, RegistrationInv
    <2>8. \E f \in endpoints : Registry!Competes(s, f)
      BY <2>7, Zenon DEF Conflict, Registry!Competes, Registry!Batch, EpsOf
    <2>. QED  BY <1>6, <2>4, <2>6, <2>8 DEF PostReject, store, Registry!Refuse
  <1>7. ASSUME NEW e \in Eps, PostStore(s, e)  PROVE UNCHANGED Registry!registryVars
    <2>1. \A t \in Services : Outcome(t)' = Outcome(t)
      BY <1>7, Zenon DEF PostStore, PostRound, Outcome, TypeOK
    <2>2. e \in postTodo[s] /\ post[s] = "storing" /\ ServiceOf[e] = s
      <3>1. e \in postTodo[s] /\ post[s] = "storing"
        BY <1>7, Zenon DEF PostStore, PostRound
      <3>2. postTodo[s] \subseteq EpsOf(s)
        BY Zenon DEF RegistrationInv
      <3>. QED  BY <3>1, <3>2, Zenon DEF EpsOf
    <2>3. \A f \in Eps : In(f)' <=> In(f) /\ f # e
      <3>1. CASE postTodo[s] = {e}
        BY <1>7, <2>2, <3>1, LifecycleAssumption, ZenonT(60) DEF PostStore, PostRound, TypeOK, PhaseOf
      <3>2. CASE postTodo[s] # {e}
        BY <1>7, <2>2, <3>2, LifecycleAssumption, ZenonT(60) DEF PostStore, PostRound, TypeOK, PhaseOf
      <3>. QED  BY <3>1, <3>2, Zenon
    <2>4. Storing' = Storing \ {e} /\ e \in Storing
      BY <1>1, <1>2, <1>3, <2>2, <2>3, Zenon DEF PhaseOf
    <2>5. endpoints' = endpoints \cup {e} /\ revived' = revived
      BY <1>7, Zenon DEF PostStore
    <2>6. (endpoints \cup Storing)' = endpoints \cup Storing
      BY <2>4, <2>5
    <2>. QED  BY <2>1, <2>5, <2>6 DEF Registry!registryVars
  <1>8. ASSUME NEW e \in Eps, PostPool(s, e)
        PROVE  Registry!Answer(s) \/ UNCHANGED Registry!registryVars
    <2>1. post[s] = "pooling" /\ post'[s] \in {"pooling", "done"}
          /\ \A t \in Services : t # s => post'[t] = post[t] /\ postTodo'[t] = postTodo[t]
      BY <1>8, Zenon DEF PostPool, PostRound, TypeOK
    <2>2. \A f \in Eps : In(f)' <=> In(f)
      BY <2>1, LifecycleAssumption, Zenon DEF PhaseOf
    <2>3. Storing' = Storing /\ endpoints' = endpoints /\ revived' = revived
      BY <1>1, <1>2, <1>3, <1>8, <2>2, Zenon DEF PostPool, store
    <2>4. \A t \in Services : t # s => Outcome(t)' = Outcome(t)
      BY <2>1, Zenon DEF Outcome
    <2>5. CASE post'[s] = "pooling"
      <3>1. Outcome(s)' = Outcome(s)
        BY <2>1, <2>5 DEF Outcome
      <3>. QED  BY <2>3, <2>4, <3>1 DEF Registry!registryVars
    <2>6. CASE post'[s] = "done"
      <3>1. Outcome(s) = "accepted" /\ Outcome(s)' = "answered"
        BY <2>1, <2>6 DEF Outcome
      <3>. QED  BY <2>3, <2>4, <3>1, Zenon DEF Registry!Answer, Registry!Decide
    <2>. QED  BY <2>1, <2>5, <2>6, Zenon
  <1>. QED  BY <1>4, <1>5, <1>6, <1>7, <1>8 DEF PostNext, Registry!RegistryNext

\* An endpoint that is put back is one whose registration was answered.
LEMMA RegistrySetAgain ==
    ASSUME TypeOK, RegistrationInv, NEW e \in Eps, SetAgain(e), UNCHANGED <<post, postTodo>>,
           e \notin endpoints => PhaseOf(e) = "done"
    PROVE  Registry!PutBack(e) \/ UNCHANGED Registry!registryVars
  <1>1. Storing' = Storing /\ \A t \in Services : Outcome(t)' = Outcome(t)
    BY DEF Storing, Outcome
  <1>2. CASE e \in endpoints
    BY <1>1, <1>2 DEF SetAgain, Registry!registryVars
  <1>3. CASE e \notin endpoints
    <2>1. PhaseOf(e) = "done" /\ e \notin Storing
      BY <1>3, StoringIs, Zenon
    <2>2. Outcome(ServiceOf[e]) = "answered" /\ ServiceOf[e] \in Services
      BY <2>1, LifecycleAssumption DEF Outcome, PhaseOf
    <2>3. (endpoints \cup Storing)' = (endpoints \cup Storing) \cup {e}
      BY <1>1 DEF SetAgain
    <2>4. revived' = revived \cup {e}
      BY <1>3 DEF SetAgain
    <2>. QED  BY <1>1, <1>3, <2>1, <2>2, <2>3, <2>4, Zenon DEF Registry!PutBack
  <1>. QED  BY <1>2, <1>3

\* Nothing that a removal takes is still being stored.
LEMMA RegistryRemoval ==
    ASSUME TypeOK, RegistrationInv, NEW gone \in SUBSET Eps, NEW s \in Services, post[s] = "done",
           gone \subseteq EpsOf(s), endpoints' = endpoints \ gone, revived' = revived,
           UNCHANGED <<post, postTodo>>
    PROVE  /\ (endpoints \cup Storing)' = (endpoints \cup Storing) \ gone
           /\ [t \in Services |-> Outcome(t)]' = [t \in Services |-> Outcome(t)]
           /\ [t \in Services |-> Outcome(t)][s] = "answered"
  <1>1. Storing' = Storing /\ \A t \in Services : Outcome(t)' = Outcome(t)
    BY DEF Storing, Outcome
  <1>2. \A e \in gone : e \notin Storing
    BY StoringIs DEF EpsOf, PhaseOf
  <1>3. Outcome(s) = "answered"
    BY DEF Outcome
  <1>. QED  BY <1>1, <1>2, <1>3

LEMMA RegistryStep ==
    ASSUME TypeOK, TypeOK', RegistrationInv, RegistrationInv', PluginInv', [Next]_vars
    PROVE  Registry!RegistryNext \/ UNCHANGED Registry!registryVars
  <1> USE DEF postVars
  <1>1. ASSUME NEW s \in Services, PostLock(s) \/ PostNext(s)
        PROVE  Registry!RegistryNext \/ UNCHANGED Registry!registryVars
    BY <1>1, RegistryPost
  <1>2. ASSUME NEW h \in Heartbeats, HeartbeatSet(h)
        PROVE  Registry!RegistryNext \/ UNCHANGED Registry!registryVars
    <2>1. beatHalf[h] \in Eps
      BY <1>2, Zenon DEF HeartbeatSet, TypeOK
    <2>2. PhaseOf(beatHalf[h]) = "done"
      BY <2>1, Zenon DEF RegistrationInv, Untouched
    <2>3. SetAgain(beatHalf[h]) /\ UNCHANGED <<post, postTodo>>
      BY <1>2 DEF HeartbeatSet
    <2>. QED  BY <2>1, <2>2, <2>3, RegistrySetAgain DEF Registry!RegistryNext
  <1>3. ASSUME NEW e \in Eps, CallbackSet(e)
        PROVE  Registry!RegistryNext \/ UNCHANGED Registry!registryVars
    <2>1. e \notin endpoints => PhaseOf(e) = "done"
      BY <1>3, Zenon DEF CallbackSet, RegistrationInv
    <2>2. SetAgain(e) /\ UNCHANGED <<post, postTodo>>
      BY <1>3 DEF CallbackSet
    <2>. QED  BY <2>1, <2>2, RegistrySetAgain DEF Registry!RegistryNext
  <1>4. ASSUME NEW d \in Deletions, NEW q \in Paths, DeleteAt(d, q)
        PROVE  Registry!RegistryNext
    <2> DEFINE s == delService[d]
               gone == {e \in EpsOf(s) : PathOf[e] = q}
    <2>1. s \in Services /\ post[s] = "done"
      BY <1>4, Zenon DEF DeleteAt, RegistrationInv
    <2>2. gone \in SUBSET Eps /\ gone \subseteq EpsOf(s)
      BY Zenon DEF EpsOf
    <2>3. endpoints' = endpoints \ gone /\ revived' = revived /\ UNCHANGED <<post, postTodo>>
      BY <1>4, Zenon DEF DeleteAt
    <2>4. gone = {e \in Registry!Batch(s) : PathOf[e] = q}
      BY DEF EpsOf, Registry!Batch
    <2> HIDE DEF s, gone
    <2>5. Registry!Delete(s, q)
      BY <2>1, <2>2, <2>3, <2>4, RegistryRemoval, Zenon DEF Registry!Delete
    <2>. QED  BY <2>1, <2>5 DEF Registry!RegistryNext
  <1>5. CASE SweepDelete
    <2>1. victim \in Eps /\ ServiceOf[victim] \in Services
      BY <1>5, LifecycleAssumption, ZenonT(60) DEF SweepDelete, TypeOK
    <2>2. post[ServiceOf[victim]] = "done"
      BY <2>1, Zenon DEF RegistrationInv, Untouched, PhaseOf
    <2>3. {victim} \in SUBSET Eps /\ {victim} \subseteq EpsOf(ServiceOf[victim])
      BY <2>1 DEF EpsOf
    <2>4. endpoints' = endpoints \ {victim} /\ revived' = revived /\ UNCHANGED <<post, postTodo>>
      BY <1>5 DEF SweepDelete
    <2>5. Registry!Expire(victim)
      BY <2>1, <2>2, <2>3, <2>4, RegistryRemoval, ZenonT(60) DEF Registry!Expire
    <2>. QED  BY <2>1, <2>5 DEF Registry!RegistryNext
  <1>6. ASSUME NEW h \in Heartbeats,
               \/ \E s \in Services, ok \in BOOLEAN : HeartbeatList(h, s, ok)
               \/ \E e \in Eps : HeartbeatHealthy(h, e)
        PROVE  UNCHANGED Registry!registryVars
    <2>1. UNCHANGED <<store, post, postTodo>>
      BY <1>6, Zenon DEF HeartbeatList, HeartbeatHealthy
    <2>. QED  BY <2>1, RegistryStutters
  <1>7. ASSUME NEW d \in Deletions,
               \/ \E s \in Services, p \in Paths \cup {AllPaths} : DeleteCollect(d, s, p)
               \/ DeleteList(d)
               \/ \E e \in Eps : DeletePool(d, e)
               \/ DeleteReturn(d)
        PROVE  UNCHANGED Registry!registryVars
    <2>1. UNCHANGED <<store, post, postTodo>>
      BY <1>7, Zenon DEF DeleteCollect, DeleteList, DeletePool, DeleteReturn
    <2>. QED  BY <2>1, RegistryStutters
  <1>8. CASE SweepList \/ \E e \in Eps : SweepCheck(e) \/ SweepPool(e)
    <2>1. UNCHANGED <<store, post, postTodo>>
      BY <1>8, Zenon DEF SweepList, SweepCheck, SweepPool
    <2>. QED  BY <2>1, RegistryStutters
  <1>9. ASSUME NEW e \in Eps, Silence(e) \/ CallbackGet(e) \/ PoolQuiet(e)
        PROVE  UNCHANGED Registry!registryVars
    <2>1. UNCHANGED <<store, post, postTodo>>
      BY <1>9, Zenon DEF Silence, CallbackGet, PoolQuiet
    <2>. QED  BY <2>1, RegistryStutters
  <1>10. CASE UNCHANGED vars
    <2>1. UNCHANGED <<store, post, postTodo>>
      BY <1>10 DEF vars
    <2>. QED  BY <2>1, RegistryStutters
  <1>. QED
    BY <1>1, <1>2, <1>3, <1>4, <1>5, <1>6, <1>7, <1>8, <1>9, <1>10, Zenon
       DEF Next, HeartbeatNext, DeleteNext, SweepNext

(* The handlers and the sweep implement the registry's promise, whatever they *)
(* interleave with: a registration takes effect at its last check or not at   *)
(* all (local.go:44-71), a removal takes only endpoints whose registration    *)
(* was answered, and what heartbeats and callbacks add was there before.      *)
THEOREM RegistryImplemented == Spec => ImplementsRegistry
  <1>1. Init => Registry!RegistryInit
    <2> SUFFICES ASSUME Init  PROVE Registry!RegistryInit
      OBVIOUS
    <2>1. Storing = {} /\ \A s \in Services : Outcome(s) = "open"
      BY DEF Init, Storing, Outcome
    <2>. QED  BY <2>1, Zenon DEF Init, Registry!RegistryInit
  <1>2. /\ TypeOK /\ TypeOK' /\ RegistrationInv /\ RegistrationInv' /\ PluginInv'
        /\ [Next]_vars
        => [Registry!RegistryNext]_Registry!registryVars
    BY RegistryStep
  <1>. QED
    BY <1>1, <1>2, TypeCorrect, RegistrationCorrect, PluginInvHolds, PTL
       DEF Spec, ImplementsRegistry, Registry!RegistrySpec
=============================================================================
