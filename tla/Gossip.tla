------------------------------- MODULE Gossip -------------------------------
(***************************************************************************)
(* Membership and state synchronisation between the nodes of a cluster     *)
(* (internal/gossip/gossip.go, internal/gossip/sync/sync.go,               *)
(* internal/gossip/discovery/discovery.go, internal/models/node.go): the   *)
(* peers of a node, the paths it believes the others serve, the discovery  *)
(* by UDP, the health check of the peers and the removal of what has not   *)
(* been heard of for long.                                                 *)
(*                                                                         *)
(* Every post runs in a goroutine of its own, so that messages overtake    *)
(* one another, and its failure is only logged, so that they get lost.     *)
(* The receiver handles each in steps, between which others are handled.   *)
(* Node ids are derived from the MAC address: a node that is started again *)
(* has the id it had.                                                      *)
(***************************************************************************)
EXTENDS Naturals, FiniteSets

CONSTANTS Nodes, Paths,
          Services,        \* registrations; those of one node may share a path
          NodeOf, PathOf,
          Reach,           \* <<n, m>>: the UDP broadcasts of n reach m
          Connects,        \* <<n, m>>: an operator may connect n to m
          Mortal,          \* nodes that stop and may be started again
          MaxAlarms,       \* health checks that fail though the peer is up
          MaxInFlight,     \* messages on the network or being handled
          NoNode

ASSUME GossipAssumption ==
    /\ NodeOf \in [Services -> Nodes]
    /\ PathOf \in [Services -> Paths]
    /\ Reach \subseteq Nodes \X Nodes
    /\ Connects \subseteq Nodes \X Nodes
    /\ \A n \in Nodes : <<n, n>> \notin Connects
    /\ Mortal \subseteq Nodes
    /\ MaxAlarms \in Nat
    /\ MaxInFlight \in Nat
    /\ NoNode \notin Nodes

VARIABLES
    up,          \* the nodes that run
    served,      \* services in the registry of their node
    healthy,     \* those of them that are healthy
    peers,       \* Sync.peers
    remote,      \* the nodes in the RemoteNodeStore
    view,        \* EndpointStates of the nodes in the RemoteNodeStore
    lateNodes,   \* <<n, m>>: LastSeen of m at n is more than two timeouts ago
    lateStates,  \* <<n, m, p>>: LastSeen of path p is more than three timeouts ago
    booting,     \* nodes that have not joined their first candidates yet
    candidates,  \* Discovery.candidates
    joining,     \* nodes that a goroutine is about to pass to JoinNode
    suspect,     \* the peer whose health check just failed
    net,         \* messages on the network or being handled
    alarms

services == <<up, served, healthy>>
store == <<remote, view, lateNodes, lateStates>>
discovery == <<booting, candidates, joining>>
vars == <<services, peers, store, discovery, suspect, net, alarms>>

Views == {"none", "healthy", "unhealthy"}
Nothing == [p \in Paths |-> "none"]

\* "at": where a message is, on the network or before a step of its handler.
Messages ==
    [type : {"sync", "deleted", "leave", "peer_announce"}, from : Nodes, to : Nodes,
     infos : [Paths -> Views], paths : SUBSET Paths,
     at : {"net", "node", "state", "metadata", "deleted", "leave", "peer"}]

TypeOK ==
    /\ up \subseteq Nodes /\ served \subseteq Services /\ healthy \subseteq served
    /\ peers \in [Nodes -> SUBSET Nodes]
    /\ remote \in [Nodes -> SUBSET Nodes]
    /\ view \in [Nodes -> [Nodes -> [Paths -> Views]]]
    /\ lateNodes \subseteq Nodes \X Nodes
    /\ lateStates \subseteq Nodes \X Nodes \X Paths
    /\ booting \subseteq up
    /\ candidates \in [Nodes -> SUBSET Nodes]
    /\ joining \in [Nodes -> SUBSET Nodes]
    /\ suspect \in [Nodes -> Nodes \cup {NoNode}]
    /\ net \subseteq Messages
    /\ alarms \in 0..MaxAlarms

Init ==
    /\ up = {} /\ served = {} /\ healthy = {}
    /\ peers = [n \in Nodes |-> {}]
    /\ remote = [n \in Nodes |-> {}]
    /\ view = [n \in Nodes |-> [m \in Nodes |-> Nothing]]
    /\ lateNodes = {} /\ lateStates = {}
    /\ booting = {}
    /\ candidates = [n \in Nodes |-> {}]
    /\ joining = [n \in Nodes |-> {}]
    /\ suspect = [n \in Nodes |-> NoNode]
    /\ net = {}
    /\ alarms = 0

-----------------------------------------------------------------------------
(* What is sent.                                                           *)

\* AggregateLocalPathInfos: a path is healthy when one of its services is.
PathInfos(n, in, well) ==
    [p \in Paths |->
        LET at == {s \in in : NodeOf[s] = n /\ PathOf[s] = p}
        IN  IF at = {} THEN "none"
            ELSE IF at \cap well # {} THEN "healthy" ELSE "unhealthy"]

Message(type, n, m, infos, paths) ==
    [type |-> type, from |-> n, to |-> m, infos |-> infos, paths |-> paths, at |-> "net"]

SyncTo(n, m, in, well) == Message("sync", n, m, PathInfos(n, in, well), {})

\* BroadcastSync and BroadcastState send the same to all peers.
BroadcastSync(n, in, well) == {SyncTo(n, m, in, well) : m \in peers[n]}

BroadcastDeletedPaths(n, paths) == {Message("deleted", n, m, Nothing, paths) : m \in peers[n]}

BroadcastNodeLeave(n) == {Message("leave", n, m, Nothing, {}) : m \in peers[n]}

\* PostToPeerAsync.  What does not fit any more is lost.
Posted(before, messages) ==
    IF Cardinality(before \cup messages) <= MaxInFlight THEN before \cup messages ELSE before

-----------------------------------------------------------------------------
(* AddPeer.  The peer is added and the remote node created or refreshed    *)
(* under one lock; a new peer makes the node send its state to all peers   *)
(* and tell the other peers of it.                                         *)

addPeerLocked(n, m) ==
    /\ peers' = [peers EXCEPT ![n] = @ \cup {m}]
    /\ remote' = IF m \in peers[n] THEN remote ELSE [remote EXCEPT ![n] = @ \cup {m}]
    /\ lateNodes' = lateNodes \ {<<n, m>>}

AddPeerPosts(n, m) ==
    IF m \in peers[n] THEN {}
    ELSE {SyncTo(n, k, served, healthy) : k \in peers[n] \cup {m}}
           \cup {Message("peer_announce", n, k, Nothing, {}) : k \in peers[n]}

AddPeer(n, m, before) ==
    /\ addPeerLocked(n, m)
    /\ net' = Posted(before, AddPeerPosts(n, m))
    /\ UNCHANGED <<view, lateStates>>

\* Mutant: the peer stays.
RemovePeerStore(n, m) ==
    /\ remote' = [remote EXCEPT ![n] = @ \ {m}]
    /\ view' = [view EXCEPT ![n][m] = Nothing]
    /\ lateNodes' = lateNodes \ {<<n, m>>}
    /\ lateStates' = {x \in lateStates : x[1] # n \/ x[2] # m}
    /\ UNCHANGED peers

\* RemovePeer: the peer and the remote node go under one lock.
RemovePeer(n, m) ==
    /\ peers' = [peers EXCEPT ![n] = @ \ {m}]
    /\ remote' = [remote EXCEPT ![n] = @ \ {m}]
    /\ view' = [view EXCEPT ![n][m] = Nothing]
    /\ lateNodes' = lateNodes \ {<<n, m>>}
    /\ lateStates' = {x \in lateStates : x[1] # n \/ x[2] # m}

-----------------------------------------------------------------------------
(* The services of a node.                                                 *)

\* handlePostEndpoints: the endpoint is stored and the state broadcast.
Register(s) ==
    /\ NodeOf[s] \in up
    /\ s \notin served
    /\ served' = served \cup {s}
    /\ healthy' = healthy \cup {s}
    /\ net' = Posted(net, BroadcastSync(NodeOf[s], served', healthy'))
    /\ UNCHANGED <<up, peers, store, discovery, suspect, alarms>>

\* Mutant: the state that is broadcast was read before the removal.
DeleteReadFirst(s) ==
    /\ s \in served
    /\ served' = served \ {s}
    /\ healthy' = healthy \ {s}
    /\ net' = Posted(net, BroadcastSync(NodeOf[s], served, healthy)
                          \cup BroadcastDeletedPaths(NodeOf[s], {PathOf[s]}))
    /\ UNCHANGED <<up, peers, store, discovery, suspect, alarms>>

\* handleDeleteEndpoints: the new state is broadcast, and then the deleted path,
\* which another service may still serve.
Delete(s) ==
    /\ s \in served
    /\ served' = served \ {s}
    /\ healthy' = healthy \ {s}
    /\ net' = Posted(net, BroadcastSync(NodeOf[s], served', healthy')
                          \cup BroadcastDeletedPaths(NodeOf[s], {PathOf[s]}))
    /\ UNCHANGED <<up, peers, store, discovery, suspect, alarms>>

\* A heartbeat or the lack of one changes the health; nothing is broadcast.
UpdateHeartbeat(s) ==
    /\ s \in served
    /\ healthy' = IF s \in healthy THEN healthy \ {s} ELSE healthy \cup {s}
    /\ UNCHANGED <<up, served, peers, store, discovery, suspect, net, alarms>>

\* CheckStaleEndpoints removes a silent service; nothing is broadcast.
CheckStaleEndpoints(s) ==
    /\ s \in served
    /\ served' = served \ {s}
    /\ healthy' = healthy \ {s}
    /\ UNCHANGED <<up, peers, store, discovery, suspect, net, alarms>>

\* The loop of runGateway that broadcasts the state for ever.
BroadcastState(n) ==
    /\ n \in up
    /\ net' = Posted(net, BroadcastSync(n, served, healthy))
    /\ UNCHANGED <<services, peers, store, discovery, suspect, alarms>>

-----------------------------------------------------------------------------
(* handleGossipSync adds the sender as a peer, whatever the message says,  *)
(* and then HandleStateMessage applies it step by step.                    *)

HandleLast(msg) == net' = net \ {msg}
HandleNext(msg, step) == net' = (net \ {msg}) \cup {[msg EXCEPT !.at = step]}

\* The step of HandleStateMessage a message begins with.
FirstStep(msg) ==
    IF msg.type \in {"deleted", "leave"} THEN msg.type ELSE "node"

\* Mutant: the sender is not added as a peer.
ReceiveState(msg) ==
    /\ msg.at = "net"
    /\ msg.to \in up
    /\ msg.type # "peer_announce"
    /\ IF msg.type = "sync" /\ msg.infos = Nothing THEN HandleLast(msg)
       ELSE HandleNext(msg, FirstStep(msg))
    /\ UNCHANGED <<services, peers, store, discovery, suspect, alarms>>

Receive(msg) ==
    /\ msg.at = "net"
    /\ msg.to \in up
    /\ msg.type # "peer_announce"
    /\ AddPeer(msg.to, msg.from,
               IF msg.type = "sync" /\ msg.infos = Nothing THEN net \ {msg}
               ELSE (net \ {msg}) \cup {[msg EXCEPT !.at = FirstStep(msg)]})
    /\ UNCHANGED <<services, discovery, suspect, alarms>>

\* A peer_announce carries no node id, and nothing is done with it.
ReceiveAnnounce(msg) ==
    /\ msg.at = "net"
    /\ msg.to \in up
    /\ msg.type = "peer_announce"
    /\ HandleLast(msg)
    /\ UNCHANGED <<services, peers, store, discovery, suspect, alarms>>

\* Mutant: the remote node is not created again.
CreateNothing(msg) ==
    /\ msg.at = "node"
    /\ HandleNext(msg, "state")
    /\ UNCHANGED <<services, peers, store, discovery, suspect, alarms>>

\* The remote node is created again if it was removed and its peer was not.
CreateRemoteNode(msg) ==
    /\ msg.at = "node"
    /\ HandleNext(msg, "state")
    /\ remote' = IF msg.from \in peers[msg.to]
                 THEN [remote EXCEPT ![msg.to] = @ \cup {msg.from}] ELSE remote
    /\ UNCHANGED <<services, peers, view, lateNodes, lateStates, discovery, suspect, alarms>>

\* The view of msg.from at msg.to with the paths of the message set to new.
\* Paths that the message does not name stay.
Merge(msg, new) ==
    /\ view' = IF msg.from \notin remote[msg.to] THEN view
               ELSE [view EXCEPT ![msg.to][msg.from] =
                        [p \in Paths |-> IF msg.infos[p] = "none" THEN @[p] ELSE new[p]]]
    /\ lateStates' = {x \in lateStates :
                        x[1] # msg.to \/ x[2] # msg.from \/ msg.infos[x[3]] = "none"}

\* UpdateState: the states of the message replace the known ones.
UpdateState(msg) ==
    /\ msg.at = "state"
    /\ HandleNext(msg, "metadata")
    /\ Merge(msg, msg.infos)
    /\ lateNodes' = lateNodes \ {<<msg.to, msg.from>>}
    /\ UNCHANGED <<services, peers, remote, discovery, suspect, alarms>>

\* UpdateMetadata makes every path of the message healthy.
UpdateMetadata(msg) ==
    /\ msg.at = "metadata"
    /\ HandleLast(msg)
    /\ Merge(msg, [p \in Paths |-> "healthy"])
    /\ UNCHANGED <<services, peers, remote, lateNodes, discovery, suspect, alarms>>

\* RemoveRemoteEndpoint for every deleted path.
RemoveEndpoints(msg) ==
    /\ msg.at = "deleted"
    /\ HandleLast(msg)
    /\ view' = [view EXCEPT ![msg.to][msg.from] =
                   [p \in Paths |-> IF p \in msg.paths THEN "none" ELSE @[p]]]
    /\ lateStates' = {x \in lateStates :
                        x[1] # msg.to \/ x[2] # msg.from \/ x[3] \notin msg.paths}
    /\ UNCHANGED <<services, peers, remote, lateNodes, discovery, suspect, alarms>>

\* node_leave: the remote node goes, and then, under another lock, the peer.
RemoveRemoteNode(msg) ==
    /\ msg.at = "leave"
    /\ HandleNext(msg, "peer")
    /\ remote' = [remote EXCEPT ![msg.to] = @ \ {msg.from}]
    /\ view' = [view EXCEPT ![msg.to][msg.from] = Nothing]
    /\ lateNodes' = lateNodes \ {<<msg.to, msg.from>>}
    /\ lateStates' = {x \in lateStates : x[1] # msg.to \/ x[2] # msg.from}
    /\ UNCHANGED <<services, peers, discovery, suspect, alarms>>

DeletePeer(msg) ==
    /\ msg.at = "peer"
    /\ HandleLast(msg)
    /\ peers' = [peers EXCEPT ![msg.to] = @ \ {msg.from}]
    /\ UNCHANGED <<services, store, discovery, suspect, alarms>>

\* A post fails: its connection, its timeout, or its receiver is down.
Lose(msg) ==
    /\ msg.at = "net"
    /\ HandleLast(msg)
    /\ UNCHANGED <<services, peers, store, discovery, suspect, alarms>>

-----------------------------------------------------------------------------
(* Discovery.                                                              *)

\* broadcastPresence: while m runs, its announcements get to n now and then.
broadcastPresence(m, n) == m \in up /\ <<m, n>> \in Reach

\* Mutant: a node listens to its own broadcasts.
HearsAnyone(n, m) == n \in up

\* startUDPListener: a node ignores its own broadcasts.
Hears(n, m) == n \in up /\ m # n

\* addCandidate.  Only a new candidate is joined.
AddCandidate(n, m) ==
    /\ broadcastPresence(m, n) /\ Hears(n, m)
    /\ m \notin candidates[n]
    /\ candidates' = [candidates EXCEPT ![n] = @ \cup {m}]
    /\ joining' = [joining EXCEPT ![n] = @ \cup {m}]
    /\ UNCHANGED <<services, peers, store, booting, suspect, net, alarms>>

\* startDiscovery, one second after the start: all candidates are joined.
StartDiscovery(n) ==
    /\ n \in booting
    /\ booting' = booting \ {n}
    /\ joining' = [joining EXCEPT ![n] = @ \cup candidates[n]]
    /\ UNCHANGED <<services, peers, store, candidates, suspect, net, alarms>>

\* cleanupStaleCandidates: no announcement of m came for candidateTimeout.
CleanupStaleCandidates(n, m) ==
    /\ m \in candidates[n]
    /\ candidates' = [candidates EXCEPT ![n] = @ \ {m}]
    /\ UNCHANGED <<services, peers, store, booting, joining, suspect, net, alarms>>

\* The goroutine that was started for a candidate or a connection.
JoinNode(n, m) ==
    /\ m \in joining[n]
    /\ joining' = [joining EXCEPT ![n] = @ \ {m}]
    /\ AddPeer(n, m, net)
    /\ UNCHANGED <<services, booting, candidates, suspect, alarms>>

\* handleGossipJoin of m adds n as a peer and sends it its state.
handleGossipJoin(m, n) == AddPeer(m, n, Posted(net, {SyncTo(m, n, served, healthy)}))

\* handleConnect of n posts to handleGossipJoin of m; n joins m unless the answer
\* is lost.
Connect(n, m) ==
    /\ <<n, m>> \in Connects
    /\ {n, m} \subseteq up
    /\ handleGossipJoin(m, n)
    /\ \/ joining' = [joining EXCEPT ![n] = @ \cup {m}]
       \/ UNCHANGED joining
    /\ UNCHANGED <<services, booting, candidates, suspect, alarms>>

-----------------------------------------------------------------------------
(* The health check of the peers and the removal of what is stale.         *)

\* checkSinglePeerHealth: the check of a stopped peer fails, and that of a
\* running one may; the peer is removed when the failure is noticed.
CheckFails(n, m) ==
    /\ n \in up /\ suspect[n] = NoNode
    /\ m \in peers[n]
    /\ suspect' = [suspect EXCEPT ![n] = m]
    /\ IF m \in up THEN alarms < MaxAlarms /\ alarms' = alarms + 1
       ELSE UNCHANGED alarms
    /\ UNCHANGED <<services, peers, store, discovery, net>>

CheckRemoves(n) ==
    /\ suspect[n] # NoNode
    /\ RemovePeer(n, suspect[n])
    /\ suspect' = [suspect EXCEPT ![n] = NoNode]
    /\ UNCHANGED <<services, discovery, net, alarms>>

\* Time passes and nothing is heard of a node, or of one of its paths.  The
\* handling of a message takes less than the timeouts.
Handling(n, m) == \E msg \in net : msg.to = n /\ msg.from = m /\ msg.at # "net"

NodeGetsLate(n, m) ==
    /\ m \in remote[n] /\ <<n, m>> \notin lateNodes
    /\ ~Handling(n, m)
    /\ lateNodes' = lateNodes \cup {<<n, m>>}
    /\ UNCHANGED <<services, peers, remote, view, lateStates, discovery, suspect, net, alarms>>

StateGetsLate(n, m, p) ==
    /\ view[n][m][p] # "none" /\ <<n, m, p>> \notin lateStates
    /\ ~Handling(n, m)
    /\ lateStates' = lateStates \cup {<<n, m, p>>}
    /\ UNCHANGED <<services, peers, remote, view, lateNodes, discovery, suspect, net, alarms>>

\* Mutant: the peers of stale nodes are removed as well.
CleanStalePeers(n) ==
    /\ n \in up
    /\ peers' = [peers EXCEPT ![n] = {m \in @ : <<n, m>> \notin lateNodes}]
    /\ remote' = [remote EXCEPT ![n] = {m \in @ : <<n, m>> \notin lateNodes}]
    /\ view' = [view EXCEPT ![n] =
                  [m \in Nodes |-> IF <<n, m>> \in lateNodes THEN Nothing ELSE @[m]]]
    /\ lateNodes' = {x \in lateNodes : x[1] # n}
    /\ UNCHANGED <<services, lateStates, discovery, suspect, net, alarms>>

\* Mutant: paths do not get stale.
CleanStaleNodes(n) ==
    /\ n \in up
    /\ remote' = [remote EXCEPT ![n] = {m \in @ : <<n, m>> \notin lateNodes}]
    /\ view' = [view EXCEPT ![n] =
                  [m \in Nodes |-> IF <<n, m>> \in lateNodes THEN Nothing ELSE @[m]]]
    /\ lateNodes' = {x \in lateNodes : x[1] # n}
    /\ UNCHANGED <<services, peers, lateStates, discovery, suspect, net, alarms>>

\* CleanStale, under the lock of the store.  The peers stay.
CleanStale(n) ==
    /\ n \in up
    /\ remote' = [remote EXCEPT ![n] = {m \in @ : <<n, m>> \notin lateNodes}]
    /\ view' = [view EXCEPT ![n] =
                  [m \in Nodes |-> IF <<n, m>> \in lateNodes THEN Nothing
                     ELSE [p \in Paths |-> IF <<n, m, p>> \in lateStates THEN "none" ELSE @[m][p]]]]
    /\ lateNodes' = {x \in lateNodes : x[1] # n}
    /\ lateStates' = {x \in lateStates : x[1] # n}
    /\ UNCHANGED <<services, peers, discovery, suspect, net, alarms>>

-----------------------------------------------------------------------------
(* Start and end of a node.                                                *)

\* What the node posted before it stopped has arrived or is lost.
Start(n) ==
    /\ n \notin up
    /\ \A msg \in net : msg.from # n
    /\ up' = up \cup {n}
    /\ booting' = booting \cup {n}
    /\ UNCHANGED <<served, healthy, peers, store, candidates, joining, suspect, net, alarms>>

\* All of the state is in memory.  Messages on the network stay there.
Stop(n, messages) ==
    /\ n \in up \cap Mortal
    /\ up' = up \ {n}
    /\ served' = {s \in served : NodeOf[s] # n}
    /\ healthy' = {s \in healthy : NodeOf[s] # n}
    /\ peers' = [peers EXCEPT ![n] = {}]
    /\ remote' = [remote EXCEPT ![n] = {}]
    /\ view' = [view EXCEPT ![n] = [m \in Nodes |-> Nothing]]
    /\ lateNodes' = {x \in lateNodes : x[1] # n}
    /\ lateStates' = {x \in lateStates : x[1] # n}
    /\ booting' = booting \ {n}
    /\ candidates' = [candidates EXCEPT ![n] = {}]
    /\ joining' = [joining EXCEPT ![n] = {}]
    /\ suspect' = [suspect EXCEPT ![n] = NoNode]
    /\ net' = Posted({msg \in net : msg.at = "net" \/ msg.to # n}, messages)
    /\ UNCHANGED alarms

Crash(n) == Stop(n, {})
\* Shutdown: the leave messages are posted and not waited for.
Shutdown(n) == Stop(n, BroadcastNodeLeave(n))

-----------------------------------------------------------------------------
Handle(msg) ==
    \/ CreateRemoteNode(msg) \/ UpdateState(msg) \/ UpdateMetadata(msg)
    \/ RemoveEndpoints(msg) \/ RemoveRemoteNode(msg) \/ DeletePeer(msg)

Next ==
    \/ \E s \in Services : \/ Register(s) \/ Delete(s)
                           \/ UpdateHeartbeat(s) \/ CheckStaleEndpoints(s)
    \/ \E msg \in net : Receive(msg) \/ ReceiveAnnounce(msg) \/ Handle(msg) \/ Lose(msg)
    \/ \E n \in Nodes : \/ BroadcastState(n) \/ StartDiscovery(n) \/ CheckRemoves(n)
                        \/ CleanStale(n) \/ Start(n) \/ Crash(n) \/ Shutdown(n)
    \/ \E n, m \in Nodes : \/ AddCandidate(n, m) \/ CleanupStaleCandidates(n, m)
                           \/ JoinNode(n, m) \/ Connect(n, m)
                           \/ CheckFails(n, m) \/ NodeGetsLate(n, m)
    \/ \E n, m \in Nodes, p \in Paths : StateGetsLate(n, m, p)

Spec == Init /\ [][Next]_vars

-----------------------------------------------------------------------------
(* Fairness.  The loops of a node run for ever, its goroutines are         *)
(* scheduled, a post ends after its timeout at the latest, and of the      *)
(* states a node keeps sending to a running peer some arrive.  Nothing is  *)
(* assumed of operators, services, crashes and false alarms.               *)

Sends(m, n) == m \in up /\ n \in peers[m]
Offers(m, p) == \E s \in served : NodeOf[s] = m /\ PathOf[s] = p

\* The messages that are sent, at the steps of their handlers.
Sendable ==
    {msg \in Messages :
        /\ msg.from # msg.to
        /\ msg.type # "sync" => msg.infos = Nothing
        /\ msg.type # "deleted" => msg.paths = {}
        /\ msg.type = "deleted" => Cardinality(msg.paths) = 1
        /\ msg.at \in CASE msg.type = "sync" -> {"net", "node", "state", "metadata"}
                        [] msg.type = "deleted" -> {"net", "deleted"}
                        [] msg.type = "leave" -> {"net", "leave", "peer"}
                        [] OTHER -> {"net"}}

Proceed(msg) == msg \in net /\ (Receive(msg) \/ ReceiveAnnounce(msg) \/ Handle(msg) \/ Lose(msg))

ReceiveSync(n, m) ==
    \E msg \in net : msg.type = "sync" /\ msg.from = m /\ msg.to = n /\ Receive(msg)

Fairness ==
    /\ \A n \in Nodes : /\ WF_vars(BroadcastState(n)) /\ WF_vars(StartDiscovery(n))
                        /\ WF_vars(CheckRemoves(n)) /\ WF_vars(CleanStale(n))
    /\ \A n \in Nodes : \A m \in Nodes \ {n} :
          /\ WF_vars(AddCandidate(n, m)) /\ WF_vars(JoinNode(n, m))
          /\ WF_vars(m \notin up /\ CheckFails(n, m))
          /\ WF_vars(~Sends(m, n) /\ NodeGetsLate(n, m))
          /\ \A p \in Paths :
                WF_vars(~(Sends(m, n) /\ Offers(m, p)) /\ StateGetsLate(n, m, p))
          /\ SF_vars(ReceiveSync(n, m))
    /\ \A msg \in Sendable : WF_vars(Proceed(msg))

FairSpec == Spec /\ Fairness

-----------------------------------------------------------------------------
(* Properties.                                                             *)

\* No node becomes a peer of its own or keeps itself as a remote node, so that
\* getNodesForPath never lists the node itself as a remote one.
NotOwnPeer ==
    \A n \in Nodes : n \notin peers[n] /\ n \notin remote[n]

\* Without a false alarm a peer that never stops is not removed while its
\* neighbour runs: neither CleanStale, nor a leave message, nor a health check
\* that was begun earlier takes it out of Sync.peers.
KeepsRunningPeers ==
    [][\A n \in up \cap up', m \in Nodes \ Mortal :
          m \in peers[n] /\ alarms = 0 => m \in peers'[n]]_vars

\* No node knows that m serves p, and no message on its way says so.
Unknown(m, p) ==
    /\ \A n \in Nodes : view[n][m][p] = "none"
    /\ \A msg \in net : msg.from = m => msg.infos[p] = "none"

\* Nobody makes a path up: what no node knows and no message says, becomes known only
\* when the node serves it.  Neither the broadcast of a deletion, nor a late join, nor
\* UpdateMetadata, nor a restart brings a path back that is forgotten.
NotInvented ==
    [][\A m \in Nodes, p \in Paths : Unknown(m, p) /\ ~Offers(m, p)' => Unknown(m, p)']_vars

\* A node that stopped for good is forgotten for good by every other node,
\* although late messages add it again as a peer or a remote node.
Departed ==
    \A n \in Nodes : \A m \in Nodes \ {n} :
        <>[](m \notin up) => <>[](m \notin peers[n] /\ m \notin remote[n])

\* A path that a node no longer serves is dropped for good by every other node,
\* also when the deletion was never announced, or its message was lost or
\* overtaken by an older state.
Withdrawn ==
    \A n \in Nodes : \A m \in Nodes \ {n} : \A p \in Paths :
        <>[]~Offers(m, p) => <>[](view[n][m][p] = "none")

\* A path that a node keeps serving is again and again known to each peer it
\* sends its state to, although deletions of another service with the path,
\* lost messages and CleanStale hide it for a time.
Spread ==
    \A n \in Nodes : \A m \in Nodes \ {n} : \A p \in Paths :
        <>[](n \in up /\ Sends(m, n) /\ Offers(m, p)) => []<>(view[n][m][p] # "none")

\* Nodes that run for good become and stay peers of each other when the broadcasts
\* of each reach the other and no health check of a running node fails: a
\* removal that was decided before a restart, a late leave message or a join that
\* got lost does not separate them.
Meet ==
    \A n \in Nodes : \A m \in Nodes \ {n} :
        {<<n, m>>, <<m, n>>} \subseteq Reach /\ [](alarms = 0) /\ <>[]({n, m} \subseteq up)
            => <>[](m \in peers[n] /\ n \in peers[m])

=============================================================================
