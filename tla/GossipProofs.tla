---------------------------- MODULE GossipProofs ----------------------------
(***************************************************************************)
(* Proofs about Gossip, for any number of nodes, services, paths, false    *)
(* alarms and messages in flight.                                          *)
(***************************************************************************)
EXTENDS Gossip, TLAPS

(* A post adds nothing but the posted messages (PostToPeerAsync). *)
LEMMA PostedSubset ==
    ASSUME NEW before, NEW messages
    PROVE  Posted(before, messages) \subseteq before \cup messages
  BY Zenon DEF Posted

(* What AggregateLocalPathInfos returns. *)
LEMMA PathInfosType ==
    ASSUME NEW n, NEW in, NEW well
    PROVE  PathInfos(n, in, well) \in [Paths -> Views]
  BY DEF PathInfos, Views

(* A message that is sent is one, from its sender to its receiver. *)
LEMMA MessageType ==
    ASSUME NEW type \in {"sync", "deleted", "leave", "peer_announce"},
           NEW n \in Nodes, NEW m \in Nodes,
           NEW infos \in [Paths -> Views], NEW paths \in SUBSET Paths
    PROVE  LET msg == Message(type, n, m, infos, paths)
           IN  /\ msg \in Messages
               /\ msg.from = n /\ msg.to = m /\ msg.at = "net" /\ msg.type = type
  BY DEF Message, Messages

(* Nothing is a state without paths. *)
LEMMA NothingType == Nothing \in [Paths -> Views]
  BY DEF Nothing, Views

\* The messages that n may put on the network, "leave" apart.
Sent(n, messages) ==
    \A msg \in messages : /\ msg \in Messages /\ msg.from = n /\ msg.to # n
                          /\ msg.at = "net" /\ msg.type # "leave"

\* No node deals with itself, neither as a peer nor as the receiver of a message,
\* and a node that does not run knows no other.
NoSelf ==
    /\ \A n \in Nodes \ up : peers[n] = {} /\ joining[n] = {} /\ candidates[n] = {}
    /\ \A n \in Nodes : n \notin peers[n] /\ n \notin remote[n]
                        /\ n \notin candidates[n] /\ n \notin joining[n]
    /\ \A msg \in net : msg.from # msg.to

\* What is known of a node that never stops comes from a node that runs, and only
\* a false alarm makes it a suspect.
Running ==
    /\ \A msg \in net : msg.from \in up \cup Mortal
    /\ \A msg \in net : msg.type = "leave" \/ msg.at \in {"leave", "peer"} => msg.from \in Mortal
    /\ \A n \in Nodes : peers[n] \cup candidates[n] \cup joining[n] \subseteq up \cup Mortal
    /\ \A n \in Nodes : suspect[n] \in Nodes \ Mortal => alarms > 0

(* The three broadcasts of a node go to its peers. *)
LEMMA BroadcastSent ==
    ASSUME TypeOK, NoSelf, NEW n \in Nodes, NEW in, NEW well, NEW paths \in SUBSET Paths
    PROVE  Sent(n, BroadcastSync(n, in, well)) /\ Sent(n, BroadcastDeletedPaths(n, paths))
  <1>1. \A m \in peers[n] : m \in Nodes /\ m # n
    BY DEF TypeOK, NoSelf
  <1>2. ASSUME NEW m \in peers[n]
        PROVE  /\ SyncTo(n, m, in, well) \in Messages
               /\ SyncTo(n, m, in, well).from = n /\ SyncTo(n, m, in, well).to = m
               /\ SyncTo(n, m, in, well).at = "net" /\ SyncTo(n, m, in, well).type = "sync"
    <2>1. m \in Nodes
      BY <1>1, <1>2
    <2>. QED  BY <2>1, PathInfosType, MessageType DEF SyncTo
  <1>3. ASSUME NEW m \in peers[n]
        PROVE  LET msg == Message("deleted", n, m, Nothing, paths)
               IN  /\ msg \in Messages /\ msg.from = n /\ msg.to = m
                   /\ msg.at = "net" /\ msg.type = "deleted"
    BY <1>1, <1>3, NothingType, MessageType
  <1>. QED  BY <1>1, <1>2, <1>3 DEF Sent, BroadcastSync, BroadcastDeletedPaths

(* What AddPeer posts. *)
LEMMA AddPeerSent ==
    ASSUME TypeOK, NoSelf, NEW n \in Nodes, NEW m \in Nodes, m # n
    PROVE  Sent(n, AddPeerPosts(n, m))
  <1>1. ASSUME NEW k \in peers[n] \cup {m}
        PROVE  /\ SyncTo(n, k, served, healthy) \in Messages
               /\ SyncTo(n, k, served, healthy).from = n /\ SyncTo(n, k, served, healthy).to # n
               /\ SyncTo(n, k, served, healthy).at = "net"
               /\ SyncTo(n, k, served, healthy).type = "sync"
    <2>1. k \in Nodes /\ k # n
      BY <1>1 DEF TypeOK, NoSelf
    <2>. QED  BY <2>1, PathInfosType, MessageType DEF SyncTo
  <1>2. ASSUME NEW k \in peers[n]
        PROVE  LET msg == Message("peer_announce", n, k, Nothing, {})
               IN  /\ msg \in Messages /\ msg.from = n /\ msg.to # n
                   /\ msg.at = "net" /\ msg.type = "peer_announce"
    <2>1. k \in Nodes /\ k # n
      BY <1>2 DEF TypeOK, NoSelf
    <2>. QED  BY <2>1, NothingType, MessageType
  <1>. QED  BY <1>1, <1>2 DEF Sent, AddPeerPosts

\* Where a message of the next state comes from: it was there, it is sent by a
\* running node, or a handler takes it to its next step.
Origin(msg) ==
    \/ msg \in net
    \/ /\ msg \in Messages /\ msg.from # msg.to /\ msg.from \in up /\ msg.at = "net"
       /\ msg.type = "leave" => msg.from \in Mortal
    \/ \E old \in net :
          /\ msg \in Messages
          /\ msg.from = old.from /\ msg.to = old.to /\ msg.type = old.type
          /\ msg.at \in {"leave", "peer"} => old.type = "leave" \/ old.at = "leave"

(* What a running node sends has a proper origin. *)
LEMMA SentOrigin ==
    ASSUME NEW n \in up, NEW messages, Sent(n, messages), NEW before,
           \A msg \in before : Origin(msg),
           NEW msg \in Posted(before, messages)
    PROVE  Origin(msg)
  <1>1. msg \in before \/ msg \in messages
    BY PostedSubset, Zenon
  <1>2. CASE msg \in messages
    BY <1>2, Zenon DEF Sent, Origin
  <1>. QED  BY <1>1, <1>2, Zenon

(* AddPeer of a running node sends what has a proper origin. *)
LEMMA AddPeerOrigin ==
    ASSUME TypeOK, NoSelf, NEW n \in up, NEW m \in Nodes, m # n, NEW before,
           \A msg \in before : Origin(msg), AddPeer(n, m, before)
    PROVE  \A msg \in net' : Origin(msg)
  <1>1. n \in Nodes
    BY DEF TypeOK
  <1>2. Sent(n, AddPeerPosts(n, m))
    BY <1>1, AddPeerSent, Zenon
  <1>3. net' = Posted(before, AddPeerPosts(n, m))
    BY Zenon DEF AddPeer
  <1>. QED  BY <1>2, <1>3, SentOrigin, Zenon

(* A handler that ends, or takes its message to the next step. *)
LEMMA HandleOrigin ==
    ASSUME TypeOK, NEW old \in net,
           NEW step \in {"node", "state", "metadata", "deleted", "leave", "peer"},
           step \in {"leave", "peer"} => old.type = "leave" \/ old.at = "leave",
           NEW msg \in (net \ {old}) \cup {[old EXCEPT !.at = step]}
    PROVE  Origin(msg)
  <1>1. CASE msg \in net
    BY <1>1 DEF Origin
  <1>2. CASE msg = [old EXCEPT !.at = step]
    <2>1. old \in Messages
      BY DEF TypeOK
    <2>2. /\ msg \in Messages /\ msg.at = step
          /\ msg.from = old.from /\ msg.to = old.to /\ msg.type = old.type
      BY <1>2, <2>1 DEF Messages
    <2>. QED  BY <2>2, Zenon DEF Origin
  <1>. QED  BY <1>1, <1>2

(* Every message of the next state has a proper origin. *)
LEMMA NetStep ==
    ASSUME TypeOK, NoSelf, [Next]_vars
    PROVE  \A msg \in net' : Origin(msg)
  <1>0. \A msg \in net : Origin(msg)
    BY DEF Origin
  <1>1. ASSUME NEW s \in Services, Register(s) \/ Delete(s)
        PROVE  \A msg \in net' : Origin(msg)
    <2>1. NodeOf[s] \in Nodes /\ PathOf[s] \in Paths
      BY GossipAssumption
    <2>2. Sent(NodeOf[s], BroadcastSync(NodeOf[s], served', healthy')
                          \cup BroadcastDeletedPaths(NodeOf[s], {PathOf[s]}))
      <3>1. PICK in, well : in = served' /\ well = healthy'
        OBVIOUS
      <3>2. Sent(NodeOf[s], BroadcastSync(NodeOf[s], in, well))
            /\ Sent(NodeOf[s], BroadcastDeletedPaths(NodeOf[s], {PathOf[s]}))
        BY <2>1, BroadcastSent
      <3>. QED  BY <3>1, <3>2 DEF Sent
    <2>3. CASE NodeOf[s] \in up
      <3>1. \/ net' = Posted(net, BroadcastSync(NodeOf[s], served', healthy'))
            \/ net' = Posted(net, BroadcastSync(NodeOf[s], served', healthy')
                                  \cup BroadcastDeletedPaths(NodeOf[s], {PathOf[s]}))
        BY <1>1, Zenon DEF Register, Delete
      <3>2. Sent(NodeOf[s], BroadcastSync(NodeOf[s], served', healthy'))
        BY <2>2 DEF Sent
      <3>. QED  BY <1>0, <2>2, <2>3, <3>1, <3>2, SentOrigin, Zenon
    <2>4. CASE NodeOf[s] \notin up
      <3>1. peers[NodeOf[s]] = {}
        BY <2>1, <2>4 DEF NoSelf
      <3>2. /\ BroadcastSync(NodeOf[s], served', healthy') = {}
            /\ BroadcastDeletedPaths(NodeOf[s], {PathOf[s]}) = {}
        BY <3>1 DEF BroadcastSync, BroadcastDeletedPaths
      <3>3. net' = net
        BY <1>1, <3>2, <2>4 DEF Register, Delete, Posted
      <3>. QED  BY <1>0, <3>3
    <2>. QED  BY <2>3, <2>4
  <1>2. ASSUME NEW msg \in net, Receive(msg)
        PROVE  \A x \in net' : Origin(x)
    <2>1. msg.to \in up /\ msg.from \in Nodes /\ msg.from # msg.to
      BY <1>2 DEF Receive, TypeOK, Messages, NoSelf
    <2> DEFINE before == IF msg.type = "sync" /\ msg.infos = Nothing THEN net \ {msg}
                         ELSE (net \ {msg}) \cup {[msg EXCEPT !.at = FirstStep(msg)]}
    <2>2. \A x \in before : Origin(x)
      <3>1. FirstStep(msg) \in {"node", "state", "metadata", "deleted", "leave", "peer"}
        BY DEF FirstStep
      <3>2. FirstStep(msg) \in {"leave", "peer"} => msg.type = "leave" \/ msg.at = "leave"
        BY DEF FirstStep
      <3>. QED  BY <1>0, <3>1, <3>2, HandleOrigin
    <2>3. AddPeer(msg.to, msg.from, before)
      BY <1>2, Zenon DEF Receive
    <2> HIDE DEF before
    <2>. QED  BY <2>1, <2>2, <2>3, AddPeerOrigin, Zenon
  <1>3. ASSUME NEW msg \in net, Handle(msg) \/ ReceiveAnnounce(msg) \/ Lose(msg)
        PROVE  \A x \in net' : Origin(x)
    <2>1. CASE net' = net \ {msg}
      BY <1>0, <2>1
    <2>2. ASSUME NEW step \in {"state", "metadata", "peer"},
                 step = "peer" => msg.at = "leave",
                 net' = (net \ {msg}) \cup {[msg EXCEPT !.at = step]}
          PROVE  \A x \in net' : Origin(x)
      BY <2>2, HandleOrigin
    <2>. QED
      BY <1>3, <2>1, <2>2, Zenon
      DEF Handle, ReceiveAnnounce, Lose, HandleLast, HandleNext, CreateRemoteNode, UpdateState,
          UpdateMetadata, RemoveEndpoints, RemoveRemoteNode, DeletePeer
  <1>4. ASSUME NEW n \in Nodes, BroadcastState(n)
        PROVE  \A msg \in net' : Origin(msg)
    <2>1. Sent(n, BroadcastSync(n, served, healthy))
      BY BroadcastSent
    <2>. QED  BY <1>0, <1>4, <2>1, SentOrigin, Zenon DEF BroadcastState
  <1>5. ASSUME NEW n \in Nodes, Crash(n) \/ Shutdown(n)
        PROVE  \A msg \in net' : Origin(msg)
    <2>1. n \in up /\ n \in Mortal
      BY <1>5 DEF Crash, Shutdown, Stop
    <2>2. ASSUME NEW m \in peers[n]
          PROVE  Origin(Message("leave", n, m, Nothing, {}))
      <3>1. m \in Nodes /\ m # n
        BY <2>2 DEF TypeOK, NoSelf
      <3>2. LET msg == Message("leave", n, m, Nothing, {})
            IN  /\ msg \in Messages
                /\ msg.from = n /\ msg.to = m /\ msg.at = "net" /\ msg.type = "leave"
        BY <3>1, NothingType, MessageType
      <3>. QED  BY <2>1, <3>1, <3>2 DEF Origin
    <2>3. \A msg \in BroadcastNodeLeave(n) : Origin(msg)
      BY <2>2 DEF BroadcastNodeLeave
    <2>4. net' \subseteq net \cup BroadcastNodeLeave(n)
      BY <1>5, PostedSubset DEF Crash, Shutdown, Stop
    <2>. QED  BY <1>0, <2>3, <2>4
  <1>6. ASSUME NEW n \in Nodes, NEW m \in Nodes, JoinNode(n, m)
        PROVE  \A msg \in net' : Origin(msg)
    <2>1. n \in up /\ m # n
      BY <1>6 DEF JoinNode, NoSelf
    <2>. QED  BY <1>0, <1>6, <2>1, AddPeerOrigin, Zenon DEF JoinNode
  <1>7. ASSUME NEW n \in Nodes, NEW m \in Nodes, Connect(n, m)
        PROVE  \A msg \in net' : Origin(msg)
    <2>1. m \in up /\ m # n
      BY <1>7, GossipAssumption DEF Connect, handleGossipJoin
    <2> DEFINE sync == SyncTo(m, n, served, healthy)
    <2>2. Sent(m, {sync})
      BY <2>1, PathInfosType, MessageType DEF SyncTo, Sent
    <2>3. \A msg \in Posted(net, {sync}) : Origin(msg)
      BY <1>0, <2>1, <2>2, SentOrigin, Zenon
    <2>4. AddPeer(m, n, Posted(net, {sync}))
      BY <1>7, Zenon DEF Connect, handleGossipJoin
    <2> HIDE DEF sync
    <2>. QED  BY <2>1, <2>3, <2>4, AddPeerOrigin, Zenon
  <1>8. CASE UNCHANGED net
    BY <1>0, <1>8
  <1>9. ASSUME NEW s \in Services, UpdateHeartbeat(s) \/ CheckStaleEndpoints(s)
        PROVE  UNCHANGED net
    BY <1>9 DEF UpdateHeartbeat, CheckStaleEndpoints
  <1>10. ASSUME NEW n \in Nodes,
                StartDiscovery(n) \/ CheckRemoves(n) \/ CleanStale(n) \/ Start(n)
         PROVE  UNCHANGED net
    BY <1>10 DEF StartDiscovery, CheckRemoves, CleanStale, Start
  <1>11. ASSUME NEW n \in Nodes, NEW m \in Nodes,
                \/ AddCandidate(n, m) \/ CleanupStaleCandidates(n, m)
                \/ CheckFails(n, m) \/ NodeGetsLate(n, m)
         PROVE  UNCHANGED net
    BY <1>11 DEF AddCandidate, broadcastPresence, Hears, CleanupStaleCandidates,
        CheckFails, NodeGetsLate
  <1>12. ASSUME NEW n \in Nodes, NEW m \in Nodes, NEW p \in Paths, StateGetsLate(n, m, p)
         PROVE  UNCHANGED net
    BY <1>12 DEF StateGetsLate
  <1>13. CASE UNCHANGED vars
    BY <1>8, <1>13 DEF vars
  <1>14. CASE Next
    BY <1>14, <1>1, <1>2, <1>3, <1>4, <1>5, <1>6, <1>7, <1>8, <1>9, <1>10, <1>11, <1>12 DEF Next
  <1>. QED
    BY <1>13, <1>14

(* The type invariant is kept by every step. *)
LEMMA TypeStep ==
    ASSUME TypeOK, NoSelf, [Next]_vars
    PROVE  TypeOK'
  <1>0. net' \subseteq Messages
    <2>1. \A msg : Origin(msg) => msg \in Messages
      BY DEF Origin, TypeOK
    <2>. QED  BY <2>1, NetStep
  <1> USE GossipAssumption DEF TypeOK, services, store, discovery
  <1>1. ASSUME NEW s \in Services,
               Register(s) \/ Delete(s) \/ UpdateHeartbeat(s) \/ CheckStaleEndpoints(s)
        PROVE  TypeOK'
    BY <1>0, <1>1, Zenon DEF Register, Delete, UpdateHeartbeat, CheckStaleEndpoints
  <1>2. ASSUME NEW n \in Nodes, NEW m \in Nodes, NEW before, AddPeer(n, m, before)
        PROVE  /\ peers' \in [Nodes -> SUBSET Nodes] /\ remote' \in [Nodes -> SUBSET Nodes]
               /\ view' \in [Nodes -> [Nodes -> [Paths -> Views]]]
               /\ lateNodes' \subseteq Nodes \X Nodes
               /\ lateStates' \subseteq Nodes \X Nodes \X Paths
    BY <1>2 DEF AddPeer, addPeerLocked
  <1>3. ASSUME NEW msg \in net, Receive(msg) \/ ReceiveAnnounce(msg) \/ Lose(msg)
        PROVE  TypeOK'
    <2>1. msg.to \in Nodes /\ msg.from \in Nodes
      BY DEF Messages
    <2>2. CASE Receive(msg)
      BY <1>0, <1>2, <2>1, <2>2 DEF Receive
    <2>. QED  BY <1>0, <1>3, <2>2, Zenon DEF ReceiveAnnounce, Lose
  <1>4. ASSUME NEW msg \in net, Handle(msg)
        PROVE  TypeOK'
    <2>1. /\ msg.to \in Nodes /\ msg.from \in Nodes
          /\ msg.infos \in [Paths -> Views] /\ msg.paths \subseteq Paths
      BY DEF Messages
    <2>2. CASE CreateRemoteNode(msg)
      BY <1>0, <2>1, <2>2 DEF CreateRemoteNode
    <2>7. CASE DeletePeer(msg)
      BY <1>0, <2>1, <2>7, Zenon DEF DeletePeer
    <2>3. ASSUME NEW new \in [Paths -> Views], Merge(msg, new)
          PROVE  /\ view' \in [Nodes -> [Nodes -> [Paths -> Views]]]
                 /\ lateStates' \subseteq Nodes \X Nodes \X Paths
      BY <2>1, <2>3, SMTT(60) DEF Merge
    <2>4. CASE UpdateState(msg) \/ UpdateMetadata(msg)
      <3>1. [p \in Paths |-> "healthy"] \in [Paths -> Views]
        BY DEF Views
      <3>2. /\ view' \in [Nodes -> [Nodes -> [Paths -> Views]]]
            /\ lateStates' \subseteq Nodes \X Nodes \X Paths
        BY <2>1, <2>3, <2>4, <3>1, Zenon DEF UpdateState, UpdateMetadata
      <3>. QED  BY <1>0, <2>4, <3>2, Zenon DEF UpdateState, UpdateMetadata
    <2>5. CASE RemoveEndpoints(msg)
      <3>1. view' \in [Nodes -> [Nodes -> [Paths -> Views]]]
        BY <2>1, <2>5, SMTT(60) DEF RemoveEndpoints, Views
      <3>. QED  BY <1>0, <2>5, <3>1, Zenon DEF RemoveEndpoints
    <2>6. CASE RemoveRemoteNode(msg)
      BY <1>0, <2>1, <2>6, NothingType, Zenon DEF RemoveRemoteNode
    <2>. QED  BY <1>4, <2>2, <2>4, <2>5, <2>6, <2>7, Zenon DEF Handle
  <1>5. ASSUME NEW n \in Nodes, BroadcastState(n) \/ StartDiscovery(n) \/ Start(n)
        PROVE  TypeOK'
    <2>1. CASE BroadcastState(n)
      BY <1>0, <2>1, Zenon DEF BroadcastState
    <2>2. CASE StartDiscovery(n)
      BY <1>0, <2>2, Zenon DEF StartDiscovery
    <2>3. CASE Start(n)
      BY <1>0, <2>3, Zenon DEF Start
    <2>. QED  BY <1>5, <2>1, <2>2, <2>3, Zenon
  <1>6. ASSUME NEW n \in Nodes, CheckRemoves(n)
        PROVE  TypeOK'
    <2>1. suspect[n] \in Nodes
      BY <1>6, Zenon DEF CheckRemoves
    <2>. QED  BY <1>0, <1>6, <2>1, NothingType, Zenon DEF CheckRemoves, RemovePeer
  <1>7. ASSUME NEW n \in Nodes, CleanStale(n)
        PROVE  TypeOK'
    <2>1. view' \in [Nodes -> [Nodes -> [Paths -> Views]]]
      BY <1>7, NothingType DEF CleanStale, Views
    <2>. QED  BY <1>0, <1>7, <2>1, Zenon DEF CleanStale
  <1>8. ASSUME NEW n \in Nodes, Crash(n) \/ Shutdown(n)
        PROVE  TypeOK'
    <2>1. PICK messages : Stop(n, messages)
      BY <1>8, Zenon DEF Crash, Shutdown
    <2>2. view' \in [Nodes -> [Nodes -> [Paths -> Views]]]
      <3>1. [m \in Nodes |-> Nothing] \in [Nodes -> [Paths -> Views]]
        BY NothingType
      <3>. QED  BY <2>1, <3>1, Zenon DEF Stop
    <2>3. /\ up' \subseteq Nodes /\ served' \subseteq Services /\ healthy' \subseteq served'
          /\ lateNodes' \subseteq Nodes \X Nodes
          /\ lateStates' \subseteq Nodes \X Nodes \X Paths
          /\ booting' \subseteq up'
      BY <2>1, Zenon DEF Stop
    <2>4. /\ peers' \in [Nodes -> SUBSET Nodes] /\ remote' \in [Nodes -> SUBSET Nodes]
          /\ candidates' \in [Nodes -> SUBSET Nodes] /\ joining' \in [Nodes -> SUBSET Nodes]
          /\ suspect' \in [Nodes -> Nodes \cup {NoNode}]
      BY <2>1, Zenon DEF Stop
    <2>. QED  BY <1>0, <2>1, <2>2, <2>3, <2>4, Zenon DEF Stop
  <1>9. ASSUME NEW n \in Nodes, NEW m \in Nodes,
               AddCandidate(n, m) \/ CleanupStaleCandidates(n, m)
        PROVE  TypeOK'
    <2>1. CASE AddCandidate(n, m)
      BY <1>0, <2>1 DEF AddCandidate, broadcastPresence, Hears
    <2>2. CASE CleanupStaleCandidates(n, m)
      BY <1>0, <2>2, Zenon DEF CleanupStaleCandidates
    <2>. QED  BY <1>9, <2>1, <2>2, Zenon
  <1>10. ASSUME NEW n \in Nodes, NEW m \in Nodes, JoinNode(n, m) \/ Connect(n, m)
         PROVE  TypeOK'
    <2>1. /\ peers' \in [Nodes -> SUBSET Nodes] /\ remote' \in [Nodes -> SUBSET Nodes]
          /\ view' \in [Nodes -> [Nodes -> [Paths -> Views]]]
          /\ lateNodes' \subseteq Nodes \X Nodes
          /\ lateStates' \subseteq Nodes \X Nodes \X Paths
      BY <1>2, <1>10, Zenon DEF JoinNode, Connect, handleGossipJoin
    <2>2. joining' \in [Nodes -> SUBSET Nodes]
      <3>1. \/ joining' = [joining EXCEPT ![n] = @ \ {m}]
            \/ joining' = [joining EXCEPT ![n] = @ \cup {m}]
            \/ joining' = joining
        BY <1>10, Zenon DEF JoinNode, Connect, handleGossipJoin
      <3>2. joining[n] \ {m} \in SUBSET Nodes /\ joining[n] \cup {m} \in SUBSET Nodes
        OBVIOUS
      <3>3. CASE joining' = [joining EXCEPT ![n] = @ \ {m}]
        BY <3>2, <3>3
      <3>4. CASE joining' = [joining EXCEPT ![n] = @ \cup {m}]
        BY <3>2, <3>4
      <3>. QED  BY <3>1, <3>3, <3>4, Zenon
    <2>. QED  BY <1>0, <1>10, <2>1, <2>2, Zenon DEF JoinNode, Connect, handleGossipJoin
  <1>11. ASSUME NEW n \in Nodes, NEW m \in Nodes, CheckFails(n, m) \/ NodeGetsLate(n, m)
         PROVE  TypeOK'
    <2>1. CASE CheckFails(n, m)
      BY <1>0, <2>1 DEF CheckFails
    <2>2. CASE NodeGetsLate(n, m)
      BY <1>0, <2>2 DEF NodeGetsLate
    <2>. QED  BY <1>11, <2>1, <2>2, Zenon
  <1>12. ASSUME NEW n \in Nodes, NEW m \in Nodes, NEW p \in Paths, StateGetsLate(n, m, p)
         PROVE  TypeOK'
    BY <1>0, <1>12 DEF StateGetsLate
  <1>13. CASE UNCHANGED vars
    BY <1>13, Zenon DEF vars
  <1> HIDE DEF TypeOK
  <1>. QED
    BY <1>1, <1>3, <1>4, <1>5, <1>6, <1>7, <1>8, <1>9, <1>10, <1>11, <1>12, <1>13, Zenon DEF Next

(* That no node deals with itself is kept by every step. *)
LEMMA SelfStep ==
    ASSUME TypeOK, NoSelf, [Next]_vars
    PROVE  NoSelf'
  <1>0. \A msg \in net' : msg.from # msg.to
    <2>1. \A msg : Origin(msg) => msg.from # msg.to
      BY DEF Origin, NoSelf
    <2>. QED  BY <2>1, NetStep
  <1>t. /\ peers \in [Nodes -> SUBSET Nodes] /\ remote \in [Nodes -> SUBSET Nodes]
        /\ candidates \in [Nodes -> SUBSET Nodes] /\ joining \in [Nodes -> SUBSET Nodes]
        /\ booting \subseteq up /\ net \subseteq Messages
    BY DEF TypeOK
  <1> USE DEF NoSelf, services, store, discovery
  <1>1. ASSUME NEW n \in Nodes, NEW m \in Nodes, m # n, n \in up, NEW before, AddPeer(n, m, before)
        PROVE  /\ \A k \in Nodes : k \notin peers'[k] /\ k \notin remote'[k]
               /\ \A k \in Nodes \ up : peers'[k] = {}
    BY <1>1, <1>t, Zenon DEF AddPeer, addPeerLocked
  <1>2. ASSUME NEW msg \in net, Receive(msg)
        PROVE  NoSelf'
    <2>1. msg.to \in Nodes /\ msg.from \in Nodes /\ msg.from # msg.to /\ msg.to \in up
      BY <1>2, <1>t DEF Messages, Receive
    <2>2. /\ \A k \in Nodes : k \notin peers'[k] /\ k \notin remote'[k]
          /\ \A k \in Nodes \ up : peers'[k] = {}
      BY <1>1, <1>2, <2>1, Zenon DEF Receive
    <2>3. UNCHANGED <<up, candidates, joining>>
      BY <1>2, Zenon DEF Receive
    <2>. QED  BY <1>0, <2>2, <2>3, Zenon
  <1>3. ASSUME NEW msg \in net, Handle(msg) \/ ReceiveAnnounce(msg) \/ Lose(msg)
        PROVE  NoSelf'
    <2>1. msg.to \in Nodes /\ msg.from \in Nodes /\ msg.from # msg.to
      BY <1>t DEF Messages
    <2>2. UNCHANGED <<up, candidates, joining>>
      BY <1>3, Zenon
      DEF Handle, ReceiveAnnounce, Lose, CreateRemoteNode, UpdateState,
          UpdateMetadata, RemoveEndpoints, RemoveRemoteNode, DeletePeer
    <2>3. \/ UNCHANGED peers
          \/ peers' = [peers EXCEPT ![msg.to] = @ \ {msg.from}]
      BY <1>3, Zenon
      DEF Handle, ReceiveAnnounce, Lose, CreateRemoteNode, UpdateState,
          UpdateMetadata, RemoveEndpoints, RemoveRemoteNode, DeletePeer
    <2>4. \/ UNCHANGED remote
          \/ remote' = [remote EXCEPT ![msg.to] = @ \ {msg.from}]
          \/ remote' = [remote EXCEPT ![msg.to] = @ \cup {msg.from}]
      BY <1>3, Zenon
      DEF Handle, ReceiveAnnounce, Lose, CreateRemoteNode, UpdateState,
          UpdateMetadata, RemoveEndpoints, RemoveRemoteNode, DeletePeer
    <2>5. /\ \A k \in Nodes : k \notin peers'[k]
          /\ \A k \in Nodes \ up : peers'[k] = {}
      BY <2>1, <2>3, <1>t
    <2>6. \A k \in Nodes : k \notin remote'[k]
      BY <2>1, <2>4, <1>t
    <2>. QED  BY <1>0, <2>2, <2>5, <2>6, Zenon
  <1>4. ASSUME NEW n \in Nodes, Crash(n) \/ Shutdown(n)
        PROVE  NoSelf'
    <2>1. PICK messages : Stop(n, messages)
      BY <1>4, Zenon DEF Crash, Shutdown
    <2>. QED  BY <1>0, <1>t, <2>1, ZenonT(60) DEF Stop
  <1>5. ASSUME NEW n \in Nodes, Start(n) \/ StartDiscovery(n)
        PROVE  NoSelf'
    BY <1>0, <1>t, <1>5 DEF Start, StartDiscovery
  <1>6. ASSUME NEW n \in Nodes, CheckRemoves(n) \/ CleanStale(n)
        PROVE  NoSelf'
    <2>1. CASE CheckRemoves(n)
      BY <1>0, <1>t, <2>1, Zenon DEF CheckRemoves, RemovePeer
    <2>2. CASE CleanStale(n)
      <3>1. \A k \in Nodes : remote'[k] \subseteq remote[k]
        BY <1>t, <2>2, Zenon DEF CleanStale
      <3>2. UNCHANGED <<up, peers, candidates, joining>>
        BY <2>2, Zenon DEF CleanStale
      <3>. QED  BY <1>0, <3>1, <3>2, Zenon
    <2>. QED  BY <1>6, <2>1, <2>2, Zenon
  <1>7. ASSUME NEW n \in Nodes, NEW m \in Nodes,
               AddCandidate(n, m) \/ CleanupStaleCandidates(n, m)
        PROVE  NoSelf'
    BY <1>0, <1>t, <1>7 DEF AddCandidate, broadcastPresence, Hears, CleanupStaleCandidates
  <1>8. ASSUME NEW n \in Nodes, NEW m \in Nodes, JoinNode(n, m)
        PROVE  NoSelf'
    <2>1. m # n /\ n \in up /\ AddPeer(n, m, net)
      BY <1>8, Zenon DEF JoinNode
    <2>2. /\ \A k \in Nodes : k \notin peers'[k] /\ k \notin remote'[k]
          /\ \A k \in Nodes \ up : peers'[k] = {}
      BY <1>1, <2>1, Zenon
    <2>. QED  BY <1>0, <1>t, <1>8, <2>2, Zenon DEF JoinNode
  <1>9. ASSUME NEW n \in Nodes, NEW m \in Nodes, Connect(n, m)
        PROVE  NoSelf'
    <2>1. m # n /\ n \in up /\ m \in up
      BY <1>9, GossipAssumption, Zenon DEF Connect, handleGossipJoin
    <2>2. /\ \A k \in Nodes : k \notin peers'[k] /\ k \notin remote'[k]
          /\ \A k \in Nodes \ up : peers'[k] = {}
      BY <1>1, <1>9, <2>1, Zenon DEF Connect, handleGossipJoin
    <2>3. \A k \in Nodes : k \notin joining'[k] /\ (k \notin up => joining'[k] = {})
      BY <1>9, <1>t, <2>1 DEF Connect, handleGossipJoin
    <2>. QED  BY <1>0, <1>9, <2>2, <2>3, Zenon DEF Connect, handleGossipJoin
  <1>10. CASE UNCHANGED <<up, peers, remote, candidates, joining>>
    BY <1>0, <1>10, Zenon
  <1>11. ASSUME NEW s \in Services, Register(s) \/ Delete(s) \/ UpdateHeartbeat(s) \/ CheckStaleEndpoints(s)
         PROVE  UNCHANGED <<up, peers, remote, candidates, joining>>
    BY <1>11, Zenon DEF Register, Delete, UpdateHeartbeat, CheckStaleEndpoints
  <1>12. ASSUME NEW n \in Nodes, BroadcastState(n)
         PROVE  UNCHANGED <<up, peers, remote, candidates, joining>>
    BY <1>12, Zenon DEF BroadcastState
  <1>13. ASSUME NEW n \in Nodes, NEW m \in Nodes, CheckFails(n, m) \/ NodeGetsLate(n, m)
         PROVE  UNCHANGED <<up, peers, remote, candidates, joining>>
    BY <1>13, Zenon DEF CheckFails, NodeGetsLate
  <1>14. ASSUME NEW n \in Nodes, NEW m \in Nodes, NEW p \in Paths, StateGetsLate(n, m, p)
         PROVE  UNCHANGED <<up, peers, remote, candidates, joining>>
    BY <1>14, Zenon DEF StateGetsLate
  <1>15. CASE UNCHANGED vars
    BY <1>10, <1>15, Zenon DEF vars
  <1> HIDE DEF NoSelf
  <1>16. CASE Next
    BY <1>16, <1>2, <1>3, <1>4, <1>5, <1>6, <1>7, <1>8, <1>9, <1>10, <1>11, <1>12, <1>13,
       <1>14, Zenon
    DEF Next
  <1>. QED  BY <1>15, <1>16

(* Only a node that may stop does. *)
LEMMA UpStep ==
    ASSUME [Next]_vars
    PROVE  up \subseteq up' \cup Mortal
  <1>1. ASSUME NEW n \in Nodes, Crash(n) \/ Shutdown(n)
        PROVE  up \subseteq up' \cup Mortal
    <2>1. n \in Mortal /\ up' = up \ {n}
      BY <1>1, Zenon DEF Crash, Shutdown, Stop
    <2>. QED  BY <2>1
  <1>2. ASSUME NEW n \in Nodes, Start(n)
        PROVE  up \subseteq up' \cup Mortal
    BY <1>2 DEF Start
  <1> USE DEF services
  <1>3. ASSUME NEW s \in Services,
               Register(s) \/ Delete(s) \/ UpdateHeartbeat(s) \/ CheckStaleEndpoints(s)
        PROVE  UNCHANGED up
    BY <1>3, Zenon DEF Register, Delete, UpdateHeartbeat, CheckStaleEndpoints
  <1>4. ASSUME NEW msg \in net, Receive(msg) \/ ReceiveAnnounce(msg) \/ Handle(msg) \/ Lose(msg)
        PROVE  UNCHANGED up
    BY <1>4, Zenon
    DEF Handle, Receive, ReceiveAnnounce, Lose, CreateRemoteNode, UpdateState,
        UpdateMetadata, RemoveEndpoints, RemoveRemoteNode, DeletePeer
  <1>5. ASSUME NEW n \in Nodes,
               BroadcastState(n) \/ StartDiscovery(n) \/ CheckRemoves(n) \/ CleanStale(n)
        PROVE  UNCHANGED up
    BY <1>5, Zenon DEF BroadcastState, StartDiscovery, CheckRemoves, CleanStale
  <1>6. ASSUME NEW n \in Nodes, NEW m \in Nodes,
               \/ AddCandidate(n, m) \/ CleanupStaleCandidates(n, m) \/ JoinNode(n, m)
               \/ Connect(n, m) \/ CheckFails(n, m) \/ NodeGetsLate(n, m)
        PROVE  UNCHANGED up
    BY <1>6, Zenon
    DEF AddCandidate, broadcastPresence, Hears, CleanupStaleCandidates, JoinNode,
        Connect, handleGossipJoin, CheckFails, NodeGetsLate
  <1>7. ASSUME NEW n \in Nodes, NEW m \in Nodes, NEW p \in Paths, StateGetsLate(n, m, p)
        PROVE  UNCHANGED up
    BY <1>7, Zenon DEF StateGetsLate
  <1>8. CASE UNCHANGED vars
    BY <1>8, Zenon DEF vars
  <1>9. CASE Next
    BY <1>1, <1>2, <1>3, <1>4, <1>5, <1>6, <1>7, <1>9, Zenon DEF Next
  <1>. QED  BY <1>8, <1>9, Zenon

\* What a step may do to the lists of nodes that n keeps.
Known(n) == peers[n] \cup candidates[n] \cup joining[n]

(* Nodes get known only by a message of theirs, by their broadcasts or by a    *)
(* connection while they run, and a check of a node that never stops fails     *)
(* only as a false alarm.                                                      *)
LEMMA KnownStep ==
    ASSUME TypeOK, NoSelf, Running, [Next]_vars, NEW k \in Nodes
    PROVE  /\ Known(k)' \subseteq up \cup Mortal
           /\ suspect'[k] \in Nodes \ Mortal => alarms' > 0
  <1>t. /\ peers \in [Nodes -> SUBSET Nodes] /\ candidates \in [Nodes -> SUBSET Nodes]
        /\ joining \in [Nodes -> SUBSET Nodes] /\ suspect \in [Nodes -> Nodes \cup {NoNode}]
        /\ alarms \in Nat /\ net \subseteq Messages /\ NoNode \notin Nodes
        /\ Known(k) \subseteq up \cup Mortal
        /\ suspect[k] \in Nodes \ Mortal => alarms > 0
        /\ \A msg \in net : msg.from \in up \cup Mortal
    BY GossipAssumption DEF TypeOK, Running, Known
  <1> DEFINE Goal == /\ Known(k)' \subseteq up \cup Mortal
                     /\ suspect'[k] \in Nodes \ Mortal => alarms' > 0
  <1> SUFFICES Goal
    OBVIOUS
  <1> USE DEF Known, services, store, discovery
  <1>1. ASSUME NEW n \in Nodes, NEW m \in up \cup Mortal, NEW before, AddPeer(n, m, before)
        PROVE  peers'[k] \subseteq peers[k] \cup {m}
    BY <1>1, <1>t, Zenon DEF AddPeer, addPeerLocked
  <1>2. ASSUME NEW msg \in net, Receive(msg)
        PROVE  Goal
    <2>1. msg.from \in up \cup Mortal /\ msg.to \in Nodes
      BY <1>t, Zenon DEF Messages
    <2>2. peers'[k] \subseteq peers[k] \cup {msg.from}
      BY <1>1, <1>2, <2>1, ZenonT(60) DEF Receive
    <2>3. UNCHANGED <<candidates, joining, suspect, alarms>>
      BY <1>2, Zenon DEF Receive
    <2>. QED  BY <1>t, <2>1, <2>2, <2>3, Zenon
  <1>3. ASSUME NEW msg \in net, Handle(msg) \/ ReceiveAnnounce(msg) \/ Lose(msg)
        PROVE  Goal
    <2>1. \/ UNCHANGED peers
          \/ peers' = [peers EXCEPT ![msg.to] = @ \ {msg.from}]
      BY <1>3, Zenon
      DEF Handle, ReceiveAnnounce, Lose, CreateRemoteNode, UpdateState,
          UpdateMetadata, RemoveEndpoints, RemoveRemoteNode, DeletePeer
    <2>2. UNCHANGED <<candidates, joining, suspect, alarms>>
      BY <1>3, Zenon
      DEF Handle, ReceiveAnnounce, Lose, CreateRemoteNode, UpdateState,
          UpdateMetadata, RemoveEndpoints, RemoveRemoteNode, DeletePeer
    <2>3. peers'[k] \subseteq peers[k]
      BY <1>t, <2>1
    <2>. QED  BY <1>t, <2>2, <2>3, Zenon
  <1>4. ASSUME NEW n \in Nodes, Crash(n) \/ Shutdown(n)
        PROVE  Goal
    <2>1. PICK messages : Stop(n, messages)
      BY <1>4, Zenon DEF Crash, Shutdown
    <2>. QED  BY <1>t, <2>1, Zenon DEF Stop
  <1>5. ASSUME NEW n \in Nodes, StartDiscovery(n)
        PROVE  Goal
    BY <1>t, <1>5, Zenon DEF StartDiscovery
  <1>6. ASSUME NEW n \in Nodes, CheckRemoves(n)
        PROVE  Goal
    BY <1>t, <1>6, Zenon DEF CheckRemoves, RemovePeer
  <1>7. ASSUME NEW n \in Nodes, NEW m \in Nodes, AddCandidate(n, m)
        PROVE  Goal
    BY <1>t, <1>7, Zenon DEF AddCandidate, broadcastPresence, Hears
  <1>8. ASSUME NEW n \in Nodes, NEW m \in Nodes, CleanupStaleCandidates(n, m)
        PROVE  Goal
    BY <1>t, <1>8, Zenon DEF CleanupStaleCandidates
  <1>9. ASSUME NEW n \in Nodes, NEW m \in Nodes, JoinNode(n, m)
        PROVE  Goal
    <2>1. m \in up \cup Mortal
      BY <1>9, Zenon DEF JoinNode, Running
    <2>2. peers'[k] \subseteq peers[k] \cup {m}
      BY <1>1, <1>9, <2>1, Zenon DEF JoinNode
    <2>3. joining'[k] \subseteq joining[k]
      BY <1>t, <1>9, Zenon DEF JoinNode
    <2>4. UNCHANGED <<candidates, suspect, alarms>>
      BY <1>9, Zenon DEF JoinNode
    <2>. QED  BY <1>t, <2>1, <2>2, <2>3, <2>4, Zenon
  <1>10. ASSUME NEW n \in Nodes, NEW m \in Nodes, Connect(n, m)
         PROVE  Goal
    <2>1. n \in up /\ m \in up
      BY <1>10, Zenon DEF Connect, handleGossipJoin
    <2>2. peers'[k] \subseteq peers[k] \cup {n}
      BY <1>1, <1>10, <2>1, ZenonT(60) DEF Connect, handleGossipJoin
    <2>3. joining'[k] \subseteq joining[k] \cup {m}
      BY <1>t, <1>10, Zenon DEF Connect, handleGossipJoin
    <2>4. UNCHANGED <<candidates, suspect, alarms>>
      BY <1>10, Zenon DEF Connect, handleGossipJoin
    <2>. QED  BY <1>t, <2>1, <2>2, <2>3, <2>4, Zenon
  <1>11. ASSUME NEW n \in Nodes, NEW m \in Nodes, CheckFails(n, m)
         PROVE  Goal
    <2>1. m \in up \cup Mortal
      BY <1>11, Zenon DEF CheckFails, Running
    <2>. QED  BY <1>t, <1>11, <2>1 DEF CheckFails
  <1>12. CASE UNCHANGED <<peers, candidates, joining, suspect, alarms>>
    BY <1>t, <1>12, Zenon
  <1>13. ASSUME NEW s \in Services,
                Register(s) \/ Delete(s) \/ UpdateHeartbeat(s) \/ CheckStaleEndpoints(s)
         PROVE  UNCHANGED <<peers, candidates, joining, suspect, alarms>>
    BY <1>13, Zenon DEF Register, Delete, UpdateHeartbeat, CheckStaleEndpoints
  <1>14. ASSUME NEW n \in Nodes, BroadcastState(n) \/ CleanStale(n) \/ Start(n)
         PROVE  UNCHANGED <<peers, candidates, joining, suspect, alarms>>
    BY <1>14, Zenon DEF BroadcastState, CleanStale, Start
  <1>15. ASSUME NEW n \in Nodes, NEW m \in Nodes, NodeGetsLate(n, m)
         PROVE  UNCHANGED <<peers, candidates, joining, suspect, alarms>>
    BY <1>15, Zenon DEF NodeGetsLate
  <1>16. ASSUME NEW n \in Nodes, NEW m \in Nodes, NEW p \in Paths, StateGetsLate(n, m, p)
         PROVE  UNCHANGED <<peers, candidates, joining, suspect, alarms>>
    BY <1>16, Zenon DEF StateGetsLate
  <1>17. CASE UNCHANGED vars
    BY <1>12, <1>17, Zenon DEF vars
  <1> HIDE DEF Goal, Known
  <1>18. CASE Next
    BY <1>2, <1>3, <1>4, <1>5, <1>6, <1>7, <1>8, <1>9, <1>10, <1>11, <1>12, <1>13, <1>14,
       <1>15, <1>16, <1>18, Zenon DEF Next
  <1>. QED  BY <1>17, <1>18

(* Running is kept by every step. *)
LEMMA RunningStep ==
    ASSUME TypeOK, NoSelf, Running, [Next]_vars
    PROVE  Running'
  <1>1. up \subseteq up' \cup Mortal
    BY UpStep, Zenon
  <1>2. \A msg \in net' : Origin(msg)
    BY NetStep, Zenon
  <1>3. ASSUME NEW msg \in net'
        PROVE  /\ msg.from \in up \cup Mortal
               /\ msg.type = "leave" \/ msg.at \in {"leave", "peer"} => msg.from \in Mortal
    <2>1. Origin(msg)
      BY <1>2, <1>3
    <2>2. CASE msg \in net
      BY <2>2, Zenon DEF Running
    <2>3. CASE /\ msg.from \in up /\ msg.at = "net"
               /\ msg.type = "leave" => msg.from \in Mortal
      BY <2>3
    <2>4. ASSUME NEW old \in net,
                 msg.from = old.from, msg.type = old.type,
                 msg.at \in {"leave", "peer"} => old.type = "leave" \/ old.at = "leave"
          PROVE  /\ msg.from \in up \cup Mortal
                 /\ msg.type = "leave" \/ msg.at \in {"leave", "peer"} => msg.from \in Mortal
      BY <2>4, Zenon DEF Running
    <2>. QED  BY <2>1, <2>2, <2>3, <2>4, Zenon DEF Origin
  <1>4. \A k \in Nodes : /\ Known(k)' \subseteq up \cup Mortal
                         /\ suspect'[k] \in Nodes \ Mortal => alarms' > 0
    BY KnownStep, Zenon
  <1>. QED  BY <1>1, <1>3, <1>4, Zenon DEF Running, Known

(* A step without a false alarm keeps the peers that never stop. *)
LEMMA KeepsStep ==
    ASSUME TypeOK, NoSelf, Running, [Next]_vars,
           NEW k \in Nodes, k \in up, k \in up', NEW r \in Nodes \ Mortal,
           r \in peers[k], alarms = 0
    PROVE  r \in peers'[k]
  <1>t. /\ peers \in [Nodes -> SUBSET Nodes] /\ net \subseteq Messages
        /\ suspect[k] # r
    BY DEF TypeOK, Running
  <1> USE DEF services, store, discovery
  <1>1. ASSUME NEW n \in Nodes, NEW m \in Nodes, NEW before, AddPeer(n, m, before)
        PROVE  r \in peers'[k]
    BY <1>1, <1>t, Zenon DEF AddPeer, addPeerLocked
  <1>2. ASSUME NEW msg \in net, Receive(msg)
        PROVE  r \in peers'[k]
    <2>1. msg.from \in Nodes /\ msg.to \in Nodes
      BY <1>t, Zenon DEF Messages
    <2>. QED  BY <1>1, <1>2, <2>1, Zenon DEF Receive
  <1>3. ASSUME NEW msg \in net, DeletePeer(msg)
        PROVE  r \in peers'[k]
    <2>1. msg.from \in Mortal
      BY <1>3, Zenon DEF DeletePeer, Running
    <2>. QED  BY <1>3, <1>t, <2>1, Zenon DEF DeletePeer
  <1>4. ASSUME NEW n \in Nodes, CheckRemoves(n)
        PROVE  r \in peers'[k]
    BY <1>4, <1>t, Zenon DEF CheckRemoves, RemovePeer
  <1>5. ASSUME NEW n \in Nodes, Crash(n) \/ Shutdown(n)
        PROVE  r \in peers'[k]
    <2>1. PICK messages : Stop(n, messages)
      BY <1>5, Zenon DEF Crash, Shutdown
    <2>. QED  BY <1>t, <2>1, Zenon DEF Stop
  <1>6. ASSUME NEW n \in Nodes, NEW m \in Nodes, JoinNode(n, m) \/ Connect(n, m)
        PROVE  r \in peers'[k]
    BY <1>1, <1>6, Zenon DEF JoinNode, Connect, handleGossipJoin
  <1>7. ASSUME NEW s \in Services,
               Register(s) \/ Delete(s) \/ UpdateHeartbeat(s) \/ CheckStaleEndpoints(s)
        PROVE  UNCHANGED peers
    BY <1>7, Zenon DEF Register, Delete, UpdateHeartbeat, CheckStaleEndpoints
  <1>8. ASSUME NEW msg \in net,
               \/ CreateRemoteNode(msg) \/ UpdateState(msg) \/ UpdateMetadata(msg)
               \/ RemoveEndpoints(msg) \/ RemoveRemoteNode(msg) \/ ReceiveAnnounce(msg) \/ Lose(msg)
        PROVE  UNCHANGED peers
    BY <1>8, Zenon
    DEF CreateRemoteNode, UpdateState, UpdateMetadata, RemoveEndpoints, RemoveRemoteNode,
        ReceiveAnnounce, Lose
  <1>9. ASSUME NEW n \in Nodes,
               BroadcastState(n) \/ StartDiscovery(n) \/ CleanStale(n) \/ Start(n)
        PROVE  UNCHANGED peers
    BY <1>9, Zenon DEF BroadcastState, StartDiscovery, CleanStale, Start
  <1>10. ASSUME NEW n \in Nodes, NEW m \in Nodes,
                \/ AddCandidate(n, m) \/ CleanupStaleCandidates(n, m)
                \/ CheckFails(n, m) \/ NodeGetsLate(n, m)
         PROVE  UNCHANGED peers
    BY <1>10, Zenon DEF AddCandidate, broadcastPresence, Hears, CleanupStaleCandidates,
        CheckFails, NodeGetsLate
  <1>11. ASSUME NEW n \in Nodes, NEW m \in Nodes, NEW p \in Paths, StateGetsLate(n, m, p)
         PROVE  UNCHANGED peers
    BY <1>11, Zenon DEF StateGetsLate
  <1>12. CASE UNCHANGED vars
    BY <1>12, Zenon DEF vars
  <1>13. CASE Next
    BY <1>2, <1>3, <1>4, <1>5, <1>6, <1>7, <1>8, <1>9, <1>10, <1>11, <1>13, Zenon
    DEF Next, Handle
  <1>. QED  BY <1>12, <1>13

-----------------------------------------------------------------------------
(* The three invariants hold at the start. *)
LEMMA InitInv == Init => TypeOK /\ NoSelf /\ Running
  <1> SUFFICES ASSUME Init  PROVE TypeOK /\ NoSelf /\ Running
    OBVIOUS
  <1>1. TypeOK
    BY GossipAssumption, NothingType, SMTT(120) DEF Init, TypeOK
  <1>2. NoSelf
    BY Zenon DEF Init, NoSelf
  <1>3. Running
    BY GossipAssumption, Zenon DEF Init, Running
  <1>. QED  BY <1>1, <1>2, <1>3

(* The type invariant of the gossip state (sync.go, discovery.go, node.go),    *)
(* with the two invariants it is proved with.                                  *)
THEOREM TypeCorrect == Spec => [](TypeOK /\ NoSelf)
  <1>1. Init => TypeOK /\ NoSelf
    BY InitInv
  <1>2. TypeOK /\ NoSelf /\ [Next]_vars => (TypeOK /\ NoSelf)'
    BY TypeStep, SelfStep
  <1>. QED  BY <1>1, <1>2, PTL DEF Spec

(* No node becomes a peer of its own or keeps itself as a remote node: not by  *)
(* its own broadcast, nor by a message, nor by a join (NotOwnPeer).            *)
THEOREM NotOwnPeerCorrect == Spec => []NotOwnPeer
  <1>1. NoSelf => NotOwnPeer
    BY DEF NoSelf, NotOwnPeer
  <1>. QED  BY <1>1, TypeCorrect, PTL

(* Without a false alarm no peer that never stops is removed from Sync.peers   *)
(* of a running node (KeepsRunningPeers).                                      *)
THEOREM KeepsRunningPeersCorrect == Spec => KeepsRunningPeers
  <1>1. TypeOK /\ NoSelf /\ Running /\ [Next]_vars => (TypeOK /\ NoSelf /\ Running)'
    BY TypeStep, SelfStep, RunningStep
  <1>2. TypeOK /\ NoSelf /\ Running /\ [Next]_vars
          => [\A n \in up \cap up', m \in Nodes \ Mortal :
                 m \in peers[n] /\ alarms = 0 => m \in peers'[n]]_vars
    <2> SUFFICES ASSUME TypeOK, NoSelf, Running, [Next]_vars,
                        NEW n \in up \cap up', NEW m \in Nodes \ Mortal,
                        m \in peers[n], alarms = 0
                 PROVE  m \in peers'[n]
      OBVIOUS
    <2>1. n \in Nodes
      BY Zenon DEF TypeOK
    <2>. QED  BY <2>1, KeepsStep, Zenon
  <1>. QED  BY <1>1, <1>2, InitInv, PTL DEF Spec, KeepsRunningPeers

-----------------------------------------------------------------------------
(* Nobody makes a path up.  All states that are sent come from PathInfos of *)
(* the sender's own services, and a view changes by messages alone.         *)

\* None of these services is one of m with path p.
NotAmong(in, m, p) == \A s \in in : ~(NodeOf[s] = m /\ PathOf[s] = p)

\* None of these messages says that m serves p.
Silent(messages, m, p) == \A msg \in messages : msg.from = m => msg.infos[p] = "none"

(* A post adds nothing to what is said. *)
LEMMA PostedSilent ==
    ASSUME NEW before, NEW messages, NEW m, NEW p, Silent(before, m, p), Silent(messages, m, p)
    PROVE  Silent(Posted(before, messages), m, p)
  BY Zenon DEF Posted, Silent

(* A state that is sent names no path that the sender does not serve. *)
LEMMA SyncSilent ==
    ASSUME NEW n, NEW k, NEW in, NEW well, NEW m, NEW p \in Paths, NotAmong(in, m, p)
    PROVE  SyncTo(n, k, in, well).from = m => SyncTo(n, k, in, well).infos[p] = "none"
  <1>1. PathInfos(m, in, well)[p] = "none"
    BY DEF PathInfos, NotAmong
  <1>2. SyncTo(n, k, in, well).from = n /\ SyncTo(n, k, in, well).infos = PathInfos(n, in, well)
    BY Zenon DEF SyncTo, Message
  <1>. QED  BY <1>1, <1>2, Zenon

(* The other messages name no path as served. *)
LEMMA NothingSilent ==
    ASSUME NEW type, NEW n, NEW k, NEW paths, NEW p \in Paths
    PROVE  Message(type, n, k, Nothing, paths).infos[p] = "none"
  BY Zenon DEF Message, Nothing

(* What the broadcasts and AddPeer post. *)
LEMMA BroadcastSilent ==
    ASSUME NEW n, NEW in, NEW well, NEW paths, NEW m, NEW p \in Paths, NotAmong(in, m, p)
    PROVE  /\ Silent(BroadcastSync(n, in, well), m, p)
           /\ Silent(BroadcastDeletedPaths(n, paths), m, p)
           /\ Silent(BroadcastNodeLeave(n), m, p)
  <1>1. Silent(BroadcastSync(n, in, well), m, p)
    BY SyncSilent, SMTT(60) DEF Silent, BroadcastSync
  <1>2. Silent(BroadcastDeletedPaths(n, paths), m, p) /\ Silent(BroadcastNodeLeave(n), m, p)
    BY NothingSilent, ZenonT(60) DEF Silent, BroadcastDeletedPaths, BroadcastNodeLeave
  <1>. QED  BY <1>1, <1>2

LEMMA AddPeerSilent ==
    ASSUME NEW n, NEW k, NEW before, NEW m, NEW p \in Paths, NotAmong(served, m, p),
           Silent(before, m, p), AddPeer(n, k, before)
    PROVE  Silent(net', m, p)
  <1>1. Silent({SyncTo(n, j, served, healthy) : j \in peers[n] \cup {k}}, m, p)
    BY SyncSilent, SMTT(60) DEF Silent
  <1>2. Silent({Message("peer_announce", n, j, Nothing, {}) : j \in peers[n]}, m, p)
    BY NothingSilent, SMTT(60) DEF Silent
  <1>3. Silent(AddPeerPosts(n, k), m, p)
    BY <1>1, <1>2, Zenon DEF AddPeerPosts, Silent
  <1>4. net' = Posted(before, AddPeerPosts(n, k))
    BY Zenon DEF AddPeer
  <1>. QED  BY <1>3, <1>4, PostedSilent, Zenon

(* A handler takes its message on as it is. *)
LEMMA HandleSilent ==
    ASSUME TypeOK, NEW old \in net, NEW step, NEW m, NEW p, Silent(net, m, p)
    PROVE  Silent((net \ {old}) \cup {[old EXCEPT !.at = step]}, m, p)
  <1>1. old \in Messages
    BY Zenon DEF TypeOK
  <1>2. [old EXCEPT !.at = step].from = old.from /\ [old EXCEPT !.at = step].infos = old.infos
    BY <1>1 DEF Messages
  <1>. QED  BY <1>2, Zenon DEF Silent

(* No step puts a message on the network that names a path which its sender  *)
(* does not serve.                                                           *)
LEMMA NetSilent ==
    ASSUME TypeOK, [Next]_vars, NEW m \in Nodes, NEW p \in Paths,
           NotAmong(served', m, p), Silent(net, m, p)
    PROVE  Silent(net', m, p)
  <1>1. ASSUME NEW s \in Services, Register(s) \/ Delete(s)
        PROVE  Silent(net', m, p)
    <2>1. PICK in, well : in = served' /\ well = healthy'
      OBVIOUS
    <2> DEFINE sync == BroadcastSync(NodeOf[s], in, well)
               deleted == BroadcastDeletedPaths(NodeOf[s], {PathOf[s]})
    <2>2. Silent(sync, m, p) /\ Silent(deleted, m, p)
      BY <2>1, BroadcastSilent, Zenon
    <2>3. net' = Posted(net, sync) \/ net' = Posted(net, sync \cup deleted)
      BY <1>1, <2>1, Zenon DEF Register, Delete, BroadcastSync
    <2> HIDE DEF sync, deleted
    <2>4. Silent(sync \cup deleted, m, p)
      BY <2>2, Zenon DEF Silent
    <2>. QED  BY <2>2, <2>3, <2>4, PostedSilent, Zenon
  <1>2. CASE UNCHANGED net
    BY <1>2, Zenon DEF Silent
  <1>3. ASSUME NEW n, NEW k, NEW before, UNCHANGED served, Silent(before, m, p),
               AddPeer(n, k, before)
        PROVE  Silent(net', m, p)
    BY <1>3, AddPeerSilent, Zenon
  <1>4. ASSUME NEW msg \in net, Receive(msg)
        PROVE  Silent(net', m, p)
    <2> DEFINE before == IF msg.type = "sync" /\ msg.infos = Nothing THEN net \ {msg}
                         ELSE (net \ {msg}) \cup {[msg EXCEPT !.at = FirstStep(msg)]}
    <2>1. Silent((net \ {msg}) \cup {[msg EXCEPT !.at = FirstStep(msg)]}, m, p)
      BY HandleSilent, Zenon
    <2>2. Silent(before, m, p)
      BY <2>1, Zenon DEF Silent
    <2>3. AddPeer(msg.to, msg.from, before) /\ UNCHANGED served
      BY <1>4, Zenon DEF Receive, services
    <2> HIDE DEF before
    <2>. QED  BY <1>3, <2>2, <2>3, Zenon
  <1>5. ASSUME NEW msg \in net, Handle(msg) \/ ReceiveAnnounce(msg) \/ Lose(msg)
        PROVE  Silent(net', m, p)
    <2>1. CASE net' = net \ {msg}
      BY <2>1, Zenon DEF Silent
    <2>2. ASSUME NEW step, net' = (net \ {msg}) \cup {[msg EXCEPT !.at = step]}
          PROVE  Silent(net', m, p)
      BY <2>2, HandleSilent
    <2>. QED
      BY <1>5, <2>1, <2>2, Zenon
      DEF Handle, ReceiveAnnounce, Lose, HandleLast, HandleNext, CreateRemoteNode, UpdateState,
          UpdateMetadata, RemoveEndpoints, RemoveRemoteNode, DeletePeer
  <1>6. ASSUME NEW n \in Nodes, BroadcastState(n)
        PROVE  Silent(net', m, p)
    <2>1. net' = Posted(net, BroadcastSync(n, served, healthy)) /\ UNCHANGED served
      BY <1>6, Zenon DEF BroadcastState, services
    <2>2. Silent(BroadcastSync(n, served, healthy), m, p)
      BY <2>1, BroadcastSilent, Zenon
    <2>. QED  BY <2>1, <2>2, PostedSilent, Zenon
  <1>7. ASSUME NEW n \in Nodes, Crash(n) \/ Shutdown(n)
        PROVE  Silent(net', m, p)
    <2>1. Silent(BroadcastNodeLeave(n), m, p) /\ Silent({}, m, p)
      BY NothingSilent, SMTT(60) DEF Silent, BroadcastNodeLeave
    <2> DEFINE kept == {msg \in net : msg.at = "net" \/ msg.to # n}
    <2>2. net' = Posted(kept, {}) \/ net' = Posted(kept, BroadcastNodeLeave(n))
      BY <1>7, Zenon DEF Crash, Shutdown, Stop
    <2>3. Silent(kept, m, p)
      BY Zenon DEF Silent
    <2> HIDE DEF kept
    <2>. QED  BY <2>1, <2>2, <2>3, PostedSilent, Zenon
  <1>8. ASSUME NEW n \in Nodes, NEW k \in Nodes, JoinNode(n, k)
        PROVE  Silent(net', m, p)
    <2>1. AddPeer(n, k, net) /\ UNCHANGED served
      BY <1>8, Zenon DEF JoinNode, services
    <2>. QED  BY <1>3, <2>1
  <1>9. ASSUME NEW n \in Nodes, NEW k \in Nodes, Connect(n, k)
        PROVE  Silent(net', m, p)
    <2> DEFINE sync == SyncTo(k, n, served, healthy)
    <2>1. AddPeer(k, n, Posted(net, {sync})) /\ UNCHANGED served
      BY <1>9, Zenon DEF Connect, handleGossipJoin, services
    <2>2. Silent({sync}, m, p)
      BY <2>1, SyncSilent, SMTT(60) DEF Silent
    <2> HIDE DEF sync
    <2>3. Silent(Posted(net, {sync}), m, p)
      BY <2>2, PostedSilent, Zenon
    <2>. QED  BY <1>3, <2>1, <2>3, Zenon
  <1>10. ASSUME NEW s \in Services, UpdateHeartbeat(s) \/ CheckStaleEndpoints(s)
         PROVE  UNCHANGED net
    BY <1>10, Zenon DEF UpdateHeartbeat, CheckStaleEndpoints
  <1>11. ASSUME NEW n \in Nodes,
                StartDiscovery(n) \/ CheckRemoves(n) \/ CleanStale(n) \/ Start(n)
         PROVE  UNCHANGED net
    BY <1>11, Zenon DEF StartDiscovery, CheckRemoves, CleanStale, Start
  <1>12. ASSUME NEW n \in Nodes, NEW k \in Nodes,
                \/ AddCandidate(n, k) \/ CleanupStaleCandidates(n, k)
                \/ CheckFails(n, k) \/ NodeGetsLate(n, k)
                \/ \E q \in Paths : StateGetsLate(n, k, q)
         PROVE  UNCHANGED net
    BY <1>12, Zenon
       DEF AddCandidate, CleanupStaleCandidates, CheckFails, NodeGetsLate, StateGetsLate
  <1>13. CASE UNCHANGED vars
    BY <1>2, <1>13 DEF vars
  <1>14. CASE Next
    BY <1>14, <1>1, <1>2, <1>4, <1>5, <1>6, <1>7, <1>8, <1>9, <1>10, <1>11, <1>12, Zenon DEF Next
  <1>. QED  BY <1>13, <1>14

(* No handler, clean-up or restart puts a path into a view that no message   *)
(* of the node has named.                                                    *)
LEMMA ViewSilent ==
    ASSUME TypeOK, [Next]_vars, NEW m \in Nodes, NEW p \in Paths, Silent(net, m, p),
           \A n \in Nodes : view[n][m][p] = "none",
           NEW n \in Nodes
    PROVE  view'[n][m][p] = "none"
  <1> USE DEF TypeOK
  <1>0. Nothing[p] = "none"
    BY Zenon DEF Nothing
  <1>1. CASE UNCHANGED view
    BY <1>1, Zenon
  <1>2. ASSUME NEW msg \in net, NEW new, Merge(msg, new)
        PROVE  view'[n][m][p] = "none"
    <2>1. msg \in Messages
      OBVIOUS
    <2>2. msg.to \in Nodes /\ msg.from \in Nodes
      BY <2>1, Zenon DEF Messages
    <2>3. msg.from = m => msg.infos[p] = "none"
      BY Zenon DEF Silent
    <2>. QED  BY <1>2, <2>2, <2>3, Zenon DEF Merge
  <1>3. ASSUME NEW msg \in net, Handle(msg)
        PROVE  view'[n][m][p] = "none"
    <2>1. msg.to \in Nodes /\ msg.from \in Nodes
      BY Zenon DEF Messages
    <2>2. CASE UpdateState(msg) \/ UpdateMetadata(msg)
      BY <1>2, <2>2, Zenon DEF UpdateState, UpdateMetadata
    <2>3. CASE RemoveEndpoints(msg)
      BY <2>1, <2>3, Zenon DEF RemoveEndpoints
    <2>4. CASE RemoveRemoteNode(msg)
      BY <1>0, <2>1, <2>4, Zenon DEF RemoveRemoteNode
    <2>5. CASE CreateRemoteNode(msg) \/ DeletePeer(msg)
      BY <1>1, <2>5, Zenon DEF CreateRemoteNode, DeletePeer, store
    <2>. QED  BY <1>3, <2>2, <2>3, <2>4, <2>5, Zenon DEF Handle
  <1>4. ASSUME NEW k \in Nodes, CheckRemoves(k)
        PROVE  view'[n][m][p] = "none"
    <2>1. suspect[k] \in Nodes
      BY <1>4, Zenon DEF CheckRemoves
    <2>. QED  BY <1>0, <1>4, <2>1, Zenon DEF CheckRemoves, RemovePeer
  <1>5. ASSUME NEW k \in Nodes, CleanStale(k)
        PROVE  view'[n][m][p] = "none"
    BY <1>0, <1>5, Zenon DEF CleanStale
  <1>6. ASSUME NEW k \in Nodes, Crash(k) \/ Shutdown(k)
        PROVE  view'[n][m][p] = "none"
    <2>1. view' = [view EXCEPT ![k] = [j \in Nodes |-> Nothing]]
      BY <1>6, Zenon DEF Crash, Shutdown, Stop
    <2>. QED  BY <1>0, <2>1, Zenon
  <1>7. ASSUME NEW s \in Services,
               Register(s) \/ Delete(s) \/ UpdateHeartbeat(s) \/ CheckStaleEndpoints(s)
        PROVE  UNCHANGED view
    BY <1>7, Zenon DEF Register, Delete, UpdateHeartbeat, CheckStaleEndpoints, store
  <1>8. ASSUME NEW msg \in net, Receive(msg) \/ ReceiveAnnounce(msg) \/ Lose(msg)
        PROVE  UNCHANGED view
    BY <1>8, Zenon DEF Receive, AddPeer, ReceiveAnnounce, Lose, store
  <1>9. ASSUME NEW k \in Nodes, BroadcastState(k) \/ StartDiscovery(k) \/ Start(k)
        PROVE  UNCHANGED view
    BY <1>9, Zenon DEF BroadcastState, StartDiscovery, Start, store
  <1>10. ASSUME NEW k \in Nodes, NEW j \in Nodes,
                \/ AddCandidate(k, j) \/ CleanupStaleCandidates(k, j) \/ JoinNode(k, j)
                \/ Connect(k, j) \/ CheckFails(k, j) \/ NodeGetsLate(k, j)
                \/ \E q \in Paths : StateGetsLate(k, j, q)
         PROVE  UNCHANGED view
    BY <1>10, Zenon DEF AddCandidate, CleanupStaleCandidates, JoinNode, Connect, handleGossipJoin,
        AddPeer, CheckFails, NodeGetsLate, StateGetsLate, store
  <1>11. CASE UNCHANGED vars
    BY <1>1, <1>11, Zenon DEF vars, store
  <1>12. CASE Next
    BY <1>12, <1>1, <1>3, <1>4, <1>5, <1>6, <1>7, <1>8, <1>9, <1>10, Zenon DEF Next
  <1>. QED  BY <1>11, <1>12, Zenon

(* A path that is known nowhere and named by no message becomes known only   *)
(* when its node serves it (AggregateLocalPathInfos, HandleStateMessage), in *)
(* any cluster, with messages lost, delayed and reordered, and restarts.     *)
THEOREM NotInventedCorrect == Spec => NotInvented
  <1>1. ASSUME TypeOK, [Next]_vars
        PROVE  [\A m \in Nodes, p \in Paths :
                   Unknown(m, p) /\ ~Offers(m, p)' => Unknown(m, p)']_vars
    <2> SUFFICES ASSUME NEW m \in Nodes, NEW p \in Paths, Unknown(m, p), ~Offers(m, p)'
                 PROVE  Unknown(m, p)'
      OBVIOUS
    <2>1. NotAmong(served', m, p)
      BY DEF Offers, NotAmong
    <2>2. Silent(net, m, p) /\ \A n \in Nodes : view[n][m][p] = "none"
      BY Zenon DEF Unknown, Silent
    <2>3. Silent(net', m, p)
      BY <1>1, <2>1, <2>2, NetSilent, Zenon
    <2>4. \A n \in Nodes : view'[n][m][p] = "none"
      BY <1>1, <2>2, ViewSilent, Zenon
    <2>. QED  BY <2>3, <2>4, Zenon DEF Unknown, Silent
  <1>. QED  BY <1>1, TypeCorrect, PTL DEF Spec, NotInvented
=============================================================================
