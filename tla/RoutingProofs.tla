---------------------------- MODULE RoutingProofs ----------------------------
(* Proofs about Routing, for any cluster, any requests and any knowledge    *)
(* the nodes have of each other.                                           *)
EXTENDS Routing, FiniteSetTheorems, SequenceTheorems, TLAPS

\* The phases in which a request is handled by a node that did not forward it.
Active == {"arrived", "collect", "forward", "pool", "endpoint", "serve"}

\* Of one request: its phase, its hops, the node it is at and its candidate.
Sound(ph, h, n, c) ==
    /\ \A i \in 1..Len(h), j \in 1..Len(h) : j <= i => h[i].to # h[j].from
    /\ \A i \in 1..Len(h), j \in 1..Len(h) : h[i].from = h[j].from => i = j
    /\ ph \in {"idle", "done"} => h = <<>>
    /\ ph \in {"sent", "broken"} => h # <<>>
    /\ ph \in Active => \A i \in 1..Len(h) : h[i].from # n
    /\ ph = "forward" => /\ c \in Candidates /\ c.node # n
                         /\ \A i \in 1..Len(h) : h[i].from # c.node

AllSound == \A r \in Requests : Sound(phase[r], hops[r], at[r], choice[r])

-----------------------------------------------------------------------------
(* Prefixes of the hops.                                                   *)

Prefix(g, h) == Len(g) <= Len(h) /\ \A i \in 1..Len(g) : g[i] = h[i]

LEMMA InitialPart ==
    ASSUME NEW h \in Seq(Hops), NEW k \in 1..Len(h)
    PROVE  /\ SubSeq(h, 1, k - 1) \in Seq(Hops)
           /\ Len(SubSeq(h, 1, k - 1)) = k - 1
           /\ \A i \in 1..(k - 1) : SubSeq(h, 1, k - 1)[i] = h[i]
           /\ Prefix(SubSeq(h, 1, k - 1), h)
  <1>1. Len(h) \in Nat /\ \A i \in 1..Len(h) : h[i] \in Hops
    OBVIOUS
  <1>2. k - 1 \in Int /\ 1 \in Int /\ \A i \in 1..(k - 1) : h[i] \in Hops
    BY <1>1
  <1>3. /\ SubSeq(h, 1, k - 1) \in Seq(Hops)
        /\ Len(SubSeq(h, 1, k - 1)) = IF 1 <= k - 1 THEN k - 1 - 1 + 1 ELSE 0
        /\ \A i \in 1..(k - 1) - 1 + 1 : SubSeq(h, 1, k - 1)[i] = h[1 + i - 1]
    BY <1>2, SubSeqProperties
  <1>4. Len(SubSeq(h, 1, k - 1)) = k - 1
    BY <1>1, <1>3
  <1>5. \A i \in 1..(k - 1) : SubSeq(h, 1, k - 1)[i] = h[i]
    <2> TAKE i \in 1..(k - 1)
    <2>1. i \in 1..(k - 1) - 1 + 1 /\ 1 + i - 1 = i
      BY <1>1
    <2>. QED  BY <1>3, <2>1
  <1>. QED  BY <1>1, <1>3, <1>4, <1>5 DEF Prefix

LEMMA LastInHops ==
    ASSUME NEW h \in Seq(Hops), h # <<>>
    PROVE  /\ Len(h) \in 1..Len(h) /\ h[Len(h)] \in Hops
           /\ h[Len(h)].from \in Nodes /\ h[Len(h)].to \in Nodes
  <1>1. Len(h) \in 1..Len(h) /\ h[Len(h)] \in Hops
    OBVIOUS
  <1>. QED  BY <1>1 DEF Hops

LEMMA KeptPrefix ==
    ASSUME NEW r \in Requests, NEW n, hops[r] \in Seq(Hops),
           \A i \in 1..Len(hops[r]), j \in 1..Len(hops[r]) :
              hops[r][i].from = hops[r][j].from => i = j
    PROVE  /\ Kept(r, n) \in Seq(Hops)
           /\ Prefix(Kept(r, n), hops[r])
           /\ \A i \in 1..Len(Kept(r, n)) : Kept(r, n)[i].from # n
  <1>1. CASE \E i \in 1..Len(hops[r]) : hops[r][i].from = n
    <2> DEFINE k == CHOOSE i \in 1..Len(hops[r]) : hops[r][i].from = n
               h == hops[r]
    <2>1. k \in 1..Len(h) /\ h[k].from = n
      BY <1>1
    <2>2. Kept(r, n) = SubSeq(h, 1, k - 1)
      BY <1>1 DEF Kept
    <2>0. h \in Seq(Hops) /\ \A i \in 1..Len(h), j \in 1..Len(h) : h[i].from = h[j].from => i = j
      OBVIOUS
    <2> HIDE DEF k, h
    <2>3. /\ SubSeq(h, 1, k - 1) \in Seq(Hops)
          /\ Len(SubSeq(h, 1, k - 1)) = k - 1
          /\ \A i \in 1..(k - 1) : SubSeq(h, 1, k - 1)[i] = h[i]
          /\ Prefix(SubSeq(h, 1, k - 1), h)
      BY <2>0, <2>1, InitialPart
    <2>4. \A i \in 1..(k - 1) : h[i].from # n
      BY <2>0, <2>1
    <2>5. \A i \in 1..Len(Kept(r, n)) : Kept(r, n)[i].from # n
      BY <2>2, <2>3, <2>4
    <2>6. Kept(r, n) \in Seq(Hops) /\ Prefix(Kept(r, n), h)
      BY <2>2, <2>3
    <2>. QED  BY <2>5, <2>6 DEF h
  <1>2. CASE ~ \E i \in 1..Len(hops[r]) : hops[r][i].from = n
    <2>1. Kept(r, n) = hops[r]
      BY <1>2 DEF Kept
    <2>. QED  BY <1>2, <2>1 DEF Prefix
  <1>. QED  BY <1>1, <1>2

\* What is said of the hops alone holds of their prefixes.
LEMMA PrefixSound ==
    ASSUME NEW g \in Seq(Hops), NEW h \in Seq(Hops), Prefix(g, h),
           NEW ph, NEW n, NEW c, Sound(ph, h, n, c)
    PROVE  /\ \A i \in 1..Len(g), j \in 1..Len(g) : j <= i => g[i].to # g[j].from
           /\ \A i \in 1..Len(g), j \in 1..Len(g) : g[i].from = g[j].from => i = j
  <1>1. Len(g) \in Nat /\ Len(h) \in Nat /\ 1..Len(g) \subseteq 1..Len(h)
    BY DEF Prefix
  <1>2. \A i \in 1..Len(g) : g[i] = h[i]
    BY DEF Prefix
  <1>3. /\ \A i \in 1..Len(h), j \in 1..Len(h) : j <= i => h[i].to # h[j].from
        /\ \A i \in 1..Len(h), j \in 1..Len(h) : h[i].from = h[j].from => i = j
    BY Zenon DEF Sound
  <1>4. ASSUME NEW i \in 1..Len(g), NEW j \in 1..Len(g)
        PROVE  (j <= i => g[i].to # g[j].from) /\ (g[i].from = g[j].from => i = j)
    <2>1. g[i] = h[i] /\ g[j] = h[j] /\ i \in 1..Len(h) /\ j \in 1..Len(h)
      BY <1>1, <1>2
    <2>. QED  BY <1>3, <2>1, Zenon
  <1>. QED  BY <1>4, Zenon

-----------------------------------------------------------------------------
(* The candidates.                                                         *)

\* getNodesForPath returns other nodes only if they did not forward the request.
LEMMA RemoteOthers ==
    ASSUME NEW n, NEW seen, NEW remote \in RemoteCandidates(n, seen), NEW c \in remote
    PROVE  c \in Candidates /\ c.node # n /\ c.node \notin seen
  <1>1. PICK longest \in {RemoteLongest(v) : v \in RemoteViews(n)}, view \in RemoteViews(n) :
          remote = RemoteNodes(n, seen, longest, view)
    BY DEF RemoteCandidates
  <1>2. longest \subseteq Paths
    <2>1. PICK v \in RemoteViews(n) : longest = RemoteLongest(v)
      BY <1>1
    <2>. QED  BY <2>1 DEF RemoteLongest, Longest
  <1>3. c \in [node : Nodes \ ({n} \cup seen), path : longest, plugin : BOOLEAN]
    BY <1>1 DEF RemoteNodes
  <1>. QED  BY <1>2, <1>3 DEF Candidates

LEMMA Selected ==
    ASSUME NEW nodes, NEW c \in selectNodeWithFallback(nodes)
    PROVE  c \in nodes
  BY DEF selectNodeWithFallback

LEMMA LocalIsOwn ==
    ASSUME NEW n \in Nodes, NEW seen, NEW p \in Paths \cup {None}, NEW c \in LocalNode(n, seen, p)
    PROVE  c \in Candidates /\ c.node = n
  <1>1. p \in Paths /\ c = [node |-> n, path |-> p, plugin |-> Local(n, p) \subseteq Plugin]
    BY DEF LocalNode
  <1>2. (Local(n, p) \subseteq Plugin) \in BOOLEAN
    OBVIOUS
  <1>. QED  BY <1>1, <1>2 DEF Candidates

\* The step that selects a candidate, without the candidates.
Selects(r, c) ==
    /\ Moves(r, "collect", IF c.node = at[r] THEN "pool" ELSE "forward")
    /\ choice' = [choice EXCEPT ![r] = c]
    /\ UNCHANGED <<up, registry, at, hops, best, pool, answer, remoteActive>>

LEMMA HandleRequestSelects ==
    ASSUME NEW r \in Requests, at[r] \in Nodes, best[r] \in Paths \cup {None}, HandleRequest(r)
    PROVE  \/ Answered(r, "collect", "notFound")
           \/ \E c \in Candidates : Selects(r, c) /\ (c.node # at[r] => c.node \notin Seen(r))
  <1>1. PICK remote \in RemoteCandidates(at[r], Seen(r)) :
          LET nodes == LocalNode(at[r], Seen(r), best[r]) \cup remote
          IN  \/ nodes = {} /\ Answered(r, "collect", "notFound")
              \/ \E c \in selectNodeWithFallback(nodes) : Selects(r, c)
    BY Zenon DEF HandleRequest, Selects
  <1>2. ASSUME NEW c \in selectNodeWithFallback(LocalNode(at[r], Seen(r), best[r]) \cup remote)
        PROVE  c \in Candidates /\ (c.node # at[r] => c.node \notin Seen(r))
    <2>1. c \in LocalNode(at[r], Seen(r), best[r]) \cup remote
      BY <1>2, Selected
    <2>2. CASE c \in remote
      BY <2>2, RemoteOthers
    <2>3. CASE c \in LocalNode(at[r], Seen(r), best[r])
      BY <2>3, LocalIsOwn
    <2>. QED  BY <2>1, <2>2, <2>3
  <1>. QED  BY <1>1, <1>2, Zenon

-----------------------------------------------------------------------------
(* The types.                                                              *)

LEMMA CountType ==
    ASSUME NEW counters \in [Nodes -> [Nodes \X Paths -> Int]], NEW hop, NEW d \in Int
    PROVE  Count(counters, hop, d) \in [Nodes -> [Nodes \X Paths -> Int]]
  BY DEF Count

LEMMA AnsweredType ==
    ASSUME TypeOK, NEW r \in Requests, NEW from, NEW what \in Answers,
           Answered(r, from, what), at[r] \in Nodes
    PROVE  TypeOK'
  BY Zenon DEF TypeOK, Answered, Moves, registry, Phases, Handled

LEMMA BackType ==
    ASSUME TypeOK, NEW r \in Requests, NEW from, NEW what \in Answers,
           hops[r] # <<>>, Back(r, from, what)
    PROVE  TypeOK'
  <1> DEFINE h == hops[r]
  <1>1. h \in Seq(Hops) /\ Len(h) \in 1..Len(h) /\ h[Len(h)] \in Hops
    BY DEF TypeOK
  <1>2. SubSeq(h, 1, Len(h) - 1) \in Seq(Hops)
    BY <1>1, InitialPart
  <1>3. LastHop(r).from \in Nodes
    BY <1>1 DEF LastHop, Hops
  <1>4. remoteActive' \in [Nodes -> [Nodes \X Paths -> Int]]
    <2>1. -1 \in Int
      OBVIOUS
    <2>. QED  BY <2>1, CountType, Zenon DEF TypeOK, Back
  <1>5. hops' \in [Requests -> Seq(Hops)]
    BY <1>2 DEF TypeOK, Back
  <1>6. /\ at' = [at EXCEPT ![r] = LastHop(r).from]
        /\ phase' = [phase EXCEPT ![r] = "answered"]
        /\ answer' = [answer EXCEPT ![r] = what]
        /\ UNCHANGED <<up, registry, best, choice, pool>>
    BY DEF Back, Moves
  <1>. QED  BY <1>3, <1>4, <1>5, <1>6, Zenon DEF TypeOK, registry, Phases

LEMMA CrashType ==
    ASSUME TypeOK, AllSound, NEW n \in Nodes, Crash(n)
    PROVE  TypeOK'
  <1>1. ASSUME NEW r \in Requests
        PROVE  /\ Kept(r, n) \in Seq(Hops)
               /\ Kept(r, n) # <<>> => Kept(r, n)[Len(Kept(r, n))].from \in Nodes
    <2>1. hops[r] \in Seq(Hops) /\ Sound(phase[r], hops[r], at[r], choice[r])
      BY DEF TypeOK, AllSound
    <2>2. Kept(r, n) \in Seq(Hops)
      BY <2>1, KeptPrefix DEF Sound
    <2>. QED  BY <2>2, LastInHops, Zenon
  <1>2. hops' \in [Requests -> Seq(Hops)]
    BY <1>1 DEF TypeOK, Crash
  <1>3. at' \in [Requests -> Nodes \cup {None}]
    BY <1>1 DEF TypeOK, Crash
  <1>4. phase' \in [Requests -> Phases] /\ answer' \in [Requests -> Answers]
    BY DEF TypeOK, Crash, Phases, Answers, Handled
  <1>5. \A r \in Requests : phase'[r] \in Handled \cup {"answered"} => at'[r] \in Nodes
    <2> TAKE r \in Requests
    <2>1. /\ at'[r] = IF TakesPart(r, n) /\ Kept(r, n) # <<>>
                      THEN Kept(r, n)[Len(Kept(r, n))].from ELSE at[r]
          /\ phase'[r] = IF ~TakesPart(r, n) THEN phase[r]
                         ELSE IF Kept(r, n) = <<>> THEN "done" ELSE "broken"
      BY DEF Crash
    <2>2. phase[r] \in Handled \cup {"answered"} => at[r] \in Nodes
      BY DEF TypeOK
    <2>. QED  BY <1>1, <2>1, <2>2 DEF Handled
  <1>6. remoteActive' \in [Nodes -> [Nodes \X Paths -> Int]]
    <2>1. ASSUME NEW m \in Nodes, NEW key \in Nodes \X Paths
          PROVE  remoteActive[m][key]
                    - Cardinality(InFlight(hops, m, key) \ InFlight(hops', m, key)) \in Int
      <3>1. IsFiniteSet(InFlight(hops, m, key) \ InFlight(hops', m, key))
        BY FS_Subset, RoutingAssumption DEF InFlight
      <3>2. Cardinality(InFlight(hops, m, key) \ InFlight(hops', m, key)) \in Nat
        BY <3>1, FS_CardinalityType
      <3>. QED  BY <3>2 DEF TypeOK
    <2>2. remoteActive' = [m \in Nodes |-> IF m = n THEN NoneActive ELSE
             [key \in Nodes \X Paths |-> remoteActive[m][key]
                 - Cardinality(InFlight(hops, m, key) \ InFlight(hops', m, key))]]
      BY Zenon DEF Crash
    <2>3. ASSUME NEW m \in Nodes
          PROVE  [key \in Nodes \X Paths |-> remoteActive[m][key]
                    - Cardinality(InFlight(hops, m, key) \ InFlight(hops', m, key))]
                 \in [Nodes \X Paths -> Int]
      BY <2>1, Zenon
    <2>4. NoneActive \in [Nodes \X Paths -> Int]
      BY DEF NoneActive
    <2>. QED  BY <2>2, <2>3, <2>4, Zenon
  <1>7. /\ up' \subseteq Nodes /\ healthy' \subseteq registered' /\ registered' \subseteq Endpoints
        /\ pools' \subseteq Endpoints
        /\ best' = best /\ choice' = choice /\ pool' = pool
    BY DEF TypeOK, Crash
  <1>. QED  BY <1>2, <1>3, <1>4, <1>5, <1>6, <1>7, Zenon DEF TypeOK

LEMMA TypeStep ==
    ASSUME TypeOK, AllSound, [Next]_vars
    PROVE  TypeOK'
  <1>0. ASSUME NEW r \in Requests
        PROVE  phase[r] \in Handled \cup {"answered"} => at[r] \in Nodes
    BY DEF TypeOK
  <1>1. ASSUME NEW r \in Requests, NEW n \in Nodes, Arrive(r, n)
        PROVE  TypeOK'
    BY <1>1, Zenon DEF TypeOK, Arrive, Moves, registry, Phases, Handled
  <1>2. ASSUME NEW r \in Requests, FindLocal(r)
        PROVE  TypeOK'
    <2>1. best' \in [Requests -> Paths \cup {None}]
      BY <1>2, Zenon DEF TypeOK, FindLocal, Longest
    <2>2. /\ phase[r] = "arrived" /\ phase' = [phase EXCEPT ![r] = "collect"]
          /\ UNCHANGED <<up, registry, at, hops, choice, pool, answer, remoteActive>>
      BY <1>2 DEF FindLocal, Moves
    <2>. QED  BY <1>0, <2>1, <2>2, Zenon DEF TypeOK, registry, Phases, Handled
  <1>3. ASSUME NEW r \in Requests, HandleRequest(r)
        PROVE  TypeOK'
    <2>1. phase[r] = "collect"
      BY <1>3, Zenon DEF HandleRequest, Answered, Moves
    <2>2. at[r] \in Nodes /\ best[r] \in Paths \cup {None}
      BY <1>0, <2>1 DEF TypeOK, Handled
    <2>3. CASE Answered(r, "collect", "notFound")
      BY <2>2, <2>3, AnsweredType DEF Answers
    <2>4. ASSUME NEW c \in Candidates, Selects(r, c)
          PROVE  TypeOK'
      BY <2>2, <2>4, Zenon DEF Selects, TypeOK, Moves, registry, Phases, Handled
    <2>. QED  BY <1>3, <2>2, <2>3, <2>4, HandleRequestSelects
  <1>4. ASSUME NEW r \in Requests, SelectPool(r)
        PROVE  TypeOK'
    <2>1. at[r] \in Nodes
      BY <1>0, <1>4 DEF SelectPool, Handled
    <2>2. CASE Answered(r, "pool", "unavailable")
      BY <2>1, <2>2, AnsweredType DEF Answers
    <2>3. CASE ~Answered(r, "pool", "unavailable")
      <3>1. PICK e \in pools :
              /\ phase' = [phase EXCEPT ![r] = "endpoint"]
              /\ pool' = [pool EXCEPT ![r] = e]
              /\ UNCHANGED <<up, registry, at, hops, best, choice, answer, remoteActive>>
        BY <1>4, <2>3 DEF SelectPool, Moves
      <3>. QED  BY <2>1, <3>1, Zenon DEF TypeOK, registry, Phases, Handled
    <2>. QED  BY <2>2, <2>3
  <1>5. ASSUME NEW r \in Requests, GetEndpointByEpID(r)
        PROVE  TypeOK'
    <2>1. at[r] \in Nodes
      BY <1>0, <1>5 DEF GetEndpointByEpID, Answered, Moves, Handled
    <2>2. CASE Answered(r, "endpoint", "unavailable")
      BY <2>1, <2>2, AnsweredType DEF Answers
    <2>3. CASE ~Answered(r, "endpoint", "unavailable")
      BY <1>5, <2>1, <2>3, Zenon DEF GetEndpointByEpID, TypeOK, Moves, registry, Phases, Handled
    <2>. QED  BY <2>2, <2>3
  <1>6. ASSUME NEW r \in Requests, HandleLocalRequestWithError(r)
        PROVE  TypeOK'
    <2>1. at[r] \in Nodes
      BY <1>0, <1>6 DEF HandleLocalRequestWithError, Answered, Moves, Handled
    <2>. QED  BY <1>6, <2>1, AnsweredType, Zenon DEF HandleLocalRequestWithError, Answers
  <1>7. ASSUME NEW r \in Requests, IncRemoteActive(r)
        PROVE  TypeOK'
    <2>1. phase[r] = "forward"
      BY <1>7 DEF IncRemoteActive, Answered, Moves
    <2>2. at[r] \in Nodes /\ choice[r] \in Candidates
      BY <1>0, <2>1 DEF AllSound, Sound, Handled
    <2>3. CASE Answered(r, "forward", "loop")
      BY <2>2, <2>3, AnsweredType DEF Answers
    <2>4. CASE ~Answered(r, "forward", "loop")
      <3> DEFINE hop == [from |-> at[r], to |-> choice[r].node, path |-> choice[r].path]
      <3>1. hop \in Hops
        BY <2>2, Zenon DEF Candidates, Hops
      <3>2. /\ phase' = [phase EXCEPT ![r] = "sent"]
            /\ hops' = [hops EXCEPT ![r] = Append(@, hop)]
            /\ remoteActive' = Count(remoteActive, hop, 1)
            /\ UNCHANGED <<up, registry, at, best, choice, pool, answer>>
        BY <1>7, <2>4 DEF IncRemoteActive, Moves
      <3> HIDE DEF hop
      <3>3. remoteActive' \in [Nodes -> [Nodes \X Paths -> Int]]
        <4>1. 1 \in Int
          OBVIOUS
        <4>. QED  BY <3>2, <4>1, CountType, Zenon DEF TypeOK
      <3>4. hops' \in [Requests -> Seq(Hops)]
        BY <3>1, <3>2 DEF TypeOK
      <3>. QED  BY <2>2, <3>2, <3>3, <3>4, Zenon DEF TypeOK, registry, Phases, Handled
    <2>. QED  BY <2>3, <2>4
  <1>8. ASSUME NEW r \in Requests, Deliver(r)
        PROVE  TypeOK'
    <2>1. LastHop(r).to \in Nodes
      BY <1>8, Zenon DEF Deliver, TypeOK
    <2>. QED  BY <1>8, <2>1, Zenon DEF Deliver, TypeOK, Moves, registry, Phases, Handled
  <1>9. ASSUME NEW r \in Requests, DoFails(r)
        PROVE  TypeOK'
    <2>1. hops[r] # <<>>
      BY <1>9, Zenon DEF DoFails, AllSound, Sound
    <2>. QED  BY <1>9, <2>1, BackType DEF DoFails, Answers
  <1>10. ASSUME NEW r \in Requests, Relay(r)
         PROVE  TypeOK'
    <2>1. CASE hops[r] # <<>> /\ Back(r, "answered", answer[r])
      BY <2>1, BackType, Zenon DEF TypeOK
    <2>2. CASE ~(hops[r] # <<>> /\ Back(r, "answered", answer[r]))
      BY <1>10, <2>2, Zenon DEF Relay, TypeOK, Moves, registry, Phases, Handled
    <2>. QED  BY <2>1, <2>2
  <1>11. ASSUME NEW r \in Requests, Cancel(r)
         PROVE  TypeOK'
    BY <1>0, <1>11, AnsweredType DEF Cancel, Answers
  <1>12. ASSUME NEW n \in Nodes, Restart(n)
         PROVE  TypeOK'
    BY <1>12, Zenon DEF Restart, TypeOK, registry, requests
  <1>13. ASSUME NEW e \in Changing,
                \/ AddEndpoint(e) \/ CreatePool(e) \/ UpdateHeartbeat(e)
                \/ RemoveEndpoint(e) \/ RemovePool(e)
         PROVE  TypeOK'
    <2>1. e \in Endpoints
      BY RoutingAssumption
    <2>2. up' = up /\ requests' = requests /\ remoteActive' = remoteActive
      BY <1>13 DEF AddEndpoint, CreatePool, UpdateHeartbeat, RemoveEndpoint, RemovePool
    <2>3. /\ healthy' \subseteq registered' /\ registered' \subseteq Endpoints
          /\ pools' \subseteq Endpoints
      BY <1>13, <2>1 DEF TypeOK, AddEndpoint, CreatePool, UpdateHeartbeat, RemoveEndpoint,
                         RemovePool
    <2>. QED  BY <2>2, <2>3, Zenon DEF TypeOK, requests
  <1>14. CASE UNCHANGED vars
    BY <1>14, Zenon DEF vars, registry, requests, TypeOK
  <1>15. CASE Next
    BY <1>1, <1>2, <1>3, <1>4, <1>5, <1>6, <1>7, <1>8, <1>9, <1>10, <1>11, <1>12, <1>13,
       <1>15, CrashType, Zenon DEF Next, Handle
  <1>. QED  BY <1>14, <1>15

-----------------------------------------------------------------------------
(* Every request stays sound.                                              *)

LEMMA OthersStay ==
    ASSUME AllSound, NEW r \in Requests,
           \A q \in Requests \ {r} : /\ phase'[q] = phase[q] /\ hops'[q] = hops[q]
                                     /\ at'[q] = at[q] /\ choice'[q] = choice[q],
           Sound(phase'[r], hops'[r], at'[r], choice'[r])
    PROVE  AllSound'
  <1> SUFFICES ASSUME NEW q \in Requests
               PROVE  Sound(phase'[q], hops'[q], at'[q], choice'[q])
    BY DEF AllSound
  <1>1. CASE q = r
    BY <1>1
  <1>2. CASE q # r
    BY <1>2 DEF AllSound
  <1>. QED  BY <1>1, <1>2, Zenon

\* A phase that says nothing more of the hops.
LEMMA AnsweredSound ==
    ASSUME NEW ph, NEW h, NEW n, NEW c, Sound(ph, h, n, c), NEW m
    PROVE  Sound("answered", h, m, c)
  BY DEF Sound, Active

LEMMA AnsweredStays ==
    ASSUME TypeOK, AllSound, NEW r \in Requests, NEW from, NEW what, Answered(r, from, what)
    PROVE  AllSound'
  <1>1. /\ \A q \in Requests \ {r} : phase'[q] = phase[q]
        /\ phase'[r] = "answered" /\ hops' = hops /\ at' = at /\ choice' = choice
    BY DEF TypeOK, Answered, Moves
  <1>2. Sound(phase'[r], hops'[r], at'[r], choice'[r])
    BY <1>1, AnsweredSound DEF AllSound
  <1>. QED  BY <1>1, <1>2, OthersStay

LEMMA BackStays ==
    ASSUME TypeOK, AllSound, NEW r \in Requests, NEW from, NEW what,
           hops[r] # <<>>, Back(r, from, what)
    PROVE  AllSound'
  <1> DEFINE h == hops[r]
             g == SubSeq(h, 1, Len(h) - 1)
  <1>1. h \in Seq(Hops) /\ Len(h) \in 1..Len(h)
    BY LastInHops DEF TypeOK
  <1>2. g \in Seq(Hops) /\ Prefix(g, h)
    BY <1>1, InitialPart
  <1>3. /\ \A q \in Requests \ {r} : phase'[q] = phase[q] /\ hops'[q] = hops[q] /\ at'[q] = at[q]
        /\ phase'[r] = "answered" /\ hops'[r] = g /\ choice' = choice
    BY DEF TypeOK, Back, Moves
  <1>4. Sound(phase[r], h, at[r], choice[r])
    BY DEF AllSound
  <1> HIDE DEF g, h
  <1>5. /\ \A i \in 1..Len(g), j \in 1..Len(g) : j <= i => g[i].to # g[j].from
        /\ \A i \in 1..Len(g), j \in 1..Len(g) : g[i].from = g[j].from => i = j
    BY <1>1, <1>2, <1>4, PrefixSound, Zenon
  <1>6. Sound("answered", g, at'[r], choice[r])
    BY <1>5, Zenon DEF Sound, Active
  <1>. QED  BY <1>3, <1>6, OthersStay

LEMMA AppendSound ==
    ASSUME NEW h \in Seq(Hops), NEW n, NEW c, Sound("forward", h, n, c),
           NEW hop \in Hops, hop.from = n, hop.to = c.node
    PROVE  Sound("sent", Append(h, hop), n, c)
  <1> DEFINE g == Append(h, hop)
             k == Len(h) + 1
  <1>1. /\ g # <<>> /\ Len(g) = k /\ g[k] = hop /\ Len(h) \in Nat
        /\ \A i \in 1..Len(h) : g[i] = h[i]
    BY AppendProperties
  <1> HIDE DEF g
  <1>2. /\ \A i \in 1..Len(h), j \in 1..Len(h) : j <= i => h[i].to # h[j].from
        /\ \A i \in 1..Len(h), j \in 1..Len(h) : h[i].from = h[j].from => i = j
        /\ \A i \in 1..Len(h) : h[i].from # n /\ h[i].from # c.node
        /\ c.node # n
    BY DEF Sound, Active
  <1>3. \A i \in 1..k : i = k \/ i \in 1..Len(h)
    BY <1>1
  <1>4. ASSUME NEW i \in 1..k, NEW j \in 1..k
        PROVE  /\ j <= i => g[i].to # g[j].from
               /\ g[i].from = g[j].from => i = j
    <2>1. CASE i \in 1..Len(h) /\ j \in 1..Len(h)
      BY <1>1, <1>2, <2>1, ZenonT(60)
    <2>2. CASE i = k /\ j = k
      BY <1>1, <1>2, <2>2, Zenon
    <2>3. CASE i = k /\ j \in 1..Len(h)
      BY <1>1, <1>2, <2>3, Zenon
    <2>4. CASE i \in 1..Len(h) /\ j = k
      BY <1>1, <1>2, <2>4
    <2>. QED  BY <1>3, <2>1, <2>2, <2>3, <2>4
  <1>5. Sound("sent", g, n, c)
    BY <1>1, <1>4 DEF Sound, Active
  <1>. QED  BY <1>5 DEF g

LEMMA CrashSound ==
    ASSUME TypeOK, AllSound, NEW n \in Nodes, Crash(n)
    PROVE  AllSound'
  <1> SUFFICES ASSUME NEW r \in Requests
               PROVE  Sound(phase'[r], hops'[r], at'[r], choice'[r])
    BY DEF AllSound
  <1>1. hops[r] \in Seq(Hops) /\ Sound(phase[r], hops[r], at[r], choice[r])
    BY DEF TypeOK, AllSound
  <1>2. Kept(r, n) \in Seq(Hops) /\ Prefix(Kept(r, n), hops[r])
    BY <1>1, KeptPrefix, Zenon DEF Sound
  <1>3. /\ hops'[r] = IF TakesPart(r, n) THEN Kept(r, n) ELSE hops[r]
        /\ phase'[r] = IF ~TakesPart(r, n) THEN phase[r]
                       ELSE IF Kept(r, n) = <<>> THEN "done" ELSE "broken"
        /\ at'[r] = IF TakesPart(r, n) /\ Kept(r, n) # <<>>
                    THEN Kept(r, n)[Len(Kept(r, n))].from ELSE at[r]
        /\ choice' = choice
    BY Zenon DEF Crash
  <1>4. CASE ~TakesPart(r, n)
    BY <1>1, <1>3, <1>4, Zenon
  <1>5. CASE TakesPart(r, n)
    <2> DEFINE g == Kept(r, n)
    <2>1. /\ \A i \in 1..Len(g), j \in 1..Len(g) : j <= i => g[i].to # g[j].from
          /\ \A i \in 1..Len(g), j \in 1..Len(g) : g[i].from = g[j].from => i = j
      BY <1>1, <1>2, PrefixSound, Zenon
    <2>2. hops'[r] = g /\ phase'[r] = (IF g = <<>> THEN "done" ELSE "broken")
      BY <1>3, <1>5, Zenon
    <2> HIDE DEF g
    <2>. QED  BY <2>1, <2>2, Zenon DEF Sound, Active
  <1>. QED  BY <1>4, <1>5, Zenon

LEMMA SoundStep ==
    ASSUME TypeOK, AllSound, [Next]_vars
    PROVE  AllSound'
  <1>0. ASSUME NEW r \in Requests
        PROVE  hops[r] \in Seq(Hops) /\ Sound(phase[r], hops[r], at[r], choice[r])
    BY Zenon DEF TypeOK, AllSound
  <1>t. /\ phase \in [Requests -> Phases] /\ at \in [Requests -> Nodes \cup {None}]
        /\ hops \in [Requests -> Seq(Hops)] /\ choice \in [Requests -> Candidates \cup {None}]
    BY DEF TypeOK
  <1>1. ASSUME NEW r \in Requests, NEW n \in Nodes, Arrive(r, n)
        PROVE  AllSound'
    <2>1. hops[r] = <<>>
      BY <1>0, <1>1, Zenon DEF Arrive, Moves, Sound
    <2>2. /\ \A q \in Requests \ {r} : phase'[q] = phase[q] /\ at'[q] = at[q]
          /\ phase'[r] = "arrived" /\ at'[r] = n /\ hops' = hops /\ choice' = choice
      BY <1>t, <1>1 DEF Arrive, Moves
    <2>3. Sound("arrived", <<>>, n, choice[r])
      BY DEF Sound, Active
    <2>. QED  BY <2>1, <2>2, <2>3, OthersStay, Zenon
  <1>2. ASSUME NEW r \in Requests, NEW from \in Active, NEW to \in Active \ {"forward"},
               Moves(r, from, to), hops' = hops, at' = at, choice' = choice
        PROVE  AllSound'
    <2>1. /\ \A q \in Requests \ {r} : phase'[q] = phase[q]
          /\ phase[r] \in Active /\ phase'[r] = to
      BY <1>t, <1>2 DEF Moves
    <2>2. Sound(to, hops[r], at[r], choice[r])
      BY <1>0, <1>2, <2>1, Zenon DEF Sound, Active
    <2>. QED  BY <1>2, <2>1, <2>2, OthersStay
  <1>3. ASSUME NEW r \in Requests, HandleRequest(r)
        PROVE  AllSound'
    <2>1. phase[r] = "collect"
      BY <1>3, Zenon DEF HandleRequest, Answered, Moves
    <2>2. at[r] \in Nodes /\ best[r] \in Paths \cup {None}
      BY <2>1 DEF TypeOK, Handled
    <2>3. ASSUME NEW c \in Candidates, Selects(r, c), c.node # at[r] => c.node \notin Seen(r)
          PROVE  AllSound'
      <3>1. /\ \A q \in Requests \ {r} : phase'[q] = phase[q] /\ choice'[q] = choice[q]
            /\ phase'[r] = (IF c.node = at[r] THEN "pool" ELSE "forward")
            /\ choice'[r] = c /\ hops' = hops /\ at' = at
        BY <1>t, <2>3 DEF Selects, Moves
      <3>2. c.node # at[r] => \A i \in 1..Len(hops[r]) : hops[r][i].from # c.node
        BY <2>3 DEF Seen
      <3>3. Sound(phase'[r], hops[r], at[r], c)
        BY <1>0, <2>1, <3>1, <3>2, Zenon DEF Sound, Active
      <3>. QED  BY <3>1, <3>3, OthersStay, Zenon
    <2>. QED  BY <1>3, <2>2, <2>3, AnsweredStays, HandleRequestSelects, Zenon
  <1>4. ASSUME NEW r \in Requests, FindLocal(r)
        PROVE  AllSound'
    BY <1>2, <1>4, Zenon DEF FindLocal, Active
  <1>5. ASSUME NEW r \in Requests,
               SelectPool(r) \/ GetEndpointByEpID(r) \/ HandleLocalRequestWithError(r)
        PROVE  AllSound'
    <2>1. CASE SelectPool(r)
      <3>1. \/ Answered(r, "pool", "unavailable")
            \/ Moves(r, "pool", "endpoint") /\ hops' = hops /\ at' = at /\ choice' = choice
        BY <2>1, Zenon DEF SelectPool
      <3>. QED  BY <1>2, <3>1, AnsweredStays DEF Active
    <2>2. CASE GetEndpointByEpID(r)
      BY <1>2, <2>2, AnsweredStays DEF GetEndpointByEpID, Active
    <2>3. CASE HandleLocalRequestWithError(r)
      BY <2>3, AnsweredStays DEF HandleLocalRequestWithError
    <2>. QED  BY <1>5, <2>1, <2>2, <2>3
  <1>6. ASSUME NEW r \in Requests, IncRemoteActive(r)
        PROVE  AllSound'
    <2>1. CASE Answered(r, "forward", "loop")
      BY <2>1, AnsweredStays
    <2>2. CASE ~Answered(r, "forward", "loop")
      <3> DEFINE hop == [from |-> at[r], to |-> choice[r].node, path |-> choice[r].path]
      <3>1. /\ \A q \in Requests \ {r} : phase'[q] = phase[q] /\ hops'[q] = hops[q]
            /\ phase[r] = "forward" /\ phase'[r] = "sent" /\ hops'[r] = Append(hops[r], hop)
            /\ at' = at /\ choice' = choice
        BY <1>t, <1>6, <2>2, Zenon DEF IncRemoteActive, Moves
      <3>2. hop \in Hops
        <4>1. at[r] \in Nodes /\ choice[r] \in Candidates
          BY <1>0, <3>1, Zenon DEF TypeOK, Sound, Handled
        <4>. QED  BY <4>1, Zenon DEF Candidates, Hops
      <3>3. Sound("sent", Append(hops[r], hop), at[r], choice[r])
        BY <1>0, <3>1, <3>2, AppendSound, Zenon
      <3>. QED  BY <3>1, <3>3, OthersStay, Zenon
    <2>. QED  BY <2>1, <2>2
  <1>7. ASSUME NEW r \in Requests, Deliver(r)
        PROVE  AllSound'
    <2>1. /\ \A q \in Requests \ {r} : phase'[q] = phase[q] /\ at'[q] = at[q]
          /\ phase[r] = "sent" /\ phase'[r] = "arrived" /\ at'[r] = LastHop(r).to
          /\ hops' = hops /\ choice' = choice
      BY <1>t, <1>7 DEF Deliver, Moves
    <2>2. hops[r] # <<>>
      BY <1>0, <2>1, Zenon DEF Sound
    <2>3. Len(hops[r]) \in 1..Len(hops[r]) /\ \A j \in 1..Len(hops[r]) : j <= Len(hops[r])
      BY <1>0, <2>2, LastInHops
    <2>4. Sound("arrived", hops[r], LastHop(r).to, choice[r])
      BY <1>0, <2>2, <2>3, Zenon DEF Sound, Active, LastHop
    <2>. QED  BY <2>1, <2>4, OthersStay, Zenon
  <1>8. ASSUME NEW r \in Requests, DoFails(r) \/ Relay(r) \/ Cancel(r)
        PROVE  AllSound'
    <2>1. CASE DoFails(r)
      <3>1. hops[r] # <<>>
        BY <1>0, <2>1, Zenon DEF DoFails, Sound
      <3>. QED  BY <2>1, <3>1, BackStays DEF DoFails
    <2>2. CASE Relay(r)
      <3>1. CASE hops[r] # <<>> /\ Back(r, "answered", answer[r])
        BY <3>1, BackStays, Zenon
      <3>2. CASE ~(hops[r] # <<>> /\ Back(r, "answered", answer[r]))
        <4>1. /\ \A q \in Requests \ {r} : phase'[q] = phase[q]
              /\ hops[r] = <<>> /\ phase'[r] = "done"
              /\ hops' = hops /\ at' = at /\ choice' = choice
          BY <1>t, <2>2, <3>2 DEF Relay, Moves
        <4>2. Sound("done", <<>>, at[r], choice[r])
          BY DEF Sound, Active
        <4>. QED  BY <4>1, <4>2, OthersStay
      <3>. QED  BY <3>1, <3>2, Zenon
    <2>3. CASE Cancel(r)
      BY <2>3, AnsweredStays DEF Cancel
    <2>. QED  BY <1>8, <2>1, <2>2, <2>3
  <1>9. ASSUME phase' = phase, hops' = hops, at' = at, choice' = choice
        PROVE  AllSound'
    BY <1>9 DEF AllSound
  <1>10. ASSUME NEW n \in Nodes, Restart(n)
         PROVE  AllSound'
    BY <1>9, <1>10 DEF Restart, requests
  <1>11. ASSUME NEW e \in Changing,
                \/ AddEndpoint(e) \/ CreatePool(e) \/ UpdateHeartbeat(e)
                \/ RemoveEndpoint(e) \/ RemovePool(e)
         PROVE  AllSound'
    BY <1>9, <1>11, Zenon
       DEF AddEndpoint, CreatePool, UpdateHeartbeat, RemoveEndpoint, RemovePool, requests
  <1>12. CASE UNCHANGED vars
    BY <1>9, <1>12 DEF vars, requests
  <1>13. CASE Next
    BY <1>1, <1>3, <1>4, <1>5, <1>6, <1>7, <1>8, <1>10, <1>11, <1>13, CrashSound, Zenon
    DEF Next, Handle
  <1>. QED  BY <1>12, <1>13

-----------------------------------------------------------------------------
(* The counters.                                                           *)

LEMMA InFlightFinite ==
    ASSUME NEW hs, NEW n, NEW key
    PROVE  IsFiniteSet(InFlight(hs, n, key)) /\ InFlight(hs, n, key) \subseteq Requests
  BY FS_Subset, RoutingAssumption, Zenon DEF InFlight

Has(h, n, key) == \E i \in 1..Len(h) : h[i].from = n /\ key = <<h[i].to, h[i].path>>

LEMMA BalancedIncrement ==
    ASSUME TypeOK, Balanced, NEW r \in Requests, NEW hop \in Hops,
           \A i \in 1..Len(hops[r]) : hops[r][i].from # hop.from,
           hops' = [hops EXCEPT ![r] = Append(@, hop)],
           remoteActive' = Count(remoteActive, hop, 1)
    PROVE  Balanced'
  <1> SUFFICES ASSUME NEW n \in Nodes, NEW key \in Nodes \X Paths
               PROVE  remoteActive'[n][key] = Cardinality(InFlight(hops', n, key))
    BY Zenon DEF Balanced
  <1> DEFINE before == InFlight(hops, n, key)
             same == n = hop.from /\ key = <<hop.to, hop.path>>
  <1>1. remoteActive[n][key] = Cardinality(before)
    BY DEF Balanced
  <1>2. remoteActive'[n][key] = IF same THEN remoteActive[n][key] + 1 ELSE remoteActive[n][key]
    BY DEF Count
  <1>3. \A q \in Requests : Has(hops'[q], n, key) <=> Has(hops[q], n, key) \/ (q = r /\ same)
    <2> TAKE q \in Requests
    <2>1. CASE q # r
      BY <2>1, Zenon DEF TypeOK
    <2>2. CASE q = r
      <3> DEFINE h == hops[r]
                 g == Append(h, hop)
      <3>1. hops'[r] = g /\ h \in Seq(Hops)
        BY Zenon DEF TypeOK
      <3>2. /\ Len(g) = Len(h) + 1 /\ g[Len(h) + 1] = hop /\ Len(h) \in Nat
            /\ \A i \in 1..Len(h) : g[i] = h[i]
        BY <3>1, AppendProperties
      <3> HIDE DEF g, h
      <3>3. \A i \in 1..Len(g) : i = Len(h) + 1 \/ i \in 1..Len(h)
        BY <3>2
      <3>4. Len(h) + 1 \in 1..Len(g) /\ 1..Len(h) \subseteq 1..Len(g)
        BY <3>2
      <3>5. Has(g, n, key) <=> Has(h, n, key) \/ same
        BY <3>2, <3>3, <3>4, Zenon DEF Has
      <3>. QED  BY <2>2, <3>1, <3>5, Zenon DEF h
    <2>. QED  BY <2>1, <2>2, Zenon
  <1>4. before = {q \in Requests : Has(hops[q], n, key)}
    BY Zenon DEF InFlight, Has
  <1>5. InFlight(hops', n, key) = {q \in Requests : Has(hops'[q], n, key)}
    BY DEF InFlight, Has
  <1>6. CASE same
    <2>1. InFlight(hops', n, key) = before \cup {r}
      BY <1>3, <1>4, <1>5, <1>6, Zenon
    <2>2. r \notin before
      BY <1>4, <1>6, Zenon DEF Has
    <2>3. Cardinality(before \cup {r}) = Cardinality(before) + 1
      BY <2>2, InFlightFinite, FS_AddElement, Zenon
    <2>. QED  BY <1>1, <1>2, <1>6, <2>1, <2>3, Zenon
  <1>7. CASE ~same
    <2>1. InFlight(hops', n, key) = before
      BY <1>3, <1>4, <1>5, <1>7, Zenon
    <2>. QED  BY <1>1, <1>2, <1>7, <2>1, Zenon
  <1>. QED  BY <1>6, <1>7, Zenon

LEMMA BalancedDecrement ==
    ASSUME TypeOK, AllSound, Balanced, NEW r \in Requests, NEW from, NEW what,
           hops[r] # <<>>, Back(r, from, what)
    PROVE  Balanced'
  <1> SUFFICES ASSUME NEW n \in Nodes, NEW key \in Nodes \X Paths
               PROVE  remoteActive'[n][key] = Cardinality(InFlight(hops', n, key))
    BY Zenon DEF Balanced
  <1> DEFINE before == InFlight(hops, n, key)
             hop == LastHop(r)
             same == n = hop.from /\ key = <<hop.to, hop.path>>
  <1>1. remoteActive[n][key] = Cardinality(before)
    BY Zenon DEF Balanced
  <1>2. remoteActive'[n][key] = IF same THEN remoteActive[n][key] + -1 ELSE remoteActive[n][key]
    BY Zenon DEF Back, Count
  <1>3. \A q \in Requests : Has(hops'[q], n, key) <=> Has(hops[q], n, key) /\ ~(q = r /\ same)
    <2> TAKE q \in Requests
    <2>0. hops' = [hops EXCEPT ![r] = SubSeq(@, 1, Len(@) - 1)]
      BY DEF Back
    <2>1. CASE q # r
      BY <2>0, <2>1, Zenon DEF TypeOK
    <2>2. CASE q = r
      <3> DEFINE h == hops[r]
                 k == Len(h)
                 g == SubSeq(h, 1, k - 1)
      <3>1. hops'[r] = g /\ h \in Seq(Hops)
        BY <2>0, Zenon DEF TypeOK
      <3>2. k \in 1..Len(h) /\ hop = h[k]
        BY <3>1, LastInHops, Zenon DEF LastHop
      <3>3. Len(g) = k - 1 /\ \A i \in 1..(k - 1) : g[i] = h[i]
        BY <3>1, <3>2, InitialPart, Zenon
      <3>4. \A i \in 1..Len(h), j \in 1..Len(h) : h[i].from = h[j].from => i = j
        BY Zenon DEF AllSound, Sound
      <3> HIDE DEF g, h, hop
      <3>5. \A i \in 1..Len(h) : i = k \/ i \in 1..(k - 1)
        BY <3>2
      <3>6. 1..(k - 1) \subseteq 1..Len(h) /\ k \notin 1..(k - 1)
        BY <3>2
      <3> HIDE DEF k
      <3>7. Has(g, n, key) <=> Has(h, n, key) /\ ~same
        BY <3>2, <3>3, <3>4, <3>5, <3>6, Zenon DEF Has
      <3>. QED  BY <2>2, <3>1, <3>7, Zenon DEF h
    <2>. QED  BY <2>1, <2>2, Zenon
  <1>4. before = {q \in Requests : Has(hops[q], n, key)}
    BY Zenon DEF InFlight, Has
  <1>5. InFlight(hops', n, key) = {q \in Requests : Has(hops'[q], n, key)}
    BY DEF InFlight, Has
  <1>6. CASE same
    <2>1. InFlight(hops', n, key) = before \ {r}
      BY <1>3, <1>4, <1>5, <1>6, Zenon
    <2>2. r \in before
      <3>1. hops[r] \in Seq(Hops)
        BY Zenon DEF TypeOK
      <3>2. Len(hops[r]) \in 1..Len(hops[r])
        BY <3>1, LastInHops
      <3>. QED  BY <1>4, <1>6, <3>2, Zenon DEF Has, LastHop
    <2>3. Cardinality(before \ {r}) = Cardinality(before) + -1
      <3>1. Cardinality(before \ {r}) = Cardinality(before) - 1 /\ Cardinality(before) \in Nat
        BY <2>2, InFlightFinite, FS_RemoveElement, FS_CardinalityType, Zenon
      <3>. QED  BY <3>1, Zenon
    <2>. QED  BY <1>1, <1>2, <1>6, <2>1, <2>3, Zenon
  <1>7. CASE ~same
    <2>1. InFlight(hops', n, key) = before
      BY <1>3, <1>4, <1>5, <1>7, Zenon
    <2>. QED  BY <1>1, <1>2, <1>7, <2>1, Zenon
  <1>. QED  BY <1>6, <1>7, Zenon

LEMMA BalancedCrash ==
    ASSUME TypeOK, AllSound, Balanced, NEW n \in Nodes, Crash(n)
    PROVE  Balanced'
  <1> SUFFICES ASSUME NEW m \in Nodes, NEW key \in Nodes \X Paths
               PROVE  remoteActive'[m][key] = Cardinality(InFlight(hops', m, key))
    BY Zenon DEF Balanced
  <1> DEFINE before == InFlight(hops, m, key)
             after == InFlight(hops', m, key)
  <1>1. remoteActive'[m][key] = IF m = n THEN 0
                                ELSE remoteActive[m][key] - Cardinality(before \ after)
    BY Zenon DEF Crash, NoneActive
  <1>2. ASSUME NEW r \in Requests
        PROVE  /\ Len(hops'[r]) \in Nat /\ Prefix(hops'[r], hops[r]) /\ Len(hops[r]) \in Nat
               /\ \A i \in 1..Len(hops'[r]) : hops'[r][i].from # n
    <2>1. hops[r] \in Seq(Hops) /\ Sound(phase[r], hops[r], at[r], choice[r])
      BY Zenon DEF TypeOK, AllSound
    <2>2. /\ Kept(r, n) \in Seq(Hops) /\ Prefix(Kept(r, n), hops[r])
          /\ \A i \in 1..Len(Kept(r, n)) : Kept(r, n)[i].from # n
      BY <2>1, KeptPrefix, Zenon DEF Sound
    <2>3. hops'[r] = IF TakesPart(r, n) THEN Kept(r, n) ELSE hops[r]
      BY Zenon DEF Crash
    <2>4. CASE TakesPart(r, n)
      <3>1. hops'[r] = Kept(r, n)
        BY <2>3, <2>4, Zenon
      <3>2. Len(Kept(r, n)) \in Nat /\ Len(hops[r]) \in Nat
        BY <2>1, <2>2
      <3>. QED  BY <2>2, <3>1, <3>2, Zenon
    <2>5. CASE ~TakesPart(r, n)
      <3>1. hops[r] = <<>> \/ n \notin Seen(r)
        <4>1. phase[r] \in Phases
          BY Zenon DEF TypeOK
        <4>2. CASE phase[r] \in {"idle", "done"}
          BY <2>1, <4>2, Zenon DEF Sound
        <4>3. CASE phase[r] \notin {"idle", "done"}
          BY <2>5, <4>1, <4>3, Zenon DEF TakesPart, Phases
        <4>. QED  BY <4>2, <4>3, Zenon
      <3>2. \A i \in 1..Len(hops[r]) : hops[r][i].from # n
        BY <3>1 DEF Seen
      <3>. QED  BY <2>1, <2>3, <2>5, <3>2 DEF Prefix
    <2>. QED  BY <2>4, <2>5, Zenon
  <1>3. after \subseteq before
    <2> SUFFICES ASSUME NEW r \in after
                 PROVE  r \in before
      BY Zenon
    <2>1. r \in Requests
      BY DEF InFlight
    <2>2. PICK i \in 1..Len(hops'[r]) :
            hops'[r][i].from = m /\ key = <<hops'[r][i].to, hops'[r][i].path>>
      BY DEF InFlight
    <2>3. i \in 1..Len(hops[r]) /\ hops[r][i] = hops'[r][i]
      BY <1>2, <2>1, <2>2 DEF Prefix
    <2>. QED  BY <2>1, <2>2, <2>3, Zenon DEF InFlight
  <1>4. CASE m = n
    <2>1. after = {}
      BY <1>2, <1>4, Zenon DEF InFlight
    <2>2. Cardinality(after) = 0
      BY <2>1, FS_EmptySet
    <2>. QED  BY <1>1, <1>4, <2>2, Zenon
  <1>5. CASE m # n
    <2>1. IsFiniteSet(before) /\ remoteActive[m][key] = Cardinality(before)
      BY InFlightFinite, Zenon DEF Balanced
    <2>2. /\ IsFiniteSet(after)
          /\ Cardinality(before) \in Nat /\ Cardinality(after) \in Nat
      BY <1>3, <2>1, FS_Subset, FS_CardinalityType, Zenon
    <2>3. Cardinality(before \ after) = Cardinality(before) - Cardinality(before \cap after)
      BY <2>1, <2>2, FS_Difference, Zenon
    <2>4. before \cap after = after
      BY <1>3, Zenon
    <2>5. Cardinality(before \ after) = Cardinality(before) - Cardinality(after)
      BY <2>3, <2>4, Zenon
    <2>6. remoteActive'[m][key] = Cardinality(before) - Cardinality(before \ after)
      BY <1>1, <1>5, <2>1, Zenon
    <2>7. ASSUME NEW x \in Nat, NEW y \in Nat, NEW d, d = x - y
          PROVE  x - d = y
      BY <2>7
    <2>8. Cardinality(before) - Cardinality(before \ after) = Cardinality(after)
      BY <2>2, <2>5, <2>7, Zenon
    <2>. QED  BY <2>6, <2>8, Zenon
  <1>. QED  BY <1>4, <1>5, Zenon

LEMMA BalancedStep ==
    ASSUME TypeOK, AllSound, Balanced, [Next]_vars
    PROVE  Balanced'
  <1>1. ASSUME hops' = hops, remoteActive' = remoteActive
        PROVE  Balanced'
    BY <1>1 DEF Balanced, InFlight
  <1>2. ASSUME NEW r \in Requests, IncRemoteActive(r)
        PROVE  Balanced'
    <2>1. CASE LoopDetected(r)
      BY <1>1, <1>2, <2>1, Zenon DEF IncRemoteActive, Answered
    <2>2. CASE ~LoopDetected(r)
      <3> DEFINE hop == [from |-> at[r], to |-> choice[r].node, path |-> choice[r].path]
      <3>1. /\ phase[r] = "forward" /\ hops' = [hops EXCEPT ![r] = Append(@, hop)]
            /\ remoteActive' = Count(remoteActive, hop, 1)
        BY <1>2, <2>2, Zenon DEF IncRemoteActive, Moves
      <3>2. /\ at[r] \in Nodes /\ choice[r] \in Candidates
            /\ \A i \in 1..Len(hops[r]) : hops[r][i].from # at[r]
        BY <3>1, Zenon DEF TypeOK, AllSound, Sound, Handled, Active
      <3>3. hop \in Hops /\ hop.from = at[r]
        BY <3>2, Zenon DEF Candidates, Hops
      <3> HIDE DEF hop
      <3>. QED  BY <3>1, <3>2, <3>3, BalancedIncrement, Zenon
    <2>. QED  BY <2>1, <2>2
  <1>3. ASSUME NEW r \in Requests, DoFails(r)
        PROVE  Balanced'
    <2>1. hops[r] # <<>>
      BY <1>3, Zenon DEF DoFails, AllSound, Sound
    <2>. QED  BY <1>3, <2>1, BalancedDecrement DEF DoFails
  <1>4. ASSUME NEW r \in Requests, Relay(r)
        PROVE  Balanced'
    <2>1. CASE hops[r] # <<>> /\ Back(r, "answered", answer[r])
      BY <2>1, BalancedDecrement, Zenon
    <2>2. CASE ~(hops[r] # <<>> /\ Back(r, "answered", answer[r]))
      BY <1>1, <1>4, <2>2, Zenon DEF Relay
    <2>. QED  BY <2>1, <2>2, Zenon
  <1>5. ASSUME NEW r \in Requests,
               \/ FindLocal(r) \/ HandleRequest(r) \/ SelectPool(r) \/ GetEndpointByEpID(r)
               \/ HandleLocalRequestWithError(r) \/ Deliver(r) \/ Cancel(r)
        PROVE  Balanced'
    <2>1. hops' = hops /\ remoteActive' = remoteActive
      BY <1>5, Zenon DEF FindLocal, HandleRequest, SelectPool, GetEndpointByEpID,
           HandleLocalRequestWithError, Deliver, Cancel, Answered
    <2>. QED  BY <1>1, <2>1
  <1>6. ASSUME NEW r \in Requests, NEW n \in Nodes, Arrive(r, n)
        PROVE  Balanced'
    BY <1>1, <1>6 DEF Arrive
  <1>7. ASSUME NEW n \in Nodes, Restart(n)
        PROVE  Balanced'
    BY <1>1, <1>7 DEF Restart, requests
  <1>8. ASSUME NEW e \in Changing,
               \/ AddEndpoint(e) \/ CreatePool(e) \/ UpdateHeartbeat(e)
               \/ RemoveEndpoint(e) \/ RemovePool(e)
        PROVE  Balanced'
    BY <1>1, <1>8, Zenon
       DEF AddEndpoint, CreatePool, UpdateHeartbeat, RemoveEndpoint, RemovePool, requests
  <1>9. CASE UNCHANGED vars
    BY <1>1, <1>9 DEF vars, requests
  <1>10. CASE Next
    BY <1>2, <1>3, <1>4, <1>5, <1>6, <1>7, <1>8, <1>10, BalancedCrash, Zenon DEF Next, Handle
  <1>. QED  BY <1>9, <1>10, Zenon

-----------------------------------------------------------------------------
LEMMA InitSound == Init => TypeOK /\ AllSound /\ Balanced
  <1> SUFFICES ASSUME Init  PROVE TypeOK /\ AllSound /\ Balanced
    OBVIOUS
  <1>1. TypeOK
    BY RoutingAssumption DEF Init, TypeOK, Phases, Handled, Answers, NoneActive
  <1>2. AllSound
    BY DEF Init, AllSound, Sound, Active
  <1>3. Balanced
    <2> SUFFICES ASSUME NEW n \in Nodes, NEW key \in Nodes \X Paths
                 PROVE  remoteActive[n][key] = Cardinality(InFlight(hops, n, key))
      BY Zenon DEF Balanced
    <2>1. InFlight(hops, n, key) = {}
      BY DEF Init, InFlight
    <2>. QED  BY <2>1, FS_EmptySet, Zenon DEF Init, NoneActive
  <1>. QED  BY <1>1, <1>2, <1>3, Zenon

\* The routing state keeps its types.  The invariant it needs, that the hops of a
\* request are distinct and do not lead back, is part of the induction.
THEOREM TypeCorrect == Spec => [](TypeOK /\ AllSound)
  <1>1. Init => TypeOK /\ AllSound
    BY InitSound
  <1>2. (TypeOK /\ AllSound) /\ [Next]_vars => (TypeOK /\ AllSound)'
    BY TypeStep, SoundStep
  <1>. QED  BY <1>1, <1>2, PTL DEF Spec

\* HandleForwardedRequestWithError never sends a request to a node that forwarded
\* it, for any cluster and anything the nodes believe of each other.
THEOREM NeverBackCorrect == Spec => []NeverBack
  <1>1. AllSound => NeverBack
    BY Zenon DEF AllSound, Sound, NeverBack
  <1>. QED  BY <1>1, TypeCorrect, PTL

\* remoteCounters equal the forwards in flight, for any number of requests.
THEOREM BalancedCorrect == Spec => []Balanced
  <1>1. Init => TypeOK /\ AllSound /\ Balanced
    BY InitSound
  <1>2. (TypeOK /\ AllSound /\ Balanced) /\ [Next]_vars => (TypeOK /\ AllSound /\ Balanced)'
    BY TypeStep, SoundStep, BalancedStep
  <1>. QED  BY <1>1, <1>2, PTL DEF Spec

\* The loop check of HandleForwardedRequestWithError never meets a request that did
\* come back: what it refuses it refuses for the sake of another node's id.
THEOREM NoRealLoopCorrect == Spec => NoRealLoop
  <1>1. AllSound => [\A r \in Requests :
                       phase[r] = "forward" /\ answer'[r] = "loop" => at[r] \notin Seen(r)]_vars
    BY Zenon DEF AllSound, Sound, Active, Seen
  <1>. QED  BY <1>1, TypeCorrect, PTL DEF NoRealLoop

-----------------------------------------------------------------------------
(* The handling of a request ends, whatever crashes and however the nodes  *)
(* change: every step of it decreases a bound on the steps that are left.  *)

\* The forwards of a request lead through different nodes, and on to one more.
LEMMA HopsFew ==
    ASSUME IsFiniteSet(Nodes), NEW h \in Seq(Hops), h # <<>>,
           \A i \in 1..Len(h), j \in 1..Len(h) : j <= i => h[i].to # h[j].from,
           \A i \in 1..Len(h), j \in 1..Len(h) : h[i].from = h[j].from => i = j
    PROVE  Len(h) < Cardinality(Nodes)
  <1> DEFINE S == 1..Len(h)
             T == Nodes \ {h[Len(h)].to}
             f == [i \in S |-> h[i].from]
  <1>1. /\ Len(h) \in Nat /\ Len(h) \in S
        /\ \A i \in S : i <= Len(h) /\ h[i] \in Hops
    BY LastInHops
  <1>2. h[Len(h)].to \in Nodes /\ \A i \in S : h[i].from \in T
    BY <1>1 DEF Hops
  <1>3. IsFiniteSet(S) /\ Cardinality(S) = Len(h)
    BY <1>1, FS_Interval
  <1>4. /\ IsFiniteSet(T) /\ Cardinality(T) = Cardinality(Nodes) - 1
        /\ Cardinality(Nodes) \in Nat
    BY <1>2, FS_RemoveElement, FS_CardinalityType, Zenon
  <1>5. f \in [S -> T] /\ \A i, j \in S : f[i] = f[j] => i = j
    BY <1>2
  <1>6. ~(Cardinality(T) < Cardinality(S))
    <2> HIDE DEF S, T, f
    <2> SUFFICES ASSUME Cardinality(T) < Cardinality(S)  PROVE FALSE
      OBVIOUS
    <2>1. \A g \in [S -> T] : \E x, y \in S : x # y /\ g[x] = g[y]
      BY <1>3, <1>4, FS_PigeonHole
    <2>. QED  BY <1>5, <2>1, Zenon
  <1>. QED  BY <1>1, <1>3, <1>4, <1>6

\* A request is on its way to the node that answers it.
Outward == Active \cup {"idle", "sent"}

\* The phases at a node, the first with the greatest number.
Stage(ph) ==
    IF ph = "idle" THEN 8 ELSE IF ph = "sent" THEN 7 ELSE IF ph = "arrived" THEN 6
    ELSE IF ph = "collect" THEN 5 ELSE IF ph \in {"forward", "pool"} THEN 4
    ELSE IF ph = "endpoint" THEN 3 ELSE 2

\* A bound on the steps left to a request with k hops; w tells a node that waits for
\* a forward from one that handles the request.
Left(ph, k, w) ==
    IF ph = "done" THEN 0
    ELSE IF ph = "answered" THEN 3 * k + w
    ELSE IF ph = "broken" THEN 3 * k + 2
    ELSE 3 * Cardinality(Nodes) + 4 + 8 * (Cardinality(Nodes) - k) + Stage(ph)

Weight(r) == IF at[r] \in Seen(r) THEN 1 ELSE 3
StepsLeft(r) == Left(phase[r], Len(hops[r]), Weight(r))

\* The steps of a request: on to a later phase or to another node, back with an answer,
\* and back after a crash.
Onward(ph, k, w, to, l, v) ==
    \/ ph \in Outward /\ to \in Outward /\ Stage(to) < Stage(ph) /\ l = k
    \/ ph = "forward" /\ to = "sent" /\ l = k + 1
    \/ ph \in Outward /\ to \notin Outward
    \/ ph = "broken" /\ to = "answered" /\ l = k /\ v = 1
    \/ ph \in {"broken", "answered"} /\ to \in {"broken", "answered"} /\ l < k
    \/ ph \in {"broken", "answered"} /\ to = "done"
    \/ ph = "answered" /\ w = 3 /\ to = "broken" /\ l = k

LEMMA OnwardDecreases ==
    ASSUME IsFiniteSet(Nodes), NEW ph \in Phases, NEW to \in Phases,
           NEW k \in Nat, NEW l \in Nat, k <= Cardinality(Nodes), l <= Cardinality(Nodes),
           NEW w \in {1, 3}, NEW v \in {1, 3}, Onward(ph, k, w, to, l, v)
    PROVE  Left(to, l, v) < Left(ph, k, w)
  <1>1. Cardinality(Nodes) \in Nat
    BY FS_CardinalityType
  <1>. QED  BY <1>1 DEF Onward, Left, Stage, Outward, Active, Phases, Handled

\* The request itself: a step of the handling of another one leaves it alone.
Same(r) == phase'[r] = phase[r] /\ at'[r] = at[r] /\ hops'[r] = hops[r]
Goes(r) == Onward(phase[r], Len(hops[r]), Weight(r), phase'[r], Len(hops'[r]), Weight(r)')
Alone(r) == Goes(r) /\ \A q \in Requests \ {r} : Same(q)

\* A node that sees its forward fail because of a crash waits for that forward.
BrokenWaits == \A r \in Requests : phase[r] = "broken" => at[r] \in Seen(r)

LEMMA GoesAnswered ==
    ASSUME TypeOK, BrokenWaits, NEW r \in Requests,
           NEW from \in Outward \cup {"broken"}, NEW what, Answered(r, from, what)
    PROVE  Alone(r)
  <1>1. /\ phase[r] = from /\ phase'[r] = "answered" /\ hops' = hops /\ at' = at
        /\ \A q \in Requests \ {r} : phase'[q] = phase[q]
    BY DEF TypeOK, Answered, Moves
  <1>2. from = "broken" => Weight(r)' = 1
    BY <1>1, Zenon DEF BrokenWaits, Weight, Seen
  <1>3. "answered" \notin Outward
    BY DEF Outward, Active
  <1>4. Goes(r)
    BY <1>1, <1>2, <1>3, Zenon DEF Goes, Onward
  <1>. QED  BY <1>1, <1>4, Zenon DEF Alone, Same

LEMMA GoesOn ==
    ASSUME TypeOK, NEW r \in Requests, NEW from \in Outward, NEW to \in Outward,
           Stage(to) < Stage(from), Moves(r, from, to), hops' = hops,
           \A q \in Requests \ {r} : at'[q] = at[q]
    PROVE  Alone(r)
  <1>1. /\ phase[r] = from /\ phase'[r] = to
        /\ \A q \in Requests \ {r} : phase'[q] = phase[q]
    BY Zenon DEF TypeOK, Moves
  <1>2. Goes(r)
    BY <1>1, Zenon DEF Goes, Onward
  <1>. QED  BY <1>1, <1>2, Zenon DEF Alone, Same

LEMMA GoesBack ==
    ASSUME TypeOK, NEW r \in Requests, NEW from \in {"sent", "broken", "answered"}, NEW what,
           hops[r] # <<>>, Back(r, from, what)
    PROVE  Alone(r)
  <1>1. /\ phase[r] = from /\ phase'[r] = "answered"
        /\ hops'[r] = SubSeq(hops[r], 1, Len(hops[r]) - 1)
        /\ \A q \in Requests \ {r} : Same(q)
    BY Zenon DEF TypeOK, Back, Moves, Same
  <1>2. hops[r] \in Seq(Hops) /\ Len(hops[r]) \in 1..Len(hops[r])
    BY LastInHops DEF TypeOK
  <1>3. Len(hops'[r]) < Len(hops[r])
    BY <1>1, <1>2, InitialPart
  <1>4. "answered" \notin Outward /\ "sent" \in Outward
    BY DEF Outward, Active
  <1>5. Goes(r)
    BY <1>1, <1>3, <1>4, Zenon DEF Goes, Onward
  <1>. QED  BY <1>1, <1>5, Zenon DEF Alone

\* Every step of the handling of a request, and its cancellation, brings it on.
LEMMA HandleGoes ==
    ASSUME TypeOK, AllSound, BrokenWaits, NEW r \in Requests,
           Handle(r) \/ Cancel(r) \/ \E n \in Nodes : Arrive(r, n)
    PROVE  Alone(r)
  <1>0. hops[r] \in Seq(Hops) /\ Sound(phase[r], hops[r], at[r], choice[r])
    BY Zenon DEF TypeOK, AllSound
  <1>t. /\ phase \in [Requests -> Phases] /\ at \in [Requests -> Nodes \cup {None}]
        /\ hops \in [Requests -> Seq(Hops)]
    BY Zenon DEF TypeOK
  <1>o. /\ {"collect", "pool", "endpoint", "serve", "forward"} \subseteq Outward
        /\ Handled \subseteq Outward \cup {"broken"}
    BY DEF Outward, Active, Handled
  <1>s. /\ Stage("arrived") < Stage("idle") /\ Stage("collect") < Stage("arrived")
        /\ Stage("pool") < Stage("collect") /\ Stage("forward") < Stage("collect")
        /\ Stage("endpoint") < Stage("pool") /\ Stage("serve") < Stage("endpoint")
        /\ Stage("arrived") < Stage("sent")
        /\ {"idle", "sent", "arrived"} \subseteq Outward
    BY DEF Stage, Outward, Active
  <1>1. ASSUME NEW n \in Nodes, Arrive(r, n)
        PROVE  Alone(r)
    <2>1. hops' = hops /\ \A q \in Requests \ {r} : at'[q] = at[q]
      BY <1>t, <1>1, Zenon DEF Arrive
    <2>. QED  BY <1>1, <1>s, <2>1, GoesOn, Zenon DEF Arrive
  <1>2. CASE FindLocal(r)
    BY <1>2, <1>o, <1>s, GoesOn, Zenon DEF FindLocal
  <1>3. CASE HandleRequest(r)
    <2>1. phase[r] = "collect"
      BY <1>3, Zenon DEF HandleRequest
    <2>2. at[r] \in Nodes /\ best[r] \in Paths \cup {None}
      BY <2>1, Zenon DEF TypeOK, Handled
    <2>3. ASSUME NEW c, Selects(r, c)
          PROVE  Alone(r)
      <3>1. /\ Moves(r, "collect", "pool") \/ Moves(r, "collect", "forward")
            /\ hops' = hops /\ at' = at
        BY <2>3, Zenon DEF Selects
      <3>. QED  BY <1>o, <1>s, <3>1, GoesOn, Zenon
    <2>. QED  BY <1>3, <1>o, <2>2, <2>3, GoesAnswered, HandleRequestSelects, Zenon
  <1>4. CASE SelectPool(r)
    <2>1. \/ Answered(r, "pool", "unavailable")
          \/ Moves(r, "pool", "endpoint") /\ hops' = hops /\ at' = at
      BY <1>4, Zenon DEF SelectPool
    <2>. QED  BY <1>o, <1>s, <2>1, GoesOn, GoesAnswered, Zenon
  <1>5. CASE GetEndpointByEpID(r)
    BY <1>5, <1>o, <1>s, GoesOn, GoesAnswered, Zenon DEF GetEndpointByEpID
  <1>6. CASE HandleLocalRequestWithError(r)
    BY <1>6, <1>o, GoesAnswered, Zenon DEF HandleLocalRequestWithError
  <1>7. CASE IncRemoteActive(r)
    <2>1. CASE Answered(r, "forward", "loop")
      BY <1>o, <2>1, GoesAnswered, Zenon
    <2>2. CASE ~Answered(r, "forward", "loop")
      <3> DEFINE hop == [from |-> at[r], to |-> choice[r].node, path |-> choice[r].path]
      <3>1. /\ phase[r] = "forward" /\ phase'[r] = "sent" /\ hops'[r] = Append(hops[r], hop)
            /\ \A q \in Requests \ {r} : Same(q)
        BY <1>t, <1>7, <2>2, Zenon DEF IncRemoteActive, Moves, Same
      <3>2. hop \in Hops
        <4>1. at[r] \in Nodes /\ choice[r] \in Candidates
          BY <1>0, <3>1, Zenon DEF TypeOK, Sound, Handled
        <4>. QED  BY <4>1, Zenon DEF Candidates, Hops
      <3>3. Len(hops'[r]) = Len(hops[r]) + 1
        <4> HIDE DEF hop
        <4>. QED  BY <1>0, <3>1, <3>2
      <3>4. Goes(r)
        BY <3>1, <3>3, Zenon DEF Goes, Onward
      <3>. QED  BY <3>1, <3>4, Zenon DEF Alone
    <2>. QED  BY <2>1, <2>2, Zenon
  <1>8. CASE Deliver(r)
    <2>1. hops' = hops /\ \A q \in Requests \ {r} : at'[q] = at[q]
      BY <1>t, <1>8, Zenon DEF Deliver
    <2>. QED  BY <1>8, <1>s, <2>1, GoesOn, Zenon DEF Deliver
  <1>9. CASE DoFails(r)
    <2>1. hops[r] # <<>> /\ phase[r] \in {"sent", "broken"}
      BY <1>0, <1>9, Zenon DEF DoFails, Sound
    <2>. QED  BY <1>9, <2>1, GoesBack, Zenon DEF DoFails
  <1>10. CASE Relay(r)
    <2>1. CASE hops[r] # <<>> /\ Back(r, "answered", answer[r])
      BY <2>1, GoesBack, Zenon
    <2>2. CASE ~(hops[r] # <<>> /\ Back(r, "answered", answer[r]))
      <3>1. /\ phase[r] = "answered" /\ phase'[r] = "done"
            /\ \A q \in Requests \ {r} : Same(q)
        BY <1>t, <1>10, <2>2, Zenon DEF Relay, Moves, Same
      <3>2. Goes(r)
        BY <3>1, Zenon DEF Goes, Onward
      <3>. QED  BY <3>1, <3>2, Zenon DEF Alone
    <2>. QED  BY <2>1, <2>2, Zenon
  <1>11. CASE Cancel(r)
    BY <1>11, <1>o, GoesAnswered, Zenon DEF Cancel
  <1>. QED  BY <1>1, <1>2, <1>3, <1>4, <1>5, <1>6, <1>7, <1>8, <1>9, <1>10, <1>11, Zenon
            DEF Handle

\* A crash cuts the forwards of a request before the node that crashed.
LEMMA KeptShorter ==
    ASSUME NEW r \in Requests, NEW n, hops[r] \in Seq(Hops)
    PROVE  /\ n \notin Seen(r) => Kept(r, n) = hops[r]
           /\ n \in Seen(r) => Len(Kept(r, n)) < Len(hops[r])
  <1>1. n \in Seen(r) <=> \E i \in 1..Len(hops[r]) : hops[r][i].from = n
    BY Zenon DEF Seen
  <1>2. CASE n \in Seen(r)
    <2> DEFINE k == CHOOSE i \in 1..Len(hops[r]) : hops[r][i].from = n
    <2>1. k \in 1..Len(hops[r]) /\ Kept(r, n) = SubSeq(hops[r], 1, k - 1)
      BY <1>1, <1>2, Zenon DEF Kept
    <2> HIDE DEF k
    <2>2. Len(SubSeq(hops[r], 1, k - 1)) = k - 1
      BY <2>1, InitialPart
    <2>. QED  BY <1>2, <2>1, <2>2
  <1>3. CASE n \notin Seen(r)
    BY <1>1, <1>3, Zenon DEF Kept
  <1>. QED  BY <1>2, <1>3, Zenon

LEMMA CrashGoes ==
    ASSUME TypeOK, AllSound, BrokenWaits, NEW n \in Nodes, Crash(n), NEW r \in Requests
    PROVE  /\ Same(r) \/ Goes(r)
           /\ phase'[r] = "broken" => at'[r] \in Seen(r)'
  <1>0. hops[r] \in Seq(Hops) /\ Sound(phase[r], hops[r], at[r], choice[r])
    BY Zenon DEF TypeOK, AllSound
  <1>1. Kept(r, n) \in Seq(Hops)
    BY <1>0, KeptPrefix, Zenon DEF Sound
  <1>2. /\ hops'[r] = IF TakesPart(r, n) THEN Kept(r, n) ELSE hops[r]
        /\ phase'[r] = IF ~TakesPart(r, n) THEN phase[r]
                       ELSE IF Kept(r, n) = <<>> THEN "done" ELSE "broken"
        /\ at'[r] = IF TakesPart(r, n) /\ Kept(r, n) # <<>>
                    THEN Kept(r, n)[Len(Kept(r, n))].from ELSE at[r]
    BY Zenon DEF Crash
  <1>3. CASE ~TakesPart(r, n)
    <2>1. Same(r)
      BY <1>2, <1>3, Zenon DEF Same
    <2>. QED  BY <2>1, Zenon DEF Same, BrokenWaits, Seen
  <1>4. CASE TakesPart(r, n)
    <2>1. phase[r] \in Outward \cup {"broken", "answered"} /\ (n = at[r] \/ n \in Seen(r))
      BY <1>4 DEF TakesPart, Outward, Active, Handled
    <2>o. "done" \notin Outward /\ "broken" \notin Outward
      BY DEF Outward, Active
    <2>2. CASE Kept(r, n) = <<>>
      <3>1. phase'[r] = "done"
        BY <1>2, <1>4, <2>2, Zenon
      <3>2. Goes(r)
        BY <2>1, <2>o, <3>1, Zenon DEF Goes, Onward
      <3>. QED  BY <3>1, <3>2, Zenon
    <2>3. CASE Kept(r, n) # <<>>
      <3>1. /\ phase'[r] = "broken" /\ hops'[r] = Kept(r, n)
            /\ at'[r] = Kept(r, n)[Len(Kept(r, n))].from
        BY <1>2, <1>4, <2>3, Zenon
      <3>2. at'[r] \in Seen(r)'
        BY <1>1, <2>3, <3>1, LastInHops, Zenon DEF Seen
      <3>3. CASE n \in Seen(r)
        <4>1. Len(hops'[r]) < Len(hops[r])
          BY <1>0, <3>1, <3>3, KeptShorter, Zenon
        <4>. QED  BY <2>1, <2>o, <3>1, <3>2, <4>1, Zenon DEF Goes, Onward
      <3>4. CASE n \notin Seen(r)
        <4>1. Weight(r) = 3 /\ phase[r] # "broken"
          BY <2>1, <3>4, Zenon DEF Weight, BrokenWaits
        <4>2. hops'[r] = hops[r]
          BY <1>0, <3>1, <3>4, KeptShorter, Zenon
        <4>. QED  BY <2>1, <2>o, <3>1, <3>2, <4>1, <4>2, Zenon DEF Goes, Onward
      <3>. QED  BY <3>3, <3>4, Zenon
    <2>. QED  BY <2>2, <2>3, Zenon
  <1>. QED  BY <1>3, <1>4, Zenon

LEMMA HandleNotBroken ==
    ASSUME TypeOK, NEW r \in Requests,
           Handle(r) \/ Cancel(r) \/ \E n \in Nodes : Arrive(r, n)
    PROVE  phase'[r] # "broken"
  <1>1. CASE \E from, what : Answered(r, from, what) \/ Back(r, from, what)
    BY <1>1, Zenon DEF TypeOK, Answered, Back, Moves
  <1>2. CASE \E from, to : to # "broken" /\ Moves(r, from, to)
    BY <1>2, Zenon DEF TypeOK, Moves
  <1>3. \/ \E from, what : Answered(r, from, what) \/ Back(r, from, what)
        \/ \E from, to : to # "broken" /\ Moves(r, from, to)
    BY Zenon DEF Handle, Cancel, Arrive, FindLocal, HandleRequest, SelectPool,
       GetEndpointByEpID, HandleLocalRequestWithError, IncRemoteActive, Deliver, DoFails, Relay
  <1>. QED  BY <1>1, <1>2, <1>3, Zenon

\* Whatever happens, a request stays as it is or goes on.
LEMMA RequestStep ==
    ASSUME TypeOK, AllSound, BrokenWaits, [Next]_vars, NEW q \in Requests
    PROVE  /\ Same(q) \/ Goes(q)
           /\ phase'[q] = "broken" => at'[q] \in Seen(q)'
  <1>1. ASSUME Same(q)
        PROVE  phase'[q] = "broken" => at'[q] \in Seen(q)'
    BY <1>1, Zenon DEF Same, BrokenWaits, Seen
  <1>2. ASSUME NEW r \in Requests,
               Handle(r) \/ Cancel(r) \/ \E n \in Nodes : Arrive(r, n)
        PROVE  /\ Same(q) \/ Goes(q)
               /\ phase'[q] = "broken" => at'[q] \in Seen(q)'
    <2>1. Alone(r) /\ phase'[r] # "broken"
      BY <1>2, HandleGoes, HandleNotBroken, Zenon
    <2>. QED  BY <1>1, <2>1, Zenon DEF Alone
  <1>3. ASSUME phase' = phase, hops' = hops, at' = at
        PROVE  Same(q)
    BY <1>3, Zenon DEF Same
  <1>4. CASE \E n \in Nodes : Restart(n)
    BY <1>1, <1>3, <1>4, Zenon DEF Restart, requests
  <1>5. CASE \E e \in Changing : \/ AddEndpoint(e) \/ CreatePool(e) \/ UpdateHeartbeat(e)
                                 \/ RemoveEndpoint(e) \/ RemovePool(e)
    BY <1>1, <1>3, <1>5, Zenon
       DEF AddEndpoint, CreatePool, UpdateHeartbeat, RemoveEndpoint, RemovePool, requests
  <1>6. CASE UNCHANGED vars
    BY <1>1, <1>3, <1>6, Zenon DEF vars, requests
  <1>7. CASE Next
    BY <1>1, <1>2, <1>4, <1>5, <1>7, CrashGoes, Zenon DEF Next
  <1>. QED  BY <1>6, <1>7, Zenon

\* The inductive invariant of the two theorems below.
Following == TypeOK /\ AllSound /\ BrokenWaits

LEMMA FollowingHolds == Spec => []Following
  <1>1. Init => Following
    <2>1. Init => BrokenWaits
      BY Zenon DEF Init, BrokenWaits
    <2>. QED  BY <2>1, InitSound, Zenon DEF Following
  <1>2. Following /\ [Next]_vars => Following'
    <2> SUFFICES ASSUME Following, [Next]_vars  PROVE Following'
      OBVIOUS
    <2>1. BrokenWaits'
      BY RequestStep, Zenon DEF Following, BrokenWaits
    <2>. QED  BY <2>1, TypeStep, SoundStep, Zenon DEF Following
  <1>. QED  BY <1>1, <1>2, PTL DEF Spec

\* The forwards of a request that wait for an answer are fewer than the nodes.
FewForwards ==
    \A r \in Requests : hops[r] # <<>> => Len(hops[r]) < Cardinality(Nodes)

LEMMA FollowingFew ==
    ASSUME IsFiniteSet(Nodes), Following
    PROVE  FewForwards
  <1> SUFFICES ASSUME NEW r \in Requests, hops[r] # <<>>
               PROVE  Len(hops[r]) < Cardinality(Nodes)
    BY Zenon DEF FewForwards
  <1>1. hops[r] \in Seq(Hops) /\ Sound(phase[r], hops[r], at[r], choice[r])
    BY Zenon DEF Following, TypeOK, AllSound
  <1>. QED  BY <1>1, HopsFew, Zenon DEF Sound

\* In a cluster of N nodes a request is forwarded at most N - 1 times on its way to an
\* answer, whatever the nodes believe of each other: HandleForwardedRequestWithError
\* needs no limit on the hops.
THEOREM FewForwardsHold == ASSUME IsFiniteSet(Nodes) PROVE Spec => []FewForwards
  BY FollowingHolds, FollowingFew, PTL

\* Of every request, a step of its handling, its arrival and its cancellation decrease
\* the bound on the steps left, and no other step increases it.
Descends ==
    [][\A r \in Requests :
          /\ StepsLeft(r) \in Nat /\ StepsLeft(r)' \in Nat
          /\ StepsLeft(r)' <= StepsLeft(r)
          /\ (Handle(r) \/ Cancel(r) \/ \E n \in Nodes : Arrive(r, n)) =>
                StepsLeft(r)' < StepsLeft(r)]_vars

LEMMA LeftNat ==
    ASSUME IsFiniteSet(Nodes), NEW ph, NEW k \in Nat, k <= Cardinality(Nodes), NEW w \in {1, 3}
    PROVE  Left(ph, k, w) \in Nat
  <1>1. Cardinality(Nodes) \in Nat
    BY FS_CardinalityType
  <1>2. Stage(ph) \in Nat
    BY DEF Stage
  <1>. QED  BY <1>1, <1>2 DEF Left

LEMMA FewAtMost ==
    ASSUME IsFiniteSet(Nodes), NEW h \in Seq(Hops), h # <<>> => Len(h) < Cardinality(Nodes)
    PROVE  Len(h) \in Nat /\ Len(h) <= Cardinality(Nodes)
  <1>1. Cardinality(Nodes) \in Nat /\ Len(h) \in Nat /\ (h = <<>> => Len(h) = 0)
    BY FS_CardinalityType
  <1>. QED  BY <1>1

LEMMA StepDescends ==
    ASSUME IsFiniteSet(Nodes), Following, Following', NEW r \in Requests
    PROVE  /\ StepsLeft(r) \in Nat /\ StepsLeft(r)' \in Nat
           /\ Goes(r) => StepsLeft(r)' < StepsLeft(r)
           /\ Same(r) => StepsLeft(r)' = StepsLeft(r)
  <1> DEFINE k == Len(hops[r])
             l == Len(hops'[r])
  <1>1. k \in Nat /\ k <= Cardinality(Nodes)
    <2>1. hops[r] \in Seq(Hops) /\ (hops[r] # <<>> => Len(hops[r]) < Cardinality(Nodes))
      BY FollowingFew, Zenon DEF FewForwards, Following, TypeOK
    <2>. QED  BY <2>1, FewAtMost, Zenon
  <1>2. l \in Nat /\ l <= Cardinality(Nodes)
    <2>1. Following' => FewForwards'
      BY FollowingFew, PTL
    <2>2. hops'[r] \in Seq(Hops) /\ (hops'[r] # <<>> => Len(hops'[r]) < Cardinality(Nodes))
      BY <2>1, Zenon DEF FewForwards, Following, TypeOK
    <2>. QED  BY <2>2, FewAtMost, Zenon
  <1>3. phase[r] \in Phases /\ phase'[r] \in Phases
    BY Zenon DEF Following, TypeOK
  <1>4. Weight(r) \in {1, 3} /\ Weight(r)' \in {1, 3}
    BY Zenon DEF Weight
  <1>5. /\ StepsLeft(r) = Left(phase[r], k, Weight(r))
        /\ StepsLeft(r)' = Left(phase'[r], l, Weight(r)')
        /\ Goes(r) => Onward(phase[r], k, Weight(r), phase'[r], l, Weight(r)')
    BY Zenon DEF StepsLeft, Goes, Left
  <1>6. Same(r) => StepsLeft(r)' = StepsLeft(r)
    BY Zenon DEF Same, StepsLeft, Weight, Seen, Left
  <1> DEFINE w == Weight(r)
             v == Weight(r)'
  <1> HIDE DEF k, l, w, v
  <1>7. StepsLeft(r) \in Nat /\ StepsLeft(r)' \in Nat
    BY <1>1, <1>2, <1>4, <1>5, LeftNat, Zenon DEF w, v
  <1>8. Goes(r) => StepsLeft(r)' < StepsLeft(r)
    BY <1>1, <1>2, <1>3, <1>4, <1>5, OnwardDecreases, Zenon DEF w, v
  <1>. QED  BY <1>6, <1>7, <1>8, Zenon

\* The bound on the steps of a request decreases with every step of its handling, so
\* that in a cluster of N nodes a request is over after at most 11 N + 12 of them: no
\* crash, no change of the registries and nothing the nodes believe of each other lets
\* a request wander about.
THEOREM DescendsHolds == ASSUME IsFiniteSet(Nodes) PROVE Spec => Descends
  <1>1. ASSUME Following, Following', [Next]_vars, NEW r \in Requests
        PROVE  /\ StepsLeft(r) \in Nat /\ StepsLeft(r)' \in Nat
               /\ StepsLeft(r)' <= StepsLeft(r)
               /\ (Handle(r) \/ Cancel(r) \/ \E n \in Nodes : Arrive(r, n)) =>
                     StepsLeft(r)' < StepsLeft(r)
    <2>1. Same(r) \/ Goes(r)
      BY <1>1, RequestStep, Zenon DEF Following
    <2>2. (Handle(r) \/ Cancel(r) \/ \E n \in Nodes : Arrive(r, n)) => Goes(r)
      BY <1>1, HandleGoes, Zenon DEF Following, Alone
    <2>3. /\ StepsLeft(r) \in Nat /\ StepsLeft(r)' \in Nat
          /\ Goes(r) => StepsLeft(r)' < StepsLeft(r)
          /\ Same(r) => StepsLeft(r)' = StepsLeft(r)
      BY <1>1, StepDescends, Zenon
    <2>. QED  BY <2>1, <2>2, <2>3
  <1>2. Following /\ Following' /\ [Next]_vars =>
           [\A r \in Requests :
              /\ StepsLeft(r) \in Nat /\ StepsLeft(r)' \in Nat
              /\ StepsLeft(r)' <= StepsLeft(r)
              /\ (Handle(r) \/ Cancel(r) \/ \E n \in Nodes : Arrive(r, n)) =>
                    StepsLeft(r)' < StepsLeft(r)]_vars
    BY <1>1, Zenon
  <1>. QED  BY <1>2, FollowingHolds, PTL DEF Descends, Spec

=============================================================================
