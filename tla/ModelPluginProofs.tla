-------------------------- MODULE ModelPluginProofs --------------------------
(***************************************************************************)
(* Proofs about ModelPlugin, for all models, backends, sessions and        *)
(* requests.                                                               *)
(***************************************************************************)
EXTENDS ModelPlugin, FiniteSetTheorems, TLAPS

\* From the increment of ActiveConn to the deferred decrement.
Counted == {"sent", "touch", "sync", "failover", "release", "bind", "resent", "finish"}

Holders(m, b) == {r \in Connected(m, b) : held[r].current}

\* One count for each object.
CountFns == [Models \X Backends -> Int]

\* The types that the counting depends on.
Counts ==
    /\ conns \in CountFns
    /\ quota \in CountFns
    /\ phase \in [Requests -> Phases]
    /\ listing \in [Requests -> Listings \cup {None}]
    /\ held \in [Requests -> Objects \cup {None}]

\* A request has listed the backends before it chooses one, and holds the one that it
\* is counted for.
Pointers ==
    \A r \in Requests :
        /\ phase[r] \in {"lookup", "unbind", "choose"} => listing[r] \in Listings
        /\ phase[r] \in Counted \cup {"connect"} => held[r] \in Objects

\* The inductive invariant.
IInv == Counts /\ Pointers /\ Covered

-----------------------------------------------------------------------------
(* Arithmetic of the charges: q and n stand for counters, c, d and h for   *)
(* numbers of sessions or requests.                                        *)

LEMMA NatInt == \A c \in Nat : c \in Int
  OBVIOUS

LEMMA Differences ==
    ASSUME NEW q \in Int, NEW c \in Int
    PROVE  /\ q - c \in Int /\ q - 0 = q /\ q - c >= q - c
           /\ q >= c <=> q - c >= 0
           /\ (q + 1) - (c + 1) = q - c
           /\ (q + 1) - (c + 1) >= q - c /\ (q + 1) - c >= q - c /\ q - (c - 1) >= q - c
  OBVIOUS

LEMMA CommonPart ==
    ASSUME NEW q \in Int, NEW c \in Int, NEW d \in Int
    PROVE  (q - d) - (c - d) = q - c
  OBVIOUS

LEMMA SumOf ==
    ASSUME NEW q \in Int, NEW c \in Int, NEW d \in Int, q - c = d
    PROVE  q = d + c
  OBVIOUS

LEMMA NoDifference ==
    ASSUME NEW q \in Int, NEW c \in Int, q - c = 0
    PROVE  q = c
  OBVIOUS

LEMMA LessTaken ==
    ASSUME NEW q \in Int, NEW c \in Int, NEW d \in Int, d <= c
    PROVE  q - d >= q - c
  OBVIOUS

LEMMA StaysPositive ==
    ASSUME NEW q \in Int, NEW c \in Int, c >= q, q >= 0
    PROVE  c >= 0
  OBVIOUS

LEMMA SameDifference ==
    ASSUME NEW x1 \in Int, NEW h1 \in Int, NEW x \in Int, NEW h \in Int,
           x1 - h1 = x - h, x = h
    PROVE  x1 = h1
  OBVIOUS

-----------------------------------------------------------------------------
\* There are finitely many holders of an object.
LEMMA HoldersFinite ==
    ASSUME NEW m, NEW b
    PROVE  /\ IsFiniteSet(Holders(m, b)) /\ Cardinality(Holders(m, b)) \in Nat
           /\ IsFiniteSet(Holders(m, b)') /\ Cardinality(Holders(m, b)') \in Nat
  <1>1. Holders(m, b) \subseteq Requests /\ Holders(m, b)' \subseteq Requests
    BY DEF Holders, Connected
  <1>2. IsFiniteSet(Requests)
    BY ModelPluginAssumption
  <1>3. IsFiniteSet(Holders(m, b)) /\ IsFiniteSet(Holders(m, b)')
    BY <1>1, <1>2, FS_Subset
  <1> QED BY <1>3, FS_CardinalityType

\* Covered in terms of the holders.
LEMMA CoveredByHolders ==
    Covered <=> \A m \in Models, b \in Backends :
                   conns[<<m, b>>] - quota[<<m, b>>] >= Cardinality(Holders(m, b))
  BY DEF Covered, Holders

\* What of ActiveConn stems from no request that holds the object stays the same.
SameBalance ==
    \A m \in Models, b \in Backends :
        conns'[<<m, b>>] - quota'[<<m, b>>] - Cardinality(Holders(m, b)') =
        conns[<<m, b>>] - quota[<<m, b>>] - Cardinality(Holders(m, b))

\* Then the object stays covered.
LEMMA BalanceKeeps == ASSUME IInv, Counts', SameBalance PROVE Covered'
  <1>1. ASSUME NEW m \in Models, NEW b \in Backends
        PROVE  (conns[<<m, b>>] - quota[<<m, b>>] >= Cardinality(Holders(m, b)))'
    <2>1. conns[<<m, b>>] - quota[<<m, b>>] >= Cardinality(Holders(m, b))
      BY CoveredByHolders DEF IInv
    <2>2. conns'[<<m, b>>] - quota'[<<m, b>>] - Cardinality(Holders(m, b)') =
          conns[<<m, b>>] - quota[<<m, b>>] - Cardinality(Holders(m, b))
      BY DEF SameBalance
    <2>3. /\ conns[<<m, b>>] \in Int /\ quota[<<m, b>>] \in Int
          /\ conns'[<<m, b>>] \in Int /\ quota'[<<m, b>>] \in Int
      BY <<m, b>> \in Models \X Backends DEF IInv, Counts, CountFns
    <2> QED BY <2>1, <2>2, <2>3, HoldersFinite
  <1> QED BY <1>1, Zenon DEF Covered, Holders

\* What neither moves a request into or out of the counted phases nor changes the part
\* of ActiveConn that stems from requests keeps Covered.
LEMMA Keeps ==
    ASSUME IInv,
           \A r \in Requests : phase'[r] \in Counted <=> phase[r] \in Counted,
           \A r \in Requests : phase[r] \in Counted => held'[r] = held[r],
           \A k \in Models \X Backends : conns'[k] - quota'[k] = conns[k] - quota[k]
    PROVE  Covered' /\ SameBalance
  <1>1. ASSUME NEW m \in Models, NEW b \in Backends PROVE Holders(m, b)' = Holders(m, b)
    BY DEF Holders, Connected, Counted
  <1>2. ASSUME NEW m \in Models, NEW b \in Backends
        PROVE  conns'[<<m, b>>] - quota'[<<m, b>>] = conns[<<m, b>>] - quota[<<m, b>>]
    BY <<m, b>> \in Models \X Backends
  <1>3. ASSUME NEW m \in Models, NEW b \in Backends
        PROVE  (conns[<<m, b>>] - quota[<<m, b>>] >= Cardinality(Holders(m, b)))'
    <2>1. conns[<<m, b>>] - quota[<<m, b>>] >= Cardinality(Holders(m, b))
      BY CoveredByHolders DEF IInv
    <2> QED BY <1>1, <1>2, <2>1
  <1>4. SameBalance
    BY <1>1, <1>2, Zenon DEF SameBalance
  <1>5. Covered'
    BY <1>3, Zenon DEF Covered, Holders
  <1> QED BY <1>4, <1>5

\* What Add (router.go:120) does to a count.
LEMMA AddAt ==
    ASSUME NEW counts \in CountFns, NEW m, NEW object, NEW d \in Int,
           NEW k \in Models \X Backends
    PROVE  Add(counts, m, object, d)[k] =
              IF object.current /\ k = <<m, object.at>> THEN counts[k] + d ELSE counts[k]
  <1> DEFINE key == <<m, object.at>>
  <1>1. Add(counts, m, object, d) =
           IF object.current THEN [counts EXCEPT ![key] = counts[key] + d] ELSE counts
    BY DEF Add
  <1> HIDE DEF key
  <1>2. CASE object.current
    <2>1. [counts EXCEPT ![key] = counts[key] + d][k] =
             IF k = key THEN counts[k] + d ELSE counts[k]
      BY DEF CountFns
    <2> QED BY <1>1, <1>2, <2>1, Zenon DEF key
  <1>3. CASE ~object.current
    BY <1>1, <1>3, Zenon
  <1> QED BY <1>2, <1>3

LEMMA AddOne ==
    ASSUME NEW counts \in CountFns, NEW m, NEW object, object.current,
           NEW k \in Models \X Backends
    PROVE  /\ k = <<m, object.at>> => Add(counts, m, object, 1)[k] = counts[k] + 1
           /\ k # <<m, object.at>> => Add(counts, m, object, 1)[k] = counts[k]
  BY AddAt, 1 \in Int

\* Add keeps the type of the counts.
LEMMA AddType ==
    ASSUME NEW counts \in CountFns, NEW m, NEW object, NEW d \in Int
    PROVE  Add(counts, m, object, d) \in CountFns
  <1> DEFINE key == <<m, object.at>>
             K == Models \X Backends
  <1>1. Add(counts, m, object, d) =
           IF object.current THEN [counts EXCEPT ![key] = counts[key] + d] ELSE counts
    BY DEF Add
  <1>2. counts \in [K -> Int]
    BY DEF CountFns
  <1> HIDE DEF key, K
  <1>3. [counts EXCEPT ![key] = counts[key] + d] \in [K -> Int]
    <2>1. CASE key \in K
      BY <1>2, <2>1
    <2>2. CASE key \notin K
      BY <1>2, <2>2, Zenon
    <2> QED BY <2>1, <2>2
  <1>4. Add(counts, m, object, d) \in [K -> Int]
    BY <1>1, <1>2, <1>3, Zenon
  <1> QED BY <1>4 DEF K, CountFns

\* bindSession (session.go:9) adds the same to both counts.
LEMMA BindAlike ==
    ASSUME Counts, NEW s, NEW m, NEW object, bindSession(s, m, object)
    PROVE  /\ conns' \in CountFns /\ quota' \in CountFns
           /\ \A k \in Models \X Backends : conns'[k] - quota'[k] = conns[k] - quota[k]
  <1>1. /\ conns \in CountFns /\ quota \in CountFns
        /\ conns' = Add(conns, m, object, 1) /\ quota' = Add(quota, m, object, 1)
    BY DEF Counts, bindSession
  <1>2. conns' \in CountFns /\ quota' \in CountFns
    BY <1>1, AddType, 1 \in Int, Zenon
  <1>3. ASSUME NEW k \in Models \X Backends PROVE conns'[k] - quota'[k] = conns[k] - quota[k]
    <2>1. /\ conns[k] \in Int /\ quota[k] \in Int
          /\ conns'[k] = IF object.current /\ k = <<m, object.at>> THEN conns[k] + 1 ELSE conns[k]
          /\ quota'[k] = IF object.current /\ k = <<m, object.at>> THEN quota[k] + 1 ELSE quota[k]
      <3>1. conns[k] \in Int /\ quota[k] \in Int
        BY <1>1 DEF CountFns
      <3>2. Add(conns, m, object, 1)[k] =
               IF object.current /\ k = <<m, object.at>> THEN conns[k] + 1 ELSE conns[k]
        BY <1>1, AddAt, 1 \in Int
      <3>3. Add(quota, m, object, 1)[k] =
               IF object.current /\ k = <<m, object.at>> THEN quota[k] + 1 ELSE quota[k]
        BY <1>1, AddAt, 1 \in Int
      <3> QED BY <1>1, <3>1, <3>2, <3>3, Zenon
    <2> QED BY <2>1
  <1> QED BY <1>2, <1>3

\* unbindSession and cleanupExpiredSessions (session.go:23, session.go:57) take the same from both.
LEMMA FreedAlike ==
    ASSUME Counts, NEW bound, IsFiniteSet(bound)
    PROVE  /\ Freed(conns, bound) \in CountFns
           /\ Freed(quota, bound) \in CountFns
           /\ \A k \in Models \X Backends :
                 Freed(conns, bound)[k] - Freed(quota, bound)[k] = conns[k] - quota[k]
  <1> DEFINE n(k) == Cardinality({s \in bound : session[s].backend = k[2]})
  <1>1. ASSUME NEW k PROVE n(k) \in Nat
    <2>1. {s \in bound : session[s].backend = k[2]} \subseteq bound
      OBVIOUS
    <2> QED BY <2>1, FS_Subset, FS_CardinalityType
  <1> HIDE DEF n
  <1>2. ASSUME NEW counts \in CountFns
        PROVE  /\ Freed(counts, bound) \in CountFns
               /\ \A k \in Models \X Backends : Freed(counts, bound)[k] =
                     IF k \in table /\ k[2] \in {session[s].backend : s \in bound}
                     THEN counts[k] - n(k) ELSE counts[k]
    BY <1>1 DEF Freed, n, CountFns
  <1>3. conns \in CountFns /\ quota \in CountFns
    BY DEF Counts
  <1>4. /\ Freed(conns, bound) \in CountFns
        /\ Freed(quota, bound) \in CountFns
    BY <1>2, <1>3, Zenon
  <1>5. ASSUME NEW k \in Models \X Backends
        PROVE  Freed(conns, bound)[k] - Freed(quota, bound)[k] = conns[k] - quota[k]
    <2>1. conns[k] \in Int /\ quota[k] \in Int /\ n(k) \in Nat
      BY <1>1, <1>3 DEF CountFns
    <2>2. \/ Freed(conns, bound)[k] = conns[k] /\ Freed(quota, bound)[k] = quota[k]
          \/ Freed(conns, bound)[k] = conns[k] - n(k) /\ Freed(quota, bound)[k] = quota[k] - n(k)
      BY <1>2, <1>3, Zenon
    <2> QED BY <2>1, <2>2
  <1> QED BY <1>4, <1>5

\* unbindSession (session.go:23) likewise.
LEMMA UnbindAlike ==
    ASSUME Counts, NEW s, unbindSession(s)
    PROVE  /\ conns' \in CountFns /\ quota' \in CountFns
           /\ \A k \in Models \X Backends : conns'[k] - quota'[k] = conns[k] - quota[k]
  <1>1. CASE session[s] = None
    BY <1>1 DEF unbindSession, Counts
  <1>2. CASE session[s] # None
    <2>1. conns' = Freed(conns, {s}) /\ quota' = Freed(quota, {s})
      BY <1>2 DEF unbindSession
    <2>2. IsFiniteSet({s})
      BY FS_Singleton, Zenon
    <2> QED BY <2>1, <2>2, FreedAlike, Zenon
  <1> QED BY <1>1, <1>2

-----------------------------------------------------------------------------
\* The plugin starts without requests (plugin.go:20).
LEMMA InitIInv == Init => IInv
  <1> SUFFICES ASSUME Init PROVE IInv
    OBVIOUS
  <1>1. Counts
    BY DEF Init, Counts, Phases, CountFns
  <1>2. Pointers
    BY DEF Init, Pointers, Counted
  <1>3. ASSUME NEW m \in Models, NEW b \in Backends
        PROVE  conns[<<m, b>>] - quota[<<m, b>>] >= Cardinality(Holders(m, b))
    <2>1. Holders(m, b) = {}
      BY DEF Init, Holders, Connected
    <2>2. conns[<<m, b>>] = 0 /\ quota[<<m, b>>] = 0
      BY <<m, b>> \in Models \X Backends DEF Init
    <2> QED BY <2>1, <2>2, FS_EmptySet
  <1> QED BY <1>1, <1>2, <1>3, CoveredByHolders DEF IInv

\* A step of a request r that is not a change of its being counted keeps the invariant.
LEMMA MoveStep ==
    ASSUME IInv, Counts', NEW r \in Requests, NEW p \in Phases,
           phase' = [phase EXCEPT ![r] = p],
           phase[r] \in Counted <=> p \in Counted,
           p \in {"lookup", "unbind", "choose"} => listing'[r] \in Listings,
           p \in Counted \cup {"connect"} => held'[r] \in Objects,
           phase[r] \in Counted => held'[r] = held[r],
           \A q \in Requests : q # r => held'[q] = held[q] /\ listing'[q] = listing[q],
           \A k \in Models \X Backends : conns'[k] - quota'[k] = conns[k] - quota[k]
    PROVE  IInv' /\ SameBalance
  <1>1. /\ \A q \in Requests : q # r => phase'[q] = phase[q]
        /\ phase'[r] = p
    BY DEF IInv, Counts
  <1>2. Pointers'
    BY <1>1 DEF IInv, Pointers
  <1>3. Covered' /\ SameBalance
    <2>1. \A q \in Requests : phase'[q] \in Counted <=> phase[q] \in Counted
      BY <1>1
    <2>2. \A q \in Requests : phase[q] \in Counted => held'[q] = held[q]
      BY <1>1
    <2> QED BY <2>1, <2>2, Keeps
  <1> QED BY <1>2, <1>3 DEF IInv

\* In particular one that leaves the counts and the pointers alone.
LEMMA QuietStep ==
    ASSUME IInv, NEW r \in Requests, NEW p \in Phases, phase' = [phase EXCEPT ![r] = p],
           UNCHANGED <<conns, quota, held, listing>>,
           phase[r] \in Counted <=> p \in Counted,
           p \in {"lookup", "unbind", "choose"} => listing[r] \in Listings,
           p # "connect"
    PROVE  IInv' /\ SameBalance
  <1>1. Counts'
    BY DEF IInv, Counts
  <1>2. p \in Counted \cup {"connect"} => held[r] \in Objects
    BY DEF IInv, Pointers
  <1> QED BY <1>1, <1>2, MoveStep, Zenon

\* handleChat (router.go:15) keeps the invariant.
LEMMA handleChatStep == ASSUME IInv, NEW r \in Requests, handleChat(r) PROVE IInv' /\ SameBalance
  <1>1. /\ UNCHANGED <<conns, quota, held, listing>>
        /\ phase[r] \in {"idle"}
        /\ \E p \in {"select", "done"} : phase' = [phase EXCEPT ![r] = p]
    BY DEF handleChat, Ends, Moves, sessions
  <1> QED BY <1>1, QuietStep, Zenon DEF Counted, Phases

\* The answer of a backend (router.go:191) keeps the invariant.
LEMMA forwardRequestWithTimeoutStep ==
    ASSUME IInv, NEW r \in Requests, forwardRequestWithTimeout(r) PROVE IInv' /\ SameBalance
  <1>1. /\ UNCHANGED <<conns, quota, held, listing>>
        /\ phase[r] \in {"sent", "resent"}
        /\ \E p \in {"touch", "finish"} : phase' = [phase EXCEPT ![r] = p]
    BY DEF forwardRequestWithTimeout, Moves, sessions
  <1> QED BY <1>1, QuietStep, Zenon DEF Counted, Phases

\* updateSessionActivity (session.go:48) keeps the invariant.
LEMMA updateSessionActivityStep ==
    ASSUME IInv, NEW r \in Requests, updateSessionActivity(r) PROVE IInv' /\ SameBalance
  <1>1. /\ UNCHANGED <<conns, quota, held, listing>>
        /\ phase[r] \in {"touch"}
        /\ \E p \in {"sync"} : phase' = [phase EXCEPT ![r] = p]
    BY DEF updateSessionActivity, Moves, sessions
  <1> QED BY <1>1, QuietStep, Zenon DEF Counted, Phases

\* The broadcast of a session (session.go:87) keeps the invariant.
LEMMA syncSessionStep == ASSUME IInv, NEW r \in Requests, syncSession(r) PROVE IInv' /\ SameBalance
  <1>1. /\ UNCHANGED <<conns, quota, held, listing>>
        /\ phase[r] \in {"sync"}
        /\ \E p \in {"finish"} : phase' = [phase EXCEPT ![r] = p]
    BY DEF syncSession, Moves, sessions
  <1> QED BY <1>1, QuietStep, Zenon DEF Counted, Phases

\* The failure of a backend (router.go:143) keeps the invariant.
LEMMA BackendFailsStep == ASSUME IInv, NEW r \in Requests, BackendFails(r) PROVE IInv' /\ SameBalance
  <1>1. /\ UNCHANGED <<conns, quota, held, listing>>
        /\ phase[r] \in {"sent", "resent"}
        /\ \E p \in {"failover"} : phase' = [phase EXCEPT ![r] = p]
    BY DEF BackendFails, Moves, sessions
  <1> QED BY <1>1, QuietStep, Zenon DEF Counted, Phases

\* tryFailover (failover.go:11) keeps the invariant.
LEMMA tryFailoverStep == ASSUME IInv, NEW r \in Requests, tryFailover(r) PROVE IInv' /\ SameBalance
  <1>1. /\ UNCHANGED <<conns, quota, held, listing>>
        /\ phase[r] \in {"failover"}
        /\ \E p \in {"finish", "resent", "release"} : phase' = [phase EXCEPT ![r] = p]
    BY DEF tryFailover, Moves, sessions
  <1> QED BY <1>1, QuietStep, Zenon DEF Counted, Phases

\* selectBackend (backend.go:30) keeps the invariant.
LEMMA selectBackendStep == ASSUME IInv, NEW r \in Requests, selectBackend(r) PROVE IInv' /\ SameBalance
  <1> DEFINE found == BackendsOf(ModelOf[r])
  <1>1. CASE Ends(r, "select", "unavailable")
    <2>1. /\ UNCHANGED <<conns, quota, held, listing>>
          /\ phase[r] = "select" /\ phase' = [phase EXCEPT ![r] = "done"]
      BY <1>1 DEF Ends, Moves, sessions
    <2> QED BY <2>1, QuietStep, Zenon DEF Counted, Phases
  <1>2. CASE ~Ends(r, "select", "unavailable")
    <2>1. /\ UNCHANGED <<conns, quota, held>>
          /\ listing' = [listing EXCEPT ![r] = [backends |-> found, current |-> TRUE]]
          /\ phase[r] = "select"
          /\ \E p \in {"choose", "lookup"} : phase' = [phase EXCEPT ![r] = p]
      BY <1>2, Zenon DEF selectBackend, Moves, sessions
    <2>2. [backends |-> found, current |-> TRUE] \in Listings
      <3>1. found \in SUBSET Backends
        BY DEF BackendsOf
      <3> HIDE DEF found
      <3> QED BY <3>1, SMT DEF Listings
    <2> HIDE DEF found
    <2>3. /\ listing' \in [Requests -> Listings \cup {None}] /\ listing'[r] \in Listings
          /\ \A q \in Requests : q # r => listing'[q] = listing[q]
      BY <2>1, <2>2 DEF IInv, Counts
    <2>4. Counts'
      BY <2>1, <2>3 DEF IInv, Counts, Phases
    <2> QED BY <2>1, <2>3, <2>4, MoveStep, Zenon DEF Counted, Phases
  <1> QED BY <1>1, <1>2

\* A request takes a backend from its list (backend.go:41, backend.go:62).
LEMMA HoldsObject ==
    ASSUME IInv, NEW r \in Requests, NEW b \in listing[r].backends, Holds(r, b),
           phase[r] \in {"lookup", "choose"}
    PROVE  /\ held' \in [Requests -> Objects \cup {None}] /\ held'[r] \in Objects
           /\ \A q \in Requests : q # r => held'[q] = held[q]
  <1>1. listing[r] \in Listings
    BY DEF IInv, Pointers
  <1>2. listing[r].current \in BOOLEAN /\ b \in Backends
    BY <1>1 DEF Listings
  <1>3. [at |-> b, current |-> listing[r].current] \in Objects
    BY <1>2, Zenon DEF Objects
  <1> QED BY <1>3 DEF Holds, IInv, Counts

\* The lookup of the session (session.go:40) keeps the invariant.
LEMMA getSessionBackendStep == ASSUME IInv, NEW r \in Requests, getSessionBackend(r) PROVE IInv' /\ SameBalance
  <1> DEFINE b == session[SessionOf[r]].backend
  <1>0. phase[r] = "lookup" /\ UNCHANGED <<conns, quota, listing>>
    BY Zenon DEF getSessionBackend, sessions
  <1>1. CASE UNCHANGED held /\ \E p \in {"choose", "unbind"} : phase' = [phase EXCEPT ![r] = p]
    <2>1. listing[r] \in Listings
      BY <1>0, Zenon DEF IInv, Pointers
    <2> QED BY <1>0, <1>1, <2>1, QuietStep, Zenon DEF Counted, Phases
  <1>2. CASE /\ b \in listing[r].backends /\ Holds(r, b)
             /\ phase' = [phase EXCEPT ![r] = "connect"]
    <2> HIDE DEF b
    <2>1. /\ held' \in [Requests -> Objects \cup {None}] /\ held'[r] \in Objects
          /\ \A q \in Requests : q # r => held'[q] = held[q]
      BY <1>0, <1>2, HoldsObject, Zenon
    <2>2. Counts'
      BY <1>0, <1>2, <2>1, Zenon DEF IInv, Counts, Phases
    <2> QED BY <1>0, <1>2, <2>1, <2>2, MoveStep, Zenon DEF Counted, Phases
  <1> QED BY <1>1, <1>2, Zenon DEF getSessionBackend, Moves

\* An unbind of the selection (backend.go:47) keeps the invariant.
LEMMA UnbindStep == ASSUME IInv, NEW r \in Requests, Unbind(r) PROVE IInv' /\ SameBalance
  <1>1. /\ UNCHANGED <<held, listing>>
        /\ phase[r] = "unbind" /\ phase' = [phase EXCEPT ![r] = "choose"]
        /\ unbindSession(SessionOf[r])
    BY Zenon DEF Unbind, Moves
  <1>2. /\ conns' \in CountFns /\ quota' \in CountFns
        /\ \A k \in Models \X Backends : conns'[k] - quota'[k] = conns[k] - quota[k]
    BY <1>1, UnbindAlike, Zenon DEF IInv
  <1>3. Counts'
    BY <1>1, <1>2 DEF IInv, Counts, Phases
  <1>4. listing[r] \in Listings
    BY <1>1 DEF IInv, Pointers, Counted
  <1> QED BY <1>1, <1>2, <1>3, <1>4, MoveStep, Zenon DEF Counted, Phases

\* The unbind of the failover (failover.go:35) keeps the invariant.
LEMMA ReleaseStep == ASSUME IInv, NEW r \in Requests, Release(r) PROVE IInv' /\ SameBalance
  <1>1. /\ UNCHANGED <<held, listing>>
        /\ phase[r] = "release" /\ phase' = [phase EXCEPT ![r] = "bind"]
        /\ unbindSession(SessionOf[r])
    BY Zenon DEF Release, Moves
  <1>2. /\ conns' \in CountFns /\ quota' \in CountFns
        /\ \A k \in Models \X Backends : conns'[k] - quota'[k] = conns[k] - quota[k]
    BY <1>1, UnbindAlike, Zenon DEF IInv
  <1>3. Counts'
    BY <1>1, <1>2 DEF IInv, Counts, Phases
  <1>4. held[r] \in Objects
    BY <1>1 DEF IInv, Pointers, Counted
  <1> QED BY <1>1, <1>2, <1>3, <1>4, MoveStep, Zenon DEF Counted, Phases

\* The bind of the failover (failover.go:36) keeps the invariant.
LEMMA BindStep == ASSUME IInv, NEW r \in Requests, Bind(r) PROVE IInv' /\ SameBalance
  <1>1. /\ UNCHANGED <<held, listing>>
        /\ phase[r] = "bind" /\ phase' = [phase EXCEPT ![r] = "resent"]
        /\ bindSession(SessionOf[r], ModelOf[r], tried[r])
    BY Zenon DEF Bind, Moves
  <1>2. /\ conns' \in CountFns /\ quota' \in CountFns
        /\ \A k \in Models \X Backends : conns'[k] - quota'[k] = conns[k] - quota[k]
    BY <1>1, BindAlike, Zenon DEF IInv
  <1>3. Counts'
    BY <1>1, <1>2 DEF IInv, Counts, Phases
  <1>4. held[r] \in Objects
    BY <1>1 DEF IInv, Pointers, Counted
  <1> QED BY <1>1, <1>2, <1>3, <1>4, MoveStep, Zenon DEF Counted, Phases

\* The choice by score (backend.go:68) keeps the invariant.
LEMMA selectBackendByScoreStep ==
    ASSUME IInv, NEW r \in Requests, selectBackendByScore(r) PROVE IInv' /\ SameBalance
  <1>1. /\ UNCHANGED listing
        /\ phase[r] = "choose" /\ phase' = [phase EXCEPT ![r] = "connect"]
    BY Zenon DEF selectBackendByScore, Moves
  <1>2. PICK b \in listing[r].backends : Holds(r, b)
    BY DEF selectBackendByScore
  <1>3. /\ held' \in [Requests -> Objects \cup {None}] /\ held'[r] \in Objects
        /\ \A q \in Requests : q # r => held'[q] = held[q]
    BY <1>1, <1>2, HoldsObject
  <1>4. /\ conns' \in CountFns /\ quota' \in CountFns
        /\ \A k \in Models \X Backends : conns'[k] - quota'[k] = conns[k] - quota[k]
    <2>1. CASE SessionOf[r] = None
      BY <2>1, Zenon DEF selectBackendByScore, sessions, IInv, Counts
    <2>2. CASE SessionOf[r] # None
      <3>1. bindSession(SessionOf[r], ModelOf[r], held'[r])
        BY <2>2, Zenon DEF selectBackendByScore
      <3> QED BY <3>1, BindAlike, Zenon DEF IInv
    <2> QED BY <2>1, <2>2
  <1>5. Counts'
    BY <1>1, <1>3, <1>4, Zenon DEF IInv, Counts, Phases
  <1> QED BY <1>1, <1>3, <1>4, <1>5, MoveStep, Zenon DEF Counted, Phases

\* A step of no request that treats both counts alike keeps the invariant.
LEMMA OtherStep ==
    ASSUME IInv, UNCHANGED <<phase, held, listing>>,
           conns' \in CountFns, quota' \in CountFns,
           \A k \in Models \X Backends : conns'[k] - quota'[k] = conns[k] - quota[k]
    PROVE  IInv' /\ SameBalance
  <1>1. Counts' /\ Pointers'
    BY DEF IInv, Counts, Pointers
  <1>2. Covered' /\ SameBalance
    BY Keeps
  <1> QED BY <1>1, <1>2 DEF IInv

\* The expiry of sessions, the election and an idle program keep the invariant.
LEMMA IdleStep ==
    ASSUME IInv,
           \/ \E s \in Sessions : Expire(s)
           \/ getPeersAndStartElection
           \/ UNCHANGED vars
    PROVE  IInv' /\ SameBalance
  <1>1. UNCHANGED <<phase, held, listing, conns, quota>>
    BY DEF Expire, getPeersAndStartElection, vars, chat, sessions
  <1> QED BY <1>1, OtherStep DEF IInv, Counts

\* cleanupExpiredSessions (session.go:57) keeps the invariant.
LEMMA cleanupExpiredSessionsStep == ASSUME IInv, cleanupExpiredSessions PROVE IInv' /\ SameBalance
  <1> DEFINE expired == {s \in Sessions : session[s] # None /\ ~session[s].fresh}
  <1>1. /\ UNCHANGED <<phase, held, listing>>
        /\ conns' = Freed(conns, expired) /\ quota' = Freed(quota, expired)
    BY DEF cleanupExpiredSessions, chat
  <1>2. IsFiniteSet(expired)
    BY FS_Subset, ModelPluginAssumption
  <1> HIDE DEF expired
  <1>3. /\ conns' \in CountFns /\ quota' \in CountFns
        /\ \A k \in Models \X Backends : conns'[k] - quota'[k] = conns[k] - quota[k]
    BY <1>1, <1>2, FreedAlike, Zenon DEF IInv
  <1> QED BY <1>1, <1>3, OtherStep

-----------------------------------------------------------------------------
\* The increment of ActiveConn (router.go:120) keeps the invariant: the request becomes
\* a holder of the object, if that is still current.
LEMMA ConnectStep == ASSUME IInv, NEW r \in Requests, Connect(r) PROVE IInv' /\ SameBalance
  <1>1. /\ UNCHANGED <<held, listing, quota>>
        /\ phase[r] = "connect" /\ phase' = [phase EXCEPT ![r] = "sent"]
        /\ conns' = Add(conns, ModelOf[r], held[r], 1)
    BY DEF Connect, Moves, sessions
  <1>2. /\ conns' \in CountFns
        /\ \A k \in Models \X Backends : conns'[k] =
              IF held[r].current /\ k = <<ModelOf[r], held[r].at>> THEN conns[k] + 1 ELSE conns[k]
    <2>1. conns \in CountFns
      BY DEF IInv, Counts
    <2>2. Add(conns, ModelOf[r], held[r], 1) \in CountFns
      BY <2>1, AddType, 1 \in Int, Zenon
    <2>3. ASSUME NEW k \in Models \X Backends
          PROVE  Add(conns, ModelOf[r], held[r], 1)[k] =
                    IF held[r].current /\ k = <<ModelOf[r], held[r].at>>
                    THEN conns[k] + 1 ELSE conns[k]
      BY <2>1, AddAt, 1 \in Int
    <2> QED BY <1>1, <2>2, <2>3
  <1>3. Counts' /\ Pointers'
    BY <1>1, <1>2, Zenon DEF IInv, Counts, Pointers, Phases, Counted
  <1>4. ASSUME NEW m \in Models, NEW b \in Backends
        PROVE  conns'[<<m, b>>] - quota'[<<m, b>>] - Cardinality(Holders(m, b)') =
               conns[<<m, b>>] - quota[<<m, b>>] - Cardinality(Holders(m, b))
    <2>1. conns[<<m, b>>] \in Int /\ quota[<<m, b>>] \in Int
      BY DEF IInv, Counts, CountFns
    <2>2. CASE held[r].current /\ m = ModelOf[r] /\ b = held[r].at
      <3>1. Holders(m, b)' = Holders(m, b) \cup {r} /\ r \notin Holders(m, b)
        BY <1>1, <2>2, Zenon DEF Holders, Connected, IInv, Counts
      <3>2. Cardinality(Holders(m, b)') = Cardinality(Holders(m, b)) + 1
        BY <3>1, HoldersFinite, FS_AddElement, Zenon
      <3>3. conns'[<<m, b>>] = conns[<<m, b>>] + 1
        BY <1>2, <2>2, Zenon
      <3> QED BY <1>1, <2>1, <3>2, <3>3, HoldersFinite
    <2>3. CASE ~(held[r].current /\ m = ModelOf[r] /\ b = held[r].at)
      <3>1. Holders(m, b)' = Holders(m, b)
        BY <1>1, <2>3, Zenon DEF Holders, Connected, IInv, Counts
      <3>2. conns'[<<m, b>>] = conns[<<m, b>>]
        BY <1>2, <2>3
      <3> QED BY <1>1, <2>1, <3>1, <3>2, Zenon
    <2> QED BY <2>2, <2>3, Zenon
  <1>5. SameBalance
    BY <1>4, Zenon DEF SameBalance
  <1> QED BY <1>3, <1>5, BalanceKeeps DEF IInv

\* The deferred decrement of ActiveConn (router.go:123) keeps the invariant: it hits an
\* object only if the request is one of its holders.
LEMMA FinishStep == ASSUME IInv, NEW r \in Requests, Finish(r) PROVE IInv' /\ SameBalance
  <1>1. /\ UNCHANGED <<held, listing, quota>>
        /\ phase[r] = "finish" /\ phase' = [phase EXCEPT ![r] = "done"]
        /\ conns' = Add(conns, ModelOf[r], held[r], -1)
    BY Zenon DEF Finish, Moves, sessions
  <1>2. /\ conns' \in CountFns
        /\ \A k \in Models \X Backends : conns'[k] =
              IF held[r].current /\ k = <<ModelOf[r], held[r].at>>
              THEN conns[k] + (-1) ELSE conns[k]
    <2>1. conns \in CountFns
      BY DEF IInv, Counts
    <2>2. Add(conns, ModelOf[r], held[r], -1) \in CountFns
      BY <2>1, AddType, -1 \in Int, Zenon
    <2>3. ASSUME NEW k \in Models \X Backends
          PROVE  Add(conns, ModelOf[r], held[r], -1)[k] =
                    IF held[r].current /\ k = <<ModelOf[r], held[r].at>>
                    THEN conns[k] + (-1) ELSE conns[k]
      <3>1. ASSUME NEW d \in Int
            PROVE  Add(conns, ModelOf[r], held[r], d)[k] =
                      IF held[r].current /\ k = <<ModelOf[r], held[r].at>>
                      THEN conns[k] + d ELSE conns[k]
        BY <2>1, AddAt
      <3> QED BY <3>1, -1 \in Int, Zenon
    <2> QED BY <1>1, <2>2, <2>3, Zenon
  <1>3. Counts' /\ Pointers'
    BY <1>1, <1>2, Zenon DEF IInv, Counts, Pointers, Phases, Counted
  <1>4. ASSUME NEW m \in Models, NEW b \in Backends
        PROVE  conns'[<<m, b>>] - quota'[<<m, b>>] - Cardinality(Holders(m, b)') =
               conns[<<m, b>>] - quota[<<m, b>>] - Cardinality(Holders(m, b))
    <2>1. conns[<<m, b>>] \in Int /\ quota[<<m, b>>] \in Int
      BY DEF IInv, Counts, CountFns
    <2>2. CASE held[r].current /\ m = ModelOf[r] /\ b = held[r].at
      <3>1. Holders(m, b)' = Holders(m, b) \ {r} /\ r \in Holders(m, b)
        BY <1>1, <2>2, Zenon DEF Holders, Connected, IInv, Counts
      <3>2. Cardinality(Holders(m, b)') = Cardinality(Holders(m, b)) - 1
        BY <3>1, HoldersFinite, FS_RemoveElement, ZenonT(60)
      <3>3. conns'[<<m, b>>] = conns[<<m, b>>] - 1
        BY <1>2, <2>1, <2>2, Zenon
      <3> QED BY <1>1, <2>1, <3>2, <3>3, HoldersFinite
    <2>3. CASE ~(held[r].current /\ m = ModelOf[r] /\ b = held[r].at)
      <3>1. Holders(m, b)' = Holders(m, b)
        BY <1>1, <2>3, Zenon DEF Holders, Connected, IInv, Counts
      <3>2. conns'[<<m, b>>] = conns[<<m, b>>]
        BY <1>2, <2>3, Zenon
      <3> QED BY <1>1, <2>1, <3>1, <3>2, Zenon
    <2> QED BY <2>2, <2>3
  <1>5. SameBalance
    BY <1>4, Zenon DEF SameBalance
  <1> QED BY <1>3, <1>5, BalanceKeeps DEF IInv

\* doSync (sync.go:58) keeps the invariant: the new objects have no holders.
LEMMA doSyncStep == ASSUME IInv, doSync PROVE IInv'
  <1>1. PICK new \in SUBSET Serves :
           /\ conns' = [k \in Models \X Backends |-> IF k \in new \cap table THEN conns[k] ELSE 0]
           /\ quota' = [k \in Models \X Backends |-> IF k \in new \cap table THEN quota[k] ELSE 0]
    BY Zenon DEF doSync
  <1>2. /\ UNCHANGED phase
        /\ listing' = [r \in Requests |-> Outdated(listing[r])]
        /\ held' = [r \in Requests |-> Outdated(held[r])]
    BY Zenon DEF doSync
  <1>3. ASSUME NEW object \in Objects
        PROVE  Outdated(object) \in Objects /\ ~Outdated(object).current
    <2>1. object # None
      BY ModelPluginAssumption
    <2> QED BY <2>1, Zenon DEF Outdated, Objects
  <1>4. ASSUME NEW l \in Listings PROVE Outdated(l) \in Listings
    BY Zenon DEF Outdated, Listings
  <1>5. Outdated(None) = None
    BY DEF Outdated
  <1>6. Counts'
    <2>1. conns' \in CountFns /\ quota' \in CountFns
      BY <1>1 DEF IInv, Counts, CountFns
    <2>2. held' \in [Requests -> Objects \cup {None}]
      BY <1>2, <1>3, <1>5 DEF IInv, Counts
    <2>3. listing' \in [Requests -> Listings \cup {None}]
      BY <1>2, <1>4, <1>5 DEF IInv, Counts
    <2> QED BY <1>2, <2>1, <2>2, <2>3 DEF IInv, Counts
  <1>7. Pointers'
    BY <1>2, <1>3, <1>4, Zenon DEF IInv, Pointers
  <1>8. ASSUME NEW m \in Models, NEW b \in Backends
        PROVE  (conns[<<m, b>>] - quota[<<m, b>>] >= Cardinality(Holders(m, b)))'
    <2>1. Holders(m, b)' = {}
      BY <1>2, <1>3, Zenon DEF IInv, Pointers, Holders, Connected, Counted
    <2>2. Cardinality(Holders(m, b)') = 0
      BY <2>1, FS_EmptySet
    <2>3. /\ conns[<<m, b>>] - quota[<<m, b>>] >= 0
          /\ conns[<<m, b>>] \in Int /\ quota[<<m, b>>] \in Int
      BY CoveredByHolders, HoldersFinite DEF IInv, Counts, CountFns
    <2>4. \/ conns'[<<m, b>>] = conns[<<m, b>>] /\ quota'[<<m, b>>] = quota[<<m, b>>]
          \/ conns'[<<m, b>>] = 0 /\ quota'[<<m, b>>] = 0
      BY <1>1, <<m, b>> \in Models \X Backends, Zenon
    <2> QED BY <2>2, <2>3, <2>4
  <1>9. Covered'
    BY <1>8, Zenon DEF Covered, Holders
  <1> QED BY <1>6, <1>7, <1>9 DEF IInv

\* Every step keeps the invariant.
LEMMA NextIInv == ASSUME IInv, [Next]_vars PROVE IInv'
  <1>1. CASE \E r \in Requests : handleChat(r) \/ Handle(r)
    <2>1. PICK r \in Requests : handleChat(r) \/ Handle(r)
      BY <1>1, Zenon
    <2> QED BY <2>1, handleChatStep, selectBackendStep, getSessionBackendStep, UnbindStep,
               selectBackendByScoreStep, ConnectStep, forwardRequestWithTimeoutStep,
               BackendFailsStep, updateSessionActivityStep, syncSessionStep, FinishStep,
               tryFailoverStep, ReleaseStep, BindStep, Zenon DEF Handle
  <1>2. CASE (\E s \in Sessions : Expire(s)) \/ getPeersAndStartElection \/ UNCHANGED vars
    BY <1>2, IdleStep
  <1>3. CASE cleanupExpiredSessions
    BY <1>3, cleanupExpiredSessionsStep
  <1>4. CASE doSync
    BY <1>4, doSyncStep
  <1> QED BY <1>1, <1>2, <1>3, <1>4 DEF Next

\* ActiveConn of an object is never less than the requests that hold it, its share of
\* the sessions apart (router.go:120, sync.go:58), for any number of requests, sessions,
\* failovers and calls of doSync.
THEOREM CoveredHolds == Spec => []Covered
  <1>1. IInv => Covered
    BY DEF IInv
  <1> QED BY <1>1, InitIInv, NextIInv, PTL DEF Spec

-----------------------------------------------------------------------------
(* The types of all variables.                                             *)

\* A request of a session looks it up, touches it and moves it; a request that moves
\* it has found another backend.
Handles ==
    \A r \in Requests :
        /\ phase[r] \in {"lookup", "unbind", "touch", "sync", "release", "bind"} =>
              SessionOf[r] \in Sessions
        /\ phase[r] \in {"release", "bind"} => tried[r] \in Objects

\* The types that Counts leaves out.
Rest ==
    /\ isMaster \in BOOLEAN
    /\ table \subseteq Serves
    /\ session \in [Sessions -> Bindings \cup {None}]
    /\ tried \in [Requests -> Objects \cup {None}]
    /\ answer \in [Requests -> Answers]
    /\ syncs \in 0..MaxSyncs

TypeInv == IInv /\ Rest /\ Handles

\* The types in two parts.
LEMMA TypeParts == TypeOK <=> Counts /\ Rest
  BY Zenon DEF TypeOK, Counts, Rest, CountFns

\* A request is in a session or in none.
LEMMA SessionOrNone ==
    ASSUME NEW r \in Requests PROVE SessionOf[r] # None => SessionOf[r] \in Sessions
  BY ModelPluginAssumption

\* A new binding of a session (session.go:9, election.go:304).
LEMMA BindingType ==
    ASSUME NEW b \in Backends \cup {None}, NEW f \in BOOLEAN
    PROVE  [backend |-> b, fresh |-> f] \in Bindings
  BY Zenon DEF Bindings

\* Only the activity of a binding changes (session.go:48).
LEMMA FreshType ==
    ASSUME NEW old \in Bindings, NEW f \in BOOLEAN
    PROVE  [old EXCEPT !.fresh = f] \in Bindings
  BY Zenon DEF Bindings

\* One value of a function is replaced.
LEMMA OneReplaced ==
    ASSUME NEW D, NEW R, NEW fn \in [D -> R], NEW x, NEW v \in R
    PROVE  [fn EXCEPT ![x] = v] \in [D -> R]
  BY Zenon

\* A step of a request r to phase p.
LEMMA HandlesMove ==
    ASSUME TypeInv, NEW r \in Requests, NEW p \in Phases, phase' = [phase EXCEPT ![r] = p],
           p \in {"lookup", "unbind", "touch", "sync", "release", "bind"} => SessionOf[r] \in Sessions,
           p \in {"release", "bind"} => tried'[r] \in Objects,
           \A q \in Requests : q # r => tried'[q] = tried[q]
    PROVE  Handles'
  <1>1. /\ \A q \in Requests : q # r => phase'[q] = phase[q]
        /\ phase'[r] = p
    BY Zenon DEF TypeInv, IInv, Counts
  <1> QED BY <1>1, Zenon DEF TypeInv, Handles

\* A session is bound to an object of the request (session.go:9).
LEMMA BindType ==
    ASSUME TypeInv, NEW s, NEW m, NEW object \in Objects, bindSession(s, m, object)
    PROVE  session' \in [Sessions -> Bindings \cup {None}]
  <1>1. object.at \in Backends
    BY DEF Objects
  <1>2. [backend |-> object.at, fresh |-> TRUE] \in Bindings \cup {None}
    BY <1>1, BindingType, Zenon
  <1> QED BY <1>2, OneReplaced, Zenon DEF bindSession, TypeInv, Rest

\* A session is unbound (session.go:23).
LEMMA UnbindType ==
    ASSUME TypeInv, NEW s, unbindSession(s)
    PROVE  session' \in [Sessions -> Bindings \cup {None}]
  BY OneReplaced, Zenon DEF unbindSession, TypeInv, Rest

\* handleChat and what it calls before a backend is held keep the types.
LEMMA ChatRest ==
    ASSUME TypeInv, NEW r \in Requests,
           handleChat(r) \/ selectBackend(r) \/ getSessionBackend(r) \/ Connect(r) \/ Finish(r)
                         \/ BackendFails(r)
    PROVE  Rest' /\ Handles'
  <1>1. /\ UNCHANGED <<isMaster, table, session, tried, syncs>>
        /\ \/ UNCHANGED answer
           \/ answer' = [answer EXCEPT ![r] = "unavailable"]
    BY Zenon
       DEF handleChat, selectBackend, getSessionBackend, Connect, Finish, BackendFails, Ends,
           sessions
  <1>2. Rest'
    BY <1>1 DEF TypeInv, Rest, Answers
  <1>3. PICK p \in Phases :
           /\ phase' = [phase EXCEPT ![r] = p]
           /\ p \notin {"touch", "sync", "release", "bind"}
           /\ p = "lookup" => SessionOf[r] # None
           /\ p = "unbind" => phase[r] = "lookup"
    BY Zenon
       DEF handleChat, selectBackend, getSessionBackend, Connect, Finish, BackendFails, Ends,
           Moves, Phases
  <1>4. p \in {"lookup", "unbind"} => SessionOf[r] \in Sessions
    BY <1>3, SessionOrNone, Zenon DEF TypeInv, Handles
  <1>5. Handles'
    BY <1>1, <1>3, <1>4, HandlesMove, Zenon
  <1> QED BY <1>2, <1>5

\* The answer of a backend keeps the types.
LEMMA AnswerRest ==
    ASSUME TypeInv, NEW r \in Requests, forwardRequestWithTimeout(r)
    PROVE  Rest' /\ Handles'
  <1>1. /\ UNCHANGED <<isMaster, table, session, tried, syncs>>
        /\ \E body \in {"ok", "cut"} : answer' = [answer EXCEPT ![r] = body]
    BY Zenon DEF forwardRequestWithTimeout, sessions
  <1>2. Rest'
    BY <1>1 DEF TypeInv, Rest, Answers
  <1>3. PICK p \in Phases :
           /\ phase' = [phase EXCEPT ![r] = p]
           /\ p \in {"touch", "finish"}
           /\ p = "touch" => SessionOf[r] # None
    BY DEF forwardRequestWithTimeout, Moves, Phases
  <1>4. Handles'
    BY <1>1, <1>3, SessionOrNone, HandlesMove, Zenon
  <1> QED BY <1>2, <1>4, Zenon

\* The search for another backend (failover.go:11) keeps the types.
LEMMA FailoverRest ==
    ASSUME TypeInv, NEW r \in Requests, tryFailover(r) PROVE Rest' /\ Handles'
  <1>1. CASE /\ Moves(r, "failover", "finish")
             /\ answer' = [answer EXCEPT ![r] = "badGateway"]
             /\ UNCHANGED <<isMaster, table, session, tried, syncs>>
    <2>1. Rest'
      BY <1>1, Zenon DEF TypeInv, Rest, Answers
    <2>2. Handles'
      BY <1>1, HandlesMove, Zenon DEF Moves, Phases
    <2> QED BY <2>1, <2>2
  <1>2. CASE /\ Moves(r, "failover", IF SessionOf[r] = None THEN "resent" ELSE "release")
             /\ \E b \in FailoverCandidates(r) :
                   tried' = [tried EXCEPT ![r] = [at |-> b, current |-> TRUE]]
             /\ UNCHANGED <<isMaster, table, session, answer, syncs>>
    <2>1. PICK b \in FailoverCandidates(r) :
             tried' = [tried EXCEPT ![r] = [at |-> b, current |-> TRUE]]
      BY <1>2, Zenon
    <2>2. [at |-> b, current |-> TRUE] \in Objects
      BY Zenon DEF FailoverCandidates, BackendsOf, Objects
    <2>3. /\ tried' \in [Requests -> Objects \cup {None}] /\ tried'[r] \in Objects
          /\ \A q \in Requests : q # r => tried'[q] = tried[q]
      BY <2>1, <2>2 DEF TypeInv, Rest
    <2>4. Rest'
      BY <1>2, <2>3, Zenon DEF TypeInv, Rest
    <2>5. Handles'
      BY <1>2, <2>3, SessionOrNone, HandlesMove, Zenon DEF Moves, Phases
    <2> QED BY <2>4, <2>5
  <1> QED BY <1>1, <1>2, Zenon DEF tryFailover, sessions

\* The binds and unbinds of a request keep the types.
LEMMA MoveSessionRest ==
    ASSUME TypeInv, NEW r \in Requests,
           Unbind(r) \/ selectBackendByScore(r) \/ Release(r) \/ Bind(r)
    PROVE  Rest' /\ Handles'
  <1>1. UNCHANGED <<isMaster, table, tried, answer, syncs>>
    BY Zenon DEF Unbind, selectBackendByScore, Release, Bind
  <1>2. session' \in [Sessions -> Bindings \cup {None}]
    <2>1. CASE Unbind(r) \/ Release(r)
      BY <2>1, UnbindType, Zenon DEF Unbind, Release
    <2>2. CASE selectBackendByScore(r)
      <3>1. phase[r] = "choose" /\ phase' = [phase EXCEPT ![r] = "connect"]
        BY <2>2, Zenon DEF selectBackendByScore, Moves
      <3>2. held'[r] \in Objects
        <4>1. PICK b \in listing[r].backends : Holds(r, b)
          BY <2>2, Zenon DEF selectBackendByScore
        <4> QED BY <3>1, <4>1, HoldsObject, Zenon DEF TypeInv
      <3>3. CASE SessionOf[r] = None
        BY <2>2, <3>3, Zenon DEF selectBackendByScore, sessions, TypeInv, Rest
      <3>4. CASE SessionOf[r] # None
        <4>1. bindSession(SessionOf[r], ModelOf[r], held'[r])
          BY <2>2, <3>4, Zenon DEF selectBackendByScore
        <4> QED BY <3>2, <4>1, BindType, Zenon
      <3> QED BY <3>3, <3>4
    <2>3. CASE Bind(r)
      <3>1. tried[r] \in Objects
        BY <2>3, Zenon DEF Bind, Moves, TypeInv, Handles
      <3> QED BY <2>3, <3>1, BindType, Zenon DEF Bind
    <2> QED BY <2>1, <2>2, <2>3
  <1>3. Rest'
    BY <1>1, <1>2, Zenon DEF TypeInv, Rest
  <1>4. PICK p \in Phases :
           /\ phase' = [phase EXCEPT ![r] = p]
           /\ p \in {"choose", "connect", "bind", "resent"}
           /\ p = "bind" => phase[r] = "release"
    BY Zenon DEF Unbind, selectBackendByScore, Release, Bind, Moves, Phases
  <1>5. p = "bind" => SessionOf[r] \in Sessions /\ tried'[r] \in Objects
    BY <1>1, <1>4, Zenon DEF TypeInv, Handles
  <1>6. Handles'
    BY <1>1, <1>4, <1>5, HandlesMove, Zenon
  <1> QED BY <1>3, <1>6, Zenon

\* The end of a request of a session (session.go:48, session.go:87) keeps the types.
LEMMA TouchRest ==
    ASSUME TypeInv, NEW r \in Requests, updateSessionActivity(r) \/ syncSession(r)
    PROVE  Rest' /\ Handles'
  <1>1. UNCHANGED <<isMaster, table, tried, answer, syncs>>
    BY DEF updateSessionActivity, syncSession
  <1>2. SessionOf[r] \in Sessions /\ session \in [Sessions -> Bindings \cup {None}]
    BY DEF updateSessionActivity, syncSession, Moves, TypeInv, Handles, Rest
  <1>3. session' \in [Sessions -> Bindings \cup {None}]
    <2>1. CASE updateSessionActivity(r)
      <3> DEFINE old == session[SessionOf[r]]
                 new == IF old = None THEN None ELSE [old EXCEPT !.fresh = TRUE]
      <3>1. session' = [session EXCEPT ![SessionOf[r]] = new]
        BY <2>1, Zenon DEF updateSessionActivity
      <3>2. new \in Bindings \cup {None}
        <4>1. old \in Bindings \cup {None}
          BY <1>2, Zenon
        <4> HIDE DEF old
        <4> QED BY <4>1, FreshType, Zenon
      <3> HIDE DEF new
      <3> QED BY <1>2, <3>1, <3>2, OneReplaced, Zenon
    <2>2. CASE syncSession(r)
      <3>1. [backend |-> None, fresh |-> FALSE] \in Bindings \cup {None}
        BY BindingType, Zenon
      <3>2. \/ session' = session
            \/ session' = [session EXCEPT ![SessionOf[r]] = [backend |-> None, fresh |-> FALSE]]
        BY <2>2, Zenon DEF syncSession, handleSessionSync
      <3> QED BY <1>2, <3>1, <3>2, OneReplaced, Zenon
    <2> QED BY <2>1, <2>2
  <1>4. Rest'
    BY <1>1, <1>3 DEF TypeInv, Rest
  <1>5. PICK p \in {"sync", "finish"} : phase' = [phase EXCEPT ![r] = p]
    BY DEF updateSessionActivity, syncSession, Moves
  <1>6. Handles'
    BY <1>1, <1>2, <1>5, HandlesMove, Zenon DEF Phases
  <1> QED BY <1>4, <1>6, Zenon

\* The background tasks keep the types.
LEMMA TasksRest ==
    ASSUME TypeInv,
           \/ \E s \in Sessions : Expire(s)
           \/ getPeersAndStartElection \/ cleanupExpiredSessions \/ UNCHANGED vars
    PROVE  Rest' /\ Handles'
  <1>1. UNCHANGED <<phase, table, tried, answer, syncs>>
    BY DEF Expire, getPeersAndStartElection, cleanupExpiredSessions, vars, chat
  <1>2. isMaster' \in BOOLEAN
    BY Zenon DEF Expire, getPeersAndStartElection, cleanupExpiredSessions, vars, TypeInv, Rest
  <1>3. session \in [Sessions -> Bindings \cup {None}]
    BY DEF TypeInv, Rest
  <1>4. session' \in [Sessions -> Bindings \cup {None}]
    <2>1. CASE getPeersAndStartElection \/ UNCHANGED vars
      BY <1>3, <2>1, Zenon DEF getPeersAndStartElection, vars, sessions
    <2>2. CASE cleanupExpiredSessions
      <3>1. \A s \in Sessions : session[s] \in Bindings \cup {None}
        BY <1>3
      <3> QED BY <2>2, <3>1, Zenon DEF cleanupExpiredSessions
    <2>3. ASSUME NEW s \in Sessions, Expire(s)
          PROVE  session' \in [Sessions -> Bindings \cup {None}]
      <3> DEFINE old == session[s]
                 new == [old EXCEPT !.fresh = FALSE]
      <3>1. session' = [session EXCEPT ![s] = new]
        BY <2>3, Zenon DEF Expire
      <3>2. old \in Bindings
        BY <1>3, <2>3 DEF Expire
      <3> HIDE DEF old
      <3>3. new \in Bindings \cup {None}
        BY <3>2, FreshType, Zenon
      <3> HIDE DEF new
      <3> QED BY <1>3, <3>1, <3>3, OneReplaced, Zenon
    <2> QED BY <2>1, <2>2, <2>3
  <1>5. Rest'
    BY <1>1, <1>2, <1>4, Zenon DEF TypeInv, Rest
  <1>6. Handles'
    BY <1>1, Zenon DEF TypeInv, Handles
  <1> QED BY <1>5, <1>6, Zenon

\* An object that doSync replaces stays an object, with the same address.
LEMMA OutdatedObject ==
    ASSUME NEW object \in Objects
    PROVE  /\ Outdated(object) \in Objects /\ ~Outdated(object).current
           /\ Outdated(object).at = object.at
  <1>1. object # None
    BY ModelPluginAssumption
  <1> QED BY <1>1, Zenon DEF Outdated, Objects

\* doSync (sync.go:58) keeps the types.
LEMMA doSyncRest == ASSUME TypeInv, doSync PROVE Rest' /\ Handles'
  <1>1. /\ UNCHANGED <<isMaster, session, phase, answer>>
        /\ table' \subseteq Serves
        /\ tried' = [r \in Requests |-> Outdated(tried[r])]
        /\ syncs' = syncs + 1 /\ syncs < MaxSyncs
    BY Zenon DEF doSync
  <1>2. /\ tried' \in [Requests -> Objects \cup {None}]
        /\ \A r \in Requests : tried[r] \in Objects => tried'[r] \in Objects
    <2>1. Outdated(None) = None
      BY Zenon DEF Outdated
    <2>2. \A r \in Requests : tried[r] \in Objects \cup {None}
      BY DEF TypeInv, Rest
    <2> QED BY <1>1, <2>1, <2>2, OutdatedObject
  <1>3. syncs' \in 0..MaxSyncs
    BY <1>1, ModelPluginAssumption DEF TypeInv, Rest
  <1>4. Rest'
    BY <1>1, <1>2, <1>3, Zenon DEF TypeInv, Rest
  <1>5. Handles'
    BY <1>1, <1>2, Zenon DEF TypeInv, Handles
  <1> QED BY <1>4, <1>5

\* The plugin starts with the right types.
LEMMA InitTypeInv == Init => TypeInv
  <1> SUFFICES ASSUME Init PROVE TypeInv
    OBVIOUS
  <1>1. isMaster \in BOOLEAN /\ table \subseteq Serves
    BY Zenon DEF Init
  <1>2. /\ session \in [Sessions -> Bindings \cup {None}]
        /\ tried \in [Requests -> Objects \cup {None}]
        /\ answer \in [Requests -> Answers] /\ syncs \in 0..MaxSyncs
    BY ModelPluginAssumption DEF Init, Answers
  <1>3. Rest
    BY <1>1, <1>2, Zenon DEF Rest
  <1>4. Handles
    BY Zenon DEF Init, Handles
  <1> QED BY <1>3, <1>4, InitIInv DEF TypeInv

\* Every step keeps the types.
LEMMA NextTypeInv == ASSUME TypeInv, [Next]_vars PROVE TypeInv'
  <1>1. IInv'
    BY NextIInv DEF TypeInv
  <1>2. Rest' /\ Handles'
    <2>1. CASE \E r \in Requests : handleChat(r) \/ Handle(r)
      <3>1. PICK r \in Requests : handleChat(r) \/ Handle(r)
        BY <2>1, Zenon
      <3> QED BY <3>1, ChatRest, AnswerRest, FailoverRest, MoveSessionRest, TouchRest, Zenon
              DEF Handle
    <2>2. CASE doSync
      BY <2>2, doSyncRest
    <2>3. CASE \/ \E s \in Sessions : Expire(s)
               \/ getPeersAndStartElection \/ cleanupExpiredSessions \/ UNCHANGED vars
      BY <2>3, TasksRest
    <2> QED BY <2>1, <2>2, <2>3, Zenon DEF Next
  <1> QED BY <1>1, <1>2 DEF TypeInv

\* TypeInv is an invariant.
LEMMA TypeInvHolds == Spec => []TypeInv
  BY InitTypeInv, NextTypeInv, PTL DEF Spec

\* The types hold: in particular a request that moves its session (failover.go:34) has
\* found a backend, and a lookup concerns a session.
THEOREM TypeCorrect == Spec => []TypeOK
  <1>1. TypeInv => TypeOK
    BY TypeParts DEF TypeInv, IInv
  <1> QED BY <1>1, TypeInvHolds, PTL

-----------------------------------------------------------------------------
(* Sessions keep their backend.                                            *)

\* A session whose requests are all at b, is bound to b, if at all.
Sticky ==
    \A s \in Sessions, b \in Backends :
        AllAt(s, b) => session[s] = None \/ session[s].backend \in {None, b}

\* No backend was tried in a failover before one was chosen.
Untried ==
    \A r \in Requests :
        phase[r] \in {"idle", "select", "lookup", "unbind", "choose"} => tried[r] = None

\* What changes a session only by taking its backend away, and brings no request of it to
\* a backend, keeps Sticky.
LEMMA StickyKept ==
    ASSUME Sticky,
           \A s \in Sessions, b \in Backends : AllAt(s, b)' => AllAt(s, b),
           \A s \in Sessions :
               \/ session'[s] = None
               \/ session'[s].backend = None
               \/ session[s] # None /\ session'[s].backend = session[s].backend
    PROVE  Sticky'
  <1> SUFFICES ASSUME NEW s \in Sessions, NEW b \in Backends, AllAt(s, b)'
               PROVE  session'[s] = None \/ session'[s].backend \in {None, b}
    BY Zenon DEF Sticky
  <1>1. session[s] = None \/ session[s].backend \in {None, b}
    BY Zenon DEF Sticky
  <1> QED BY <1>1, Zenon

\* Whether q is at b, or does not count, for AllAt.
At(q, b) ==
    \/ phase[q] \in {"idle", "select", "lookup"}
    \/ phase[q] = "done" /\ held[q] = None
    \/ phase[q] \notin {"unbind", "choose", "release", "bind"} /\ Failed(q).at = b

\* AllAt, request by request.
LEMMA AllAtEach ==
    ASSUME NEW s, NEW b
    PROVE  AllAt(s, b) <=> \A q \in Requests : SessionOf[q] = s => At(q, b)
  BY DEF AllAt, At

\* Only the request that moves can come to a backend.
LEMMA AllAtMove ==
    ASSUME TypeInv, NEW r \in Requests, NEW p \in Phases, phase' = [phase EXCEPT ![r] = p],
           \A q \in Requests : q # r => held'[q] = held[q] /\ tried'[q] = tried[q],
           NEW s, NEW b, SessionOf[r] = s => (At(r, b)' => At(r, b))
    PROVE  AllAt(s, b)' => AllAt(s, b)
  <1>1. \A q \in Requests : q # r => phase'[q] = phase[q]
    BY Zenon DEF TypeInv, IInv, Counts
  <1>2. ASSUME NEW q \in Requests, SessionOf[q] = s, At(q, b)' PROVE At(q, b)
    <2>1. CASE q = r
      BY <1>2, <2>1, Zenon
    <2>2. CASE q # r
      <3>1. phase'[q] = phase[q] /\ held'[q] = held[q] /\ tried'[q] = tried[q]
        BY <1>1, <2>2, Zenon
      <3> QED BY <1>2, <3>1, Zenon DEF At, Failed
    <2> QED BY <2>1, <2>2, Zenon
  <1>3. (\A q \in Requests : SessionOf[q] = s => At(q, b)') =>
        (\A q \in Requests : SessionOf[q] = s => At(q, b))
    BY <1>2, Zenon
  <1>4. AllAt(s, b)' <=> \A q \in Requests : SessionOf[q] = s => At(q, b)'
    BY Zenon DEF AllAt, At
  <1> QED BY <1>3, <1>4, AllAtEach, Zenon

\* What a step of request r does to its session, but for the binds.
LEMMA SessionLoses ==
    ASSUME TypeInv, NEW r \in Requests,
           \/ handleChat(r) \/ selectBackend(r) \/ getSessionBackend(r) \/ Unbind(r)
           \/ Connect(r) \/ forwardRequestWithTimeout(r) \/ BackendFails(r)
           \/ updateSessionActivity(r) \/ syncSession(r) \/ Finish(r)
           \/ tryFailover(r) \/ Release(r),
           NEW s \in Sessions
    PROVE  \/ session'[s] = None
           \/ session'[s].backend = None
           \/ session[s] # None /\ session'[s].backend = session[s].backend
  <1>1. session \in [Sessions -> Bindings \cup {None}]
    BY Zenon DEF TypeInv, Rest
  <1>2. CASE UNCHANGED session
    BY <1>2, Zenon
  <1>3. CASE Unbind(r) \/ Release(r)
    BY <1>1, <1>3, Zenon DEF Unbind, Release, unbindSession
  <1>4. CASE updateSessionActivity(r)
    <2> DEFINE new == IF session[SessionOf[r]] = None THEN None
                      ELSE [session[SessionOf[r]] EXCEPT !.fresh = TRUE]
    <2>1. session' = [session EXCEPT ![SessionOf[r]] = new]
      BY <1>4, Zenon DEF updateSessionActivity
    <2>2. session[SessionOf[r]] # None /\ SessionOf[r] \in Sessions =>
             new.backend = session[SessionOf[r]].backend
      BY <1>1, Zenon DEF Bindings
    <2>3. session[SessionOf[r]] = None => new = None
      OBVIOUS
    <2> HIDE DEF new
    <2> QED BY <1>1, <2>1, <2>2, <2>3, Zenon
  <1>5. CASE syncSession(r)
    <2> DEFINE new == [backend |-> None, fresh |-> FALSE]
    <2>1. session' = session \/ session' = [session EXCEPT ![SessionOf[r]] = new]
      BY <1>5, Zenon DEF syncSession, handleSessionSync
    <2>2. new.backend = None
      BY Zenon
    <2> HIDE DEF new
    <2> QED BY <1>1, <1>2, <2>1, <2>2, Zenon
  <1> QED BY <1>2, <1>3, <1>4, <1>5, Zenon
          DEF handleChat, selectBackend, getSessionBackend, Connect, forwardRequestWithTimeout,
              BackendFails, Finish, tryFailover, Ends, sessions

\* A step of request r but for the binds brings it to no backend that it was not at, or
\* that its session was not bound to.
LEMMA StickyQuiet ==
    ASSUME TypeInv, Sticky, NEW r \in Requests,
           \/ handleChat(r) \/ selectBackend(r) \/ getSessionBackend(r) \/ Unbind(r)
           \/ Connect(r) \/ forwardRequestWithTimeout(r) \/ BackendFails(r)
           \/ updateSessionActivity(r) \/ syncSession(r) \/ Finish(r)
           \/ tryFailover(r) \/ Release(r)
    PROVE  Sticky'
  <1> DEFINE Early == handleChat(r) \/ selectBackend(r) \/ getSessionBackend(r)
             Middle == \/ Connect(r) \/ forwardRequestWithTimeout(r) \/ BackendFails(r)
                       \/ updateSessionActivity(r) \/ syncSession(r)
             Away == Unbind(r) \/ Release(r)
  <1>1. ASSUME NEW s \in Sessions, NEW b \in Backends PROVE AllAt(s, b)' => AllAt(s, b)
    <2>1. CASE Early
      <3>1. PICK p \in Phases : phase' = [phase EXCEPT ![r] = p]
        BY <2>1, Zenon DEF handleChat, selectBackend, getSessionBackend, Ends, Moves, Phases
      <3>2. At(r, b)
        BY <2>1, Zenon DEF At, handleChat, selectBackend, getSessionBackend, Ends, Moves
      <3>3. \A q \in Requests : q # r => held'[q] = held[q] /\ tried'[q] = tried[q]
        <4>1. UNCHANGED tried
          BY <2>1, Zenon DEF handleChat, selectBackend, getSessionBackend, Ends
        <4>2. UNCHANGED held \/ \E v : held' = [held EXCEPT ![r] = v]
          BY <2>1, Zenon DEF handleChat, selectBackend, getSessionBackend, Ends, Holds
        <4> QED BY <4>1, <4>2, Zenon DEF TypeInv, IInv, Counts
      <3> QED BY <3>1, <3>2, <3>3, AllAtMove, Zenon
    <2>2. CASE Middle
      <3>1. UNCHANGED <<held, tried>>
        BY <2>2, Zenon
           DEF Connect, forwardRequestWithTimeout, BackendFails, updateSessionActivity,
                    syncSession
      <3>2. PICK p \in Phases :
               /\ phase' = [phase EXCEPT ![r] = p]
               /\ phase[r] \in {"connect", "sent", "resent", "touch", "sync"}
               /\ p \in {"sent", "failover", "touch", "sync", "finish"}
        BY <2>2, Zenon
           DEF Connect, forwardRequestWithTimeout, BackendFails, updateSessionActivity,
                    syncSession, Moves, Phases
      <3>3. phase'[r] = p
        BY <3>2, Zenon DEF TypeInv, IInv, Counts
      <3>4. At(r, b)' => At(r, b)
        BY <3>1, <3>2, <3>3, Zenon DEF At, Failed
      <3> QED BY <3>1, <3>2, <3>4, AllAtMove, Zenon
    <2>3. CASE Away
      <3>1. /\ UNCHANGED <<held, tried>>
            /\ \E p \in {"choose", "bind"} : phase' = [phase EXCEPT ![r] = p]
        BY <2>3, Zenon DEF Unbind, Release, Moves
      <3>2. phase'[r] \in {"choose", "bind"}
        BY <3>1, Zenon DEF TypeInv, IInv, Counts
      <3>3. ~At(r, b)'
        BY <3>2, Zenon DEF At
      <3> QED BY <3>1, <3>3, AllAtMove, Zenon DEF Phases
    <2>4. CASE Finish(r)
      <3>1. /\ UNCHANGED <<held, tried>>
            /\ phase[r] = "finish" /\ phase' = [phase EXCEPT ![r] = "done"]
        BY <2>4, Zenon DEF Finish, Moves
      <3>2. held[r] # None
        BY <3>1, ModelPluginAssumption, Zenon DEF TypeInv, IInv, Pointers, Counted
      <3>3. phase'[r] = "done"
        BY <3>1, Zenon DEF TypeInv, IInv, Counts
      <3>4. At(r, b)' => At(r, b)
        BY <3>1, <3>2, <3>3, Zenon DEF At, Failed
      <3> QED BY <3>1, <3>4, AllAtMove, Zenon DEF Phases
    <2>5. CASE tryFailover(r)
      <3>1. /\ UNCHANGED held /\ phase[r] = "failover"
            /\ \/ UNCHANGED tried /\ phase' = [phase EXCEPT ![r] = "finish"]
               \/ /\ phase' = [phase EXCEPT ![r] =
                                  IF SessionOf[r] = None THEN "resent" ELSE "release"]
                  /\ \E v : tried' = [tried EXCEPT ![r] = v]
        BY <2>5, Zenon DEF tryFailover, Moves
      <3>2. CASE UNCHANGED tried /\ phase' = [phase EXCEPT ![r] = "finish"]
        <4>1. phase'[r] = "finish"
          BY <3>2, Zenon DEF TypeInv, IInv, Counts
        <4>2. At(r, b)' => At(r, b)
          BY <3>1, <3>2, <4>1, Zenon DEF At, Failed
        <4> QED BY <3>1, <3>2, <4>2, AllAtMove, Zenon DEF Phases
      <3>3. CASE /\ phase' = [phase EXCEPT ![r] =
                                  IF SessionOf[r] = None THEN "resent" ELSE "release"]
                 /\ \E v : tried' = [tried EXCEPT ![r] = v]
        <4>1. \A q \in Requests : q # r => tried'[q] = tried[q]
          BY <3>3, Zenon DEF TypeInv, Rest
        <4>2. SessionOf[r] = s => phase'[r] = "release"
          BY <3>3, ModelPluginAssumption, Zenon DEF TypeInv, IInv, Counts
        <4>3. SessionOf[r] = s => (At(r, b)' => At(r, b))
          BY <4>2, Zenon DEF At
        <4>4. PICK p \in Phases : phase' = [phase EXCEPT ![r] = p]
          BY <3>3, Zenon DEF Phases
        <4> QED BY <3>1, <4>1, <4>3, <4>4, AllAtMove, Zenon
      <3> QED BY <3>1, <3>2, <3>3, Zenon
    <2> QED BY <2>1, <2>2, <2>3, <2>4, <2>5, Zenon
  <1>2. \A s \in Sessions :
           \/ session'[s] = None
           \/ session'[s].backend = None
           \/ session[s] # None /\ session'[s].backend = session[s].backend
    BY SessionLoses, Zenon
  <1> QED BY <1>1, <1>2, StickyKept, Zenon

\* A bind brings the session to the backend of its request (session.go:9).
LEMMA StickyBound ==
    ASSUME TypeInv, Sticky, NEW r \in Requests, NEW p \in Phases,
           phase' = [phase EXCEPT ![r] = p], p \in {"connect", "resent"},
           \A q \in Requests : q # r => held'[q] = held[q] /\ tried'[q] = tried[q],
           IF SessionOf[r] = None THEN UNCHANGED session
           ELSE bindSession(SessionOf[r], ModelOf[r], Failed(r)')
    PROVE  Sticky'
  <1> SUFFICES ASSUME NEW s \in Sessions, NEW b \in Backends, AllAt(s, b)'
               PROVE  session'[s] = None \/ session'[s].backend \in {None, b}
    BY Zenon DEF Sticky
  <1>1. session \in [Sessions -> Bindings \cup {None}] /\ s # None
    BY ModelPluginAssumption, Zenon DEF TypeInv, Rest
  <1>2. CASE SessionOf[r] = s
    <2>1. phase'[r] = p
      BY Zenon DEF TypeInv, IInv, Counts
    <2>2. Failed(r)'.at = b
      BY <1>2, <2>1, Zenon DEF AllAt, Failed
    <2>3. session' = [session EXCEPT ![s] = [backend |-> Failed(r)'.at, fresh |-> TRUE]]
      BY <1>1, <1>2, Zenon DEF bindSession
    <2> QED BY <1>1, <2>2, <2>3, Zenon
  <1>3. CASE SessionOf[r] # s
    <2>1. session'[s] = session[s]
      BY <1>1, <1>3, Zenon DEF bindSession
    <2>2. AllAt(s, b)
      BY <1>3, AllAtMove, Zenon
    <2> QED BY <2>1, <2>2, Zenon DEF Sticky
  <1> QED BY <1>2, <1>3, Zenon

\* The binds of a request (backend.go:53, failover.go:36) keep Sticky.
LEMMA StickyBinds ==
    ASSUME TypeInv, Sticky, Untried, NEW r \in Requests, selectBackendByScore(r) \/ Bind(r)
    PROVE  Sticky'
  <1>1. CASE selectBackendByScore(r)
    <2>1. /\ phase[r] = "choose" /\ phase' = [phase EXCEPT ![r] = "connect"]
          /\ UNCHANGED tried
          /\ \E v : held' = [held EXCEPT ![r] = v]
      BY <1>1, Zenon DEF selectBackendByScore, Moves, Holds
    <2>2. Failed(r)' = held'[r]
      BY <2>1, Zenon DEF Untried, Failed
    <2>3. \A q \in Requests : q # r => held'[q] = held[q]
      BY <2>1 DEF TypeInv, IInv, Counts
    <2>4. IF SessionOf[r] = None THEN UNCHANGED session
          ELSE bindSession(SessionOf[r], ModelOf[r], Failed(r)')
      BY <1>1, <2>2, Zenon DEF selectBackendByScore, sessions
    <2> QED BY <2>1, <2>3, <2>4, StickyBound, Zenon DEF Phases
  <1>2. CASE Bind(r)
    <2>1. /\ phase[r] = "bind" /\ phase' = [phase EXCEPT ![r] = "resent"]
          /\ UNCHANGED <<tried, held>>
      BY <1>2, Zenon DEF Bind, Moves
    <2>2. tried[r] \in Objects /\ tried[r] # None /\ SessionOf[r] # None
      BY <2>1, ModelPluginAssumption, Zenon DEF TypeInv, Handles
    <2>3. Failed(r)' = tried[r]
      BY <2>1, <2>2, Zenon DEF Failed
    <2>4. bindSession(SessionOf[r], ModelOf[r], Failed(r)')
      BY <1>2, <2>3, Zenon DEF Bind
    <2> QED BY <2>1, <2>2, <2>4, StickyBound, Zenon DEF Phases
  <1> QED BY <1>1, <1>2, Zenon

\* The background tasks (session.go:57, sync.go:58) keep Sticky.
LEMMA StickyTasks ==
    ASSUME TypeInv, Sticky,
           \/ \E s \in Sessions : Expire(s)
           \/ getPeersAndStartElection \/ cleanupExpiredSessions \/ doSync \/ UNCHANGED vars
    PROVE  Sticky'
  <1>1. session \in [Sessions -> Bindings \cup {None}]
    BY Zenon DEF TypeInv, Rest
  <1>2. ASSUME NEW s \in Sessions
        PROVE  \/ session'[s] = None
               \/ session'[s].backend = None
               \/ session[s] # None /\ session'[s].backend = session[s].backend
    <2>1. CASE UNCHANGED session
      BY <2>1, Zenon
    <2>2. CASE cleanupExpiredSessions
      BY <2>2, Zenon DEF cleanupExpiredSessions
    <2>3. ASSUME NEW t \in Sessions, Expire(t)
          PROVE  session[s] = None \/ session'[s].backend = session[s].backend
      <3> DEFINE new == [session[t] EXCEPT !.fresh = FALSE]
      <3>1. session' = [session EXCEPT ![t] = new] /\ session[t] # None
        BY <2>3, Zenon DEF Expire
      <3>2. new.backend = session[t].backend
        BY <1>1, <3>1, Zenon DEF Bindings
      <3> HIDE DEF new
      <3> QED BY <1>1, <3>1, <3>2, Zenon
    <2>4. ASSUME NEW t \in Sessions, Expire(t) PROVE session[s] = None => session'[s] = None
      <3> DEFINE new == [session[t] EXCEPT !.fresh = FALSE]
      <3>1. session' = [session EXCEPT ![t] = new] /\ session[t] # None
        BY <2>4, Zenon DEF Expire
      <3> HIDE DEF new
      <3> QED BY <1>1, <3>1, Zenon
    <2> QED BY <2>1, <2>2, <2>3, <2>4, Zenon
            DEF getPeersAndStartElection, doSync, vars, sessions
  <1>3. ASSUME NEW s \in Sessions, NEW b \in Backends PROVE AllAt(s, b)' => AllAt(s, b)
    <2>1. CASE UNCHANGED <<phase, held, tried>>
      BY <2>1, Zenon DEF AllAt, Failed
    <2>2. CASE doSync
      <3>1. /\ UNCHANGED phase
            /\ held' = [r \in Requests |-> Outdated(held[r])]
            /\ tried' = [r \in Requests |-> Outdated(tried[r])]
        BY <2>2, Zenon DEF doSync
      <3>2. ASSUME NEW o \in Objects \cup {None}
            PROVE  (Outdated(o) = None <=> o = None) /\ (o # None => Outdated(o).at = o.at)
        <4>1. CASE o = None
          BY <4>1, Zenon DEF Outdated
        <4>2. CASE o \in Objects
          BY <4>2, OutdatedObject, ModelPluginAssumption, Zenon
        <4> QED BY <4>1, <4>2, Zenon
      <3>3. ASSUME NEW q \in Requests, At(q, b)' PROVE At(q, b)
        <4>1. held[q] \in Objects \cup {None} /\ tried[q] \in Objects \cup {None}
          BY Zenon DEF TypeInv, IInv, Counts, Rest
        <4>2. /\ phase'[q] = phase[q]
              /\ held'[q] = Outdated(held[q]) /\ tried'[q] = Outdated(tried[q])
          BY <3>1, Zenon
        <4>3. /\ held'[q] = None <=> held[q] = None
              /\ tried'[q] = None <=> tried[q] = None
              /\ held[q] # None => held'[q].at = held[q].at
              /\ tried[q] # None => tried'[q].at = tried[q].at
          BY <3>2, <4>1, <4>2, Zenon
        <4>4. CASE Failed(q) = None
          <5>1. held[q] = None /\ held'[q] = None /\ tried'[q] = None /\ tried[q] = None
            BY <4>3, <4>4, Zenon DEF Failed
          <5> QED BY <3>3, <4>2, <5>1, Zenon DEF At, Failed
        <4>5. CASE Failed(q) # None
          <5>1. Failed(q)'.at = Failed(q).at
            BY <4>3, <4>5, Zenon DEF Failed
          <5> QED BY <3>3, <4>2, <4>3, <5>1, Zenon DEF At
        <4> QED BY <4>4, <4>5, Zenon
      <3> QED BY <3>3, Zenon DEF AllAt, At
    <2> QED BY <2>1, <2>2
            DEF Expire, getPeersAndStartElection, cleanupExpiredSessions, vars, chat
  <1> QED BY <1>2, <1>3, StickyKept, Zenon

\* Every step keeps Untried: only tryFailover writes what was tried.
LEMMA UntriedStep == ASSUME TypeInv, Untried, [Next]_vars PROVE Untried'
  <1>1. ASSUME NEW r \in Requests, handleChat(r) \/ Handle(r) PROVE Untried'
    <2>1. CASE UNCHANGED tried
      <3>1. PICK p \in Phases :
               /\ phase' = [phase EXCEPT ![r] = p]
               /\ p \in {"select", "lookup", "unbind", "choose"} =>
                     phase[r] \in {"idle", "select", "lookup", "unbind"}
               /\ p # "idle"
        BY <1>1, Zenon DEF Handle, handleChat, selectBackend, getSessionBackend, Unbind,
                    selectBackendByScore, Connect, forwardRequestWithTimeout, BackendFails,
                    updateSessionActivity, syncSession, Finish, tryFailover, Release, Bind,
                    Ends, Moves, Phases
      <3> QED BY <2>1, <3>1, Zenon DEF Untried, TypeInv, IInv, Counts
    <2>2. CASE tryFailover(r)
      <3>1. /\ \E p \in {"finish", "resent", "release"} : phase' = [phase EXCEPT ![r] = p]
            /\ UNCHANGED tried \/ \E v : tried' = [tried EXCEPT ![r] = v]
        BY <2>2, Zenon DEF tryFailover, Moves
      <3> QED BY <3>1, Zenon DEF Untried, TypeInv, IInv, Counts, Rest
    <2> QED BY <1>1, <2>1, <2>2, Zenon
            DEF Handle, handleChat, selectBackend, getSessionBackend, Unbind,
                selectBackendByScore, Connect, forwardRequestWithTimeout, BackendFails,
                updateSessionActivity, syncSession, Finish, Release, Bind, Ends
  <1>2. CASE doSync
    BY <1>2 DEF doSync, Outdated, Untried
  <1>3. CASE UNCHANGED <<phase, tried>>
    BY <1>3, Zenon DEF Untried
  <1> QED BY <1>1, <1>2, <1>3, Zenon
          DEF Next, Expire, getPeersAndStartElection, cleanupExpiredSessions, vars, chat

\* Sticky is an invariant.
LEMMA StickyHolds == Spec => [](Sticky /\ Untried)
  <1>1. Init => Sticky /\ Untried
    BY ZenonT(60) DEF Init, Sticky, Untried
  <1>2. ASSUME TypeInv, Sticky, Untried, [Next]_vars PROVE Sticky'
    <2>1. CASE \E r \in Requests : handleChat(r) \/ Handle(r)
      <3>1. PICK r \in Requests : handleChat(r) \/ Handle(r)
        BY <2>1, Zenon
      <3> QED BY <1>2, <3>1, StickyQuiet, StickyBinds, Zenon DEF Handle
    <2>2. CASE \/ \E s \in Sessions : Expire(s)
               \/ getPeersAndStartElection \/ cleanupExpiredSessions \/ doSync \/ UNCHANGED vars
      BY <1>2, <2>2, StickyTasks, Zenon
    <2> QED BY <1>2, <2>1, <2>2 DEF Next
  <1> QED BY <1>1, <1>2, UntriedStep, TypeInvHolds, PTL DEF Spec

\* Only the lookup of the session (backend.go:38) takes a request out of phase "lookup".
LEMMA LookupStep ==
    ASSUME TypeInv, [Next]_vars, NEW r \in Requests, phase[r] = "lookup", phase'[r] # "lookup"
    PROVE  getSessionBackend(r)
  <1>1. CASE UNCHANGED phase
    BY <1>1, Zenon
  <1>2. ASSUME NEW q \in Requests, handleChat(q) \/ Handle(q) PROVE getSessionBackend(r)
    <2>1. PICK p : phase' = [phase EXCEPT ![q] = p]
      BY <1>2, Zenon DEF Handle, handleChat, selectBackend, getSessionBackend, Unbind,
                  selectBackendByScore, Connect, forwardRequestWithTimeout, BackendFails,
                  updateSessionActivity, syncSession, Finish, tryFailover, Release, Bind,
                  Ends, Moves
    <2>2. q = r
      BY <2>1, Zenon DEF TypeInv, IInv, Counts
    <2> QED BY <1>2, <2>2, Zenon
            DEF Handle, handleChat, selectBackend, Unbind, selectBackendByScore, Connect,
                forwardRequestWithTimeout, BackendFails, updateSessionActivity, syncSession,
                Finish, tryFailover, Release, Bind, Ends, Moves
  <1> QED BY <1>1, <1>2, Zenon
          DEF Next, Expire, getPeersAndStartElection, cleanupExpiredSessions, doSync, vars, chat

\* A request of a session goes to the backend that answered the session before, for any
\* number of requests, sessions, failovers and calls of doSync.
THEOREM AffinityHolds == Spec => Affinity
  <1> DEFINE Valid(r, q) ==
                /\ phase[r] = "lookup" /\ phase'[r] # "lookup"
                /\ SessionOf[q] = SessionOf[r]
                /\ phase[q] = "done" /\ answer[q] \in {"ok", "cut"}
                /\ AllAt(SessionOf[r], Failed(q).at)
                /\ session[SessionOf[r]] # None
                /\ session[SessionOf[r]].fresh /\ session[SessionOf[r]].backend # None
                /\ Failed(q).at \in listing[r].backends
  <1>1. ASSUME TypeInv, Sticky, [Next]_vars, NEW r \in Requests, NEW q \in Requests, Valid(r, q)
        PROVE  phase'[r] = "connect" /\ held'[r].at = Failed(q).at
    <2> DEFINE s == session[SessionOf[r]]
    <2>1. getSessionBackend(r) /\ phase[r] = "lookup"
      BY <1>1, LookupStep, Zenon
    <2>2. SessionOf[r] \in Sessions /\ listing[r] \in Listings
      BY <1>1, <2>1, Zenon DEF TypeInv, IInv, Pointers, Handles
    <2>3. Failed(q).at \in Backends
      BY <1>1, <2>2, Zenon DEF Listings
    <2>4. s.backend = Failed(q).at
      BY <1>1, <2>2, <2>3, Zenon DEF Sticky
    <2>5. phase' = [phase EXCEPT ![r] = "connect"] /\ Holds(r, s.backend)
      BY <1>1, <2>1, <2>4, Zenon DEF getSessionBackend, Moves
    <2>6. phase'[r] = "connect"
      BY <1>1, <2>5, Zenon DEF TypeInv, IInv, Counts
    <2>7. held'[r].at = s.backend
      BY <1>1, <2>5, Zenon DEF Holds, TypeInv, IInv, Counts
    <2> QED BY <2>4, <2>6, <2>7, Zenon
  <1>2. TypeInv /\ Sticky /\ [Next]_vars =>
           [\A r, q \in Requests :
               Valid(r, q) => phase'[r] = "connect" /\ held'[r].at = Failed(q).at]_vars
    BY <1>1, Zenon
  <1> QED BY <1>2, TypeInvHolds, StickyHolds, PTL DEF Spec, Affinity

-----------------------------------------------------------------------------
(* Backends are charged for their sessions.                                *)

\* Every backend serves one model.
Dedicated ==
    \A m, n \in Models, b \in Backends : <<m, b>> \in Serves /\ <<n, b>> \in Serves => m = n

\* What was not replaced is in the table.
Listed ==
    \A r \in Requests :
        /\ listing[r] # None /\ listing[r].current =>
              \A b \in listing[r].backends : <<ModelOf[r], b>> \in table
        /\ tried[r] # None /\ tried[r].current => <<ModelOf[r], tried[r].at>> \in table

\* A request binds a session that is not bound.
Unbound ==
    \A r \in Requests :
        phase[r] \in {"choose", "bind"} /\ SessionOf[r] # None => session[SessionOf[r]] = None

\* What a backend is charged for without having it.
Surplus(m, b) == quota[<<m, b>>] - Cardinality(Bound(b))

\* There are finitely many sessions of a backend.
LEMMA BoundFinite ==
    ASSUME NEW b
    PROVE  /\ IsFiniteSet(Bound(b)) /\ Cardinality(Bound(b)) \in Nat
           /\ IsFiniteSet(Bound(b)') /\ Cardinality(Bound(b)') \in Nat
  <1>1. Bound(b) \subseteq Sessions /\ Bound(b)' \subseteq Sessions
    BY Zenon DEF Bound
  <1>2. IsFiniteSet(Bound(b)) /\ IsFiniteSet(Bound(b)')
    BY <1>1, FS_Subset, ModelPluginAssumption, Zenon
  <1> QED BY <1>2, FS_CardinalityType, Zenon

\* What unbindSession and cleanupExpiredSessions return (session.go:23, session.go:57).
LEMMA FreedCharge ==
    ASSUME TypeInv, NEW X \in SUBSET {s \in Sessions : session[s] # None},
           NEW m \in Models, NEW b \in Backends, <<m, b>> \in table
    PROVE  Freed(quota, X)[<<m, b>>] = quota[<<m, b>>] - Cardinality(Bound(b) \cap X)
  <1> DEFINE at == {s \in X : session[s].backend = b}
             k == <<m, b>>
  <1>1. at = Bound(b) \cap X
    BY Zenon DEF Bound
  <1>2. k \in Models \X Backends /\ k[2] = b
    OBVIOUS
  <1>3. Freed(quota, X)[k] =
           IF k \in table /\ k[2] \in {session[s].backend : s \in X}
           THEN quota[k] - Cardinality({s \in X : session[s].backend = k[2]}) ELSE quota[k]
    BY <1>2, Zenon DEF Freed
  <1>4. CASE b \in {session[s].backend : s \in X}
    BY <1>1, <1>2, <1>3, <1>4, Zenon
  <1>5. CASE b \notin {session[s].backend : s \in X}
    <2>1. Bound(b) \cap X = {}
      BY <1>5, Zenon DEF Bound
    <2>2. Cardinality(Bound(b) \cap X) = 0
      BY <2>1, FS_EmptySet, Zenon
    <2>3. Freed(quota, X)[k] = quota[k] /\ quota[k] \in Int
      BY <1>2, <1>3, <1>5, Zenon DEF TypeInv, IInv, Counts, CountFns
    <2> QED BY <2>2, <2>3, 0 \in Int, Differences, Zenon
  <1> QED BY <1>4, <1>5, Zenon

\* To return what the sessions X were charged and to unbind them changes no surplus.
LEMMA SurplusFreed ==
    ASSUME TypeInv, NEW X \in SUBSET {s \in Sessions : session[s] # None},
           quota' = Freed(quota, X),
           NEW m \in Models, NEW b \in Backends, <<m, b>> \in table, Bound(b)' = Bound(b) \ X
    PROVE  Surplus(m, b)' = Surplus(m, b)
  <1>1. quota'[<<m, b>>] = quota[<<m, b>>] - Cardinality(Bound(b) \cap X)
    BY FreedCharge, Zenon
  <1>2. Cardinality(Bound(b) \ X) = Cardinality(Bound(b)) - Cardinality(Bound(b) \cap X)
    BY BoundFinite, FS_Difference, Zenon
  <1>3. quota[<<m, b>>] \in Int /\ Cardinality(Bound(b)) \in Nat
    BY BoundFinite, <<m, b>> \in Models \X Backends, Zenon DEF TypeInv, IInv, Counts, CountFns
  <1>4. Cardinality(Bound(b) \cap X) \in Nat
    <2>1. Bound(b) \cap X \in SUBSET Bound(b)
      OBVIOUS
    <2>2. IsFiniteSet(Bound(b) \cap X)
      BY <2>1, BoundFinite, FS_Subset, Zenon
    <2> QED BY <2>2, FS_CardinalityType, Zenon
  <1>5. (quota[<<m, b>>] - Cardinality(Bound(b) \cap X))
           - (Cardinality(Bound(b)) - Cardinality(Bound(b) \cap X)) =
        quota[<<m, b>>] - Cardinality(Bound(b))
    BY <1>3, <1>4, NatInt, CommonPart, Zenon
  <1> QED BY <1>1, <1>2, <1>5, Zenon DEF Surplus

\* unbindSession changes no surplus.
LEMMA SurplusUnbind ==
    ASSUME TypeInv, NEW s \in Sessions, unbindSession(s),
           NEW m \in Models, NEW b \in Backends, <<m, b>> \in table
    PROVE  Surplus(m, b)' = Surplus(m, b)
  <1>1. session' = [session EXCEPT ![s] = None] /\ session \in [Sessions -> Bindings \cup {None}]
    BY Zenon DEF unbindSession, TypeInv, Rest
  <1>2. Bound(b)' = Bound(b) \ {s}
    BY <1>1 DEF Bound
  <1>3. CASE session[s] = None
    <2>1. Bound(b)' = Bound(b)
      BY <1>2, <1>3, Zenon DEF Bound
    <2>2. quota' = quota
      BY <1>3, Zenon DEF unbindSession
    <2> QED BY <2>1, <2>2, Zenon DEF Surplus
  <1>4. CASE session[s] # None
    <2>1. {s} \in SUBSET {t \in Sessions : session[t] # None}
      BY <1>4, Zenon
    <2>2. quota' = Freed(quota, {s})
      BY <1>4, Zenon DEF unbindSession
    <2> QED BY <1>2, <2>1, <2>2, SurplusFreed, Zenon
  <1> QED BY <1>3, <1>4, Zenon

\* cleanupExpiredSessions changes no surplus.
LEMMA SurplusCleanup ==
    ASSUME TypeInv, cleanupExpiredSessions,
           NEW m \in Models, NEW b \in Backends, <<m, b>> \in table
    PROVE  Surplus(m, b)' = Surplus(m, b)
  <1> DEFINE expired == {s \in Sessions : session[s] # None /\ ~session[s].fresh}
  <1>1. /\ quota' = Freed(quota, expired)
        /\ session' = [s \in Sessions |-> IF s \in expired THEN None ELSE session[s]]
    BY Zenon DEF cleanupExpiredSessions
  <1>2. expired \in SUBSET {s \in Sessions : session[s] # None}
    OBVIOUS
  <1> HIDE DEF expired
  <1>3. Bound(b)' = Bound(b) \ expired
    BY <1>1 DEF Bound
  <1> QED BY <1>1, <1>2, <1>3, SurplusFreed, Zenon

\* bindSession (session.go:9) charges the backend of a current object for the session, and
\* leaves a charge behind if the session was bound before.
LEMMA SurplusBind ==
    ASSUME TypeInv, Dedicated, NEW s \in Sessions, NEW n \in Models, NEW object \in Objects,
           object.current, <<n, object.at>> \in table, bindSession(s, n, object),
           NEW m \in Models, NEW b \in Backends, <<m, b>> \in table
    PROVE  /\ Surplus(m, b)' >= Surplus(m, b)
           /\ session[s] = None => Surplus(m, b)' = Surplus(m, b)
  <1> DEFINE new == [backend |-> object.at, fresh |-> TRUE]
  <1>1. /\ session' = [session EXCEPT ![s] = new] /\ quota' = Add(quota, n, object, 1)
        /\ session \in [Sessions -> Bindings \cup {None}]
        /\ quota \in CountFns
    BY Zenon DEF bindSession, TypeInv, Rest, IInv, Counts
  <1>2. new # None /\ new.backend = object.at
    <2>1. object.at \in Backends
      BY Zenon DEF Objects
    <2>2. new \in Bindings
      BY <2>1, BindingType, Zenon
    <2> QED BY <2>2, ModelPluginAssumption, Zenon
  <1> HIDE DEF new
  <1>3. /\ <<m, b>> = <<n, object.at>> => quota'[<<m, b>>] = quota[<<m, b>>] + 1
        /\ <<m, b>> # <<n, object.at>> => quota'[<<m, b>>] = quota[<<m, b>>]
    BY <1>1, AddOne, <<m, b>> \in Models \X Backends, ZenonT(60)
  <1>4. quota[<<m, b>>] \in Int
    BY <1>1, Zenon DEF CountFns
  <1>5. CASE b = object.at
    <2>1. m = n
      BY <1>5, Zenon DEF Dedicated, TypeInv, Rest
    <2>2. quota'[<<m, b>>] = quota[<<m, b>>] + 1
      BY <1>3, <1>5, <2>1, Zenon
    <2>3. Bound(b)' = Bound(b) \cup {s}
      BY <1>1, <1>2, <1>5, Zenon DEF Bound
    <2>4. Cardinality(Bound(b)') =
             IF s \in Bound(b) THEN Cardinality(Bound(b)) ELSE Cardinality(Bound(b)) + 1
      BY <2>3, BoundFinite, FS_AddElement, Zenon
    <2>5. session[s] = None => s \notin Bound(b)
      BY Zenon DEF Bound
    <2>6. /\ (quota[<<m, b>>] + 1) - (Cardinality(Bound(b)) + 1) =
                quota[<<m, b>>] - Cardinality(Bound(b))
          /\ (quota[<<m, b>>] + 1) - (Cardinality(Bound(b)) + 1) >=
                quota[<<m, b>>] - Cardinality(Bound(b))
          /\ (quota[<<m, b>>] + 1) - Cardinality(Bound(b)) >=
                quota[<<m, b>>] - Cardinality(Bound(b))
      BY <1>4, BoundFinite, NatInt, Differences, Zenon
    <2> QED BY <2>2, <2>4, <2>5, <2>6, Zenon DEF Surplus
  <1>6. CASE b # object.at
    <2>1. quota'[<<m, b>>] = quota[<<m, b>>]
      BY <1>3, <1>6, Zenon
    <2>2. Bound(b)' = Bound(b) \ {s}
      BY <1>1, <1>2, <1>6, Zenon DEF Bound
    <2>3. Cardinality(Bound(b)') =
             IF s \in Bound(b) THEN Cardinality(Bound(b)) - 1 ELSE Cardinality(Bound(b))
      BY <2>2, BoundFinite, FS_RemoveElement, Zenon
    <2>4. session[s] = None => s \notin Bound(b)
      BY Zenon DEF Bound
    <2>5. /\ quota[<<m, b>>] - (Cardinality(Bound(b)) - 1) >=
                quota[<<m, b>>] - Cardinality(Bound(b))
          /\ quota[<<m, b>>] - Cardinality(Bound(b)) >=
                quota[<<m, b>>] - Cardinality(Bound(b))
      BY <1>4, BoundFinite, NatInt, Differences, Zenon
    <2> QED BY <2>1, <2>3, <2>4, <2>5, Zenon DEF Surplus
  <1> QED BY <1>5, <1>6, Zenon

\* The surplus is an integer.
LEMMA SurplusInt ==
    ASSUME TypeInv, NEW m \in Models, NEW b \in Backends
    PROVE  Surplus(m, b) \in Int /\ Surplus(m, b) >= Surplus(m, b)
  <1>1. quota[<<m, b>>] \in Int
    BY <<m, b>> \in Models \X Backends, Zenon DEF TypeInv, IInv, Counts, CountFns
  <1> QED BY <1>1, BoundFinite, NatInt, Differences, Zenon DEF Surplus

\* The surplus stays the same with what it is made of.
LEMMA SurplusSame ==
    ASSUME TypeInv, NEW m \in Models, NEW b \in Backends, quota' = quota, Bound(b)' = Bound(b)
    PROVE  /\ Surplus(m, b)' = Surplus(m, b) /\ Surplus(m, b) \in Int
           /\ Surplus(m, b)' >= Surplus(m, b)
  <1>1. Surplus(m, b)' = Surplus(m, b)
    BY Zenon DEF Surplus
  <1> QED BY <1>1, SurplusInt, Zenon

\* A session is touched, expires or is overwritten.
LEMMA SurplusTouch ==
    ASSUME TypeInv, NEW m \in Models, NEW b \in Backends,
           \/ \E r \in Requests : updateSessionActivity(r) \/ syncSession(r)
           \/ \E s \in Sessions : Expire(s)
    PROVE  /\ Surplus(m, b)' >= Surplus(m, b)
           /\ ~HearsItself => Surplus(m, b)' = Surplus(m, b)
  <1>1. /\ session \in [Sessions -> Bindings \cup {None}] /\ quota' = quota
        /\ None \notin Bindings \cup Backends
    BY ModelPluginAssumption, Zenon
       DEF TypeInv, Rest, updateSessionActivity, syncSession, Expire
  <1>2. ASSUME NEW s, NEW f \in BOOLEAN, session[s] # None, s \in Sessions,
               session' = [session EXCEPT ![s] = [session[s] EXCEPT !.fresh = f]]
        PROVE  Bound(b)' = Bound(b)
    <2> DEFINE new == [session[s] EXCEPT !.fresh = f]
    <2>1. session[s] \in Bindings
      BY <1>1, <1>2, Zenon
    <2>2. new # None /\ new.backend = session[s].backend
      BY <1>1, <2>1, FreshType, Zenon DEF Bindings
    <2>3. session' = [session EXCEPT ![s] = new]
      BY <1>2, Zenon
    <2> HIDE DEF new
    <2> QED BY <1>1, <1>2, <2>2, <2>3 DEF Bound
  <1>3. CASE \E s \in Sessions : Expire(s)
    <2>1. PICK s \in Sessions : Expire(s)
      BY <1>3, Zenon
    <2>2. /\ session[s] # None
          /\ session' = [session EXCEPT ![s] = [session[s] EXCEPT !.fresh = FALSE]]
      BY <2>1, Zenon DEF Expire
    <2>3. Bound(b)' = Bound(b)
      BY <1>2, <2>2, Zenon
    <2> QED BY <1>1, <2>3, SurplusSame, Zenon
  <1>4. ASSUME NEW r \in Requests, updateSessionActivity(r)
        PROVE  Surplus(m, b)' = Surplus(m, b) /\ Surplus(m, b)' >= Surplus(m, b)
    <2> DEFINE s == SessionOf[r]
    <2>1. s \in Sessions
      BY <1>4, Zenon DEF updateSessionActivity, Moves, TypeInv, Handles
    <2>2. session' = [session EXCEPT ![s] =
                         IF session[s] = None THEN None ELSE [session[s] EXCEPT !.fresh = TRUE]]
      BY <1>4, Zenon DEF updateSessionActivity
    <2> HIDE DEF s
    <2>3. CASE session[s] = None
      <3>1. session' = [session EXCEPT ![s] = None]
        BY <2>2, <2>3, Zenon
      <3>2. Bound(b)' = Bound(b)
        BY <1>1, <2>1, <2>3, <3>1, Zenon DEF Bound
      <3> QED BY <1>1, <3>2, SurplusSame, Zenon
    <2>4. CASE session[s] # None
      <3>1. session' = [session EXCEPT ![s] = [session[s] EXCEPT !.fresh = TRUE]]
        BY <2>2, <2>4, Zenon
      <3>2. Bound(b)' = Bound(b)
        BY <1>2, <2>1, <2>4, <3>1, Zenon
      <3> QED BY <1>1, <3>2, SurplusSame, Zenon
    <2> QED BY <2>3, <2>4, Zenon
  <1>5. ASSUME NEW r \in Requests, syncSession(r)
        PROVE  /\ Surplus(m, b)' >= Surplus(m, b)
               /\ ~HearsItself => Surplus(m, b)' = Surplus(m, b)
    <2>1. CASE session' = session
      <3>1. Bound(b)' = Bound(b)
        BY <2>1, Zenon DEF Bound
      <3> QED BY <1>1, <3>1, SurplusSame, Zenon
    <2>2. CASE HearsItself /\ handleSessionSync(SessionOf[r])
      <3>1. SessionOf[r] \in Sessions
        BY <1>5, Zenon DEF syncSession, Moves, TypeInv, Handles
      <3>2. Bound(b)' = Bound(b) \ {SessionOf[r]}
        BY <1>1, <2>2, <3>1, Zenon DEF handleSessionSync, Bound
      <3>3. Cardinality(Bound(b)') <= Cardinality(Bound(b))
        BY <3>2, BoundFinite, FS_Subset, Bound(b) \ {SessionOf[r]} \in SUBSET Bound(b), Zenon
      <3>4. quota[<<m, b>>] \in Int
        BY <<m, b>> \in Models \X Backends DEF TypeInv, IInv, Counts, CountFns
      <3>5. quota[<<m, b>>] - Cardinality(Bound(b)') >= quota[<<m, b>>] - Cardinality(Bound(b))
        BY <3>3, <3>4, BoundFinite, NatInt, LessTaken, Zenon
      <3> QED BY <1>1, <2>2, <3>5, Zenon DEF Surplus
    <2> QED BY <1>5, <2>1, <2>2, Zenon DEF syncSession
  <1> QED BY <1>3, <1>4, <1>5, Zenon

\* A request binds its session (backend.go:53, failover.go:36).
LEMMA SurplusBinds ==
    ASSUME TypeInv, Listed, BindsListed, Dedicated, NEW r \in Requests,
           selectBackendByScore(r) \/ Bind(r),
           NEW m \in Models, NEW b \in Backends, <<m, b>> \in table
    PROVE  /\ Surplus(m, b)' >= Surplus(m, b)
           /\ Unbound => Surplus(m, b)' = Surplus(m, b)
  <1> DEFINE s == SessionOf[r]
  <1>0. ModelOf[r] \in Models
    BY ModelPluginAssumption, Zenon
  <1>1. CASE Bind(r)
    <2>1. phase[r] = "bind" /\ bindSession(s, ModelOf[r], tried[r])
      BY <1>1, Zenon DEF Bind, Moves
    <2>2. s \in Sessions /\ s # None /\ tried[r] \in Objects /\ tried[r] # None
      BY <2>1, ModelPluginAssumption, Zenon DEF TypeInv, Handles
    <2>3. tried[r].current
      BY <2>1, Zenon DEF BindsListed
    <2>4. <<ModelOf[r], tried[r].at>> \in table
      BY <2>2, <2>3, Zenon DEF Listed
    <2>5. Unbound => session[s] = None
      BY <2>1, <2>2, Zenon DEF Unbound
    <2> HIDE DEF s
    <2> QED BY <1>0, <2>1, <2>2, <2>3, <2>4, <2>5, SurplusBind, Zenon
  <1>2. CASE selectBackendByScore(r) /\ SessionOf[r] = None
    <2>1. quota' = quota /\ session' = session
      BY <1>2, Zenon DEF selectBackendByScore, sessions
    <2>2. Bound(b)' = Bound(b)
      BY <2>1, Zenon DEF Bound
    <2> QED BY <2>1, <2>2, SurplusSame, Zenon
  <1>3. CASE selectBackendByScore(r) /\ SessionOf[r] # None
    <2>1. phase[r] = "choose" /\ bindSession(s, ModelOf[r], held'[r])
      BY <1>3, Zenon DEF selectBackendByScore, Moves
    <2>2. PICK c \in listing[r].backends : Holds(r, c)
      BY <1>3, Zenon DEF selectBackendByScore
    <2>3. listing[r] \in Listings /\ listing[r] # None
      BY <2>1, ModelPluginAssumption, Zenon DEF TypeInv, IInv, Pointers
    <2>4. listing[r].current
      BY <1>3, <2>1, Zenon DEF BindsListed
    <2>5. <<ModelOf[r], c>> \in table
      BY <2>2, <2>3, <2>4, Zenon DEF Listed
    <2>6. held'[r] = [at |-> c, current |-> listing[r].current]
      BY <2>2, Zenon DEF Holds, TypeInv, IInv, Counts
    <2>7. held'[r] \in Objects
      BY <2>1, <2>2, HoldsObject, Zenon DEF TypeInv
    <2>8. held'[r].at = c
      <3> DEFINE current == listing[r].current
      <3>1. [at |-> c, current |-> current].at = c
        BY Zenon
      <3> QED BY <2>6, <3>1, Zenon
    <2>9. held'[r].current
      <3> DEFINE current == listing[r].current
      <3>1. [at |-> c, current |-> current].current = current
        BY Zenon
      <3> QED BY <2>4, <2>6, <3>1, Zenon
    <2>10. s \in Sessions /\ (Unbound => session[s] = None)
      BY <1>3, <2>1, SessionOrNone, Zenon DEF Unbound
    <2> HIDE DEF s
    <2>11. <<ModelOf[r], held'[r].at>> \in table
      BY <2>5, <2>8, Zenon
    <2> DEFINE object == held'[r]
    <2>12. /\ object \in Objects /\ object.current /\ <<ModelOf[r], object.at>> \in table
           /\ bindSession(s, ModelOf[r], object)
      BY <2>1, <2>7, <2>9, <2>11, Zenon
    <2> HIDE DEF object
    <2> QED BY <1>0, <2>10, <2>12, SurplusBind, Zenon
  <1> QED BY <1>1, <1>2, <1>3, Zenon

\* Every step but doSync adds to a surplus at most, and changes none if the plugin does
\* not hear itself and sessions are bound only when they are not.
LEMMA SurplusStep ==
    ASSUME TypeInv, Listed, BindsListed, Dedicated, [Next]_vars, ~doSync,
           NEW m \in Models, NEW b \in Backends, <<m, b>> \in table
    PROVE  /\ Surplus(m, b)' >= Surplus(m, b)
           /\ ~HearsItself /\ Unbound => Surplus(m, b)' = Surplus(m, b)
  <1> DEFINE Goal == /\ Surplus(m, b)' >= Surplus(m, b)
                     /\ ~HearsItself /\ Unbound => Surplus(m, b)' = Surplus(m, b)
  <1>1. CASE UNCHANGED sessions
    <2>1. quota' = quota /\ Bound(b)' = Bound(b)
      BY <1>1, Zenon DEF Bound, sessions
    <2> QED BY <2>1, SurplusSame, Zenon
  <1>2. Surplus(m, b) >= Surplus(m, b)
    BY SurplusInt, Zenon
  <1>3. ASSUME NEW r \in Requests, Unbind(r) \/ Release(r) PROVE Goal
    <2>1. SessionOf[r] \in Sessions /\ unbindSession(SessionOf[r])
      BY <1>3, Zenon DEF Unbind, Release, Moves, TypeInv, Handles
    <2>2. Surplus(m, b)' = Surplus(m, b)
      BY <2>1, SurplusUnbind, Zenon
    <2> QED BY <1>2, <2>2, Zenon
  <1>4. ASSUME NEW r \in Requests, selectBackendByScore(r) \/ Bind(r) PROVE Goal
    BY <1>4, SurplusBinds, Zenon
  <1>5. CASE \/ \E r \in Requests : updateSessionActivity(r) \/ syncSession(r)
             \/ \E s \in Sessions : Expire(s)
    BY <1>5, SurplusTouch, Zenon
  <1>6. CASE cleanupExpiredSessions
    BY <1>2, <1>6, SurplusCleanup, Zenon
  <1>7. ASSUME NEW r \in Requests,
               \/ handleChat(r) \/ selectBackend(r) \/ getSessionBackend(r) \/ Connect(r)
               \/ forwardRequestWithTimeout(r) \/ BackendFails(r) \/ Finish(r) \/ tryFailover(r)
        PROVE  UNCHANGED sessions
    BY <1>7, Zenon DEF handleChat, selectBackend, getSessionBackend, Connect,
                forwardRequestWithTimeout, BackendFails, Finish, tryFailover, Ends
  <1>8. CASE getPeersAndStartElection \/ UNCHANGED vars
    BY <1>1, <1>8, Zenon DEF getPeersAndStartElection, vars
  <1> HIDE DEF Goal
  <1>9. CASE \E r \in Requests : handleChat(r) \/ Handle(r)
    <2>1. PICK r \in Requests : handleChat(r) \/ Handle(r)
      BY <1>9, Zenon
    <2> QED BY <1>1, <1>3, <1>4, <1>5, <1>7, <2>1, Zenon DEF Handle, Goal
  <1> QED BY <1>5, <1>6, <1>8, <1>9, Zenon DEF Next, Goal

\* What is not replaced stays in the table.
LEMMA ListedHolds == Spec => []Listed
  <1>1. Init => Listed
    BY Zenon DEF Init, Listed
  <1>2. ASSUME TypeInv, Listed, NEW r \in Requests, handleChat(r) \/ Handle(r) PROVE Listed'
    <2>1. table' = table
      BY <1>2, Zenon DEF Handle, handleChat, selectBackend, getSessionBackend, Unbind,
                  selectBackendByScore, Connect, forwardRequestWithTimeout, BackendFails,
                  updateSessionActivity, syncSession, Finish, tryFailover, Release, Bind, Ends
    <2>2. CASE UNCHANGED <<listing, tried>>
      BY <1>2, <2>1, <2>2, Zenon DEF Listed
    <2>3. CASE selectBackend(r)
      <3> DEFINE found == BackendsOf(ModelOf[r])
      <3>1. tried' = tried
        BY <2>3, Zenon DEF selectBackend, Ends
      <3>2. CASE listing' = [listing EXCEPT ![r] = [backends |-> found, current |-> TRUE]]
        <4>1. \A b \in found : <<ModelOf[r], b>> \in table
          BY Zenon DEF BackendsOf
        <4>2. [backends |-> found, current |-> TRUE].backends = found
          OBVIOUS
        <4> HIDE DEF found
        <4>3. listing'[r].backends = found /\ \A q \in Requests : q # r => listing'[q] = listing[q]
          BY <1>2, <3>2, <4>2, Zenon DEF TypeInv, IInv, Counts
        <4> QED BY <1>2, <2>1, <3>1, <4>1, <4>3, Zenon DEF Listed
      <3> QED BY <2>2, <2>3, <3>1, <3>2, Zenon DEF selectBackend, Ends
    <2>4. CASE tryFailover(r)
      <3>1. listing' = listing
        BY <2>4, Zenon DEF tryFailover
      <3>2. ASSUME NEW b \in FailoverCandidates(r),
                   tried' = [tried EXCEPT ![r] = [at |-> b, current |-> TRUE]]
            PROVE  Listed'
        <4>1. <<ModelOf[r], b>> \in table
          BY <3>2, Zenon DEF FailoverCandidates, BackendsOf
        <4>2. tried'[r].at = b /\ \A q \in Requests : q # r => tried'[q] = tried[q]
          BY <1>2, <3>2, Zenon DEF TypeInv, Rest
        <4> QED BY <1>2, <2>1, <3>1, <4>1, <4>2, Zenon DEF Listed
      <3> QED BY <2>2, <2>4, <3>1, <3>2, Zenon DEF tryFailover
    <2> QED BY <1>2, <2>2, <2>3, <2>4, Zenon
            DEF Handle, handleChat, getSessionBackend, Unbind, selectBackendByScore, Connect,
                forwardRequestWithTimeout, BackendFails, updateSessionActivity, syncSession,
                Finish, Release, Bind, Ends
  <1>3. ASSUME TypeInv, doSync PROVE Listed'
    <2>1. ASSUME NEW r \in Requests PROVE listing'[r] # None => ~listing'[r].current
      <3>1. listing'[r] = Outdated(listing[r]) /\ listing[r] \in Listings \cup {None}
        BY <1>3, Zenon DEF doSync, TypeInv, IInv, Counts
      <3>2. ASSUME NEW l \in Listings, l # None PROVE ~Outdated(l).current
        BY <3>2, Zenon DEF Outdated, Listings
      <3>3. Outdated(None) = None
        BY Zenon DEF Outdated
      <3> QED BY <3>1, <3>2, <3>3, Zenon
    <2>2. ASSUME NEW r \in Requests PROVE tried'[r] # None => ~tried'[r].current
      <3>1. tried'[r] = Outdated(tried[r]) /\ tried[r] \in Objects \cup {None}
        BY <1>3, Zenon DEF doSync, TypeInv, Rest
      <3>2. Outdated(None) = None
        BY DEF Outdated
      <3> QED BY <3>1, <3>2, OutdatedObject, Zenon
    <2> QED BY <2>1, <2>2, Zenon DEF Listed
  <1>4. ASSUME Listed, UNCHANGED <<table, listing, tried>> PROVE Listed'
    BY <1>4, Zenon DEF Listed
  <1>5. TypeInv /\ Listed /\ [Next]_vars => Listed'
    BY <1>2, <1>3, <1>4, Zenon
       DEF Next, Expire, getPeersAndStartElection, cleanupExpiredSessions, vars, chat
  <1> QED BY <1>1, <1>5, TypeInvHolds, PTL DEF Spec

\* The table changes only in doSync.
LEMMA TableStep == ASSUME [Next]_vars, ~doSync PROVE table' = table
  BY Zenon DEF Next, Handle, handleChat, selectBackend, getSessionBackend, Unbind,
         selectBackendByScore, Connect, forwardRequestWithTimeout, BackendFails,
         updateSessionActivity, syncSession, Finish, tryFailover, Release, Bind, Ends,
         Expire, getPeersAndStartElection, cleanupExpiredSessions, vars

\* doSync (sync.go:58) starts to charge backends that have no sessions.
LEMMA SurplusSync ==
    ASSUME TypeInv, BindsListed, Dedicated, doSync,
           NEW m \in Models, NEW b \in Backends, <<m, b>> \in table'
    PROVE  \/ <<m, b>> \in table /\ Surplus(m, b)' = Surplus(m, b)
           \/ Surplus(m, b)' = 0
  <1>1. PICK new \in SUBSET Serves :
           /\ table' = new
           /\ quota' = [k \in Models \X Backends |-> IF k \in new \cap table THEN quota[k] ELSE 0]
    BY Zenon DEF doSync
  <1>2. Bound(b)' = Bound(b)
    BY Zenon DEF doSync, Bound
  <1>3. CASE <<m, b>> \in table
    <2>1. quota'[<<m, b>>] = quota[<<m, b>>]
      BY <1>1, <1>3, <<m, b>> \in Models \X Backends, Zenon
    <2> QED BY <1>2, <1>3, <2>1, Zenon DEF Surplus
  <1>4. CASE <<m, b>> \notin table
    <2>1. quota'[<<m, b>>] = 0
      BY <1>1, <1>4, <<m, b>> \in Models \X Backends, Zenon
    <2>2. Bound(b) = {}
      <3> SUFFICES ASSUME NEW s \in Bound(b) PROVE FALSE
        BY Zenon
      <3>1. s \in Sessions /\ session[s] # None /\ session[s].backend = b /\ b # None
        BY ModelPluginAssumption, Zenon DEF Bound
      <3>2. PICK n \in Models : <<n, b>> \in table
        BY <3>1, Zenon DEF BindsListed
      <3>3. n = m
        BY <1>1, <3>2, Zenon DEF Dedicated, TypeInv, Rest
      <3> QED BY <1>4, <3>2, <3>3
    <2>3. Cardinality(Bound(b)') = 0
      BY <1>2, <2>2, FS_EmptySet, Zenon
    <2> QED BY <2>1, <2>3, 0 \in Int, Differences, Zenon DEF Surplus
  <1> QED BY <1>3, <1>4, Zenon

\* A backend that serves one model is never charged for fewer sessions than are bound to
\* it (session.go:9, session.go:23), for any number of sessions and calls of doSync, as
\* long as those drop no backend of a session and come between no listing and its bind.
THEOREM QuotaFloorHolds == ASSUME Dedicated PROVE Spec => QuotaFloor
  <1>1. Init => SessionsCharged
    BY Zenon DEF Init, SessionsCharged
  <1>2. ASSUME NEW m \in Models, NEW b \in Backends, TypeInv
        PROVE  /\ quota[<<m, b>>] >= Cardinality(Bound(b)) <=> Surplus(m, b) >= 0
               /\ Surplus(m, b) \in Int
    <2>1. quota[<<m, b>>] \in Int
      BY <1>2, <<m, b>> \in Models \X Backends, Zenon DEF TypeInv, IInv, Counts, CountFns
    <2> QED BY <2>1, BoundFinite, NatInt, Differences, Zenon DEF Surplus
  <1>3. ASSUME NEW m \in Models, NEW b \in Backends, TypeInv'
        PROVE  /\ quota'[<<m, b>>] >= Cardinality(Bound(b)') <=> Surplus(m, b)' >= 0
               /\ Surplus(m, b)' \in Int
    <2>1. quota'[<<m, b>>] \in Int
      BY <1>3, <<m, b>> \in Models \X Backends, Zenon DEF TypeInv, IInv, Counts, CountFns
    <2> QED BY <2>1, BoundFinite, NatInt, Differences, Zenon DEF Surplus
  <1>4. ASSUME TypeInv, TypeInv', Listed, BindsListed, SessionsCharged, [Next]_vars
        PROVE  SessionsCharged'
    <2> SUFFICES ASSUME NEW m \in Models, NEW b \in Backends, <<m, b>> \in table'
                 PROVE  Surplus(m, b)' >= 0
      BY <1>3, <1>4, Zenon DEF SessionsCharged
    <2>1. <<m, b>> \in table => Surplus(m, b) >= 0
      BY <1>2, <1>4, Zenon DEF SessionsCharged
    <2>2. CASE doSync
      <3>1. \/ <<m, b>> \in table /\ Surplus(m, b)' = Surplus(m, b)
            \/ Surplus(m, b)' = 0
        BY <1>4, <2>2, Dedicated, SurplusSync, Zenon
      <3> QED BY <2>1, <3>1, 0 >= 0, Zenon
    <2>3. CASE ~doSync
      <3>1. <<m, b>> \in table
        BY <1>4, <2>3, TableStep, Zenon
      <3>2. Surplus(m, b)' >= Surplus(m, b)
        BY <1>4, <2>3, <3>1, Dedicated, SurplusStep, Zenon
      <3>3. Surplus(m, b) \in Int /\ Surplus(m, b)' \in Int
        BY <1>2, <1>3, <1>4, Zenon
      <3> QED BY <2>1, <3>1, <3>2, <3>3, StaysPositive, Zenon
    <2> QED BY <2>2, <2>3, Zenon
  <1> QED BY <1>1, <1>4, TypeInvHolds, ListedHolds, PTL DEF Spec, QuotaFloor

-----------------------------------------------------------------------------
(* ActiveConn is exact if nothing disturbs it.                             *)

\* No charge is left behind.
NoSurplus ==
    \A m \in Models, b \in Backends : <<m, b>> \in table => Surplus(m, b) = 0

\* What is not charged for sessions is charged for the requests that hold the object.
HoldersCounted ==
    \A m \in Models, b \in Backends :
        <<m, b>> \in table => conns[<<m, b>>] - quota[<<m, b>>] = Cardinality(Holders(m, b))

\* The steps but doSync change the balance of no object.
LEMMA NextBalance == ASSUME IInv, [Next]_vars, ~doSync PROVE SameBalance
  <1>1. CASE \E r \in Requests : handleChat(r) \/ Handle(r)
    <2>1. PICK r \in Requests : handleChat(r) \/ Handle(r)
      BY <1>1, Zenon
    <2> QED BY <2>1, handleChatStep, selectBackendStep, getSessionBackendStep, UnbindStep,
               selectBackendByScoreStep, ConnectStep, forwardRequestWithTimeoutStep,
               BackendFailsStep, updateSessionActivityStep, syncSessionStep, FinishStep,
               tryFailoverStep, ReleaseStep, BindStep, Zenon DEF Handle
  <1>2. CASE (\E s \in Sessions : Expire(s)) \/ getPeersAndStartElection \/ UNCHANGED vars
    BY <1>2, IdleStep, Zenon
  <1>3. CASE cleanupExpiredSessions
    BY <1>3, cleanupExpiredSessionsStep
  <1> QED BY <1>1, <1>2, <1>3, Zenon DEF Next

\* doSync finds no request that is counted for an object, if none is left with an old one.
LEMMA SyncUnheld ==
    ASSUME TypeInv, Undisturbed', doSync, NEW m \in Models, NEW b \in Backends
    PROVE  Holders(m, b) = {} /\ Holders(m, b)' = {}
  <1>1. phase' = phase /\ held' = [r \in Requests |-> Outdated(held[r])]
    BY Zenon DEF doSync
  <1>2. ASSUME NEW r \in Requests, phase[r] \in Counted
        PROVE  held'[r].at = held[r].at /\ ~held'[r].current
    <2>1. held[r] \in Objects
      BY <1>2, Zenon DEF TypeInv, IInv, Pointers
    <2>2. held'[r] = Outdated(held[r])
      BY <1>1, Zenon
    <2> QED BY <2>1, <2>2, OutdatedObject, Zenon
  <1>3. Connected(m, b)' = {}
    <2> SUFFICES ASSUME NEW r \in Connected(m, b)' PROVE FALSE
      BY Zenon
    <2>1. held'[r].current
      BY Zenon DEF Undisturbed
    <2>2. r \in Requests /\ phase[r] \in Counted
      BY <1>1, Zenon DEF Connected, Counted
    <2> QED BY <1>2, <2>1, <2>2, Zenon
  <1>4. Connected(m, b) = {}
    <2> SUFFICES ASSUME NEW r \in Connected(m, b) PROVE FALSE
      OBVIOUS
    <2>1. r \in Requests /\ phase[r] \in Counted /\ ModelOf[r] = m /\ held[r].at = b
      BY Zenon DEF Connected, Counted
    <2>2. held'[r].at = b
      BY <1>2, <2>1, Zenon
    <2>3. r \in Connected(m, b)'
      BY <1>1, <2>1, <2>2, Zenon DEF Connected, Counted
    <2> QED BY <1>3, <2>3, Zenon
  <1> QED BY <1>3, <1>4, Zenon DEF Holders

\* A step of request q concerns its own session only, and q is not idle or done then.
LEMMA OwnSession ==
    ASSUME TypeInv, NEW q \in Requests, Handle(q)
    PROVE  /\ phase[q] \notin {"idle", "done"}
           /\ \A s \in Sessions : s # SessionOf[q] => session'[s] = session[s]
           /\ \A r \in Requests : r # q => phase'[r] = phase[r]
  <1>1. phase[q] \notin {"idle", "done"}
    BY Zenon DEF Handle, selectBackend, getSessionBackend, Unbind, selectBackendByScore, Connect,
           forwardRequestWithTimeout, BackendFails, updateSessionActivity, syncSession,
           Finish, tryFailover, Release, Bind, Ends, Moves
  <1>2. UNCHANGED session \/ \E v : session' = [session EXCEPT ![SessionOf[q]] = v]
    BY Zenon
       DEF Handle, selectBackend, getSessionBackend, Unbind, selectBackendByScore, Connect,
           forwardRequestWithTimeout, BackendFails, updateSessionActivity, syncSession,
           Finish, tryFailover, Release, Bind, Ends, bindSession, unbindSession,
           handleSessionSync, sessions
  <1>3. \A s \in Sessions : s # SessionOf[q] => session'[s] = session[s]
    BY <1>2, Zenon DEF TypeInv, Rest
  <1>4. \E p : phase' = [phase EXCEPT ![q] = p]
    BY Zenon DEF Handle, selectBackend, getSessionBackend, Unbind, selectBackendByScore, Connect,
           forwardRequestWithTimeout, BackendFails, updateSessionActivity, syncSession,
           Finish, tryFailover, Release, Bind, Ends, Moves
  <1>5. \A r \in Requests : r # q => phase'[r] = phase[r]
    BY <1>4, Zenon DEF TypeInv, IInv, Counts
  <1> QED BY <1>1, <1>3, <1>5, Zenon

\* A request comes to bind its session only when that is not bound.
LEMMA OwnUnbound ==
    ASSUME TypeInv, NEW r \in Requests, Handle(r), phase'[r] \in {"choose", "bind"},
           SessionOf[r] # None
    PROVE  session'[SessionOf[r]] = None
  <1> DEFINE s == SessionOf[r]
  <1>1. s \in Sessions /\ session \in [Sessions -> Bindings \cup {None}]
    BY SessionOrNone, Zenon DEF TypeInv, Rest
  <1>2. CASE getSessionBackend(r)
    <2>1. session' = session
      BY <1>2, Zenon DEF getSessionBackend, sessions
    <2>2. session[s] = None \/ \E p \in {"connect", "unbind"} : phase' = [phase EXCEPT ![r] = p]
      BY <1>2, Zenon DEF getSessionBackend, Moves
    <2>3. \A p : phase' = [phase EXCEPT ![r] = p] => phase'[r] = p
      BY Zenon DEF TypeInv, IInv, Counts
    <2> QED BY <2>1, <2>2, <2>3, Zenon
  <1>3. CASE Unbind(r) \/ Release(r)
    BY <1>1, <1>3, Zenon DEF Unbind, Release, unbindSession
  <1>4. CASE ~(getSessionBackend(r) \/ Unbind(r) \/ Release(r))
    <2>1. \E p \in Phases \ {"choose", "bind"} : phase' = [phase EXCEPT ![r] = p]
      BY <1>4, Zenon
         DEF Handle, selectBackend, selectBackendByScore, Connect, forwardRequestWithTimeout,
             BackendFails, updateSessionActivity, syncSession, Finish, tryFailover, Bind,
             Ends, Moves, Phases
    <2> QED BY <2>1, Zenon DEF TypeInv, IInv, Counts
  <1> QED BY <1>2, <1>3, <1>4, Zenon

\* As long as the requests of a session do not overlap, none finds its session bound
\* when it binds it.
LEMMA UnboundStep ==
    ASSUME TypeInv, Undisturbed, Unbound, [Next]_vars PROVE Unbound'
  <1> SUFFICES ASSUME NEW r \in Requests, phase'[r] \in {"choose", "bind"}, SessionOf[r] # None
               PROVE  session'[SessionOf[r]] = None
    BY Zenon DEF Unbound
  <1> DEFINE s == SessionOf[r]
  <1>1. s \in Sessions
    BY SessionOrNone, Zenon
  <1>2. phase[r] \in {"choose", "bind"} => session[s] = None
    BY Zenon DEF Unbound
  <1>3. ASSUME NEW q \in Requests, Handle(q) PROVE session'[s] = None
    <2>1. CASE q = r
      BY <1>3, <2>1, OwnUnbound, Zenon
    <2>2. CASE q # r
      <3>1. phase'[r] = phase[r] /\ phase[q] \notin {"idle", "done"}
        BY <1>3, <2>2, OwnSession, Zenon
      <3>2. SessionOf[q] # s
        BY <2>2, <3>1, Zenon DEF Undisturbed, Concurrent
      <3>3. session'[s] = session[s]
        BY <1>1, <1>3, <3>2, OwnSession, Zenon
      <3> QED BY <1>2, <3>1, <3>3, Zenon
    <2> QED BY <2>1, <2>2, Zenon
  <1>4. ASSUME NEW q \in Requests, handleChat(q) PROVE session'[s] = None
    <2>1. session' = session /\ \E p \in {"select", "done"} : phase' = [phase EXCEPT ![q] = p]
      BY <1>4, Zenon DEF handleChat, Ends, Moves, sessions
    <2>2. phase'[r] = phase[r]
      BY <2>1, Zenon DEF TypeInv, IInv, Counts
    <2> QED BY <1>2, <2>1, <2>2, Zenon
  <1>5. CASE cleanupExpiredSessions
    <2>1. phase' = phase
      BY <1>5, Zenon DEF cleanupExpiredSessions, chat
    <2>2. session'[s] \in {None, session[s]}
      BY <1>1, <1>5, Zenon DEF cleanupExpiredSessions
    <2> QED BY <1>2, <2>1, <2>2, Zenon
  <1>6. ASSUME NEW t \in Sessions, Expire(t) PROVE session'[s] = None
    <2>1. phase' = phase /\ session[t] # None /\ \E v : session' = [session EXCEPT ![t] = v]
      BY <1>6, Zenon DEF Expire, chat
    <2>2. session[s] = None /\ s # t
      BY <1>2, <2>1, Zenon
    <2> QED BY <1>1, <2>1, <2>2, Zenon DEF TypeInv, Rest
  <1>7. CASE UNCHANGED <<phase, session>>
    BY <1>2, <1>7, Zenon
  <1> QED BY <1>3, <1>4, <1>5, <1>6, <1>7, Zenon
          DEF Next, getPeersAndStartElection, doSync, vars, chat, sessions

\* ActiveConn of a backend that serves one model is exactly the number of its requests and
\* sessions (router.go:120, session.go:9, session.go:23), for any number of them, as long as
\* the requests of a session do not overlap, doSync replaces no object in use and drops no
\* backend of a session, and the plugin does not hear itself.
THEOREM QuotaHolds == ASSUME Dedicated, ~HearsItself PROVE Spec => Quota
  <1> DEFINE Exact == Unbound /\ NoSurplus /\ HoldersCounted
  <1>1. Init => Exact
    <2> SUFFICES ASSUME Init PROVE Exact
      OBVIOUS
    <2>1. Unbound
      BY Zenon DEF Init, Unbound
    <2>2. table = {}
      BY Zenon DEF Init
    <2> QED BY <2>1, <2>2, Zenon DEF NoSurplus, HoldersCounted
  <1>2. ASSUME TypeInv, Listed, Undisturbed, Undisturbed', Exact, [Next]_vars PROVE Exact'
    <2>1. Unbound'
      BY <1>2, UnboundStep, Zenon
    <2>2. BindsListed
      BY <1>2, Zenon DEF Undisturbed
    <2>3. ASSUME NEW m \in Models, NEW b \in Backends, <<m, b>> \in table'
          PROVE  Surplus(m, b)' = 0
      <3>1. <<m, b>> \in table => Surplus(m, b) = 0
        BY <1>2, Zenon DEF NoSurplus
      <3>2. CASE doSync
        BY <1>2, <2>2, <2>3, <3>1, <3>2, Dedicated, SurplusSync, Zenon
      <3>3. CASE ~doSync
        <4>1. <<m, b>> \in table
          BY <1>2, <2>3, <3>3, TableStep, Zenon
        <4>2. Surplus(m, b)' = Surplus(m, b)
          BY <1>2, <2>2, <3>3, <4>1, Dedicated, ~HearsItself, SurplusStep, Zenon
        <4> QED BY <3>1, <4>1, <4>2, Zenon
      <3> QED BY <3>2, <3>3, Zenon
    <2>4. ASSUME NEW m \in Models, NEW b \in Backends, <<m, b>> \in table'
          PROVE  conns'[<<m, b>>] - quota'[<<m, b>>] = Cardinality(Holders(m, b)')
      <3>0. conns[<<m, b>>] \in Int /\ quota[<<m, b>>] \in Int
        BY <1>2, <<m, b>> \in Models \X Backends, Zenon DEF TypeInv, IInv, Counts, CountFns
      <3>1. <<m, b>> \in table =>
               conns[<<m, b>>] - quota[<<m, b>>] = Cardinality(Holders(m, b))
        BY <1>2, Zenon DEF HoldersCounted
      <3>2. CASE doSync
        <4>1. Holders(m, b) = {} /\ Holders(m, b)' = {}
          BY <1>2, <3>2, SyncUnheld, Zenon
        <4>2. PICK new \in SUBSET Serves :
                 /\ conns' = [k \in Models \X Backends |->
                                IF k \in new \cap table THEN conns[k] ELSE 0]
                 /\ quota' = [k \in Models \X Backends |->
                                IF k \in new \cap table THEN quota[k] ELSE 0]
          BY <3>2, Zenon DEF doSync
        <4>3. \/ /\ <<m, b>> \in table
                 /\ conns'[<<m, b>>] = conns[<<m, b>>] /\ quota'[<<m, b>>] = quota[<<m, b>>]
              \/ conns'[<<m, b>>] = 0 /\ quota'[<<m, b>>] = 0
          BY <4>2, <<m, b>> \in Models \X Backends, Zenon
        <4>4. 0 - 0 = 0 /\ Cardinality({}) = 0
          BY 0 \in Int, Differences, FS_EmptySet, Zenon
        <4> QED BY <3>1, <4>1, <4>3, <4>4, Zenon
      <3>3. CASE ~doSync
        <4>1. <<m, b>> \in table
          BY <1>2, <2>4, <3>3, TableStep, Zenon
        <4>2. SameBalance /\ IInv'
          BY <1>2, <3>3, NextBalance, NextIInv, Zenon DEF TypeInv
        <4>3. conns'[<<m, b>>] - quota'[<<m, b>>] - Cardinality(Holders(m, b)') =
              conns[<<m, b>>] - quota[<<m, b>>] - Cardinality(Holders(m, b))
          BY <4>2, Zenon DEF SameBalance
        <4>4. conns'[<<m, b>>] \in Int /\ quota'[<<m, b>>] \in Int
          BY <4>2, <<m, b>> \in Models \X Backends, Zenon DEF IInv, Counts, CountFns
        <4>5. Cardinality(Holders(m, b)) \in Int /\ Cardinality(Holders(m, b)') \in Int
          BY HoldersFinite, NatInt, Zenon
        <4>6. /\ conns[<<m, b>>] - quota[<<m, b>>] \in Int
              /\ conns'[<<m, b>>] - quota'[<<m, b>>] \in Int
          BY <3>0, <4>4, Differences, Zenon
        <4> QED BY <3>1, <4>1, <4>3, <4>5, <4>6, SameDifference, ZenonT(60)
      <3> QED BY <3>2, <3>3, Zenon
    <2>5. NoSurplus'
      BY <2>3, Zenon DEF NoSurplus
    <2>6. HoldersCounted'
      BY <2>4, Zenon DEF HoldersCounted
    <2> QED BY <2>1, <2>5, <2>6, Zenon
  <1>3. ASSUME TypeInv, Undisturbed, Exact PROVE AllCharged
    <2> SUFFICES ASSUME NEW m \in Models, NEW b \in Backends, <<m, b>> \in table
                 PROVE  conns[<<m, b>>] = Cardinality(Connected(m, b)) + Cardinality(Bound(b))
      BY Zenon DEF AllCharged
    <2>1. Connected(m, b) = Holders(m, b)
      BY <1>3, Zenon DEF Undisturbed, Holders
    <2>2. conns[<<m, b>>] - quota[<<m, b>>] = Cardinality(Holders(m, b))
      BY <1>3, Zenon DEF HoldersCounted
    <2>3. quota[<<m, b>>] - Cardinality(Bound(b)) = 0
      BY <1>3, Zenon DEF NoSurplus, Surplus
    <2>4. conns[<<m, b>>] \in Int /\ quota[<<m, b>>] \in Int
      BY <1>3, <<m, b>> \in Models \X Backends, Zenon DEF TypeInv, IInv, Counts, CountFns
    <2>5. Cardinality(Bound(b)) \in Int /\ Cardinality(Holders(m, b)) \in Int
      BY BoundFinite, HoldersFinite, NatInt, Zenon
    <2>6. quota[<<m, b>>] = Cardinality(Bound(b))
      BY <2>3, <2>4, <2>5, NoDifference, Zenon
    <2>7. conns[<<m, b>>] = Cardinality(Holders(m, b)) + quota[<<m, b>>]
      BY <2>2, <2>4, <2>5, SumOf, Zenon
    <2> QED BY <2>1, <2>6, <2>7, Zenon
  <1> HIDE DEF Exact
  <1> QED BY <1>1, <1>2, <1>3, TypeInvHolds, ListedHolds, PTL DEF Spec, Quota

=============================================================================
