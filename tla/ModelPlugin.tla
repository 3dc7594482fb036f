----------------------------- MODULE ModelPlugin -----------------------------
(***************************************************************************)
(* The chat requests of a Model Router plugin (models_plugin/router.go,    *)
(* backend.go, session.go, failover.go, sync.go): backends are selected    *)
(* for a model or taken from the session, a failed request goes to another *)
(* backend, sessions expire, and doSync replaces the table of backends     *)
(* while requests hold pointers into the old one.                          *)
(*                                                                         *)
(* A Backend object is named by its model and its address and port.  An    *)
(* object that doSync has replaced is not current any more; its ActiveConn *)
(* is of no further use and is left out.  Which backend the score selects  *)
(* depends on latencies and on chance.                                     *)
(***************************************************************************)
EXTENDS Integers, FiniteSets

CONSTANTS Models, Backends, Serves,   \* <<m, b>>: b serves model m
          Reliable,                   \* backends that answer every request
          Sessions, Expiring,         \* sessions that may reach their timeout
          Requests, ModelOf, SessionOf,
          HearsItself,                \* the plugin listens on the registered port
          MaxSyncs,                   \* bound on the calls of doSync
          None

\* A pointer to the object of a backend, for the model of the request.
Objects == [at : Backends, current : BOOLEAN]

\* A list of such pointers.
Listings == [backends : SUBSET Backends, current : BOOLEAN]

\* The backend is None when the port is zero.
Bindings == [backend : Backends \cup {None}, fresh : BOOLEAN]

ASSUME ModelPluginAssumption ==
    /\ Serves \subseteq Models \X Backends
    /\ Reliable \subseteq Backends /\ Expiring \subseteq Sessions
    /\ ModelOf \in [Requests -> Models]
    /\ SessionOf \in [Requests -> Sessions \cup {None}]
    /\ HearsItself \in BOOLEAN /\ MaxSyncs \in Nat
    /\ None \notin Backends \cup Sessions \cup Objects \cup Listings \cup Bindings
    /\ IsFiniteSet(Requests) /\ IsFiniteSet(Sessions)

VARIABLES
    isMaster,
    table,    \* modelToBackends: the current objects
    conns,    \* their ActiveConn
    session,  \* sessionToBackend
    quota,    \* the part of conns that stems from sessions (a history variable)
    phase, listing, held, tried, answer,
    syncs

chat == <<phase, listing, held, tried, answer>>
sessions == <<session, quota>>
vars == <<isMaster, table, conns, sessions, chat, syncs>>

Phases == {"idle", "select", "lookup", "unbind", "choose", "connect", "sent", "touch", "sync",
           "failover", "release", "bind", "resent", "finish", "done"}
\* "cut": the body is incomplete.
Answers == {"none", "ok", "cut", "unavailable", "badGateway"}

TypeOK ==
    /\ isMaster \in BOOLEAN
    /\ table \subseteq Serves
    /\ conns \in [Models \X Backends -> Int]
    /\ session \in [Sessions -> Bindings \cup {None}]
    /\ quota \in [Models \X Backends -> Int]
    /\ phase \in [Requests -> Phases]
    /\ listing \in [Requests -> Listings \cup {None}]
    /\ held \in [Requests -> Objects \cup {None}]
    /\ tried \in [Requests -> Objects \cup {None}]
    /\ answer \in [Requests -> Answers]
    /\ syncs \in 0..MaxSyncs

Init ==
    /\ isMaster = FALSE
    /\ table = {}
    /\ conns = [k \in Models \X Backends |-> 0]
    /\ session = [s \in Sessions |-> None]
    /\ quota = [k \in Models \X Backends |-> 0]
    /\ phase = [r \in Requests |-> "idle"]
    /\ listing = [r \in Requests |-> None]
    /\ held = [r \in Requests |-> None]
    /\ tried = [r \in Requests |-> None]
    /\ answer = [r \in Requests |-> "none"]
    /\ syncs = 0

-----------------------------------------------------------------------------
Moves(r, from, to) == phase[r] = from /\ phase' = [phase EXCEPT ![r] = to]

Ends(r, from, what) ==
    /\ Moves(r, from, "done")
    /\ answer' = [answer EXCEPT ![r] = what]
    /\ UNCHANGED <<isMaster, table, conns, sessions, listing, held, tried, syncs>>

\* The objects of model m.
BackendsOf(m) == {b \in Backends : <<m, b>> \in table}

\* d is added to ActiveConn of the object.
Add(counts, m, object, d) ==
    IF object.current THEN [counts EXCEPT ![<<m, object.at>>] = @ + d] ELSE counts

\* In every model, one object with the address of the session is decremented.
Freed(counts, bound) ==
    [k \in Models \X Backends |->
        IF k \in table /\ k[2] \in {session[s].backend : s \in bound}
        THEN counts[k] - Cardinality({s \in bound : session[s].backend = k[2]})
        ELSE counts[k]]

\* Mutant: the session is not counted.
bindUncounted(s, m, object) ==
    /\ UNCHANGED <<conns, quota>>
    /\ session' = [session EXCEPT ![s] = [backend |-> object.at, fresh |-> TRUE]]

bindSession(s, m, object) ==
    /\ conns' = Add(conns, m, object, 1)
    /\ quota' = Add(quota, m, object, 1)
    /\ session' = [session EXCEPT ![s] = [backend |-> object.at, fresh |-> TRUE]]

\* Mutant: the quota of the session is not returned.
unbindKeeps(s) ==
    /\ session' = [session EXCEPT ![s] = None]
    /\ UNCHANGED <<conns, quota>>

unbindSession(s) ==
    /\ IF session[s] = None THEN UNCHANGED <<conns, quota>>
       ELSE conns' = Freed(conns, {s}) /\ quota' = Freed(quota, {s})
    /\ session' = [session EXCEPT ![s] = None]

-----------------------------------------------------------------------------
(* handleChat and selectBackend.                                           *)

\* Without a master address, as long as the plugin is not the master.
handleChat(r) ==
    \/ ~isMaster /\ Ends(r, "idle", "unavailable")
    \/ /\ isMaster
       /\ Moves(r, "idle", "select")
       /\ UNCHANGED <<isMaster, table, conns, sessions, listing, held, tried, answer, syncs>>

selectBackend(r) ==
    LET found == BackendsOf(ModelOf[r])
    IN  \/ found = {} /\ Ends(r, "select", "unavailable")
        \/ /\ found # {}
           /\ Moves(r, "select", IF SessionOf[r] = None THEN "choose" ELSE "lookup")
           /\ listing' = [listing EXCEPT ![r] = [backends |-> found, current |-> TRUE]]
           /\ UNCHANGED <<isMaster, table, conns, sessions, held, tried, answer, syncs>>

Holds(r, b) == held' = [held EXCEPT ![r] = [at |-> b, current |-> listing[r].current]]

getSessionBackend(r) ==
    LET s == session[SessionOf[r]]
    IN  /\ phase[r] = "lookup"
        /\ \/ s = None /\ Moves(r, "lookup", "choose") /\ UNCHANGED held
           \/ /\ s # None
              /\ s.fresh /\ s.backend \in listing[r].backends
              /\ Moves(r, "lookup", "connect")
              /\ Holds(r, s.backend)
           \/ /\ s # None
              /\ ~(s.fresh /\ s.backend \in listing[r].backends)
              /\ Moves(r, "lookup", "unbind") /\ UNCHANGED held
        /\ UNCHANGED <<isMaster, table, conns, sessions, listing, tried, answer, syncs>>

Unbind(r) ==
    /\ Moves(r, "unbind", "choose")
    /\ unbindSession(SessionOf[r])
    /\ UNCHANGED <<isMaster, table, listing, held, tried, answer, syncs>>

selectBackendByScore(r) ==
    /\ Moves(r, "choose", "connect")
    /\ \E b \in listing[r].backends : Holds(r, b)
    /\ IF SessionOf[r] = None THEN UNCHANGED <<conns, sessions>>
       ELSE bindSession(SessionOf[r], ModelOf[r], held'[r])
    /\ UNCHANGED <<isMaster, table, listing, tried, answer, syncs>>

Connect(r) ==
    /\ Moves(r, "connect", "sent")
    /\ conns' = Add(conns, ModelOf[r], held[r], 1)
    /\ UNCHANGED <<isMaster, table, sessions, listing, held, tried, answer, syncs>>

-----------------------------------------------------------------------------
(* The answer of the backend.  The context is cancelled before the body is *)
(* read, which may or may not have arrived by then.                        *)

forwardRequestWithTimeout(r) ==
    /\ \/ Moves(r, "sent", IF SessionOf[r] = None THEN "finish" ELSE "touch")
       \/ Moves(r, "resent", "finish")
    /\ \E body \in {"ok", "cut"} : answer' = [answer EXCEPT ![r] = body]
    /\ UNCHANGED <<isMaster, table, conns, sessions, listing, held, tried, syncs>>

updateSessionActivity(r) ==
    /\ Moves(r, "touch", "sync")
    /\ session' = [session EXCEPT ![SessionOf[r]] =
                      IF @ = None THEN None ELSE [@ EXCEPT !.fresh = TRUE]]
    /\ UNCHANGED <<isMaster, table, conns, quota, listing, held, tried, answer, syncs>>

\* The numbers of a JSON message are floats: neither the port nor the time of the
\* last activity is an int, and both become zero.
handleSessionSync(s) == session' = [session EXCEPT ![s] = [backend |-> None, fresh |-> FALSE]]

\* The broadcast reaches the services of the own gateway, the sender included, on
\* the port that they registered.  It may also fail.
syncSession(r) ==
    /\ Moves(r, "sync", "finish")
    /\ \/ HearsItself /\ handleSessionSync(SessionOf[r])
       \/ UNCHANGED session
    /\ UNCHANGED <<isMaster, table, conns, quota, listing, held, tried, answer, syncs>>

Finish(r) ==
    /\ Moves(r, "finish", "done")
    /\ conns' = Add(conns, ModelOf[r], held[r], -1)
    /\ UNCHANGED <<isMaster, table, sessions, listing, held, tried, answer, syncs>>

-----------------------------------------------------------------------------
(* tryFailover.                                                            *)

Failed(r) == IF tried[r] = None THEN held[r] ELSE tried[r]

BackendFails(r) ==
    /\ \/ Moves(r, "sent", "failover")
       \/ Moves(r, "resent", "failover")
    /\ Failed(r).at \notin Reliable
    /\ UNCHANGED <<isMaster, table, conns, sessions, listing, held, tried, answer, syncs>>

\* Only the object that failed last is excluded, and Healthy is always true.
FailoverCandidates(r) ==
    BackendsOf(ModelOf[r]) \ (IF Failed(r).current THEN {Failed(r).at} ELSE {})

\* Mutant: the deferred decrement is also done here.
tryFailoverReturns(r) ==
    \/ /\ Moves(r, "failover", "finish")
       /\ FailoverCandidates(r) = {}
       /\ answer' = [answer EXCEPT ![r] = "badGateway"]
       /\ conns' = Add(conns, ModelOf[r], held[r], -1)
       /\ UNCHANGED <<isMaster, table, sessions, listing, held, tried, syncs>>
    \/ /\ Moves(r, "failover", IF SessionOf[r] = None THEN "resent" ELSE "release")
       /\ \E b \in FailoverCandidates(r) :
             tried' = [tried EXCEPT ![r] = [at |-> b, current |-> TRUE]]
       /\ UNCHANGED <<isMaster, table, conns, sessions, listing, held, answer, syncs>>

\* Mutant: the failed backend is not excluded.
tryFailoverSame(r) ==
    /\ Moves(r, "failover", IF SessionOf[r] = None THEN "resent" ELSE "release")
    /\ \E b \in BackendsOf(ModelOf[r]) :
          tried' = [tried EXCEPT ![r] = [at |-> b, current |-> TRUE]]
    /\ UNCHANGED <<isMaster, table, conns, sessions, listing, held, answer, syncs>>

tryFailover(r) ==
    \/ /\ Moves(r, "failover", "finish")
       /\ FailoverCandidates(r) = {}
       /\ answer' = [answer EXCEPT ![r] = "badGateway"]
       /\ UNCHANGED <<isMaster, table, conns, sessions, listing, held, tried, syncs>>
    \/ /\ Moves(r, "failover", IF SessionOf[r] = None THEN "resent" ELSE "release")
       /\ \E b \in FailoverCandidates(r) :
             tried' = [tried EXCEPT ![r] = [at |-> b, current |-> TRUE]]
       /\ UNCHANGED <<isMaster, table, conns, sessions, listing, held, answer, syncs>>

\* The session is moved to the new backend, under two locks.
Release(r) ==
    /\ Moves(r, "release", "bind")
    /\ unbindSession(SessionOf[r])
    /\ UNCHANGED <<isMaster, table, listing, held, tried, answer, syncs>>

\* Mutant: the session is bound to the backend that failed.
BindFailed(r) ==
    /\ Moves(r, "bind", "resent")
    /\ bindSession(SessionOf[r], ModelOf[r], held[r])
    /\ UNCHANGED <<isMaster, table, listing, held, tried, answer, syncs>>

Bind(r) ==
    /\ Moves(r, "bind", "resent")
    /\ bindSession(SessionOf[r], ModelOf[r], tried[r])
    /\ UNCHANGED <<isMaster, table, listing, held, tried, answer, syncs>>

-----------------------------------------------------------------------------
(* Background tasks.                                                       *)

\* The answer of the gateway lists objects where getPeers expects strings, so no
\* peers are found and the plugin becomes the master.
getPeersAndStartElection ==
    /\ ~isMaster
    /\ isMaster' = TRUE
    /\ UNCHANGED <<table, conns, sessions, chat, syncs>>

\* The time since the last activity exceeds the timeout.
Expire(s) ==
    /\ s \in Expiring /\ session[s] # None
    /\ session[s].fresh
    /\ session' = [session EXCEPT ![s].fresh = FALSE]
    /\ UNCHANGED <<isMaster, table, conns, quota, chat, syncs>>

cleanupExpiredSessions ==
    LET expired == {s \in Sessions : session[s] # None /\ ~session[s].fresh}
    IN  /\ expired # {}
        /\ conns' = Freed(conns, expired)
        /\ quota' = Freed(quota, expired)
        /\ session' = [s \in Sessions |-> IF s \in expired THEN None ELSE session[s]]
        /\ UNCHANGED <<isMaster, table, chat, syncs>>

Outdated(object) == IF object = None THEN None ELSE [object EXCEPT !.current = FALSE]

\* New objects for what the gateway and the backends report, with the counts of
\* the old ones.
doSync ==
    /\ syncs < MaxSyncs
    /\ syncs' = syncs + 1
    /\ \E new \in SUBSET Serves :
        /\ table' = new
        /\ conns' = [k \in Models \X Backends |-> IF k \in new \cap table THEN conns[k] ELSE 0]
        /\ quota' = [k \in Models \X Backends |-> IF k \in new \cap table THEN quota[k] ELSE 0]
    /\ listing' = [r \in Requests |-> Outdated(listing[r])]
    /\ held' = [r \in Requests |-> Outdated(held[r])]
    /\ tried' = [r \in Requests |-> Outdated(tried[r])]
    /\ UNCHANGED <<isMaster, session, phase, answer>>

-----------------------------------------------------------------------------
Handle(r) ==
    \/ selectBackend(r) \/ getSessionBackend(r) \/ Unbind(r) \/ selectBackendByScore(r)
    \/ Connect(r) \/ forwardRequestWithTimeout(r) \/ BackendFails(r)
    \/ updateSessionActivity(r) \/ syncSession(r) \/ Finish(r)
    \/ tryFailover(r) \/ Release(r) \/ Bind(r)

Next ==
    \/ \E r \in Requests : handleChat(r) \/ Handle(r)
    \/ \E s \in Sessions : Expire(s)
    \/ getPeersAndStartElection \/ cleanupExpiredSessions \/ doSync

Spec == Init /\ [][Next]_vars

\* The handlers run, and a request to a backend has a timeout of 30 seconds.
FairSpec == Spec /\ \A r \in Requests : WF_vars(Handle(r))

-----------------------------------------------------------------------------
(* Properties.                                                             *)

\* The requests that were counted for the backend.
Connected(m, b) ==
    {r \in Requests : /\ phase[r] \in {"sent", "touch", "sync", "failover", "release", "bind",
                                       "resent", "finish"}
                      /\ ModelOf[r] = m /\ held[r].at = b}

\* ActiveConn of an object is never less than the requests that hold it, its share of
\* the sessions apart, whenever doSync (sync.go:150) replaces the objects: no deferred
\* decrement hits an object that was not incremented.
Covered ==
    \A m \in Models, b \in Backends :
        conns[<<m, b>>] - quota[<<m, b>>] >= Cardinality({r \in Connected(m, b) : held[r].current})

Bound(b) == {s \in Sessions : session[s] # None /\ session[s].backend = b}

\* The backends of the sessions stay in the table, and doSync does not come between
\* the listing of the backends and the bind of a session.
BindsListed ==
    /\ \A s \in Sessions :
          session[s] # None /\ session[s].backend # None =>
              \E m \in Models : <<m, session[s].backend>> \in table
    /\ \A r \in Requests :
          /\ phase[r] = "choose" /\ SessionOf[r] # None => listing[r].current
          /\ phase[r] = "bind" => tried[r].current

SessionsCharged ==
    \A m \in Models, b \in Backends :
        <<m, b>> \in table => quota[<<m, b>>] >= Cardinality(Bound(b))

\* As long as that is so, a backend that serves one model is never charged for fewer
\* sessions than are bound to it: two first requests of a session (backend.go:53) and
\* a session overwritten by its own broadcast leave a charge behind, and nothing takes
\* one away that was not made.
QuotaFloor == []BindsListed => []SessionsCharged

Concurrent(r, q) ==
    r # q /\ SessionOf[r] = SessionOf[q] /\ SessionOf[r] # None
          /\ {phase[r], phase[q]} \cap {"idle", "done"} = {}

\* No two requests of a session run at the same time, and no request is counted for
\* an object that doSync has replaced.
Undisturbed ==
    /\ BindsListed
    /\ \A r, q \in Requests : ~Concurrent(r, q)
    /\ \A m \in Models, b \in Backends : \A r \in Connected(m, b) : held[r].current

AllCharged ==
    \A m \in Models, b \in Backends :
        <<m, b>> \in table =>
            conns[<<m, b>>] = Cardinality(Connected(m, b)) + Cardinality(Bound(b))

\* As long as that is so, ActiveConn of a backend that serves one model is the number
\* of its requests and sessions, if the plugin does not hear itself: failed requests
\* take their session along (failover.go:34), and expiry races with them.
Quota == []Undisturbed => []AllCharged

\* Every request that was accepted is answered, if a backend that answers stays
\* in reach of the failover.
AllAnswered == \A r \in Requests : phase[r] = "select" ~> phase[r] = "done"

\* Every request of session s that has got past the lookup is at backend b, or was
\* answered there last.
AllAt(s, b) ==
    \A q \in Requests :
        SessionOf[q] = s =>
            \/ phase[q] \in {"idle", "select", "lookup"}
            \/ phase[q] = "done" /\ held[q] = None
            \/ /\ phase[q] \notin {"unbind", "choose", "release", "bind"}
               /\ Failed(q).at = b

\* A request of a session goes to the backend that answered the session before, also
\* when that was the backend of a failover (failover.go:36), if the session has not
\* expired or been overwritten since and the backend is still listed.
Affinity ==
    [][\A r, q \in Requests :
          ( /\ phase[r] = "lookup" /\ phase'[r] # "lookup"
            /\ SessionOf[q] = SessionOf[r]
            /\ phase[q] = "done" /\ answer[q] \in {"ok", "cut"}
            /\ AllAt(SessionOf[r], Failed(q).at)
            /\ session[SessionOf[r]] # None
            /\ session[SessionOf[r]].fresh /\ session[SessionOf[r]].backend # None
            /\ Failed(q).at \in listing[r].backends )
          => phase'[r] = "connect" /\ held'[r].at = Failed(q).at]_vars

=============================================================================
