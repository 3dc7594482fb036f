------------------------------- MODULE Gateway -------------------------------
(***************************************************************************)
(* The life of one gateway process (cmd/gateway/main.go): it reads its     *)
(* configuration, looks for free ports and starts gossip; then the service *)
(* manager starts, restarts and stops the admin and the business server, a *)
(* monitor checks the admin server and restarts both, the configuration    *)
(* center passes reloads on, and a loop handles SIGHUP and SIGTERM.        *)
(*                                                                         *)
(* Every Start of a server runs in a goroutine of its own, here a slot of  *)
(* runs[c].  A slot is used again once its goroutine has ended, but never  *)
(* while s.server still points at it.  The one Config object is shared by  *)
(* all parts, so it is the single variable cfg.                            *)
(***************************************************************************)
EXTENDS Config, FiniteSets

CONSTANTS
    Starts,     \* the settings on the command line and in the file of --config
    Files,      \* what novaairouter.yaml may hold when SIGHUP comes
    Foreign,    \* the ports that other programs may hold
    Slots,      \* the goroutines that may run one server at the same time
    Fallible,   \* the servers that may stop because of an error
    MaxFaults,  \* how many errors and late health checks happen at most
    QueueCap,   \* capacity of updateCh (10 in the code)
    MaxReloads, \* how many times the configuration is reloaded at most
    Overlap     \* whether the monitor may be at work while the process stops

Servers == {"admin", "business"}

ASSUME GatewayAssumption ==
    /\ Starts \subseteq Sources /\ Files \subseteq Sources
    /\ Foreign \subseteq Nat \ {0}
    /\ Slots \in Nat /\ Slots >= 2
    /\ Fallible \subseteq Servers
    /\ MaxFaults \in Nat
    /\ QueueCap \in Nat \ {0}
    /\ MaxReloads \in Nat
    /\ Overlap \in BOOLEAN

VARIABLES
    cfg,        \* the configuration in force
    outcome,    \* how it came into force: "loaded", or what UpdateConfig returned
    foreign,    \* the ports of other programs
    gport,      \* the port of the gossip server, 0 while it does not listen
    watched,    \* the port at which the monitor expects the admin server
    runs,       \* runs[c][i]: what the goroutine in slot i does for server c
    server,     \* server[c]: the slot of s.server, 0 for nil
    main,       \* where runGateway is
    monitor,    \* where startServiceMonitor is
    updates,    \* how many configurations are in updateCh
    closed,     \* the configuration center is shut down
    syncing,    \* the goroutine of syncConfig runs
    done,       \* the done channel of gossip is closed
    left,       \* how often the node told its peers that it leaves
    faults,     \* errors and late health checks so far
    reloads     \* reloads so far

config == <<cfg, outcome>>
ports == <<foreign, watched>>
services == <<runs, server>>
center == <<updates, closed, syncing>>
gossip == <<gport, done, left>>
vars == <<config, ports, services, main, monitor, center, gossip, faults, reloads>>

\* "taken" is between net.Listen and the assignment of s.server (business),
\* "ready" between that assignment and the listening (admin).
Runs == [phase : {"free", "spawned", "ready", "taken", "serving"}, at : Int, tls : BOOLEAN]
Free == [phase |-> "free", at |-> 0, tls |-> FALSE]

Alive == main \notin {"exited", "panicked"}

\* StartAll is done.
Started == main \notin {"loading", "checking", "gossiping", "starting"}

Init ==
    /\ cfg = DefaultConfigs.settings
    /\ outcome = "none"
    /\ foreign \in SUBSET Foreign
    /\ watched = 0
    /\ runs = [c \in Servers |-> [i \in 1..Slots |-> Free]]
    /\ server = [c \in Servers |-> 0]
    /\ main = "loading"
    /\ monitor = "idle"
    /\ updates = 0 /\ closed = FALSE /\ syncing = FALSE
    /\ gport = 0 /\ done = FALSE /\ left = 0
    /\ faults = 0 /\ reloads = 0

-----------------------------------------------------------------------------
(***************************************************************************)
(* The servers.                                                            *)
(***************************************************************************)

\* A slot for one more goroutine of server c.
Unused(c) == {i \in 1..Slots : runs[c][i].phase = "free" /\ i # server[c]}

\* sm.wg.Add(1) and go Start().
Spawned(rs, c) ==
    LET i == CHOOSE j \in Unused(c) : \A k \in Unused(c) : j <= k
    IN  [rs EXCEPT ![c][i] = [phase |-> "spawned", at |-> 0, tls |-> FALSE]]

\* http.Server.Shutdown of s.server: its listener is closed, and Serve or
\* ListenAndServe returns at once, even if it is called only later.
Closed(rs, c) ==
    IF server[c] # 0 THEN [rs EXCEPT ![c][server[c]] = Free] ELSE rs

\* Nobody listens on port p.  For port zero the system finds a free one.
Available(p) ==
    \/ p = 0
    \/ /\ p > 0 /\ p \notin foreign /\ p # gport
       /\ \A c \in Servers, i \in 1..Slots :
             ~(runs[c][i].phase \in {"taken", "serving"} /\ runs[c][i].at = p)

\* No server is being started.  A start takes milliseconds, so it is over
\* before the next health check (ten seconds) and before the next signal.
Resting ==
    \A c \in Servers, i \in 1..Slots : runs[c][i].phase \in {"free", "serving"}

\* AdminServer.Start: s.server is assigned first, then ListenAndServe takes
\* the port below the one of the business server.
AdminStart(i) ==
    /\ Alive
    /\ runs["admin"][i].phase = "spawned"
    /\ runs' = [runs EXCEPT !["admin"][i] =
                    [phase |-> "ready", at |-> AdminPort(cfg.listen), tls |-> FALSE]]
    /\ server' = [server EXCEPT !["admin"] = i]
    /\ UNCHANGED <<config, ports, main, monitor, center, gossip, faults, reloads>>

AdminListen(i) ==
    /\ Alive
    /\ runs["admin"][i].phase = "ready"
    /\ runs' = [runs EXCEPT !["admin"][i] =
                    IF Available(@.at)
                    THEN [phase |-> "serving", at |-> @.at, tls |-> cfg.tls] ELSE Free]
    /\ UNCHANGED <<config, ports, server, main, monitor, center, gossip, faults, reloads>>

\* BusinessServer.Start: net.Listen comes first, then s.server is assigned
\* and serves.
BusinessListen(i) ==
    /\ Alive
    /\ runs["business"][i].phase = "spawned"
    /\ runs' = [runs EXCEPT !["business"][i] =
                    IF Available(BusinessPort(cfg.listen))
                    THEN [phase |-> "taken", at |-> BusinessPort(cfg.listen), tls |-> FALSE]
                    ELSE Free]
    /\ UNCHANGED <<config, ports, server, main, monitor, center, gossip, faults, reloads>>

BusinessStart(i) ==
    /\ Alive
    /\ runs["business"][i].phase = "taken"
    /\ runs' = [runs EXCEPT !["business"][i] =
                    [phase |-> "serving", at |-> @.at, tls |-> cfg.tls]]
    /\ server' = [server EXCEPT !["business"] = i]
    /\ UNCHANGED <<config, ports, main, monitor, center, gossip, faults, reloads>>

\* A server stops because of an error.
Fail(c, i) ==
    /\ Alive
    /\ c \in Fallible /\ faults < MaxFaults
    /\ runs[c][i].phase # "free"
    /\ runs' = [runs EXCEPT ![c][i] = Free]
    /\ server' = IF <<c, runs[c][i].phase>> \in {<<"admin", "spawned">>, <<"business", "taken">>}
                 THEN [server EXCEPT ![c] = i] ELSE server
    /\ faults' = faults + 1
    /\ UNCHANGED <<config, ports, main, monitor, center, gossip, reloads>>

-----------------------------------------------------------------------------
(***************************************************************************)
(* The monitor: it asks for /health over HTTP at the admin port of the     *)
(* start, and if nobody answers it restarts both servers, each in two      *)
(* steps (Shutdown, and half a second later go Start).  The gossip server  *)
(* answers /health too, a server with TLS refuses plain HTTP, and the      *)
(* programs behind foreign ports have no /health.                          *)
(***************************************************************************)

Serves(c) == \E i \in 1..Slots : runs[c][i].phase = "serving"

\* Only a server with TLS counts as healthy.
HealthyWithTLS ==
    \E i \in 1..Slots :
        runs["admin"][i] = [phase |-> "serving", at |-> watched, tls |-> TRUE]

Healthy ==
    \/ gport = watched
    \/ \E i \in 1..Slots :
          runs["admin"][i] = [phase |-> "serving", at |-> watched, tls |-> FALSE]

checkServiceHealth ==
    /\ Alive
    /\ Started
    /\ Resting
    /\ Overlap \/ main = "running"
    /\ monitor = "idle"
    /\ \/ ~Healthy /\ UNCHANGED faults
       \/ Healthy /\ faults < MaxFaults /\ faults' = faults + 1
    /\ monitor' = "stopAdmin"
    /\ UNCHANGED <<config, ports, services, main, center, gossip, reloads>>

\* Shutdown of server c, as the monitor's step from one phase to the next.
RestartShutdown(c, from, to) ==
    /\ Alive
    /\ monitor = from
    /\ runs' = Closed(runs, c)
    /\ monitor' = to
    /\ UNCHANGED <<config, ports, server, main, center, gossip, faults, reloads>>

\* The restart forgets to start the server again.
RestartForgets(c, from, to) ==
    /\ Alive
    /\ monitor = from
    /\ monitor' = to
    /\ UNCHANGED <<config, ports, services, main, center, gossip, faults, reloads>>

RestartStart(c, from, to) ==
    /\ Alive
    /\ monitor = from
    /\ Unused(c) # {}
    /\ runs' = Spawned(runs, c)
    /\ monitor' = to
    /\ UNCHANGED <<config, ports, server, main, center, gossip, faults, reloads>>

RestartAdmin ==
    \/ RestartShutdown("admin", "stopAdmin", "startAdmin")
    \/ RestartStart("admin", "startAdmin", "stopBusiness")

RestartBusiness ==
    \/ RestartShutdown("business", "stopBusiness", "startBusiness")
    \/ RestartStart("business", "startBusiness", "idle")

-----------------------------------------------------------------------------
(***************************************************************************)
(* runGateway.                                                             *)
(***************************************************************************)

\* config.Load.
Load(source) ==
    /\ main = "loading"
    /\ IF Loads(source)
       THEN cfg' = source.settings /\ outcome' = "loaded" /\ main' = "checking"
       ELSE UNCHANGED config /\ main' = "exited"
    /\ UNCHANGED <<ports, services, monitor, center, gossip, faults, reloads>>

\* The ports of CheckedPorts that cannot be listened on.
unavailablePorts ==
    {p \in CheckedPorts(cfg.listen) : p < 0 \/ p \in foreign}

\* checkPorts finds all ports free, or the program ends; with --force killPort
\* tries to end the programs that hold them, and it starts in any case.
checkPorts ==
    /\ main = "checking"
    /\ \/ unavailablePorts = {} /\ main' = "gossiping" /\ UNCHANGED foreign
       \/ unavailablePorts # {} /\ main' = "exited" /\ UNCHANGED foreign
       \/ /\ unavailablePorts # {} /\ main' = "gossiping"
          /\ \E killed \in SUBSET unavailablePorts : foreign' = foreign \ killed
    /\ UNCHANGED <<config, watched, services, monitor, center, gossip, faults, reloads>>

\* Gossip takes the port that runGateway has checked for it.
StartGossipBelow ==
    /\ main = "gossiping"
    /\ gport' = IF Available(AdminPort(cfg.listen) - 1) THEN AdminPort(cfg.listen) - 1 ELSE 0
    /\ syncing' = TRUE
    /\ main' = "starting"
    /\ UNCHANGED <<config, ports, services, monitor, updates, closed, done, left,
                   faults, reloads>>

\* gossipServer.Start, whose failure to listen is only logged, and
\* configCenter.Start.
StartGossip ==
    /\ main = "gossiping"
    /\ gport' = IF Available(GossipPort(cfg.listen)) THEN GossipPort(cfg.listen) ELSE 0
    /\ syncing' = TRUE
    /\ main' = "starting"
    /\ UNCHANGED <<config, ports, services, monitor, updates, closed, done, left,
                   faults, reloads>>

\* StartAll; the monitor is told the admin port.
StartAll ==
    /\ main = "starting"
    /\ runs' = Spawned(Spawned(runs, "admin"), "business")
    /\ watched' = AdminPort(cfg.listen)
    /\ main' = "running"
    /\ UNCHANGED <<config, foreign, server, monitor, center, gossip, faults, reloads>>

\* The settings are not validated.
UpdateUnchecked(c) ==
    IF updates < QueueCap
    THEN outcome' = "sent" /\ updates' = updates + 1
    ELSE outcome' = "dropped" /\ UNCHANGED updates

\* configCenter.UpdateConfig returns an error if the settings are not valid or
\* updateCh is full.
UpdateConfig(c) ==
    IF ~ValidateConfig(c)
    THEN outcome' = "refused" /\ UNCHANGED updates
    ELSE IF updates < QueueCap
    THEN outcome' = "sent" /\ updates' = updates + 1
    ELSE outcome' = "dropped" /\ UNCHANGED updates

\* SIGHUP: *cfg = *newCfg comes before UpdateConfig, so the new settings are in
\* force even if UpdateConfig refuses them.
Reload(source) ==
    /\ main = "running" /\ reloads < MaxReloads
    /\ reloads' = reloads + 1
    /\ IF FileAccepted(source)
       THEN cfg' = Reloaded(source) /\ UpdateConfig(Reloaded(source))
       ELSE UNCHANGED <<config, updates>>
    /\ UNCHANGED <<ports, services, main, monitor, closed, syncing, gossip, faults>>

\* SIGTERM or SIGINT.
Terminate ==
    /\ main = "running"
    /\ Resting
    /\ Overlap \/ monitor = "idle"
    /\ main' = "stopAdmin"
    /\ UNCHANGED <<config, ports, services, monitor, center, gossip, faults, reloads>>

\* The calls of Shutdown are missing.
StopNothing(c, from, to) ==
    /\ main = from
    /\ main' = to
    /\ UNCHANGED <<config, ports, services, monitor, center, gossip, faults, reloads>>

\* The two calls of Shutdown in StopAll.
StopServer(c, from, to) ==
    /\ main = from
    /\ runs' = Closed(runs, c)
    /\ main' = to
    /\ UNCHANGED <<config, ports, server, monitor, center, gossip, faults, reloads>>

\* sm.wg.Wait(): every goroutine of a Start has ended.
Wait ==
    /\ main = "wait"
    /\ \A c \in Servers, i \in 1..Slots : runs[c][i].phase = "free"
    /\ main' = "center"
    /\ UNCHANGED <<config, ports, services, monitor, center, gossip, faults, reloads>>

\* StopAll shuts down the admin server only, and does not wait.
StopAdminOnly == StopServer("admin", "stopAdmin", "center")

StopAll ==
    \/ StopServer("admin", "stopAdmin", "stopBusiness")
    \/ StopServer("business", "stopBusiness", "wait")
    \/ Wait

\* configCenter.Shutdown: the context is cancelled and updateCh closed.
CenterShutdown ==
    /\ main = "center"
    /\ closed' = TRUE
    /\ main' = "gossip"
    /\ UNCHANGED <<config, ports, services, monitor, updates, syncing, gossip, faults, reloads>>

\* gossipServer.Shutdown: the leave is broadcast, then the done channel is
\* closed, which panics the second time, and the server is closed.
GossipShutdown(from, to) ==
    /\ main = from
    /\ left' = left + 1
    /\ done' = TRUE
    /\ gport' = IF done THEN gport ELSE 0
    /\ main' = IF done THEN "panicked" ELSE to
    /\ UNCHANGED <<config, ports, services, monitor, center, faults, reloads>>

\* After the loop runGateway returns, and its deferred calls run:
\* configCenter.Shutdown does nothing any more, gossipServer.Shutdown is
\* called once more.
Shutdown ==
    \/ CenterShutdown
    \/ GossipShutdown("gossip", "deferred")
    \/ GossipShutdown("deferred", "exited")

-----------------------------------------------------------------------------
(***************************************************************************)
(* The configuration center.                                               *)
(***************************************************************************)

\* A configuration arrives.  It is the object cc.config already points at,
\* so OnConfigChange compares ListenAddr with itself and restarts nothing.
\* For the same reason syncWithCluster never finds a difference.
applyConfigUpdate ==
    /\ Alive /\ syncing
    /\ updates > 0
    /\ updates' = updates - 1
    /\ UNCHANGED <<config, ports, services, main, monitor, closed, syncing, gossip, faults, reloads>>

\* The select of syncConfig after Shutdown: it may take ctx.Done(), or the
\* nil of the closed channel, which the listeners dereference.
CenterEnds ==
    /\ Alive /\ syncing
    /\ closed
    /\ \/ syncing' = FALSE /\ UNCHANGED main
       \/ updates = 0 /\ main' = "panicked" /\ UNCHANGED syncing
    /\ UNCHANGED <<config, ports, services, monitor, updates, closed, gossip, faults, reloads>>

syncConfig == applyConfigUpdate \/ CenterEnds

-----------------------------------------------------------------------------
Start ==
    \E i \in 1..Slots :
        AdminStart(i) \/ AdminListen(i) \/ BusinessListen(i) \/ BusinessStart(i)

Monitor == checkServiceHealth \/ RestartAdmin \/ RestartBusiness

Main == (\E source \in Starts : Load(source)) \/ checkPorts \/ StartGossip \/ StartAll
            \/ StopAll \/ Shutdown

Next ==
    \/ Start
    \/ \E c \in Servers, i \in 1..Slots : Fail(c, i)
    \/ Monitor
    \/ Main
    \/ \E source \in Files : Reload(source)
    \/ Terminate
    \/ syncConfig

Spec == Init /\ [][Next]_vars

(***************************************************************************)
(* Every goroutine runs on: the starts of the servers, the monitor (its    *)
(* ticker fires every ten seconds), runGateway (http.Server.Shutdown       *)
(* returns when its context expires at the latest), syncConfig.  Nothing   *)
(* makes a signal come or a server fail.                                   *)
(***************************************************************************)
Fairness ==
    /\ \A i \in 1..Slots :
            /\ WF_vars(AdminStart(i)) /\ WF_vars(AdminListen(i))
            /\ WF_vars(BusinessListen(i)) /\ WF_vars(BusinessStart(i))
    /\ WF_vars(Monitor)
    /\ WF_vars(Main)
    /\ WF_vars(syncConfig)

FairSpec == Spec /\ Fairness

-----------------------------------------------------------------------------
(***************************************************************************)
(* Properties.                                                             *)
(***************************************************************************)

\* The variables keep their types.
TypeOK ==
    /\ cfg \in Settings
    /\ outcome \in {"none", "loaded", "sent", "dropped", "refused"}
    /\ foreign \subseteq Foreign
    /\ gport \in Nat /\ watched \in Int
    /\ runs \in [Servers -> [1..Slots -> Runs]]
    /\ server \in [Servers -> 0..Slots]
    /\ main \in {"loading", "checking", "gossiping", "starting", "running", "stopAdmin",
                 "stopBusiness", "wait", "center", "gossip", "deferred", "exited", "panicked"}
    /\ monitor \in {"idle", "stopAdmin", "startAdmin", "stopBusiness", "startBusiness"}
    /\ updates \in 0..QueueCap
    /\ closed \in BOOLEAN /\ syncing \in BOOLEAN
    /\ done \in BOOLEAN
    /\ left \in 0..2
    /\ faults \in 0..MaxFaults /\ reloads \in 0..MaxReloads

\* StopAll (main.go:361): once the node tells its peers that it leaves, none
\* of its servers takes requests any more.
Quiet == left > 0 => \A c \in Servers : ~Serves(c)

\* ValidateConfig (config.go:263, config_center.go:89): the settings in force are
\* valid at the start and after every reload but the ones that UpdateConfig refused
\* when they were in force already.
InForce == (Alive /\ main # "loading" /\ outcome # "refused") => ValidateConfig(cfg)

\* The servers have ports of their own, which no other program holds.
Servable(gossipPort) ==
    /\ ~cfg.listen.host
    /\ {AdminPort(cfg.listen), BusinessPort(cfg.listen)} \cap (foreign \cup {gossipPort}) = {}

\* A start succeeds (main.go:190): with ports of their own all three servers come up,
\* for the default listen address with gossip where the peers post to (sync.go:346),
\* unless a server fails or a signal comes before.
StartsUp ==
    (main = "gossiping" /\ Servable(GossipPort(cfg.listen))
                        /\ GossipPort(cfg.listen) \notin foreign) ~>
        \/ /\ \A c \in Servers : Serves(c)
           /\ gport # 0
           /\ cfg.listen.port = DefaultPort => gport = PostPort(cfg.listen)
        \/ faults > 0 \/ reloads > 0 \/ (Started /\ main # "running")

\* SIGTERM ends the process (main.go:288), also if servers failed and were
\* restarted before.
Terminates == (main = "stopAdmin") ~> ~Alive

\* A server that has stopped is restarted (main.go:424), as long as the process is
\* not told to end and the settings in force give it a port of its own: the admin
\* server always, unless gossip answers in its place, and the business server along
\* with it when neither serves nor starts, nothing fails any more and no signal comes.
Recovers ==
    LET Excused == main # "running" \/ ~Servable(gport) \/ gport = watched
    IN  /\ (main = "running" /\ ~Serves("admin")) ~> (Excused \/ Serves("admin"))
        /\ (/\ main = "running" /\ Resting /\ \A c \in Servers : ~Serves(c)
            /\ faults = MaxFaults /\ reloads = MaxReloads)
              ~> (Excused \/ Serves("business"))

\* The monitor (main.go:445) finds the restarted servers healthy and stops restarting
\* them when nothing fails any more, if the settings in force are at last ones without
\* TLS for the listen address of the start, also when a reload had changed it before.
Settles ==
    <>[](main = "running" =>
            watched = AdminPort(cfg.listen) /\ ~cfg.tls /\ Servable(gport))
        => <>[](monitor = "idle")
=============================================================================
