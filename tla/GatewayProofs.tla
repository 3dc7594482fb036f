---------------------------- MODULE GatewayProofs ----------------------------
(***************************************************************************)
(* Proofs about Gateway, for all settings, ports and bounds.               *)
(***************************************************************************)
EXTENDS Gateway, TLAPS

\* How often the node has left, by the place of runGateway.
LeftOnce ==
    /\ main \notin {"deferred", "exited", "panicked"} => left = 0
    /\ main = "deferred" => left = 1

\* Nothing serves or starts once StopAll is done, and the monitor rests from Terminate
\* on, as Overlap is FALSE.
Stopped ==
    /\ main \in {"stopAdmin", "stopBusiness", "wait", "center", "gossip", "deferred"} =>
          monitor = "idle"
    /\ main \in {"center", "gossip", "deferred"} \/ left > 0 =>
          \A c \in Servers, i \in 1..Slots : runs[c][i].phase = "free"

\* The inductive invariant.
IInv == TypeOK /\ LeftOnce /\ (~Overlap => Stopped)

\* Where the monitor restarts servers.
Working == {"stopAdmin", "startAdmin", "stopBusiness", "startBusiness"}

-----------------------------------------------------------------------------
\* The ports that are derived from an address are numbers (gossip.go:106, server.go:73).
LEMMA Ports ==
    \A a \in Addresses : /\ BusinessPort(a) \in Nat /\ GossipPort(a) \in Nat
                         /\ AdminPort(a) \in Int
  BY ConfigAssumption DEF Addresses, BusinessPort, GossipPort, AdminPort, Scanned

\* A slot may hold any record of its type.
LEMMA SlotType ==
    ASSUME NEW rs \in [Servers -> [1..Slots -> Runs]], NEW c \in Servers, NEW i, NEW v \in Runs
    PROVE  [rs EXCEPT ![c][i] = v] \in [Servers -> [1..Slots -> Runs]]
  <1>1. [rs[c] EXCEPT ![i] = v] \in [1..Slots -> Runs]
    BY Zenon
  <1> QED BY <1>1

\* The records that a goroutine of a server goes through (server.go:77, server.go:23).
LEMMA RunTypes ==
    /\ Free \in Runs /\ Free.phase = "free"
    /\ \A p \in {"spawned", "ready", "taken", "serving"}, a \in Int, t \in BOOLEAN :
          [phase |-> p, at |-> a, tls |-> t] \in Runs
    /\ \A v \in Runs : v.at \in Int
  <1>1. Free \in Runs
    BY SMT DEF Free, Runs
  <1>2. Free.phase = "free"
    BY DEF Free
  <1>3. ASSUME NEW p \in {"spawned", "ready", "taken", "serving"}, NEW a \in Int,
               NEW t \in BOOLEAN
        PROVE  [phase |-> p, at |-> a, tls |-> t] \in Runs
    BY Zenon DEF Runs
  <1>4. ASSUME NEW v \in Runs PROVE v.at \in Int
    BY DEF Runs
  <1> QED BY <1>1, <1>2, <1>3, <1>4

\* The record of a goroutine that has not run yet.
LEMMA SpawnedRun == [phase |-> "spawned", at |-> 0, tls |-> FALSE] \in Runs
  BY SMT DEF Runs

\* The settings in force are settings.
LEMMA CfgTypes == ASSUME TypeOK PROVE cfg.listen \in Addresses /\ cfg.tls \in BOOLEAN
  BY DEF TypeOK, Settings

\* The slots of the servers hold runs.
LEMMA RunsType == ASSUME TypeOK PROVE runs \in [Servers -> [1..Slots -> Runs]]
  BY Zenon DEF TypeOK

\* A server that serves keeps the port it took (server.go:107).
LEMMA ServingRun ==
    ASSUME TypeOK, NEW c \in Servers, NEW i \in 1..Slots
    PROVE  [phase |-> "serving", at |-> runs[c][i].at, tls |-> cfg.tls] \in Runs
  <1>1. runs[c][i] \in Runs
    BY RunsType, Zenon
  <1>2. runs[c][i].at \in Int
    BY <1>1 DEF Runs
  <1>3. cfg.tls \in BOOLEAN
    BY CfgTypes
  <1>4. ASSUME NEW a \in Int, NEW b \in BOOLEAN
        PROVE  [phase |-> "serving", at |-> a, tls |-> b] \in Runs
    BY SMT DEF Runs
  <1> QED BY <1>2, <1>3, <1>4

\* go Start() takes a slot of one server (main.go:336).
LEMMA SpawnedType ==
    ASSUME NEW rs \in [Servers -> [1..Slots -> Runs]], NEW c \in Servers
    PROVE  Spawned(rs, c) \in [Servers -> [1..Slots -> Runs]]
  BY SlotType, SpawnedRun, Zenon DEF Spawned

\* Shutdown of a server frees a slot and takes none (server.go:110).
LEMMA ClosedType ==
    ASSUME NEW rs \in [Servers -> [1..Slots -> Runs]], NEW c \in Servers
    PROVE  /\ Closed(rs, c) \in [Servers -> [1..Slots -> Runs]]
           /\ \A d \in Servers, i \in 1..Slots :
                rs[d][i].phase = "free" => Closed(rs, c)[d][i].phase = "free"
  <1>1. Closed(rs, c) \in [Servers -> [1..Slots -> Runs]]
    BY SlotType, RunTypes, Zenon DEF Closed
  <1>2. ASSUME NEW d \in Servers, NEW i \in 1..Slots, rs[d][i].phase = "free"
        PROVE  Closed(rs, c)[d][i].phase = "free"
    BY <1>2, RunTypes DEF Closed
  <1> QED BY <1>1, <1>2

\* The process is created with nothing running (main.go:112).
LEMMA InitIInv == Init => IInv
  <1> SUFFICES ASSUME Init PROVE IInv
    OBVIOUS
  <1>1. cfg \in Settings
    BY ConfigAssumption DEF Init, DefaultConfigs, Settings, Addresses
  <1>2. runs \in [Servers -> [1..Slots -> Runs]]
    BY RunTypes DEF Init
  <1>3. server \in [Servers -> 0..Slots] /\ foreign \subseteq Foreign
    BY GatewayAssumption DEF Init
  <1>4. closed \in BOOLEAN /\ syncing \in BOOLEAN /\ done \in BOOLEAN
    BY Zenon DEF Init
  <1>5. updates \in 0..QueueCap /\ left \in 0..2 /\ faults \in 0..MaxFaults
           /\ reloads \in 0..MaxReloads
    BY GatewayAssumption DEF Init
  <1>6. gport \in Nat /\ watched \in Int
    BY DEF Init
  <1>7. TypeOK
    BY <1>1, <1>2, <1>3, <1>4, <1>5, <1>6, Zenon DEF Init, TypeOK
  <1> QED BY <1>7 DEF Init, IInv, LeftOnce, Stopped, Free

\* AdminServer.Start up to the assignment of s.server (server.go:73) keeps the invariant.
LEMMA AdminStartStep == ASSUME IInv, NEW i \in 1..Slots, AdminStart(i) PROVE IInv'
  <1> USE GatewayAssumption DEF config, ports, services, center, gossip
  <1>0. runs' \in [Servers -> [1..Slots -> Runs]]
    <2>1. [phase |-> "ready", at |-> AdminPort(cfg.listen), tls |-> FALSE] \in Runs
      BY CfgTypes, Ports, SMT DEF IInv, Runs
    <2>2. "admin" \in Servers /\ runs \in [Servers -> [1..Slots -> Runs]]
      BY RunsType DEF IInv, Servers
    <2> QED BY <2>1, <2>2, SlotType, Zenon DEF AdminStart
  <1>1. TypeOK'
    BY <1>0, Ports, SMTT(120) DEF IInv, LeftOnce, TypeOK, Servers, Settings, Sources, AdminStart, Alive
  <1>2. LeftOnce'
    BY DEF IInv, LeftOnce, AdminStart, Alive
  <1>3. ASSUME ~Overlap PROVE Stopped'
    BY Ports, <1>3, SMTT(120) DEF IInv, LeftOnce, Stopped, TypeOK, Servers, AdminStart, Alive
  <1> QED BY <1>1, <1>2, <1>3 DEF IInv

\* The listening of the admin server (server.go:107) keeps the invariant.
LEMMA AdminListenStep == ASSUME IInv, NEW i \in 1..Slots, AdminListen(i) PROVE IInv'
  <1> USE GatewayAssumption DEF config, ports, services, center, gossip
  <1>0. runs' \in [Servers -> [1..Slots -> Runs]]
    <2>1. [phase |-> "serving", at |-> runs["admin"][i].at, tls |-> cfg.tls] \in Runs
      BY ServingRun DEF IInv, Servers
    <2>2. "admin" \in Servers /\ runs \in [Servers -> [1..Slots -> Runs]]
      BY RunsType DEF IInv, Servers
    <2>3. (IF Available(runs["admin"][i].at)
           THEN [phase |-> "serving", at |-> runs["admin"][i].at, tls |-> cfg.tls] ELSE Free) \in Runs
      BY <2>1, RunTypes, Zenon
    <2> QED BY <2>2, <2>3, SlotType, Zenon DEF AdminListen
  <1>1. TypeOK'
    BY <1>0, SMTT(120) DEF IInv, LeftOnce, TypeOK, Servers, Settings, Sources, AdminListen, Alive, Free
  <1>2. LeftOnce'
    BY DEF IInv, LeftOnce, AdminListen, Alive, Free
  <1>3. ASSUME ~Overlap PROVE Stopped'
    BY <1>3, SMTT(120) DEF IInv, LeftOnce, Stopped, TypeOK, Servers, AdminListen, Alive, Free
  <1> QED BY <1>1, <1>2, <1>3 DEF IInv

\* net.Listen of the business server (server.go:18) keeps the invariant.
LEMMA BusinessListenStep == ASSUME IInv, NEW i \in 1..Slots, BusinessListen(i) PROVE IInv'
  <1> USE GatewayAssumption DEF config, ports, services, center, gossip
  <1>0. runs' \in [Servers -> [1..Slots -> Runs]]
    <2>1. [phase |-> "taken", at |-> BusinessPort(cfg.listen), tls |-> FALSE] \in Runs
      BY CfgTypes, Ports, SMT DEF IInv, Runs
    <2>2. "business" \in Servers /\ runs \in [Servers -> [1..Slots -> Runs]]
      BY RunsType DEF IInv, Servers
    <2>3. (IF Available(BusinessPort(cfg.listen))
           THEN [phase |-> "taken", at |-> BusinessPort(cfg.listen), tls |-> FALSE] ELSE Free) \in Runs
      BY <2>1, RunTypes, Zenon
    <2> QED BY <2>2, <2>3, SlotType, Zenon DEF BusinessListen
  <1>1. TypeOK'
    BY <1>0, Ports, SMTT(120) DEF IInv, LeftOnce, TypeOK, Servers, Settings, Sources, BusinessListen, Alive, Free
  <1>2. LeftOnce'
    BY DEF IInv, LeftOnce, BusinessListen, Alive, Free
  <1>3. ASSUME ~Overlap PROVE Stopped'
    BY Ports, <1>3, SMTT(120) DEF IInv, LeftOnce, Stopped, TypeOK, Servers, BusinessListen, Alive, Free
  <1> QED BY <1>1, <1>2, <1>3 DEF IInv

\* The assignment of s.server of the business server (server.go:23) keeps the invariant.
LEMMA BusinessStartStep == ASSUME IInv, NEW i \in 1..Slots, BusinessStart(i) PROVE IInv'
  <1> USE GatewayAssumption DEF config, ports, services, center, gossip
  <1>0. runs' \in [Servers -> [1..Slots -> Runs]]
    <2>1. [phase |-> "serving", at |-> runs["business"][i].at, tls |-> cfg.tls] \in Runs
      BY ServingRun DEF IInv, Servers
    <2>2. "business" \in Servers /\ runs \in [Servers -> [1..Slots -> Runs]]
      BY RunsType DEF IInv, Servers
    <2> QED BY <2>1, <2>2, SlotType, Zenon DEF BusinessStart
  <1>1. TypeOK'
    BY <1>0, SMTT(120) DEF IInv, LeftOnce, TypeOK, Servers, Settings, Sources, BusinessStart, Alive
  <1>2. LeftOnce'
    BY DEF IInv, LeftOnce, BusinessStart, Alive
  <1>3. ASSUME ~Overlap PROVE Stopped'
    BY <1>3, SMTT(120) DEF IInv, LeftOnce, Stopped, TypeOK, Servers, BusinessStart, Alive
  <1> QED BY <1>1, <1>2, <1>3 DEF IInv

\* The failure of a server keeps the invariant.
LEMMA FailStep == ASSUME IInv, NEW c \in Servers, NEW i \in 1..Slots, Fail(c, i) PROVE IInv'
  <1> USE GatewayAssumption DEF config, ports, services, center, gossip
  <1>0. runs' \in [Servers -> [1..Slots -> Runs]]
    BY SlotType, RunTypes, RunsType, Zenon DEF IInv, Fail
  <1>1. TypeOK'
    BY <1>0, SMTT(120) DEF IInv, LeftOnce, TypeOK, Servers, Settings, Sources, Fail, Alive, Free
  <1>2. LeftOnce'
    BY DEF IInv, LeftOnce, Fail, Alive, Free
  <1>3. ASSUME ~Overlap PROVE Stopped'
    BY <1>3, SMTT(120) DEF IInv, LeftOnce, Stopped, TypeOK, Servers, Fail, Alive, Free
  <1> QED BY <1>1, <1>2, <1>3 DEF IInv

\* A failed health check (main.go:445) keeps the invariant.
LEMMA checkServiceHealthStep == ASSUME IInv, checkServiceHealth PROVE IInv'
  <1> USE GatewayAssumption DEF config, ports, services, center, gossip
  <1>1. TypeOK'
    BY SMTT(120) DEF IInv, LeftOnce, TypeOK, Servers, Settings, Sources, checkServiceHealth, Alive
  <1>2. LeftOnce'
    BY DEF IInv, LeftOnce, checkServiceHealth, Alive
  <1>3. ASSUME ~Overlap PROVE Stopped'
    BY <1>3, SMTT(120) DEF IInv, LeftOnce, Stopped, TypeOK, Servers, checkServiceHealth, Alive
  <1> QED BY <1>1, <1>2, <1>3 DEF IInv

\* Shutdown by the monitor (main.go:385) keeps the invariant.
LEMMA RestartShutdownStep == ASSUME IInv, NEW c \in Servers, NEW from \in Working, NEW to \in Working, RestartShutdown(c, from, to) PROVE IInv'
  <1> USE GatewayAssumption DEF config, ports, services, center, gossip
  <1>0. runs' \in [Servers -> [1..Slots -> Runs]]
    BY ClosedType, RunsType, Zenon DEF IInv, RestartShutdown
  <1>1. TypeOK'
    BY <1>0, ClosedType, SMTT(120) DEF IInv, LeftOnce, TypeOK, Servers, Settings, Sources, RestartShutdown, Working, Alive
  <1>2. LeftOnce'
    BY DEF IInv, LeftOnce, RestartShutdown, Working, Alive
  <1>3. ASSUME ~Overlap PROVE Stopped'
    BY ClosedType, <1>3, SMTT(120) DEF IInv, LeftOnce, Stopped, TypeOK, Servers, RestartShutdown, Working, Alive
  <1> QED BY <1>1, <1>2, <1>3 DEF IInv

\* go Start by the monitor (main.go:391) keeps the invariant.
LEMMA RestartStartStep == ASSUME IInv, NEW c \in Servers, NEW from \in Working, NEW to \in Working \cup {"idle"}, RestartStart(c, from, to) PROVE IInv'
  <1> USE GatewayAssumption DEF config, ports, services, center, gossip
  <1>0. runs' \in [Servers -> [1..Slots -> Runs]]
    BY SpawnedType DEF IInv, TypeOK, RestartStart
  <1>1. TypeOK'
    BY <1>0, SpawnedType, SMTT(120) DEF IInv, LeftOnce, TypeOK, Servers, Settings, Sources, RestartStart, Working, Alive
  <1>2. LeftOnce'
    BY DEF IInv, LeftOnce, RestartStart, Working, Alive
  <1>3. ASSUME ~Overlap PROVE Stopped'
    BY SpawnedType, <1>3, SMTT(120) DEF IInv, LeftOnce, Stopped, TypeOK, Servers, RestartStart, Working, Alive
  <1> QED BY <1>1, <1>2, <1>3 DEF IInv

\* config.Load (main.go:113) keeps the invariant.
LEMMA LoadStep == ASSUME IInv, NEW source \in Starts, Load(source) PROVE IInv'
  <1> USE GatewayAssumption DEF config, ports, services, center, gossip
  <1>1. TypeOK'
    BY SMTT(120) DEF IInv, LeftOnce, TypeOK, Servers, Settings, Sources, Load, Loads
  <1>2. LeftOnce'
    BY DEF IInv, LeftOnce, Load, Loads
  <1>3. ASSUME ~Overlap PROVE Stopped'
    BY <1>3, SMTT(120) DEF IInv, LeftOnce, Stopped, TypeOK, Servers, Load, Loads
  <1> QED BY <1>1, <1>2, <1>3 DEF IInv

\* The search for free ports (main.go:150) keeps the invariant.
LEMMA checkPortsStep == ASSUME IInv, checkPorts PROVE IInv'
  <1> USE GatewayAssumption DEF config, ports, services, center, gossip
  <1>0. foreign' \subseteq Foreign
    BY Zenon DEF IInv, TypeOK, checkPorts
  <1>1. TypeOK'
    BY <1>0, SMTT(120) DEF IInv, LeftOnce, TypeOK, Servers, Settings, Sources, checkPorts
  <1>2. LeftOnce'
    BY DEF IInv, LeftOnce, checkPorts
  <1>3. ASSUME ~Overlap PROVE Stopped'
    BY <1>3, SMTT(120) DEF IInv, LeftOnce, Stopped, TypeOK, Servers, checkPorts
  <1> QED BY <1>1, <1>2, <1>3 DEF IInv

\* The start of gossip and of the configuration center (main.go:204) keeps the invariant.
LEMMA StartGossipStep == ASSUME IInv, StartGossip PROVE IInv'
  <1> USE GatewayAssumption DEF config, ports, services, center, gossip
  <1>1. TypeOK'
    BY Ports, SMTT(120) DEF IInv, LeftOnce, TypeOK, Servers, Settings, Sources, StartGossip
  <1>2. LeftOnce'
    BY DEF IInv, LeftOnce, StartGossip
  <1>3. ASSUME ~Overlap PROVE Stopped'
    BY Ports, <1>3, SMTT(120) DEF IInv, LeftOnce, Stopped, TypeOK, Servers, StartGossip
  <1> QED BY <1>1, <1>2, <1>3 DEF IInv

\* StartAll (main.go:334) keeps the invariant.
LEMMA StartAllStep == ASSUME IInv, StartAll PROVE IInv'
  <1> USE GatewayAssumption DEF config, ports, services, center, gossip
  <1>0. runs' \in [Servers -> [1..Slots -> Runs]]
    BY SpawnedType DEF IInv, TypeOK, Servers, StartAll
  <1>1. TypeOK'
    BY <1>0, Ports, SpawnedType, SMTT(120) DEF IInv, LeftOnce, TypeOK, Servers, Settings, Sources, StartAll
  <1>2. LeftOnce'
    BY DEF IInv, LeftOnce, StartAll
  <1>3. ASSUME ~Overlap PROVE Stopped'
    BY Ports, SpawnedType, <1>3, SMTT(120) DEF IInv, LeftOnce, Stopped, TypeOK, Servers, StartAll
  <1> QED BY <1>1, <1>2, <1>3 DEF IInv

\* A reload (config.go:271) keeps the invariant.
LEMMA ReloadStep == ASSUME IInv, NEW source \in Files, Reload(source) PROVE IInv'
  <1> USE GatewayAssumption DEF config, ports, services, center, gossip
  <1>0. cfg' \in Settings
    <2>1. Reloaded(source) \in Settings
      <3>1. source.settings \in Settings
        BY SMT DEF Sources
      <3> QED BY <3>1, Zenon DEF Settings, Reloaded
    <2> QED BY <2>1 DEF IInv, TypeOK, Reload
  <1>1. TypeOK'
    BY <1>0, SMTT(120) DEF IInv, LeftOnce, TypeOK, Servers, Reload, UpdateConfig
  <1>2. LeftOnce'
    BY DEF IInv, LeftOnce, Reload, UpdateConfig, Reloaded
  <1>3. ASSUME ~Overlap PROVE Stopped'
    BY <1>3, SMTT(120) DEF IInv, LeftOnce, Stopped, TypeOK, Servers, Reload, UpdateConfig, Reloaded
  <1> QED BY <1>1, <1>2, <1>3 DEF IInv

\* SIGTERM (main.go:286) keeps the invariant.
LEMMA TerminateStep == ASSUME IInv, Terminate PROVE IInv'
  <1> USE GatewayAssumption DEF config, ports, services, center, gossip
  <1>1. TypeOK'
    BY SMTT(120) DEF IInv, LeftOnce, TypeOK, Servers, Settings, Sources, Terminate
  <1>2. LeftOnce'
    BY DEF IInv, LeftOnce, Terminate
  <1>3. ASSUME ~Overlap PROVE Stopped'
    BY <1>3, SMTT(120) DEF IInv, LeftOnce, Stopped, TypeOK, Servers, Terminate
  <1> QED BY <1>1, <1>2, <1>3 DEF IInv

\* A Shutdown of StopAll (main.go:361) keeps the invariant.
LEMMA StopServerStep == ASSUME IInv, NEW c \in Servers, NEW from \in {"stopAdmin", "stopBusiness"},
           NEW to \in {"stopBusiness", "wait"}, StopServer(c, from, to) PROVE IInv'
  <1> USE GatewayAssumption DEF config, ports, services, center, gossip
  <1>0. runs' \in [Servers -> [1..Slots -> Runs]]
    BY ClosedType, RunsType, Zenon DEF IInv, StopServer
  <1>1. TypeOK'
    BY <1>0, ClosedType, SMTT(120) DEF IInv, LeftOnce, TypeOK, Servers, Settings, Sources, StopServer
  <1>2. LeftOnce'
    BY DEF IInv, LeftOnce, StopServer
  <1>3. ASSUME ~Overlap PROVE Stopped'
    BY ClosedType, <1>3, SMTT(120) DEF IInv, LeftOnce, Stopped, TypeOK, Servers, StopServer
  <1> QED BY <1>1, <1>2, <1>3 DEF IInv

\* The wait of StopAll (main.go:374) keeps the invariant.
LEMMA WaitStep == ASSUME IInv, Wait PROVE IInv'
  <1> USE GatewayAssumption DEF config, ports, services, center, gossip
  <1>1. TypeOK'
    BY SMTT(120) DEF IInv, LeftOnce, TypeOK, Servers, Settings, Sources, Wait
  <1>2. LeftOnce'
    BY DEF IInv, LeftOnce, Wait
  <1>3. ASSUME ~Overlap PROVE Stopped'
    BY <1>3, SMTT(120) DEF IInv, LeftOnce, Stopped, TypeOK, Servers, Wait
  <1> QED BY <1>1, <1>2, <1>3 DEF IInv

\* Shutdown of the configuration center (config_center.go:148) keeps the invariant.
LEMMA CenterShutdownStep == ASSUME IInv, CenterShutdown PROVE IInv'
  <1> USE GatewayAssumption DEF config, ports, services, center, gossip
  <1>1. TypeOK'
    BY SMTT(120) DEF IInv, LeftOnce, TypeOK, Servers, Settings, Sources, CenterShutdown
  <1>2. LeftOnce'
    BY DEF IInv, LeftOnce, CenterShutdown
  <1>3. ASSUME ~Overlap PROVE Stopped'
    BY <1>3, SMTT(120) DEF IInv, LeftOnce, Stopped, TypeOK, Servers, CenterShutdown
  <1> QED BY <1>1, <1>2, <1>3 DEF IInv

\* Shutdown of gossip (main.go:298) keeps the invariant.
LEMMA GossipShutdownStep == ASSUME IInv, GossipShutdown("gossip", "deferred") PROVE IInv'
  <1> USE GatewayAssumption DEF config, ports, services, center, gossip
  <1>1. TypeOK'
    BY SMTT(120) DEF IInv, LeftOnce, TypeOK, Servers, Settings, Sources, GossipShutdown
  <1>2. LeftOnce'
    BY DEF IInv, LeftOnce, GossipShutdown
  <1>3. ASSUME ~Overlap PROVE Stopped'
    BY <1>3, SMTT(120) DEF IInv, LeftOnce, Stopped, TypeOK, Servers, GossipShutdown
  <1> QED BY <1>1, <1>2, <1>3 DEF IInv

\* The deferred Shutdown of gossip (main.go:206) keeps the invariant.
LEMMA GossipShutdownAgainStep == ASSUME IInv, GossipShutdown("deferred", "exited") PROVE IInv'
  <1> USE GatewayAssumption DEF config, ports, services, center, gossip
  <1>1. TypeOK'
    BY SMTT(120) DEF IInv, LeftOnce, TypeOK, Servers, Settings, Sources, GossipShutdown
  <1>2. LeftOnce'
    BY DEF IInv, LeftOnce, GossipShutdown
  <1>3. ASSUME ~Overlap PROVE Stopped'
    BY <1>3, SMTT(120) DEF IInv, LeftOnce, Stopped, TypeOK, Servers, GossipShutdown
  <1> QED BY <1>1, <1>2, <1>3 DEF IInv

\* An update (config_center.go:126) keeps the invariant.
LEMMA applyConfigUpdateStep == ASSUME IInv, applyConfigUpdate PROVE IInv'
  <1> USE GatewayAssumption DEF config, ports, services, center, gossip
  <1>1. TypeOK'
    BY SMTT(120) DEF IInv, LeftOnce, TypeOK, Servers, Settings, Sources, applyConfigUpdate, Alive
  <1>2. LeftOnce'
    BY DEF IInv, LeftOnce, applyConfigUpdate, Alive
  <1>3. ASSUME ~Overlap PROVE Stopped'
    BY <1>3, SMTT(120) DEF IInv, LeftOnce, Stopped, TypeOK, Servers, applyConfigUpdate, Alive
  <1> QED BY <1>1, <1>2, <1>3 DEF IInv

\* The end of syncConfig (config_center.go:120) keeps the invariant.
LEMMA CenterEndsStep == ASSUME IInv, CenterEnds PROVE IInv'
  <1> USE GatewayAssumption DEF config, ports, services, center, gossip
  <1>0. main' \in {main, "panicked"} /\ syncing' \in BOOLEAN
          /\ UNCHANGED <<runs, monitor, left>>
    BY Zenon DEF IInv, TypeOK, CenterEnds
  <1>1. TypeOK'
    BY <1>0, SMTT(120) DEF IInv, LeftOnce, TypeOK, Servers, Settings, Sources, CenterEnds, Alive
  <1>2. LeftOnce'
    BY Zenon DEF IInv, LeftOnce, CenterEnds, Alive
  <1>3. ASSUME ~Overlap PROVE Stopped'
    BY <1>0, <1>3 DEF IInv, Stopped
  <1> QED BY <1>1, <1>2, <1>3 DEF IInv

\* Every step keeps the invariant.
LEMMA NextIInv == ASSUME IInv, [Next]_vars PROVE IInv'
  <1>1. CASE Start
    <2>1. PICK i \in 1..Slots :
             AdminStart(i) \/ AdminListen(i) \/ BusinessListen(i) \/ BusinessStart(i)
      BY <1>1 DEF Start
    <2> QED BY <2>1, AdminStartStep, AdminListenStep, BusinessListenStep, BusinessStartStep
  <1>2. CASE \E c \in Servers, i \in 1..Slots : Fail(c, i)
    BY <1>2, FailStep
  <1>3. CASE Monitor
    <2> USE DEF Working, Servers
    <2>1. CASE checkServiceHealth
      BY <2>1, checkServiceHealthStep
    <2>2. CASE RestartAdmin
      BY <2>2, RestartShutdownStep, RestartStartStep DEF RestartAdmin
    <2>3. CASE RestartBusiness
      BY <2>3, RestartShutdownStep, RestartStartStep DEF RestartBusiness
    <2> QED BY <1>3, <2>1, <2>2, <2>3 DEF Monitor
  <1>4. CASE Main
    <2>1. CASE \E source \in Starts : Load(source)
      BY <2>1, LoadStep
    <2>2. CASE checkPorts \/ StartGossip \/ StartAll
      BY <2>2, checkPortsStep, StartGossipStep, StartAllStep
    <2>3. CASE StopAll
      BY <2>3, StopServerStep, WaitStep DEF StopAll, Servers
    <2>4. CASE Shutdown
      BY <2>4, CenterShutdownStep, GossipShutdownStep, GossipShutdownAgainStep DEF Shutdown
    <2> QED BY <1>4, <2>1, <2>2, <2>3, <2>4 DEF Main
  <1>5. CASE \E source \in Files : Reload(source)
    BY <1>5, ReloadStep
  <1>6. CASE Terminate
    BY <1>6, TerminateStep
  <1>7. CASE syncConfig
    BY <1>7, applyConfigUpdateStep, CenterEndsStep DEF syncConfig
  <1>8. CASE UNCHANGED vars
    BY <1>8 DEF IInv, TypeOK, LeftOnce, Stopped, vars, config, ports, services, center, gossip
  <1> QED BY <1>1, <1>2, <1>3, <1>4, <1>5, <1>6, <1>7, <1>8 DEF Next

\* The invariant holds always.
LEMMA AlwaysIInv == Spec => []IInv
  BY InitIInv, NextIInv, PTL DEF Spec

-----------------------------------------------------------------------------
\* The variables keep their types, whatever the settings and the bounds are.
THEOREM TypeCorrect == Spec => []TypeOK
  <1>1. IInv => TypeOK
    BY DEF IInv
  <1> QED BY <1>1, AlwaysIInv, PTL

\* StopAll (main.go:361): for any number of goroutines, failures and reloads, no server
\* takes requests once the node tells its peers that it leaves, if the monitor is not at
\* work when the process is told to end.
THEOREM QuietHolds == ASSUME ~Overlap PROVE Spec => []Quiet
  <1>1. IInv => Quiet
    BY DEF IInv, Stopped, Quiet, Serves
  <1> QED BY <1>1, AlwaysIInv, PTL

\* A step that leaves the settings alone, and does not go on from loading.
KeepsConfig ==
    /\ UNCHANGED config
    /\ Alive' => Alive
    /\ main = "loading" => main' \in {"loading", "exited", "panicked"}

\* Only config.Load and Reload (main.go:113, config.go:271) touch the settings, and the
\* main routine never goes back to loading.
LEMMA OnlyLoads ==
    ASSUME [Next]_vars
    PROVE  \/ KeepsConfig
           \/ \E source \in Starts : Load(source)
           \/ \E source \in Files : Reload(source)
  <1> USE DEF Alive, config, KeepsConfig
  <1>1. CASE Start
    BY <1>1 DEF Start, AdminStart, AdminListen, BusinessListen, BusinessStart
  <1>2. CASE \E c \in Servers, i \in 1..Slots : Fail(c, i)
    BY <1>2 DEF Fail
  <1>3. CASE Monitor
    BY <1>3 DEF Monitor, checkServiceHealth, RestartAdmin, RestartBusiness, RestartShutdown,
                RestartStart
  <1>4. CASE checkPorts \/ StartGossip \/ StartAll
    BY <1>4 DEF checkPorts, StartGossip, StartAll
  <1>5. CASE StopAll
    BY <1>5 DEF StopAll, StopServer, Wait
  <1>6. CASE Shutdown
    BY <1>6 DEF Shutdown, CenterShutdown, GossipShutdown
  <1>7. CASE Terminate
    BY <1>7 DEF Terminate
  <1>8. CASE syncConfig
    BY <1>8 DEF syncConfig, applyConfigUpdate, CenterEnds
  <1>9. CASE UNCHANGED vars
    BY <1>9 DEF vars
  <1> QED BY <1>1, <1>2, <1>3, <1>4, <1>5, <1>6, <1>7, <1>8, <1>9 DEF Next, Main

\* ValidateConfig (config.go:263, config_center.go:89): the settings in force are valid at
\* the start and after every reload but the ones that UpdateConfig refused.
THEOREM InForceHolds == Spec => []InForce
  <1>1. Init => InForce
    BY DEF Init, InForce
  <1>2. ASSUME InForce, [Next]_vars PROVE InForce'
    <2>1. CASE KeepsConfig
      BY <1>2, <2>1 DEF InForce, KeepsConfig, config, ValidateConfig, Alive
    <2>2. CASE \E source \in Starts : Load(source)
      BY <2>2 DEF InForce, Load, Loads, ValidateConfig, Alive
    <2>3. CASE \E source \in Files : Reload(source)
      BY <1>2, <2>3 DEF InForce, Reload, UpdateConfig, ValidateConfig, Alive, config
    <2> QED BY <1>2, <2>1, <2>2, <2>3, OnlyLoads
  <1> QED BY <1>1, <1>2, PTL DEF Spec

=============================================================================
