--------------------------- MODULE XDSController ---------------------------
(***************************************************************************)
(* The embedded xDS control plane of xds.go: an endpoint set and a cluster *)
(* configuration guarded by a mutex, an atomic version counter, and the    *)
(* snapshot cache from which the gRPC server answers Envoy.                *)
(*                                                                         *)
(* Every mutating call changes the state in one critical section and then  *)
(* runs pushSnapshot, which is NOT atomic with it: it copies the state in  *)
(* a second critical section, draws a version from the counter after the   *)
(* lock has been released, and stores the snapshot in the cache.  Each of  *)
(* these is one step here, so that the calls of several goroutines         *)
(* interleave between any two of them.                                     *)
(*                                                                         *)
(* Callers.  Main is the goroutine of main() or runBench(); it runs the    *)
(* isolated scenarios and the benchmark by itself.  Workers are scenario   *)
(* goroutines of the stress test; they exist only while Main waits in      *)
(* StressTest.Run, so calls of Main and of a worker never overlap.         *)
(*                                                                         *)
(* A definition named Op_Fault is a faulty form of Op.  No specification   *)
(* uses it: it is substituted for Op to see a property fail.               *)
(***************************************************************************)
EXTENDS Integers

CONSTANTS
  Main,          \* the goroutine of main() or runBench()
  Workers,       \* stress scenario goroutines
  Ports,         \* endpoint ports
  Owned,         \* Owned[w]: the ports worker w has taken from the port pool
  ConfigCalls,   \* the argument lists SetClusterConfig is called with
  MaxVersion,    \* bound: no call begins once this many versions were drawn
  NoSnapshot     \* the cache before the first SetSnapshot

Options == {"ignoreHealthOnRemoval", "ignoreNewHostsUntilHC"}
Callers == Workers \cup {Main}

ASSUME CallersAssumption == Main \notin Workers
ASSUME OwnedAssumption   == Owned \in [Workers -> SUBSET Ports]
ASSUME ConfigAssumption  ==
  ConfigCalls \subseteq
    [timeoutMs : Nat, healthChecks : BOOLEAN, opts : SUBSET Options]
ASSUME BoundAssumption   == MaxVersion \in Nat

\* The resources of one snapshot.  An optional field of the Cluster resource
\* is the set of its values, empty when the field is left out.
Snapshots ==
  [version   : Nat,
   cluster   : [HealthChecks                    : SUBSET {"/healthz"},
                HostRemovalStabilizationTimeout : SUBSET Nat,
                IgnoreHealthOnHostRemoval       : BOOLEAN,
                IgnoreNewHostsUntilFirstHc      : BOOLEAN],
   endpoints : SUBSET [Address : {"127.0.0.1"}, PortValue : Ports]]

ASSUME NoSnapshotAssumption == NoSnapshot \notin Snapshots

VARIABLES
  endpoints,     \* x.endpoints, the ports that are present
  config,        \* x.timeoutMs, x.healthChecks and the two option fields
  version,       \* x.version
  snapshot,      \* what x.cache holds for node test-node
  server,        \* x.grpcServer: "stopped", "serving" or "draining"
  pc,            \* pc[c]: where caller c is
  captured,      \* captured[c]: pushSnapshot's copy of the state
  stamp          \* stamp[c]: pushSnapshot's v, 0 before it is drawn

vars == <<endpoints, config, version, snapshot, server, pc, captured, stamp>>

\* The fields of the controller that describe the cluster.
ClusterConfig ==
  [timeoutMs             : Nat,
   healthChecks          : BOOLEAN,
   ignoreHealthOnRemoval : BOOLEAN,
   ignoreNewHostsUntilHC : BOOLEAN]

\* What NewXDSController leaves in them.
InitialConfig ==
  [timeoutMs             |-> 0,
   healthChecks          |-> TRUE,
   ignoreHealthOnRemoval |-> FALSE,
   ignoreNewHostsUntilHC |-> FALSE]

\* The options reset to false before the given ones are applied.
ConfigOf(call) ==
  [timeoutMs             |-> call.timeoutMs,
   healthChecks          |-> call.healthChecks,
   ignoreHealthOnRemoval |-> "ignoreHealthOnRemoval" \in call.opts,
   ignoreNewHostsUntilHC |-> "ignoreNewHostsUntilHC" \in call.opts]

\* The Cluster resource; a timeout of 0 leaves the field out.
makeCluster(cfg) ==
  [HealthChecks                    |-> IF cfg.healthChecks THEN {"/healthz"} ELSE {},
   HostRemovalStabilizationTimeout |-> {t \in {cfg.timeoutMs} : t > 0},
   IgnoreHealthOnHostRemoval       |-> cfg.ignoreHealthOnRemoval,
   IgnoreNewHostsUntilFirstHc      |-> cfg.ignoreNewHostsUntilHC]

\* Fault: the address the backends could listen on, not one Envoy can dial.
makeEndpoints_Wildcard(ports) == {[Address |-> "0.0.0.0", PortValue |-> p] : p \in ports}

\* The ClusterLoadAssignment.  The ports come from a map iteration, so their
\* order in the resource means nothing.
makeEndpoints(ports) == {[Address |-> "127.0.0.1", PortValue |-> p] : p \in ports}

\* The state that one critical section of the controller sees.
Current   == [config |-> config, endpoints |-> endpoints]
NoCapture == [config |-> InitialConfig, endpoints |-> {}]

WorkersIdle == \A w \in Workers : pc[w] = "idle"

-----------------------------------------------------------------------------

Init ==
  /\ endpoints = {}
  /\ config    = InitialConfig
  /\ version   = 0
  /\ snapshot  = NoSnapshot
  /\ server    = "stopped"
  /\ pc        = [c \in Callers |-> "idle"]
  /\ captured  = [c \in Callers |-> NoCapture]
  /\ stamp     = [c \in Callers |-> 0]

\* Caller c may enter a method: Main when no scenario goroutine is left, a
\* worker while Main is blocked in StressTest.Run.
MayCall(c) ==
  /\ pc[c] = "idle"
  /\ IF c = Main THEN WorkersIdle ELSE pc[Main] = "idle"

\* A worker names only ports it took from the pool.
MayName(c, ports) == c # Main => ports \subseteq Owned[c]

\* What the mutators share: the critical section is followed by pushSnapshot.
Mutate(c) ==
  /\ MayCall(c)
  /\ server = "serving"
  /\ version < MaxVersion
  /\ pc' = [pc EXCEPT ![c] = "capture"]
  /\ UNCHANGED <<version, snapshot, server, captured, stamp>>

AddEndpoints(c, ports) ==
  /\ Mutate(c)
  /\ MayName(c, ports)
  /\ endpoints' = endpoints \cup ports
  /\ UNCHANGED config

RemoveEndpoints(c, ports) ==
  /\ Mutate(c)
  /\ MayName(c, ports)
  /\ endpoints' = endpoints \ ports
  /\ UNCHANGED config

\* Fault: a mutator that does not push.
RemoveAllEndpoints_NoPush ==
  /\ MayCall(Main)
  /\ server = "serving"
  /\ endpoints' = {}
  /\ UNCHANGED <<config, version, snapshot, server, pc, captured, stamp>>

RemoveAllEndpoints ==
  /\ Mutate(Main)
  /\ endpoints' = {}
  /\ UNCHANGED config

ReplaceEndpoints(ports) ==
  /\ Mutate(Main)
  /\ endpoints' = ports
  /\ UNCHANGED config

\* Fault: the options of earlier calls are not reset.
SetClusterConfig_KeepOptions(call) ==
  /\ Mutate(Main)
  /\ config' = [ConfigOf(call) EXCEPT
                  !.ignoreHealthOnRemoval = @ \/ config.ignoreHealthOnRemoval,
                  !.ignoreNewHostsUntilHC = @ \/ config.ignoreNewHostsUntilHC]
  /\ UNCHANGED endpoints

SetClusterConfig(call) ==
  /\ Mutate(Main)
  /\ config' = ConfigOf(call)
  /\ UNCHANGED endpoints

-----------------------------------------------------------------------------
(* pushSnapshot *)

\* The second critical section: configuration and ports are copied together.
Capture(c) ==
  /\ pc[c] = "capture"
  /\ captured' = [captured EXCEPT ![c] = Current]
  /\ pc' = [pc EXCEPT ![c] = "stamp"]
  /\ UNCHANGED <<endpoints, config, version, snapshot, server, stamp>>

\* Fault: a load and a store instead of Add, so that of two increments that
\* overlap one is lost.
Stamp_LoadStore(c) ==
  /\ pc[c] = "stamp"
  /\ version' = IF \E d \in Callers : pc[d] = "set" THEN version ELSE version + 1
  /\ stamp' = [stamp EXCEPT ![c] = version']
  /\ pc' = [pc EXCEPT ![c] = "set"]
  /\ UNCHANGED <<endpoints, config, snapshot, server, captured>>

\* version.Add(1), outside the lock.
Stamp(c) ==
  /\ pc[c] = "stamp"
  /\ version' = version + 1
  /\ stamp' = [stamp EXCEPT ![c] = version + 1]
  /\ pc' = [pc EXCEPT ![c] = "set"]
  /\ UNCHANGED <<endpoints, config, snapshot, server, captured>>

\* NewSnapshot and cache.SetSnapshot: the cache takes whatever comes last.
SetSnapshot(c) ==
  /\ pc[c] = "set"
  /\ snapshot' = [version   |-> stamp[c],
                  cluster   |-> makeCluster(captured[c].config),
                  endpoints |-> makeEndpoints(captured[c].endpoints)]
  /\ pc' = [pc EXCEPT ![c] = "idle"]
  /\ captured' = [captured EXCEPT ![c] = NoCapture]
  /\ stamp' = [stamp EXCEPT ![c] = 0]
  /\ UNCHANGED <<endpoints, config, version, server>>

PushStep(c) == Capture(c) \/ Stamp(c) \/ SetSnapshot(c)

-----------------------------------------------------------------------------
(* The gRPC server.  A Listen error ends the process (main.go:114).        *)

\* Fault: a restarted server numbers its snapshots from the beginning.
Start_ResetVersion ==
  /\ MayCall(Main)
  /\ server = "stopped"
  /\ version' = 0
  /\ server' = "serving"
  /\ pc' = [pc EXCEPT ![Main] = "capture"]
  /\ UNCHANGED <<endpoints, config, snapshot, captured, stamp>>

\* Start serves before it pushes: a client may connect in between.  It is
\* called by Main, or by Restart once GracefulStop has returned.
Start ==
  /\ \/ MayCall(Main)
     \/ pc[Main] = "starting"
  /\ server = "stopped"
  /\ version < MaxVersion
  /\ server' = "serving"
  /\ pc' = [pc EXCEPT ![Main] = "capture"]
  /\ UNCHANGED <<endpoints, config, version, snapshot, captured, stamp>>

\* Stop and Restart begin with GracefulStop, which closes the listener.
GracefulStop(then) ==
  /\ MayCall(Main)
  /\ server = "serving"
  /\ server' = "draining"
  /\ pc' = [pc EXCEPT ![Main] = then]
  /\ UNCHANGED <<endpoints, config, version, snapshot, captured, stamp>>

Stop    == GracefulStop("stopping")
Restart == version < MaxVersion /\ GracefulStop("restarting")

\* GracefulStop returns when the last stream has ended (see XDSDelivery).
GracefulStopReturns ==
  /\ server = "draining"
  /\ server' = "stopped"
  /\ pc' = [pc EXCEPT ![Main] = IF @ = "restarting" THEN "starting" ELSE "idle"]
  /\ UNCHANGED <<endpoints, config, version, snapshot, captured, stamp>>

\* The process ends with the server stopped.
Exit ==
  /\ server = "stopped"
  /\ \A c \in Callers : pc[c] = "idle"
  /\ UNCHANGED vars

-----------------------------------------------------------------------------

CallStep(c) ==
  \/ \E ports \in (SUBSET Ports) \ {{}} :
       \/ AddEndpoints(c, ports)
       \/ RemoveEndpoints(c, ports)
  \/ PushStep(c)

MainStep ==
  \/ RemoveAllEndpoints
  \/ \E ports \in SUBSET Ports : ReplaceEndpoints(ports)
  \/ \E call \in ConfigCalls : SetClusterConfig(call)

ServerStep ==
  \/ Start
  \/ Stop
  \/ Restart
  \/ GracefulStopReturns

Next ==
  \/ \E c \in Callers : CallStep(c)
  \/ MainStep
  \/ ServerStep
  \/ Exit

Spec == Init /\ [][Next]_vars

-----------------------------------------------------------------------------
(* Properties *)

\* The shape of the state.
TypeOK ==
  /\ endpoints \in SUBSET Ports
  /\ config \in ClusterConfig
  /\ version \in Nat
  /\ snapshot \in Snapshots \cup {NoSnapshot}
  /\ server \in {"stopped", "serving", "draining"}
  /\ pc \in [Callers -> {"idle", "capture", "stamp", "set",
                         "stopping", "restarting", "starting"}]
  /\ captured \in [Callers -> [config : ClusterConfig, endpoints : SUBSET Ports]]
  /\ stamp \in [Callers -> Nat]

\* A version number names one snapshot: the versions of the calls that have
\* drawn one and of the served snapshot are pairwise different and none is
\* ahead of the counter.  The cache pushes to Envoy only when the version
\* differs from the one Envoy has acknowledged, so a version used twice would
\* leave an update undelivered (xds.go:180, 190).
VersionsNameSnapshots ==
  /\ \A c \in Callers : pc[c] = "set" =>
       /\ stamp[c] \in 1..version
       /\ snapshot # NoSnapshot => snapshot.version # stamp[c]
  /\ \A c, d \in Callers :
       (pc[c] = "set" /\ pc[d] = "set" /\ c # d) => stamp[c] # stamp[d]
  /\ snapshot # NoSnapshot => snapshot.version \in 1..version

\* When no call is in progress the cache serves the controller's state: the
\* configuration and exactly the endpoints that are present.  This is what
\* "adds the given ports to the endpoint set and pushes a snapshot"
\* (xds.go:129) lets a caller rely on once the call has returned.
QuiescentServesState ==
  ((\A c \in Callers : pc[c] = "idle") /\ snapshot # NoSnapshot) =>
    /\ snapshot.cluster = makeCluster(config)
    /\ snapshot.endpoints = makeEndpoints(endpoints)

\* The served version never goes back, and a new snapshot has a new version
\* (xds.go:180, 190).
ServedVersionGrows ==
  [][snapshot' # snapshot =>
       snapshot = NoSnapshot \/ snapshot'.version > snapshot.version]_vars

=============================================================================
