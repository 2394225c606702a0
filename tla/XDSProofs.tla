----------------------------- MODULE XDSProofs -----------------------------
(***************************************************************************)
(* Proofs about the xDS controller, for every set of workers and ports,    *)
(* every ownership of ports and every bound on the versions.               *)
(***************************************************************************)
EXTENDS XDSHistory, TLAPS

USE CallersAssumption, OwnedAssumption, ConfigAssumption, BoundAssumption,
    NoSnapshotAssumption

-----------------------------------------------------------------------------
(* The resources a push builds have the shape of a snapshot.               *)

LEMMA ConfigOfType ==
  ASSUME NEW call \in ConfigCalls
  PROVE  ConfigOf(call) \in ClusterConfig
BY DEF ConfigOf, ClusterConfig, Options

LEMMA InitialConfigType == InitialConfig \in ClusterConfig
BY DEF InitialConfig, ClusterConfig

LEMMA SnapshotType ==
  ASSUME NEW cfg \in ClusterConfig, NEW ports \in SUBSET Ports, NEW v \in Nat
  PROVE  [version |-> v, cluster |-> makeCluster(cfg),
          endpoints |-> makeEndpoints(ports)] \in Snapshots
<1>1. makeCluster(cfg).HealthChecks \in SUBSET {"/healthz"}
  BY DEF makeCluster
<1>2. makeCluster(cfg).HostRemovalStabilizationTimeout \in SUBSET Nat
  BY DEF makeCluster, ClusterConfig
<1>3. makeEndpoints(ports) \in SUBSET [Address : {"127.0.0.1"}, PortValue : Ports]
  BY DEF makeEndpoints
<1>4. QED
  BY <1>1, <1>2, <1>3 DEF Snapshots, makeCluster, ClusterConfig

-----------------------------------------------------------------------------
(* Type correctness *)

LEMMA InitTypeOK == Init => TypeOK
BY InitialConfigType DEF Init, TypeOK, Callers, NoCapture

\* A mutator disturbs the endpoints or the configuration and its caller's pc.
LEMMA MutateTypeOK ==
  ASSUME TypeOK, NEW c \in Callers, Mutate(c),
         endpoints' \in SUBSET Ports, config' \in ClusterConfig
  PROVE  TypeOK'
BY DEF TypeOK, Mutate

LEMMA CaptureTypeOK ==
  ASSUME TypeOK, NEW c \in Callers, Capture(c)
  PROVE  TypeOK'
BY DEF TypeOK, Capture, Current

LEMMA StampTypeOK ==
  ASSUME TypeOK, NEW c \in Callers, Stamp(c)
  PROVE  TypeOK'
BY DEF TypeOK, Stamp

LEMMA SetSnapshotTypeOK ==
  ASSUME TypeOK, NEW c \in Callers, SetSnapshot(c)
  PROVE  TypeOK'
<1>1. snapshot' \in Snapshots
  <2>1. /\ captured[c].config \in ClusterConfig
        /\ captured[c].endpoints \in SUBSET Ports
        /\ stamp[c] \in Nat
    BY DEF TypeOK
  <2>2. QED
    BY <2>1, SnapshotType DEF SetSnapshot
<1>2. QED
  BY <1>1, InitialConfigType DEF TypeOK, SetSnapshot, NoCapture

LEMMA ServerTypeOK ==
  ASSUME TypeOK, ServerStep
  PROVE  TypeOK'
<1>1. Main \in Callers
  BY DEF Callers
<1>2. CASE Start
  BY <1>1, <1>2 DEF TypeOK, Start
<1>3. CASE Stop
  BY <1>1, <1>3 DEF TypeOK, Stop, GracefulStop
<1>4. CASE Restart
  BY <1>1, <1>4 DEF TypeOK, Restart, GracefulStop
<1>5. CASE GracefulStopReturns
  BY <1>1, <1>5 DEF TypeOK, GracefulStopReturns
<1>6. QED
  BY <1>2, <1>3, <1>4, <1>5 DEF ServerStep

LEMMA NextTypeOK == TypeOK /\ [Next]_vars => TypeOK'
<1> SUFFICES ASSUME TypeOK, [Next]_vars
             PROVE  TypeOK'
  OBVIOUS
<1>1. ASSUME NEW c \in Callers, CallStep(c)
      PROVE  TypeOK'
  <2>1. ASSUME NEW ports \in (SUBSET Ports) \ {{}}, AddEndpoints(c, ports)
        PROVE  TypeOK'
    BY <2>1, MutateTypeOK DEF AddEndpoints, TypeOK
  <2>2. ASSUME NEW ports \in (SUBSET Ports) \ {{}}, RemoveEndpoints(c, ports)
        PROVE  TypeOK'
    BY <2>2, MutateTypeOK DEF RemoveEndpoints, TypeOK
  <2>3. CASE PushStep(c)
    BY <2>3, CaptureTypeOK, StampTypeOK, SetSnapshotTypeOK DEF PushStep
  <2>4. QED
    BY <1>1, <2>1, <2>2, <2>3 DEF CallStep
<1>2. CASE MainStep
  <2>0. Main \in Callers
    BY DEF Callers
  <2>1. CASE RemoveAllEndpoints
    BY <2>0, <2>1, MutateTypeOK DEF RemoveAllEndpoints, TypeOK
  <2>2. ASSUME NEW ports \in SUBSET Ports, ReplaceEndpoints(ports)
        PROVE  TypeOK'
    BY <2>0, <2>2, MutateTypeOK DEF ReplaceEndpoints, TypeOK
  <2>3. ASSUME NEW call \in ConfigCalls, SetClusterConfig(call)
        PROVE  TypeOK'
    BY <2>0, <2>3, MutateTypeOK, ConfigOfType DEF SetClusterConfig, TypeOK
  <2>4. QED
    BY <1>2, <2>1, <2>2, <2>3 DEF MainStep
<1>3. CASE ServerStep
  BY <1>3, ServerTypeOK
<1>4. CASE Exit \/ UNCHANGED vars
  BY <1>4 DEF Exit, vars, TypeOK
<1>5. QED
  BY <1>1, <1>2, <1>3, <1>4 DEF Next

\* The state of the controller always has the shape TypeOK gives it.
THEOREM TypeCorrect == Spec => []TypeOK
<1>1. QED
  BY InitTypeOK, NextTypeOK, PTL DEF Spec

-----------------------------------------------------------------------------
(* A version names one snapshot                                            *)

\* A step that neither draws nor publishes leaves the versions alone.
QuietStep ==
  /\ UNCHANGED <<version, snapshot, stamp>>
  /\ \A c \in Callers : pc'[c] = "set" => pc[c] = "set"

LEMMA QuietVersions ==
  ASSUME VersionsNameSnapshots, QuietStep
  PROVE  VersionsNameSnapshots'
BY DEF VersionsNameSnapshots, QuietStep

\* Every step is quiet except the two that handle a version.
LEMMA MostStepsQuiet ==
  ASSUME TypeOK, [Next]_vars
  PROVE  \/ QuietStep
         \/ \E c \in Callers : Stamp(c) \/ SetSnapshot(c)
<1>0. Main \in Callers
  BY DEF Callers
<1>1. ASSUME NEW c \in Callers, Mutate(c)
      PROVE  QuietStep
  BY <1>1 DEF Mutate, QuietStep, TypeOK
<1>2. ASSUME NEW c \in Callers, CallStep(c)
      PROVE  QuietStep \/ Stamp(c) \/ SetSnapshot(c)
  <2>1. CASE Capture(c)
    BY <2>1 DEF Capture, QuietStep, TypeOK
  <2>2. QED
    BY <1>1, <1>2, <2>1 DEF CallStep, PushStep, AddEndpoints, RemoveEndpoints
<1>3. MainStep => QuietStep
  BY <1>0, <1>1 DEF MainStep, RemoveAllEndpoints, ReplaceEndpoints, SetClusterConfig
<1>4. ServerStep => QuietStep
  BY <1>0 DEF ServerStep, Start, Stop, Restart, GracefulStop,
              GracefulStopReturns, QuietStep, TypeOK
<1>5. Exit \/ UNCHANGED vars => QuietStep
  BY DEF Exit, vars, QuietStep
<1>6. QED
  BY <1>2, <1>3, <1>4, <1>5 DEF Next

LEMMA StampVersions ==
  ASSUME TypeOK, VersionsNameSnapshots, NEW c \in Callers, Stamp(c)
  PROVE  VersionsNameSnapshots'
BY DEF TypeOK, VersionsNameSnapshots, Stamp

LEMMA SetSnapshotVersions ==
  ASSUME TypeOK, VersionsNameSnapshots, NEW c \in Callers, SetSnapshot(c)
  PROVE  VersionsNameSnapshots'
BY DEF TypeOK, VersionsNameSnapshots, SetSnapshot

\* However many workers push at once, no version is used for two snapshots.
THEOREM VersionsUnique == Spec => []VersionsNameSnapshots
<1>1. Init => VersionsNameSnapshots
  BY DEF Init, VersionsNameSnapshots
<1>2. TypeOK /\ VersionsNameSnapshots /\ [Next]_vars => VersionsNameSnapshots'
  BY QuietVersions, MostStepsQuiet, StampVersions, SetSnapshotVersions
<1>3. QED
  BY <1>1, <1>2, TypeCorrect, PTL DEF Spec

-----------------------------------------------------------------------------
(* With at most one worker the served snapshot is never left behind        *)

\* Main and the workers take turns, and the server drains only for Main.
Apart ==
  /\ pc[Main] # "idle" => WorkersIdle
  /\ server = "draining" <=> pc[Main] \in {"stopping", "restarting"}

LEMMA ApartInductive ==
  ASSUME TypeOK, Apart, [Next]_vars
  PROVE  Apart'
<1>0. Main \in Callers /\ Main \notin Workers /\ Workers \subseteq Callers
  BY DEF Callers
<1>1. ASSUME NEW c \in Callers, Mutate(c)
      PROVE  Apart'
  BY <1>0, <1>1 DEF Mutate, MayCall, Apart, WorkersIdle, TypeOK
<1>2. ASSUME NEW c \in Callers, PushStep(c)
      PROVE  Apart'
  BY <1>0, <1>2 DEF PushStep, Capture, Stamp, SetSnapshot, Apart, WorkersIdle, TypeOK
<1>3. ASSUME NEW c \in Callers, CallStep(c)
      PROVE  Apart'
  BY <1>1, <1>2, <1>3 DEF CallStep, AddEndpoints, RemoveEndpoints
<1>4. CASE MainStep
  BY <1>0, <1>1, <1>4
     DEF MainStep, RemoveAllEndpoints, ReplaceEndpoints, SetClusterConfig
<1>5. CASE ServerStep
  BY <1>0, <1>5 DEF ServerStep, Start, Stop, Restart, GracefulStop,
     GracefulStopReturns, MayCall, Apart, WorkersIdle, TypeOK
<1>6. CASE Exit \/ UNCHANGED vars
  BY <1>6 DEF Exit, vars, Apart, WorkersIdle
<1>7. QED
  BY <1>3, <1>4, <1>5, <1>6 DEF Next

OneWorker == \A v, w \in Workers : v = w

\* At most one call is in progress.
LEMMA OneActive ==
  ASSUME OneWorker, Apart, NEW c \in Callers, NEW d \in Callers,
         pc[c] # "idle", pc[d] # "idle"
  PROVE  c = d
BY DEF OneWorker, Apart, WorkersIdle, Callers

\* The strengthening: a call's copy is still the state, its version is newer
\* than the served one, and without a push the served resources are current.
ServesState ==
  /\ snapshot.cluster = makeCluster(config)
  /\ snapshot.endpoints = makeEndpoints(endpoints)

SerialInv ==
  /\ \A c \in Callers : pc[c] \in {"stamp", "set"} => captured[c] = Current
  /\ \A c \in Callers : pc[c] = "set" /\ snapshot # NoSnapshot =>
       snapshot.version < stamp[c]
  /\ (\A c \in Callers : pc[c] \notin Pushing) /\ snapshot # NoSnapshot =>
       ServesState

LEMMA SerialMutate ==
  ASSUME OneWorker, TypeOK, Apart, SerialInv, NEW c \in Callers, Mutate(c)
  PROVE  SerialInv'
<1>1. \A d \in Callers : d # c => pc'[d] = "idle"
  BY OneActive DEF Mutate, MayCall, WorkersIdle, Apart, OneWorker, Callers, TypeOK
<1>2. pc'[c] = "capture"
  BY DEF Mutate, TypeOK
<1>3. QED
  BY <1>1, <1>2 DEF SerialInv, Pushing, Mutate

LEMMA SerialPush ==
  ASSUME OneWorker, TypeOK, Apart, VersionsNameSnapshots, SerialInv,
         NEW c \in Callers, PushStep(c)
  PROVE  SerialInv'
<1>1. pc[c] # "idle"
  BY DEF PushStep, Capture, Stamp, SetSnapshot
<1>2. \A d \in Callers : d # c => pc[d] = "idle" /\ pc'[d] = "idle"
  BY <1>1, OneActive DEF PushStep, Capture, Stamp, SetSnapshot, TypeOK
<1>3. CASE Capture(c)
  BY <1>2, <1>3 DEF Capture, SerialInv, Current, Pushing, TypeOK
<1>4. CASE Stamp(c)
  <2>1. snapshot # NoSnapshot => snapshot.version < stamp'[c]
    BY <1>4 DEF Stamp, VersionsNameSnapshots, TypeOK
  <2>2. QED
    BY <1>2, <1>4, <2>1 DEF Stamp, SerialInv, Current, Pushing, TypeOK
<1>5. CASE SetSnapshot(c)
  <2>1. captured[c] = Current
    BY <1>5 DEF SetSnapshot, SerialInv
  <2>2. ServesState'
    BY <1>5, <2>1 DEF SetSnapshot, ServesState, Current
  <2>3. \A d \in Callers : pc'[d] = "idle"
    BY <1>2, <1>5 DEF SetSnapshot, TypeOK
  <2>4. QED
    BY <2>2, <2>3 DEF SerialInv
<1>6. QED
  BY <1>3, <1>4, <1>5 DEF PushStep

LEMMA SerialServer ==
  ASSUME OneWorker, TypeOK, Apart, SerialInv, ServerStep
  PROVE  SerialInv'
<1>0. Main \in Callers
  BY DEF Callers
<1>1. UNCHANGED <<endpoints, config, snapshot, captured, stamp>>
  BY DEF ServerStep, Start, Stop, Restart, GracefulStop, GracefulStopReturns
<1>2. CASE Start
  <2>1. \A d \in Callers : d # Main => pc[d] = "idle" /\ pc'[d] = "idle"
    BY <1>2 DEF Start, MayCall, Apart, WorkersIdle, Callers, TypeOK
  <2>2. pc'[Main] = "capture"
    BY <1>0, <1>2 DEF Start, TypeOK
  <2>3. QED
    BY <1>0, <1>1, <2>1, <2>2 DEF SerialInv, Pushing
<1>3. CASE Stop \/ Restart \/ GracefulStopReturns
  <2>1. \A d \in Callers : pc[d] \in Pushing <=> pc'[d] \in Pushing
    BY <1>0, <1>3 DEF Stop, Restart, GracefulStop, GracefulStopReturns, MayCall,
                      Apart, Pushing, TypeOK
  <2>2. \A d \in Callers : pc'[d] \in Pushing => pc'[d] = pc[d]
    BY <1>0, <1>3 DEF Stop, Restart, GracefulStop, GracefulStopReturns, MayCall,
                      Apart, Pushing, TypeOK
  <2>3. QED
    BY <1>1, <2>1, <2>2 DEF SerialInv, Pushing, Current, ServesState
<1>4. QED
  BY <1>2, <1>3 DEF ServerStep

LEMMA SerialNext ==
  ASSUME OneWorker, TypeOK, Apart, VersionsNameSnapshots, SerialInv, [Next]_vars
  PROVE  SerialInv'
<1>0. Main \in Callers
  BY DEF Callers
<1>1. ASSUME NEW c \in Callers, CallStep(c)
      PROVE  SerialInv'
  BY <1>1, SerialMutate, SerialPush DEF CallStep, AddEndpoints, RemoveEndpoints
<1>2. CASE MainStep
  BY <1>0, <1>2, SerialMutate
     DEF MainStep, RemoveAllEndpoints, ReplaceEndpoints, SetClusterConfig
<1>3. CASE ServerStep
  BY <1>3, SerialServer
<1>4. CASE Exit \/ UNCHANGED vars
  BY <1>4 DEF Exit, vars, SerialInv, Current, ServesState, Pushing
<1>5. QED
  BY <1>1, <1>2, <1>3, <1>4 DEF Next

LEMMA SerialInvariant ==
  ASSUME OneWorker
  PROVE  Spec => [](TypeOK /\ Apart /\ VersionsNameSnapshots /\ SerialInv)
<1>1. Init => Apart /\ SerialInv
  BY DEF Init, Apart, WorkersIdle, SerialInv, Callers
<1>2. TypeOK /\ Apart /\ VersionsNameSnapshots /\ SerialInv /\ [Next]_vars
        => Apart' /\ SerialInv'
  BY ApartInductive, SerialNext
<1>3. QED
  BY <1>1, <1>2, TypeCorrect, VersionsUnique, PTL DEF Spec

\* Isolated scenarios, the benchmark and a stress test with one scenario at a
\* time: once a call has returned, Envoy is served the controller's state.
THEOREM SerialServesState ==
  ASSUME OneWorker
  PROVE  Spec => []QuiescentServesState
<1>1. SerialInv => QuiescentServesState
  BY DEF SerialInv, QuiescentServesState, ServesState, Pushing
<1>2. QED
  BY <1>1, SerialInvariant, PTL

\* In the same use the version Envoy is served never goes back.
THEOREM SerialVersionsGrow ==
  ASSUME OneWorker
  PROVE  Spec => ServedVersionGrows
<1>1. TypeOK /\ SerialInv /\ [Next]_vars =>
        [snapshot' # snapshot =>
           snapshot = NoSnapshot \/ snapshot'.version > snapshot.version]_vars
  <2> SUFFICES ASSUME TypeOK, SerialInv, [Next]_vars, snapshot' # snapshot,
                      snapshot # NoSnapshot
               PROVE  snapshot'.version > snapshot.version
    OBVIOUS
  <2>1. PICK c \in Callers : Stamp(c) \/ SetSnapshot(c)
    BY MostStepsQuiet DEF QuietStep
  <2>2. SetSnapshot(c)
    BY <2>1 DEF Stamp
  <2>3. snapshot.version < stamp[c] /\ snapshot'.version = stamp[c]
    BY <2>2 DEF SerialInv, SetSnapshot
  <2>4. snapshot.version \in Nat /\ stamp[c] \in Nat
    BY DEF TypeOK, Snapshots
  <2>5. QED
    BY <2>3, <2>4
<1>2. QED
  BY <1>1, SerialInvariant, PTL DEF Spec, ServedVersionGrows

-----------------------------------------------------------------------------
(* The controller implements SnapshotStore: a critical section maps to     *)
(* Change, SetSnapshot to Publish, and every other step to a stutter.      *)

\* Envoy reads from a snapshot the state that was captured for it.
CapturedStates == [config : ClusterConfig, endpoints : SUBSET Ports]

LEMMA CallOfConfigOf ==
  ASSUME NEW call \in ConfigCalls
  PROVE  CallOf(ConfigOf(call)) = call
<1>1. call \in [timeoutMs : Nat, healthChecks : BOOLEAN, opts : SUBSET Options]
  BY ConfigAssumption
<1>2. {o \in Options : ConfigOf(call)[o]} = call.opts
  <2>1. ASSUME NEW o \in Options
        PROVE  ConfigOf(call)[o] <=> o \in call.opts
    <3>1. CASE o = "ignoreHealthOnRemoval"
      BY <3>1 DEF ConfigOf
    <3>2. CASE o = "ignoreNewHostsUntilHC"
      BY <3>2 DEF ConfigOf
    <3>3. QED
      BY <3>1, <3>2 DEF Options
  <2>2. call.opts \subseteq Options
    BY <1>1
  <2>3. QED
    BY <2>1, <2>2
<1>3. QED
  BY <1>1, <1>2 DEF CallOf, ConfigOf

LEMMA ReadMakeCluster ==
  ASSUME NEW cfg \in ClusterConfig
  PROVE  ReadCluster(makeCluster(cfg)) = CallOf(cfg)
<1> DEFINE cl == makeCluster(cfg)
<1>1. ReadCluster(cl).timeoutMs = cfg.timeoutMs
  <2>1. cl.HostRemovalStabilizationTimeout = {t \in {cfg.timeoutMs} : t > 0}
    BY DEF makeCluster
  <2>2. CASE cfg.timeoutMs = 0
    BY <2>1, <2>2 DEF ReadCluster
  <2>3. CASE cfg.timeoutMs > 0
    <3>1. cl.HostRemovalStabilizationTimeout = {cfg.timeoutMs}
      BY <2>1, <2>3
    <3>2. (CHOOSE t \in {cfg.timeoutMs} : TRUE) = cfg.timeoutMs
      OBVIOUS
    <3>3. QED
      BY <3>1, <3>2 DEF ReadCluster
  <2>4. QED
    BY <2>2, <2>3 DEF ClusterConfig
<1>2. ReadCluster(cl).healthChecks = cfg.healthChecks
  BY DEF ReadCluster, makeCluster, ClusterConfig
<1>3. ReadCluster(cl).opts = {o \in Options : cfg[o]}
  BY DEF ReadCluster, makeCluster, ClusterConfig, Options
<1>4. QED
  BY <1>1, <1>2, <1>3 DEF ReadCluster, CallOf

LEMMA ReadMakeEndpoints ==
  ASSUME NEW ports \in SUBSET Ports
  PROVE  ReadEndpoints(makeEndpoints(ports)) = ports
<1> DEFINE E(p) == [Address |-> "127.0.0.1", PortValue |-> p]
<1>1. \A p \in ports : E(p).PortValue = p
  OBVIOUS
<1>2. makeEndpoints(ports) = {E(p) : p \in ports}
  BY DEF makeEndpoints
<1> HIDE DEF E
<1>3. \A x : x \in {e.PortValue : e \in {E(p) : p \in ports}} <=> x \in ports
  BY <1>1
<1>4. QED
  BY <1>2, <1>3 DEF ReadEndpoints

-----------------------------------------------------------------------------
(* What is remembered for a call contains what it may publish.             *)

StoreInv ==
  /\ config = InitialConfig \/ \E call \in ConfigCalls : config = ConfigOf(call)
  /\ \A c \in Callers :
       /\ pc[c] \in Pushing => Current \in recent[c]
       /\ pc[c] \in {"stamp", "set"} => captured[c] \in recent[c]
       /\ pc[c] \notin Pushing => recent[c] = {}

Inv == TypeOK /\ Apart /\ StoreInv

\* A call enters pushSnapshot after its critical section.
Enter(c) ==
  /\ pc[c] \notin Pushing /\ pc' = [pc EXCEPT ![c] = "capture"]
  /\ UNCHANGED <<snapshot, captured>>
  /\ config' = config \/ endpoints' = endpoints
  /\ config' # config => \E call \in ConfigCalls : config' = ConfigOf(call)

\* Nobody enters or leaves pushSnapshot.
Still ==
  /\ UNCHANGED <<endpoints, config, snapshot, captured>>
  /\ \A c \in Callers : pc'[c] # pc[c] => {pc[c], pc'[c]} \cap Pushing = {}

LEMMA StepKinds ==
  ASSUME TypeOK, Apart, [Next]_vars
  PROVE  \/ \E c \in Callers : Enter(c) \/ Capture(c) \/ Stamp(c) \/ SetSnapshot(c)
         \/ Still
<1>0. Main \in Callers
  BY DEF Callers
<1>1. ASSUME NEW c \in Callers, CallStep(c)
      PROVE  Enter(c) \/ Capture(c) \/ Stamp(c) \/ SetSnapshot(c)
  BY <1>1 DEF CallStep, PushStep, AddEndpoints, RemoveEndpoints, Mutate, MayCall,
              Enter, Pushing
<1>2. MainStep => Enter(Main)
  BY DEF MainStep, RemoveAllEndpoints, ReplaceEndpoints, SetClusterConfig, Mutate,
         MayCall, Enter, Pushing
<1>3. Start => Enter(Main)
  BY DEF Start, MayCall, Enter, Pushing
<1>4. Stop \/ Restart => Still
  <2>1. ASSUME NEW then \in {"stopping", "restarting"}, GracefulStop(then)
        PROVE  Still
    BY <1>0, <2>1 DEF GracefulStop, MayCall, Still, Pushing, TypeOK
  <2>2. QED
    BY <2>1 DEF Stop, Restart
<1>5. GracefulStopReturns => Still
  BY <1>0 DEF GracefulStopReturns, Apart, Still, Pushing, TypeOK
<1>6. Exit \/ UNCHANGED vars => Still
  BY DEF Exit, vars, Still
<1>7. QED
  BY <1>0, <1>1, <1>2, <1>3, <1>4, <1>5, <1>6 DEF Next, ServerStep

-----------------------------------------------------------------------------
(* StoreInv is kept by every step.                                         *)

LEMMA Remembered ==
  ASSUME Remember, NEW c \in Callers
  PROVE  recent'[c] = IF pc'[c] \notin Pushing THEN {}
                      ELSE IF pc[c] \notin Pushing THEN {Current'}
                      ELSE recent[c] \cup {Current'}
BY DEF Remember

\* The second conjunct of StoreInv for one call.
Holds(c) ==
  /\ pc[c] \in Pushing => Current \in recent[c]
  /\ pc[c] \in {"stamp", "set"} => captured[c] \in recent[c]
  /\ pc[c] \notin Pushing => recent[c] = {}

\* It is enough that what a call has captured was remembered before.
LEMMA HoldsNext ==
  ASSUME Remember, NEW c \in Callers,
         pc'[c] \in {"stamp", "set"} =>
           /\ pc[c] \in Pushing
           /\ captured'[c] \in recent[c] \cup {Current'}
  PROVE  Holds(c)'
BY Remembered DEF Holds, Pushing

LEMMA StoreInvNext ==
  ASSUME TypeOK, Apart, StoreInv, [Next]_vars, Remember
  PROVE  StoreInv'
<1>0. \A d \in Callers : Holds(d)
  BY DEF StoreInv, Holds
<1>a. pc \in [Callers -> {"idle", "capture", "stamp", "set", "stopping",
                         "restarting", "starting"}]
  BY DEF TypeOK
<1>b. DOMAIN captured = Callers
  BY DEF TypeOK
<1>1. config' = InitialConfig \/ \E call \in ConfigCalls : config' = ConfigOf(call)
  <2>1. ASSUME NEW c \in Callers, Enter(c)
        PROVE  config' = config \/ \E call \in ConfigCalls : config' = ConfigOf(call)
    BY <2>1 DEF Enter
  <2>2. ASSUME NEW c \in Callers, Capture(c) \/ Stamp(c) \/ SetSnapshot(c)
        PROVE  config' = config
    BY <2>2 DEF Capture, Stamp, SetSnapshot
  <2>3. Still => config' = config
    BY DEF Still
  <2>4. QED
    BY <2>1, <2>2, <2>3, StepKinds DEF StoreInv
<1>2. ASSUME NEW d \in Callers, pc'[d] \in {"stamp", "set"}
      PROVE  /\ pc[d] \in Pushing
             /\ captured'[d] \in recent[d] \cup {Current'}
  <2>0. Holds(d)
    BY <1>0
  <2>1. ASSUME NEW c \in Callers, Enter(c)
        PROVE  pc'[d] = pc[d] /\ captured' = captured
    BY <1>a, <1>2, <2>1 DEF Enter
  <2>2. ASSUME NEW c \in Callers, Capture(c)
        PROVE  \/ pc'[d] = pc[d] /\ captured'[d] = captured[d]
               \/ pc[d] = "capture" /\ captured'[d] = Current /\ Current' = Current
    BY <1>a, <1>b, <2>2 DEF Capture, Current
  <2>3. ASSUME NEW c \in Callers, Stamp(c)
        PROVE  pc[d] \in {"stamp", "set"} /\ captured' = captured
    BY <1>a, <1>2, <2>3 DEF Stamp
  <2>4. ASSUME NEW c \in Callers, SetSnapshot(c)
        PROVE  pc'[d] = pc[d] /\ captured'[d] = captured[d]
    BY <1>a, <1>b, <1>2, <2>4 DEF SetSnapshot
  <2>5. Still => pc'[d] = pc[d] /\ captured' = captured
    BY <1>2 DEF Still, Pushing
  <2>6. \/ pc[d] \in {"stamp", "set"} /\ captured'[d] = captured[d]
        \/ pc[d] = "capture" /\ captured'[d] = Current /\ Current' = Current
    BY <1>2, <2>1, <2>2, <2>3, <2>4, <2>5, StepKinds
  <2>7. QED
    BY <2>0, <2>6 DEF Holds, Pushing
<1>3. \A d \in Callers : Holds(d)'
  BY <1>2, HoldsNext
<1>4. QED
  BY <1>1, <1>3 DEF StoreInv, Holds

LEMMA InvInvariant == HSpec => []Inv
<1>1. HInit => Inv
  <2>1. HInit => TypeOK
    BY InitTypeOK DEF HInit
  <2>2. HInit => Apart
    BY DEF HInit, Init, Apart, WorkersIdle, Callers
  <2>3. HInit => StoreInv
    BY DEF HInit, Init, StoreInv, Pushing
  <2>4. QED
    BY <2>1, <2>2, <2>3 DEF Inv
<1>2. Inv /\ [HNext]_hvars => Inv'
  <2> SUFFICES ASSUME Inv, [HNext]_hvars
               PROVE  Inv'
    OBVIOUS
  <2>1. [Next]_vars
    BY DEF HNext, hvars
  <2>2. TypeOK' /\ Apart'
    BY <2>1, NextTypeOK, ApartInductive DEF Inv
  <2>3. StoreInv'
    <3>1. CASE HNext
      BY <2>1, <3>1, StoreInvNext DEF HNext, Inv
    <3>2. CASE UNCHANGED hvars
      BY <3>2 DEF hvars, vars, Inv, StoreInv, Current
    <3>3. QED
      BY <3>1, <3>2
  <2>4. QED
    BY <2>2, <2>3 DEF Inv
<1>3. QED
  BY <1>1, <1>2, PTL DEF HSpec

-----------------------------------------------------------------------------
(* Each step of the controller is a step of the store, or none.            *)

\* The abstract value of the history variable.
Seen(r) == [c \in Callers |-> {AbstractState(s) : s \in r[c]}]

LEMMA AbstractStates ==
  ASSUME NEW cfg, NEW ports \in SUBSET Ports,
         cfg = InitialConfig \/ \E call \in ConfigCalls : cfg = ConfigOf(call)
  PROVE  AbstractState([config |-> cfg, endpoints |-> ports]) \in Store!States
BY CallOfConfigOf DEF AbstractState, Store!States

LEMMA ServedIsCaptured ==
  ASSUME TypeOK, NEW c \in Callers, SetSnapshot(c)
  PROVE  ServedState' = AbstractState(captured[c])
<1>1. captured[c].config \in ClusterConfig /\ captured[c].endpoints \in SUBSET Ports
      /\ stamp[c] \in Nat
  BY DEF TypeOK
<1>2. snapshot' # NoSnapshot
  <2>1. snapshot' \in Snapshots
    BY <1>1, SnapshotType DEF SetSnapshot
  <2>2. QED
    BY <2>1, NoSnapshotAssumption
<1>3. /\ snapshot'.cluster = makeCluster(captured[c].config)
      /\ snapshot'.endpoints = makeEndpoints(captured[c].endpoints)
  BY DEF SetSnapshot
<1>4. QED
  BY <1>1, <1>2, <1>3, ReadMakeCluster, ReadMakeEndpoints DEF ServedState, AbstractState

\* A critical section is a Change.
LEMMA EnterChanges ==
  ASSUME TypeOK, TypeOK', StoreInv, StoreInv', Remember, NEW c \in Callers, Enter(c)
  PROVE  Store!Change(c)
<1> DEFINE now == AbstractState(Current')
<1>1. now \in Store!States
  BY AbstractStates DEF TypeOK, StoreInv, Current
<1>2. Seen(recent)[c] = {}
  BY DEF StoreInv, Enter, Seen
<1>3. now.config = AbstractState(Current).config
      \/ now.endpoints = AbstractState(Current).endpoints
  BY DEF Enter, AbstractState, Current
<1>4. Seen(recent') = [d \in Callers |-> IF d = c THEN {now}
                                        ELSE IF Seen(recent)[d] = {} THEN {}
                                        ELSE Seen(recent)[d] \cup {now}]
  <2>1. ASSUME NEW d \in Callers
        PROVE  {AbstractState(s) : s \in recent'[d]}
                 = IF d = c THEN {now}
                   ELSE IF Seen(recent)[d] = {} THEN {}
                   ELSE Seen(recent)[d] \cup {now}
    <3>1. pc'[c] \in Pushing /\ pc[c] \notin Pushing /\ (d # c => pc'[d] = pc[d])
      BY DEF Enter, TypeOK, Pushing
    <3>2. CASE d = c
      <4>1. recent'[d] = {Current'}
        BY <3>1, <3>2, Remembered
      <4>2. QED
        BY <3>2, <4>1
    <3>3. CASE d # c /\ pc[d] \notin Pushing
      <4>1. recent'[d] = {} /\ recent[d] = {}
        BY <3>1, <3>3, Remembered DEF StoreInv
      <4>2. QED
        BY <3>3, <4>1 DEF Seen
    <3>4. CASE d # c /\ pc[d] \in Pushing
      <4>1. recent'[d] = recent[d] \cup {Current'} /\ Current \in recent[d]
        BY <3>1, <3>4, Remembered DEF StoreInv
      <4>2. QED
        BY <3>4, <4>1 DEF Seen
    <3>5. QED
      BY <3>2, <3>3, <3>4
  <2>2. QED
    BY <2>1 DEF Seen
<1>5. ServedState' = ServedState
  BY DEF Enter, ServedState
<1> HIDE DEF now
<1>6. AbstractState(Current)' = now
  BY DEF now
<1>7. QED
  BY <1>1, <1>2, <1>3, <1>4, <1>5, <1>6 DEF Store!Change, Store!Witness, Seen

\* SetSnapshot is a Publish.
LEMMA SetSnapshotPublishes ==
  ASSUME TypeOK, StoreInv, Remember, NEW c \in Callers, SetSnapshot(c)
  PROVE  Store!Publish(c)
<1>1. captured[c] \in recent[c]
  BY DEF StoreInv, SetSnapshot
<1>2. ServedState' \in Seen(recent)[c]
  BY <1>1, ServedIsCaptured DEF Seen
<1>3. Current' = Current
  BY DEF SetSnapshot, Current
<1>4. Seen(recent') = [Seen(recent) EXCEPT ![c] = {}]
  <2>1. ASSUME NEW d \in Callers
        PROVE  recent'[d] = IF d = c THEN {} ELSE recent[d]
    <3>1. pc'[c] = "idle" /\ (d # c => pc'[d] = pc[d])
      BY DEF SetSnapshot, TypeOK
    <3>2. (pc[d] \in Pushing => Current \in recent[d]) /\ (pc[d] \notin Pushing => recent[d] = {})
      BY DEF StoreInv
    <3>3. recent'[d] = IF pc'[d] \notin Pushing THEN {}
                       ELSE IF pc[d] \notin Pushing THEN {Current'}
                       ELSE recent[d] \cup {Current'}
      BY Remembered
    <3>4. "idle" \notin Pushing
      BY DEF Pushing
    <3>5. CASE d = c
      BY <3>1, <3>3, <3>4, <3>5
    <3>6. CASE d # c /\ pc[d] \in Pushing
      <4>1. recent'[d] = recent[d] \cup {Current} /\ Current \in recent[d]
        BY <1>3, <3>1, <3>2, <3>3, <3>6
      <4>2. QED
        BY <3>6, <4>1
    <3>7. CASE d # c /\ pc[d] \notin Pushing
      BY <3>1, <3>2, <3>3, <3>7
    <3>8. QED
      BY <3>5, <3>6, <3>7
  <2>2. QED
    BY <2>1 DEF Seen
<1>5. AbstractState(Current)' = AbstractState(Current)
  BY <1>3 DEF AbstractState
<1>6. Seen(recent)[c] # {}
  BY <1>2
<1>7. QED
  BY <1>2, <1>4, <1>5, <1>6 DEF Store!Publish, Seen

\* Nothing else is visible in the store.
LEMMA OthersStutter ==
  ASSUME TypeOK, StoreInv, Remember,
         Still \/ \E c \in Callers : Capture(c) \/ Stamp(c)
  PROVE  UNCHANGED Store!storeVars
<1>1. Current' = Current /\ snapshot' = snapshot
  BY DEF Still, Capture, Stamp, Current
<1>2. ASSUME NEW d \in Callers
      PROVE  recent'[d] = recent[d]
  <2>1. (pc[d] \in Pushing <=> pc'[d] \in Pushing)
    <3>1. CASE Still
      BY <3>1 DEF Still
    <3>2. ASSUME NEW c \in Callers, Capture(c) \/ Stamp(c)
          PROVE  (pc[d] \in Pushing <=> pc'[d] \in Pushing)
      BY <3>2 DEF Capture, Stamp, Pushing, TypeOK
    <3>3. QED
      BY <3>1, <3>2
  <2>2. (pc[d] \in Pushing => Current \in recent[d]) /\ (pc[d] \notin Pushing => recent[d] = {})
    BY DEF StoreInv
  <2>3. recent'[d] = IF pc'[d] \notin Pushing THEN {}
                     ELSE IF pc[d] \notin Pushing THEN {Current'}
                     ELSE recent[d] \cup {Current'}
    BY Remembered
  <2>4. CASE pc[d] \in Pushing
    <3>1. recent'[d] = recent[d] \cup {Current} /\ Current \in recent[d]
      BY <1>1, <2>1, <2>2, <2>3, <2>4
    <3>2. QED
      BY <3>1
  <2>5. CASE pc[d] \notin Pushing
    BY <2>1, <2>2, <2>3, <2>5
  <2>6. QED
    BY <2>4, <2>5
<1>3. Seen(recent') = Seen(recent)
  BY <1>2 DEF Seen
<1>4. AbstractState(Current)' = AbstractState(Current) /\ ServedState' = ServedState
  BY <1>1 DEF AbstractState, ServedState
<1>5. QED
  BY <1>3, <1>4 DEF Store!storeVars, Seen

\* The controller with its history implements SnapshotStore: for any number of
\* overlapping calls, each push serves one whole state the controller was in
\* since the call's own change (xds.go:114-191).
THEOREM Refinement == HSpec => ImplementsStore
<1>1. HInit => Store!StoreInit
  <2> SUFFICES ASSUME HInit PROVE Store!StoreInit
    OBVIOUS
  <2>1. AbstractState(Current) = [config |-> CallOf(InitialConfig), endpoints |-> {}]
    BY DEF HInit, Init, AbstractState, Current
  <2>2. ServedState = NoSnapshot
    BY DEF HInit, Init, ServedState
  <2>3. [c \in Callers |-> {AbstractState(s) : s \in recent[c]}] = [c \in Callers |-> {}]
    BY DEF HInit
  <2>4. QED
    BY <2>1, <2>2, <2>3 DEF Store!StoreInit
<1>2. Inv /\ Inv' /\ [HNext]_hvars => [Store!StoreNext]_(Store!storeVars)
  <2> SUFFICES ASSUME Inv, Inv', [HNext]_hvars
               PROVE  [Store!StoreNext]_(Store!storeVars)
    OBVIOUS
  <2>1. CASE HNext
    <3>1. /\ TypeOK /\ TypeOK' /\ StoreInv /\ StoreInv' /\ Apart
          /\ Remember /\ [Next]_vars
      BY <2>1 DEF Inv, HNext
    <3>2. ASSUME NEW c \in Callers, Enter(c)
          PROVE  Store!StoreNext
      BY <3>1, <3>2, EnterChanges DEF Store!StoreNext
    <3>3. ASSUME NEW c \in Callers, SetSnapshot(c)
          PROVE  Store!StoreNext
      BY <3>1, <3>3, SetSnapshotPublishes DEF Store!StoreNext
    <3>4. QED
      BY <3>1, <3>2, <3>3, OthersStutter, StepKinds
  <2>2. CASE UNCHANGED hvars
    BY <2>2 DEF hvars, vars, Store!storeVars, AbstractState, Current, ServedState
  <2>3. QED
    BY <2>1, <2>2
<1>3. QED
  BY <1>1, <1>2, InvInvariant, PTL DEF HSpec, ImplementsStore, Store!StoreSpec

=============================================================================
