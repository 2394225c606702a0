----------------------------- MODULE XDSHistory -----------------------------
(***************************************************************************)
(* XDSController with a history variable: for each call in progress, the   *)
(* states the controller has been in since the call's own critical         *)
(* section.  It constrains nothing; it is what the refinement mapping to   *)
(* SnapshotStore needs, because which state a call will publish is decided *)
(* by where its second critical section falls.                             *)
(***************************************************************************)
EXTENDS XDSController

VARIABLE recent

hvars == <<vars, recent>>

\* The positions of a call between its change and its publication.
Pushing == {"capture", "stamp", "set"}

HInit == Init /\ recent = [c \in Callers |-> {}]

\* A call starts to remember with the state its own change has produced.
Remember ==
  recent' = [c \in Callers |->
    IF pc'[c] \notin Pushing THEN {}
    ELSE IF pc[c] \notin Pushing THEN {Current'}
    ELSE recent[c] \cup {Current'}]

HNext == Next /\ Remember

HSpec == HInit /\ [][HNext]_hvars

-----------------------------------------------------------------------------
(* The refinement mapping *)

\* The argument list that asks for configuration cfg.
CallOf(cfg) ==
  [timeoutMs    |-> cfg.timeoutMs,
   healthChecks |-> cfg.healthChecks,
   opts         |-> {o \in Options : cfg[o]}]

AbstractState(s) == [config |-> CallOf(s.config), endpoints |-> s.endpoints]

\* Envoy's reading of a Cluster resource: an absent timeout is no timeout.
ReadCluster(cl) ==
  [timeoutMs    |-> IF cl.HostRemovalStabilizationTimeout = {} THEN 0
                    ELSE CHOOSE t \in cl.HostRemovalStabilizationTimeout : TRUE,
   healthChecks |-> cl.HealthChecks # {},
   opts         |-> {o \in Options :
                       IF o = "ignoreHealthOnRemoval"
                       THEN cl.IgnoreHealthOnHostRemoval
                       ELSE cl.IgnoreNewHostsUntilFirstHc}]

ReadEndpoints(resource) == {e.PortValue : e \in resource}

ServedState ==
  IF snapshot = NoSnapshot THEN NoSnapshot
  ELSE [config    |-> ReadCluster(snapshot.cluster),
        endpoints |-> ReadEndpoints(snapshot.endpoints)]

Store == INSTANCE SnapshotStore WITH
  InitialCall <- CallOf(InitialConfig),
  Nothing     <- NoSnapshot,
  current     <- AbstractState(Current),
  served      <- ServedState,
  recent      <- [c \in Callers |-> {AbstractState(s) : s \in recent[c]}]

\* Whatever the interleaving, the controller is a SnapshotStore: each push
\* makes Envoy see one whole state that the controller was in after the
\* pushing call's own change, never a mixture and never an option left over
\* from an earlier SetClusterConfig (xds.go:114-191).
ImplementsStore == Store!StoreSpec

=============================================================================
