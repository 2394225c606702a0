---------------------------- MODULE XDSDelivery ----------------------------
(***************************************************************************)
(* XDSController together with its reader: Envoy's CDS and EDS streams and *)
(* the watches that the snapshot cache keeps for them.  Every request of   *)
(* Envoy names the version it holds; the cache answers at once when the    *)
(* snapshot has another one, and otherwise keeps the request as a watch    *)
(* that the next SetSnapshot answers.  A request after a response is its   *)
(* acknowledgement.                                                        *)
(*                                                                         *)
(* The cache (go-control-plane), grpc and Envoy are external: they are     *)
(* modelled from how xds.go and main.go use them.                          *)
(*                                                                         *)
(* A definition named Op_Fault is a faulty form of Op; no specification    *)
(* uses it.                                                                *)
(***************************************************************************)
EXTENDS XDSController, FiniteSets

CONSTANTS
  MaxStarts,     \* bound: how often Envoy is started
  MaxDrops       \* bound: streams that break by themselves

ASSUME DeliveryBounds == MaxStarts \in Nat /\ MaxDrops \in Nat

VARIABLES
  envoy,         \* "down" or "up"
  starts,        \* how often Envoy was started
  stream,        \* stream[t]: "closed", "owes" (a request), "watching", "replying"
  reply,         \* reply[t]: the response on its way to Envoy
  held,          \* held[t]: the response Envoy has applied last
  drops          \* streams broken so far

envoyVars  == <<envoy, starts, held>>
streamVars == <<stream, reply, drops>>
dvars == <<vars, envoyVars, streamVars>>

Types == {"cds", "eds"}
None  == [version |-> 0]          \* nothing applied, nothing on its way

\* The resource of type t in a snapshot, with the snapshot's version.
Response(snap, t) ==
  [version  |-> snap.version,
   resource |-> IF t = "cds" THEN snap.cluster ELSE snap.endpoints]

Closed == [t \in Types |-> "closed"]

DInit ==
  /\ Init
  /\ envoy = "down"
  /\ starts = 0
  /\ stream = Closed
  /\ reply = [t \in Types |-> None]
  /\ held = [t \in Types |-> None]
  /\ drops = 0

-----------------------------------------------------------------------------
(* The cache *)

\* Fault: a watch is answered only by a greater version.
Answers_Greater(t, snap) ==
  stream[t] = "watching" /\ snap.version > held[t].version

\* The watches that a new snapshot answers.
Answers(t, snap) == stream[t] = "watching" /\ snap.version # held[t].version

\* SetSnapshot stores the snapshot and answers the watches.
Publish(c) ==
  /\ SetSnapshot(c)
  /\ stream' = [t \in Types |-> IF Answers(t, snapshot') THEN "replying" ELSE stream[t]]
  /\ reply'  = [t \in Types |->
                  IF Answers(t, snapshot') THEN Response(snapshot', t) ELSE reply[t]]
  /\ UNCHANGED <<envoyVars, drops>>

\* Fault: a request is always kept as a watch.
Request_WatchOnly(t) ==
  /\ stream[t] = "owes"
  /\ stream' = [stream EXCEPT ![t] = "watching"]
  /\ UNCHANGED <<vars, envoyVars, reply, drops>>

\* A request of Envoy: answered at once, or kept as a watch.
Request(t) ==
  /\ stream[t] = "owes"
  /\ IF snapshot # NoSnapshot /\ snapshot.version # held[t].version
     THEN /\ stream' = [stream EXCEPT ![t] = "replying"]
          /\ reply' = [reply EXCEPT ![t] = Response(snapshot, t)]
     ELSE /\ stream' = [stream EXCEPT ![t] = "watching"]
          /\ UNCHANGED reply
  /\ UNCHANGED <<vars, envoyVars, drops>>

-----------------------------------------------------------------------------
(* Envoy and its streams *)

\* main starts Envoy when the server is up and its configuration is set.
EnvoyStart ==
  /\ envoy = "down"
  /\ starts < MaxStarts
  /\ server = "serving"
  /\ MayCall(Main)
  /\ envoy' = "up"
  /\ starts' = starts + 1
  /\ UNCHANGED <<vars, streamVars, held>>

\* SIGTERM or SIGKILL, and Wait.
EnvoyStop ==
  /\ envoy = "up"
  /\ MayCall(Main)
  /\ envoy' = "down"
  /\ held' = [t \in Types |-> None]
  /\ stream' = Closed
  /\ reply' = [t \in Types |-> None]
  /\ UNCHANGED <<vars, starts, drops>>

\* Envoy opens the EDS stream once a cluster asks for it.
Connect(t) ==
  /\ envoy = "up"
  /\ server = "serving"
  /\ stream[t] = "closed"
  /\ t = "eds" => held["cds"] # None
  /\ stream' = [stream EXCEPT ![t] = "owes"]
  /\ UNCHANGED <<vars, envoyVars, reply, drops>>

Deliver(t) ==
  /\ stream[t] = "replying"
  /\ held' = [held EXCEPT ![t] = reply[t]]
  /\ reply' = [reply EXCEPT ![t] = None]
  /\ stream' = [stream EXCEPT ![t] = "owes"]
  /\ UNCHANGED <<vars, envoy, starts, drops>>

\* Fault: the response survives its stream.
Drop_KeepReply(t) ==
  /\ drops < MaxDrops
  /\ stream[t] # "closed"
  /\ drops' = drops + 1
  /\ stream' = [stream EXCEPT ![t] = "closed"]
  /\ UNCHANGED <<vars, envoyVars, reply>>

\* A stream breaks; a response on its way is lost, Envoy keeps what it has.
Drop(t) ==
  /\ drops < MaxDrops
  /\ stream[t] # "closed"
  /\ drops' = drops + 1
  /\ stream' = [stream EXCEPT ![t] = "closed"]
  /\ reply' = [reply EXCEPT ![t] = None]
  /\ UNCHANGED <<vars, envoyVars>>

-----------------------------------------------------------------------------
(* The controller's steps, as main and the benchmark order them *)

\* Fault: the server is stopped before Envoy.
StopServer_EnvoyUp == Stop /\ UNCHANGED <<envoyVars, streamVars>>

\* Envoy is stopped before the server.
StopServer == envoy = "down" /\ Stop /\ UNCHANGED <<envoyVars, streamVars>>

\* GracefulStop waits for every stream to end.
StopReturns ==
  /\ stream = Closed
  /\ GracefulStopReturns
  /\ UNCHANGED <<envoyVars, streamVars>>

Call ==
  \/ \E c \in Callers : \E ports \in (SUBSET Ports) \ {{}} :
       AddEndpoints(c, ports) \/ RemoveEndpoints(c, ports)
  \/ MainStep

Push(c) ==
  \/ (Capture(c) \/ Stamp(c)) /\ UNCHANGED <<envoyVars, streamVars>>
  \/ Publish(c)

StreamStep(t) == Connect(t) \/ Request(t) \/ Deliver(t)

DNext ==
  \/ Call /\ UNCHANGED <<envoyVars, streamVars>>
  \/ \E c \in Callers : Push(c)
  \/ Start /\ UNCHANGED <<envoyVars, streamVars>>
  \/ StopServer
  \/ StopReturns
  \/ EnvoyStart
  \/ EnvoyStop
  \/ \E t \in Types : StreamStep(t) \/ Drop(t)
  \/ Exit /\ UNCHANGED <<envoyVars, streamVars>>

DSpec == DInit /\ [][DNext]_dvars

\* Goroutines run, Envoy reconnects, asks and acknowledges; nobody has to
\* call the controller, and no stream has to break.
Fairness ==
  /\ \A c \in Callers : WF_dvars(Push(c))
  /\ \A t \in Types : WF_dvars(StreamStep(t))
  /\ WF_dvars(StopReturns)
  /\ WF_dvars(pc[Main] = "starting" /\ Start /\ UNCHANGED <<envoyVars, streamVars>>)

FairSpec == DSpec /\ Fairness

\* The same system with a caller of Restart while Envoy is up, the use that
\* Restart's comment describes.
RestartServer == envoy = "up" /\ Restart /\ UNCHANGED <<envoyVars, streamVars>>

RestartSpec == DInit /\ [][DNext \/ RestartServer]_dvars /\ Fairness

-----------------------------------------------------------------------------
(* Properties *)

\* The shape of the streams' state; a response is on its way exactly while
\* the stream is replying.
DTypeOK ==
  /\ TypeOK
  /\ envoy \in {"down", "up"} /\ starts \in 0..MaxStarts /\ drops \in 0..MaxDrops
  /\ stream \in [Types -> {"closed", "owes", "watching", "replying"}]
  /\ \A t \in Types : (reply[t] # None) <=> (stream[t] = "replying")
  /\ envoy = "down" => stream = Closed

\* A stream on which nothing is going to happen until the next SetSnapshot
\* is up to date: Envoy holds the snapshot's version and exactly its content,
\* even when an overlapping push has made the served version go back
\* (xds.go:180-190).
WatchersAreCurrent ==
  \A t \in Types :
    (stream[t] = "watching" /\ snapshot # NoSnapshot) => held[t] = Response(snapshot, t)

\* If Envoy and the server stay up, Envoy ends up holding what the cache
\* serves, whatever streams broke and whatever responses were lost.
EnvoyConverges ==
  <>[](envoy = "up" /\ server = "serving") =>
    <>[](/\ snapshot # NoSnapshot
         /\ \A t \in Types : held[t] = Response(snapshot, t))

\* Stop returns, because Envoy is stopped first and its streams end with it
\* (xds.go:87-91, main.go:163-164).
StopTerminates == server = "draining" ~> server = "stopped"

\* "Restart stops the gRPC server and starts a new one on the same port"
\* (xds.go:93).  Violated by the code: GracefulStop waits for the streams of
\* the Envoy that is being tested.
RestartTerminates == pc[Main] = "restarting" ~> server = "serving"

=============================================================================
