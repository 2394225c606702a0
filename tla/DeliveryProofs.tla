--------------------------- MODULE DeliveryProofs ---------------------------
(***************************************************************************)
(* Proofs about the delivery of snapshots, for every set of workers and    *)
(* ports and every number of restarts of Envoy and of broken streams: a    *)
(* stream on which nothing is going to happen is up to date.               *)
(*                                                                         *)
(* XDSProofs supplies the facts about the controller; the history variable *)
(* that comes with it plays no part here.                                  *)
(***************************************************************************)
EXTENDS XDSDelivery, XDSProofs

USE DeliveryBounds, NoSnapshotAssumption

\* A response names a version that was drawn and is not about to be published
\* again; if it is the served version, it is the served content.
Known(t, response) ==
  response # None =>
    /\ snapshot # NoSnapshot
    /\ response.version \in 1..version
    /\ response.version = snapshot.version => response = Response(snapshot, t)
    /\ \A c \in Callers : pc[c] = "set" => stamp[c] # response.version

KnownInv == \A t \in Types : Known(t, held[t]) /\ Known(t, reply[t])

Domains == held = [t \in Types |-> held[t]] /\ reply = [t \in Types |-> reply[t]]

DInv == DTypeOK /\ Domains /\ VersionsNameSnapshots /\ KnownInv /\ WatchersAreCurrent

LEMMA ResponseFacts ==
  ASSUME NEW snap, NEW t \in Types
  PROVE  /\ Response(snap, t).version = snap.version
         /\ snap.version # 0 => Response(snap, t) # None
BY DEF Response, None

LEMMA DInitDInv == DInit => DInv
<1> SUFFICES ASSUME DInit PROVE DInv
  OBVIOUS
<1>1. TypeOK /\ VersionsNameSnapshots
  BY InitTypeOK DEF DInit, Init, VersionsNameSnapshots
<1>2. DTypeOK
  BY <1>1 DEF DInit, DTypeOK, Closed
<1>3. KnownInv
  BY DEF DInit, KnownInv, Known
<1>4. WatchersAreCurrent
  BY DEF DInit, Init, WatchersAreCurrent
<1>5. QED
  BY <1>1, <1>2, <1>3, <1>4 DEF DInv, DInit, Domains

-----------------------------------------------------------------------------
(* Steps of the controller that publish nothing *)

LEMMA QuietCalls ==
  ASSUME TypeOK, Call \/ Start \/ Stop \/ GracefulStopReturns \/ Exit \/ UNCHANGED vars
  PROVE  QuietStep /\ TypeOK'
<1>0. Main \in Callers
  BY DEF Callers
<1>1. ASSUME NEW c \in Callers, Mutate(c)
      PROVE  QuietStep
  BY <1>1 DEF Mutate, QuietStep, TypeOK
<1>2. CASE Call
  <2>1. QuietStep
    BY <1>0, <1>1, <1>2 DEF Call, MainStep, AddEndpoints, RemoveEndpoints, RemoveAllEndpoints,
                            ReplaceEndpoints, SetClusterConfig
  <2>2. QED
    BY <1>2, <2>1, NextTypeOK DEF Call, Next, CallStep
<1>3. CASE Start \/ Stop \/ GracefulStopReturns
  <2>1. QuietStep
    BY <1>0, <1>3 DEF Start, Stop, GracefulStop, GracefulStopReturns, QuietStep, TypeOK
  <2>2. QED
    BY <1>3, <2>1, NextTypeOK DEF Next, ServerStep
<1>4. CASE Exit \/ UNCHANGED vars
  <2>1. QuietStep
    BY <1>4 DEF Exit, vars, QuietStep
  <2>2. QED
    BY <1>4, <2>1, NextTypeOK DEF Next
<1>5. QED
  BY <1>2, <1>3, <1>4

LEMMA QuietDInv ==
  ASSUME DInv, QuietStep, TypeOK', UNCHANGED <<envoyVars, streamVars>>
  PROVE  DInv'
<1>1. UNCHANGED <<envoy, starts, held, stream, reply, drops, version, snapshot, stamp>>
  BY DEF envoyVars, streamVars, QuietStep
<1>2. DTypeOK'
  BY <1>1 DEF DInv, DTypeOK
<1>3. VersionsNameSnapshots'
  BY QuietVersions DEF DInv
<1>4. KnownInv'
  BY <1>1 DEF DInv, KnownInv, Known, QuietStep, Response
<1>5. WatchersAreCurrent'
  BY <1>1 DEF DInv, WatchersAreCurrent, Response
<1>6. QED
  BY <1>1, <1>2, <1>3, <1>4, <1>5 DEF DInv, Domains

\* The version that is drawn is new.
LEMMA StampDInv ==
  ASSUME DInv, NEW c \in Callers, Stamp(c), UNCHANGED <<envoyVars, streamVars>>
  PROVE  DInv'
<1>1. UNCHANGED <<envoy, starts, held, stream, reply, drops, snapshot>>
  BY DEF envoyVars, streamVars, Stamp
<1>2. TypeOK' /\ VersionsNameSnapshots'
  BY StampTypeOK, StampVersions DEF DInv, DTypeOK
<1>3. DTypeOK'
  BY <1>1, <1>2 DEF DInv, DTypeOK
<1>4. version \in Nat /\ version' = version + 1
      /\ \A d \in Callers : pc'[d] = "set" =>
           (pc[d] = "set" /\ stamp'[d] = stamp[d]) \/ stamp'[d] = version + 1
  BY DEF Stamp, DInv, DTypeOK, TypeOK
<1>5. ASSUME NEW t \in Types, NEW response, Known(t, response)
      PROVE  Known(t, response)'
  BY <1>1, <1>4, <1>5 DEF Known, Response
<1>6. KnownInv'
  BY <1>1, <1>5 DEF DInv, KnownInv
<1>7. WatchersAreCurrent'
  BY <1>1 DEF DInv, WatchersAreCurrent, Response
<1>8. QED
  BY <1>1, <1>2, <1>3, <1>6, <1>7 DEF DInv, Domains

-----------------------------------------------------------------------------
(* SetSnapshot answers every watch: its version is one Envoy has not seen. *)

LEMMA PublishDInv ==
  ASSUME DInv, NEW c \in Callers, Publish(c)
  PROVE  DInv'
<1>1. /\ pc[c] = "set" /\ snapshot' # NoSnapshot /\ snapshot'.version = stamp[c]
      /\ stamp[c] \in 1..version /\ version \in Nat /\ version' = version
      /\ TypeOK' /\ VersionsNameSnapshots'
  <2>1. TypeOK' /\ VersionsNameSnapshots'
    BY SetSnapshotTypeOK, SetSnapshotVersions DEF Publish, DInv, DTypeOK
  <2>2. snapshot' \in Snapshots
    <3>1. /\ captured[c].config \in ClusterConfig /\ captured[c].endpoints \in SUBSET Ports
          /\ stamp[c] \in Nat
      BY DEF DInv, DTypeOK, TypeOK
    <3>2. QED
      BY <3>1, SnapshotType DEF Publish, SetSnapshot
  <2>3. QED
    BY <2>1, <2>2 DEF Publish, SetSnapshot, DInv, DTypeOK, TypeOK, VersionsNameSnapshots
<1>2. UNCHANGED <<envoy, starts, held, drops>>
  BY DEF Publish, envoyVars
<1>3. ASSUME NEW t \in Types
      PROVE  held[t].version # stamp[c]
  BY <1>1 DEF DInv, KnownInv, Known, None
<1>4. ASSUME NEW t \in Types
      PROVE  /\ stream[t] = "watching" => stream'[t] = "replying" /\ reply'[t] = Response(snapshot', t)
             /\ stream[t] # "watching" => stream'[t] = stream[t] /\ reply'[t] = reply[t]
  BY <1>1, <1>3 DEF Publish, Answers
<1>5. DTypeOK'
  <2>1. \A t \in Types : (reply'[t] # None) <=> (stream'[t] = "replying")
    BY <1>1, <1>4, ResponseFacts DEF DInv, DTypeOK
  <2>2. stream' \in [Types -> {"closed", "owes", "watching", "replying"}]
    BY DEF Publish, DInv, DTypeOK
  <2>3. envoy' = "down" => stream' = Closed
    BY <1>2, <1>4, <2>2 DEF DInv, DTypeOK, Closed
  <2>4. QED
    BY <1>1, <1>2, <2>1, <2>2, <2>3 DEF DInv, DTypeOK
<1>6. ASSUME NEW t \in Types
      PROVE  Known(t, held[t])' /\ Known(t, reply[t])'
  <2>1. \A d \in Callers : pc'[d] = "set" => pc[d] = "set" /\ stamp'[d] = stamp[d] /\ d # c
    BY DEF Publish, SetSnapshot, DInv, DTypeOK, TypeOK
  <2>2. ASSUME NEW response, Known(t, response)
        PROVE  Known(t, response)'
    BY <1>1, <2>1, <2>2 DEF Known
  <2>3. Known(t, Response(snapshot, t))'
    BY <1>1, <2>1, ResponseFacts DEF Known, DInv, VersionsNameSnapshots, Response
  <2>4. QED
    BY <1>2, <1>4, <2>2, <2>3 DEF DInv, KnownInv, Known
<1>7. WatchersAreCurrent'
  BY <1>4 DEF WatchersAreCurrent, DInv, DTypeOK
<1>8. Domains'
  BY <1>2 DEF DInv, Domains, Publish
<1>9. QED
  BY <1>1, <1>5, <1>6, <1>7, <1>8 DEF DInv, KnownInv

-----------------------------------------------------------------------------
(* The streams *)

\* A step of Envoy or of one stream leaves the controller alone.  What each
\* stream has and gets must still be known, and a new watcher be up to date.
LEMMA ControllerQuiet ==
  ASSUME DInv, UNCHANGED vars
  PROVE  /\ TypeOK' /\ VersionsNameSnapshots'
         /\ UNCHANGED <<snapshot, version>>
         /\ \A t \in Types : \A response : Known(t, response) => Known(t, response)'
<1>1. UNCHANGED <<endpoints, config, version, snapshot, server, pc, captured, stamp>>
  BY DEF vars
<1>2. QED
  BY <1>1 DEF DInv, DTypeOK, TypeOK, VersionsNameSnapshots, Known, Response

LEMMA StreamDInv ==
  ASSUME DInv, UNCHANGED vars, NEW t \in Types, StreamStep(t) \/ Drop(t)
  PROVE  DInv'
<1>1. ASSUME NEW phase \in {"closed", "owes", "watching", "replying"},
             NEW old, NEW new,
             stream' = [stream EXCEPT ![t] = phase],
             held' = [held EXCEPT ![t] = old], reply' = [reply EXCEPT ![t] = new],
             envoy' = envoy, starts' = starts, drops' \in 0..MaxDrops,
             Known(t, old), Known(t, new), new # None <=> phase = "replying",
             envoy = "down" => phase = "closed",
             phase = "watching" /\ snapshot # NoSnapshot => old = Response(snapshot, t)
      PROVE  DInv'
  <2>1. /\ stream'[t] = phase /\ held'[t] = old /\ reply'[t] = new
        /\ \A u \in Types \ {t} :
             stream'[u] = stream[u] /\ held'[u] = held[u] /\ reply'[u] = reply[u]
        /\ stream' \in [Types -> {"closed", "owes", "watching", "replying"}]
        /\ Domains'
    BY <1>1 DEF DInv, DTypeOK, Domains
  <2>2. envoy' = "down" => stream' = Closed
    BY <1>1, <2>1 DEF DInv, DTypeOK, Closed
  <2>3. DTypeOK'
    BY <1>1, <2>1, <2>2, ControllerQuiet DEF DInv, DTypeOK
  <2>4. ASSUME NEW u \in Types
        PROVE  Known(u, held[u])' /\ Known(u, reply[u])'
    <3>1. Known(u, held'[u]) /\ Known(u, reply'[u])
      BY <1>1, <2>1 DEF DInv, KnownInv
    <3>2. QED
      BY <3>1, ControllerQuiet DEF Known
  <2>5. WatchersAreCurrent'
    BY <1>1, <2>1, ControllerQuiet DEF DInv, WatchersAreCurrent, Response
  <2>6. QED
    BY <2>1, <2>3, <2>4, <2>5, ControllerQuiet DEF DInv, KnownInv
<1>2. held = [held EXCEPT ![t] = held[t]] /\ reply = [reply EXCEPT ![t] = reply[t]]
  BY DEF DInv, Domains
<1>3. Known(t, held[t]) /\ Known(t, reply[t]) /\ Known(t, None)
  BY DEF DInv, KnownInv, Known
<1>4. reply[t] # None <=> stream[t] = "replying"
  BY DEF DInv, DTypeOK
<1>5. envoy = "down" => stream[t] = "closed"
  BY DEF DInv, DTypeOK, Closed
<1>6. drops \in 0..MaxDrops
  BY DEF DInv, DTypeOK
<1>7. CASE Connect(t)
  BY <1>1, <1>2, <1>3, <1>4, <1>6, <1>7 DEF Connect, envoyVars
<1>8. CASE Request(t)
  <2>1. CASE snapshot # NoSnapshot /\ snapshot.version # held[t].version
    <3>1. Known(t, Response(snapshot, t)) /\ Response(snapshot, t) # None
      BY <2>1, ResponseFacts DEF DInv, VersionsNameSnapshots, Known
    <3>2. QED
      BY <1>1, <1>2, <1>3, <1>5, <1>6, <1>8, <2>1, <3>1 DEF Request, envoyVars
  <2>2. CASE snapshot = NoSnapshot \/ snapshot.version = held[t].version
    <3>1. snapshot # NoSnapshot => held[t] = Response(snapshot, t)
      BY <1>3, <2>2 DEF DInv, VersionsNameSnapshots, Known, None
    <3>2. QED
      BY <1>1, <1>2, <1>3, <1>4, <1>5, <1>6, <1>8, <2>2, <3>1 DEF Request, envoyVars
  <2>3. QED
    BY <2>1, <2>2
<1>9. CASE Deliver(t)
  BY <1>1, <1>3, <1>5, <1>6, <1>9 DEF Deliver
<1>10. CASE Drop(t)
  <2>1. /\ stream' = [stream EXCEPT ![t] = "closed"] /\ reply' = [reply EXCEPT ![t] = None]
        /\ UNCHANGED <<held, envoy, starts>>
    BY <1>10 DEF Drop, envoyVars
  <2>2. drops' \in 0..MaxDrops
    BY <1>6, <1>10 DEF Drop
  <2>3. held' = [held EXCEPT ![t] = held[t]]
    BY <1>2, <2>1
  <2>4. QED
    BY <1>1, <1>3, <2>1, <2>2, <2>3
<1>11. QED
  BY <1>7, <1>8, <1>9, <1>10 DEF StreamStep

LEMMA EnvoyDInv ==
  ASSUME DInv, EnvoyStart \/ EnvoyStop
  PROVE  DInv'
<1>1. UNCHANGED vars
  BY DEF EnvoyStart, EnvoyStop
<1>2. CASE EnvoyStart
  <2>1. UNCHANGED <<stream, reply, held, drops>> /\ envoy' = "up" /\ starts' \in 0..MaxStarts
    BY <1>2 DEF EnvoyStart, streamVars, DInv, DTypeOK
  <2>2. QED
    BY <1>1, <2>1, ControllerQuiet
       DEF DInv, DTypeOK, Domains, KnownInv, Known, WatchersAreCurrent, Response
<1>3. CASE EnvoyStop
  <2>1. /\ envoy' = "down" /\ stream' = Closed /\ UNCHANGED <<starts, drops>>
        /\ held' = [t \in Types |-> None] /\ reply' = [t \in Types |-> None]
    BY <1>3 DEF EnvoyStop
  <2>2. DTypeOK' /\ Domains'
    BY <1>1, <2>1, ControllerQuiet DEF DInv, DTypeOK, Domains, Closed
  <2>3. KnownInv' /\ WatchersAreCurrent'
    BY <2>1 DEF KnownInv, Known, WatchersAreCurrent, Closed
  <2>4. QED
    BY <1>1, <2>2, <2>3, ControllerQuiet DEF DInv
<1>4. QED
  BY <1>2, <1>3

-----------------------------------------------------------------------------
(* The theorems *)

LEMMA DInvariance == DSpec => []DInv
<1>1. ASSUME DInv, [DNext]_dvars
      PROVE  DInv'
  <2>0. TypeOK
    BY <1>1 DEF DInv, DTypeOK
  <2>1. ASSUME Call \/ Start \/ Stop \/ GracefulStopReturns \/ Exit \/ UNCHANGED vars,
               UNCHANGED <<envoyVars, streamVars>>
        PROVE  DInv'
    BY <1>1, <2>0, <2>1, QuietCalls, QuietDInv
  <2>2. ASSUME NEW c \in Callers, Push(c)
        PROVE  DInv'
    <3>1. CASE Capture(c) /\ UNCHANGED <<envoyVars, streamVars>>
      <4>1. QuietStep /\ TypeOK'
        BY <2>0, <3>1, CaptureTypeOK DEF Capture, QuietStep, TypeOK
      <4>2. QED
        BY <1>1, <3>1, <4>1, QuietDInv
    <3>2. CASE Stamp(c) /\ UNCHANGED <<envoyVars, streamVars>>
      BY <1>1, <3>2, StampDInv
    <3>3. QED
      BY <1>1, <2>2, <3>1, <3>2, PublishDInv DEF Push
  <2>3. ASSUME NEW t \in Types, StreamStep(t) \/ Drop(t)
        PROVE  DInv'
    <3>1. UNCHANGED vars
      BY <2>3 DEF StreamStep, Connect, Request, Deliver, Drop
    <3>2. QED
      BY <1>1, <2>3, <3>1, StreamDInv
  <2>4. UNCHANGED dvars => DInv'
    BY <2>1 DEF dvars
  <2>5. QED
    BY <1>1, <2>1, <2>2, <2>3, <2>4, EnvoyDInv DEF DNext, StopServer, StopReturns
<1>2. QED
  BY <1>1, DInitDInv, PTL DEF DSpec

\* The state of the streams has its type; a response is on its way exactly
\* while its stream is replying.
THEOREM DeliveryTypes == DSpec => []DTypeOK
<1>1. DInv => DTypeOK
  BY DEF DInv
<1>2. QED
  BY <1>1, DInvariance, PTL

\* Comparing versions for inequality is enough: whatever pushes overlap, and
\* whatever streams break or responses are lost, a stream that the cache keeps
\* waiting holds exactly what is served (xds.go:180-190).
THEOREM WatchersCurrent == DSpec => []WatchersAreCurrent
<1>1. DInv => WatchersAreCurrent
  BY DEF DInv
<1>2. QED
  BY <1>1, DInvariance, PTL

=============================================================================
