--------------------------- MODULE BackendProofs ---------------------------
(***************************************************************************)
(* Proofs about the backend pool, for every set of callers and ports and   *)
(* every number of servers and connections.                                *)
(***************************************************************************)
EXTENDS BackendPool, TLAPS

USE BoundsAssumption, FreeAssumption DEF Servers

\* A call in progress holds the mutex, and what it waits for is shut down.
LockInv ==
  \A c \in Callers :
    /\ pc[c] # "idle" => mu = c
    /\ target[c] # 0 => pc[c] # "idle" /\ shut[target[c]]

\* The maps name servers that were started, each at one port.
MapInv ==
  /\ \A p \in Ports : servers[p] <= started
  /\ \A p, q \in Ports : servers[p] = servers[q] /\ servers[p] # 0 => p = q

\* A server that was not started has no goroutine, no socket and no request.
NewInv ==
  \A i \in Servers :
    /\ i <= started <=> serve[i] # "none"
    /\ i > started => bound[i] = {} /\ ~shut[i] /\ conns[i] = 0

\* A server that is shut down has its socket only while its goroutine has not
\* run; one that was forgotten is shut down and has no request.
QuietInv ==
  /\ \A i \in Servers : shut[i] /\ bound[i] # {} => serve[i] = "spawned"
  /\ \A i \in Servers : serve[i] = "ended" => shut[i]
  /\ \A i \in 1..started : (\A p \in Ports : servers[p] # i) => shut[i] /\ conns[i] = 0

IInv == TypeOK /\ LockInv /\ MapInv /\ NewInv /\ QuietInv /\ RegisteredOwnsPort

LEMMA InitIInv == Init => IInv
BY DEF Init, IInv, TypeOK, HoldersCall, LockInv, MapInv, NewInv, QuietInv, RegisteredOwnsPort

-----------------------------------------------------------------------------
(* The methods *)

LEMMA StartIInv ==
  ASSUME IInv, NEW p \in Ports, Start(p)
  PROVE  IInv'
<1> DEFINE i == started + 1
<1>1. /\ i \in Servers /\ started' = i /\ listeners[p] = 0 /\ mu = Free
      /\ bound' = [bound EXCEPT ![i] = {p}]
      /\ serve' = [serve EXCEPT ![i] = "spawned"]
      /\ listeners' = [listeners EXCEPT ![p] = i]
      /\ servers' = [servers EXCEPT ![p] = i]
      /\ UNCHANGED <<mu, pc, target, shut, conns, answered>>
  BY DEF Start, IInv, TypeOK
<1>2. ~shut[i] /\ conns[i] = 0 /\ \A q \in Ports : servers[q] # i
  BY <1>1 DEF IInv, TypeOK, NewInv, MapInv
<1> HIDE DEF i
<1>3. TypeOK'
  <2>1. HoldersCall'
    BY <1>1 DEF IInv, TypeOK, HoldersCall
  <2>2. QED
    BY <1>1, <2>1 DEF IInv, TypeOK
<1>4. LockInv'
  BY <1>1 DEF IInv, LockInv
<1>5. i = started + 1
  BY DEF i
<1>6. MapInv'
  BY <1>1, <1>2, <1>5 DEF IInv, TypeOK, MapInv
<1>7. NewInv'
  BY <1>1, <1>5 DEF IInv, TypeOK, NewInv
<1>8. QuietInv'
  <2>1. ASSUME NEW k \in 1..started', \A q \in Ports : servers'[q] # k
        PROVE  shut'[k] /\ conns'[k] = 0
    <3>1. k # i /\ k \in 1..started
      BY <1>1, <1>5, <2>1 DEF IInv, TypeOK
    <3>2. \A q \in Ports : servers[q] # k
      BY <1>1, <2>1, <3>1 DEF IInv, TypeOK, RegisteredOwnsPort
    <3>3. QED
      BY <1>1, <3>1, <3>2 DEF IInv, QuietInv
  <2>2. QED
    BY <1>1, <1>2, <2>1 DEF IInv, TypeOK, QuietInv
<1>9. RegisteredOwnsPort'
  BY <1>1, <1>2 DEF IInv, TypeOK, RegisteredOwnsPort
<1>10. QED
  BY <1>3, <1>4, <1>6, <1>7, <1>8, <1>9 DEF IInv

\* The first half of Shutdown, by the caller that then holds the mutex.
LEMMA ShutdownIInv ==
  ASSUME IInv, NEW c \in Callers, NEW p \in Ports, servers[p] # 0,
         BeginShutdown(c, servers[p]), mu' = c, pc' \in [Callers -> {"idle", "shutting", "stopping"}],
         pc'[c] # "idle", \A d \in Callers \ {c} : pc[d] = "idle" /\ pc'[d] = "idle",
         target[c] = 0, mu \in {Free, c}
  PROVE  IInv'
<1> DEFINE i == servers[p]
<1>1. /\ i \in Servers /\ i <= started /\ serve[i] # "none"
      /\ target' = [target EXCEPT ![c] = i]
      /\ shut' = [shut EXCEPT ![i] = TRUE]
      /\ bound' = [bound EXCEPT ![i] = IF serve[i] = "serving" THEN {} ELSE @]
      /\ UNCHANGED <<listeners, servers, started, serve, conns, answered>>
  BY DEF BeginShutdown, IInv, TypeOK, MapInv, NewInv
<1>2. \A d \in Callers \ {c} : target[d] = 0
  BY DEF IInv, LockInv
<1>3. \A q \in Ports : servers[q] = i => q = p
  BY DEF IInv, MapInv
<1> HIDE DEF i
<1>4. TypeOK'
  <2>1. HoldersCall'
    BY <1>1, <1>2 DEF IInv, TypeOK, HoldersCall
  <2>2. QED
    BY <1>1, <2>1 DEF IInv, TypeOK
<1>5. LockInv'
  BY <1>1, <1>2 DEF IInv, TypeOK, LockInv
<1>6. MapInv' /\ NewInv'
  BY <1>1 DEF IInv, TypeOK, MapInv, NewInv
<1>7. QuietInv'
  <2>1. serve[i] \in {"spawned", "serving"} \/ bound'[i] = {}
    <3>1. serve[i] = "ended" => shut[i] /\ bound[i] = {}
      BY <1>1 DEF IInv, QuietInv
    <3>2. QED
      BY <1>1, <3>1 DEF IInv, TypeOK
  <2>2. QED
    BY <1>1, <2>1 DEF IInv, TypeOK, QuietInv
<1>8. RegisteredOwnsPort'
  <2>1. i = servers[p]
    BY DEF i
  <2>2. ASSUME NEW q \in Ports, q # p, servers[q] # 0
        PROVE  bound[servers[q]] = {q} /\ ~shut[servers[q]] /\ servers[q] # i
    BY <1>3, <2>2 DEF IInv, TypeOK, RegisteredOwnsPort
  <2>3. QED
    BY <1>1, <2>1, <2>2 DEF IInv, TypeOK, RegisteredOwnsPort
<1>9. QED
  BY <1>4, <1>5, <1>6, <1>7, <1>8 DEF IInv

LEMMA StopIInv ==
  ASSUME IInv, NEW c \in Callers, NEW p \in Ports, Stop(c, p)
  PROVE  IInv'
<1>1. mu = Free /\ \A d \in Callers : pc[d] = "idle" /\ target[d] = 0
  BY DEF IInv, LockInv, Stop
<1>2. pc' = [pc EXCEPT ![c] = "shutting"] /\ mu' = c
  BY DEF Stop
<1>3. pc' \in [Callers -> {"idle", "shutting", "stopping"}]
  BY <1>2 DEF IInv, TypeOK
<1>4. pc'[c] # "idle" /\ \A d \in Callers \ {c} : pc'[d] = "idle"
  BY <1>1, <1>2 DEF IInv, TypeOK
<1>5. QED
  BY <1>1, <1>2, <1>3, <1>4, ShutdownIInv DEF Stop

\* Only the caller with the mutex is in a call.
LEMMA Holder ==
  ASSUME IInv, NEW c \in Callers, pc[c] # "idle"
  PROVE  mu = c /\ \A d \in Callers \ {c} : pc[d] = "idle" /\ target[d] = 0
BY DEF IInv, LockInv

LEMMA StopNextIInv ==
  ASSUME IInv, NEW c \in Callers, StopNext(c)
  PROVE  IInv'
<1>1. /\ pc[c] # "idle" /\ target[c] = 0 /\ mu' = mu /\ pc' = pc
      /\ pc \in [Callers -> {"idle", "shutting", "stopping"}]
  BY DEF StopNext, IInv, TypeOK
<1>2. mu = c /\ \A d \in Callers \ {c} : pc[d] = "idle"
  BY <1>1, Holder
<1>3. PICK p \in Ports : servers[p] # 0 /\ BeginShutdown(c, servers[p])
  BY DEF StopNext
<1>4. QED
  BY <1>1, <1>2, <1>3, ShutdownIInv

\* Taking the mutex, and giving it back with nothing left to stop.
LEMMA StopAllIInv ==
  ASSUME IInv, NEW c \in Callers, StopAll(c) \/ StopAllReturns(c)
  PROVE  IInv'
<1>1. UNCHANGED <<target, listeners, servers, started, serve, bound, shut, conns, answered>>
  BY DEF StopAll, StopAllReturns, mapVars, netVars
<1>2. target[c] = 0 /\ \A d \in Callers \ {c} : pc[d] = "idle" /\ target[d] = 0
  BY Holder DEF StopAll, StopAllReturns, IInv, LockInv
<1>3. mu' \in Callers \cup {Free} /\ pc' \in [Callers -> {"idle", "shutting", "stopping"}]
  BY DEF StopAll, StopAllReturns, IInv, TypeOK
<1>4. TypeOK' /\ MapInv' /\ NewInv' /\ QuietInv'
  <2>1. HoldersCall'
    BY <1>1, <1>2 DEF IInv, TypeOK, HoldersCall, StopAll, StopAllReturns
  <2>2. TypeOK'
    BY <1>1, <1>3, <2>1 DEF IInv, TypeOK
  <2>3. QED
    BY <1>1, <2>2 DEF IInv, MapInv, NewInv, QuietInv
<1>5. LockInv'
  BY <1>1, <1>2 DEF IInv, TypeOK, LockInv, StopAll, StopAllReturns
<1>6. RegisteredOwnsPort'
  <2>1. CASE StopAll(c)
    BY <1>1, <2>1 DEF IInv, RegisteredOwnsPort, StopAll
  <2>2. CASE StopAllReturns(c)
    BY <1>1, <2>2 DEF IInv, RegisteredOwnsPort, StopAllReturns
  <2>3. QED
    BY <2>1, <2>2
<1>7. QED
  BY <1>4, <1>5, <1>6 DEF IInv

LEMMA ShutdownReturnsIInv ==
  ASSUME IInv, NEW c \in Callers, ShutdownReturns(c)
  PROVE  IInv'
<1> DEFINE i == target[c]
<1>1. /\ i \in Servers /\ i # 0 /\ shut[i] /\ conns[i] = 0 /\ pc[c] # "idle"
      /\ UNCHANGED <<started, serve, bound, shut, conns, answered>>
      /\ target' = [target EXCEPT ![c] = 0]
      /\ listeners' = [p \in Ports |-> IF servers[p] = i THEN 0 ELSE listeners[p]]
      /\ servers' = [p \in Ports |-> IF servers[p] = i THEN 0 ELSE servers[p]]
  BY DEF ShutdownReturns, Forget, IInv, TypeOK, LockInv, netVars
<1>2. mu = c /\ \A d \in Callers \ {c} : pc[d] = "idle" /\ target[d] = 0
  BY <1>1, Holder
<1>3. \/ mu' = Free /\ pc' = [pc EXCEPT ![c] = "idle"]
      \/ mu' = mu /\ pc' = pc
  BY DEF ShutdownReturns
<1>4. i = target[c]
  OBVIOUS
<1> HIDE DEF i
<1>5. TypeOK'
  <2>1. HoldersCall'
    BY <1>1, <1>2, <1>3 DEF IInv, TypeOK, HoldersCall
  <2>2. QED
    BY <1>1, <1>3, <2>1 DEF IInv, TypeOK
<1>6. LockInv'
  BY <1>1, <1>2, <1>3 DEF IInv, TypeOK, LockInv
<1>7. MapInv' /\ NewInv'
  BY <1>1 DEF IInv, TypeOK, MapInv, NewInv
<1>8. QuietInv'
  <2>1. ASSUME NEW k \in 1..started, \A q \in Ports : servers'[q] # k
        PROVE  shut[k] /\ conns[k] = 0
    <3>1. k # i => \A q \in Ports : servers[q] # k
      BY <1>1, <2>1 DEF IInv, TypeOK
    <3>2. QED
      BY <1>1, <3>1 DEF IInv, QuietInv
  <2>2. QED
    BY <1>1, <2>1 DEF IInv, QuietInv
<1>9. RegisteredOwnsPort'
  <2>1. ASSUME NEW p \in Ports, servers'[p] # 0
        PROVE  bound[servers[p]] = {p} /\ ~shut[servers[p]] /\ servers'[p] = servers[p]
    <3>1. servers[p] # 0 /\ servers[p] # i /\ servers'[p] = servers[p]
      BY <1>1, <2>1
    <3>2. QED
      BY <1>2, <1>4, <3>1 DEF IInv, RegisteredOwnsPort
  <2>2. QED
    BY <1>1, <2>1 DEF IInv, RegisteredOwnsPort
<1>10. QED
  BY <1>5, <1>6, <1>7, <1>8, <1>9 DEF IInv

-----------------------------------------------------------------------------
(* The servers *)

LEMMA ServeIInv ==
  ASSUME IInv, NEW i \in Servers, Serve(i) \/ ServeEnds(i)
  PROVE  IInv'
<1>1. /\ UNCHANGED <<mu, pc, target, listeners, servers, started, shut, conns, answered>>
      /\ serve[i] \in {"spawned", "serving"}
      /\ \/ ~shut[i] /\ serve' = [serve EXCEPT ![i] = "serving"] /\ bound' = bound
         \/ shut[i] /\ serve' = [serve EXCEPT ![i] = "ended"] /\ bound' = [bound EXCEPT ![i] = {}]
  BY DEF Serve, ServeEnds, mapVars, IInv, TypeOK, QuietInv
<1>2. TypeOK'
  BY <1>1 DEF IInv, TypeOK, HoldersCall
<1>3. LockInv' /\ MapInv'
  BY <1>1 DEF IInv, LockInv, MapInv
<1>4. NewInv'
  BY <1>1 DEF IInv, TypeOK, NewInv
<1>5. QuietInv'
  <2>1. \A k \in 1..started' : (\A p \in Ports : servers'[p] # k) => shut'[k] /\ conns'[k] = 0
    BY <1>1 DEF IInv, QuietInv
  <2>2. ASSUME NEW k \in Servers
        PROVE  /\ shut'[k] /\ bound'[k] # {} => serve'[k] = "spawned"
               /\ serve'[k] = "ended" => shut'[k]
    <3>1. CASE k = i
      BY <1>1, <3>1 DEF IInv, TypeOK
    <3>2. CASE k # i
      BY <1>1, <3>2 DEF IInv, TypeOK, QuietInv
    <3>3. QED
      BY <3>1, <3>2
  <2>3. QED
    BY <2>1, <2>2 DEF QuietInv
<1>6. RegisteredOwnsPort'
  BY <1>1 DEF IInv, TypeOK, RegisteredOwnsPort
<1>7. QED
  BY <1>2, <1>3, <1>4, <1>5, <1>6 DEF IInv

LEMMA RequestIInv ==
  ASSUME IInv, NEW i \in Servers, Accept(i) \/ \E path \in Paths : Answer(i, path)
  PROVE  IInv'
<1>1. UNCHANGED <<mu, pc, target, listeners, servers, started, serve, bound, shut>>
  BY DEF Accept, Answer, mapVars
<1>2. /\ conns' \in [Servers -> 0..MaxConns]
      /\ answered' \subseteq Answers
  <2>1. CASE Accept(i)
    BY <2>1 DEF Accept, IInv, TypeOK
  <2>2. ASSUME NEW path \in Paths, Answer(i, path)
        PROVE  /\ conns' \in [Servers -> 0..MaxConns]
               /\ answered' \subseteq Answers
    <3>1. conns' \in [Servers -> 0..MaxConns]
      BY <2>2 DEF Answer, IInv, TypeOK
    <3>2. answered' = {[path |-> path, status |-> 200]}
      BY <2>2 DEF Answer, StatusOf
    <3>3. QED
      BY <3>1, <3>2 DEF Answers
  <2>3. QED
    BY <2>1, <2>2
<1>3. serve[i] # "none"
  BY DEF Accept, Answer, IInv, TypeOK, NewInv
<1>4. \A k \in Servers : shut[k] /\ conns[k] = 0 => conns'[k] = 0
  BY DEF Accept, Answer, IInv, TypeOK
<1>5. TypeOK' /\ LockInv' /\ MapInv' /\ RegisteredOwnsPort'
  BY <1>1, <1>2 DEF IInv, TypeOK, HoldersCall, LockInv, MapInv, RegisteredOwnsPort
<1>6. NewInv'
  <2>1. \A k \in Servers \ {i} : conns'[k] = conns[k]
    BY DEF Accept, Answer, IInv, TypeOK
  <2>2. QED
    BY <1>1, <1>3, <2>1 DEF IInv, TypeOK, NewInv
<1>7. QuietInv'
  BY <1>1, <1>4 DEF IInv, TypeOK, QuietInv
<1>8. QED
  BY <1>5, <1>6, <1>7 DEF IInv

-----------------------------------------------------------------------------
(* The theorems *)

LEMMA Invariance == Spec => []IInv
<1>1. ASSUME IInv, [Next]_vars
      PROVE  IInv'
  <2>1. CASE UNCHANGED vars
    <3>1. UNCHANGED <<mu, pc, target, listeners, servers, started, serve, bound, shut, conns,
                      answered>>
      BY <2>1 DEF vars, mapVars, netVars
    <3>2. QED
      BY <1>1, <3>1 DEF IInv, TypeOK, HoldersCall, LockInv, MapInv, NewInv, QuietInv,
                             RegisteredOwnsPort
  <2>2. QED
    BY <1>1, <2>1, StartIInv, StopIInv, StopNextIInv, StopAllIInv, ShutdownReturnsIInv,
       ServeIInv, RequestIInv DEF Next, CallStep, ServerStep
<1>2. QED
  BY <1>1, InitIInv, PTL DEF Spec

\* The state has its type, and a caller is in Stop or StopAll exactly while it
\* holds the mutex (backend.go:63-64, 77-78).
THEOREM TypeCorrect == Spec => []TypeOK
<1>1. IInv => TypeOK
  BY DEF IInv
<1>2. QED
  BY <1>1, Invariance, PTL

\* However Start, Stop, StopAll and the goroutines of Serve interleave, a
\* registered server has its port's socket or is being shut down by the
\* holder of the mutex (backend.go:31, 51-52, 66-72).
THEOREM RegisteredHoldsSocket == Spec => []RegisteredOwnsPort
<1>1. IInv => RegisteredOwnsPort
  BY DEF IInv
<1>2. QED
  BY <1>1, Invariance, PTL

\* A server that was stopped has answered everything; only a Serve that has
\* not run can keep its socket (backend.go:54-58, 70-72).
THEOREM ForgottenStaysQuiet == Spec => []ForgottenIsQuiet
<1>1. IInv => ForgottenIsQuiet
  BY DEF IInv, TypeOK, QuietInv, ForgottenIsQuiet
<1>2. QED
  BY <1>1, Invariance, PTL

=============================================================================
