---------------------------- MODULE BackendPool ----------------------------
(***************************************************************************)
(* The pool of HTTP backends of backend.go.  One mutex guards two maps from *)
(* ports to listeners and servers.  Start binds the port inside the        *)
(* critical section but leaves Serve to a goroutine; Stop and StopAll call *)
(* Server.Shutdown and wait for its connections with the mutex held.       *)
(*                                                                         *)
(* net/http is modelled from its use here: Shutdown closes the listener    *)
(* only if Serve has registered it, and a Serve that begins after Shutdown *)
(* closes the listener itself and returns.                                 *)
(*                                                                         *)
(* A definition named Op_Fault is a faulty form of Op; no specification    *)
(* uses it.                                                                *)
(***************************************************************************)
EXTENDS Integers, FiniteSets

CONSTANTS
  Callers,     \* the goroutines that call the pool
  Ports,
  MaxStarts,   \* bound: the servers ever started
  MaxConns     \* bound: the requests one server handles at a time

ASSUME BoundsAssumption == MaxStarts \in Nat /\ MaxConns \in Nat

Servers == 1..MaxStarts
Paths   == {"/healthz", "/"}
Answers == [path : Paths, status : {200, 404}]
Free    == "free"                 \* the mutex when nobody holds it

ASSUME FreeAssumption == Free \notin Callers

VARIABLES
  mu,          \* bp.mu: the caller that holds it, or Free
  pc,          \* pc[c]: "idle", "shutting" (in Stop) or "stopping" (in StopAll)
  target,      \* target[c]: the server c waits for in Shutdown, 0 if none
  listeners,   \* bp.listeners: the server the port's listener belongs to, 0 if none
  servers,     \* bp.servers: likewise
  started,     \* the servers created so far
  serve,       \* serve[i]: server i's goroutine: "none", "spawned", "serving", "ended"
  bound,       \* bound[i]: the port whose socket server i's listener occupies, or none
  shut,        \* shut[i]: Shutdown has been called
  conns,       \* conns[i]: requests being handled
  answered     \* the last answer given by a handler: path and status, or none

mapVars  == <<listeners, servers>>
netVars  == <<serve, bound, shut, conns>>
vars == <<mu, pc, target, mapVars, started, netVars, answered>>

Init ==
  /\ mu = Free
  /\ pc = [c \in Callers |-> "idle"]
  /\ target = [c \in Callers |-> 0]
  /\ listeners = [p \in Ports |-> 0]
  /\ servers = [p \in Ports |-> 0]
  /\ started = 0
  /\ serve = [i \in Servers |-> "none"]
  /\ bound = [i \in Servers |-> {}]
  /\ shut = [i \in Servers |-> FALSE]
  /\ conns = [i \in Servers |-> 0]
  /\ answered = {}

\* net.Listen fails while any socket is bound to the port.
PortFree(p) == \A i \in Servers : p \notin bound[i]

-----------------------------------------------------------------------------
(* The methods.  A call that returns an error changes nothing.             *)

\* Start: the whole critical section, and the go statement.
Start(p) ==
  /\ mu = Free
  /\ listeners[p] = 0
  /\ PortFree(p)
  /\ started < MaxStarts
  /\ LET i == started + 1 IN
       /\ started' = i
       /\ bound' = [bound EXCEPT ![i] = {p}]
       /\ serve' = [serve EXCEPT ![i] = "spawned"]
       /\ listeners' = [listeners EXCEPT ![p] = i]
       /\ servers' = [servers EXCEPT ![p] = i]
  /\ UNCHANGED <<mu, pc, target, shut, conns, answered>>

\* Shutdown's first half, by caller c on server i.
BeginShutdown(c, i) ==
  /\ target' = [target EXCEPT ![c] = i]
  /\ shut' = [shut EXCEPT ![i] = TRUE]
  /\ bound' = [bound EXCEPT ![i] = IF serve[i] = "serving" THEN {} ELSE @]
  /\ UNCHANGED <<listeners, servers, started, serve, conns, answered>>

\* Fault: the mutex is not kept for the call of Shutdown.
Stop_Unlocked(c, p) ==
  /\ mu = Free
  /\ pc[c] = "idle"
  /\ servers[p] # 0
  /\ pc' = [pc EXCEPT ![c] = "shutting"]
  /\ BeginShutdown(c, servers[p])
  /\ UNCHANGED mu

\* Stop takes the mutex and keeps it while Shutdown waits.
Stop(c, p) ==
  /\ mu = Free
  /\ pc[c] = "idle"
  /\ servers[p] # 0
  /\ mu' = c
  /\ pc' = [pc EXCEPT ![c] = "shutting"]
  /\ BeginShutdown(c, servers[p])

\* StopAll does the same for one port after the other, in map order.
StopAll(c) ==
  /\ mu = Free
  /\ pc[c] = "idle"
  /\ mu' = c
  /\ pc' = [pc EXCEPT ![c] = "stopping"]
  /\ UNCHANGED <<target, mapVars, started, netVars, answered>>

StopNext(c) ==
  /\ pc[c] = "stopping"
  /\ target[c] = 0
  /\ \E p \in Ports :
       /\ servers[p] # 0
       /\ BeginShutdown(c, servers[p])
  /\ UNCHANGED <<mu, pc>>

\* The two deletes.
Forget(i) ==
  /\ listeners' = [p \in Ports |-> IF servers[p] = i THEN 0 ELSE listeners[p]]
  /\ servers' = [p \in Ports |-> IF servers[p] = i THEN 0 ELSE servers[p]]

\* Fault: the server is dropped, its listener stays in the map.
ShutdownReturns_KeepListener(c) ==
  /\ target[c] # 0
  /\ conns[target[c]] = 0
  /\ servers' = [p \in Ports |-> IF servers[p] = target[c] THEN 0 ELSE servers[p]]
  /\ target' = [target EXCEPT ![c] = 0]
  /\ IF pc[c] = "shutting"
     THEN mu' = Free /\ pc' = [pc EXCEPT ![c] = "idle"]
     ELSE UNCHANGED <<mu, pc>>
  /\ UNCHANGED <<listeners, started, netVars, answered>>

\* Fault: Shutdown is given a context that is already over, so it does not
\* wait for the requests being handled.
ShutdownReturns_NoWait(c) ==
  /\ target[c] # 0
  /\ Forget(target[c])
  /\ target' = [target EXCEPT ![c] = 0]
  /\ IF pc[c] = "shutting"
     THEN mu' = Free /\ pc' = [pc EXCEPT ![c] = "idle"]
     ELSE UNCHANGED <<mu, pc>>
  /\ UNCHANGED <<started, netVars, answered>>

\* Fault: the mutex is not released (a missing defer).
ShutdownReturns_KeepLock(c) ==
  /\ target[c] # 0
  /\ conns[target[c]] = 0
  /\ Forget(target[c])
  /\ target' = [target EXCEPT ![c] = 0]
  /\ pc' = [pc EXCEPT ![c] = IF @ = "shutting" THEN "idle" ELSE @]
  /\ UNCHANGED <<mu, started, netVars, answered>>

\* Shutdown returns once no request is being handled; Stop then returns and
\* StopAll goes on.
ShutdownReturns(c) ==
  /\ target[c] # 0
  /\ conns[target[c]] = 0
  /\ Forget(target[c])
  /\ target' = [target EXCEPT ![c] = 0]
  /\ IF pc[c] = "shutting"
     THEN mu' = Free /\ pc' = [pc EXCEPT ![c] = "idle"]
     ELSE UNCHANGED <<mu, pc>>
  /\ UNCHANGED <<started, netVars, answered>>

StopAllReturns(c) ==
  /\ pc[c] = "stopping"
  /\ target[c] = 0
  /\ \A p \in Ports : servers[p] = 0
  /\ mu' = Free
  /\ pc' = [pc EXCEPT ![c] = "idle"]
  /\ UNCHANGED <<target, mapVars, started, netVars, answered>>

-----------------------------------------------------------------------------
(* The servers                                                             *)

\* Fault: a Serve that comes after Shutdown leaves the listener open.
Serve_KeepSocket(i) ==
  /\ serve[i] = "spawned"
  /\ serve' = [serve EXCEPT ![i] = IF shut[i] THEN "ended" ELSE "serving"]
  /\ UNCHANGED <<mu, pc, target, mapVars, started, bound, shut, conns, answered>>

\* The goroutine of Start gets to run srv.Serve(lis).
Serve(i) ==
  /\ serve[i] = "spawned"
  /\ serve' = [serve EXCEPT ![i] = IF shut[i] THEN "ended" ELSE "serving"]
  /\ bound' = [bound EXCEPT ![i] = IF shut[i] THEN {} ELSE @]
  /\ UNCHANGED <<mu, pc, target, mapVars, started, shut, conns, answered>>

\* Serve returns ErrServerClosed.
ServeEnds(i) ==
  /\ serve[i] = "serving"
  /\ shut[i]
  /\ serve' = [serve EXCEPT ![i] = "ended"]
  /\ UNCHANGED <<mu, pc, target, mapVars, started, bound, shut, conns, answered>>

\* A health check or a request reaches the server.
Accept(i) ==
  /\ serve[i] = "serving"
  /\ ~shut[i]
  /\ conns[i] < MaxConns
  /\ conns' = [conns EXCEPT ![i] = @ + 1]
  /\ UNCHANGED <<mu, pc, target, mapVars, started, serve, bound, shut, answered>>

\* Both handlers, for /healthz and for everything else, write StatusOK.
StatusOf(path) == 200

Answer(i, path) ==
  /\ conns[i] > 0
  /\ conns' = [conns EXCEPT ![i] = @ - 1]
  /\ answered' = {[path |-> path, status |-> StatusOf(path)]}
  /\ UNCHANGED <<mu, pc, target, mapVars, started, serve, bound, shut>>

CallStep(c) == StopNext(c) \/ ShutdownReturns(c) \/ StopAllReturns(c)

ServerStep(i) ==
  \/ Serve(i)
  \/ ServeEnds(i)
  \/ \E path \in Paths : Answer(i, path)

Next ==
  \/ \E p \in Ports : Start(p)
  \/ \E c \in Callers :
       \/ \E p \in Ports : Stop(c, p)
       \/ StopAll(c)
       \/ CallStep(c)
  \/ \E i \in Servers : ServerStep(i) \/ Accept(i)

Spec == Init /\ [][Next]_vars

\* Goroutines are scheduled and every handler finishes; nobody has to call
\* the pool or to send a request.
Fairness ==
  /\ \A c \in Callers : WF_vars(CallStep(c))
  /\ \A i \in Servers : WF_vars(ServerStep(i))

FairSpec == Spec /\ Fairness

-----------------------------------------------------------------------------
(* Properties *)

HoldersCall ==
  \A c \in Callers :
    /\ pc[c] # "idle" <=> mu = c
    /\ target[c] # 0 => mu = c

\* The shape of the state.  A caller is in Stop or StopAll exactly while it
\* holds the mutex, and waits for a server only then (backend.go:63-64, 77-78).
TypeOK ==
  /\ mu \in Callers \cup {Free}
  /\ pc \in [Callers -> {"idle", "shutting", "stopping"}]
  /\ target \in [Callers -> Servers \cup {0}]
  /\ listeners \in [Ports -> Servers \cup {0}]
  /\ servers \in [Ports -> Servers \cup {0}]
  /\ started \in 0..MaxStarts
  /\ serve \in [Servers -> {"none", "spawned", "serving", "ended"}]
  /\ bound \in [Servers -> SUBSET Ports]
  /\ shut \in [Servers -> BOOLEAN]
  /\ conns \in [Servers -> 0..MaxConns]
  /\ answered \subseteq Answers
  /\ HoldersCall

\* A registered backend is the one behind its port: the two maps agree, the
\* registered server owns the port's socket, and it is being shut down only
\* by the holder of the mutex (backend.go:31, 51-52, 66-72).
RegisteredOwnsPort ==
  \A p \in Ports :
    /\ listeners[p] = servers[p]
    /\ servers[p] # 0 =>
         \/ bound[servers[p]] = {p} /\ ~shut[servers[p]]
         \/ shut[servers[p]] /\ mu # Free /\ target[mu] = servers[p]

\* A server that is no longer registered has answered all its requests and
\* takes no new ones; its socket is held, if at all, only because its Serve
\* has not run yet (backend.go:54-58, 70-72).
ForgottenIsQuiet ==
  \A i \in 1..started :
    (\A p \in Ports : servers[p] # i) =>
      /\ conns[i] = 0
      /\ bound[i] # {} => serve[i] = "spawned" /\ shut[i]

\* Stop and StopAll return, so the mutex is always free again, and the port
\* of a stopped backend is released (backend.go:70, 81).
CallsReturn == []<>(mu = Free)
PortsReleased ==
  \A i \in Servers : shut[i] ~> bound[i] = {}

\* "Stop shuts down the backend on the given port" (backend.go:62): once the
\* port has no backend, its socket is free.  Violated by the code.
PortFreeAfterStop == \A p \in Ports : servers[p] = 0 => PortFree(p)

=============================================================================
