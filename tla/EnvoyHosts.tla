----------------------------- MODULE EnvoyHosts -----------------------------
(***************************************************************************)
(* The Envoy under test as the scenarios take it to be: a table of the     *)
(* hosts of one cluster, changed by what the xDS server pushes, by health  *)
(* checks and by time.  Envoy is not part of this repository; its kind is  *)
(* what the harness is run to find out: an Envoy with the removal timeout, *)
(* one without it, or one with a defect a scenario is meant to expose.     *)
(*                                                                         *)
(* The clock advances by TickMs, the interval of the health checks         *)
(* (xds.go:218): every tick checks every host once.                        *)
(***************************************************************************)
EXTENDS Integers, FiniteSets

CONSTANTS
  Kinds,       \* the kinds of Envoy the harness may be run with
  NumHosts,    \* bound: hosts of the widest scenario (the code has 8)
  MaxLag       \* bound: ms from a push to the moment Envoy has applied it

TickMs == 250

AllKinds == {
  "fixed",          \* removes a pending host after the configured timeout
  "unpatched",      \* never: a host stays until its health check fails
  "hasty",          \* removes every host at once
  "forgetful",      \* keeps the timer of a host that was added again
  "blind",          \* does not remove a pending host that fails its check
  "contagious",     \* removes all hosts when one is removed
  "constant",       \* takes the timeout to be 5000 ms whatever is configured
  "leaky",          \* has a timer for two hosts only
  "amnesiac",       \* loses its timers when the xDS stream breaks
  "unconditional"}  \* keeps a host pending without health checks too

\* Every scenario but E has two hosts, or one.
ASSUME EnvoyAssumption ==
  Kinds \subseteq AllKinds /\ NumHosts \in Nat \ {0, 1} /\ MaxLag \in Nat

Hosts == 1..NumHosts

VARIABLES
  kind,       \* what Envoy is
  pushed,     \* what the xDS server serves: timeoutMs, healthChecks, endpoints
  applied,    \* what Envoy has applied of it
  lag,        \* ms since the first push not yet applied
  state,      \* state[h]: "absent", "new", "healthy", "failing", "pending",
              \*   "readded" (pending, added again, timer running) or
              \*   "frozen" (pending, its timer lost)
  age,        \* age[h]: ms on the timer of a pending host
  backends    \* the hosts with a running backend

envoyVars == <<applied, lag, state, age>>

NoCluster == [timeoutMs |-> 0, healthChecks |-> FALSE, endpoints |-> {}]

EmptyTable ==
  /\ applied' = NoCluster
  /\ lag' = 0
  /\ state' = [h \in Hosts |-> "absent"]
  /\ age' = [h \in Hosts |-> 0]

EnvoyInit ==
  /\ kind \in Kinds
  /\ pushed = NoCluster
  /\ applied = NoCluster
  /\ lag = 0
  /\ state = [h \in Hosts |-> "absent"]
  /\ age = [h \in Hosts |-> 0]
  /\ backends = {}

Listed == {h \in Hosts : state[h] # "absent"}

\* The table as /clusters shows it.
HealthFlags ==
  [h \in Listed |->
     CASE state[h] \in {"healthy", "readded"} -> {}
       [] state[h] = "new"                    -> {"failed_active_hc", "pending_active_hc"}
       [] state[h] = "failing"                -> {"failed_active_hc"}
       [] state[h] \in {"pending", "frozen"}  -> {"pending_dynamic_removal"}]

-----------------------------------------------------------------------------
(* A push is applied *)

\* A host that the endpoints no longer name.
Removed(s) ==
  CASE s = "healthy" -> IF kind = "hasty" \/ ~(applied.healthChecks \/ kind = "unconditional")
                        THEN "absent" ELSE "pending"
    [] s = "readded" -> "pending"
    [] s \in {"new", "failing"} -> "absent"
    [] OTHER -> s

\* A host that they name.
Named(s) ==
  CASE s = "absent"  -> IF pushed.healthChecks THEN "new" ELSE "healthy"
    [] s = "pending" -> IF kind = "forgetful" THEN "readded" ELSE "healthy"
    [] s = "frozen"  -> "healthy"
    [] OTHER -> s

Leaving ==
  LET gone == {h \in Listed : h \notin pushed.endpoints}
  IN IF kind = "contagious" /\ gone # {} THEN Hosts ELSE Hosts \ pushed.endpoints

\* A new cluster configuration replaces the cluster and its hosts.
Reconfigured ==
  pushed.timeoutMs # applied.timeoutMs \/ pushed.healthChecks # applied.healthChecks

Apply ==
  /\ pushed # applied
  /\ applied' = pushed
  /\ lag' = 0
  /\ state' = [h \in Hosts |->
                 IF Reconfigured
                 THEN IF h \in pushed.endpoints THEN Named("absent") ELSE "absent"
                 ELSE IF h \in Leaving THEN Removed(state[h]) ELSE Named(state[h])]
  /\ age' = [h \in Hosts |->
               IF {state[h], state'[h]} \subseteq {"pending", "readded"} THEN age[h] ELSE 0]
  /\ UNCHANGED <<kind, pushed, backends>>

-----------------------------------------------------------------------------
(* Time and health checks *)

Timeout == IF kind = "constant" THEN 5000 ELSE applied.timeoutMs

HasTimer(h) ==
  /\ state[h] \in {"pending", "readded"}
  /\ Timeout > 0 /\ kind # "unpatched"
  /\ kind = "leaky" => h <= 2

TimerFires(h) == HasTimer(h) /\ age[h] + TickMs >= Timeout

Checked(h) ==
  CASE state[h] \in {"new", "healthy", "failing"} /\ applied.healthChecks ->
         IF h \in backends THEN "healthy" ELSE IF state[h] = "new" THEN "new" ELSE "failing"
    [] state[h] \in {"pending", "frozen"} /\ applied.healthChecks /\ kind # "blind" ->
         IF h \in backends THEN state[h] ELSE "absent"
    [] OTHER -> state[h]

\* TickMs pass; what was pushed has been applied within MaxLag.
EnvoyTick ==
  /\ pushed # applied => lag + TickMs <= MaxLag
  /\ lag' = IF pushed # applied THEN lag + TickMs ELSE 0
  /\ state' = [h \in Hosts |-> IF TimerFires(h) THEN "absent" ELSE Checked(h)]
  /\ age' = [h \in Hosts |->
               IF HasTimer(h) /\ state'[h] = state[h] THEN age[h] + TickMs ELSE 0]
  /\ UNCHANGED <<kind, pushed, applied, backends>>

\* The xDS stream breaks and Envoy connects again.
Reconnect ==
  /\ state' = [h \in Hosts |->
                 IF kind = "amnesiac" /\ state[h] = "pending" THEN "frozen" ELSE state[h]]
  /\ age' = [h \in Hosts |-> IF state'[h] = "frozen" THEN 0 ELSE age[h]]
  /\ UNCHANGED <<kind, pushed, applied, lag, backends>>

=============================================================================
