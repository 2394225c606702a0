------------------------- MODULE IsolatedScenarios -------------------------
(***************************************************************************)
(* The scenarios of scenarios.go and the bodies of stress.go, run against  *)
(* EnvoyHosts through AdminClient.  A body is its script: the calls it     *)
(* makes, its polls with their deadlines, its sleeps, the samples it takes *)
(* once and the bounds on the time it measures.  Durations are those of    *)
(* the source, in ms; time passes only while a body waits.                 *)
(*                                                                         *)
(* A definition named Op_Fault is a faulty form of Op; no specification    *)
(* uses it.                                                                *)
(***************************************************************************)
EXTENDS EnvoyHosts, AdminClient, Sequences

CONSTANT
  MaxFaults    \* bound: calls that fail, crashes and broken streams together,
               \*   the Starts that fail counted as one

ASSUME FaultsAssumption == MaxFaults \in Nat

VARIABLES
  answering,   \* an Envoy that is ready holds the admin port
  scenario,    \* the scenario being run
  at,          \* its next instruction
  waited,      \* ms spent in that instruction
  since,       \* ms since t0, or -1 where no t0 is compared
  verdict,     \* "none", "running", "passed" or "failed"
  lost,        \* calls of the admin port that failed while Envoy was up
  crashes,     \* crashes of Envoy
  breaks,      \* xDS streams that broke
  unstarted    \* the scenarios in which a backend was not started

bodyVars == <<scenario, at, waited, since, verdict>>
faultVars == <<lost, crashes, breaks, unstarted>>
scenarioVars == <<kind, pushed, envoyVars, backends, answering, bodyVars, faultVars>>

AnotherFault == lost + crashes + breaks + (IF unstarted = {} THEN 0 ELSE 1) < MaxFaults

-----------------------------------------------------------------------------
(* The scripts *)

Do(op, S) == [op |-> op, on |-> S]
SetClusterConfig(ms) == [op |-> "config", timeoutMs |-> ms, healthChecks |-> TRUE]
SetClusterConfigNoHC(ms) == [op |-> "config", timeoutMs |-> ms, healthChecks |-> FALSE]
Sleep(ms) == [op |-> "sleep", within |-> ms]
Mark == [op |-> "mark"]                              \* t0 := time.Now()
Within(lo, hi) == [op |-> "bound", lo |-> lo, hi |-> hi]

\* A poll whose error is returned, and one whose error is ignored.
Await(condition, n, ms) ==
  [op |-> "wait", condition |-> condition, n |-> n, within |-> ms, must |-> TRUE]
Try(condition, n, ms) ==
  [op |-> "wait", condition |-> condition, n |-> n, within |-> ms, must |-> FALSE]

\* One sample and what it must show; the error of a strict one is returned,
\* else what was read before the error is looked at.
StrictSample(expected) == [op |-> "check", strict |-> TRUE, expected |-> expected]
Sample(expected) == [op |-> "check", strict |-> FALSE, expected |-> expected]

Two == {1, 2}
AllOf(condition) == {<<condition, 1>>, <<condition, 2>>}

Pending(h)    == Await("flag", h, 5000)
TryPending(h) == Try("flag", h, 5000)
HealthyIn(ms, h) == Await("healthy", h, ms)
Healthy(h)    == HealthyIn(10000, h)
Present(h)    == Await("present", h, 10000)

\* Start the backends, add the endpoints, wait until Envoy finds them healthy.
Setup == <<Do("start", Two), Do("add", Two), Healthy(1), Healthy(2)>>

Scenario0 == Setup \o
  <<Do("remove", Two), Pending(1), Pending(2), Sleep(10000), StrictSample(AllOf("flag"))>>

ScenarioA == Setup \o
  <<Do("remove", Two), TryPending(1), TryPending(2), Sleep(2000), Do("add", Two),
    Present(1), Present(2), Sleep(5000), Sample(AllOf("present"))>>

ScenarioB == Setup \o
  <<Do("remove", Two), TryPending(1), TryPending(2), Do("stop", {1}),
    Await("gone", 1, 3000), Sample({<<"flag", 2>>})>>

ScenarioC == Setup \o
  <<Do("remove", {1}), TryPending(1), Await("gone", 1, 10000),
    Sample({<<"present", 2>>})>>

ScenarioD ==
  <<Do("start", Two), SetClusterConfig(500), Do("add", Two), Healthy(1), Healthy(2),
    Do("remove", Two), Mark, Await("count", 0, 5000), Within(400, 3000)>>

\* The code has eight hosts; the model has NumHosts.
ScenarioE ==
  <<Do("start", Hosts), Do("add", Hosts)>>
    \o [h \in Hosts |-> HealthyIn(15000, h)]
    \o <<Do("remove", Hosts), Await("count", 0, 10000)>>

\* Fault: the error of the last poll is not returned.
ScenarioF_Unchecked == Setup \o
  <<Do("remove", Two), TryPending(1), TryPending(2), Try("count", 0, 10000)>>

ScenarioF == Setup \o
  <<Do("remove", Two), TryPending(1), TryPending(2), Await("count", 0, 10000)>>

ScenarioG ==
  <<Do("start", Two), SetClusterConfigNoHC(5000), Do("add", Two), Await("count", 2, 10000),
    Do("remove", Two), Mark, Await("count", 0, 5000), Within(0, 2000)>>

ScenarioH == Setup \o
  <<Sample({<<"count", 2>>} \cup AllOf("healthy")),
    Do("remove", Two), Pending(1), Pending(2), Sample(AllOf("flag")),
    Await("count", 0, 10000), Sample({<<"count", 0>>})>>

AllIsolatedScenarios == <<"0", "A", "B", "C", "D", "E", "F", "G", "H">>

-----------------------------------------------------------------------------
(* The bodies of the stress test, on ports 1 and 2 *)

SetupOne == <<Do("start", {1}), Do("add", {1}), Healthy(1)>>

AddRemoveTimeout == SetupOne \o
  <<Do("remove", {1}), Mark, Await("gone", 1, 8000), Within(2000, 10000)>>

HCFailure == SetupOne \o
  <<Do("remove", {1}), TryPending(1), Do("stop", {1}), Await("gone", 1, 5000)>>

HostReAdd == SetupOne \o
  <<Do("remove", {1}), TryPending(1), Sleep(1000), Do("add", {1}), Present(1),
    Sleep(5000), Sample({<<"listed", 1>>})>>

\* Fault: the body does not wait for its last host to go.
PartialRemoval_NoWait == Setup \o
  <<Do("remove", {1}), Await("gone", 1, 8000), Sample({<<"present", 2>>}),
    Do("remove", {2})>>

PartialRemoval == Setup \o
  <<Do("remove", {1}), Await("gone", 1, 8000), Sample({<<"present", 2>>}),
    Do("remove", {2}), Try("gone", 2, 8000)>>

LongLivedHealthy == SetupOne \o
  <<Sleep(10000), Sample({<<"present", 1>>}), Do("remove", {1}), Try("gone", 1, 8000)>>

StressBodies == {"add/remove/timeout", "HC failure", "host re-add",
                 "partial removal", "long-lived healthy"}

Script(s) ==
  CASE s = "0" -> Scenario0 [] s = "A" -> ScenarioA [] s = "B" -> ScenarioB
    [] s = "C" -> ScenarioC [] s = "D" -> ScenarioD [] s = "E" -> ScenarioE
    [] s = "F" -> ScenarioF [] s = "G" -> ScenarioG [] s = "H" -> ScenarioH
    [] s = "add/remove/timeout" -> AddRemoveTimeout
    [] s = "HC failure"         -> HCFailure
    [] s = "host re-add"        -> HostReAdd
    [] s = "partial removal"    -> PartialRemoval
    [] s = "long-lived healthy" -> LongLivedHealthy

-----------------------------------------------------------------------------
(* A step of a body *)

InBody == verdict = "running" /\ at <= Len(Script(scenario))
Instruction == Script(scenario)[at]
Is(ops) == InBody /\ Instruction.op \in ops

\* Begin scenario s.
Begin(s) ==
  /\ scenario' = s
  /\ at' = 1
  /\ waited' = 0
  /\ since' = -1
  /\ verdict' = "running"

Continue ==
  /\ at' = at + 1
  /\ waited' = 0
  /\ UNCHANGED <<scenario, verdict, backends>>

\* The body returns; its deferred calls stop the backends.
Return(v) ==
  /\ verdict' = v
  /\ waited' = 0
  /\ since' = -1
  /\ backends' = {}
  /\ UNCHANGED <<scenario, at>>

ContinueIf(ok) == IF ok THEN Continue /\ since' = since ELSE Return("failed")

\* A call on the backend pool or the controller, or t0 := time.Now().
Call ==
  /\ Is({"start", "stop", "add", "remove", "config", "mark"})
  /\ at' = at + 1
  /\ waited' = 0
  /\ since' = IF Instruction.op = "mark" THEN 0 ELSE since
  /\ backends' = CASE Instruction.op = "start" -> backends \cup Instruction.on
                   [] Instruction.op = "stop"  -> backends \ Instruction.on
                   [] OTHER -> backends
  /\ pushed' = CASE Instruction.op = "add" ->
                      [pushed EXCEPT !.endpoints = @ \cup Instruction.on]
                 [] Instruction.op = "remove" ->
                      [pushed EXCEPT !.endpoints = @ \ Instruction.on]
                 [] Instruction.op = "config" ->
                      [pushed EXCEPT !.timeoutMs = Instruction.timeoutMs,
                                     !.healthChecks = Instruction.healthChecks]
                 [] OTHER -> pushed
  /\ UNCHANGED <<kind, envoyVars, answering, scenario, verdict, faultVars>>

\* Start fails for some of the hosts; its error is not looked at.
StartFails ==
  /\ Is({"start"})
  /\ AnotherFault
  /\ \E missing \in (SUBSET Instruction.on) \ {{}} :
       backends' = backends \cup (Instruction.on \ missing)
  /\ at' = at + 1
  /\ waited' = 0
  /\ unstarted' = unstarted \cup {scenario}
  /\ UNCHANGED <<kind, pushed, envoyVars, answering, scenario, since, verdict, lost, crashes,
                 breaks>>

\* What GetClusterHosts returns when it does not fail.
GetClusterHosts == parseClusterHosts(ClustersText(HealthFlags), clusterName)

Seen == answering /\ Shows(GetClusterHosts, Instruction.condition, Instruction.n)

\* A poll sees what it waits for, before its deadline.
PollSucceeds ==
  /\ Is({"wait"})
  /\ waited < Instruction.within
  /\ Seen
  /\ Continue
  /\ UNCHANGED <<kind, pushed, envoyVars, answering, since, faultVars>>

\* Fault: a poll that ends without success begins again.
TimeIsUp_Retry ==
  /\ Is({"wait", "sleep"})
  /\ waited >= Instruction.within
  /\ IF Instruction.op = "sleep"
     THEN Continue
     ELSE waited' = 0 /\ UNCHANGED <<scenario, at, verdict, backends>>
  /\ UNCHANGED <<kind, pushed, envoyVars, answering, since, faultVars>>

\* A poll or a sleep is over.
TimeIsUp ==
  /\ Is({"wait", "sleep"})
  /\ waited >= Instruction.within
  /\ ContinueIf(Instruction.op = "sleep" \/ ~Instruction.must)
  /\ UNCHANGED <<kind, pushed, envoyVars, answering, faultVars>>

CompareElapsed ==
  /\ Is({"bound"})
  /\ ContinueIf(Instruction.lo <= since /\ since <= Instruction.hi)
  /\ UNCHANGED <<kind, pushed, envoyVars, answering, faultVars>>

Satisfies(hosts) == \A e \in Instruction.expected : Shows(hosts, e[1], e[2])

TakeSample ==
  /\ Is({"check"})
  /\ answering
  /\ ContinueIf(Satisfies(GetClusterHosts))
  /\ UNCHANGED <<kind, pushed, envoyVars, answering, faultVars>>

\* Fault: a sample that fails is not looked at.
SampleFails_Skipped ==
  /\ Is({"check"})
  /\ ~answering \/ AnotherFault
  /\ lost' = IF answering THEN lost + 1 ELSE lost
  /\ ContinueIf(~Instruction.strict)
  /\ UNCHANGED <<kind, pushed, envoyVars, answering, crashes, breaks, unstarted>>

\* GetClusterHosts fails: the error is returned, or what came with it is used:
\* the hosts read so far, none where nothing answers.
SampleFails ==
  /\ Is({"check"})
  /\ ~answering \/ AnotherFault
  /\ lost' = IF answering THEN lost + 1 ELSE lost
  /\ \E hosts \in IF answering THEN PartialHosts(GetClusterHosts) ELSE {{}} :
       ContinueIf(~Instruction.strict /\ Satisfies(hosts))
  /\ UNCHANGED <<kind, pushed, envoyVars, answering, crashes, breaks, unstarted>>

Pass ==
  /\ verdict = "running"
  /\ at = Len(Script(scenario)) + 1
  /\ Return("passed")
  /\ UNCHANGED <<kind, pushed, envoyVars, answering, faultVars>>

\* Fault: time goes on past the deadline while Envoy does not show it.
Tick_NoDeadline ==
  /\ Is({"wait", "sleep"})
  /\ Instruction.op = "sleep" => waited < Instruction.within
  /\ Instruction.op = "wait" => ~Seen
  /\ waited' = waited + TickMs
  /\ since' = IF since >= 0 THEN since + TickMs ELSE since
  /\ IF answering THEN EnvoyTick ELSE UNCHANGED <<kind, pushed, envoyVars, backends>>
  /\ UNCHANGED <<answering, scenario, at, verdict, faultVars>>

\* TickMs pass: the body sleeps, or no poll of that time has succeeded, be it
\* that Envoy does not show what is waited for or that the calls failed.
Tick ==
  /\ Is({"wait", "sleep"})
  /\ waited < Instruction.within
  /\ IF Instruction.op = "wait" /\ Seen
     THEN AnotherFault /\ lost' = lost + 1
     ELSE lost' = lost
  /\ waited' = waited + TickMs
  /\ since' = IF since >= 0 THEN since + TickMs ELSE since
  /\ IF answering THEN EnvoyTick ELSE UNCHANGED <<kind, pushed, envoyVars, backends>>
  /\ UNCHANGED <<answering, scenario, at, verdict, crashes, breaks, unstarted>>

\* Envoy applies a push while it is up.
EnvoyApplies ==
  /\ answering
  /\ Apply
  /\ UNCHANGED <<answering, bodyVars, faultVars>>

BodyStep ==
  \/ Call
  \/ StartFails
  \/ PollSucceeds
  \/ TimeIsUp
  \/ CompareElapsed
  \/ TakeSample
  \/ SampleFails
  \/ Pass

=============================================================================
