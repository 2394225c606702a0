------------------------------ MODULE Harness ------------------------------
(***************************************************************************)
(* main.go: one process of the harness runs every isolated scenario, each  *)
(* with an Envoy started for it as a child, then a stress test if one is   *)
(* asked for, and reports.  The exit paths that log.Fatalf takes are part  *)
(* of it, and so is a later process that finds what an earlier one left.   *)
(*                                                                         *)
(* The stress test runs its bodies one at a time here, on the hosts that   *)
(* earlier bodies have left; the code runs them concurrently.  StressTest  *)
(* models that, and XDSController the endpoint change that one body can    *)
(* lose to another.  What is said of stress bodies below holds where no    *)
(* such loss meets the body and every push is applied within MaxLag.       *)
(*                                                                         *)
(* A definition named Op_Fault is a faulty form of Op; no specification    *)
(* uses it.                                                                *)
(***************************************************************************)
EXTENDS IsolatedScenarios, Functions

CONSTANTS
  Profiles,       \* the values of -stress the harness is run with
  MaxProcesses,   \* bound: processes of the harness, one after the other
  MaxBodies       \* bound: bodies of a stress test

ASSUME HarnessAssumption == {MaxProcesses, MaxBodies} \subseteq Nat

\* What the scenarios take for granted of the delays they do not look at: a
\* push is applied sooner than the 400 ms in which D takes a removal for one
\* without a timeout (scenarios.go:265), and a late push and calls that fail
\* cost together less than the 2 s of the stress test (stress.go:192).  E is
\* there for hosts past the second.
ASSUME BoundsAssumption ==
  NumHosts >= 3 /\ MaxLag < 400 /\ MaxLag + TickMs * MaxFaults < 2000

VARIABLES
  main,        \* "begin", "launch", "ready", "run", "envoy", "server",
               \*   "report", "exited", or "stuck" in a call that is never answered
  index,       \* the isolated scenario; one more for the stress test
  flagStress,  \* the profile
  child,       \* the Envoy of this process: "none", "starting", "ready", "dead"
  orphan,      \* an Envoy left by an earlier process is up
  failed,      \* report: the scenarios that failed
  bodies,      \* bodies the stress test has run
  exit,        \* "none", "ok", "failed" or "fatal"
  processes    \* processes started so far

processVars == <<main, index, flagStress, child, orphan>>
reportVars  == <<failed, bodies, exit, processes>>
vars == <<scenarioVars, processVars, reportVars>>

NumIsolated == Len(AllIsolatedScenarios)
InStress == index > NumIsolated

Init ==
  /\ EnvoyInit
  /\ answering = FALSE
  /\ scenario = "0" /\ at = 1 /\ waited = 0 /\ since = -1
  /\ verdict = "none"
  /\ lost = 0
  /\ main = "begin"
  /\ index = 1
  /\ flagStress \in Profiles
  /\ child = "none"
  /\ orphan = FALSE
  /\ failed = {}
  /\ bodies = 0
  /\ exit = "none"
  /\ processes = 1
  /\ crashes = 0
  /\ breaks = 0
  /\ unstarted = {}

-----------------------------------------------------------------------------
(* main *)

\* log.Fatalf or os.Exit: the process ends and its backends with it; a child
\* that is running goes on.
EndProcess(code) ==
  /\ main' = "exited"
  /\ exit' = code
  /\ backends' = {}
  /\ child' = "none"
  /\ orphan' = (orphan \/ child \in {"starting", "ready"})
  /\ UNCHANGED <<kind, pushed, envoyVars, answering, bodyVars, faultVars, index, flagStress,
                 failed, bodies, processes>>

ConfigFor(i) ==
  CASE i = 1           -> 0
    [] i = NumIsolated + 1 -> 3000
    [] OTHER           -> 5000

KnownProfile == flagStress \in {"medium", "large"}

\* xds.Start and SetClusterConfig.
StartServer ==
  /\ main = "begin"
  /\ InStress => KnownProfile
  /\ pushed' = [pushed EXCEPT !.timeoutMs = ConfigFor(index), !.healthChecks = TRUE]
  /\ main' = "launch"
  /\ UNCHANGED <<kind, envoyVars, backends, answering, bodyVars, faultVars, index, flagStress,
                 child, orphan, reportVars>>

\* The port of the server is taken, or Envoy cannot be started.
SetupFails ==
  /\ main \in {"begin", "launch"}
  /\ InStress => KnownProfile
  /\ EndProcess("fatal")

\* The profile is looked at when the isolated scenarios have run.
UnknownProfile == main = "begin" /\ InStress /\ ~KnownProfile /\ EndProcess("fatal")

\* startEnvoy: the process is started, which is all it looks at.
StartEnvoy ==
  /\ main = "launch"
  /\ child' = "starting"
  /\ main' = "ready"
  /\ UNCHANGED <<scenarioVars, index, flagStress, orphan, reportVars>>

\* WaitForReady; the first body begins.
EnvoyIsReady ==
  /\ main = "ready"
  /\ answering
  /\ main' = "run"
  /\ \E s \in IF InStress THEN StressBodies ELSE {AllIsolatedScenarios[index]} : Begin(s)
  /\ UNCHANGED <<kind, pushed, envoyVars, backends, answering, faultVars, index, flagStress,
                 child, orphan, reportVars>>

\* Fault: Envoy is left running wherever it is not ready in time.
EnvoyIsNotReady_NoStop ==
  /\ main = "ready"
  /\ ~answering
  /\ EndProcess("fatal")

\* 15 s are over.  For a scenario Envoy is stopped first, for the stress test
\* it is left.
EnvoyIsNotReady ==
  /\ main = "ready"
  /\ ~answering
  /\ IF InStress
     THEN EndProcess("fatal")
     ELSE /\ main' = "exited" /\ exit' = "fatal" /\ child' = "none" /\ backends' = {}
          /\ UNCHANGED <<kind, pushed, envoyVars, answering, bodyVars, faultVars, index,
                         flagStress, orphan, failed, bodies, processes>>

\* Fault: only the last verdict is kept.
Reported_Last == failed' = IF verdict = "failed" THEN {scenario} ELSE {}

\* AddIsolated or record, with the verdict.
Reported == failed' = IF verdict = "failed" THEN failed \cup {scenario} ELSE failed

Judged == main = "run" /\ verdict \in {"passed", "failed"}

\* The stress test launches another body; its duration is not over.  The body
\* before it has been judged: their concurrency is left out here.
NextBody ==
  /\ Judged
  /\ InStress /\ bodies + 1 < MaxBodies
  /\ Reported
  /\ bodies' = bodies + 1
  /\ \E s \in StressBodies : Begin(s)
  /\ UNCHANGED <<kind, pushed, envoyVars, backends, answering, faultVars, processVars, exit,
                 processes>>

\* Fault: the endpoints are left to the next scenario.
Finish_KeepEndpoints ==
  /\ Judged
  /\ Reported
  /\ bodies' = IF InStress THEN bodies + 1 ELSE bodies
  /\ verdict' = "none"
  /\ main' = "envoy"
  /\ UNCHANGED <<kind, pushed, envoyVars, backends, answering, scenario, at, waited, since,
                 faultVars, index, flagStress, child, orphan, exit, processes>>

\* The scenario or the stress test is over: RemoveAllEndpoints.
Finish ==
  /\ Judged
  /\ Reported
  /\ bodies' = IF InStress THEN bodies + 1 ELSE bodies
  /\ pushed' = [pushed EXCEPT !.endpoints = {}]
  /\ verdict' = "none"
  /\ main' = "envoy"
  /\ UNCHANGED <<kind, envoyVars, backends, answering, scenario, at, waited, since, faultVars,
                 index, flagStress, child, orphan, exit, processes>>

\* envoy.Stop: SIGTERM, after 5 s SIGKILL, and Wait.
StopEnvoy ==
  /\ main = "envoy"
  /\ child' = "none"
  /\ main' = "server"
  /\ answering' = (answering /\ orphan)
  /\ IF orphan THEN UNCHANGED envoyVars ELSE EmptyTable
  /\ UNCHANGED <<kind, pushed, backends, bodyVars, faultVars, index, flagStress, orphan,
                 reportVars>>

\* xds.Stop: GracefulStop waits for the streams of an Envoy that is up.
StopServer ==
  /\ main = "server"
  /\ ~answering
  /\ main' = IF index < NumIsolated \/ (index = NumIsolated /\ flagStress # "none")
             THEN "begin" ELSE "report"
  /\ index' = IF main' = "begin" THEN index + 1 ELSE index
  /\ UNCHANGED <<scenarioVars, flagStress, child, orphan, reportVars>>

AllPassed == failed = {}

Exit == main = "report" /\ EndProcess(IF AllPassed THEN "ok" ELSE "failed")

-----------------------------------------------------------------------------
(* Envoy *)

\* The admin port is bound and /ready answers 200.
EnvoyBecomesReady ==
  /\ child = "starting" /\ ~orphan
  /\ child' = "ready"
  /\ answering' = TRUE
  /\ EmptyTable
  /\ UNCHANGED <<kind, pushed, backends, bodyVars, faultVars, main, index, flagStress, orphan,
                 reportVars>>

\* An Envoy that outlives its harness comes up and takes the port.
OrphanBecomesReady ==
  /\ orphan /\ ~answering
  /\ answering' = TRUE
  /\ EmptyTable
  /\ UNCHANGED <<kind, pushed, backends, bodyVars, faultVars, processVars, reportVars>>

EnvoyCrashes ==
  /\ child = "ready" /\ main # "stuck"
  /\ AnotherFault
  /\ crashes' = crashes + 1
  /\ child' = "dead"
  /\ answering' = FALSE
  /\ EmptyTable
  /\ UNCHANGED <<kind, pushed, backends, bodyVars, lost, breaks, unstarted, main, index,
                 flagStress, orphan, reportVars>>

StreamBreaks ==
  /\ answering /\ main # "stuck"
  /\ AnotherFault
  /\ breaks' = breaks + 1
  /\ Reconnect
  /\ UNCHANGED <<answering, bodyVars, lost, crashes, unstarted, processVars, reportVars>>

\* Envoy takes a call and never answers it, and does nothing else any more.
\* http.Get has no timeout: main waits in it for good.  (An Envoy that ends
\* while a call waits makes it fail, which is a call that is lost.)
CallHangs ==
  /\ \/ main = "ready" /\ (orphan \/ child \in {"starting", "ready"})
     \/ main = "run" /\ Is({"wait", "check"}) /\ answering
  /\ main' = "stuck"
  /\ UNCHANGED <<scenarioVars, index, flagStress, child, orphan, reportVars>>

-----------------------------------------------------------------------------

MainStep ==
  \/ StartServer
  \/ UnknownProfile
  \/ StartEnvoy
  \/ EnvoyIsReady
  \/ EnvoyIsNotReady
  \/ NextBody
  \/ Finish
  \/ StopEnvoy
  \/ StopServer
  \/ Exit
  \/ main = "run" /\ BodyStep /\ UNCHANGED <<processVars, reportVars>>

EnvoyStep ==
  \/ EnvoyBecomesReady
  \/ OrphanBecomesReady
  \/ /\ main \notin {"begin", "exited", "stuck"}
     /\ EnvoyApplies
     /\ UNCHANGED <<processVars, reportVars>>

Passage == main = "run" /\ Tick /\ UNCHANGED <<processVars, reportVars>>

Exited == main \in {"exited", "stuck"} /\ UNCHANGED vars

Next ==
  \/ MainStep
  \/ SetupFails
  \/ EnvoyStep
  \/ EnvoyCrashes
  \/ StreamBreaks
  \/ CallHangs
  \/ Passage
  \/ Exited

Spec == Init /\ [][Next]_vars

\* The process runs, time passes, Envoy comes up and applies what it is sent.
Fairness ==
  /\ WF_vars(MainStep)
  /\ WF_vars(EnvoyStep)
  /\ WF_vars(Passage)

FairSpec == Spec /\ Fairness

-----------------------------------------------------------------------------
(* The same harness, run again where an earlier process has ended *)

\* The harness is run again.
RunAgain ==
  /\ main = "exited"
  /\ processes < MaxProcesses
  /\ processes' = processes + 1
  /\ main' = "begin"
  /\ index' = 1
  /\ pushed' = NoCluster
  /\ failed' = {}
  /\ bodies' = 0
  /\ exit' = "none"
  /\ verdict' = "none"
  /\ unstarted' = {}
  /\ UNCHANGED <<kind, envoyVars, backends, answering, scenario, at, waited, since, lost, crashes,
                 breaks, flagStress, child, orphan>>

\* Another Envoy has the port and the base id: this one exits.
EnvoyFindsPortTaken ==
  /\ child = "starting" /\ orphan
  /\ child' = "dead"
  /\ UNCHANGED <<scenarioVars, main, index, flagStress, orphan, reportVars>>

RerunSpec == Init /\ [][Next \/ RunAgain \/ EnvoyFindsPortTaken]_vars

-----------------------------------------------------------------------------
(* Properties *)

LongestTimeout == 5000     \* of ConfigFor
LongestWait    == 15000    \* of a poll

\* The shape of the state.
TypeOK ==
  /\ kind \in Kinds
  /\ {pushed, applied} \subseteq
       [timeoutMs : {0, 500, 3000, 5000}, healthChecks : BOOLEAN, endpoints : SUBSET Hosts]
  /\ lag \in 0..MaxLag
  /\ state \in [Hosts -> {"absent", "new", "healthy", "failing", "pending", "readded", "frozen"}]
  /\ age \in [Hosts -> 0..LongestTimeout]
  /\ backends \subseteq Hosts
  /\ answering \in BOOLEAN /\ orphan \in BOOLEAN
  /\ at \in 1..Len(Script(scenario)) + 1
  /\ waited \in 0..LongestWait /\ since \in -1..LongestWait
  /\ verdict \in {"none", "running", "passed", "failed"}
  /\ failed \subseteq Range(AllIsolatedScenarios) \cup StressBodies
  /\ child \in {"none", "starting", "ready", "dead"}
  /\ exit \in {"none", "ok", "failed", "fatal"}

\* The kinds of Envoy that a scenario or a body is there to expose.
Defects(s) ==
  CASE s = "0" -> {"hasty", "constant"}
    [] s = "A" -> {"forgetful"}
    [] s = "B" -> {"hasty", "blind"}
    [] s = "C" -> {"unpatched", "contagious"}
    [] s = "D" -> {"unpatched", "constant"} \cup (IF lost = 0 THEN {"hasty"} ELSE {})
    [] s = "E" -> {"unpatched", "leaky"}
    [] s = "F" -> {"unpatched"}
    [] s = "G" -> {"unconditional"}
    [] s = "H" -> {"unpatched", "hasty"}
    [] s = "add/remove/timeout" -> {"unpatched", "hasty"}
    [] s = "HC failure"         -> {}
    [] s = "host re-add"        -> {"forgetful"}
    [] s = "partial removal"    -> {"unpatched", "contagious"}
    [] s = "long-lived healthy" -> {}

\* The kinds that it never passes.  A stress body whose backend was not started
\* shows nothing: it may take a host that an earlier body left healthy for its
\* own.
Exposes(s) == IF s \in StressBodies \cap unstarted THEN {} ELSE Defects(s)

\* A pass is evidence: no scenario passes with an Envoy of a kind it is there
\* to expose, whatever is late, is lost or crashes (scenarios.go:28-451).  Of
\* stress bodies it is said for one at a time and pushes that are applied
\* within MaxLag (stress.go:173-337).
PassesAreEarned == verdict = "passed" => kind \notin Exposes(scenario)

\* Timers lost in a reconnect show in every scenario that waits for the hosts
\* to go, if a stream does break in it; F breaks none (scenarios.go:331-339).
LostTimersShow ==
  verdict = "passed" /\ scenario \in {"D", "E", "F", "H"} =>
    \A h \in Hosts : state[h] # "frozen"

\* The harness exits with 0 only for an Envoy with the feature; the defect it
\* cannot see is the loss of timers in a reconnect (main.go:221-223).
ExitOkMeansFixed == exit = "ok" => kind \in {"fixed", "amnesiac"}

\* An Envoy with the feature fails an isolated scenario only when it crashes, a
\* call to its admin port fails, or a backend of that scenario was not started,
\* which the scenario does not look at (scenarios.go:35); a single failed call
\* hurts only scenarios that look at one sample, never those that only poll
\* (scenarios.go:64, 120, 172, 220, 408-445; admin.go:154-236).  The bodies of
\* the stress test are left out: they run concurrently in the code, where an
\* endpoint change of one can be lost to another (xds.go:178-190).
FailuresExplained ==
  kind = "fixed" =>
    /\ lost + crashes = 0 => failed \cap Range(AllIsolatedScenarios) \subseteq unstarted
    /\ lost <= 1 /\ crashes = 0 => failed \cap {"D", "E", "F", "G"} \subseteq unstarted

\* An isolated scenario begins with nothing of the one before it: no backend
\* on its ports, no endpoint in the controller, no host in Envoy
\* (main.go:161-165, scenarios.go:37-41).
StartsClean ==
  main = "run" /\ ~InStress /\ at = 1 =>
    backends = {} /\ pushed.endpoints = {} /\ Listed = {}

\* Hosts of a stress body are settled when it begins: with an Envoy that
\* keeps its timeout none is pending from an earlier body on its ports, whose
\* last wait is not looked at (stress.go:300-301, 331-332).  It is said for
\* bodies that run one at a time and pushes that are applied within MaxLag: a
\* removal that another body's push undoes for longer is not covered.
BodiesStartSettled ==
  main = "run" /\ InStress /\ at = 1 /\ verdict = "running" /\ kind = "fixed" =>
    \A h \in Hosts : state[h] # "pending"

\* The isolated scenarios and the stress test leave an Envoy behind only where
\* main gives up on the Envoy of the stress test (main.go:194-196).  The fatal
\* exits of the benchmark are Bench's.
OrphanFromStressOnly == orphan => InStress /\ exit = "fatal"

\* Every wait has a deadline and every server stops, so main ends, unless it
\* waits for good in a call that Envoy never answers: the deadline of a poll is
\* looked at between calls only, and http.Get has none (admin.go:33, 137-236,
\* main.go:62-74).
Terminates == <>(main \in {"exited", "stuck"})

\* "Each scenario gets a fresh Envoy instance" (README.md:42): the Envoy that
\* answers while a scenario runs is the one started for it.  Violated when an
\* earlier process has left one.
FreshEnvoy == main = "run" /\ answering => child = "ready"

=============================================================================
