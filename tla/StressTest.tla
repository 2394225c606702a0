----------------------------- MODULE StressTest -----------------------------
(***************************************************************************)
(* The concurrent randomized runner of stress.go.  One goroutine, the      *)
(* loop of Run, draws a scenario, takes the ports it needs from a buffered *)
(* channel and launches a goroutine, a job, which executes the scenario's  *)
(* body, records the verdict and gives the ports back.  When the duration  *)
(* is over the loop stops launching, waits for the jobs and reports.       *)
(*                                                                         *)
(* A body is its Script: the calls it makes on the backend pool and on the *)
(* xDS controller, and the points where it may return an error.  Polls of  *)
(* Envoy whose result a body ignores change nothing and are left out.      *)
(* AddEndpoints and RemoveEndpoints are atomic here: XDSController models  *)
(* their steps.                                                            *)
(*                                                                         *)
(* A definition named Op_Fault is a faulty form of Op; no specification    *)
(* uses it.                                                                *)
(***************************************************************************)
EXTENDS Integers, Sequences, FiniteSets, Functions

CONSTANTS
  Ports,     \* the ports given to NewStressTest
  Jobs,      \* bound: the goroutines that Run may launch
  Mix        \* the scenarios that pickScenario may draw (all weights are > 0)

AllScenarios == {"add/remove/timeout", "HC failure", "host re-add",
                 "partial removal", "long-lived healthy"}

NumEndpoints == [s \in AllScenarios |-> IF s = "partial removal" THEN 2 ELSE 1]

ASSUME PortsAssumption == IsFiniteSet(Ports) /\ Cardinality(Ports) \in Nat
ASSUME JobsAssumption  == IsFiniteSet(Jobs)
ASSUME MixAssumption   ==
  /\ Mix \subseteq AllScenarios
  /\ \A s \in Mix : NumEndpoints[s] <= Cardinality(Ports)

-----------------------------------------------------------------------------
(* The bodies.  The second field names ports by their index in env.Ports.  *)

Instructions ==
  [op : {"start", "add", "await", "remove", "stop"}, on : SUBSET {1, 2}]

Start(i)  == [op |-> "start",  on |-> {i}]
Add(I)    == [op |-> "add",    on |-> I]
Remove(i) == [op |-> "remove", on |-> {i}]
Stop(i)   == [op |-> "stop",   on |-> {i}]
Await     == [op |-> "await",  on |-> {}]    \* an error ends the body here

\* Fault: a body that leaves its last endpoint to Envoy.
Script_NoCleanUp == [s \in AllScenarios |->
  CASE s = "add/remove/timeout" -> <<Start(1), Add({1}), Await, Remove(1), Await>>
    [] s = "HC failure" -> <<Start(1), Add({1}), Await, Remove(1), Stop(1), Await>>
    [] s = "host re-add" ->
         <<Start(1), Add({1}), Await, Remove(1), Add({1}), Await>>
    [] s = "partial removal" ->
         <<Start(1), Start(2), Add({1, 2}), Await, Remove(1), Await>>
    [] s = "long-lived healthy" -> <<Start(1), Add({1}), Await, Remove(1)>>]

Script == [s \in AllScenarios |->
  CASE s = "add/remove/timeout" -> <<Start(1), Add({1}), Await, Remove(1), Await>>
    [] s = "HC failure" -> <<Start(1), Add({1}), Await, Remove(1), Stop(1), Await>>
    [] s = "host re-add" ->
         <<Start(1), Add({1}), Await, Remove(1), Add({1}), Await>>
    [] s = "partial removal" ->
         <<Start(1), Start(2), Add({1, 2}), Await, Remove(1), Await, Remove(2)>>
    [] s = "long-lived healthy" -> <<Start(1), Add({1}), Await, Remove(1)>>]

-----------------------------------------------------------------------------

VARIABLES
  loop,         \* Run: "check", "take", "waiting" or "returned"
  picked,       \* the scenario drawn
  hand,         \* takePorts: the ports received so far
  pool,         \* st.portPool, a channel of capacity len(ports)
  phase,        \* phase[j]: where goroutine j is
  scen,         \* scen[j]: its scenario
  at,           \* at[j]: its next instruction
  held,         \* held[j]: the ports it has not given back
  passed,       \* passed[j]: err == nil
  wg,           \* the WaitGroup counter
  currentConc,  \* st.currentConc
  maxConc,      \* st.maxConc
  results,      \* st.results; an entry not yet made is all zero
  totalRun,     \* st.totalRun
  expired,      \* ctx is done
  backends,     \* ports with a running backend
  present,      \* endpoints of the xDS controller
  late          \* history: the scenarios launched after ctx was done

loopVars == <<loop, picked, hand>>
jobVars  == <<phase, scen, at, held, passed>>
concVars == <<wg, currentConc, maxConc>>
statVars == <<results, totalRun>>
envVars  == <<backends, present>>
vars == <<loopVars, pool, jobVars, concVars, statVars, expired, envVars, late>>

Phases == {"unused", "running", "cleaning", "recording", "returning",
           "finishing", "gone"}

NoStats == [Run |-> 0, Passed |-> 0, Failed |-> 0]

Init ==
  /\ loop = "check"
  /\ picked \in Mix
  /\ hand = <<>>
  /\ pool \in {q \in [1..Cardinality(Ports) -> Ports] :
                  IsInjective(q) /\ Range(q) = Ports}
  /\ phase = [j \in Jobs |-> "unused"]
  /\ scen \in [Jobs -> {picked}]
  /\ at = [j \in Jobs |-> 1]
  /\ held = [j \in Jobs |-> <<>>]
  /\ passed = [j \in Jobs |-> FALSE]
  /\ wg = 0
  /\ currentConc = 0
  /\ maxConc = 0
  /\ results = [s \in AllScenarios |-> NoStats]
  /\ totalRun = 0
  /\ expired = FALSE
  /\ backends = {}
  /\ present = {}
  /\ late = 0

-----------------------------------------------------------------------------
(* The loop of Run *)

\* ctx.Done() is polled between launches only.
CheckDone ==
  /\ loop = "check"
  /\ expired
  /\ loop' = "waiting"
  /\ UNCHANGED <<picked, hand, pool, jobVars, concVars, statVars, expired, envVars, late>>

\* Fault: the deadline is not polled.
Pick_Unpolled(s) ==
  /\ loop = "check"
  /\ \E j \in Jobs : phase[j] = "unused"
  /\ picked' = s
  /\ loop' = "take"
  /\ UNCHANGED <<hand, pool, jobVars, concVars, statVars, expired, envVars, late>>

Pick(s) ==
  /\ loop = "check"
  /\ ~expired
  /\ \E j \in Jobs : phase[j] = "unused"
  /\ picked' = s
  /\ loop' = "take"
  /\ UNCHANGED <<hand, pool, jobVars, concVars, statVars, expired, envVars, late>>

\* takePorts blocks while the pool is empty, whatever becomes of ctx.
TakePort ==
  /\ loop = "take"
  /\ Len(hand) < NumEndpoints[picked]
  /\ pool # <<>>
  /\ hand' = Append(hand, Head(pool))
  /\ pool' = Tail(pool)
  /\ UNCHANGED <<loop, picked, jobVars, concVars, statVars, expired, envVars, late>>

\* The goroutine j gets the ports and begins with its first instruction.
Spawn(j) ==
  /\ loop = "take"
  /\ Len(hand) = NumEndpoints[picked]
  /\ phase[j] = "unused"
  /\ phase' = [phase EXCEPT ![j] = "running"]
  /\ scen' = [scen EXCEPT ![j] = picked]
  /\ held' = [held EXCEPT ![j] = hand]
  /\ hand' = <<>>
  /\ loop' = "check"
  /\ late' = IF expired THEN late + 1 ELSE late
  /\ UNCHANGED <<picked, pool, at, passed, statVars, expired, envVars>>

\* Fault: wg.Add is left to the goroutine, which has not run yet when Wait
\* looks at the counter.
Launch_NoAdd(j) ==
  /\ Spawn(j)
  /\ wg' = wg
  /\ currentConc' = currentConc + 1
  /\ maxConc' = IF currentConc + 1 > maxConc THEN currentConc + 1 ELSE maxConc

\* Fault: the maximum is taken before the new scenario is counted.
Launch_StaleConc(j) ==
  /\ Spawn(j)
  /\ wg' = wg + 1
  /\ currentConc' = currentConc + 1
  /\ maxConc' = IF currentConc > maxConc THEN currentConc ELSE maxConc

\* Only this goroutine writes maxConc, and until the new goroutine runs the
\* others only lower currentConc: Add, Load, Store and go are one step.
Launch(j) ==
  /\ Spawn(j)
  /\ wg' = wg + 1
  /\ currentConc' = currentConc + 1
  /\ maxConc' = IF currentConc + 1 > maxConc THEN currentConc + 1 ELSE maxConc

\* wg.Wait and the return of the results.
WaitReturns ==
  /\ loop = "waiting"
  /\ wg = 0
  /\ loop' = "returned"
  /\ UNCHANGED <<picked, hand, pool, jobVars, concVars, statVars, expired, envVars, late>>

\* The duration is over.
Expire ==
  /\ ~expired
  /\ expired' = TRUE
  /\ UNCHANGED <<loopVars, pool, jobVars, concVars, statVars, envVars, late>>

-----------------------------------------------------------------------------
(* A job *)

\* Job j executes an instruction op on the ports that `on' stands for.
Execute(j, op) ==
  /\ phase[j] = "running"
  /\ at[j] <= Len(Script[scen[j]])
  /\ Script[scen[j]][at[j]].op = op
  /\ UNCHANGED <<loopVars, pool, scen, held, concVars, statVars, expired, late>>

Continue(j) ==
  /\ at' = [at EXCEPT ![j] = @ + 1]
  /\ UNCHANGED <<phase, passed>>

Targets(j) == {held[j][i] : i \in Script[scen[j]][at[j]].on}

StartBackend(j) ==
  /\ Execute(j, "start")
  /\ Continue(j)
  /\ backends' = backends \cup Targets(j)
  /\ UNCHANGED present

\* Every body ignores the error of Start.
StartFails(j) ==
  /\ Execute(j, "start")
  /\ Continue(j)
  /\ UNCHANGED envVars

StopBackend(j) ==
  /\ Execute(j, "stop")
  /\ Continue(j)
  /\ backends' = backends \ Targets(j)
  /\ UNCHANGED present

AddEndpoints(j) ==
  /\ Execute(j, "add")
  /\ Continue(j)
  /\ present' = present \cup Targets(j)
  /\ UNCHANGED backends

RemoveEndpoints(j) ==
  /\ Execute(j, "remove")
  /\ Continue(j)
  /\ present' = present \ Targets(j)
  /\ UNCHANGED backends

\* Envoy shows what the body waits for, or the body returns an error.
AwaitEnvoy(j) ==
  /\ Execute(j, "await")
  /\ \/ Continue(j)
     \/ /\ phase' = [phase EXCEPT ![j] = "cleaning"]
        /\ UNCHANGED <<at, passed>>
  /\ UNCHANGED envVars

\* The body returns without an error.
Pass(j) ==
  /\ phase[j] = "running"
  /\ at[j] = Len(Script[scen[j]]) + 1
  /\ phase' = [phase EXCEPT ![j] = "cleaning"]
  /\ passed' = [passed EXCEPT ![j] = TRUE]
  /\ UNCHANGED <<loopVars, pool, scen, at, held, concVars, statVars, expired, envVars, late>>

\* The body's deferred calls: one Stop after the other, in the order of its
\* ports; a Stop that finds no backend returns an error and changes nothing.
StopDeferred(j) ==
  /\ phase[j] = "cleaning"
  /\ \E i \in DOMAIN held[j] :
       /\ held[j][i] \in backends
       /\ \A k \in 1..(i - 1) : held[j][k] \notin backends
       /\ backends' = backends \ {held[j][i]}
  /\ UNCHANGED <<loopVars, pool, jobVars, concVars, statVars, expired, present, late>>

\* Fault: only the first backend of a body is stopped.
CleanUp_First(j) ==
  /\ phase[j] = "cleaning"
  /\ held[j][1] \notin backends
  /\ phase' = [phase EXCEPT ![j] = "recording"]
  /\ UNCHANGED <<loopVars, pool, scen, at, held, passed, concVars, statVars, expired, envVars, late>>

\* The deferred calls are done; endpoints are left alone.
CleanUp(j) ==
  /\ phase[j] = "cleaning"
  /\ Range(held[j]) \cap backends = {}
  /\ phase' = [phase EXCEPT ![j] = "recording"]
  /\ UNCHANGED <<loopVars, pool, scen, at, held, passed, concVars, statVars, expired, envVars, late>>

Tally(stats, ok) ==
  [Run    |-> stats.Run + 1,
   Passed |-> stats.Passed + (IF ok THEN 1 ELSE 0),
   Failed |-> stats.Failed + (IF ok THEN 0 ELSE 1)]

\* Fault: record also does the job's wg.Done.
Record_Done(j) ==
  /\ phase[j] = "recording"
  /\ results' = [results EXCEPT ![scen[j]] = Tally(@, passed[j])]
  /\ totalRun' = totalRun + 1
  /\ wg' = wg - 1
  /\ phase' = [phase EXCEPT ![j] = "returning"]
  /\ UNCHANGED <<loopVars, pool, scen, at, held, passed, currentConc, maxConc, expired, envVars, late>>

\* record, under st.mu.
Record(j) ==
  /\ phase[j] = "recording"
  /\ results' = [results EXCEPT ![scen[j]] = Tally(@, passed[j])]
  /\ totalRun' = totalRun + 1
  /\ phase' = [phase EXCEPT ![j] = "returning"]
  /\ UNCHANGED <<loopVars, pool, scen, at, held, passed, concVars, expired, envVars, late>>

\* Fault: a job gives back its first port and forgets the others.
ReturnPort_First(j) ==
  /\ phase[j] = "returning"
  /\ held[j] # <<>>
  /\ Len(pool) < Cardinality(Ports)
  /\ pool' = Append(pool, Head(held[j]))
  /\ held' = [held EXCEPT ![j] = <<>>]
  /\ UNCHANGED <<loopVars, phase, scen, at, passed, concVars, statVars, expired, envVars, late>>

\* One send of returnPorts; it blocks while the channel is full.
ReturnPort(j) ==
  /\ phase[j] = "returning"
  /\ held[j] # <<>>
  /\ Len(pool) < Cardinality(Ports)
  /\ pool' = Append(pool, Head(held[j]))
  /\ held' = [held EXCEPT ![j] = Tail(@)]
  /\ UNCHANGED <<loopVars, phase, scen, at, passed, concVars, statVars, expired, envVars, late>>

\* The deferred calls run in reverse: ports first, then the counter.
LeaveConc(j) ==
  /\ phase[j] = "returning"
  /\ held[j] = <<>>
  /\ currentConc' = currentConc - 1
  /\ phase' = [phase EXCEPT ![j] = "finishing"]
  /\ UNCHANGED <<loopVars, pool, scen, at, held, passed, wg, maxConc, statVars, expired, envVars, late>>

\* Fault: a failed job does not call wg.Done.
WgDone_PassedOnly(j) ==
  /\ phase[j] = "finishing"
  /\ wg' = IF passed[j] THEN wg - 1 ELSE wg
  /\ phase' = [phase EXCEPT ![j] = "gone"]
  /\ UNCHANGED <<loopVars, pool, scen, at, held, passed, currentConc, maxConc, statVars, expired, envVars, late>>

WgDone(j) ==
  /\ phase[j] = "finishing"
  /\ wg' = wg - 1
  /\ phase' = [phase EXCEPT ![j] = "gone"]
  /\ UNCHANGED <<loopVars, pool, scen, at, held, passed, currentConc, maxConc, statVars, expired, envVars, late>>

BodyStep(j) ==
  \/ StartBackend(j)
  \/ StartFails(j)
  \/ StopBackend(j)
  \/ AddEndpoints(j)
  \/ RemoveEndpoints(j)
  \/ AwaitEnvoy(j)
  \/ Pass(j)

JobStep(j) ==
  \/ BodyStep(j)
  \/ StopDeferred(j)
  \/ CleanUp(j)
  \/ Record(j)
  \/ ReturnPort(j)
  \/ LeaveConc(j)
  \/ WgDone(j)

LoopStep ==
  \/ CheckDone
  \/ \E s \in Mix : Pick(s)
  \/ TakePort
  \/ \E j \in Jobs : Launch(j)
  \/ WaitReturns

\* Run has returned and every goroutine has ended.
Finished ==
  /\ loop = "returned"
  /\ \A j \in Jobs : phase[j] \in {"unused", "gone"}
  /\ UNCHANGED vars

Next ==
  \/ LoopStep
  \/ Expire
  \/ \E j \in Jobs : JobStep(j)
  \/ Finished

Spec == Init /\ [][Next]_vars

\* Every goroutine is scheduled, every wait of a body has a timeout, and the
\* timer of ctx fires.
Fairness ==
  /\ WF_vars(LoopStep)
  /\ WF_vars(Expire)
  /\ \A j \in Jobs : WF_vars(JobStep(j))

FairSpec == Spec /\ Fairness

-----------------------------------------------------------------------------
(* What the report says *)

\* The sum of a number for each scenario.
Total(n) == n["add/remove/timeout"] + n["HC failure"] + n["host re-add"]
              + n["partial removal"] + n["long-lived healthy"]

\* countFailed and the sum in Run.
Passed == Total([s \in AllScenarios |-> results[s].Passed])
Failed == Total([s \in AllScenarios |-> results[s].Failed])

\* AllPassed: the pass rate is below 1 when nothing has run.
AllPassed == Passed >= (IF totalRun > 1 THEN totalRun ELSE 1)

-----------------------------------------------------------------------------
(* Properties *)

JobsIn(S) == {j \in Jobs : phase[j] \in S}

\* The shape of the state; in particular the WaitGroup counter never goes
\* below zero, where Go panics (stress.go:122, 129).
TypeOK ==
  /\ loop \in {"check", "take", "waiting", "returned"}
  /\ picked \in Mix
  /\ hand \in Seq(Ports)
  /\ pool \in Seq(Ports) /\ Len(pool) <= Cardinality(Ports)
  /\ phase \in [Jobs -> Phases]
  /\ scen \in [Jobs -> Mix]
  /\ at \in [Jobs -> Nat]
  /\ held \in [Jobs -> Seq(Ports)]
  /\ passed \in [Jobs -> BOOLEAN]
  /\ wg \in Nat /\ currentConc \in Nat /\ maxConc \in Nat
  /\ results \in [AllScenarios -> [Run : Nat, Passed : Nat, Failed : Nat]]
  /\ totalRun \in Nat
  /\ expired \in BOOLEAN
  /\ backends \in SUBSET Ports /\ present \in SUBSET Ports
  /\ late \in Nat

\* No port is lost or duplicated between the pool, the loop and the jobs, so
\* two scenarios that run at the same time never work on the same host, and
\* the send of returnPorts always finds room (stress.go:76-88, 120-131).
PortsConserved ==
  /\ IsInjective(pool) /\ IsInjective(hand)
  /\ \A j \in Jobs : IsInjective(held[j])
  /\ Range(pool) \cap Range(hand) = {}
  /\ \A j \in Jobs :
       /\ Range(held[j]) \cap (Range(pool) \cup Range(hand)) = {}
       /\ \A k \in Jobs \ {j} : Range(held[j]) \cap Range(held[k]) = {}
  /\ Ports = Range(pool) \cup Range(hand) \cup UNION {Range(held[j]) : j \in Jobs}

\* A backend runs only while a body that holds its port is executing, however
\* the body ends and whichever of its Starts failed (stress.go:179-180,
\* 267-274).  The pool's map is meant: the socket of a stopped backend may
\* outlive it (BackendPool!PortFreeAfterStop).
NoLeakedBackend ==
  \A p \in backends :
    \E j \in JobsIn({"running", "cleaning"}) : p \in Range(held[j])

\* The endpoints still present at ports that are back in the pool are no more
\* than the passed re-adds and the ports of the failed bodies.  A bound on
\* their number: which body left which endpoint it does not say, nor what
\* Envoy shows of it (stress.go:183, 245, 253-256).
LeftoversExplained ==
  Cardinality(Range(pool) \cap present) <=
    results["host re-add"].Passed +
    Total([s \in AllScenarios |-> NumEndpoints[s] * results[s].Failed])

\* When Run returns, no goroutine of it is left, every scenario launched has
\* been counted once, ports and backends are back, and the report passes
\* exactly when something has run and nothing has failed (stress.go:149-166,
\* report.go:131-143).
ReturnedRunIsComplete ==
  loop = "returned" =>
    /\ JobsIn(Phases \ {"unused", "gone"}) = {}
    /\ totalRun = Cardinality(JobsIn({"gone"}))
    /\ Passed + Failed = totalRun
    /\ Range(pool) = Ports /\ backends = {}
    /\ AllPassed <=> (totalRun > 0 /\ \A j \in JobsIn({"gone"}) : passed[j])

\* MaxConcurrent is an upper bound on the scenarios that ran at one time
\* (stress.go:123-126, 130).
MaxConcCovers ==
  /\ currentConc = Cardinality(JobsIn(Phases \ {"unused", "finishing", "gone"}))
  /\ currentConc <= maxConc

\* At most one scenario is launched after the duration is over: the loop may
\* be blocked in takePorts when it ends (stress.go:112-120).
AtMostOneLateStart == late <= 1

\* Run returns: a job that ends gives its ports back and the loop never waits
\* for ports that nobody returns (stress.go:79, 149).
Terminates == <>(loop = "returned")

=============================================================================
