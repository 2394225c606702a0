# A TLA+ verification of the host-removal test harness

The repository is a Go program that tests and benchmarks an Envoy feature: a
timeout for hosts that an EDS update has removed and that still pass their
health checks (`PENDING_DYNAMIC_REMOVAL`). The program embeds an xDS server,
runs Envoy as a child process, runs HTTP backends for Envoy to check, looks at
Envoy through its admin port, and reports verdicts and measurements. Envoy's
feature itself is not in this repository. What is verified here is the harness:
a harness that loses an update, a port, a request or a goroutine reports
something about Envoy that Envoy did not do, and a scenario that an Envoy
without the feature can pass reports nothing at all.

Contents: [inventory](#inventory) | [modules](#modules) | [runs](#runs) |
[verdicts](#what-a-verdict-is-worth) | [fairness](#fairness) | [proofs](#proofs) |
[where code and text disagree](#where-code-and-text-disagree) |
[not modelled](#not-modelled) | [plan](#plan)

## Inventory

| Component | File | State | Operations |
|---|---|---|---|
| xDS controller | `xds.go` | endpoint set and cluster configuration under a mutex, atomic version counter, snapshot cache, gRPC server | `AddEndpoints`, `RemoveEndpoints`, `RemoveAllEndpoints`, `ReplaceEndpoints`, `SetClusterConfig`, `pushSnapshot`, `Start`, `Stop`, `Restart` |
| Delivery to Envoy | `xds.go`, `main.go`; go-control-plane, grpc and Envoy are external | open watches, CDS and EDS streams, what Envoy has applied | answer, deliver, acknowledge, reconnect, GracefulStop |
| Stress runner | `stress.go` | port pool (a channel), WaitGroup, concurrency counters, tallies | the loop of `Run`, `takePorts`, `returnPorts`, `record`, five scenario bodies |
| Backend pool | `backend.go` | maps of listeners and of servers under a mutex; one `Serve` goroutine per backend | `Start`, `Stop`, `StopAll`, `IsRunning` |
| Load generator | `loadgen.go` | bounded work channel, workers, their records | `Run`, statistics, `WriteCSV` |
| Isolated scenarios | `scenarios.go` | none of their own | nine bodies of adds, removes, waits, single samples and bounds on measured time |
| Admin client | `admin.go` | none | parser of `/clusters`, polling loops with deadlines |
| Benchmark | `bench.go` | the load, the poller and the channels they end through; what the deferred calls have to stop | set-up, warm-up, swap, collection, next run |
| Harness lifecycle | `main.go` | the Envoy process, the report | a fresh Envoy and server per scenario, stress profile, exit paths |
| Report | `report.go` | results | `AllPassed`, `countFailed`, printing, JSON |

**How they interact.** `main` runs the isolated scenarios one after the other,
each with a fresh Envoy and the *same* controller, stopped and started again;
then the stress runner, whose goroutines call the controller, the pool and the
admin client concurrently while `main` waits; or, for `bench`, two runs with a
load generator and a poller beside `main`. Everything is in one process except
Envoy, which talks to the controller over gRPC streams, to the backends over
HTTP, and answers the admin client.

**What is hard.**

* *Concurrency.* `pushSnapshot` is not atomic with the change it publishes, and
  its three parts (copy, version, store) interleave with those of other
  goroutines. The stress loop, its goroutines and a timer share a channel, a
  WaitGroup and counters, and give them up in the order of deferred calls. The
  backend pool starts a goroutine that may run after the backend is stopped.
* *Failure.* Streams to Envoy break with a response on its way. Any wait of a
  scenario may time out and leave its endpoint behind. Errors of
  `Backends.Start` are ignored: the scenario goes on without its backend.
* *Ordering.* Versions are drawn and stored in different orders; Envoy must be
  stopped before the server; a channel is closed while it still holds work.
* *Timeouts.* `http.Get` has none, and the deadline of a poll is looked at
  between calls only. The stress loop may be blocked when its duration ends; the
  load generator may be saturated when its context ends; the warm-up of the
  benchmark and the duration of its load are independent flags.
* *Verdicts.* A scenario sees Envoy only through polls and single samples. A
  poll hides a lost call, a sample does not; an error of most samples is
  dropped; a removal may have another cause than the one under test.
* *Leftovers.* Fatal exits skip the deferred calls, and Envoy is a process of
  its own.

`PROJECT.json` lists each hazard at its line with the properties that cover it.

## Modules

| Module | Models | State | Actions |
|---|---|---|---|
| `XDSController` | `xds.go` | the fields of the struct by name, and per caller its place in `pushSnapshot` with the copy and version it holds | one per method for its critical section; `Capture`, `Stamp`, `SetSnapshot` for the three steps that follow; `Start`, `Stop`, `Restart`, `GracefulStopReturns` |
| `SnapshotStore` | abstract: what the controller promises | current state, served state, states each call has seen | `Change`, `Publish` |
| `XDSHistory` | `XDSController` with a history variable, and the refinement mapping to `SnapshotStore` | | |
| `XDSDelivery` | the controller composed with the cache's watches and Envoy's streams | per stream: closed, owing a request, watching, being answered; what Envoy holds | the controller's actions, `Publish` (SetSnapshot and the watches it answers), `Request`, `Deliver`, `Connect`, `Drop`, `EnvoyStart`, `EnvoyStop` |
| `StressTest` | `stress.go`, the verdict of `report.go` | Go's names; per goroutine its phase, scenario, next instruction and ports | the loop (`CheckDone`, `Pick`, `TakePort`, `Launch`, `WaitReturns`), `Expire`, the calls of a body and the `Start` that fails, its deferred calls one by one |
| `BackendPool` | `backend.go` | the two maps, the mutex, per server its goroutine, socket and requests | `Start`, `Stop`, `StopAll` and their waits, `Serve`, `Accept`, `Answer` |
| `LoadGen` | `LoadGen.Run`, `TotalRequests`, `ErrorCount` | ticker, channel, workers, records counted by status | `Tick`, `TakeTick`, `TakeDone`, `Receive`, `Respond`, `Leave`, `Merge`, `Cancel` |
| `Bench` | `bench.go`, composed with `LoadGen` | where `runBench` and `runBenchScenario` are, what is running, the clock, the poller, `pollCtx`, `epRecords` | one action per stage, `StartNew`, `Swap`, `LoadIsDone`, `Collect`, the deferred calls, `NextRun`; `LoadStep`, `PollerSamples`, `PollerEnds`, `ClockAdvances` |
| `AdminClient` | `admin.go`: the parser and the conditions polled for | none (operators) | |
| `EnvoyHosts` | external: the Envoy a scenario is run against | what is pushed and applied, the state and timer of each host, the kind of Envoy | `Apply`, `EnvoyTick`, `Reconnect` |
| `IsolatedScenarios` | `scenarios.go`, the bodies of `stress.go`, the polling loops of `admin.go` | the scenario, its next instruction, time in it, time since `t0`, the verdict | `Call`, `StartFails`, `PollSucceeds`, `TimeIsUp`, `CompareElapsed`, `TakeSample`, `SampleFails`, `Pass`, `Tick` |
| `Harness` | `main.go`, `AddIsolated` and `AllPassed` of `report.go`, composed with the three above | where `main` is, the child process, an orphan, the failures reported, the exit code | `StartServer` to `StopServer`, `Exit`, the fatal exits, `EnvoyBecomesReady`, `EnvoyCrashes`, `StreamBreaks`, `CallHangs`, `RunAgain` |
| `XDSProofs`, `DeliveryProofs` | theorems about `XDSController`, `XDSHistory` and `XDSDelivery` | | |
| `StressProofs`, `BackendProofs`, `BenchProofs` | theorems about `StressTest`, `BackendPool`, and `LoadGen` with `Bench` | | |
| `HarnessProofs` | theorems about `Harness`: types, what one scenario leaves to the next, how `main` reports | | |
| `VerdictProofs`, `FailureProofs` | theorems about `Harness`, on top of those: what a pass and a failure are worth | | |
| `MC...` | instances for TLC | | |

Definitions keep the source's names. One step of a model is what no other
goroutine can observe in parts: a critical section, an atomic operation, a
channel operation, a call that returns. Choices worth knowing:

* **Callers of the controller.** `Main` is the goroutine of `main` or
  `runBench`. `Workers` are stress goroutines and exist only while `Main` waits
  for them (`stress.go:149`), so their calls overlap each other's and never
  `Main`'s. A worker names only ports it has taken from the pool; `StressTest`
  shows that no other worker has them (`PortsConserved`).
* **Snapshots** hold Envoy's own field names. An optional field is the set of
  its values, so that a timeout of 0 is an absent field, as in `makeCluster`.
* **A body of the stress test** is a sequence of calls: start, add, await,
  remove, stop. An `await` stands for the checks between two calls, whose error
  the body returns; each may succeed or fail, because what Envoy does is not the
  harness's. A wait whose result the code ignores changes nothing and is left
  out. A `start` may fail unnoticed (`StartFails`). The deferred
  `Backends.Stop`, one after the other, are the phase `cleaning`.
* **The initial port pool** is any order of the ports (the code gives one), and
  the weighted draw is any member of `Mix`: every weight is positive.
* **net/http** is modelled from its use: `Shutdown` closes only listeners that
  `Serve` has registered, then waits for open requests; a `Serve` that begins
  after `Shutdown` closes its listener and returns.
* **The snapshot cache and Envoy** are modelled as the state-of-the-world
  protocol uses them: a request names the version held, is answered at once
  when the snapshot has another, and else waits as a watch for the next
  `SetSnapshot`.
* **Load records** are counted as 200 or not (503 from Envoy, 0 for an error of
  `Get`), which is what `ErrorCount` and `SuccessRate` look at. Their times,
  latencies and order are left out. The merge counts them as the cardinality of
  the set of entries of all workers, and the sums of the stress report name
  their five scenarios (`Total`): neither is a fold, whose laws could not be
  used in a proof.
* **A scenario is a script**: the calls, waits, sleeps, samples and bounds of
  its body in their order, with the milliseconds of the source. An error
  returned by a wait (`Await`) ends the body, one that is dropped (`Try`) does
  not; a sample (`Sample`) whose error is dropped is evaluated on what came with
  the error, as the code does: nothing if Envoy is not there, and any part of the
  hosts if its answer breaks off (`PartialHosts`).
* **The bodies of the stress test run one at a time** in `Harness`; in the code
  they are concurrent. `StressTest` has the same bodies concurrent, with the
  waits abstracted, and `XDSController` the change of one goroutine that is lost
  to another (finding 1). So what `Harness` says of a stress body
  (`PassesAreEarned`, `BodiesStartSettled`) holds for a body that meets no such
  loss and whose pushes Envoy applies within `MaxLag`; why bodies fail is not
  said at all (`FailuresExplained` is about the isolated scenarios).
* **Faults of `Harness`** are counted together against `MaxFaults`: calls of the
  admin port that fail, crashes of Envoy, broken streams, and the Starts that
  fail, these as one. A call that is never answered (`CallHangs`) may come at any
  time and is not counted: `main` is then stuck for good, and nothing follows.
* **Envoy's kind** is a variable that is chosen once. The fixed kind has the
  removal timeout; nine others lack it or have one defect each. All of them
  are assumptions about a program outside the repository, taken from what the
  scenarios' comments and messages say of it.
* **Time** in `Harness` advances in steps of 250 ms, the interval of the health
  checks (`xds.go:218`), and only while a body waits. Envoy applies a push
  within `MaxLag`; every tick checks every host once. The polls' own interval
  (100 ms) is finer: a poll sees every state that lasts a tick. Pauses between
  two statements of the harness itself are not modelled.
* **CDS and EDS** reach Envoy together in `EnvoyHosts`; that they do in the end,
  whatever is lost, is `EnvoyConverges` of `XDSDelivery`.
* **The `/clusters` text** is a set of lines. Envoy joins the flags of a host
  with `/`, while the parser splits at `|`, so a host has one flag string, and
  `HasFlag` compares with all of it.
* **The clock of `Bench`** starts with the load and advances only when nothing
  is due. The durations of single requests do not matter to any property.

A definition `Op_Fault` is a faulty form of `Op`, kept beside it to see a
property fail; no specification uses it.

## Runs

All runs terminate; every bound is a constant of its module, named in its
comment. Deadlock is checked except in the run that shows one.

| Run | Instance | What it shows |
|---|---|---|
| `xds_history` | two workers with a port each, two configurations, no call begins after six versions | `VersionsNameSnapshots`: no version is used for two snapshots (the cache would not deliver the second). `ImplementsStore`: every push serves one whole state that the controller was in since the call's own change, never configuration and endpoints of two moments, nor an option of an earlier configuration. |
| `xds_overlap` | the same, three versions; **violation** | `QuiescentServesState` fails for overlapping calls: see below. |
| `delivery_safety` | two workers, one broken stream, one Envoy | `WatchersAreCurrent`: a stream on which nothing will happen until the next push holds exactly the served snapshot, even after the served version went back. |
| `delivery_serial` | one worker, four versions, Envoy started twice, one broken stream | For calls that do not overlap: `QuiescentServesState` (after each call the cache serves the controller's state), `ServedVersionGrows` (also across a restart of the server), `EnvoyConverges`, `StopTerminates`. |
| `delivery_restart` | one worker, Envoy up; **violation** | `Restart` never returns while Envoy is connected: see below. |
| `stress_safety` | three goroutines, two ports, a one-port and a two-port body | `PortsConserved`, `MaxConcCovers`, `AtMostOneLateStart`, `ReturnedRunIsComplete` (when `Run` returns no goroutine, port or backend is out, each scenario is counted once, and the verdict passes exactly when something ran and nothing failed). |
| `stress_bodies` | two goroutines, two ports, all five bodies | `Terminates`; `NoLeakedBackend`: whichever Starts fail and however a body ends, none of its backends stays in the pool's maps (its socket may, see `backend_reuse`); `LeftoversExplained`: the endpoints left in the controller at free ports are no more than the passed re-adds and the ports of failed bodies. |
| `backend` | two callers, two ports, three servers, two requests each | `TypeOK` (a caller is in `Stop` or `StopAll` exactly while it holds the mutex), `RegisteredOwnsPort`, `ForgottenIsQuiet` (a stopped backend has answered everything; its socket is held only if `Serve` has not run), `CallsReturn` (although `Shutdown` waits with the mutex held), `PortsReleased`. |
| `backend_reuse` | two servers; **violation** | A port may be bound after `Stop` has returned: see below. |
| `bench` | two load workers, hence a channel of four, five ticks; five command lines; two initial and two new backends | `TokensConserved`, `ResultIsComplete` (one record for every token, failures included, whatever is cut off by the end of the load), `NothingIsRunningWhenCollected` (what is written is all there is), `SwapIsInLoad` (in the load when the warm-up is shorter, after it when it is longer; on a tie either, as the two timers fire together), `NothingIsLeft` (not even after the index panic of a large `-healthy-count`), `BTerminates`. |
| `harness` | ten kinds of Envoy, three hosts, one fault anywhere, profiles none, medium and an unknown one, two stress bodies | `PassesAreEarned`, `LostTimersShow`, `ExitOkMeansFixed`, `FailuresExplained`: see the next section. `StartsClean`, `BodiesStartSettled`: what one scenario leaves to the next. `OrphanFromStressOnly`: where the scenarios and the stress test leave an Envoy behind. `Terminates`: `main` ends, unless Envoy never answers a call. |
| `harness_fresh` | one kind, two processes of the harness; **violation** | A scenario may run against the Envoy of an earlier process: see below. |

**Why the bounds are enough.** Two workers are what every overlap of
`pushSnapshot` needs: the properties relate a call to one other call and to the
cache. Six versions let one worker complete pushes while the other's waits
between any two of its steps. In the stress test a one-port and a two-port body
on two ports give contention, an empty pool in the middle of `takePorts`, and a
port that is used again; three goroutines give a third launch after a return.
Three servers on two ports mean that one port is used twice. Five ticks exceed
the channel's capacity of four, so a tick is skipped while no worker has been
scheduled. Two benchmark runs in a row show what one leaves to the other; the
five command lines are the ways `runBench` can go, and the tie of warm-up and
duration. Three hosts are enough
for scenario E, whose point is that *every* host is removed: the leaky Envoy has
timers for two. One fault separates what polls forgive from what samples do
not, and two stress bodies are what one can leave to another. The proofs below
remove the bounds for the safety of the controller, the delivery, the runner, the
pool, the load generator and the benchmark, and for what `main` leaves behind,
cleans up and reports, and what a verdict is worth. `NumHosts` is at least 3:
every scenario names two hosts but E, which is there for more.

**Symmetry** is used for ports and goroutines in the two stress runs that check
invariants only; nothing tells those apart. No run that checks a temporal
property uses it.

**Mutants.** For every property of a passing run `PROJECT.json` names a faulty
form of a definition for which the property fails: a push that is forgotten, an
increment that is lost, a port that is not returned, `wg.Add` left out, `Shutdown`
that does not wait, a channel that is not closed.

## What a verdict is worth

`Harness` runs every scenario against ten kinds of Envoy. `PassesAreEarned`
states which kinds a scenario never passes, whatever is late, lost, not started
or crashes. Of the last five rows it says so for bodies that run one at a time,
whose backends were started, and whose pushes are applied within `MaxLag`:

| Scenario | Never passes with | Passes although |
|---|---|---|
| 0 | hasty, constant | blind, leaky and others are not its subject |
| A | forgetful | |
| B | hasty, blind | |
| C | unpatched, contagious | hasty passes: it is not checked that the removed host was pending |
| D | unpatched, constant, and hasty unless a poll is lost | one lost poll delays the measured removal past the 400 ms bound |
| E | unpatched, leaky | |
| F | unpatched | amnesiac passes: no stream is broken |
| G | unconditional | |
| H | unpatched, hasty | |
| add/remove/timeout | unpatched, hasty | |
| HC failure | none | blind passes: the wait is longer than the timeout |
| host re-add | forgetful | |
| partial removal | unpatched, contagious | |
| long-lived healthy | none | |

(*Hasty* removes hosts at once; *unpatched* never by time; *forgetful* keeps the
timer of a host added again; *blind* ignores a failed check of a pending host;
*contagious* removes all hosts with one; *constant* waits 5 s whatever is
configured; *leaky* has two timers; *amnesiac* loses its timers when the stream
breaks; *unconditional* keeps hosts pending without health checks.)

`ExitOkMeansFixed`: together the isolated scenarios tell every kind but amnesiac
from the fixed one. What F and the body HC failure are said to show they do not
(6 and 7 below).

In the other direction, `FailuresExplained`: the fixed Envoy fails an isolated
scenario only if Envoy crashes, a call of the admin port fails, or a backend of
that scenario was not started, which the scenario does not look at; and one
failed call hurts only scenarios that take single samples (0, A, B, C, H). Of
the bodies of the stress test it says nothing: they may also fail for an
endpoint change that is lost to another body (finding 1).

## Fairness

* *Goroutines* that can step do: the Go scheduler is preemptive. `Push(c)`,
  `JobStep(j)`, `LoopStep`, `WorkerStep(w)`, `Serve` and the main goroutine of
  `Bench` and `Harness` are weakly fair.
* *Waits end*: every wait of a scenario has a deadline, and the server's handlers
  answer, so an `await` of `StressTest`, a request and a connection end. That a
  call of the admin port ends is assumed in `StressTest` and in the poller of
  `Bench`. `Harness` does not assume it: there `main` may get stuck in one
  (`CallHangs`), and `Terminates` says that nothing else keeps it.
* *Timers fire*: the stress test's context has the test's duration, the load's
  a timeout (`bench.go:214`). `select` chooses among ready channels at random,
  so a cancellation is not passed over for ever: weak fairness of `TakeDone`,
  which stays enabled, is what that gives, and strong fairness of `PollerEnds`.
* *Time passes*: `ClockAdvances` and `Passage`; without it a sleep would not
  end. Ticks of the load and samples of the poller are not assumed.
* *Envoy* reconnects, asks and acknowledges while it is up. Broken streams,
  crashes, calls of the harness, ticks and accepted connections are never
  assumed.

## Proofs

The eight proof modules are checked by TLAPS for every value of the constants.
The assumptions are those the modules name: `Main` is not a worker, workers own
sets of ports, configurations are well typed, `NoSnapshot` is not a snapshot;
ports and goroutines of the stress test are finite sets and no scenario of the
mix needs more ports than there are; `Free` is not a caller of the pool; command
lines are well typed and name a scenario (`parseBenchFlags` splits a string,
which gives at least one element); bounds are natural numbers.

Those of `Harness` say what the scenarios take for granted of delays they do not
look at (`BoundsAssumption`, which TLC evaluates in every run of `Harness`). A
push is applied in less than the 400 ms from which on D takes a removal for a
delayed one (`scenarios.go:265`): D passes with a hasty Envoy that is slower.
The delay of a push and the polls that may be lost, 250 ms each, stay together
below the 2 s from which on the stress test does the same (`stress.go:192`). A
third host is there for E, the only scenario an Envoy with two timers does not
pass.

| Theorem | States |
|---|---|
| `XDSProofs!TypeCorrect` | `TypeOK` of the controller |
| `XDSProofs!VersionsUnique` | `VersionsNameSnapshots`, for any number of callers. It is inductive with `TypeOK`: `Stamp` draws a number above every one drawn, `SetSnapshot` moves a caller's number to the cache. |
| `XDSProofs!SerialServesState` | with at most one worker, `QuiescentServesState` |
| `XDSProofs!SerialVersionsGrow` | with at most one worker, `ServedVersionGrows` |
| `XDSProofs!Refinement` | `ImplementsStore`: the controller implements `SnapshotStore`, for any number of callers |
| `DeliveryProofs!DeliveryTypes` | `DTypeOK` of the streams |
| `DeliveryProofs!WatchersCurrent` | `WatchersAreCurrent`, for any number of callers, restarts of Envoy and broken streams |
| `StressProofs!Invariance` | the inductive invariant `IInv` |
| `StressProofs!TypeCorrect` | `TypeOK`: the WaitGroup and the concurrency counter never go below zero, no body refers to a port it does not hold |
| `StressProofs!PortsNeverShared` | `PortsConserved` |
| `StressProofs!MaxConcIsBound` | `MaxConcCovers` |
| `StressProofs!OneLateStart` | `AtMostOneLateStart` |
| `StressProofs!BackendsNeverLeak` | `NoLeakedBackend` |
| `StressProofs!ReportInvariance` | the inductive invariant `IInv /\ RInv` of what is reported and left over |
| `StressProofs!LeftoversAreExplained` | `LeftoversExplained` |
| `StressProofs!RunReturnsComplete` | `ReturnedRunIsComplete` |
| `BackendProofs!TypeCorrect`, `RegisteredHoldsSocket`, `ForgottenStaysQuiet` | the three invariants of the pool |
| `BenchProofs!SwapInLoad`, `NothingRunning`, `NothingLeft` | `SwapIsInLoad`, `NothingIsRunningWhenCollected`, `NothingIsLeft`, for any number of load workers, any durations and command lines |
| `BenchProofs!LoadIsComplete` | the three invariants of the load generator on its own: `TypeOK`, `TokensConserved`, `ResultIsComplete` |
| `BenchProofs!BenchTypeOK`, `LoadTypeOK`, `NoTokenIsLost`, `LoadResultComplete` | `BTypeOK`, and the same three in every benchmark |
| `HarnessProofs!OrphansExplained` | `OrphanFromStressOnly`, for any number of faults and bodies |
| `HarnessProofs!FirstProcessIsFresh` | `FreshEnvoy` of a first process, which run `harness_fresh` refutes for a second |
| `HarnessProofs!TypeCorrect` | `TypeOK`, for any delay of Envoy and any number of hosts and faults |
| `HarnessProofs!CleanStart` | `StartsClean` |
| `HarnessProofs!NoTimerIsLost` | `LostTimersShow` |
| `HarnessProofs!ExitFollowsVerdicts` | if `PassesAreEarned` holds throughout, so does `ExitOkMeansFixed` |
| `VerdictProofs!PassesEarned` | `PassesAreEarned`: the table in [verdicts](#what-a-verdict-is-worth), for any delay, number of hosts and faults within the bounds above. In the stress test it is proved while no backend of a body has failed to start; the run checks the rest. |
| `VerdictProofs!ExitMeansFixed` | `ExitOkMeansFixed` |
| `VerdictProofs!BodiesSettled` | `BodiesStartSettled`, while no backend of a body has failed to start; the run checks the rest |
| `FailureProofs!FailuresAreExplained` | `FailuresExplained`: with the feature no isolated scenario whose backends were started fails without a crash or a failed call, under the same bounds |

*The controller, serial.* `QuiescentServesState` says nothing while a call is
in progress, so it is not inductive. Two invariants strengthen it. `Apart`: the
calls of `Main` and of workers do not overlap, hence with one worker at most one
call is in progress (`OneActive`). `SerialInv`: what a call has copied is still
the controller's state, because nobody else can have changed it; the version it
has drawn is above the served one; and when nobody is pushing the cache holds
the state. `SerialVersionsGrow` follows from the second part. The overlap run
shows that the hypothesis of at most one worker cannot be dropped.

*The stress runner.* `IInv` is the conjunction of `StructInv` (types; a running
body has all its ports and its next instruction exists; a goroutine not yet
launched is at its beginning), `CountInv` (the WaitGroup counts the goroutines
between `wg.Add` and `wg.Done`, `currentConc` those between its increment and
its decrement, the maximum is not below it), `PortsConserved`, and `LateInv`:
a late launch has happened only if the duration is over *and* the loop has left
`take`. The bare types are not inductive: that `wg` does not go below zero
needs `wg` to be a cardinality, and that an instruction names a port the body
holds needs its length. `AtMostOneLateStart` needs `LateInv`, because it must be
known that a second launch passes the poll of `ctx.Done()` first.

*No leaked backend.* `NoLeakedBackend` is inductive beside `StructInv`: a body
starts only ports that it holds (`ScriptType`, `TargetsArePorts`), a goroutine
leaves the two phases that may own a backend only through `CleanUp`, when its
deferred Stops have left none (`DeferredFrame`), and the
steps of all others leave its ports alone.

*The controller implements its store.* A critical section maps to `Change`,
`SetSnapshot` to `Publish`, the rest to stutters (`StepKinds`). The invariant is
`StoreInv`: what a pushing call has captured is a state that the history
variable remembers for it. The served state is read back from the resources
(`ReadMakeCluster`, `ReadMakeEndpoints`: an absent timeout reads as 0), and what
is published is a remembered state.

*Delivery.* That a watch is up to date is not inductive, since the cache only
compares versions. The strengthening is `Known`: a response that Envoy holds or
that is on its way names a version that was drawn, that no call is about to
publish, and, if it is the served one, has the served content. A push therefore
answers every watch, since its version is one that no stream has seen, and a
request is kept waiting only for a version whose content is held. No order of
the versions is needed, which is why the overwritten push of finding 1 still
leaves every stream consistent with the cache.

*The backend pool.* `RegisteredOwnsPort` needs to know who is in a call
(`LockInv`: whoever is holds the mutex, and what it waits for is shut down),
that the maps name started servers, each at one port (`MapInv`), that a server
not yet started is blank (`NewInv`), and `QuietInv`, from which
`ForgottenIsQuiet` follows: a socket survives a shutdown only with a `Serve`
that has not run.

*The benchmark.* `SwapIsInLoad` rests on `TimeInv`: at the swap the clock is
exactly the warm-up, while the loop selects it has not passed the duration, and
nothing but the deadline cancels the load before the deferred calls. `EndInv`
carries the order in which loop, workers and poller end, and that the channel
holds every sample; `LeftInv` what the deferred calls have stopped so far, on
the path of the panic too.

*What the stress test reports and leaves.* `RInv` has four parts. `HandsInv`:
the loop's hand is empty outside `take`, a body in progress holds all its ports
and its next instruction exists, a finished goroutine holds none, and a verdict
is "passed" only at the end of the script. `TallyInv`: the tallies are the
goroutines that have recorded, sorted by scenario and verdict. They are
cardinalities of sets of goroutines, one step of `record` adds one goroutine to
one of them, and when `Run` returns (`wg` is 0, so by `CountInv` nobody is left)
their sum is the number of launches. `ClearedInv`: a port that a running body
has removed and not added again is not present in the controller; at the end of
a passing body, of any scenario but the re-add, that is every port it holds,
which is read off its script, instruction by instruction. `LeftInv`: the
endpoints present at ports that no body works on (in the pool, in the hand of
the loop, with a recorded goroutine) are at most as many as the re-adds that
passed, plus, for every failure, the endpoints of its scenario.

*The load generator.* A token is in the channel, with a worker or in a record;
`LInv` of `BenchProofs` says so by cardinalities, one per worker and status, and
that the sum of them grows by one with every token. `Merge` is enabled only when
every worker has left, so what it counts is all. In `Bench` the same invariant
holds for a load that is started, cancelled and started again: `BenchProofs`
shows that a step of `Bench` is a step of `LoadGen`, its cancellation by the
deferred calls, its initial state again, or leaves it alone. `RangeInv` adds to
`BTypeOK` that only a run that has panicked has started more new backends than
there are ports for them.

*The harness.* `ChildInv`: no child is running where `main` may end the process,
except in the wait for `/ready`.

`ShapeInv` is the types of `Harness` made inductive. A wait never outlasts its
deadline because both are whole ticks of 250 ms (`WaitedInv`; the bare bound is
not preserved by `Tick`). The time since `t0` is bounded because a script marks
it once, two instructions before its end, and waits for one poll after it
(`MarkedEnd`, `SinceInv`): this is a fact about the fourteen scripts, proved for
each of them (`ScriptTypes`), for E with any number of hosts. The timer of a host
is below the longest timeout of `ConfigFor`, since a timer that reaches its
timeout fires (`TickTable`).

`CleanInv` follows what one scenario leaves through the stages of `main`: a body
that returns, on any path, has stopped its backends; `Finish` takes the
endpoints; `StopEnvoy` empties the table, as by `ChildInv` no orphan can have
taken the port; and an Envoy that comes up meanwhile applies only an empty
endpoint set, which lists no host (`ApplyTable`).

`NoTimerIsLost` rests on `EndsInv`. A script *ends*, in the sense of `Ends`, if
it removes every endpoint it adds at one instruction and later waits, with the
error returned, until no host is left. After the first no endpoint is pushed, after
the second the table is empty (`NoneCounted`: the parser skips no host, so a
count of 0 is an empty table), and a table without hosts stays so without
endpoints, whatever is late, breaks or crashes. D, E, F and H end in this sense
(`EndsOfD` to `EndsOfH`).

`ExitFollowsVerdicts` is about `main` and the report alone. `JudgedInv`: of every
scenario that is over, either its failure is in the report or Envoy is not of a
kind it exposes; nothing removes a failure, no scenario is skipped, and the
report is reached only after the last. Its hypothesis is what the scripts
achieve, and is `PassesEarned`; together they give `ExitMeansFixed`.

*The verdicts.* `VerdictProofs` follows a body of a scenario through its script,
for every script at once where that is possible. Its operators over scripts
(`Added`, `Started`, `Up`, `After`, `WasUp`) say what the instructions before the
next one have done to a host, and a few lemmas per script (`InScenario0` and
`RemovalIn0`, and so on) place its calls.

- *What holds of the table at any time* is `BaseInv`: which states a kind of
  Envoy can show at all (`HostsInv`), and that the configuration served is the
  one the script has set (`ConfigInv`).
- *What the script has done.* `CallsInv`: backends started are running,
  endpoints added are served. `UpInv`: a host that a wait has confirmed as
  healthy stays so until it is removed. `QuietInv`: a host not yet added is not
  listed, in the isolated scenarios, by `CleanInv`. `StuckInv`: an Envoy without
  a timer for a host keeps it while its backend runs. `RemovalInv`: after a
  removal the push is either not applied, and the instructions since have taken
  at most the lag, or applied to every host it removes.
- *Time.* `SlowInv`: a removal is not over before its timeout, counted from
  `t0` or from the instruction. `LateInv`: the timer of a pending host is not
  behind by more than the lag. `PromptInv`: between the removal and a sample
  nothing takes time but lost polls, which `BoundsAssumption` limits, so a host
  cannot go in between. `ReturnInv`: what a host that is added again has on its
  timer when the sleep after it begins.
- *One defect.* `HastyInv`, `ConstantInv` and `TwinInv` (two hosts that a blind
  or contagious Envoy treats alike have equal timers) say what these kinds
  do in the scenarios that expose them.
- *Backends that were not started.* These invariants hold of a body whose
  backends were started (`Backed`): `UnstartedInv` says that only scenarios begun
  are in `unstarted`. An isolated scenario without a backend is covered by
  `LackInv`: a host whose backend is missing is never healthy (`HealthyAt`), so
  the body never gets past the first wait that asks for it.
- `BarrierInv` concludes: with a kind in `Defects(scenario)` a body never gets
  past one instruction, which `Barrier` names per kind and script.
  `PassesAreEarned` says nothing before the end of a body; `BarrierInv` says it
  at each step.

`BodiesSettled` needs what a stress body may leave: `SettledInv` says in which
stretch of which script a host may be pending (`InWindow`, the instructions from
a removal to the wait that ends it), and `GoneOver`, that no such wait ends
before the host has gone, since the lag, the timeout and one tick are shorter
than it. The wait may be one whose result the body drops.

*The failures.* `FailureProofs` bounds from above what `VerdictProofs` bounds
from below: a body fails at a wait, a comparison of times or a sample, and with
the feature each is right as long as Envoy stays up (`Answers`).

- *Waits.* `Due(s, q, i, ms)` says that what the poll at `i` looks for is there
  after `ms` by the script alone: a host that was confirmed, a removed host that
  is pending at once, hosts that go after the timeout, a host added again, or a
  host whose backend has stopped. `ScriptsInTime`: every poll whose error is
  returned is due a second before its deadline. `DelayInv`: a body spends in a
  poll at most that, the delay of a push, a tick, and 250 ms for every call lost
  so far, so a deadline is missed only after two of them. It rests on `LagInv`
  (a push is applied within the lag), `ListedInv` (an applied endpoint is
  listed), `HealthyInv` (a named host whose backend runs passes its check) and `BInv`
  (in B the host with the stopped backend goes with the next check, and the
  other one does not).
- *Times measured.* `BoundInv`: the time since `t0` is the time spent in the wait
  before the comparison, so `SlowInv` gives its lower and `DelayInv` its upper
  bound.
- *Samples.* `SampleHolds`: where no call was lost, what a sample must show is
  there, script by script: by `UpInv`, `PromptInv`, `ReturnInv`, `BInv` and
  `EndsInv`. With a lost call this is not so, as a lost poll lets the timer run
  on towards the sample, and the sample itself may be the call that fails.
- `FailInv` concludes: every failure of an isolated scenario, reported or about to
  be, has an excuse (`Excuses`): a crash, two lost calls, one in a script that
  samples, or a backend that was not started.

*Only model-checked.* Liveness (`Terminates`, `BTerminates`, `EnvoyConverges`,
`StopTerminates`, `CallsReturn`, `PortsReleased`), which is out of this
prover's reach. The hypotheses of the strengthenings (`ShapeInv`, `CleanInv`,
`CurrentInv`, `EndsInv`, `JudgedInv`) hold on the instance of the run `harness`.

## Where code and text disagree

Shown by a run:

1. **A slow push overwrites a newer one** (`xds.go:178`, run `xds_overlap`).
   Two stress goroutines change the endpoints; the one that copied the older
   state stores its snapshot last. Both calls have returned, the cache serves
   endpoints that are not the controller's, and nothing pushes again until
   some other call. A stress scenario may fail for it, or wait longer.
2. **`Restart` does not return while Envoy is connected** (`xds.go:96`, run
   `delivery_restart`): GracefulStop waits for streams that end only with
   Envoy. Nothing calls `Restart`. The run rests on Envoy keeping its stream
   when grpc announces the shutdown (GOAWAY), which forbids new streams and
   does not end open ones.
3. **A scenario may run against an old Envoy** (`main.go:195`, run
   `harness_fresh`). "Each scenario gets a fresh Envoy instance"
   (`README.md:42`), but the fatal exit of the stress test does not stop the
   Envoy it has started. In the next process the new Envoy exits because the
   base id and the port are taken; `startEnvoy` and `WaitForReady` do not
   notice. `xds.Stop` of that process would then wait for the old Envoy's
   streams for ever.
4. **A port is not free when `Stop` returns** (`backend.go:70`, run
   `backend_reuse`), if the `Serve` goroutine has not run yet.

Noticed on reading, visible in the modules, without a run of their own:

5. Every path is answered with 200 (`backend.go:40`; `StatusOf` of
   `BackendPool`), where `backend.go:27` promises "404 to everything else". The
   benchmark relies on the 200, so `TypeOK` admits either status on any path.
6. Scenario F shows nothing of a reconnect (`scenarios.go:335`). "Timeout
   survives reconnect" (`README.md:52`), but nothing restarts the server or
   breaks a stream: F passes with an Envoy that loses its timers in a reconnect,
   and its row above is empty. `LostTimersShow` says that it would fail if a
   stream did break in it.
7. The body "HC failure" shows nothing of the fast path (`stress.go:219`).
   "Health check failure fast path" (`README.md:111`), but the body waits 5 s for
   a removal that the timeout of 3 s brings about by itself: it passes with an
   Envoy that ignores the failed check, and its row above is empty.
8. `stress.go:105` says "for the configured duration"; a loop blocked in
   `takePorts` launches one scenario after it. `AtMostOneLateStart` is the
   bound that does hold.
9. `loadgen.go:54` says requests are sent "until ctx is cancelled"; tokens in
   the channel are drained, and select may still prefer a tick. They are
   recorded like the others (`ResultIsComplete`).
10. Scenario E bounds the removal only from above, and G reports an immediate
    removal without looking for the flag.
11. The maximum concurrency of the report (`report.go:90`) can exceed the number
    of scenarios that can hold ports: deferred calls give the ports back before
    the counter is lowered (`stress.go:130`). `MaxConcCovers` states what it is.
12. Scenario H's last sample passes when the call fails (`scenarios.go:444`).
    The wait before it has already seen the count it looks for, so no verdict
    is wrong.
13. An unknown `-stress` profile is noticed after all isolated scenarios have
    run, and their report is lost (`main.go:180`).
14. `GetPercentile` takes the floor of (n-1)p/100, which is below the nearest
    rank; nothing calls it, nor `WriteCSV`. A benchmark scenario named twice
    overwrites its first CSV file.
15. The README names `analyze.R`; the file is `plot.R`.

## Not modelled

* Output: printing, JSON, CSV, logs, `plot.R`. Static files: `envoy.yaml`,
  `envoy-bench.yaml`.
* Durations below 250 ms, and the time the harness itself takes between two
  statements: a host or a machine that is slower than `MaxLag` can fail a
  scenario for no fault of Envoy's.
* The concurrency of the stress bodies against Envoy's table (see `Harness`
  above), and pushes that Envoy applies later than `MaxLag`, be it for finding 1.
* In `StressTest` and in the poller of `Bench`, a call of the admin port that is
  never answered; `Harness` has it.
* The fatal exits of the benchmark (`bench.go:178-239`) leave its Envoy running,
  as `Fatal` of `Bench` shows; what a later process makes of it is modelled in
  `Harness` only, for the exit of the stress test.
* Values of flags that panic at once (`-qps 0`), negative counts.
* Envoy's removal logic, which is another repository's: `EnvoyHosts` is what
  the scenarios assume of it.
* Listen errors of `Start` of the controller, which end the process, are left
  out of `XDSController`; `SetupFails` of `Harness` and `Bench` has them.

## Plan

Done, in this order: controller and its abstract store, delivery to Envoy,
stress runner, backend pool, load generator, benchmark, admin client, scenarios
against kinds of Envoy, harness lifecycle; proofs of the theorems in the
table above.

Next:

1. The stress test's bodies concurrently against `EnvoyHosts`: `StressTest`
   composed with `XDSController` and a table per port.
