------------------------------- MODULE Bench -------------------------------
(***************************************************************************)
(* The benchmark of bench.go: for each scenario named on the command line  *)
(* an xDS server, backends and an Envoy are started, a load generator and  *)
(* a poller of Envoy's hosts run beside the goroutine of runBenchScenario, *)
(* which sleeps for the warm-up, swaps the endpoints, waits for the load,  *)
(* stops the poller and collects.  Everything is stopped by deferred calls, *)
(* which a panic runs and log.Fatalf does not.                             *)
(*                                                                         *)
(* The clock counts from the start of the load; it advances when nothing   *)
(* that is due is left to do.                                              *)
(*                                                                         *)
(* A definition named Op_Fault is a faulty form of Op; no specification    *)
(* uses it.                                                                *)
(***************************************************************************)
EXTENDS LoadGen, Sequences

CONSTANTS
  Configs,        \* command lines: the scenarios, -warmup and -healthy-count
  TestDuration,   \* the value of -duration
  TotalCount,     \* the value of -total-count
  MaxSamples      \* bound: samples of the poller that succeed

ASSUME BenchAssumption ==
  /\ Configs \subseteq [Scenarios : Seq(STRING), WarmupDuration : Nat, HealthyCount : Nat]
  /\ \A c \in Configs : c.Scenarios # <<>>      \* there is a default
  /\ {TestDuration, TotalCount, MaxSamples} \subseteq Nat

VARIABLES
  cfg,         \* the configuration of parseBenchFlags
  main,        \* where runBench and runBenchScenario are
  run,         \* the scenario being run
  up,          \* what is running: "xds", "envoy"
  backends,    \* the ports with a running backend
  started,     \* new backends started so far
  clock,       \* time since the load was started
  inLoad,      \* the swap was made before the load ended: "unknown", "yes", "no"
  poller,      \* "off", "select" or "done"
  pollCtx,     \* pollCancel was called
  samples,     \* records of the poller
  epRecords,   \* the channel epRecords: what it holds, or -1
  endpoints,   \* what has been received from it, or -1
  exit         \* "none", "ok", "fatal" or "panic"

pollVars  == <<poller, pollCtx, samples, epRecords>>
upVars    == <<up, backends>>
swapVars  == <<started, clock, inLoad, endpoints>>
benchVars == <<cfg, main, run, upVars, swapVars, pollVars, exit>>
bvars == <<vars, benchVars>>

Presets == {"ignore-hc-true", "ignore-hc-false", "timeout-3000ms"}

InitialPorts == 1..TotalCount
NewPorts == (TotalCount + 1)..(2 * TotalCount)

BInit ==
  /\ Init
  /\ cfg \in Configs
  /\ main = "resolve"
  /\ run = 1
  /\ up = {} /\ backends = {}
  /\ started = 0 /\ clock = 0 /\ inLoad = "unknown" /\ endpoints = -1
  /\ poller = "off" /\ pollCtx = FALSE /\ samples = 0 /\ epRecords = -1
  /\ exit = "none"

-----------------------------------------------------------------------------
(* The end of the process *)

\* log.Fatalf: the goroutines, the server and the backends end with the
\* process; an Envoy that was started goes on.
Fatal ==
  /\ main' = "ended"
  /\ exit' = "fatal"
  /\ up' = up \cap {"envoy"}
  /\ backends' = {}
  /\ UNCHANGED <<vars, cfg, run, swapVars, pollVars>>

Goto(stage) == main' = stage /\ UNCHANGED <<cfg, run, exit>>

-----------------------------------------------------------------------------
(* runBench and the first part of runBenchScenario *)

\* The binary is there, and every name is resolved before anything is started.
Resolve ==
  /\ main = "resolve"
  /\ IF \A i \in 1..Len(cfg.Scenarios) : cfg.Scenarios[i] \in Presets
     THEN Goto("xds") /\ UNCHANGED <<vars, upVars, swapVars, pollVars>>
     ELSE Fatal

\* xds.Start and SetClusterConfig; the port may be taken.
StartServer ==
  /\ main = "xds"
  /\ Goto("backends")
  /\ up' = up \cup {"xds"}
  /\ UNCHANGED <<vars, backends, swapVars, pollVars>>

\* The initial backends, and AddEndpoints.  A port that is in use is fatal.
StartBackends ==
  /\ main = "backends"
  /\ backends \cap InitialPorts = {}
  /\ Goto("envoy")
  /\ backends' = backends \cup InitialPorts
  /\ UNCHANGED <<vars, up, swapVars, pollVars>>

StartEnvoy ==
  /\ main = "envoy"
  /\ Goto("ready")
  /\ up' = up \cup {"envoy"}
  /\ UNCHANGED <<vars, backends, swapVars, pollVars>>

\* A call of these stages fails: the first looks for the Envoy binary with
\* os.Stat, the last waits for Envoy and its hosts.
SetupFails == main \in {"resolve", "xds", "backends", "envoy", "ready"} /\ Fatal

\* ReplaceEndpoints fails.
SwapFails == main = "start new" /\ started >= cfg.HealthyCount /\ Fatal

\* Envoy is ready and the hosts are healthy: the poller and the load start.
StartLoad ==
  /\ main = "ready"
  /\ Goto("warmup")
  /\ poller' = "select"
  /\ UNCHANGED <<vars, upVars, swapVars, pollCtx, samples, epRecords>>

-----------------------------------------------------------------------------
(* The swap and the end of a scenario *)

WarmedUp ==
  /\ main = "warmup"
  /\ clock >= cfg.WarmupDuration
  /\ Goto("start new")
  /\ UNCHANGED <<vars, upVars, swapVars, pollVars>>

\* Fault: the ports are counted from one.
StartNew_FromOne ==
  /\ main = "start new"
  /\ started < cfg.HealthyCount
  /\ started' = started + 1
  /\ backends' = backends \cup {TotalCount + started + 2}
  /\ UNCHANGED <<vars, main, exit, up, cfg, run, clock, inLoad, endpoints, pollVars>>

\* One healthy backend.  An error is a warning; an index out of range panics
\* and the deferred calls run.
StartNew ==
  /\ main = "start new"
  /\ started < cfg.HealthyCount
  /\ started' = started + 1
  /\ IF started < TotalCount
     THEN /\ main' = main /\ exit' = exit
          /\ \E more \in {{}, {TotalCount + started + 1}} : backends' = backends \cup more
     ELSE main' = "stop envoy" /\ exit' = "panic" /\ backends' = backends
  /\ UNCHANGED <<vars, up, cfg, run, clock, inLoad, endpoints, pollVars>>

\* ReplaceEndpoints.
Swap ==
  /\ main = "start new"
  /\ started >= cfg.HealthyCount
  /\ Goto("wait")
  /\ inLoad' = IF loop = "select" THEN "yes" ELSE "no"
  /\ UNCHANGED <<vars, upVars, started, clock, endpoints, pollVars>>

\* loadResult := <-loadDone, and pollCancel.
LoadIsDone ==
  /\ main = "wait"
  /\ loop = "returned"
  /\ Goto("collect")
  /\ pollCtx' = TRUE
  /\ UNCHANGED <<vars, upVars, swapVars, poller, samples, epRecords>>

\* Fault: the records are taken if they are there.
Collect_NoWait ==
  /\ main = "collect"
  /\ Goto("stop envoy")
  /\ endpoints' = IF epRecords = -1 THEN 0 ELSE epRecords
  /\ epRecords' = -1
  /\ UNCHANGED <<vars, upVars, started, clock, inLoad, poller, pollCtx, samples>>

\* endpoints := <-epRecords, and the CSV file.
Collect ==
  /\ main = "collect"
  /\ epRecords # -1
  /\ Goto("stop envoy")
  /\ endpoints' = epRecords
  /\ epRecords' = -1
  /\ UNCHANGED <<vars, upVars, started, clock, inLoad, poller, pollCtx, samples>>

\* The deferred calls: loadCancel and envoy.Stop, xds.Stop, StopAll.
StopEnvoy ==
  /\ main = "stop envoy"
  /\ Goto("stop xds")
  /\ up' = up \ {"envoy"}
  /\ cancelled' = TRUE
  /\ UNCHANGED <<backends, tick, ticks, loop, work, closed, workerVars, merged, skipped, swapVars, pollVars>>

\* GracefulStop waits for Envoy's streams.
StopServer ==
  /\ main = "stop xds"
  /\ "envoy" \notin up
  /\ Goto("stop backends")
  /\ up' = up \ {"xds"}
  /\ UNCHANGED <<vars, backends, swapVars, pollVars>>

\* Fault: the first backends only are stopped.
StopBackends_Initial ==
  /\ main = "stop backends"
  /\ Goto("returned")
  /\ backends' = backends \ InitialPorts
  /\ UNCHANGED <<vars, up, swapVars, pollVars>>

StopBackends ==
  /\ main = "stop backends"
  /\ Goto("returned")
  /\ backends' = {}
  /\ UNCHANGED <<vars, up, swapVars, pollVars>>

\* The next scenario, with state of its own.
NextRun ==
  /\ main = "returned"
  /\ exit = "none" /\ run < Len(cfg.Scenarios)
  /\ main' = "xds"
  /\ run' = run + 1
  /\ cancelled' = FALSE /\ tick' = FALSE /\ ticks' = 0 /\ loop' = "select"
  /\ work' = 0 /\ closed' = FALSE /\ merged' = NoRecords /\ skipped' = 0
  /\ pc' = [w \in Workers |-> "receive"]
  /\ records' = [w \in Workers |-> NoRecords]
  /\ started' = 0 /\ clock' = 0 /\ inLoad' = "unknown" /\ endpoints' = -1
  /\ poller' = "off" /\ pollCtx' = FALSE /\ samples' = 0 /\ epRecords' = -1
  /\ UNCHANGED <<cfg, upVars, exit>>

ReturnFromMain ==
  /\ main = "returned"
  /\ exit = "panic" \/ run = Len(cfg.Scenarios)
  /\ main' = "ended"
  /\ exit' = IF exit = "panic" THEN exit ELSE "ok"
  /\ UNCHANGED <<vars, cfg, run, upVars, swapVars, pollVars>>

-----------------------------------------------------------------------------
(* The goroutines beside it *)

\* The load runs from the end of the set-up to the end of the process.
Loading == poller # "off" /\ main # "ended"

\* Fault: the load has the warm-up for its duration.
LoadDeadline_Warmup == cfg.WarmupDuration

\* The timeout of loadCtx.
LoadDeadline == TestDuration

LoadStep ==
  /\ Loading
  /\ \/ Tick \/ TakeTick \/ TakeDone \/ Merge
     \/ \E w \in Workers : WorkerStep(w)
     \/ clock >= LoadDeadline /\ Cancel
  /\ UNCHANGED benchVars

\* Fault: the poller also ends by itself when a call fails.
PollerSamples_GiveUp ==
  /\ Loading /\ poller = "select"
  /\ poller' \in {"select", "done"}
  /\ UNCHANGED <<vars, cfg, main, run, upVars, swapVars, pollCtx, samples, epRecords, exit>>

\* The ticker's case of the select: an answer of Envoy is a record, an error
\* is not.
PollerSamples ==
  /\ Loading /\ poller = "select"
  /\ "envoy" \in up /\ samples < MaxSamples
  /\ samples' = samples + 1
  /\ UNCHANGED <<vars, cfg, main, run, upVars, swapVars, poller, pollCtx, epRecords, exit>>

\* The cancellation: one send into a channel with room for it.
PollerEnds ==
  /\ Loading /\ poller = "select"
  /\ pollCtx
  /\ poller' = "done"
  /\ epRecords' = samples
  /\ UNCHANGED <<vars, cfg, main, run, upVars, swapVars, pollCtx, samples, exit>>

\* Time passes when no goroutine has something due.
ClockAdvances ==
  /\ Loading
  /\ \/ main = "warmup" /\ clock < cfg.WarmupDuration
     \/ main = "wait" /\ loop = "select"
  /\ clock >= LoadDeadline => loop # "select"
  /\ clock' = clock + 1
  /\ UNCHANGED <<vars, cfg, main, run, upVars, started, inLoad, endpoints, pollVars, exit>>

-----------------------------------------------------------------------------

MainStep ==
  \/ Resolve
  \/ StartServer
  \/ StartBackends
  \/ StartEnvoy
  \/ StartLoad
  \/ WarmedUp
  \/ StartNew
  \/ Swap
  \/ LoadIsDone
  \/ Collect
  \/ StopEnvoy
  \/ StopServer
  \/ StopBackends
  \/ NextRun
  \/ ReturnFromMain

Ended == main = "ended" /\ UNCHANGED bvars

BNext ==
  \/ MainStep
  \/ SetupFails
  \/ SwapFails
  \/ LoadStep
  \/ PollerSamples
  \/ PollerEnds
  \/ ClockAdvances
  \/ Ended

BSpec == BInit /\ [][BNext]_bvars

\* Goroutines are scheduled, time passes, Envoy answers or refuses; select
\* does not pass over a cancellation for ever.
BFairness ==
  /\ WF_bvars(MainStep)
  /\ WF_bvars(ClockAdvances)
  /\ SF_bvars(PollerEnds)
  /\ WF_bvars(Loading /\ clock >= LoadDeadline /\ Cancel /\ UNCHANGED benchVars)
  /\ WF_bvars(Loading /\ TakeDone /\ UNCHANGED benchVars)
  /\ WF_bvars(Loading /\ Merge /\ UNCHANGED benchVars)
  /\ \A w \in Workers : WF_bvars(Loading /\ WorkerStep(w) /\ UNCHANGED benchVars)

BFairSpec == BSpec /\ BFairness

-----------------------------------------------------------------------------
(* Properties *)

\* The shape of the state; the new backends are ports of newPorts.
BTypeOK ==
  /\ cfg \in Configs
  /\ run \in 1..Len(cfg.Scenarios)
  /\ up \subseteq {"xds", "envoy"} /\ backends \subseteq InitialPorts \cup NewPorts
  /\ started \in 0..TotalCount + 1
  /\ inLoad \in {"unknown", "yes", "no"}
  /\ poller \in {"off", "select", "done"} /\ pollCtx \in BOOLEAN
  /\ {samples, epRecords, endpoints} \subseteq -1..MaxSamples
  /\ exit \in {"none", "ok", "fatal", "panic"}

\* The endpoints are swapped while the load is running if the warm-up is the
\* shorter of the two times, and after it if it is the longer one: then the
\* file compares nothing (bench.go:214-241).
SwapIsInLoad ==
  /\ inLoad = "no"  => cfg.WarmupDuration >= TestDuration
  /\ inLoad = "yes" => cfg.WarmupDuration <= TestDuration

\* What is written is complete: when a scenario has been collected, the
\* workers and the poller have ended and their last records are in
\* (bench.go:244-246).
NothingIsRunningWhenCollected ==
  main \in {"stop envoy", "stop xds", "stop backends", "returned"} /\ exit # "panic" =>
    /\ loop = "returned" /\ \A w \in Workers : pc[w] = "done"
    /\ poller = "done" /\ endpoints = samples

\* A scenario begins with ports, servers and Envoy of the last one gone, or
\* StartBackends would be fatal for it; and nothing is left at the end, nor
\* by a panic in the middle of a run (bench.go:138-175, 230).
NothingIsLeft ==
  main = "xds" \/ (main = "ended" /\ exit # "fatal") => up = {} /\ backends = {}

\* The benchmark ends, however the load, the poller and the sleep of the
\* warm-up are interleaved (bench.go:244-246).
BTerminates == <>(main = "ended")

=============================================================================
