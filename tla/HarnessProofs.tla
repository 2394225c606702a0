--------------------------- MODULE HarnessProofs ---------------------------
(***************************************************************************)
(* Proofs about main and the scenarios it runs, for every kind of Envoy,   *)
(* profile, delay of Envoy and bound on hosts, faults and bodies: where an *)
(* Envoy is left behind, the shape of the state, what a scenario begins    *)
(* with, what a wait for no host leaves, and the exit status.              *)
(***************************************************************************)
EXTENDS Harness, FiniteSetTheorems, TLAPS

\* The Envoy of a scenario is stopped, or not yet started, wherever main can
\* end the process; the stress test's may be left by the wait for /ready.
ChildInv ==
  /\ main \in {"begin", "launch", "server", "report"} => child = "none"
  /\ orphan => main = "exited" /\ exit = "fatal" /\ InStress

LEMMA EndProcessChild ==
  ASSUME ChildInv, NEW code, EndProcess(code), main # "exited",
         child = "none" \/ (code = "fatal" /\ InStress)
  PROVE  ChildInv'
BY DEF ChildInv, EndProcess, InStress

LEMMA MainStepChild == ChildInv /\ MainStep => ChildInv'
<1> SUFFICES ASSUME ChildInv, MainStep PROVE ChildInv'
  OBVIOUS
<1> USE DEF ChildInv, InStress, processVars, reportVars
<1>1. CASE StartServer
  BY <1>1 DEF StartServer
<1>2. CASE UnknownProfile
  BY <1>2, EndProcessChild DEF UnknownProfile
<1>3. CASE StartEnvoy
  BY <1>3 DEF StartEnvoy
<1>4. CASE EnvoyIsReady
  BY <1>4 DEF EnvoyIsReady
<1>5. CASE EnvoyIsNotReady
  <2>1. CASE InStress
    BY <1>5, <2>1, EndProcessChild DEF EnvoyIsNotReady
  <2>2. CASE ~InStress
    BY <1>5, <2>2 DEF EnvoyIsNotReady
  <2>3. QED
    BY <2>1, <2>2
<1>6. CASE NextBody \/ Finish
  BY <1>6 DEF NextBody, Finish, Judged
<1>7. CASE StopEnvoy
  BY <1>7 DEF StopEnvoy
<1>8. CASE StopServer
  BY <1>8 DEF StopServer
<1>9. CASE Exit
  BY <1>9, EndProcessChild DEF Exit
<1>10. CASE main = "run" /\ BodyStep /\ UNCHANGED <<processVars, reportVars>>
  BY <1>10
<1>11. QED
  BY <1>1, <1>2, <1>3, <1>4, <1>5, <1>6, <1>7, <1>8, <1>9, <1>10 DEF MainStep

LEMMA OthersChild ==
  ASSUME ChildInv, EnvoyStep \/ EnvoyCrashes \/ StreamBreaks \/ CallHangs \/ Passage \/ Exited
           \/ UNCHANGED vars
  PROVE  ChildInv'
<1> USE DEF ChildInv, InStress, processVars, reportVars
<1>1. CASE EnvoyBecomesReady
  BY <1>1 DEF EnvoyBecomesReady
<1>2. CASE EnvoyCrashes
  BY <1>2 DEF EnvoyCrashes
<1>3. CASE OrphanBecomesReady \/ StreamBreaks \/ Passage
  BY <1>3 DEF OrphanBecomesReady, StreamBreaks, Passage
<1>4. CASE Exited \/ UNCHANGED vars
  BY <1>4 DEF Exited, vars
<1>5. CASE CallHangs
  BY <1>5 DEF CallHangs
<1>6. QED
  BY <1>1, <1>2, <1>3, <1>4, <1>5 DEF EnvoyStep

LEMMA ChildNext == ChildInv /\ [Next]_vars => ChildInv'
<1> SUFFICES ASSUME ChildInv, [Next]_vars PROVE ChildInv'
  OBVIOUS
<1>1. CASE SetupFails
  BY <1>1, EndProcessChild DEF SetupFails, ChildInv
<1>2. QED
  BY <1>1, MainStepChild, OthersChild DEF Next

LEMMA ChildInitially == Init => ChildInv
BY DEF Init, ChildInv

\* The one way for an Envoy to outlive its harness is the Fatalf of the stress
\* test, whatever crashes, breaks or fails (main.go:194-196).
THEOREM OrphansExplained == Spec => []OrphanFromStressOnly
<1>1. ChildInv => OrphanFromStressOnly
  BY DEF ChildInv, OrphanFromStressOnly
<1>2. QED
  BY ChildInitially, ChildNext, <1>1, PTL DEF Spec

\* The Envoy that answers is the one this process has started.
AnswersInv == answering /\ main # "exited" => child = "ready"

LEMMA AnswersNext == ChildInv /\ AnswersInv /\ [Next]_vars => AnswersInv'
<1> SUFFICES ASSUME ChildInv, AnswersInv, [Next]_vars PROVE AnswersInv'
  OBVIOUS
<1> USE DEF ChildInv, AnswersInv
<1>1. CASE MainStep
  <2>1. CASE StartServer \/ EnvoyIsReady \/ NextBody \/ Finish \/ StopServer
    BY <2>1 DEF StartServer, EnvoyIsReady, NextBody, Finish, StopServer, Judged, processVars,
                scenarioVars
  <2>2. CASE StartEnvoy
    BY <2>2 DEF StartEnvoy, scenarioVars
  <2>3. CASE UnknownProfile \/ EnvoyIsNotReady \/ Exit
    BY <2>3 DEF UnknownProfile, EnvoyIsNotReady, Exit, EndProcess
  <2>4. CASE StopEnvoy
    BY <2>4 DEF StopEnvoy
  <2>5. CASE main = "run" /\ BodyStep /\ UNCHANGED <<processVars, reportVars>>
    BY <2>5 DEF BodyStep, Call, StartFails, PollSucceeds, TimeIsUp, CompareElapsed, TakeSample,
                SampleFails, Pass, processVars
  <2>6. QED
    BY <1>1, <2>1, <2>2, <2>3, <2>4, <2>5 DEF MainStep
<1>2. CASE SetupFails
  BY <1>2 DEF SetupFails, EndProcess
<1>3. CASE EnvoyBecomesReady \/ OrphanBecomesReady \/ EnvoyCrashes
  BY <1>3 DEF EnvoyBecomesReady, OrphanBecomesReady, EnvoyCrashes, processVars
<1>4. CASE StreamBreaks \/ Passage \/ (EnvoyApplies /\ UNCHANGED <<processVars, reportVars>>)
  BY <1>4 DEF StreamBreaks, Passage, Tick, EnvoyApplies, processVars
<1>5. CASE Exited \/ UNCHANGED vars
  BY <1>5 DEF Exited, vars, scenarioVars, processVars
<1>6. CASE CallHangs
  BY <1>6 DEF CallHangs, scenarioVars
<1>7. QED
  BY <1>1, <1>2, <1>3, <1>4, <1>5, <1>6 DEF Next, EnvoyStep

\* In a first process no scenario talks to an Envoy other than its own; what
\* a later process may find is in RerunSpec (README.md:42, main.go:62-74).
THEOREM FirstProcessIsFresh == Spec => []FreshEnvoy
<1>1. Init => AnswersInv
  BY DEF Init, AnswersInv
<1>2. AnswersInv => FreshEnvoy
  BY DEF AnswersInv, FreshEnvoy
<1>3. QED
  BY ChildInitially, ChildNext, AnswersNext, <1>1, <1>2, PTL DEF Spec

-----------------------------------------------------------------------------
(* The scripts: what every instruction looks like                          *)

Deadlines == {1000, 2000, 3000, 5000, 8000, 10000, 15000}

Conditions == {"healthy", "flag", "present", "listed", "gone", "count"}

Plain ==
  [op : {"start", "stop", "add", "remove"}, on : SUBSET Hosts]
  \cup [op : {"config"}, timeoutMs : {500, 5000}, healthChecks : BOOLEAN]
  \cup [op : {"bound"}, lo : Nat, hi : Nat]
  \cup [op : {"sleep"}, within : Deadlines]
  \cup [op : {"wait"}, condition : Conditions, n : Nat, within : Deadlines, must : BOOLEAN]
  \cup [op : {"check"}, strict : BOOLEAN, expected : SUBSET (Conditions \X Nat)]

Instructions == Plain \cup {Mark}

\* A mark is followed by one poll of at most 8 s and by the comparison, which
\* ends the script.
MarkedEnd(q) ==
  \A m \in 1..Len(q) : q[m].op = "mark" =>
    /\ Len(q) = m + 2
    /\ q[m + 1].op = "wait" /\ q[m + 1].within <= 8000
    /\ q[m + 2].op = "bound"

Scenarios == Range(AllIsolatedScenarios) \cup StressBodies

LEMMA InstructionFields ==
  ASSUME NEW i \in Instructions
  PROVE  /\ i.op \in {"start", "stop", "add", "remove", "config", "mark", "bound", "sleep",
                      "wait", "check"}
         /\ i.op \in {"start", "stop", "add", "remove"} => i.on \in SUBSET Hosts
         /\ i.op = "config" => i.timeoutMs \in {500, 5000} /\ i.healthChecks \in BOOLEAN
         /\ i.op \in {"sleep", "wait"} => i.within \in Deadlines
BY DEF Plain, Instructions, Mark

LEMMA PlainOps == \A i \in Plain : i.op # "mark"
BY DEF Plain

LEMMA SomeHosts == 1 \in Hosts /\ 2 \in Hosts /\ Two \in SUBSET Hosts /\ {1} \in SUBSET Hosts
                   /\ {2} \in SUBSET Hosts
BY EnvoyAssumption DEF Hosts, Two

LEMMA CallTypes ==
  /\ \A op \in {"start", "stop", "add", "remove"}, S \in SUBSET Hosts : Do(op, S) \in Plain
  /\ SetClusterConfig(500) \in Plain
  /\ SetClusterConfigNoHC(5000) \in Plain
  /\ \A ms \in Deadlines : Sleep(ms) \in Plain
  /\ \A lo \in Nat, hi \in Nat : Within(lo, hi) \in Plain
BY DEF Do, SetClusterConfig, SetClusterConfigNoHC, Sleep, Within, Plain

LEMMA PollTypes ==
  \A c \in Conditions, n \in Nat, ms \in Deadlines :
    Await(c, n, ms) \in Plain /\ Try(c, n, ms) \in Plain
BY DEF Await, Try, Plain

LEMMA WaitTypes ==
  \A n \in Nat : /\ Pending(n) \in Plain /\ TryPending(n) \in Plain
                 /\ Healthy(n) \in Plain /\ Present(n) \in Plain
                 /\ HealthyIn(15000, n) \in Plain
<1> SUFFICES ASSUME NEW n \in Nat
             PROVE  /\ Pending(n) \in Plain /\ TryPending(n) \in Plain
                    /\ Healthy(n) \in Plain /\ Present(n) \in Plain
                    /\ HealthyIn(15000, n) \in Plain
  OBVIOUS
<1>1. 5000 \in Deadlines /\ 10000 \in Deadlines /\ 15000 \in Deadlines
  BY DEF Deadlines
<1>2. "flag" \in Conditions /\ "healthy" \in Conditions /\ "present" \in Conditions
  BY DEF Conditions
<1>3. Pending(n) \in Plain /\ TryPending(n) \in Plain
  BY PollTypes, <1>1, <1>2 DEF Pending, TryPending
<1>4. Healthy(n) \in Plain /\ HealthyIn(15000, n) \in Plain
  BY PollTypes, <1>1, <1>2 DEF Healthy, HealthyIn
<1>5. Present(n) \in Plain
  BY PollTypes, <1>1, <1>2 DEF Present
<1>6. QED
  BY <1>3, <1>4, <1>5

LEMMA SampleTypes ==
  /\ \A E \in SUBSET (Conditions \X Nat) :
       StrictSample(E) \in Plain /\ Sample(E) \in Plain
  /\ \A c \in Conditions, n \in Nat : {<<c, n>>} \in SUBSET (Conditions \X Nat)
  /\ \A c \in Conditions : AllOf(c) \in SUBSET (Conditions \X Nat)
BY DEF Sample, StrictSample, Plain, AllOf

LEMMA SetupTypes == Setup \in Seq(Plain) /\ SetupOne \in Seq(Plain)
<1>1. /\ Do("start", Two) \in Plain /\ Do("add", Two) \in Plain
      /\ Do("start", {1}) \in Plain /\ Do("add", {1}) \in Plain
  BY SomeHosts, CallTypes
<1>2. Healthy(1) \in Plain /\ Healthy(2) \in Plain
  BY WaitTypes
<1>3. QED
  BY <1>1, <1>2 DEF Setup, SetupOne

LEMMA ManyTypes ==
  /\ Do("remove", Two) \in Plain /\ Do("remove", {1}) \in Plain
  /\ Do("remove", {2}) \in Plain /\ Do("remove", Hosts) \in Plain
  /\ Do("add", Two) \in Plain /\ Do("add", {1}) \in Plain
  /\ Do("add", Hosts) \in Plain
  /\ Do("stop", {1}) \in Plain
  /\ Do("start", Two) \in Plain /\ Do("start", Hosts) \in Plain
  /\ Pending(1) \in Plain /\ Pending(2) \in Plain
  /\ TryPending(1) \in Plain /\ TryPending(2) \in Plain
  /\ Healthy(1) \in Plain /\ Healthy(2) \in Plain
  /\ Present(1) \in Plain /\ Present(2) \in Plain
  /\ Sleep(1000) \in Plain /\ Sleep(2000) \in Plain
  /\ Sleep(5000) \in Plain /\ Sleep(10000) \in Plain
<1>1. Hosts \in SUBSET Hosts
  OBVIOUS
<1>2. {1000, 2000, 5000, 10000} \subseteq Deadlines
  BY DEF Deadlines
<1>3. QED
  BY <1>1, <1>2, SomeHosts, CallTypes, WaitTypes

\* Sequences put together from their elements.
LEMMA Extend4 ==
  ASSUME NEW S, NEW p \in Seq(S), NEW a \in S, NEW b \in S, NEW c \in S, NEW d \in S
  PROVE  p \o <<a, b, c, d>> \in Seq(S)
<1>1. <<a, b, c, d>> \in Seq(S)
  OBVIOUS
<1>2. QED
  BY <1>1

LEMMA Extend5 ==
  ASSUME NEW S, NEW p \in Seq(S), NEW a \in S, NEW b \in S, NEW c \in S, NEW d \in S,
         NEW e \in S
  PROVE  p \o <<a, b, c, d, e>> \in Seq(S)
<1>1. <<a, b, c, d, e>> \in Seq(S)
  OBVIOUS
<1>2. QED
  BY <1>1

LEMMA Extend6 ==
  ASSUME NEW S, NEW p \in Seq(S), NEW a \in S, NEW b \in S, NEW c \in S, NEW d \in S,
         NEW e \in S, NEW f \in S
  PROVE  p \o <<a, b, c, d, e, f>> \in Seq(S)
<1>1. <<a, b, c, d, e, f>> \in Seq(S)
  OBVIOUS
<1>2. QED
  BY <1>1

LEMMA Extend7 ==
  ASSUME NEW S, NEW p \in Seq(S), NEW a \in S, NEW b \in S, NEW c \in S, NEW d \in S,
         NEW e \in S, NEW f \in S, NEW g \in S
  PROVE  p \o <<a, b, c, d, e, f, g>> \in Seq(S)
<1>1. <<a, b, c, d, e, f, g>> \in Seq(S)
  OBVIOUS
<1>2. QED
  BY <1>1

LEMMA Extend9 ==
  ASSUME NEW S, NEW p \in Seq(S), NEW a \in S, NEW b \in S, NEW c \in S, NEW d \in S,
         NEW e \in S, NEW f \in S, NEW g \in S, NEW h \in S, NEW i \in S
  PROVE  p \o <<a, b, c, d, e, f, g, h, i>> \in Seq(S)
<1>1. <<a, b, c, d, e, f, g, h, i>> \in Seq(S)
  OBVIOUS
<1>2. QED
  BY <1>1

LEMMA Tuple4 ==
  ASSUME NEW S, NEW a \in S, NEW b \in S, NEW c \in S, NEW d \in S
  PROVE  <<a, b, c, d>> \in Seq(S)
OBVIOUS

LEMMA Tuple5 ==
  ASSUME NEW S, NEW a \in S, NEW b \in S, NEW c \in S, NEW d \in S,
         NEW e \in S
  PROVE  <<a, b, c, d, e>> \in Seq(S)
OBVIOUS

LEMMA Tuple6 ==
  ASSUME NEW S, NEW a \in S, NEW b \in S, NEW c \in S, NEW d \in S,
         NEW e \in S, NEW f \in S
  PROVE  <<a, b, c, d, e, f>> \in Seq(S)
OBVIOUS

LEMMA MarkedScript ==
  ASSUME NEW p \in Seq(Plain), NEW w \in Plain, NEW b \in Plain,
         w.op = "wait", w.within <= 8000, b.op = "bound"
  PROVE  p \o <<Mark, w, b>> \in Seq(Instructions) /\ MarkedEnd(p \o <<Mark, w, b>>)
<1> DEFINE q == p \o <<Mark, w, b>>
           n == Len(p)
<1>1. p \in Seq(Instructions) /\ <<Mark, w, b>> \in Seq(Instructions) /\ n \in Nat
  BY DEF Instructions
<1>2. q \in Seq(Instructions)
  BY <1>1
<1>3. /\ Len(q) = n + 3
      /\ \A i \in 1..n : q[i] = p[i]
      /\ q[n + 1] = Mark /\ q[n + 2] = w /\ q[n + 3] = b
  BY <1>1
<1>4. \A i \in 1..n : p[i].op # "mark"
  BY PlainOps
<1> HIDE DEF q, n
<1>5. ASSUME NEW m \in 1..Len(q), q[m].op = "mark"
      PROVE  m = n + 1
  BY <1>1, <1>3, <1>4, <1>5
<1>6. MarkedEnd(q)
  BY <1>1, <1>3, <1>5 DEF MarkedEnd
<1>7. QED
  BY <1>2, <1>6 DEF q

LEMMA PlainScript ==
  ASSUME NEW q \in Seq(Plain)
  PROVE  q \in Seq(Instructions) /\ MarkedEnd(q)
BY PlainOps DEF Instructions, MarkedEnd

\* The instructions with a deadline or an expectation of their own.
LEMMA OtherTypes ==
  /\ StrictSample(AllOf("flag")) \in Plain /\ Sample(AllOf("flag")) \in Plain
  /\ Sample(AllOf("present")) \in Plain
  /\ Sample({<<"count", 2>>} \cup AllOf("healthy")) \in Plain
  /\ Sample({<<"count", 0>>}) \in Plain
  /\ Sample({<<"flag", 2>>}) \in Plain
  /\ Sample({<<"present", 1>>}) \in Plain
  /\ Sample({<<"present", 2>>}) \in Plain
  /\ Sample({<<"listed", 1>>}) \in Plain
  /\ Await("gone", 1, 3000) \in Plain /\ Await("gone", 1, 5000) \in Plain
  /\ Await("gone", 1, 8000) \in Plain /\ Await("gone", 1, 10000) \in Plain
  /\ Try("gone", 1, 8000) \in Plain /\ Try("gone", 2, 8000) \in Plain
  /\ Await("count", 0, 5000) \in Plain /\ Await("count", 0, 10000) \in Plain
  /\ Await("count", 2, 10000) \in Plain
  /\ Within(400, 3000) \in Plain /\ Within(0, 2000) \in Plain
  /\ Within(2000, 10000) \in Plain
<1>1. /\ "flag" \in Conditions /\ "healthy" \in Conditions /\ "present" \in Conditions
      /\ "gone" \in Conditions /\ "count" \in Conditions /\ "listed" \in Conditions
  BY DEF Conditions
<1>2. /\ 3000 \in Deadlines /\ 5000 \in Deadlines /\ 8000 \in Deadlines /\ 10000 \in Deadlines
      /\ 0 \in Nat /\ 1 \in Nat /\ 2 \in Nat
      /\ 400 \in Nat /\ 2000 \in Nat /\ 3000 \in Nat /\ 10000 \in Nat
  BY DEF Deadlines
<1> DEFINE Expectations == SUBSET (Conditions \X Nat)
<1>3. /\ {<<"count", 0>>} \in Expectations /\ {<<"count", 2>>} \in Expectations
      /\ {<<"flag", 2>>} \in Expectations /\ {<<"listed", 1>>} \in Expectations
      /\ {<<"present", 1>>} \in Expectations /\ {<<"present", 2>>} \in Expectations
      /\ AllOf("flag") \in Expectations /\ AllOf("present") \in Expectations
      /\ AllOf("healthy") \in Expectations
  BY <1>1, SampleTypes
<1>4. {<<"count", 2>>} \cup AllOf("healthy") \in Expectations
  BY <1>3
<1>5. \A E \in Expectations : StrictSample(E) \in Plain /\ Sample(E) \in Plain
  BY SampleTypes
<1> HIDE DEF Expectations
<1>6. /\ StrictSample(AllOf("flag")) \in Plain /\ Sample(AllOf("flag")) \in Plain
      /\ Sample(AllOf("present")) \in Plain
      /\ Sample({<<"count", 2>>} \cup AllOf("healthy")) \in Plain
      /\ Sample({<<"count", 0>>}) \in Plain
      /\ Sample({<<"flag", 2>>}) \in Plain
      /\ Sample({<<"present", 1>>}) \in Plain
      /\ Sample({<<"present", 2>>}) \in Plain
      /\ Sample({<<"listed", 1>>}) \in Plain
  BY <1>3, <1>4, <1>5
<1>7. /\ Await("gone", 1, 3000) \in Plain /\ Await("gone", 1, 5000) \in Plain
      /\ Await("gone", 1, 8000) \in Plain /\ Await("gone", 1, 10000) \in Plain
      /\ Try("gone", 1, 8000) \in Plain /\ Try("gone", 2, 8000) \in Plain
      /\ Await("count", 0, 5000) \in Plain /\ Await("count", 0, 10000) \in Plain
      /\ Await("count", 2, 10000) \in Plain
  BY <1>1, <1>2, PollTypes
<1>8. /\ Within(400, 3000) \in Plain /\ Within(0, 2000) \in Plain
      /\ Within(2000, 10000) \in Plain
  BY <1>2, CallTypes
<1>9. QED
  BY <1>6, <1>7, <1>8

LEMMA ScenarioTypes ==
  /\ {Scenario0, ScenarioA, ScenarioB, ScenarioC, ScenarioE, ScenarioF, ScenarioH}
       \subseteq Seq(Plain)
  /\ ScenarioD \in Seq(Instructions) /\ MarkedEnd(ScenarioD)
  /\ ScenarioG \in Seq(Instructions) /\ MarkedEnd(ScenarioG)
<1>1. Scenario0 \in Seq(Plain)
  BY SetupTypes, ManyTypes, OtherTypes, Extend5 DEF Scenario0
<1>2. ScenarioA \in Seq(Plain)
  BY SetupTypes, ManyTypes, OtherTypes, Extend9 DEF ScenarioA
<1>3. ScenarioB \in Seq(Plain)
  BY SetupTypes, ManyTypes, OtherTypes, Extend6 DEF ScenarioB
<1>4. ScenarioC \in Seq(Plain)
  BY SetupTypes, ManyTypes, OtherTypes, Extend4 DEF ScenarioC
<1>5. ScenarioD \in Seq(Instructions) /\ MarkedEnd(ScenarioD)
  <2> DEFINE p == <<Do("start", Two), SetClusterConfig(500), Do("add", Two), Healthy(1),
                   Healthy(2), Do("remove", Two)>>
             w == Await("count", 0, 5000)
             b == Within(400, 3000)
  <2>1. p \in Seq(Plain) /\ w \in Plain /\ b \in Plain
    BY CallTypes, ManyTypes, OtherTypes, Tuple6
  <2>2. ScenarioD = p \o <<Mark, w, b>>
    BY DEF ScenarioD
  <2>3. w.op = "wait" /\ w.within <= 8000 /\ b.op = "bound"
    BY DEF Await, Within
  <2> HIDE DEF p, w, b
  <2>4. QED
    BY <2>1, <2>2, <2>3, MarkedScript
<1>6. ScenarioE \in Seq(Plain)
  <2>1. [h \in Hosts |-> HealthyIn(15000, h)] \in Seq(Plain)
    BY EnvoyAssumption, WaitTypes DEF Hosts
  <2>2. Await("count", 0, 10000) \in Plain
    BY OtherTypes
  <2>3. /\ <<Do("start", Hosts), Do("add", Hosts)>> \in Seq(Plain)
        /\ <<Do("remove", Hosts), Await("count", 0, 10000)>> \in Seq(Plain)
    BY <2>2, ManyTypes
  <2>4. QED
    BY <2>1, <2>3 DEF ScenarioE
<1>7. ScenarioF \in Seq(Plain)
  BY SetupTypes, ManyTypes, OtherTypes, Extend4 DEF ScenarioF
<1>8. ScenarioG \in Seq(Instructions) /\ MarkedEnd(ScenarioG)
  <2> DEFINE p == <<Do("start", Two), SetClusterConfigNoHC(5000), Do("add", Two),
                   Await("count", 2, 10000), Do("remove", Two)>>
             w == Await("count", 0, 5000)
             b == Within(0, 2000)
  <2>1. p \in Seq(Plain) /\ w \in Plain /\ b \in Plain
    BY CallTypes, ManyTypes, OtherTypes, Tuple5
  <2>2. ScenarioG = p \o <<Mark, w, b>>
    BY DEF ScenarioG
  <2>3. w.op = "wait" /\ w.within <= 8000 /\ b.op = "bound"
    BY DEF Await, Within
  <2> HIDE DEF p, w, b
  <2>4. QED
    BY <2>1, <2>2, <2>3, MarkedScript
<1>9. ScenarioH \in Seq(Plain)
  BY SetupTypes, ManyTypes, OtherTypes, Extend7 DEF ScenarioH
<1>10. QED
  BY <1>1, <1>2, <1>3, <1>4, <1>5, <1>6, <1>7, <1>8, <1>9

LEMMA BodyTypes ==
  /\ {HCFailure, HostReAdd, PartialRemoval, LongLivedHealthy} \subseteq Seq(Plain)
  /\ AddRemoveTimeout \in Seq(Instructions) /\ MarkedEnd(AddRemoveTimeout)
<1>1. AddRemoveTimeout \in Seq(Instructions) /\ MarkedEnd(AddRemoveTimeout)
  <2> DEFINE p == <<Do("start", {1}), Do("add", {1}), Healthy(1), Do("remove", {1})>>
             w == Await("gone", 1, 8000)
             b == Within(2000, 10000)
  <2>0. /\ Do("start", {1}) \in Plain /\ Do("add", {1}) \in Plain
        /\ Healthy(1) \in Plain /\ Do("remove", {1}) \in Plain
    BY SomeHosts, CallTypes, ManyTypes
  <2>1. p \in Seq(Plain) /\ w \in Plain /\ b \in Plain
    <3>1. p \in Seq(Plain)
      BY <2>0, Tuple4
    <3>2. w \in Plain /\ b \in Plain
      BY OtherTypes
    <3>3. QED
      BY <3>1, <3>2
  <2>2. AddRemoveTimeout = p \o <<Mark, w, b>>
    BY DEF AddRemoveTimeout, SetupOne
  <2>3. w.op = "wait" /\ w.within <= 8000 /\ b.op = "bound"
    BY DEF Await, Within
  <2> HIDE DEF p, w, b
  <2>4. QED
    BY <2>1, <2>2, <2>3, MarkedScript
<1>2. HCFailure \in Seq(Plain)
  BY SetupTypes, ManyTypes, OtherTypes, Extend4 DEF HCFailure
<1>3. HostReAdd \in Seq(Plain)
  BY SetupTypes, ManyTypes, OtherTypes, Extend7 DEF HostReAdd
<1>4. PartialRemoval \in Seq(Plain)
  BY SetupTypes, ManyTypes, OtherTypes, Extend5 DEF PartialRemoval
<1>5. LongLivedHealthy \in Seq(Plain)
  BY SetupTypes, ManyTypes, OtherTypes, Extend4 DEF LongLivedHealthy
<1>6. QED
  BY <1>1, <1>2, <1>3, <1>4, <1>5

LEMMA AllScenarioNames ==
  Scenarios = {"0", "A", "B", "C", "D", "E", "F", "G", "H"} \cup StressBodies
<1> DEFINE q == AllIsolatedScenarios
<1>1. Len(q) = 9 /\ DOMAIN q = 1..9
  BY DEF AllIsolatedScenarios
<1>2. /\ q[1] = "0" /\ q[2] = "A" /\ q[3] = "B" /\ q[4] = "C" /\ q[5] = "D"
      /\ q[6] = "E" /\ q[7] = "F" /\ q[8] = "G" /\ q[9] = "H"
  BY DEF AllIsolatedScenarios
<1> HIDE DEF q
<1>3. 1..9 = {1, 2, 3, 4, 5, 6, 7, 8, 9}
  OBVIOUS
<1>4. Range(q) = {q[1], q[2], q[3], q[4], q[5], q[6], q[7], q[8], q[9]}
  BY <1>1, <1>3 DEF Range
<1>5. QED
  BY <1>2, <1>4 DEF Scenarios, q

LEMMA ScriptOf ==
  /\ Script("0") = Scenario0 /\ Script("A") = ScenarioA /\ Script("B") = ScenarioB
  /\ Script("C") = ScenarioC /\ Script("D") = ScenarioD /\ Script("E") = ScenarioE
  /\ Script("F") = ScenarioF /\ Script("G") = ScenarioG /\ Script("H") = ScenarioH
  /\ Script("add/remove/timeout") = AddRemoveTimeout
  /\ Script("HC failure") = HCFailure
  /\ Script("host re-add") = HostReAdd
  /\ Script("partial removal") = PartialRemoval
  /\ Script("long-lived healthy") = LongLivedHealthy
BY Zenon DEF Script

LEMMA ScriptTypes ==
  \A s \in Scenarios : Script(s) \in Seq(Instructions) /\ MarkedEnd(Script(s))
<1> DEFINE Good(q) == q \in Seq(Instructions) /\ MarkedEnd(q)
<1>1. /\ Good(Scenario0) /\ Good(ScenarioA) /\ Good(ScenarioB) /\ Good(ScenarioC)
      /\ Good(ScenarioD) /\ Good(ScenarioE) /\ Good(ScenarioF) /\ Good(ScenarioG)
      /\ Good(ScenarioH)
  BY Zenon, ScenarioTypes, PlainScript
<1>2. /\ Good(AddRemoveTimeout) /\ Good(HCFailure) /\ Good(HostReAdd)
      /\ Good(PartialRemoval) /\ Good(LongLivedHealthy)
  BY Zenon, BodyTypes, PlainScript
<1> HIDE DEF Good
<1>3. \A s \in Scenarios : Good(Script(s))
  BY Zenon, <1>1, <1>2, AllScenarioNames, ScriptOf DEF StressBodies
<1>4. QED
  BY <1>3 DEF Good

-----------------------------------------------------------------------------
(* Envoy's table                                                           *)

States == {"absent", "new", "healthy", "failing", "pending", "readded", "frozen"}

Clusters ==
  [timeoutMs : {0, 500, 3000, 5000}, healthChecks : BOOLEAN, endpoints : SUBSET Hosts]

TableOK ==
  /\ applied \in Clusters
  /\ lag \in 0..MaxLag
  /\ state \in [Hosts -> States]
  /\ age \in [Hosts -> 0..LongestTimeout]

LEMMA LongestNumbers ==
  /\ LongestTimeout \in Nat /\ LongestTimeout >= 5000
  /\ LongestWait \in Nat /\ LongestWait >= 15000
BY DEF LongestTimeout, LongestWait

LEMMA NewStates ==
  /\ \A s \in States : Removed(s) \in States /\ Named(s) \in States
  /\ Removed("absent") = "absent"
<1>1. \A s \in States : Removed(s) \in States
  BY DEF Removed, States
<1>2. \A s \in States : Named(s) \in States
  BY DEF Named, States
<1>3. Removed("absent") = "absent"
  BY DEF Removed
<1>4. QED
  BY <1>1, <1>2, <1>3

LEMMA EmptyTableType ==
  ASSUME EmptyTable
  PROVE  /\ TableOK'
         /\ Listed' = {}
<1>1. NoCluster \in Clusters
  BY DEF NoCluster, Clusters
<1>2. 0 \in 0..MaxLag /\ 0 \in 0..LongestTimeout /\ "absent" \in States
  BY EnvoyAssumption, LongestNumbers DEF States
<1>3. QED
  BY <1>1, <1>2 DEF EmptyTable, TableOK, Listed

LEMMA ApplyTable ==
  ASSUME pushed \in Clusters, TableOK, Apply
  PROVE  /\ TableOK'
         /\ pushed.endpoints = {} /\ Listed = {} => Listed' = {}
<1>1. applied' = pushed /\ lag' = 0
  BY DEF Apply
<1>2. state' \in [Hosts -> States]
  <2>1. \A h \in Hosts : state[h] \in States
    BY DEF TableOK
  <2>2. "absent" \in States
    BY DEF States
  <2>3. QED
    BY <2>1, <2>2, NewStates DEF Apply
<1>3. age' \in [Hosts -> 0..LongestTimeout]
  <2>1. \A h \in Hosts : age[h] \in 0..LongestTimeout
    BY DEF TableOK
  <2>2. 0 \in 0..LongestTimeout
    BY LongestNumbers
  <2>3. QED
    BY <2>1, <2>2 DEF Apply
<1>4. ASSUME pushed.endpoints = {}, Listed = {}
      PROVE  Listed' = {}
  <2>1. Leaving = Hosts
    BY <1>4 DEF Leaving
  <2>2. \A h \in Hosts : state[h] = "absent"
    BY <1>4 DEF Listed
  <2>3. \A h \in Hosts : state'[h] = "absent"
    BY <1>4, <2>1, <2>2, NewStates DEF Apply
  <2>4. QED
    BY <2>3 DEF Listed
<1>5. QED
  BY <1>1, <1>2, <1>3, <1>4, EnvoyAssumption DEF TableOK

LEMMA ReconnectTable ==
  ASSUME TableOK, Reconnect
  PROVE  /\ TableOK'
         /\ Listed' = Listed
<1>1. \A h \in Hosts : state[h] \in States /\ age[h] \in 0..LongestTimeout
  BY DEF TableOK
<1>2. "frozen" \in States /\ 0 \in 0..LongestTimeout
  BY LongestNumbers DEF States
<1>3. state' \in [Hosts -> States]
  BY <1>1, <1>2 DEF Reconnect
<1>4. age' \in [Hosts -> 0..LongestTimeout]
  BY <1>1, <1>2 DEF Reconnect
<1>5. \A h \in Hosts : state'[h] = "absent" <=> state[h] = "absent"
  BY DEF Reconnect
<1>6. QED
  BY <1>3, <1>4, <1>5 DEF Reconnect, TableOK, Listed

LEMMA TickTable ==
  ASSUME TableOK, EnvoyTick
  PROVE  /\ TableOK'
         /\ Listed' \subseteq Listed
<1>1. \A h \in Hosts : state[h] \in States /\ age[h] \in 0..LongestTimeout
  BY DEF TableOK
<1>2. \A h \in Hosts : Checked(h) \in States /\ (state[h] = "absent" => Checked(h) = "absent")
  BY <1>1 DEF Checked, States
<1>3. "absent" \in States
  BY DEF States
<1>4. state' \in [Hosts -> States]
  BY <1>2, <1>3 DEF EnvoyTick
<1>5. Timeout \in {0, 500, 3000, 5000}
  BY DEF Timeout, TableOK, Clusters
<1>6. ASSUME NEW h \in Hosts
      PROVE  age'[h] \in 0..LongestTimeout
  <2>1. age'[h] = IF HasTimer(h) /\ state'[h] = state[h] THEN age[h] + TickMs ELSE 0
    BY DEF EnvoyTick
  <2>2. CASE HasTimer(h) /\ state'[h] = state[h]
    <3>1. state[h] # "absent"
      BY <2>2 DEF HasTimer
    <3>2. ~TimerFires(h)
      BY <2>2, <3>1 DEF EnvoyTick
    <3>3. ~(age[h] + TickMs >= Timeout)
      BY <2>2, <3>2 DEF TimerFires
    <3>4. Timeout = 0 \/ Timeout = 500 \/ Timeout = 3000 \/ Timeout = 5000
      BY <1>5
    <3>5. age[h] \in Nat
      BY <1>1, LongestNumbers
    <3>6. age[h] + TickMs \in 0..LongestTimeout
      BY <3>3, <3>4, <3>5, LongestNumbers DEF TickMs
    <3>7. QED
      BY <2>1, <2>2, <3>6
  <2>3. CASE ~(HasTimer(h) /\ state'[h] = state[h])
    BY <2>1, <2>3, LongestNumbers
  <2>4. QED
    BY <2>2, <2>3
<1>7. age' \in [Hosts -> 0..LongestTimeout]
  BY <1>6 DEF EnvoyTick
<1>8. lag' \in 0..MaxLag
  BY EnvoyAssumption DEF EnvoyTick, TickMs, TableOK
<1>9. \A h \in Hosts : state[h] = "absent" => state'[h] = "absent"
  BY <1>2 DEF EnvoyTick
<1>10. QED
  BY <1>4, <1>7, <1>8, <1>9 DEF EnvoyTick, TableOK, Listed

-----------------------------------------------------------------------------
(* The inductive invariant of the shape of the state                       *)

BodyOK ==
  /\ pushed \in Clusters
  /\ backends \subseteq Hosts
  /\ scenario \in Scenarios
  /\ at \in 1..Len(Script(scenario)) + 1
  /\ verdict \in {"none", "running", "passed", "failed"}

\* A poll or a sleep never outlasts its deadline: deadlines are whole ticks.
WaitedInv ==
  /\ waited \in Nat /\ \E k \in Nat : waited = TickMs * k
  /\ waited # 0 => Is({"wait", "sleep"}) /\ waited <= Instruction.within

\* The clock of a t0 runs with the one poll that follows it, and stands then.
SinceInv ==
  since # -1 =>
    /\ since \in Nat /\ since <= 8000
    /\ \E m \in 1..Len(Script(scenario)) :
         /\ Script(scenario)[m].op = "mark"
         /\ at > m
         /\ at = m + 1 => since = waited

ProcessOK ==
  /\ kind \in Kinds
  /\ answering \in BOOLEAN /\ orphan \in BOOLEAN
  /\ failed \subseteq Scenarios
  /\ child \in {"none", "starting", "ready", "dead"}
  /\ exit \in {"none", "ok", "failed", "fatal"}
  /\ index \in 1..NumIsolated + 1

ShapeInv == TableOK /\ BodyOK /\ WaitedInv /\ SinceInv /\ ProcessOK

LEMMA CurrentInstruction ==
  ASSUME BodyOK, InBody
  PROVE  /\ Instruction \in Instructions
         /\ at \in 1..Len(Script(scenario)) /\ Len(Script(scenario)) \in Nat
         /\ MarkedEnd(Script(scenario))
<1>1. Script(scenario) \in Seq(Instructions) /\ MarkedEnd(Script(scenario))
  BY ScriptTypes DEF BodyOK
<1>2. at \in 1..Len(Script(scenario)) /\ Len(Script(scenario)) \in Nat
  BY <1>1 DEF BodyOK, InBody
<1>3. QED
  BY <1>1, <1>2 DEF Instruction

LEMMA WholeTicks ==
  \A d \in Deadlines : d \in Nat /\ d <= LongestWait /\ \E j \in Nat : d = TickMs * j
<1> SUFFICES ASSUME NEW d \in Deadlines
             PROVE  d \in Nat /\ d <= LongestWait /\ \E j \in Nat : d = TickMs * j
  OBVIOUS
<1>1. \E j \in Nat : d = TickMs * j
  <2>1. d = 1000 \/ d = 2000 \/ d = 3000 \/ d = 5000 \/ d = 8000 \/ d = 10000 \/ d = 15000
    BY DEF Deadlines
  <2>2. \/ d = TickMs * 4 \/ d = TickMs * 8 \/ d = TickMs * 12 \/ d = TickMs * 20
        \/ d = TickMs * 32 \/ d = TickMs * 40 \/ d = TickMs * 60
    BY <2>1 DEF TickMs
  <2>3. QED
    BY <2>2
<1>2. d \in Nat /\ d <= LongestWait
  BY LongestNumbers DEF Deadlines
<1>3. QED
  BY <1>1, <1>2

\* After an instruction that is no mark, the clock of a t0 stands.
LEMMA SinceStands ==
  ASSUME BodyOK, SinceInv, InBody, Instruction.op # "mark",
         at' = at + 1, since' = since, scenario' = scenario
  PROVE  SinceInv'
<1>1. MarkedEnd(Script(scenario)) /\ at \in Nat
  BY CurrentInstruction
<1>2. CASE since = -1
  BY <1>2 DEF SinceInv
<1>3. CASE since # -1
  <2>1. PICK m \in 1..Len(Script(scenario)) : Script(scenario)[m].op = "mark" /\ at > m
    BY <1>3 DEF SinceInv
  <2>2. at' > m /\ at' # m + 1 /\ m \in 1..Len(Script(scenario'))
    BY <1>1, <2>1, CurrentInstruction
  <2>3. QED
    BY <1>3, <2>1, <2>2 DEF SinceInv
<1>4. QED
  BY <1>2, <1>3

LEMMA ContinueShape ==
  ASSUME BodyOK, SinceInv, InBody, Instruction.op # "mark",
         Continue, since' = since, pushed' = pushed
  PROVE  BodyOK' /\ WaitedInv' /\ SinceInv'
<1>1. at' \in 1..Len(Script(scenario')) + 1
  BY CurrentInstruction DEF Continue
<1>2. BodyOK'
  BY <1>1 DEF Continue, BodyOK
<1>3. WaitedInv'
  BY 0 = TickMs * 0 DEF Continue, WaitedInv, TickMs
<1>4. QED
  BY <1>2, <1>3, SinceStands DEF Continue

LEMMA ReturnShape ==
  ASSUME BodyOK, NEW v \in {"passed", "failed"}, Return(v), pushed' = pushed
  PROVE  BodyOK' /\ WaitedInv' /\ SinceInv'
<1>1. BodyOK'
  BY DEF Return, BodyOK
<1>2. WaitedInv'
  BY 0 = TickMs * 0 DEF Return, WaitedInv, TickMs
<1>3. SinceInv'
  BY DEF Return, SinceInv
<1>4. QED
  BY <1>1, <1>2, <1>3

LEMMA ContinueIfShape ==
  ASSUME BodyOK, SinceInv, InBody, Instruction.op # "mark",
         NEW ok, ContinueIf(ok), pushed' = pushed
  PROVE  BodyOK' /\ WaitedInv' /\ SinceInv'
<1>1. CASE ok
  BY <1>1, ContinueShape DEF ContinueIf
<1>2. CASE ~ok
  BY <1>2, ReturnShape DEF ContinueIf
<1>3. QED
  BY <1>1, <1>2

LEMMA CallShape ==
  ASSUME BodyOK, SinceInv, Call
  PROVE  BodyOK' /\ WaitedInv' /\ SinceInv'
<1>1. InBody /\ Instruction.op \in {"start", "stop", "add", "remove", "config", "mark"}
  BY DEF Call, Is
<1>2. /\ Instruction \in Instructions
      /\ at \in 1..Len(Script(scenario)) /\ Len(Script(scenario)) \in Nat
  BY <1>1, CurrentInstruction
<1> DEFINE i == Instruction
<1>3. /\ i.op \in {"start", "stop", "add", "remove"} => i.on \in SUBSET Hosts
      /\ i.op = "config" => i.timeoutMs \in {500, 5000} /\ i.healthChecks \in BOOLEAN
  BY <1>2, InstructionFields
<1>4. pushed' \in Clusters
  <2>1. pushed' = CASE i.op = "add" -> [pushed EXCEPT !.endpoints = @ \cup i.on]
                    [] i.op = "remove" -> [pushed EXCEPT !.endpoints = @ \ i.on]
                    [] i.op = "config" -> [pushed EXCEPT !.timeoutMs = i.timeoutMs,
                                                         !.healthChecks = i.healthChecks]
                    [] OTHER -> pushed
    BY DEF Call
  <2>2. pushed \in Clusters
    BY DEF BodyOK
  <2>3. pushed.endpoints \in SUBSET Hosts
    BY <2>2 DEF Clusters
  <2> HIDE DEF i
  <2>4. CASE i.op = "add"
    <3>1. pushed' = [pushed EXCEPT !.endpoints = @ \cup i.on] /\ i.on \in SUBSET Hosts
      BY <1>3, <2>1, <2>4
    <3>2. QED
      BY <2>2, <2>3, <3>1 DEF Clusters
  <2>5. CASE i.op = "remove"
    <3>1. pushed' = [pushed EXCEPT !.endpoints = @ \ i.on]
      BY <2>1, <2>5
    <3>2. QED
      BY <2>2, <2>3, <3>1 DEF Clusters
  <2>6. CASE i.op = "config"
    <3> DEFINE e == [pushed EXCEPT !.timeoutMs = i.timeoutMs]
    <3>1. i.timeoutMs \in {0, 500, 3000, 5000} /\ i.healthChecks \in BOOLEAN
      BY <1>3, <2>6
    <3>2. e \in Clusters
      BY <2>2, <3>1 DEF Clusters
    <3>3. pushed' = [e EXCEPT !.healthChecks = i.healthChecks]
      BY <2>1, <2>6
    <3> HIDE DEF e
    <3>4. QED
      BY <3>1, <3>2, <3>3 DEF Clusters
  <2>7. CASE i.op \notin {"add", "remove", "config"}
    BY <2>1, <2>2, <2>7
  <2>8. QED
    BY <2>4, <2>5, <2>6, <2>7
<1>5. backends' \subseteq Hosts
  BY <1>3 DEF Call, BodyOK
<1>6. BodyOK'
  BY <1>2, <1>4, <1>5 DEF Call, BodyOK
<1>7. WaitedInv'
  BY 0 = TickMs * 0 DEF Call, WaitedInv, TickMs
<1>8. SinceInv'
  <2>1. CASE i.op = "mark"
    <3>1. since' = 0 /\ waited' = 0 /\ at' = at + 1 /\ scenario' = scenario
      BY <2>1 DEF Call
    <3>2. /\ at \in 1..Len(Script(scenario')) /\ Script(scenario')[at].op = "mark"
          /\ at' > at
      BY <1>2, <2>1, <3>1 DEF Instruction
    <3>3. QED
      BY <3>1, <3>2 DEF SinceInv
  <2>2. CASE i.op # "mark"
    BY <1>1, <2>2, SinceStands DEF Call
  <2>3. QED
    BY <2>1, <2>2
<1>9. QED
  BY <1>6, <1>7, <1>8

LEMMA StartFailsShape ==
  ASSUME BodyOK, SinceInv, StartFails
  PROVE  BodyOK' /\ WaitedInv' /\ SinceInv'
<1>1. InBody /\ Instruction.op = "start"
  BY DEF StartFails, Is
<1>2. /\ Instruction.on \in SUBSET Hosts
      /\ at \in 1..Len(Script(scenario)) /\ Len(Script(scenario)) \in Nat
  BY <1>1, CurrentInstruction, InstructionFields
<1>3. BodyOK'
  BY <1>2 DEF StartFails, BodyOK
<1>4. WaitedInv'
  BY 0 = TickMs * 0 DEF StartFails, WaitedInv, TickMs
<1>5. SinceInv'
  BY <1>1, SinceStands DEF StartFails
<1>6. QED
  BY <1>3, <1>4, <1>5

LEMMA BodyStepShape ==
  ASSUME BodyOK, WaitedInv, SinceInv, BodyStep
  PROVE  BodyOK' /\ WaitedInv' /\ SinceInv'
<1>1. CASE Call
  BY <1>1, CallShape
<1>2. CASE PollSucceeds
  <2>1. InBody /\ Instruction.op # "mark" /\ Continue /\ since' = since /\ pushed' = pushed
    BY <1>2 DEF PollSucceeds, Is
  <2>2. QED
    BY <2>1, ContinueShape
<1>3. CASE TimeIsUp
  <2>1. InBody /\ Instruction.op # "mark" /\ pushed' = pushed
    BY <1>3 DEF TimeIsUp, Is
  <2>2. QED
    BY <1>3, <2>1, ContinueIfShape DEF TimeIsUp
<1>4. CASE CompareElapsed
  <2>1. InBody /\ Instruction.op # "mark" /\ pushed' = pushed
    BY <1>4 DEF CompareElapsed, Is
  <2>2. QED
    BY <1>4, <2>1, ContinueIfShape DEF CompareElapsed
<1>5. CASE TakeSample
  <2>1. InBody /\ Instruction.op # "mark" /\ pushed' = pushed
    BY <1>5 DEF TakeSample, Is
  <2>2. QED
    BY <1>5, <2>1, ContinueIfShape DEF TakeSample
<1>6. CASE SampleFails
  <2>1. InBody /\ Instruction.op # "mark" /\ pushed' = pushed
    BY <1>6 DEF SampleFails, Is
  <2>2. QED
    BY <1>6, <2>1, ContinueIfShape DEF SampleFails
<1>7. CASE Pass
  BY <1>7, ReturnShape DEF Pass
<1>8. CASE StartFails
  BY <1>8, StartFailsShape
<1>9. QED
  BY <1>1, <1>2, <1>3, <1>4, <1>5, <1>6, <1>7, <1>8 DEF BodyStep

LEMMA BodyStepRest ==
  ASSUME BodyStep
  PROVE  UNCHANGED <<kind, envoyVars, answering>>
BY DEF BodyStep, Call, StartFails, PollSucceeds, TimeIsUp, CompareElapsed, TakeSample,
       SampleFails, Pass

LEMMA TickShape ==
  ASSUME TableOK, BodyOK, WaitedInv, SinceInv, Tick
  PROVE  /\ TableOK' /\ BodyOK' /\ WaitedInv' /\ SinceInv'
         /\ UNCHANGED <<kind, answering>>
<1>1. InBody /\ Instruction.op \in {"wait", "sleep"}
  BY DEF Tick, Is
<1>2. Instruction \in Instructions /\ at \in Nat /\ MarkedEnd(Script(scenario))
  BY <1>1, CurrentInstruction
<1> DEFINE d == Instruction.within
<1>3. d \in Deadlines
  BY <1>1, <1>2, InstructionFields
<1>4. /\ waited' = waited + TickMs /\ waited < d
      /\ since' = IF since >= 0 THEN since + TickMs ELSE since
      /\ UNCHANGED <<kind, pushed, backends, answering, scenario, at, verdict>>
  BY DEF Tick, EnvoyTick
<1>5. Is({"wait", "sleep"})' /\ (Instruction.within)' = d
  BY <1>1, <1>4 DEF Is, InBody, Instruction
<1> HIDE DEF d
<1>6. /\ waited' \in Nat /\ waited' <= d
      /\ \E k \in Nat : waited' = TickMs * k
  <2>1. PICK k \in Nat : waited = TickMs * k
    BY DEF WaitedInv
  <2>2. PICK j \in Nat : d = TickMs * j
    BY <1>3, WholeTicks
  <2>3. waited' = TickMs * (k + 1) /\ waited' <= d /\ k + 1 \in Nat /\ waited' \in Nat
    BY <1>4, <2>1, <2>2 DEF TickMs
  <2>4. QED
    BY <2>3
<1>7. WaitedInv'
  BY <1>5, <1>6 DEF WaitedInv
<1>8. SinceInv'
  <2>1. CASE since = -1
    BY <2>1, <1>4 DEF SinceInv
  <2>2. CASE since # -1
    <3>1. since \in Nat /\ since <= 8000
      BY <2>2 DEF SinceInv
    <3>2. PICK m \in 1..Len(Script(scenario)) :
            /\ Script(scenario)[m].op = "mark" /\ at > m
            /\ at = m + 1 => since = waited
      BY <2>2 DEF SinceInv
    <3>3. /\ Len(Script(scenario)) = m + 2
          /\ Script(scenario)[m + 1].within <= 8000
          /\ Script(scenario)[m + 2].op = "bound"
      BY <1>2, <3>2 DEF MarkedEnd
    <3>4. at # m + 2
      BY <1>1, <3>3 DEF Instruction
    <3>5. at = m + 1 /\ since = waited /\ d <= 8000
      BY <1>1, <1>2, <3>2, <3>3, <3>4 DEF InBody, Instruction, d
    <3>6. since' = waited' /\ since' \in Nat /\ since' <= 8000 /\ since' # -1
      BY <1>3, <1>4, <1>6, <3>1, <3>5, WholeTicks
    <3>7. QED
      BY <1>4, <3>2, <3>6 DEF SinceInv
  <2>3. QED
    BY <2>1, <2>2
<1>9. BodyOK'
  BY <1>4 DEF BodyOK
<1>10. TableOK'
  <2>1. CASE answering
    BY <2>1, TickTable DEF Tick
  <2>2. CASE ~answering
    BY <2>2 DEF Tick, envoyVars, TableOK
  <2>3. QED
    BY <2>1, <2>2
<1>11. QED
  BY <1>4, <1>7, <1>8, <1>9, <1>10

LEMMA KeepShape ==
  ASSUME BodyOK, WaitedInv, SinceInv, UNCHANGED bodyVars,
         pushed' \in Clusters, backends' \subseteq Hosts
  PROVE  BodyOK' /\ WaitedInv' /\ SinceInv'
<1>1. BodyOK'
  BY DEF BodyOK, bodyVars
<1>2. WaitedInv'
  BY DEF WaitedInv, Is, InBody, Instruction, bodyVars
<1>3. SinceInv'
  BY DEF SinceInv, bodyVars
<1>4. QED
  BY <1>1, <1>2, <1>3

LEMMA BeginShape ==
  ASSUME BodyOK, NEW s \in Scenarios, Begin(s), UNCHANGED <<pushed, backends>>
  PROVE  BodyOK' /\ WaitedInv' /\ SinceInv'
<1>1. Len(Script(scenario')) \in Nat
  BY ScriptTypes DEF Begin
<1>2. BodyOK'
  BY <1>1 DEF Begin, BodyOK
<1>3. WaitedInv'
  BY 0 = TickMs * 0 DEF Begin, WaitedInv, TickMs
<1>4. SinceInv'
  BY DEF Begin, SinceInv
<1>5. QED
  BY <1>2, <1>3, <1>4

LEMMA HowManyIsolated ==
  /\ NumIsolated = 9 /\ NumIsolated \in Nat
  /\ \A i \in 1..NumIsolated : AllIsolatedScenarios[i] \in Scenarios
  /\ StressBodies \subseteq Scenarios
<1> DEFINE q == AllIsolatedScenarios
<1>1. Len(q) = 9 /\ DOMAIN q = 1..9
  BY DEF AllIsolatedScenarios
<1> HIDE DEF q
<1>2. \A i \in 1..9 : q[i] \in Range(q)
  BY <1>1 DEF Range
<1>3. QED
  BY <1>1, <1>2 DEF NumIsolated, Scenarios, q

LEMMA ConfigTimes == \A i : ConfigFor(i) \in {0, 3000, 5000}
BY DEF ConfigFor

LEMMA EndProcessShape ==
  ASSUME ShapeInv, NEW code \in {"ok", "failed", "fatal"}, EndProcess(code)
  PROVE  ShapeInv'
<1>1. UNCHANGED bodyVars /\ pushed' \in Clusters /\ backends' \subseteq Hosts
  BY DEF EndProcess, ShapeInv, BodyOK
<1>2. TableOK'
  BY DEF EndProcess, ShapeInv, TableOK, envoyVars
<1>3. ProcessOK'
  BY DEF EndProcess, ShapeInv, ProcessOK, NumIsolated
<1>4. QED
  BY <1>1, <1>2, <1>3, KeepShape DEF ShapeInv

LEMMA MainStepShape == ShapeInv /\ MainStep => ShapeInv'
<1> SUFFICES ASSUME ShapeInv, MainStep PROVE ShapeInv'
  OBVIOUS
<1> USE DEF NumIsolated, processVars, reportVars
<1>0. TableOK /\ BodyOK /\ WaitedInv /\ SinceInv /\ ProcessOK
  BY DEF ShapeInv
<1>1. CASE StartServer
  <2>1. TableOK' /\ ProcessOK' /\ UNCHANGED <<bodyVars, backends>>
    BY <1>0, <1>1 DEF StartServer, TableOK, envoyVars, ProcessOK
  <2>2. ConfigFor(index) \in {0, 3000, 5000}
    BY ConfigTimes
  <2>3. pushed' \in Clusters
    <3> DEFINE c == [pushed EXCEPT !.timeoutMs = ConfigFor(index)]
    <3>1. ConfigFor(index) \in {0, 500, 3000, 5000}
      BY <2>2
    <3>2. c \in Clusters
      BY <1>0, <3>1 DEF BodyOK, Clusters
    <3>3. pushed' = [c EXCEPT !.healthChecks = TRUE]
      BY <1>1 DEF StartServer
    <3> HIDE DEF c
    <3>4. \A b \in BOOLEAN : [c EXCEPT !.healthChecks = b] \in Clusters
      BY <3>2 DEF Clusters
    <3>5. QED
      BY Zenon, <3>3, <3>4
  <2>4. backends' \subseteq Hosts
    BY <1>0, <2>1 DEF BodyOK
  <2>5. BodyOK' /\ WaitedInv' /\ SinceInv'
    BY <1>0, <2>1, <2>3, <2>4, KeepShape
  <2>6. QED
    BY <2>1, <2>5 DEF ShapeInv
<1>2. CASE UnknownProfile
  BY <1>2, EndProcessShape DEF UnknownProfile
<1>3. CASE StartEnvoy
  <2>1. UNCHANGED scenarioVars
    BY <1>3 DEF StartEnvoy
  <2>2. TableOK' /\ UNCHANGED <<bodyVars, pushed, backends>>
    BY <1>0, <2>1 DEF scenarioVars, TableOK, envoyVars
  <2>3. ProcessOK'
    BY <1>0, <1>3 DEF StartEnvoy, ProcessOK, scenarioVars
  <2>4. BodyOK' /\ WaitedInv' /\ SinceInv'
    BY <1>0, <2>2, KeepShape DEF BodyOK
  <2>5. QED
    BY <2>2, <2>3, <2>4 DEF ShapeInv
<1>4. CASE EnvoyIsReady
  <2>1. PICK s \in IF InStress THEN StressBodies ELSE {AllIsolatedScenarios[index]} : Begin(s)
    BY <1>4 DEF EnvoyIsReady
  <2>2. s \in Scenarios
    BY <1>0, <2>1, HowManyIsolated DEF InStress, ProcessOK
  <2>3. TableOK' /\ ProcessOK'
    BY <1>0, <1>4 DEF EnvoyIsReady, TableOK, envoyVars, ProcessOK
  <2>4. BodyOK' /\ WaitedInv' /\ SinceInv'
    BY <1>0, <1>4, <2>1, <2>2, BeginShape DEF EnvoyIsReady
  <2>5. QED
    BY <2>3, <2>4 DEF ShapeInv
<1>5. CASE EnvoyIsNotReady
  <2>1. CASE InStress
    BY <1>5, <2>1, EndProcessShape DEF EnvoyIsNotReady
  <2>2. CASE ~InStress
    <3>1. TableOK' /\ ProcessOK'
      BY <1>0, <1>5, <2>2 DEF EnvoyIsNotReady, TableOK, envoyVars, ProcessOK
    <3>2. UNCHANGED bodyVars /\ pushed' \in Clusters /\ backends' \subseteq Hosts
      BY <1>0, <1>5, <2>2 DEF EnvoyIsNotReady, BodyOK
    <3>3. QED
      BY <1>0, <3>1, <3>2, KeepShape DEF ShapeInv
  <2>3. QED
    BY <2>1, <2>2
<1>6. CASE NextBody
  <2>1. PICK s \in StressBodies : Begin(s)
    BY <1>6 DEF NextBody
  <2>2. TableOK' /\ ProcessOK'
    BY <1>0, <1>6 DEF NextBody, Reported, TableOK, envoyVars, ProcessOK, BodyOK
  <2>3. BodyOK' /\ WaitedInv' /\ SinceInv'
    BY <1>0, <1>6, <2>1, HowManyIsolated, BeginShape DEF NextBody
  <2>4. QED
    BY <2>2, <2>3 DEF ShapeInv
<1>7. CASE Finish
  <2>1. TableOK' /\ ProcessOK'
    BY <1>0, <1>7 DEF Finish, Reported, TableOK, envoyVars, ProcessOK, BodyOK
  <2>2. pushed' \in Clusters
    BY <1>0, <1>7 DEF Finish, BodyOK, Clusters
  <2>3. BodyOK'
    BY <1>0, <1>7, <2>2 DEF Finish, BodyOK
  <2>4. waited = 0 /\ waited' = 0
    BY <1>0, <1>7 DEF Finish, Judged, WaitedInv, Is, InBody
  <2>5. WaitedInv'
    BY 0 = TickMs * 0, <2>4 DEF WaitedInv, TickMs
  <2>6. SinceInv'
    BY <1>0, <1>7 DEF Finish, SinceInv
  <2>7. QED
    BY <2>1, <2>3, <2>5, <2>6 DEF ShapeInv
<1>8. CASE StopEnvoy
  <2>1. TableOK'
    BY <1>0, <1>8, EmptyTableType DEF StopEnvoy, TableOK, envoyVars
  <2>2. ProcessOK'
    BY <1>0, <1>8 DEF StopEnvoy, ProcessOK
  <2>3. UNCHANGED bodyVars /\ pushed' \in Clusters /\ backends' \subseteq Hosts
    BY <1>0, <1>8 DEF StopEnvoy, BodyOK
  <2>4. QED
    BY <1>0, <2>1, <2>2, <2>3, KeepShape DEF ShapeInv
<1>9. CASE StopServer
  <2>1. TableOK' /\ UNCHANGED <<bodyVars, pushed, backends>>
    BY <1>0, <1>9 DEF StopServer, scenarioVars, TableOK, envoyVars
  <2>2. index' \in 1..NumIsolated + 1
    <3>1. main' = "begin" => index <= NumIsolated
      BY <1>0, <1>9, HowManyIsolated DEF StopServer, ProcessOK
    <3>2. QED
      BY <1>0, <1>9, <3>1, HowManyIsolated DEF StopServer, ProcessOK
  <2>3. ProcessOK'
    BY <1>0, <1>9, <2>2 DEF StopServer, scenarioVars, ProcessOK
  <2>4. QED
    BY <1>0, <2>1, <2>3, KeepShape DEF ShapeInv, BodyOK
<1>10. CASE Exit
  BY <1>10, EndProcessShape DEF Exit
<1>11. CASE main = "run" /\ BodyStep /\ UNCHANGED <<processVars, reportVars>>
  <2>1. TableOK'
    BY <1>0, <1>11, BodyStepRest DEF TableOK, envoyVars
  <2>2. ProcessOK'
    BY <1>0, <1>11, BodyStepRest DEF ProcessOK
  <2>3. QED
    BY <1>0, <1>11, <2>1, <2>2, BodyStepShape DEF ShapeInv
<1>12. QED
  BY <1>1, <1>2, <1>3, <1>4, <1>5, <1>6, <1>7, <1>8, <1>9, <1>10, <1>11 DEF MainStep

LEMMA OthersShape ==
  ASSUME ShapeInv, EnvoyStep \/ EnvoyCrashes \/ StreamBreaks \/ CallHangs \/ Passage \/ Exited
           \/ UNCHANGED vars
  PROVE  ShapeInv'
<1> USE DEF NumIsolated, processVars, reportVars
<1>0. TableOK /\ BodyOK /\ WaitedInv /\ SinceInv /\ ProcessOK
  BY DEF ShapeInv
<1>1. ASSUME EmptyTable, UNCHANGED <<pushed, backends, bodyVars>>, ProcessOK'
      PROVE  ShapeInv'
  BY <1>0, <1>1, EmptyTableType, KeepShape DEF ShapeInv, BodyOK
<1>2. CASE EnvoyBecomesReady
  BY <1>0, <1>1, <1>2 DEF EnvoyBecomesReady, ProcessOK
<1>3. CASE OrphanBecomesReady
  BY <1>0, <1>1, <1>3 DEF OrphanBecomesReady, ProcessOK
<1>4. CASE EnvoyCrashes
  BY <1>0, <1>1, <1>4 DEF EnvoyCrashes, ProcessOK
<1>5. CASE StreamBreaks
  <2>1. TableOK' /\ UNCHANGED <<pushed, backends, bodyVars>>
    BY <1>0, <1>5, ReconnectTable DEF StreamBreaks, Reconnect
  <2>2. ProcessOK'
    BY <1>0, <1>5 DEF StreamBreaks, Reconnect, ProcessOK
  <2>3. QED
    BY <1>0, <2>1, <2>2, KeepShape DEF ShapeInv, BodyOK
<1>6. CASE EnvoyApplies /\ UNCHANGED <<processVars, reportVars>>
  <2>1. TableOK' /\ UNCHANGED <<pushed, backends, bodyVars>>
    BY <1>0, <1>6, ApplyTable DEF EnvoyApplies, Apply, BodyOK
  <2>2. ProcessOK'
    BY <1>0, <1>6 DEF EnvoyApplies, Apply, ProcessOK
  <2>3. QED
    BY <1>0, <2>1, <2>2, KeepShape DEF ShapeInv, BodyOK
<1>7. CASE Passage
  <2>1. ProcessOK'
    BY <1>0, <1>7, TickShape DEF Passage, ProcessOK
  <2>2. QED
    BY <1>0, <1>7, <2>1, TickShape DEF Passage, ShapeInv
<1>8. CASE Exited \/ UNCHANGED vars
  <2>1. UNCHANGED vars
    BY <1>8 DEF Exited
  <2>2. UNCHANGED <<pushed, backends, bodyVars>> /\ ProcessOK' /\ TableOK'
    BY <1>0, <2>1 DEF vars, scenarioVars, envoyVars, ProcessOK, TableOK
  <2>3. QED
    BY <1>0, <2>2, KeepShape DEF ShapeInv, BodyOK
<1>9. CASE CallHangs
  <2>1. UNCHANGED <<pushed, backends, bodyVars>> /\ ProcessOK' /\ TableOK'
    BY <1>0, <1>9 DEF CallHangs, scenarioVars, envoyVars, ProcessOK, TableOK
  <2>2. QED
    BY <1>0, <2>1, KeepShape DEF ShapeInv, BodyOK
<1>10. QED
  BY <1>2, <1>3, <1>4, <1>5, <1>6, <1>7, <1>8, <1>9 DEF EnvoyStep

LEMMA ShapeInitially == Init => ShapeInv
<1> SUFFICES ASSUME Init PROVE ShapeInv
  OBVIOUS
<1>1. NoCluster \in Clusters
  BY DEF NoCluster, Clusters
<1>2. "absent" \in States /\ 0 \in 0..MaxLag /\ 0 \in 0..LongestTimeout
  BY EnvoyAssumption, LongestNumbers DEF States
<1>3. TableOK
  BY <1>1, <1>2 DEF Init, EnvoyInit, TableOK
<1>4. "0" \in Scenarios
  BY AllScenarioNames
<1>5. Len(Script("0")) \in Nat
  BY <1>4, ScriptTypes
<1>6. BodyOK
  BY <1>1, <1>4, <1>5 DEF Init, EnvoyInit, BodyOK
<1>7. WaitedInv
  BY 0 = TickMs * 0 DEF Init, WaitedInv, TickMs
<1>8. SinceInv
  BY DEF Init, SinceInv
<1>9. ProcessOK
  <2>1. index \in 1..NumIsolated + 1
    BY HowManyIsolated DEF Init
  <2>2. QED
    BY <2>1 DEF Init, EnvoyInit, ProcessOK
<1>10. QED
  BY <1>3, <1>6, <1>7, <1>8, <1>9 DEF ShapeInv

LEMMA ShapeNext == ShapeInv /\ [Next]_vars => ShapeInv'
<1> SUFFICES ASSUME ShapeInv, [Next]_vars PROVE ShapeInv'
  OBVIOUS
<1>1. CASE SetupFails
  BY <1>1, EndProcessShape DEF SetupFails
<1>2. QED
  BY <1>1, MainStepShape, OthersShape DEF Next

LEMMA ShapeIsTyped == ShapeInv => TypeOK
<1> SUFFICES ASSUME ShapeInv PROVE TypeOK
  OBVIOUS
<1>0. TableOK /\ BodyOK /\ WaitedInv /\ SinceInv /\ ProcessOK
  BY DEF ShapeInv
<1>1. {pushed, applied} \subseteq Clusters
  BY <1>0 DEF TableOK, BodyOK
<1>2. waited \in 0..LongestWait
  <2>1. CASE waited = 0
    BY <2>1, LongestNumbers
  <2>2. CASE waited # 0
    <3>1. Is({"wait", "sleep"}) /\ waited <= Instruction.within
      BY <1>0, <2>2 DEF WaitedInv
    <3>2. Instruction.within \in Deadlines
      BY <1>0, <3>1, CurrentInstruction, InstructionFields DEF Is
    <3>3. QED
      BY <1>0, <3>1, <3>2, WholeTicks, LongestNumbers DEF WaitedInv
  <2>3. QED
    BY <2>1, <2>2
<1>3. since \in -1..LongestWait
  BY <1>0, LongestNumbers DEF SinceInv
<1>4. QED
  BY <1>0, <1>1, <1>2, <1>3 DEF TypeOK, TableOK, BodyOK, ProcessOK, Clusters, States, Scenarios

\* Every run of main keeps its state in shape: no timer outlasts the longest
\* timeout, no wait its deadline, and no body runs past the end of its script
\* (main.go:50-223, scenarios.go:28-451, stress.go:173-337, admin.go:137-236).
THEOREM TypeCorrect == Spec => []TypeOK
<1>1. QED
  BY ShapeInitially, ShapeNext, ShapeIsTyped, PTL DEF Spec

-----------------------------------------------------------------------------
(* What is clean, and from where on                                        *)

\* Endpoints and hosts of one scenario are gone before the next begins: the
\* endpoints when main leaves it, the hosts with the Envoy it stops.
CleanInv ==
  /\ main \notin {"run", "stuck"} \/ verdict # "running" \/ at = 1 => backends = {}
  /\ \/ main \in {"begin", "launch", "ready", "server"}
     \/ main = "run" /\ ~InStress /\ at = 1
     => pushed.endpoints = {} /\ Listed = {}
  /\ main = "envoy" => pushed.endpoints = {}

LEMMA BodyStepMoves ==
  ASSUME BodyStep, at \in Nat \ {0}
  PROVE  \/ at' = at + 1 /\ at' # 1
         \/ /\ verdict' # "running" /\ backends' = {}
            /\ UNCHANGED <<pushed, at>>
BY DEF BodyStep, Call, StartFails, PollSucceeds, TimeIsUp, CompareElapsed, TakeSample,
       SampleFails, Pass, ContinueIf, Continue, Return

LEMMA EndProcessClean ==
  ASSUME CleanInv, NEW code, EndProcess(code)
  PROVE  CleanInv'
BY DEF CleanInv, EndProcess

LEMMA MainStepClean == ShapeInv /\ ChildInv /\ CleanInv /\ MainStep => CleanInv'
<1> SUFFICES ASSUME ShapeInv, ChildInv, CleanInv, MainStep PROVE CleanInv'
  OBVIOUS
<1> USE DEF CleanInv, InStress
<1>0. pushed \in Clusters /\ at \in Nat \ {0}
  <2>1. pushed \in Clusters /\ at \in 1..Len(Script(scenario)) + 1
    BY DEF ShapeInv, BodyOK
  <2>2. Len(Script(scenario)) \in Nat
    BY ScriptTypes DEF ShapeInv, BodyOK
  <2>3. QED
    BY <2>1, <2>2
<1>1. CASE StartServer
  BY <1>0, <1>1 DEF StartServer, Clusters, envoyVars, Listed
<1>2. CASE UnknownProfile
  BY <1>2, EndProcessClean DEF UnknownProfile
<1>3. CASE StartEnvoy
  BY <1>3 DEF StartEnvoy, scenarioVars, bodyVars, envoyVars, Listed
<1>4. CASE EnvoyIsReady
  BY <1>4 DEF EnvoyIsReady, Begin, envoyVars, Listed
<1>5. CASE EnvoyIsNotReady
  BY <1>5, EndProcessClean DEF EnvoyIsNotReady
<1>6. CASE NextBody
  BY <1>6 DEF NextBody, Judged, Begin, processVars
<1>7. CASE Finish
  BY <1>0, <1>7 DEF Finish, Judged, Clusters
<1>8. CASE StopEnvoy
  <2>1. ~orphan
    BY <1>8 DEF StopEnvoy, ChildInv
  <2>2. Listed' = {}
    BY <1>8, <2>1, EmptyTableType DEF StopEnvoy
  <2>3. QED
    BY <1>8, <2>2 DEF StopEnvoy, bodyVars
<1>9. CASE StopServer
  BY <1>9 DEF StopServer, scenarioVars, bodyVars, envoyVars, Listed
<1>10. CASE Exit
  BY <1>10, EndProcessClean DEF Exit
<1>11. CASE main = "run" /\ BodyStep /\ UNCHANGED <<processVars, reportVars>>
  <2>1. main' = "run" /\ index' = index /\ Listed' = Listed
    BY <1>11, BodyStepRest DEF processVars, envoyVars, Listed
  <2>2. CASE at' # 1 /\ verdict' = "running"
    BY <2>1, <2>2
  <2>3. CASE verdict' # "running" /\ backends' = {} /\ UNCHANGED <<pushed, at>>
    BY <1>11, <2>1, <2>3
  <2>4. CASE at' = at + 1 /\ at' # 1 /\ verdict' # "running"
    <3>1. verdict' = verdict /\ verdict = "running"
      BY <1>11, <2>4, <1>0
      DEF BodyStep, Call, StartFails, PollSucceeds, TimeIsUp, CompareElapsed, TakeSample,
          SampleFails, Pass, ContinueIf, Continue, Return, Is, InBody
    <3>2. QED
      BY <2>4, <3>1
  <2>5. QED
    BY <1>0, <1>11, <2>2, <2>3, <2>4, BodyStepMoves
<1>12. QED
  BY <1>1, <1>2, <1>3, <1>4, <1>5, <1>6, <1>7, <1>8, <1>9, <1>10, <1>11 DEF MainStep

LEMMA OthersClean ==
  ASSUME ShapeInv, CleanInv,
         EnvoyStep \/ EnvoyCrashes \/ StreamBreaks \/ CallHangs \/ Passage \/ Exited
           \/ UNCHANGED vars
  PROVE  CleanInv'
<1> USE DEF CleanInv, InStress, processVars, reportVars, bodyVars
<1>0. TableOK /\ pushed \in Clusters
  BY DEF ShapeInv, BodyOK
<1>1. CASE EnvoyBecomesReady \/ OrphanBecomesReady \/ EnvoyCrashes
  BY <1>1, EmptyTableType DEF EnvoyBecomesReady, OrphanBecomesReady, EnvoyCrashes
<1>2. CASE StreamBreaks
  BY <1>0, <1>2, ReconnectTable DEF StreamBreaks, Reconnect
<1>3. CASE EnvoyApplies /\ UNCHANGED <<processVars, reportVars>>
  BY <1>0, <1>3, ApplyTable DEF EnvoyApplies, Apply
<1>4. CASE Passage
  <2>1. Listed' = Listed \/ Listed' \subseteq Listed
    BY <1>0, <1>4, TickTable DEF Passage, Tick, envoyVars, Listed
  <2>2. UNCHANGED <<pushed, backends, at, verdict, main, index>>
    BY <1>4 DEF Passage, Tick, EnvoyTick
  <2>3. QED
    BY <2>1, <2>2
<1>5. CASE Exited \/ UNCHANGED vars
  BY <1>5 DEF Exited, vars, scenarioVars, envoyVars, Listed
<1>6. CASE CallHangs
  BY <1>6 DEF CallHangs, scenarioVars, envoyVars, Listed
<1>7. QED
  BY <1>1, <1>2, <1>3, <1>4, <1>5, <1>6 DEF EnvoyStep

LEMMA CleanInitially == Init => CleanInv
BY DEF Init, EnvoyInit, CleanInv, NoCluster, Listed

LEMMA CleanNext == ShapeInv /\ ChildInv /\ CleanInv /\ [Next]_vars => CleanInv'
<1> SUFFICES ASSUME ShapeInv, ChildInv, CleanInv, [Next]_vars PROVE CleanInv'
  OBVIOUS
<1>1. CASE SetupFails
  BY <1>1, EndProcessClean DEF SetupFails
<1>2. QED
  BY <1>1, MainStepClean, OthersClean DEF Next

\* No isolated scenario meets a backend, an endpoint or a host of the one
\* before it, whatever crashed, broke or failed in it: the deferred calls of
\* the body, RemoveAllEndpoints and the stop of its Envoy leave nothing
\* (main.go:161-165, scenarios.go:37-41).
THEOREM CleanStart == Spec => []StartsClean
<1>1. Init => ShapeInv /\ ChildInv /\ CleanInv
  BY ShapeInitially, ChildInitially, CleanInitially
<1>2. ShapeInv /\ ChildInv /\ CleanInv /\ [Next]_vars => (ShapeInv /\ ChildInv /\ CleanInv)'
  BY ShapeNext, ChildNext, CleanNext
<1>3. ShapeInv /\ ChildInv /\ CleanInv => StartsClean
  BY DEF CleanInv, StartsClean
<1>4. QED
  BY <1>1, <1>2, <1>3, PTL DEF Spec

-----------------------------------------------------------------------------
(* Which scenario is run, and what a wait for no host leaves               *)

CurrentInv ==
  /\ main = "run" => verdict # "none"
  /\ verdict # "none" => main = "run" \/ (main = "stuck" /\ verdict = "running")
  /\ main = "run" => IF InStress THEN scenario \in StressBodies
                                 ELSE scenario = AllIsolatedScenarios[index]
  /\ main = "report" => index >= NumIsolated

LEMMA BodyStepVerdict ==
  ASSUME BodyStep, verdict # "none"
  PROVE  verdict' # "none" /\ scenario' = scenario
BY DEF BodyStep, Call, StartFails, PollSucceeds, TimeIsUp, CompareElapsed, TakeSample,
       SampleFails, Pass, ContinueIf, Continue, Return

LEMMA MainStepCurrent == ShapeInv /\ CurrentInv /\ MainStep => CurrentInv'
<1> SUFFICES ASSUME ShapeInv, CurrentInv, MainStep PROVE CurrentInv'
  OBVIOUS
<1> USE DEF CurrentInv, InStress, NumIsolated
<1>1. CASE StartServer
  BY <1>1 DEF StartServer, bodyVars
<1>2. CASE UnknownProfile
  BY <1>2 DEF UnknownProfile, EndProcess, bodyVars
<1>3. CASE StartEnvoy
  BY <1>3 DEF StartEnvoy, scenarioVars, bodyVars
<1>4. CASE EnvoyIsReady
  BY <1>4 DEF EnvoyIsReady, Begin
<1>5. CASE EnvoyIsNotReady
  BY <1>5 DEF EnvoyIsNotReady, EndProcess, bodyVars
<1>6. CASE NextBody
  BY <1>6 DEF NextBody, Judged, Begin, processVars
<1>7. CASE Finish
  BY <1>7 DEF Finish, Judged
<1>8. CASE StopEnvoy
  BY <1>8 DEF StopEnvoy, bodyVars
<1>9. CASE StopServer
  <2>1. index \in Nat /\ NumIsolated \in Nat
    BY HowManyIsolated DEF ShapeInv, ProcessOK
  <2>2. main' = "report" => index' = index /\ ~(index < NumIsolated)
    BY <1>9 DEF StopServer
  <2>3. QED
    BY <1>9, <2>1, <2>2 DEF StopServer, scenarioVars, bodyVars
<1>10. CASE Exit
  BY <1>10 DEF Exit, EndProcess, bodyVars
<1>11. CASE main = "run" /\ BodyStep /\ UNCHANGED <<processVars, reportVars>>
  BY <1>11, BodyStepVerdict DEF processVars
<1>12. QED
  BY <1>1, <1>2, <1>3, <1>4, <1>5, <1>6, <1>7, <1>8, <1>9, <1>10, <1>11 DEF MainStep

LEMMA CurrentNext == ShapeInv /\ CurrentInv /\ [Next]_vars => CurrentInv'
<1> SUFFICES ASSUME ShapeInv, CurrentInv, [Next]_vars PROVE CurrentInv'
  OBVIOUS
<1> USE DEF CurrentInv, InStress, NumIsolated, processVars, bodyVars
<1>1. CASE SetupFails
  BY <1>1 DEF SetupFails, EndProcess
<1>2. CASE EnvoyBecomesReady \/ OrphanBecomesReady \/ EnvoyCrashes
  BY <1>2 DEF EnvoyBecomesReady, OrphanBecomesReady, EnvoyCrashes
<1>3. CASE StreamBreaks \/ Passage \/ (EnvoyApplies /\ UNCHANGED <<processVars, reportVars>>)
  BY <1>3 DEF StreamBreaks, Passage, Tick, EnvoyApplies
<1>4. CASE Exited \/ UNCHANGED vars
  BY <1>4 DEF Exited, vars, scenarioVars
<1>5. CASE CallHangs
  BY <1>5 DEF CallHangs, scenarioVars, Is, InBody
<1>6. QED
  BY <1>1, <1>2, <1>3, <1>4, <1>5, MainStepCurrent DEF Next, EnvoyStep

LEMMA CurrentInitially == Init => CurrentInv
BY DEF Init, CurrentInv

\* A sample without hosts is of a table without hosts: the parser skips no host.
LEMMA NoneCounted == Shows(GetClusterHosts, "count", 0) => Listed = {}
<1> DEFINE about == HostLines(ClustersText(HealthFlags), clusterName)
           subjects == {l.subject : l \in about}
           shown == [a \in subjects |->
                       [Address     |-> a,
                        HealthFlags |-> {l.value : l \in {k \in about :
                                           k.subject = a /\ k.key = "health_flags"}}]]
           hosts == {shown[a] : a \in subjects}
<1>1. GetClusterHosts = hosts
  BY DEF GetClusterHosts, parseClusterHosts
<1>2. DOMAIN HealthFlags = Listed
  BY DEF HealthFlags
<1>3. subjects = Listed
  <2>1. ASSUME NEW l \in about
        PROVE  l.subject \in Listed
    <3>1. l \in ClustersText(HealthFlags) /\ l.cluster = clusterName /\ l.dotted
      BY DEF HostLines
    <3>2. CASE l \in {Line(c, 0, FALSE, "added_via_api", {}) : c \in {clusterName, "xds_cluster"}}
      <4>1. PICK c \in {clusterName, "xds_cluster"} :
              l = Line(c, 0, FALSE, "added_via_api", {})
        BY <3>2
      <4>2. ~l.dotted
        BY Zenon, <4>1 DEF Line
      <4>3. QED
        BY <3>1, <4>2
    <3>3. CASE l = Line("xds_cluster", 0, TRUE, "health_flags", {})
      <4>1. l.cluster = "xds_cluster"
        BY Zenon, <3>3 DEF Line
      <4>2. QED
        BY <3>1, <4>1 DEF clusterName
    <3>4. CASE l \in {Line(clusterName, h, TRUE, "health_flags", HealthFlags[h]) : h \in Listed}
      <4>1. PICK h \in Listed : l = Line(clusterName, h, TRUE, "health_flags", HealthFlags[h])
        BY <3>4
      <4>2. l.subject = h
        BY Zenon, <4>1 DEF Line
      <4>3. QED
        BY <4>1, <4>2
    <3>5. CASE l \in {Line(clusterName, h, TRUE, "weight", {}) : h \in Listed}
      <4>1. PICK h \in Listed : l = Line(clusterName, h, TRUE, "weight", {})
        BY <3>5
      <4>2. l.subject = h
        BY Zenon, <4>1 DEF Line
      <4>3. QED
        BY <4>1, <4>2
    <3>6. QED
      BY <1>2, <3>1, <3>2, <3>3, <3>4, <3>5 DEF ClustersText
  <2>2. ASSUME NEW h \in Listed
        PROVE  \E l \in about : l.subject = h
    <3> DEFINE l == Line(clusterName, h, TRUE, "weight", {})
    <3>1. l \in ClustersText(HealthFlags)
      BY <1>2 DEF ClustersText
    <3>2. l.cluster = clusterName /\ l.subject = h /\ l.dotted
      BY Zenon DEF Line
    <3> HIDE DEF l
    <3>3. QED
      BY <3>1, <3>2 DEF HostLines
  <2> HIDE DEF about
  <2>3. QED
    BY <2>1, <2>2
<1> HIDE DEF shown, subjects
<1>4. IsFiniteSet(subjects)
  <2>1. IsFiniteSet(Hosts)
    BY FS_Interval, EnvoyAssumption DEF Hosts
  <2>2. Listed \in SUBSET Hosts
    BY DEF Listed
  <2>3. QED
    BY <1>3, <2>1, <2>2, FS_Subset
<1>5. IsFiniteSet(hosts)
  <2>1. shown \in Surjection(subjects, hosts)
    BY DEF Surjection, shown
  <2>2. QED
    BY <1>4, <2>1, FS_Surjection
<1>6. hosts = {} => subjects = {}
  OBVIOUS
<1> HIDE DEF hosts
<1>7. Shows(GetClusterHosts, "count", 0) => Cardinality(hosts) = 0
  BY <1>1 DEF Shows
<1>8. QED
  BY <1>3, <1>5, <1>6, <1>7, FS_EmptySet

\* A script that removes the endpoints it has added, at r, and later waits
\* until no host is left, at c, and fails if that takes too long.
Ends(q, r, c) ==
  /\ r \in 1..Len(q) /\ c \in 1..Len(q) /\ r < c
  /\ q[r].op = "remove"
  /\ q[c].op = "wait" /\ q[c].condition = "count" /\ q[c].n = 0 /\ q[c].must
  /\ \A i \in 1..Len(q) : q[i].op = "add" => i < r /\ q[i].on \subseteq q[r].on

\* From r on no endpoint is left, and from c on no host.
EndsInv ==
  /\ verdict = "passed" => at = Len(Script(scenario)) + 1
  /\ verdict \in {"running", "passed"} /\ ~InStress =>
       \A r, c \in Nat : Ends(Script(scenario), r, c) =>
         /\ at <= r => pushed.endpoints \subseteq Script(scenario)[r].on
         /\ at > r => pushed.endpoints = {}
         /\ at > c => Listed = {}

LEMMA BodyStepEnds ==
  ASSUME ShapeInv, EndsInv, BodyStep, UNCHANGED index
  PROVE  EndsInv'
<1>1. CASE verdict' = "failed"
  BY <1>1 DEF EndsInv
<1>2. CASE Pass
  <2>1. UNCHANGED <<pushed, scenario, at, state>> /\ verdict = "running"
    BY <1>2 DEF Pass, Return, envoyVars
  <2>2. verdict' = "passed" /\ at = Len(Script(scenario)) + 1
    BY <1>2 DEF Pass, Return
  <2>3. QED
    BY <2>1, <2>2 DEF EndsInv, InStress, NumIsolated, Listed
<1>3. CASE verdict' # "failed" /\ ~Pass
  <2>1. /\ InBody /\ at' = at + 1 /\ UNCHANGED <<scenario, verdict>>
        /\ Call \/ PollSucceeds \/ pushed' = pushed
    BY <1>3 DEF BodyStep, Call, StartFails, PollSucceeds, TimeIsUp, CompareElapsed, TakeSample,
                SampleFails, ContinueIf, Continue, Return, Is
  <2>2. /\ pushed \in Clusters /\ at \in 1..Len(Script(scenario))
        /\ Instruction \in Instructions /\ Len(Script(scenario)) \in Nat
    BY <2>1, CurrentInstruction DEF ShapeInv, BodyOK
  <2>3. verdict = "running" /\ Listed' = Listed
    BY <2>1, BodyStepRest DEF InBody, Listed, envoyVars
  <2>4. ASSUME ~InStress, NEW r \in Nat, NEW c \in Nat, Ends(Script(scenario), r, c)
        PROVE  /\ at' <= r => pushed'.endpoints \subseteq Script(scenario)[r].on
               /\ at' > r => pushed'.endpoints = {}
               /\ at' > c => Listed = {}
    <3>1. /\ at <= r => pushed.endpoints \subseteq Script(scenario)[r].on
          /\ at > r => pushed.endpoints = {}
          /\ at > c => Listed = {}
      BY <2>3, <2>4 DEF EndsInv
    <3>2. /\ r < c /\ (at = r => Instruction.op = "remove")
          /\ at = c => /\ Instruction.op = "wait" /\ Instruction.must
                       /\ Instruction.condition = "count" /\ Instruction.n = 0
          /\ Instruction.op = "add" => at < r /\ Instruction.on \subseteq Script(scenario)[r].on
      BY <2>2, <2>4 DEF Ends, Instruction
    <3>3. CASE Call
      <4>1. at # c
        BY <3>2, <3>3 DEF Call, Is
      <4>2. at' > c => Listed = {}
        BY <2>1, <2>2, <3>1, <4>1
      <4>3. pushed'.endpoints = IF Instruction.op = "add"
                                THEN pushed.endpoints \cup Instruction.on
                                ELSE IF Instruction.op = "remove"
                                     THEN pushed.endpoints \ Instruction.on
                                     ELSE pushed.endpoints
        <5>1. CASE Instruction.op = "add"
          BY <2>2, <3>3, <5>1 DEF Call, Clusters
        <5>2. CASE Instruction.op = "remove"
          BY <2>2, <3>3, <5>2 DEF Call, Clusters
        <5>3. CASE Instruction.op = "config"
          <6> DEFINE d == [pushed EXCEPT !.timeoutMs = Instruction.timeoutMs]
          <6>1. pushed' = [d EXCEPT !.healthChecks = Instruction.healthChecks]
            BY <3>3, <5>3 DEF Call
          <6>2. d \in [{"timeoutMs", "healthChecks", "endpoints"} ->
                         {d[f] : f \in {"timeoutMs", "healthChecks", "endpoints"}}]
                /\ d.endpoints = pushed.endpoints
            BY <2>2 DEF Clusters
          <6> HIDE DEF d
          <6>3. pushed'.endpoints = d.endpoints
            BY <6>1, <6>2
          <6>4. QED
            BY <5>3, <6>2, <6>3
        <5>4. CASE Instruction.op \notin {"add", "remove", "config"}
          BY <3>3, <5>4 DEF Call
        <5>5. QED
          BY <5>1, <5>2, <5>3, <5>4
      <4>4. CASE at = r
        <5>1. /\ pushed'.endpoints = pushed.endpoints \ Instruction.on
              /\ pushed.endpoints \subseteq Instruction.on
          BY <2>2, <3>1, <3>2, <4>3, <4>4 DEF Instruction
        <5>2. QED
          BY <2>1, <2>2, <4>2, <4>4, <5>1
      <4>5. CASE at # r
        BY <2>1, <2>2, <3>1, <3>2, <4>2, <4>3, <4>5
      <4>6. QED
        BY <4>4, <4>5
    <3>4. CASE PollSucceeds
      <4>1. at # r /\ pushed' = pushed
        BY <3>2, <3>4 DEF PollSucceeds, Is
      <4>2. at = c => Listed = {}
        BY <3>2, <3>4, NoneCounted DEF PollSucceeds, Seen
      <4>3. QED
        BY <2>1, <2>2, <3>1, <4>1, <4>2
    <3>5. CASE ~Call /\ ~PollSucceeds
      <4>1. at # r /\ at # c /\ pushed' = pushed
        BY <1>3, <2>1, <3>2, <3>5
        DEF BodyStep, StartFails, TimeIsUp, CompareElapsed, TakeSample, SampleFails, ContinueIf,
            Return, Is
      <4>2. QED
        BY <2>1, <2>2, <3>1, <4>1
    <3>6. QED
      BY <3>3, <3>4, <3>5
  <2>5. QED
    BY <2>1, <2>3, <2>4 DEF EndsInv, InStress, NumIsolated
<1>4. QED
  BY <1>1, <1>2, <1>3

\* Steps of Envoy and of time: what has no endpoint stays without hosts.
LEMMA TableEnds ==
  ASSUME EndsInv, UNCHANGED <<verdict, scenario, at, pushed, index>>, at \in Int,
         pushed.endpoints = {} /\ Listed = {} => Listed' = {}
  PROVE  EndsInv'
<1>1. ASSUME verdict \in {"running", "passed"}, ~InStress,
             NEW r \in Nat, NEW c \in Nat, Ends(Script(scenario), r, c)
      PROVE  /\ at <= r => pushed.endpoints \subseteq Script(scenario)[r].on
             /\ at > r => pushed.endpoints = {}
             /\ at > c => Listed' = {}
  <2>1. /\ at <= r => pushed.endpoints \subseteq Script(scenario)[r].on
        /\ at > r => pushed.endpoints = {}
        /\ at > c => Listed = {}
    BY <1>1 DEF EndsInv
  <2>2. at > c => at > r
    BY <1>1 DEF Ends
  <2>3. QED
    BY <2>1, <2>2
<1>2. UNCHANGED InStress
  BY DEF InStress, NumIsolated
<1>3. verdict' = "passed" => at' = Len(Script(scenario')) + 1
  BY DEF EndsInv
<1>4. QED
  BY <1>1, <1>2, <1>3 DEF EndsInv

LEMMA NoVerdictEnds ==
  ASSUME verdict' \notin {"running", "passed"}
  PROVE  EndsInv'
BY DEF EndsInv

\* The invariants of LostTimersShow together.
EndsIInv == ShapeInv /\ ChildInv /\ CleanInv /\ CurrentInv /\ EndsInv

LEMMA EndsNext == EndsIInv /\ [Next]_vars => EndsInv'
<1> SUFFICES ASSUME EndsIInv, [Next]_vars PROVE EndsInv'
  OBVIOUS
<1> USE DEF processVars, reportVars, bodyVars
<1>0. /\ ShapeInv /\ CleanInv /\ CurrentInv /\ EndsInv
      /\ TableOK /\ pushed \in Clusters /\ at \in Int
  <2>1. Len(Script(scenario)) \in Nat /\ at \in 1..Len(Script(scenario)) + 1
    BY ScriptTypes DEF EndsIInv, ShapeInv, BodyOK
  <2>2. QED
    BY <2>1 DEF EndsIInv, ShapeInv, BodyOK
<1>1. CASE main \notin {"run", "stuck"} /\ verdict' = verdict
  BY <1>0, <1>1, NoVerdictEnds DEF CurrentInv
<1>2. CASE EnvoyIsReady
  <2>1. pushed'.endpoints = {} /\ at' = 1 /\ verdict' = "running"
    BY <1>0, <1>2 DEF EnvoyIsReady, CleanInv, Begin
  <2>2. ASSUME NEW r \in Nat, NEW c \in Nat, Ends(Script(scenario'), r, c)
        PROVE  at' <= r /\ ~(at' > c)
    BY <2>1, <2>2 DEF Ends
  <2>3. QED
    BY <2>1, <2>2 DEF EndsInv
<1>3. CASE NextBody
  <2>1. InStress' /\ verdict' = "running"
    BY <1>3 DEF NextBody, InStress, NumIsolated, Begin
  <2>2. QED
    BY <2>1 DEF EndsInv
<1>4. CASE Finish
  BY <1>4, NoVerdictEnds DEF Finish
<1>5. CASE main = "run" /\ BodyStep /\ UNCHANGED <<processVars, reportVars>>
  BY <1>0, <1>5, BodyStepEnds
<1>6. CASE EnvoyBecomesReady \/ OrphanBecomesReady \/ EnvoyCrashes
  BY <1>0, <1>6, EmptyTableType, TableEnds
  DEF EnvoyBecomesReady, OrphanBecomesReady, EnvoyCrashes
<1>7. CASE StreamBreaks
  BY <1>0, <1>7, ReconnectTable, TableEnds DEF StreamBreaks, Reconnect
<1>8. CASE EnvoyApplies /\ UNCHANGED <<processVars, reportVars>>
  BY <1>0, <1>8, ApplyTable, TableEnds DEF EnvoyApplies, Apply
<1>9. CASE Passage
  <2>1. Listed' = Listed \/ Listed' \subseteq Listed
    BY <1>0, <1>9, TickTable DEF Passage, Tick, envoyVars, Listed
  <2>2. UNCHANGED <<verdict, scenario, at, pushed, index>>
    BY <1>9 DEF Passage, Tick, EnvoyTick
  <2>3. QED
    BY <1>0, <2>1, <2>2, TableEnds
<1>10. CASE CallHangs \/ Exited \/ UNCHANGED vars
  BY <1>0, <1>10, TableEnds DEF CallHangs, Exited, vars, scenarioVars, envoyVars, Listed
<1>11. CASE StartServer \/ UnknownProfile \/ StartEnvoy \/ EnvoyIsNotReady \/ StopEnvoy
            \/ StopServer \/ Exit \/ SetupFails
  <2>1. main \notin {"run", "stuck"}
    BY <1>11 DEF StartServer, UnknownProfile, StartEnvoy, EnvoyIsNotReady, StopEnvoy, StopServer,
                 Exit, SetupFails
  <2>2. verdict' = verdict
    BY <1>11 DEF StartServer, UnknownProfile, StartEnvoy, EnvoyIsNotReady, StopEnvoy, StopServer,
                 Exit, SetupFails, EndProcess, scenarioVars
  <2>3. QED
    BY <1>1, <2>1, <2>2
<1>12. QED
  BY <1>2, <1>3, <1>4, <1>5, <1>6, <1>7, <1>8, <1>9, <1>10, <1>11 DEF Next, MainStep, EnvoyStep

-----------------------------------------------------------------------------
(* The scripts that wait for the hosts to go                               *)

LEMMA Fields ==
  /\ \A op, S : Do(op, S).op = op /\ Do(op, S).on = S
  /\ \A n : Healthy(n).op = "wait" /\ Pending(n).op = "wait" /\ TryPending(n).op = "wait"
  /\ \A n, ms : HealthyIn(ms, n).op = "wait"
  /\ \A ms : LET w == Await("count", 0, ms)
             IN w.op = "wait" /\ w.condition = "count" /\ w.n = 0 /\ w.must
  /\ \A E : Sample(E).op = "check"
  /\ \A ms : SetClusterConfig(ms).op = "config"
  /\ \A lo, hi : Within(lo, hi).op = "bound"
  /\ Mark.op = "mark"
<1>1. \A op, S : Do(op, S).op = op /\ Do(op, S).on = S
  BY DEF Do
<1>2. /\ \A n : Healthy(n).op = "wait" /\ Pending(n).op = "wait" /\ TryPending(n).op = "wait"
      /\ \A n, ms : HealthyIn(ms, n).op = "wait"
  BY DEF Healthy, HealthyIn, Pending, TryPending, Await, Try
<1>3. ASSUME NEW ms
      PROVE  LET w == Await("count", 0, ms)
             IN w.op = "wait" /\ w.condition = "count" /\ w.n = 0 /\ w.must
  BY Zenon DEF Await
<1>4. \A E : Sample(E).op = "check"
  BY DEF Sample
<1>5. /\ \A ms : SetClusterConfig(ms).op = "config"
      /\ \A lo, hi : Within(lo, hi).op = "bound"
      /\ Mark.op = "mark"
  BY DEF SetClusterConfig, Within, Mark
<1>6. QED
  BY <1>1, <1>2, <1>3, <1>4, <1>5

LEMMA WaitFields ==
  ASSUME NEW ms
  PROVE  /\ Await("count", 0, ms).op = "wait" /\ Await("count", 0, ms).condition = "count"
         /\ Await("count", 0, ms).n = 0 /\ Await("count", 0, ms).must
BY Fields

LEMMA EndsOfD == Ends(ScenarioD, 6, 8)
<1> DEFINE q == ScenarioD
           w == Await("count", 0, 5000)
           b == Within(400, 3000)
<1>1. /\ Len(q) = 9
      /\ q[1] = Do("start", Two) /\ q[2] = SetClusterConfig(500) /\ q[3] = Do("add", Two)
      /\ q[4] = Healthy(1) /\ q[5] = Healthy(2) /\ q[6] = Do("remove", Two)
      /\ q[7] = Mark /\ q[8] = w /\ q[9] = b
  BY DEF ScenarioD
<1>2. w.op = "wait" /\ w.condition = "count" /\ w.n = 0 /\ w.must /\ b.op = "bound"
  BY WaitFields, Fields
<1> HIDE DEF q, w, b
<1>3. /\ q[1].op = "start" /\ q[2].op = "config" /\ q[3].on = Two /\ q[4].op = "wait"
      /\ q[5].op = "wait" /\ q[6].op = "remove" /\ q[6].on = Two /\ q[7].op = "mark"
  BY <1>1, Fields
<1>4. \A i \in 1..9 : q[i].op = "add" => i = 3
  BY <1>1, <1>2, <1>3
<1>5. Ends(q, 6, 8)
  BY <1>1, <1>2, <1>3, <1>4 DEF Ends
<1>6. QED
  BY <1>5 DEF q

LEMMA EndsOfF == Ends(ScenarioF, 5, 8)
<1> DEFINE q == ScenarioF
           w == Await("count", 0, 10000)
<1>1. /\ Len(q) = 8
      /\ q[1] = Do("start", Two) /\ q[2] = Do("add", Two)
      /\ q[3] = Healthy(1) /\ q[4] = Healthy(2) /\ q[5] = Do("remove", Two)
      /\ q[6] = TryPending(1) /\ q[7] = TryPending(2) /\ q[8] = w
  BY DEF ScenarioF, Setup
<1>2. w.op = "wait" /\ w.condition = "count" /\ w.n = 0 /\ w.must
  BY WaitFields
<1> HIDE DEF q, w
<1>3. /\ q[1].op = "start" /\ q[2].on = Two /\ q[3].op = "wait" /\ q[4].op = "wait"
      /\ q[5].op = "remove" /\ q[5].on = Two /\ q[6].op = "wait" /\ q[7].op = "wait"
  BY <1>1, Fields
<1>4. \A i \in 1..8 : q[i].op = "add" => i = 2
  BY <1>1, <1>2, <1>3
<1>5. Ends(q, 5, 8)
  BY <1>1, <1>2, <1>3, <1>4 DEF Ends
<1>6. QED
  BY <1>5 DEF q

LEMMA EndsOfH == Ends(ScenarioH, 6, 10)
<1> DEFINE q == ScenarioH
           w == Await("count", 0, 10000)
           x == Sample({<<"count", 2>>} \cup AllOf("healthy"))
           y == Sample(AllOf("flag"))
           z == Sample({<<"count", 0>>})
<1>1. /\ Len(q) = 11
      /\ q[1] = Do("start", Two) /\ q[2] = Do("add", Two)
      /\ q[3] = Healthy(1) /\ q[4] = Healthy(2) /\ q[5] = x /\ q[6] = Do("remove", Two)
      /\ q[7] = Pending(1) /\ q[8] = Pending(2) /\ q[9] = y /\ q[10] = w /\ q[11] = z
  BY DEF ScenarioH, Setup
<1>2. w.op = "wait" /\ w.condition = "count" /\ w.n = 0 /\ w.must
  BY WaitFields
<1>3. x.op = "check" /\ y.op = "check" /\ z.op = "check"
  BY Fields
<1> HIDE DEF q, w, x, y, z
<1>4. /\ q[1].op = "start" /\ q[2].on = Two /\ q[3].op = "wait" /\ q[4].op = "wait"
      /\ q[6].op = "remove" /\ q[6].on = Two /\ q[7].op = "wait" /\ q[8].op = "wait"
  BY <1>1, Fields
<1>5. \A i \in 1..11 : q[i].op = "add" => i = 2
  BY <1>1, <1>2, <1>3, <1>4
<1>6. Ends(q, 6, 10)
  BY <1>1, <1>2, <1>3, <1>4, <1>5 DEF Ends
<1>7. QED
  BY <1>6 DEF q

LEMMA InScenarioE ==
  LET q == ScenarioE IN
  /\ Len(q) = NumHosts + 4
  /\ q[1] = Do("start", Hosts) /\ q[2] = Do("add", Hosts)
  /\ \A i \in 3..NumHosts + 2 : q[i] = HealthyIn(15000, i - 2)
  /\ q[NumHosts + 3] = Do("remove", Hosts) /\ q[NumHosts + 4] = Await("count", 0, 10000)
<1> DEFINE q == ScenarioE
           p == <<Do("start", Hosts), Do("add", Hosts)>>
           m == [h \in Hosts |-> HealthyIn(15000, h)]
           e == <<Do("remove", Hosts), Await("count", 0, 10000)>>
           N == NumHosts
<1>1. q = p \o m \o e
  BY DEF ScenarioE
<1>2. N \in Nat /\ Hosts = 1..N
  BY EnvoyAssumption DEF Hosts
<1>3. \A i \in 3..N + 2 : m[i - 2] = HealthyIn(15000, i - 2)
  BY <1>2
<1>4. /\ p[1] = Do("start", Hosts) /\ p[2] = Do("add", Hosts)
      /\ e[1] = Do("remove", Hosts) /\ e[2] = Await("count", 0, 10000)
  OBVIOUS
<1>5. /\ p \in Seq({p[1], p[2]}) /\ Len(p) = 2
      /\ e \in Seq({e[1], e[2]}) /\ Len(e) = 2
  OBVIOUS
<1>6. m \in Seq({m[h] : h \in Hosts}) /\ Len(m) = N
  BY <1>2
<1> HIDE DEF q, p, m, e, N
<1>7. /\ Len(q) = N + 4
      /\ q[1] = p[1] /\ q[2] = p[2]
      /\ \A i \in 3..N + 2 : q[i] = m[i - 2]
      /\ q[N + 3] = e[1] /\ q[N + 4] = e[2]
  <2> DEFINE pm == p \o m
  <2>1. /\ Len(pm) = N + 2 /\ pm[1] = p[1] /\ pm[2] = p[2]
        /\ \A i \in 1..N : pm[2 + i] = m[i]
    <3>1. /\ Len(pm) = Len(p) + Len(m)
          /\ \A i \in 1..Len(p) : pm[i] = p[i]
          /\ \A i \in 1..Len(m) : pm[Len(p) + i] = m[i]
      <4>1. PICK S : p \in Seq(S)
        BY <1>5
      <4>2. PICK T : m \in Seq(T)
        BY <1>6
      <4>3. /\ p \in Seq(S \cup T) /\ m \in Seq(S \cup T)
            /\ Len(p) \in Nat /\ Len(m) \in Nat
        BY <4>1, <4>2
      <4>4. QED
        BY <4>3
    <3> HIDE DEF pm
    <3>2. QED
      BY <1>2, <1>5, <1>6, <3>1
  <2>2. \A i \in 3..N + 2 : pm[i] = m[i - 2]
    <3>1. \A i \in 3..N + 2 : i - 2 \in 1..N /\ i = 2 + (i - 2)
      BY <1>2
    <3>2. QED
      BY <2>1, <3>1
  <2>3. \E S : pm \in Seq(S)
    <3>1. pm \in Seq({p[1], p[2]} \cup {m[h] : h \in Hosts})
      BY <1>5, <1>6
    <3>2. QED
      BY <3>1
  <2>4. q = pm \o e
    BY <1>1
  <2> HIDE DEF pm
  <2>5. /\ Len(q) = N + 4
        /\ \A i \in 1..N + 2 : q[i] = pm[i]
        /\ \A i \in 1..2 : q[(N + 2) + i] = e[i]
    <3>1. PICK S : pm \in Seq(S)
      BY <2>3
    <3>2. /\ Len(q) = Len(pm) + Len(e)
          /\ \A i \in 1..Len(pm) : q[i] = pm[i]
          /\ \A i \in 1..Len(e) : q[Len(pm) + i] = e[i]
      <4>1. PICK T : e \in Seq(T)
        BY <1>5
      <4>2. /\ pm \in Seq(S \cup T) /\ e \in Seq(S \cup T)
            /\ Len(pm) \in Nat /\ Len(e) \in Nat
        BY <3>1, <4>1
      <4>3. QED
        BY <2>4, <4>2
    <3>3. QED
      BY <1>2, <1>5, <2>1, <3>2
  <2>6. q[(N + 2) + 1] = e[1] /\ q[(N + 2) + 2] = e[2]
    BY <2>5
  <2>7. (N + 2) + 1 = N + 3 /\ (N + 2) + 2 = N + 4
    BY <1>2
  <2>8. QED
    BY <1>2, <2>1, <2>2, <2>5, <2>6, <2>7
<1>8. QED
  BY <1>3, <1>4, <1>7 DEF q, N

LEMMA EndsOfE == Ends(ScenarioE, NumHosts + 3, NumHosts + 4)
<1> DEFINE q == ScenarioE
           w == Await("count", 0, 10000)
           N == NumHosts
<1>1. /\ Len(q) = N + 4
      /\ q[1] = Do("start", Hosts) /\ q[2] = Do("add", Hosts)
      /\ \A i \in 3..N + 2 : q[i] = HealthyIn(15000, i - 2)
      /\ q[N + 3] = Do("remove", Hosts) /\ q[N + 4] = w
  BY InScenarioE
<1>2. N \in Nat
  BY EnvoyAssumption
<1>3. w.op = "wait" /\ w.condition = "count" /\ w.n = 0 /\ w.must
  BY WaitFields
<1> HIDE DEF q, w, N
<1>4. /\ q[1].op = "start" /\ q[2].on = Hosts /\ q[N + 3].op = "remove" /\ q[N + 3].on = Hosts
      /\ q[N + 4] = w
  BY <1>1, Fields
<1>5. \A i \in 3..N + 2 : q[i].op = "wait"
  BY <1>1, Fields
<1>6. \A i \in 1..N + 4 : q[i].op = "add" => i = 2
  <2>1. SUFFICES ASSUME NEW i \in 1..N + 4
                 PROVE  q[i].op = "add" => i = 2
    OBVIOUS
  <2>2. i = 1 \/ i = 2 \/ i \in 3..N + 2 \/ i = N + 3 \/ i = N + 4
    BY <1>2
  <2>3. QED
    BY <1>3, <1>4, <1>5, <2>2
<1>7. Ends(q, N + 3, N + 4)
  BY <1>1, <1>2, <1>3, <1>4, <1>6 DEF Ends
<1>8. QED
  BY <1>7 DEF q, N

\* A scenario that waits for the hosts to go passes only with a table from
\* which every host is gone, so with no timer lost, wherever streams broke in
\* it and however long Envoy took (scenarios.go:209-275, 331-339, 408-451).
THEOREM NoTimerIsLost == Spec => []LostTimersShow
<1>1. Init => EndsIInv
  <2>1. Init => EndsInv
    BY NoVerdictEnds DEF Init, EndsInv
  <2>2. QED
    BY <2>1, ShapeInitially, ChildInitially, CleanInitially, CurrentInitially DEF EndsIInv
<1>2. EndsIInv /\ [Next]_vars => EndsIInv'
  BY ShapeNext, ChildNext, CleanNext, CurrentNext, EndsNext DEF EndsIInv
<1>3. EndsIInv => LostTimersShow
  <2> SUFFICES ASSUME EndsIInv, verdict = "passed", scenario \in {"D", "E", "F", "H"},
                      NEW h \in Hosts
               PROVE  state[h] # "frozen"
    BY DEF LostTimersShow
  <2>1. CurrentInv /\ EndsInv
    BY DEF EndsIInv
  <2>2. scenario \notin StressBodies
    BY DEF StressBodies
  <2>3. ~InStress
    BY <2>1, <2>2 DEF CurrentInv
  <2>4. \E r, c \in Nat : Ends(Script(scenario), r, c)
    <3>1. {6, 8, 5, 10} \subseteq Nat /\ {NumHosts + 3, NumHosts + 4} \subseteq Nat
      BY EnvoyAssumption
    <3>2. \/ scenario = "D" \/ scenario = "E" \/ scenario = "F" \/ scenario = "H"
      OBVIOUS
    <3>3. Script(scenario) \in {ScenarioD, ScenarioE, ScenarioF, ScenarioH}
      BY Zenon, <3>2, ScriptOf
    <3>4. QED
      BY <3>1, <3>3, EndsOfD, EndsOfE, EndsOfF, EndsOfH
  <2>5. PICK r \in Nat, c \in Nat : Ends(Script(scenario), r, c)
    BY <2>4
  <2>6. at > c
    <3>1. Len(Script(scenario)) \in Nat
      BY ScriptTypes DEF EndsIInv, ShapeInv, BodyOK
    <3>2. QED
      BY <2>1, <2>5, <3>1 DEF EndsInv, Ends
  <2>7. Listed = {}
    BY <2>1, <2>3, <2>5, <2>6 DEF EndsInv
  <2>8. QED
    BY <2>7 DEF Listed
<1>4. QED
  BY <1>1, <1>2, <1>3, PTL DEF Spec

-----------------------------------------------------------------------------
(* The exit status                                                         *)

\* The scenarios that expose, between them, every defect but lost timers.
Exposing == {"0", "A", "B", "C", "E", "G"}

Over(i) == i < index \/ (i = index /\ main \in {"envoy", "server", "report"})

JudgedInv ==
  /\ \A i \in 1..NumIsolated :
       Over(i) /\ AllIsolatedScenarios[i] \in Exposing =>
         \/ AllIsolatedScenarios[i] \in failed
         \/ kind \notin Defects(AllIsolatedScenarios[i])
  /\ exit = "ok" => kind \in {"fixed", "amnesiac"}

LEMMA ExposedBy ==
  /\ \A s \in Exposing : Defects(s)' = Defects(s)
  /\ \A k \in AllKinds : k \in {"fixed", "amnesiac"} \/ \E s \in Exposing : k \in Defects(s)
<1>1. /\ Defects("0") = {"hasty", "constant"}
      /\ Defects("A") = {"forgetful"}
      /\ Defects("B") = {"hasty", "blind"}
      /\ Defects("C") = {"unpatched", "contagious"}
      /\ Defects("E") = {"unpatched", "leaky"}
      /\ Defects("G") = {"unconditional"}
  BY Zenon DEF Defects
<1>2. /\ Defects("0")' = {"hasty", "constant"}
      /\ Defects("A")' = {"forgetful"}
      /\ Defects("B")' = {"hasty", "blind"}
      /\ Defects("C")' = {"unpatched", "contagious"}
      /\ Defects("E")' = {"unpatched", "leaky"}
      /\ Defects("G")' = {"unconditional"}
  BY Zenon DEF Defects
<1>3. \A s \in Exposing : Defects(s)' = Defects(s)
  BY Zenon, <1>1, <1>2 DEF Exposing
<1>4. \A k \in AllKinds : k \in {"fixed", "amnesiac"} \/ \E s \in Exposing : k \in Defects(s)
  BY <1>1 DEF AllKinds, Exposing
<1>5. QED
  BY <1>3, <1>4

LEMMA ExposingPlaces == \A s \in Exposing : \E i \in 1..NumIsolated : AllIsolatedScenarios[i] = s
<1> DEFINE q == AllIsolatedScenarios
<1>1. q[1] = "0" /\ q[2] = "A" /\ q[3] = "B" /\ q[4] = "C" /\ q[6] = "E" /\ q[8] = "G"
  BY DEF AllIsolatedScenarios
<1> HIDE DEF q
<1>2. {1, 2, 3, 4, 6, 8} \subseteq 1..NumIsolated
  BY HowManyIsolated
<1>3. \A s \in Exposing : \E i \in 1..NumIsolated : q[i] = s
  BY <1>1, <1>2 DEF Exposing
<1>4. QED
  BY <1>3 DEF q

\* A step that reports nothing, ends nothing and never succeeds.
LEMMA KeepJudged ==
  ASSUME JudgedInv, UNCHANGED <<kind, failed>>, exit' = exit \/ exit' # "ok",
         \A i \in 1..NumIsolated : Over(i)' => Over(i)
  PROVE  JudgedInv'
BY ExposedBy DEF JudgedInv, NumIsolated

\* Everything Finish reports is earned.
LEMMA FinishJudged ==
  ASSUME ShapeInv, CurrentInv, JudgedInv, ~InStress => PassesAreEarned, Finish
  PROVE  JudgedInv'
<1>1. main = "run" /\ main' = "envoy" /\ UNCHANGED <<index, exit, kind>>
  BY DEF Finish, Judged
<1>2. failed \subseteq failed' /\ (verdict = "failed" => scenario \in failed')
  BY DEF Finish, Reported
<1>3. ASSUME NEW i \in 1..NumIsolated, Over(i)', AllIsolatedScenarios[i] \in Exposing
      PROVE  \/ AllIsolatedScenarios[i] \in failed'
             \/ kind \notin Defects(AllIsolatedScenarios[i])
  <2>1. CASE Over(i)
    BY <1>2, <1>3, <2>1 DEF JudgedInv
  <2>2. CASE ~Over(i)
    <3>1. i = index
      BY <1>1, <1>3, <2>2 DEF Over
    <3>2. ~InStress
      BY <3>1, HowManyIsolated DEF InStress
    <3>3. scenario = AllIsolatedScenarios[i]
      BY <1>1, <3>1, <3>2 DEF CurrentInv
    <3>4. verdict = "passed" => kind \notin Defects(scenario)
      <4>1. scenario \notin StressBodies
        BY <1>3, <3>3 DEF Exposing, StressBodies
      <4>2. Exposes(scenario) = Defects(scenario)
        BY <4>1 DEF Exposes
      <4>3. QED
        BY <3>2, <4>2 DEF PassesAreEarned
    <3>5. verdict = "passed" \/ verdict = "failed"
      BY DEF Finish, Judged
    <3>6. QED
      BY <1>2, <3>3, <3>4, <3>5
  <2>3. QED
    BY <2>1, <2>2
<1>4. \A s \in Exposing : Defects(s)' = Defects(s)
  BY ExposedBy
<1>5. QED
  BY <1>1, <1>3, <1>4 DEF JudgedInv, NumIsolated

\* Whoever exits with 0 has passed all of them.
LEMMA ExitJudged ==
  ASSUME ShapeInv, CurrentInv, JudgedInv, Exit
  PROVE  JudgedInv'
<1>1. main = "report" /\ main' = "exited" /\ UNCHANGED <<index, kind, failed>>
  BY DEF Exit, EndProcess
<1>2. index \in Nat /\ index >= NumIsolated /\ NumIsolated \in Nat
  BY <1>1, HowManyIsolated DEF ShapeInv, ProcessOK, CurrentInv
<1>3. \A i \in 1..NumIsolated : Over(i)
  BY <1>1, <1>2 DEF Over
<1>4. ASSUME exit' = "ok"
      PROVE  kind \in {"fixed", "amnesiac"}
  <2>1. failed = {}
    BY <1>4 DEF Exit, EndProcess, AllPassed
  <2>2. \A s \in Exposing : kind \notin Defects(s)
    BY <1>3, <2>1, ExposingPlaces DEF JudgedInv
  <2>3. kind \in AllKinds
    BY EnvoyAssumption DEF ShapeInv, ProcessOK
  <2>4. QED
    BY <2>2, <2>3, ExposedBy
<1>5. \A s \in Exposing : Defects(s)' = Defects(s)
  BY ExposedBy
<1>6. QED
  BY <1>1, <1>3, <1>4, <1>5 DEF JudgedInv, NumIsolated

LEMMA JudgedNext ==
  ShapeInv /\ CurrentInv /\ JudgedInv /\ (~InStress => PassesAreEarned) /\ [Next]_vars
    => JudgedInv'
<1> SUFFICES ASSUME ShapeInv, CurrentInv, JudgedInv, ~InStress => PassesAreEarned, [Next]_vars
             PROVE  JudgedInv'
  OBVIOUS
<1> USE DEF processVars, reportVars, Over
<1>1. CASE StartServer
  BY <1>1, KeepJudged DEF StartServer
<1>2. CASE UnknownProfile \/ SetupFails
  BY <1>2, KeepJudged DEF UnknownProfile, SetupFails, EndProcess
<1>3. CASE StartEnvoy
  BY <1>3, KeepJudged DEF StartEnvoy, scenarioVars
<1>4. CASE EnvoyIsReady
  BY <1>4, KeepJudged DEF EnvoyIsReady
<1>5. CASE EnvoyIsNotReady
  BY <1>5, KeepJudged DEF EnvoyIsNotReady, EndProcess
<1>6. CASE NextBody
  <2>1. /\ \A i \in 1..NumIsolated : Over(i)' => Over(i)
        /\ UNCHANGED <<kind, exit>> /\ failed \subseteq failed'
    BY <1>6 DEF NextBody, Reported
  <2>2. \A s \in Exposing : Defects(s)' = Defects(s)
    BY ExposedBy
  <2>3. QED
    BY <2>1, <2>2 DEF JudgedInv, NumIsolated
<1>7. CASE Finish
  BY <1>7, FinishJudged
<1>8. CASE StopEnvoy
  BY <1>8, KeepJudged DEF StopEnvoy
<1>9. CASE StopServer
  <2>1. ASSUME NEW i \in 1..NumIsolated, Over(i)'
        PROVE  Over(i)
    <3>1. CASE main' = "begin"
      <4>1. i < index + 1 /\ index \in Nat
        BY <1>9, <2>1, <3>1, HowManyIsolated DEF StopServer, ShapeInv, ProcessOK
      <4>2. QED
        BY <1>9, <4>1, HowManyIsolated DEF StopServer
    <3>2. CASE main' # "begin"
      BY <1>9, <2>1, <3>2 DEF StopServer
    <3>3. QED
      BY <3>1, <3>2
  <2>2. UNCHANGED <<kind, failed, exit>>
    BY <1>9 DEF StopServer, scenarioVars
  <2>3. QED
    BY <2>1, <2>2, KeepJudged
<1>10. CASE Exit
  BY <1>10, ExitJudged
<1>11. CASE main = "run" /\ BodyStep /\ UNCHANGED <<processVars, reportVars>>
  BY <1>11, BodyStepRest, KeepJudged
<1>12. CASE EnvoyBecomesReady \/ OrphanBecomesReady \/ EnvoyCrashes
  BY <1>12, KeepJudged DEF EnvoyBecomesReady, OrphanBecomesReady, EnvoyCrashes
<1>13. CASE StreamBreaks \/ (EnvoyApplies /\ UNCHANGED <<processVars, reportVars>>)
  BY <1>13, KeepJudged DEF StreamBreaks, Reconnect, EnvoyApplies, Apply
<1>14. CASE Passage
  BY <1>14, KeepJudged DEF Passage, Tick, EnvoyTick
<1>15. CASE CallHangs \/ Exited \/ UNCHANGED vars
  BY <1>15, KeepJudged DEF CallHangs, Exited, vars, scenarioVars
<1>16. QED
  BY <1>1, <1>2, <1>3, <1>4, <1>5, <1>6, <1>7, <1>8, <1>9, <1>10, <1>11, <1>12, <1>13, <1>14,
     <1>15
  DEF Next, MainStep, EnvoyStep

\* The exit status is as good as the verdicts: no path of main loses a failed
\* scenario, skips one or exits with 0 before all are judged, so that 0 stands
\* for the feature whenever passes of isolated scenarios are evidence
\* (main.go:157-190, 214-223).  That they are is a question of the scripts and
\* their times, which VerdictProofs answers.
THEOREM ExitFollowsVerdicts ==
  Spec /\ [](~InStress => PassesAreEarned) => []ExitOkMeansFixed
<1>1. Init => ShapeInv /\ CurrentInv /\ JudgedInv
  <2>1. Init => JudgedInv
    <3>1. SUFFICES ASSUME Init PROVE JudgedInv
      OBVIOUS
    <3>2. \A i \in 1..NumIsolated : ~Over(i)
      BY <3>1, HowManyIsolated DEF Init, Over
    <3>3. QED
      BY <3>1, <3>2 DEF Init, JudgedInv
  <2>2. QED
    BY <2>1, ShapeInitially, CurrentInitially
<1>2. /\ ShapeInv /\ CurrentInv /\ JudgedInv
      /\ (~InStress => PassesAreEarned) /\ [Next]_vars
      => (ShapeInv /\ CurrentInv /\ JudgedInv)'
  BY ShapeNext, CurrentNext, JudgedNext
<1>3. JudgedInv => ExitOkMeansFixed
  BY DEF JudgedInv, ExitOkMeansFixed
<1>4. QED
  BY <1>1, <1>2, <1>3, PTL DEF Spec

=============================================================================
