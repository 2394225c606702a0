---------------------------- MODULE StressProofs ----------------------------
(***************************************************************************)
(* Proofs about the stress runner, for every finite set of ports, every    *)
(* finite set of goroutines and every mix of the scenarios.                *)
(***************************************************************************)
EXTENDS StressTest, FiniteSetTheorems, TLAPS

Alive   == Phases \ {"unused", "gone"}                  \* between wg.Add and wg.Done
Counted == Phases \ {"unused", "finishing", "gone"}     \* in currentConc

\* A body has all its ports and its next instruction exists, or it is over.
BodyInv ==
  \A j \in Jobs : phase[j] = "running" =>
    /\ Len(held[j]) = NumEndpoints[scen[j]]
    /\ at[j] \in 1..(Len(Script[scen[j]]) + 1)

\* A goroutine that has not been launched is at the first instruction.
UnusedInv == \A j \in Jobs : phase[j] = "unused" => at[j] = 1 /\ held[j] = <<>>

\* The WaitGroup counts the goroutines that have been launched and not ended.
WgInv == wg = Cardinality(JobsIn(Alive))

\* The deadline is polled between any two launches.
LateInv == late <= (IF expired /\ loop # "take" THEN 1 ELSE 0)

StructInv == TypeOK /\ BodyInv /\ UnusedInv
CountInv  == WgInv /\ MaxConcCovers

-----------------------------------------------------------------------------
(* Sequences *)

LEMMA TailFacts ==
  ASSUME NEW S, NEW s \in Seq(S), s # <<>>
  PROVE  /\ Head(s) \in S
         /\ Tail(s) \in Seq(S)
         /\ Len(Tail(s)) = Len(s) - 1
         /\ Range(s) = {Head(s)} \cup Range(Tail(s))
         /\ IsInjective(s) => IsInjective(Tail(s)) /\ Head(s) \notin Range(Tail(s))
<1>1. Len(s) \in Nat /\ Len(s) > 0 /\ DOMAIN s = 1..Len(s)
  OBVIOUS
<1>2. DOMAIN Tail(s) = 1..(Len(s) - 1)
  BY <1>1
<1>3. \A i \in 1..(Len(s) - 1) : Tail(s)[i] = s[i + 1]
  BY <1>1
<1>4. Head(s) = s[1]
  OBVIOUS
<1>5. Range(s) \subseteq {Head(s)} \cup Range(Tail(s))
  <2> SUFFICES ASSUME NEW i \in 1..Len(s), i # 1
               PROVE  s[i] \in Range(Tail(s))
    BY <1>1, <1>4 DEF Range
  <2>1. i - 1 \in DOMAIN Tail(s) /\ Tail(s)[i - 1] = s[i]
    BY <1>1, <1>2, <1>3
  <2> QED
    BY <2>1 DEF Range
<1>6. Range(Tail(s)) \subseteq Range(s)
  BY <1>1, <1>2, <1>3 DEF Range
<1>7. ASSUME IsInjective(s)
      PROVE  IsInjective(Tail(s)) /\ Head(s) \notin Range(Tail(s))
  BY <1>1, <1>2, <1>3, <1>4, <1>7 DEF IsInjective, Range
<1> QED
  BY <1>1, <1>4, <1>5, <1>6, <1>7 DEF Range

LEMMA AppendFacts ==
  ASSUME NEW S, NEW s \in Seq(S), NEW e \in S
  PROVE  /\ Append(s, e) \in Seq(S)
         /\ Len(Append(s, e)) = Len(s) + 1
         /\ Range(Append(s, e)) = Range(s) \cup {e}
         /\ IsInjective(s) /\ e \notin Range(s) => IsInjective(Append(s, e))
<1>1. Len(s) \in Nat /\ DOMAIN s = 1..Len(s) /\ DOMAIN Append(s, e) = 1..(Len(s) + 1)
  OBVIOUS
<1>2. /\ \A i \in 1..Len(s) : Append(s, e)[i] = s[i]
      /\ Append(s, e)[Len(s) + 1] = e
  OBVIOUS
<1>3. Range(Append(s, e)) = Range(s) \cup {e}
  BY <1>1, <1>2 DEF Range
<1>4. ASSUME IsInjective(s), e \notin Range(s)
      PROVE  IsInjective(Append(s, e))
  BY <1>1, <1>2, <1>4 DEF IsInjective, Range
<1> QED
  BY <1>3, <1>4

LEMMA EmptyFacts == Range(<<>>) = {} /\ IsInjective(<<>>)
BY DEF Range, IsInjective

-----------------------------------------------------------------------------
(* Every instruction of a body names ports that the body has.              *)

LEMMA InstructionPorts ==
  /\ Start(1).on = {1} /\ Start(2).on = {2}
  /\ Add({1}).on = {1} /\ Add({1, 2}).on = {1, 2}
  /\ Remove(1).on = {1} /\ Remove(2).on = {2}
  /\ Stop(1).on = {1} /\ Await.on = {}
BY DEF Start, Add, Remove, Stop, Await

LEMMA ScriptType ==
  ASSUME NEW s \in AllScenarios
  PROVE  /\ Len(Script[s]) \in Nat
         /\ \A i \in 1..Len(Script[s]) : Script[s][i].on \subseteq 1..NumEndpoints[s]
         /\ NumEndpoints[s] \in Nat
<1>1. CASE s = "add/remove/timeout"
  <2>1. Script[s] =
          <<Start(1), Add({1}), Await, Remove(1), Await>>
    BY <1>1 DEF Script
  <2>2. NumEndpoints[s] = 1
    BY <1>1 DEF NumEndpoints
  <2>3. Len(Script[s]) = 5
    BY <2>1
  <2>4. \A i \in 1..5 : Script[s][i].on \subseteq 1..1
    <3> SUFFICES ASSUME NEW i \in 1..5
                 PROVE  Script[s][i].on \subseteq 1..1
      OBVIOUS
    <3>1. i = 1 \/ i = 2 \/ i = 3 \/ i = 4 \/ i = 5
      OBVIOUS
    <3> QED
      BY <3>1, <2>1, InstructionPorts
  <2> QED
    BY <2>2, <2>3, <2>4
<1>2. CASE s = "HC failure"
  <2>1. Script[s] =
          <<Start(1), Add({1}), Await, Remove(1), Stop(1), Await>>
    BY <1>2 DEF Script
  <2>2. NumEndpoints[s] = 1
    BY <1>2 DEF NumEndpoints
  <2>3. Len(Script[s]) = 6
    BY <2>1
  <2>4. \A i \in 1..6 : Script[s][i].on \subseteq 1..1
    <3> SUFFICES ASSUME NEW i \in 1..6
                 PROVE  Script[s][i].on \subseteq 1..1
      OBVIOUS
    <3>1. i = 1 \/ i = 2 \/ i = 3 \/ i = 4 \/ i = 5 \/ i = 6
      OBVIOUS
    <3> QED
      BY <3>1, <2>1, InstructionPorts
  <2> QED
    BY <2>2, <2>3, <2>4
<1>3. CASE s = "host re-add"
  <2>1. Script[s] =
          <<Start(1), Add({1}), Await, Remove(1), Add({1}), Await>>
    BY <1>3 DEF Script
  <2>2. NumEndpoints[s] = 1
    BY <1>3 DEF NumEndpoints
  <2>3. Len(Script[s]) = 6
    BY <2>1
  <2>4. \A i \in 1..6 : Script[s][i].on \subseteq 1..1
    <3> SUFFICES ASSUME NEW i \in 1..6
                 PROVE  Script[s][i].on \subseteq 1..1
      OBVIOUS
    <3>1. i = 1 \/ i = 2 \/ i = 3 \/ i = 4 \/ i = 5 \/ i = 6
      OBVIOUS
    <3> QED
      BY <3>1, <2>1, InstructionPorts
  <2> QED
    BY <2>2, <2>3, <2>4
<1>4. CASE s = "partial removal"
  <2>1. Script[s] =
          <<Start(1), Start(2), Add({1, 2}), Await, Remove(1), Await, Remove(2)>>
    BY <1>4 DEF Script
  <2>2. NumEndpoints[s] = 2
    BY <1>4 DEF NumEndpoints
  <2>3. Len(Script[s]) = 7
    BY <2>1
  <2>4. \A i \in 1..7 : Script[s][i].on \subseteq 1..2
    <3> SUFFICES ASSUME NEW i \in 1..7
                 PROVE  Script[s][i].on \subseteq 1..2
      OBVIOUS
    <3>1. i = 1 \/ i = 2 \/ i = 3 \/ i = 4 \/ i = 5 \/ i = 6 \/ i = 7
      OBVIOUS
    <3> QED
      BY <3>1, <2>1, InstructionPorts
  <2> QED
    BY <2>2, <2>3, <2>4
<1>5. CASE s = "long-lived healthy"
  <2>1. Script[s] =
          <<Start(1), Add({1}), Await, Remove(1)>>
    BY <1>5 DEF Script
  <2>2. NumEndpoints[s] = 1
    BY <1>5 DEF NumEndpoints
  <2>3. Len(Script[s]) = 4
    BY <2>1
  <2>4. \A i \in 1..4 : Script[s][i].on \subseteq 1..1
    <3> SUFFICES ASSUME NEW i \in 1..4
                 PROVE  Script[s][i].on \subseteq 1..1
      OBVIOUS
    <3>1. i = 1 \/ i = 2 \/ i = 3 \/ i = 4
      OBVIOUS
    <3> QED
      BY <3>1, <2>1, InstructionPorts
  <2> QED
    BY <2>2, <2>3, <2>4
<1> QED
  BY <1>1, <1>2, <1>3, <1>4, <1>5 DEF AllScenarios

LEMMA TargetsArePorts ==
  ASSUME StructInv, NEW j \in Jobs, NEW op, Execute(j, op)
  PROVE  Targets(j) \in SUBSET Ports
<1>1. scen[j] \in AllScenarios /\ held[j] \in Seq(Ports) /\ at[j] \in Nat
  BY MixAssumption DEF StructInv, TypeOK
<1>2. /\ Len(held[j]) = NumEndpoints[scen[j]]
      /\ at[j] \in 1..Len(Script[scen[j]])
  BY <1>1, ScriptType DEF StructInv, BodyInv, Execute
<1>3. \A i \in Script[scen[j]][at[j]].on : i \in 1..Len(held[j])
  BY <1>1, <1>2, ScriptType
<1> QED
  BY <1>1, <1>3 DEF Targets

-----------------------------------------------------------------------------
(* Types, and the index into the body                                      *)

LEMMA InitStruct == Init => StructInv
<1> SUFFICES ASSUME Init
             PROVE  StructInv
  OBVIOUS
<1>1. pool \in Seq(Ports) /\ Len(pool) <= Cardinality(Ports)
  BY PortsAssumption DEF Init
<1>2. NoStats \in [Run : Nat, Passed : Nat, Failed : Nat]
  BY DEF NoStats
<1>3. /\ picked \in Mix /\ hand \in Seq(Ports) /\ loop = "check" /\ expired = FALSE
      /\ backends \in SUBSET Ports /\ present \in SUBSET Ports
      /\ wg = 0 /\ currentConc = 0 /\ maxConc = 0 /\ totalRun = 0 /\ late = 0
  BY DEF Init
<1>4. /\ phase \in [Jobs -> Phases] /\ at \in [Jobs -> Nat]
      /\ held \in [Jobs -> Seq(Ports)] /\ passed \in [Jobs -> BOOLEAN]
  BY DEF Init, Phases
<1>5. scen \in [Jobs -> Mix]
  BY <1>3 DEF Init
<1>6. results \in [AllScenarios -> [Run : Nat, Passed : Nat, Failed : Nat]]
  BY <1>2 DEF Init
<1>7. TypeOK
  BY <1>1, <1>3, <1>4, <1>5, <1>6 DEF TypeOK
<1> QED
  BY <1>7 DEF Init, StructInv, BodyInv, UnusedInv

LEMMA LoopStruct ==
  ASSUME StructInv, CheckDone \/ (\E s \in Mix : Pick(s)) \/ WaitReturns \/ Expire
  PROVE  StructInv'
BY DEF StructInv, TypeOK, BodyInv, UnusedInv, CheckDone, Pick, WaitReturns, Expire,
       jobVars, concVars, statVars, envVars, loopVars

LEMMA TakePortStruct ==
  ASSUME StructInv, TakePort
  PROVE  StructInv'
<1>1. hand' \in Seq(Ports) /\ pool' \in Seq(Ports) /\ Len(pool') <= Cardinality(Ports)
  BY TailFacts, AppendFacts, PortsAssumption DEF StructInv, TypeOK, TakePort
<1> QED
  BY <1>1 DEF StructInv, TypeOK, BodyInv, UnusedInv, TakePort,
              jobVars, concVars, statVars, envVars

LEMMA LaunchStruct ==
  ASSUME StructInv, NEW j \in Jobs, Launch(j)
  PROVE  StructInv'
<1>1. picked \in AllScenarios /\ hand \in Seq(Ports)
  BY MixAssumption DEF StructInv, TypeOK
<1>2. /\ loop' = "check" /\ picked' = picked /\ hand' = <<>> /\ pool' = pool
      /\ phase' = [phase EXCEPT ![j] = "running"]
      /\ scen' = [scen EXCEPT ![j] = picked]
      /\ held' = [held EXCEPT ![j] = hand]
      /\ UNCHANGED <<at, passed, results, totalRun, expired, backends, present>>
      /\ late' \in Nat /\ wg' \in Nat /\ currentConc' \in Nat /\ maxConc' \in Nat
  BY DEF StructInv, TypeOK, Launch, Spawn, statVars, envVars
<1>3. TypeOK'
  BY <1>1, <1>2 DEF StructInv, TypeOK, Phases
<1>4. at[j] = 1 /\ Len(hand) = NumEndpoints[picked]
  BY DEF StructInv, UnusedInv, Launch, Spawn
<1>5. BodyInv'
  BY <1>1, <1>2, <1>4, ScriptType DEF StructInv, TypeOK, BodyInv
<1>6. UnusedInv'
  BY <1>2 DEF StructInv, TypeOK, UnusedInv
<1> QED
  BY <1>3, <1>5, <1>6 DEF StructInv

LEMMA BodyStruct ==
  ASSUME StructInv, NEW j \in Jobs, BodyStep(j)
  PROVE  StructInv'
<1>0. scen[j] \in AllScenarios /\ at[j] \in Nat
  BY MixAssumption DEF StructInv, TypeOK
<1>1. ASSUME NEW op, Execute(j, op), Continue(j),
             backends' \in SUBSET Ports, present' \in SUBSET Ports
      PROVE  StructInv'
  <2>1. TypeOK'
    BY <1>0, <1>1 DEF StructInv, TypeOK, Execute, Continue, loopVars, concVars, statVars
  <2>2. at[j] + 1 \in 1..(Len(Script[scen[j]]) + 1)
    BY <1>0, <1>1, ScriptType DEF Execute
  <2>3. BodyInv'
    BY <1>1, <2>2 DEF StructInv, TypeOK, BodyInv, Execute, Continue
  <2>4. UnusedInv'
    BY <1>1 DEF StructInv, TypeOK, UnusedInv, Execute, Continue
  <2> QED
    BY <2>1, <2>3, <2>4 DEF StructInv
<1>2. CASE StartBackend(j) \/ StartFails(j)
  BY <1>1, <1>2, TargetsArePorts DEF StartBackend, StartFails, envVars, StructInv, TypeOK
<1>3. CASE StopBackend(j)
  BY <1>1, <1>3, TargetsArePorts DEF StopBackend, StructInv, TypeOK
<1>4. CASE AddEndpoints(j)
  BY <1>1, <1>4, TargetsArePorts DEF AddEndpoints, StructInv, TypeOK
<1>5. CASE RemoveEndpoints(j)
  BY <1>1, <1>5, TargetsArePorts DEF RemoveEndpoints, StructInv, TypeOK
<1>6. CASE AwaitEnvoy(j)
  <2>1. CASE Continue(j)
    BY <1>1, <1>6, <2>1 DEF AwaitEnvoy, envVars, StructInv, TypeOK
  <2>2. CASE phase' = [phase EXCEPT ![j] = "cleaning"] /\ UNCHANGED <<at, passed>>
    BY <1>6, <2>2 DEF AwaitEnvoy, Execute, StructInv, TypeOK, BodyInv, UnusedInv, Phases,
                      loopVars, concVars, statVars, envVars
  <2> QED
    BY <1>6, <2>1, <2>2 DEF AwaitEnvoy
<1>7. CASE Pass(j)
  BY <1>7 DEF Pass, StructInv, TypeOK, BodyInv, UnusedInv, Phases,
              loopVars, concVars, statVars, envVars
<1> QED
  BY <1>2, <1>3, <1>4, <1>5, <1>6, <1>7 DEF BodyStep

\* A job's last steps; the counters cannot fall below zero, because the job is
\* among those they count.
LEMMA TallyType ==
  ASSUME NEW st \in [Run : Nat, Passed : Nat, Failed : Nat], NEW ok \in BOOLEAN
  PROVE  Tally(st, ok) \in [Run : Nat, Passed : Nat, Failed : Nat]
BY DEF Tally

LEMMA CountedJob ==
  ASSUME NEW S, NEW j \in JobsIn(S)
  PROVE  /\ IsFiniteSet(JobsIn(S)) /\ Cardinality(JobsIn(S)) \in Nat
         /\ Cardinality(JobsIn(S)) > 0
<1>1. JobsIn(S) \subseteq Jobs
  BY DEF JobsIn
<1>2. IsFiniteSet(JobsIn(S))
  BY <1>1, JobsAssumption, FS_Subset
<1> QED
  BY <1>2, FS_CardinalityType, FS_EmptySet

LEMMA EndStruct ==
  ASSUME StructInv, CountInv, NEW j \in Jobs,
         CleanUp(j) \/ Record(j) \/ ReturnPort(j) \/ LeaveConc(j) \/ WgDone(j)
  PROVE  StructInv'
<1>1. CASE CleanUp(j)
  BY <1>1 DEF CleanUp, StructInv, TypeOK, BodyInv, UnusedInv, Phases,
              loopVars, concVars, statVars, envVars
<1>2. CASE Record(j)
  <2>1. scen[j] \in AllScenarios /\ passed[j] \in BOOLEAN
    BY MixAssumption DEF StructInv, TypeOK
  <2>2. results' \in [AllScenarios -> [Run : Nat, Passed : Nat, Failed : Nat]]
    BY <1>2, <2>1, TallyType DEF Record, StructInv, TypeOK
  <2> QED
    BY <1>2, <2>2 DEF Record, StructInv, TypeOK, BodyInv, UnusedInv, Phases,
                      loopVars, concVars, envVars
<1>3. CASE ReturnPort(j)
  <2>1. held[j] \in Seq(Ports) /\ held[j] # <<>> /\ pool \in Seq(Ports)
    BY <1>3 DEF ReturnPort, StructInv, TypeOK
  <2>2. Head(held[j]) \in Ports /\ Tail(held[j]) \in Seq(Ports)
    BY <2>1, TailFacts
  <2>3. pool' \in Seq(Ports) /\ Len(pool') <= Cardinality(Ports)
    BY <1>3, <2>1, <2>2, AppendFacts, PortsAssumption DEF ReturnPort
  <2> QED
    BY <1>3, <2>2, <2>3 DEF ReturnPort, StructInv, TypeOK, BodyInv, UnusedInv, Phases,
                            loopVars, concVars, statVars, envVars
<1>4. CASE LeaveConc(j)
  <2>1. j \in JobsIn(Counted)
    BY <1>4 DEF LeaveConc, JobsIn, Counted, Phases
  <2>2. currentConc - 1 \in Nat
    BY <2>1, CountedJob DEF CountInv, MaxConcCovers, Counted
  <2> QED
    BY <1>4, <2>2 DEF LeaveConc, StructInv, TypeOK, BodyInv, UnusedInv, Phases,
                      loopVars, statVars, envVars
<1>5. CASE WgDone(j)
  <2>1. j \in JobsIn(Alive)
    BY <1>5 DEF WgDone, JobsIn, Alive, Phases
  <2>2. wg - 1 \in Nat
    BY <2>1, CountedJob DEF CountInv, WgInv
  <2> QED
    BY <1>5, <2>2 DEF WgDone, StructInv, TypeOK, BodyInv, UnusedInv, Phases,
                      loopVars, statVars, envVars
<1> QED
  BY <1>1, <1>2, <1>3, <1>4, <1>5

\* A deferred Stop changes nothing but the backends.
LEMMA DeferredFrame ==
  ASSUME NEW j \in Jobs, StopDeferred(j)
  PROVE  /\ UNCHANGED <<loop, picked, hand, pool, phase, scen, at, held, passed, wg,
                       currentConc, maxConc, results, totalRun, expired, present, late>>
         /\ phase[j] = "cleaning" /\ backends' \subseteq backends
BY DEF StopDeferred, loopVars, jobVars, concVars, statVars

LEMMA DeferredStruct ==
  ASSUME StructInv, NEW j \in Jobs, StopDeferred(j)
  PROVE  StructInv'
BY DeferredFrame DEF StructInv, TypeOK, BodyInv, UnusedInv

LEMMA StutterStruct ==
  ASSUME StructInv, UNCHANGED vars
  PROVE  StructInv'
BY DEF StructInv, TypeOK, BodyInv, UnusedInv, vars,
       loopVars, jobVars, concVars, statVars, envVars

-----------------------------------------------------------------------------
(* The counters                                                            *)

\* A step that moves job j alone changes a count by one where j enters or
\* leaves the set counted.
LEMMA MoveJob ==
  ASSUME NEW S, NEW j \in Jobs, \A k \in Jobs \ {j} : phase'[k] = phase[k]
  PROVE  /\ Cardinality(JobsIn(S)) \in Nat
         /\ phase[j] \in S /\ phase'[j] \in S =>
              Cardinality(JobsIn(S)') = Cardinality(JobsIn(S))
         /\ phase[j] \notin S /\ phase'[j] \notin S =>
              Cardinality(JobsIn(S)') = Cardinality(JobsIn(S))
         /\ phase[j] \notin S /\ phase'[j] \in S =>
              Cardinality(JobsIn(S)') = Cardinality(JobsIn(S)) + 1
         /\ phase[j] \in S /\ phase'[j] \notin S =>
              Cardinality(JobsIn(S)') = Cardinality(JobsIn(S)) - 1
<1> DEFINE Now == {k \in Jobs : phase[k] \in S}
           Then == {k \in Jobs : phase'[k] \in S}
<1>0. JobsIn(S) = Now /\ JobsIn(S)' = Then
  BY DEF JobsIn
<1>1. IsFiniteSet(Now) /\ Cardinality(Now) \in Nat
  BY JobsAssumption, FS_Subset, FS_CardinalityType
<1>2. phase[j] \in S /\ phase'[j] \in S => Then = Now
  OBVIOUS
<1>3. phase[j] \notin S /\ phase'[j] \notin S => Then = Now
  OBVIOUS
<1>4. phase[j] \notin S /\ phase'[j] \in S => Then = Now \cup {j} /\ j \notin Now
  OBVIOUS
<1>5. phase[j] \in S /\ phase'[j] \notin S => Then = Now \ {j} /\ j \in Now
  OBVIOUS
<1> HIDE DEF Now, Then
<1> QED
  BY <1>0, <1>1, <1>2, <1>3, <1>4, <1>5, FS_AddElement, FS_RemoveElement

\* A step that moves no job and changes no counter.
LEMMA QuietCount ==
  ASSUME CountInv, UNCHANGED <<phase, wg, currentConc, maxConc>>
  PROVE  CountInv'
BY DEF CountInv, WgInv, MaxConcCovers, JobsIn

\* A step inside a body, or the recording of its verdict.
LEMMA InsideCount ==
  ASSUME StructInv, CountInv, NEW j \in Jobs, NEW p \in Counted,
         phase[j] \in Counted, phase' = [phase EXCEPT ![j] = p],
         UNCHANGED <<wg, currentConc, maxConc>>
  PROVE  CountInv'
<1>1. /\ \A k \in Jobs \ {j} : phase'[k] = phase[k]
      /\ phase'[j] = p
  BY DEF StructInv, TypeOK
<1>2. phase[j] \in Alive /\ p \in Alive
  BY DEF Alive, Counted, Phases
<1>3. /\ Cardinality(JobsIn(Alive)') = Cardinality(JobsIn(Alive))
      /\ Cardinality(JobsIn(Counted)') = Cardinality(JobsIn(Counted))
  BY <1>1, <1>2, MoveJob
<1> QED
  BY <1>3 DEF CountInv, WgInv, MaxConcCovers, Counted, JobsIn, Alive

LEMMA LaunchCount ==
  ASSUME StructInv, CountInv, NEW j \in Jobs, Launch(j)
  PROVE  CountInv'
<1>1. /\ \A k \in Jobs \ {j} : phase'[k] = phase[k]
      /\ phase[j] = "unused" /\ phase'[j] = "running"
  BY DEF StructInv, TypeOK, Launch, Spawn
<1>2. /\ "running" \in Alive /\ "unused" \notin Alive
      /\ "running" \in Counted /\ "unused" \notin Counted
  BY DEF Alive, Counted, Phases
<1>3. /\ Cardinality(JobsIn(Alive)') = Cardinality(JobsIn(Alive)) + 1
      /\ Cardinality(JobsIn(Counted)') = Cardinality(JobsIn(Counted)) + 1
  BY <1>1, <1>2, MoveJob
<1>4. maxConc \in Nat /\ currentConc \in Nat
  BY DEF StructInv, TypeOK
<1>5. currentConc' = currentConc + 1 /\ currentConc' <= maxConc' /\ wg' = wg + 1
  BY <1>4 DEF Launch
<1> QED
  BY <1>3, <1>5 DEF CountInv, WgInv, MaxConcCovers, Counted

LEMMA LeaveConcCount ==
  ASSUME StructInv, CountInv, NEW j \in Jobs, LeaveConc(j)
  PROVE  CountInv'
<1>1. /\ \A k \in Jobs \ {j} : phase'[k] = phase[k]
      /\ phase[j] = "returning" /\ phase'[j] = "finishing"
  BY DEF StructInv, TypeOK, LeaveConc
<1>2. /\ "returning" \in Alive /\ "finishing" \in Alive
      /\ "returning" \in Counted /\ "finishing" \notin Counted
  BY DEF Alive, Counted, Phases
<1>3. /\ Cardinality(JobsIn(Alive)') = Cardinality(JobsIn(Alive))
      /\ Cardinality(JobsIn(Counted)') = Cardinality(JobsIn(Counted)) - 1
  BY <1>1, <1>2, MoveJob
<1>4. maxConc \in Nat /\ currentConc \in Nat
  BY DEF StructInv, TypeOK
<1> QED
  BY <1>3, <1>4 DEF LeaveConc, CountInv, WgInv, MaxConcCovers, Counted

LEMMA WgDoneCount ==
  ASSUME StructInv, CountInv, NEW j \in Jobs, WgDone(j)
  PROVE  CountInv'
<1>1. /\ \A k \in Jobs \ {j} : phase'[k] = phase[k]
      /\ phase[j] = "finishing" /\ phase'[j] = "gone"
  BY DEF StructInv, TypeOK, WgDone
<1>2. /\ "gone" \notin Alive /\ "finishing" \in Alive
      /\ "gone" \notin Counted /\ "finishing" \notin Counted
  BY DEF Alive, Counted, Phases
<1>3. /\ Cardinality(JobsIn(Alive)') = Cardinality(JobsIn(Alive)) - 1
      /\ Cardinality(JobsIn(Counted)') = Cardinality(JobsIn(Counted))
  BY <1>1, <1>2, MoveJob
<1> QED
  BY <1>3 DEF WgDone, CountInv, WgInv, MaxConcCovers, Counted

-----------------------------------------------------------------------------
(* The ports                                                               *)

LEMMA InitPorts == Init => PortsConserved
BY EmptyFacts DEF Init, PortsConserved

LEMMA QuietPorts ==
  ASSUME PortsConserved, UNCHANGED <<hand, pool, held>>
  PROVE  PortsConserved'
BY DEF PortsConserved

LEMMA TakePortPorts ==
  ASSUME StructInv, PortsConserved, TakePort
  PROVE  PortsConserved'
<1> DEFINE p == Head(pool)
<1>1. /\ pool \in Seq(Ports) /\ pool # <<>> /\ hand \in Seq(Ports)
      /\ hand' = Append(hand, p) /\ pool' = Tail(pool) /\ held' = held
  BY DEF StructInv, TypeOK, TakePort, jobVars
<1>2. /\ p \in Ports /\ Range(pool) = {p} \cup Range(pool')
      /\ IsInjective(pool') /\ p \notin Range(pool')
  BY <1>1, TailFacts DEF PortsConserved
<1>3. p \notin Range(hand)
  BY <1>2 DEF PortsConserved
<1>4. Range(hand') = Range(hand) \cup {p} /\ IsInjective(hand')
  BY <1>1, <1>2, <1>3, AppendFacts DEF PortsConserved
<1> HIDE DEF p
<1> QED
  BY <1>1, <1>2, <1>3, <1>4 DEF PortsConserved

LEMMA LaunchPorts ==
  ASSUME StructInv, PortsConserved, NEW j \in Jobs, Launch(j)
  PROVE  PortsConserved'
<1>1. /\ hand' = <<>> /\ pool' = pool /\ held[j] = <<>> /\ held'[j] = hand
      /\ \A k \in Jobs \ {j} : held'[k] = held[k]
  BY DEF StructInv, TypeOK, UnusedInv, Launch, Spawn
<1>2. Range(hand') = {} /\ IsInjective(hand') /\ Range(held[j]) = {}
  BY <1>1, EmptyFacts
<1>3. UNION {Range(held'[k]) : k \in Jobs} =
        Range(hand) \cup UNION {Range(held[k]) : k \in Jobs}
  BY <1>1, <1>2
<1> QED
  BY <1>1, <1>2, <1>3 DEF PortsConserved

LEMMA ReturnPortPorts ==
  ASSUME StructInv, PortsConserved, NEW j \in Jobs, ReturnPort(j)
  PROVE  PortsConserved'
<1> DEFINE p == Head(held[j])
<1>1. /\ held[j] \in Seq(Ports) /\ held[j] # <<>> /\ pool \in Seq(Ports)
      /\ pool' = Append(pool, p) /\ hand' = hand /\ held'[j] = Tail(held[j])
      /\ \A k \in Jobs \ {j} : held'[k] = held[k]
  BY DEF StructInv, TypeOK, ReturnPort, loopVars
<1>2. /\ p \in Ports /\ Range(held[j]) = {p} \cup Range(held'[j])
      /\ IsInjective(held'[j]) /\ p \notin Range(held'[j])
  BY <1>1, TailFacts DEF PortsConserved
<1>3. p \notin Range(pool) /\ p \notin Range(hand)
  BY <1>2 DEF PortsConserved
<1>4. Range(pool') = Range(pool) \cup {p} /\ IsInjective(pool')
  BY <1>1, <1>2, <1>3, AppendFacts DEF PortsConserved
<1>5. UNION {Range(held[k]) : k \in Jobs} =
        {p} \cup UNION {Range(held'[k]) : k \in Jobs}
  BY <1>1, <1>2
<1>6. \A k \in Jobs \ {j} : p \notin Range(held[k])
  BY <1>2 DEF PortsConserved
<1> HIDE DEF p
<1>7. IsInjective(pool') /\ IsInjective(hand') /\ \A k \in Jobs : IsInjective(held'[k])
  BY <1>1, <1>2, <1>4 DEF PortsConserved
<1>8. Range(pool') \cap Range(hand') = {}
  BY <1>1, <1>3, <1>4 DEF PortsConserved
<1>9. ASSUME NEW k \in Jobs
      PROVE  /\ Range(held'[k]) \cap (Range(pool') \cup Range(hand')) = {}
             /\ \A i \in Jobs \ {k} : Range(held'[k]) \cap Range(held'[i]) = {}
  <2>1. \A i \in Jobs : Range(held'[i]) \subseteq Range(held[i]) /\ p \notin Range(held'[i])
    BY <1>1, <1>2, <1>6
  <2>2. Range(held[k]) \cap (Range(pool) \cup Range(hand)) = {}
    BY DEF PortsConserved
  <2>3. \A i \in Jobs \ {k} : Range(held[k]) \cap Range(held[i]) = {}
    BY DEF PortsConserved
  <2>4. Range(held'[k]) \cap (Range(pool') \cup Range(hand')) = {}
    BY <1>1, <1>4, <2>1, <2>2
  <2>5. \A i \in Jobs \ {k} : Range(held'[k]) \cap Range(held'[i]) = {}
    BY <2>1, <2>3
  <2> QED
    BY <2>4, <2>5
<1>10. Ports = Range(pool') \cup Range(hand') \cup UNION {Range(held'[k]) : k \in Jobs}
  BY <1>1, <1>4, <1>5 DEF PortsConserved
<1> QED
  BY <1>7, <1>8, <1>9, <1>10 DEF PortsConserved

-----------------------------------------------------------------------------
(* The inductive invariant: types with the index into each body, counts,   *)
(* and the whereabouts of every port.  The counts rest on the types, and   *)
(* the types on the counts, which keep the counters from going below zero. *)

IInv == StructInv /\ CountInv /\ PortsConserved /\ LateInv

LEMMA InitIInv == Init => IInv
<1> SUFFICES ASSUME Init
             PROVE  IInv
  OBVIOUS
<1>1. JobsIn(Alive) = {} /\ JobsIn(Counted) = {}
  BY DEF Init, JobsIn, Alive, Counted, Phases
<1>2. CountInv
  <2>1. Cardinality(JobsIn(Alive)) = 0 /\ Cardinality(JobsIn(Counted)) = 0
    BY <1>1, FS_EmptySet
  <2>2. wg = 0 /\ currentConc = 0 /\ maxConc = 0
    BY DEF Init
  <2> QED
    BY <2>1, <2>2 DEF CountInv, WgInv, MaxConcCovers, Counted
<1>3. LateInv
  BY DEF Init, LateInv
<1> QED
  BY <1>2, <1>3, InitStruct, InitPorts DEF IInv

LEMMA LoopIInv ==
  ASSUME IInv, LoopStep \/ Expire
  PROVE  IInv'
<1> USE DEF IInv
<1>1. CASE CheckDone \/ (\E s \in Mix : Pick(s)) \/ WaitReturns \/ Expire
  <2>1. UNCHANGED <<hand, pool, held, phase, wg, currentConc, maxConc>>
    BY <1>1 DEF CheckDone, Pick, WaitReturns, Expire, loopVars, jobVars, concVars
  <2>2. LateInv'
    BY <1>1 DEF LateInv, StructInv, TypeOK, CheckDone, Pick, WaitReturns, Expire, loopVars
  <2> QED
    BY <1>1, <2>1, <2>2, LoopStruct, QuietCount, QuietPorts
<1>2. CASE TakePort
  <2>1. UNCHANGED <<phase, wg, currentConc, maxConc, loop, late, expired>>
    BY <1>2 DEF TakePort, jobVars, concVars
  <2> QED
    BY <1>2, <2>1, TakePortStruct, TakePortPorts, QuietCount DEF LateInv
<1>3. ASSUME NEW j \in Jobs, Launch(j)
      PROVE  IInv'
  <2>1. LateInv'
    BY <1>3 DEF LateInv, StructInv, TypeOK, Launch, Spawn
  <2> QED
    BY <1>3, <2>1, LaunchStruct, LaunchPorts, LaunchCount
<1> QED
  BY <1>1, <1>2, <1>3 DEF LoopStep

LEMMA JobIInv ==
  ASSUME IInv, NEW j \in Jobs, JobStep(j)
  PROVE  IInv'
<1> USE DEF IInv
<1>1. UNCHANGED <<loop, late, expired, hand>>
  BY DeferredFrame
     DEF JobStep, BodyStep, StartBackend, StartFails, StopBackend, AddEndpoints, RemoveEndpoints,
         AwaitEnvoy, Pass, Execute, CleanUp, Record, ReturnPort, LeaveConc, WgDone, loopVars
<1>2. LateInv'
  BY <1>1 DEF LateInv
<1>3. CASE BodyStep(j)
  <2>1. UNCHANGED <<pool, held, wg, currentConc, maxConc>>
    BY <1>3 DEF BodyStep, StartBackend, StartFails, StopBackend, AddEndpoints, RemoveEndpoints,
                AwaitEnvoy, Pass, Execute, concVars
  <2>2. phase[j] = "running"
    BY <1>3 DEF BodyStep, StartBackend, StartFails, StopBackend, AddEndpoints, RemoveEndpoints,
                AwaitEnvoy, Pass, Execute
  <2>3. phase' = phase \/ phase' = [phase EXCEPT ![j] = "cleaning"]
    BY <1>3 DEF BodyStep, StartBackend, StartFails, StopBackend, AddEndpoints, RemoveEndpoints,
                AwaitEnvoy, Pass, Continue
  <2>4. "running" \in Counted /\ "cleaning" \in Counted
    BY DEF Counted, Phases
  <2>5. CountInv'
    BY <2>1, <2>2, <2>3, <2>4, QuietCount, InsideCount
  <2> QED
    BY <1>1, <1>2, <1>3, <2>1, <2>5, BodyStruct, QuietPorts
<1>4. CASE CleanUp(j) \/ Record(j)
  <2>1. UNCHANGED <<pool, held, wg, currentConc, maxConc>>
    BY <1>4 DEF CleanUp, Record, concVars
  <2>2. /\ phase[j] \in {"cleaning", "recording"}
        /\ \/ phase' = [phase EXCEPT ![j] = "recording"]
           \/ phase' = [phase EXCEPT ![j] = "returning"]
    BY <1>4 DEF CleanUp, Record
  <2>3. {"cleaning", "recording", "returning"} \subseteq Counted
    BY DEF Counted, Phases
  <2>4. CountInv'
    BY <2>1, <2>2, <2>3, InsideCount
  <2> QED
    BY <1>1, <1>2, <1>4, <2>1, <2>4, EndStruct, QuietPorts
<1>5. CASE ReturnPort(j)
  <2>1. UNCHANGED <<phase, wg, currentConc, maxConc>>
    BY <1>5 DEF ReturnPort, concVars
  <2> QED
    BY <1>2, <1>5, <2>1, EndStruct, QuietCount, ReturnPortPorts
<1>6. CASE LeaveConc(j)
  <2>1. UNCHANGED <<pool, held>>
    BY <1>6 DEF LeaveConc
  <2> QED
    BY <1>1, <1>2, <1>6, <2>1, EndStruct, LeaveConcCount, QuietPorts
<1>7. CASE WgDone(j)
  <2>1. UNCHANGED <<pool, held>>
    BY <1>7 DEF WgDone
  <2> QED
    BY <1>1, <1>2, <1>7, <2>1, EndStruct, WgDoneCount, QuietPorts
<1>8. CASE StopDeferred(j)
  <2>1. UNCHANGED <<phase, held, pool, hand, wg, currentConc, maxConc>>
    BY <1>8, DeferredFrame
  <2> QED
    BY <1>2, <1>8, <2>1, DeferredStruct, QuietCount, QuietPorts
<1> QED
  BY <1>3, <1>4, <1>5, <1>6, <1>7, <1>8 DEF JobStep

LEMMA StutterIInv ==
  ASSUME IInv, UNCHANGED vars
  PROVE  IInv'
<1>1. UNCHANGED <<hand, pool, held, phase, wg, currentConc, maxConc, loop, late, expired>>
  BY DEF vars, loopVars, jobVars, concVars
<1> QED
  BY <1>1, StutterStruct, QuietCount, QuietPorts DEF IInv, LateInv

\* The inductive invariant holds in every reachable state: the ports are
\* shared out among pool, loop and goroutines, and the goroutines counted by
\* the WaitGroup and the semaphore are those in flight (stress.go:65-167).
THEOREM Invariance == Spec => []IInv
<1>1. ASSUME IInv, [Next]_vars
      PROVE  IInv'
  BY <1>1, LoopIInv, JobIInv, StutterIInv DEF Next, Finished
<1> QED
  BY <1>1, InitIInv, PTL DEF Spec

\* The state has its type; the WaitGroup counter is never negative and no
\* body refers to a port it does not hold.
THEOREM TypeCorrect == Spec => []TypeOK
<1>1. IInv => TypeOK
  BY DEF IInv, StructInv
<1> QED
  BY <1>1, Invariance, PTL

\* Ports are never lost, duplicated or shared between scenarios.
THEOREM PortsNeverShared == Spec => []PortsConserved
<1>1. IInv => PortsConserved
  BY DEF IInv
<1> QED
  BY <1>1, Invariance, PTL

\* maxConc is at least the number of scenarios running at any time.
THEOREM MaxConcIsBound == Spec => []MaxConcCovers
<1>1. IInv => MaxConcCovers
  BY DEF IInv, CountInv
<1> QED
  BY <1>1, Invariance, PTL

\* The deadline overshoots by one launch at most.
THEOREM OneLateStart == Spec => []AtMostOneLateStart
<1>1. IInv => AtMostOneLateStart
  BY DEF IInv, LateInv, AtMostOneLateStart, StructInv, TypeOK
<1> QED
  BY <1>1, Invariance, PTL

-----------------------------------------------------------------------------
(* Backends *)

\* A step that moves one job and leaves its ports alone keeps every witness of
\* NoLeakedBackend, if it keeps the job inside its body.
LEMMA InsideBackends ==
  ASSUME NoLeakedBackend, TypeOK, NEW j \in Jobs, phase[j] = "running",
         UNCHANGED held, backends' \subseteq backends \cup Range(held[j]),
         phase' = phase \/ phase' = [phase EXCEPT ![j] = "cleaning"]
  PROVE  NoLeakedBackend'
<1>1. \A k \in Jobs : phase[k] \in {"running", "cleaning"} => phase'[k] \in {"running", "cleaning"}
  BY DEF TypeOK
<1>2. QED
  BY <1>1 DEF NoLeakedBackend, JobsIn

\* A step of a job outside its body changes no backend and is no witness.
LEMMA OutsideBackends ==
  ASSUME NoLeakedBackend, NEW j \in Jobs, phase[j] \notin {"running", "cleaning"},
         UNCHANGED backends,
         \A k \in Jobs \ {j} : phase'[k] = phase[k] /\ held'[k] = held[k]
  PROVE  NoLeakedBackend'
BY DEF NoLeakedBackend, JobsIn

LEMMA JobBackends ==
  ASSUME NoLeakedBackend, StructInv, NEW j \in Jobs, JobStep(j)
  PROVE  NoLeakedBackend'
<1> USE DEF StructInv
<1>1. ASSUME NEW op, Execute(j, op)
      PROVE  Targets(j) \subseteq Range(held[j])
  <2>1. scen[j] \in AllScenarios /\ held[j] \in Seq(Ports) /\ at[j] \in Nat
    BY MixAssumption DEF TypeOK
  <2>2. /\ Len(held[j]) = NumEndpoints[scen[j]]
        /\ at[j] \in 1..Len(Script[scen[j]])
    BY <1>1, <2>1, ScriptType DEF BodyInv, Execute
  <2>3. \A i \in Script[scen[j]][at[j]].on : i \in DOMAIN held[j]
    BY <2>1, <2>2, ScriptType
  <2>4. QED
    BY <2>3 DEF Targets, Range
<1>2. CASE BodyStep(j)
  <2>1. phase[j] = "running" /\ held' = held
    BY <1>2 DEF BodyStep, StartBackend, StartFails, StopBackend, AddEndpoints, RemoveEndpoints,
                AwaitEnvoy, Pass, Execute
  <2>2. phase' = phase \/ phase' = [phase EXCEPT ![j] = "cleaning"]
    BY <1>2 DEF BodyStep, StartBackend, StartFails, StopBackend, AddEndpoints, RemoveEndpoints,
                AwaitEnvoy, Pass, Continue
  <2>3. backends' \subseteq backends \cup Range(held[j])
    BY <1>1, <1>2 DEF BodyStep, StartBackend, StartFails, StopBackend, AddEndpoints,
                      RemoveEndpoints, AwaitEnvoy, Pass, envVars
  <2>4. QED
    BY <2>1, <2>2, <2>3, InsideBackends
<1>3. CASE CleanUp(j)
  <2>1. /\ held' = held /\ backends' = backends /\ Range(held[j]) \cap backends = {}
        /\ \A k \in Jobs \ {j} : phase'[k] = phase[k]
    BY <1>3 DEF CleanUp, TypeOK, envVars
  <2>2. QED
    BY <2>1 DEF NoLeakedBackend, JobsIn
<1>4. CASE Record(j) \/ ReturnPort(j) \/ LeaveConc(j) \/ WgDone(j)
  <2>1. phase[j] \notin {"running", "cleaning"} /\ backends' = backends
    BY <1>4 DEF Record, ReturnPort, LeaveConc, WgDone, envVars
  <2>2. \A k \in Jobs \ {j} : phase'[k] = phase[k] /\ held'[k] = held[k]
    BY <1>4 DEF Record, ReturnPort, LeaveConc, WgDone, TypeOK
  <2>3. QED
    BY <2>1, <2>2, OutsideBackends
<1>5. CASE StopDeferred(j)
  BY <1>5, DeferredFrame DEF NoLeakedBackend, JobsIn
<1>6. QED
  BY <1>2, <1>3, <1>4, <1>5 DEF JobStep

\* No backend outlives the body that started it, whichever way the body ends.
THEOREM BackendsNeverLeak == Spec => []NoLeakedBackend
<1>1. Init => NoLeakedBackend
  BY DEF Init, NoLeakedBackend
<1>2. ASSUME NoLeakedBackend, IInv, [Next]_vars
      PROVE  NoLeakedBackend'
  <2>1. StructInv
    BY <1>2 DEF IInv
  <2>2. ASSUME NEW j \in Jobs, Launch(j)
        PROVE  NoLeakedBackend'
    <3>1. phase[j] = "unused" /\ backends' = backends
      BY <2>2 DEF Launch, Spawn, envVars
    <3>2. \A k \in Jobs \ {j} : phase'[k] = phase[k] /\ held'[k] = held[k]
      BY <2>1, <2>2 DEF Launch, Spawn, StructInv, TypeOK
    <3>3. QED
      BY <1>2, <3>1, <3>2, OutsideBackends
  <2>3. ASSUME CheckDone \/ (\E s \in Mix : Pick(s)) \/ TakePort \/ WaitReturns \/ Expire
               \/ UNCHANGED vars
        PROVE  NoLeakedBackend'
    <3>1. UNCHANGED <<phase, held, backends>>
      BY <2>3 DEF CheckDone, Pick, TakePort, WaitReturns, Expire, vars, jobVars, envVars
    <3>2. QED
      BY <1>2, <3>1 DEF NoLeakedBackend, JobsIn
  <2>4. QED
    BY <1>2, <2>1, <2>2, <2>3, JobBackends DEF Next, LoopStep, Finished
<1>3. QED
  BY <1>1, <1>2, Invariance, PTL DEF Spec

-----------------------------------------------------------------------------
(* The report: what has been recorded, and what the bodies have left       *)

InBody   == {"running", "cleaning", "recording"}     \* from the launch to the verdict
Recorded == {"returning", "finishing", "gone"}

RecordedAs(ok) == {j \in JobsIn(Recorded) : passed[j] = ok}

\* Ports are in a goroutine from its launch until it has given them back, and
\* in the loop only while it takes them; nothing runs when Run has returned.
HandsInv ==
  /\ loop # "take" => hand = <<>>
  /\ loop = "returned" => wg = 0
  /\ \A j \in Jobs :
       /\ phase[j] \in InBody =>
            /\ Len(held[j]) = NumEndpoints[scen[j]]
            /\ at[j] \in 1..(Len(Script[scen[j]]) + 1)
       /\ phase[j] \in {"finishing", "gone"} => held[j] = <<>>
       /\ phase[j] \in {"unused", "running"} => ~passed[j]
       /\ phase[j] \in InBody /\ passed[j] => at[j] = Len(Script[scen[j]]) + 1

\* Every goroutine that has recorded its verdict is counted once.
TallyInv ==
  /\ totalRun = Cardinality(JobsIn(Recorded))
  /\ Passed = Cardinality(RecordedAs(TRUE))
  /\ Failed = Cardinality(RecordedAs(FALSE))

\* The ports, by their index, that the first i - 1 instructions of scenario s
\* have removed and not added again.
Cleared(s, i) ==
  {k \in 1..NumEndpoints[s] :
     \E r \in 1..(i - 1) :
       /\ Script[s][r].op = "remove" /\ k \in Script[s][r].on
       /\ \A a \in r..(i - 1) : ~(Script[s][a].op = "add" /\ k \in Script[s][a].on)}

ClearedInv ==
  \A j \in Jobs : phase[j] \in InBody =>
    \A k \in Cleared(scen[j], at[j]) : held[j][k] \notin present

\* The ports that no body works on: what is present there is a leftover.
Idle == Range(pool) \cup Range(hand) \cup UNION {Range(held[j]) : j \in JobsIn(Recorded)}

Allowance ==
  results["host re-add"].Passed +
  Total([s \in AllScenarios |-> NumEndpoints[s] * results[s].Failed])

LeftInv == Cardinality(Idle \cap present) <= Allowance

RInv == HandsInv /\ TallyInv /\ ClearedInv /\ LeftInv

\* What a step of a body does to the state of its job.
LEMMA BodyFrame ==
  ASSUME StructInv, NEW j \in Jobs, BodyStep(j)
  PROVE  /\ phase[j] = "running"
         /\ UNCHANGED <<loop, picked, hand, pool, scen, held, wg, results, totalRun>>
         /\ \A k \in Jobs \ {j} :
              phase'[k] = phase[k] /\ at'[k] = at[k] /\ passed'[k] = passed[k]
         /\ \/ /\ at[j] \in 1..Len(Script[scen[j]]) /\ at'[j] = at[j] + 1
               /\ phase'[j] = "running" /\ passed'[j] = passed[j]
            \/ /\ at'[j] = at[j] /\ phase'[j] = "cleaning"
               /\ passed'[j] = passed[j] \/ at[j] = Len(Script[scen[j]]) + 1
<1>1. /\ phase[j] = "running"
      /\ UNCHANGED <<loop, picked, hand, pool, scen, held, wg, results, totalRun>>
  BY DEF BodyStep, StartBackend, StartFails, StopBackend, AddEndpoints, RemoveEndpoints,
         AwaitEnvoy, Pass, Execute, loopVars, concVars, statVars
<1>2. at[j] \in 1..(Len(Script[scen[j]]) + 1) /\ at[j] \in Nat /\ scen[j] \in AllScenarios
  BY <1>1, MixAssumption DEF StructInv, BodyInv, TypeOK
<1>3. ASSUME NEW op, Execute(j, op), Continue(j)
      PROVE  /\ \A k \in Jobs \ {j} :
                  phase'[k] = phase[k] /\ at'[k] = at[k] /\ passed'[k] = passed[k]
             /\ at[j] \in 1..Len(Script[scen[j]]) /\ at'[j] = at[j] + 1
             /\ phase'[j] = "running" /\ passed'[j] = passed[j]
  BY <1>1, <1>2, <1>3, ScriptType DEF Execute, Continue, StructInv, TypeOK
<1>4. ASSUME phase' = [phase EXCEPT ![j] = "cleaning"], at' = at,
             \/ passed' = passed
             \/ passed' = [passed EXCEPT ![j] = TRUE] /\ at[j] = Len(Script[scen[j]]) + 1
      PROVE  /\ \A k \in Jobs \ {j} :
                  phase'[k] = phase[k] /\ at'[k] = at[k] /\ passed'[k] = passed[k]
             /\ at'[j] = at[j] /\ phase'[j] = "cleaning"
             /\ passed'[j] = passed[j] \/ at[j] = Len(Script[scen[j]]) + 1
  BY <1>4 DEF StructInv, TypeOK
<1>5. CASE \/ StartBackend(j) \/ StartFails(j) \/ StopBackend(j)
           \/ AddEndpoints(j) \/ RemoveEndpoints(j)
  BY <1>1, <1>3, <1>5 DEF StartBackend, StartFails, StopBackend, AddEndpoints, RemoveEndpoints
<1>6. CASE AwaitEnvoy(j)
  BY <1>1, <1>3, <1>4, <1>6 DEF AwaitEnvoy
<1>7. CASE Pass(j)
  BY <1>1, <1>4, <1>7 DEF Pass
<1>8. QED
  BY <1>5, <1>6, <1>7 DEF BodyStep

-----------------------------------------------------------------------------
(* HandsInv *)

LEMMA InitHands == Init => HandsInv
BY DEF Init, HandsInv, InBody

LEMMA LoopHands ==
  ASSUME StructInv, HandsInv,
         CheckDone \/ (\E s \in Mix : Pick(s)) \/ TakePort \/ WaitReturns \/ Expire
  PROVE  HandsInv'
<1>1. UNCHANGED <<phase, scen, at, held, passed, wg>>
  BY DEF CheckDone, Pick, TakePort, WaitReturns, Expire, jobVars, concVars
<1>2. /\ loop' # "take" => hand' = <<>>
      /\ loop' = "returned" => wg' = 0
  BY DEF HandsInv, CheckDone, Pick, TakePort, WaitReturns, Expire, loopVars, concVars
<1>3. QED
  BY <1>1, <1>2 DEF HandsInv

LEMMA LaunchHands ==
  ASSUME StructInv, HandsInv, NEW j \in Jobs, Launch(j)
  PROVE  HandsInv'
<1>1. /\ loop' = "check" /\ hand' = <<>> /\ phase[j] = "unused" /\ phase'[j] = "running"
      /\ scen'[j] = picked /\ held'[j] = hand /\ Len(hand) = NumEndpoints[picked]
      /\ at' = at /\ passed' = passed
      /\ \A k \in Jobs \ {j} : phase'[k] = phase[k] /\ scen'[k] = scen[k] /\ held'[k] = held[k]
  BY DEF StructInv, TypeOK, Launch, Spawn
<1>2. at[j] = 1 /\ ~passed[j]
  BY <1>1 DEF StructInv, UnusedInv, HandsInv
<1>3. Len(Script[picked]) \in Nat
  BY ScriptType, MixAssumption DEF StructInv, TypeOK
<1>4. 1 \in 1..(Len(Script[picked]) + 1)
  BY <1>3
<1>5. \A k \in Jobs \ {j} : 
       /\ phase'[k] \in InBody =>
            /\ Len(held'[k]) = NumEndpoints[scen'[k]]
            /\ at'[k] \in 1..(Len(Script[scen'[k]]) + 1)
       /\ phase'[k] \in {"finishing", "gone"} => held'[k] = <<>>
       /\ phase'[k] \in {"unused", "running"} => ~passed'[k]
       /\ phase'[k] \in InBody /\ passed'[k] => at'[k] = Len(Script[scen'[k]]) + 1
  BY <1>1 DEF HandsInv
<1>6. QED
  BY <1>1, <1>2, <1>4, <1>5 DEF HandsInv

LEMMA BodyHands ==
  ASSUME StructInv, HandsInv, NEW j \in Jobs, BodyStep(j)
  PROVE  HandsInv'
<1>1. /\ phase[j] = "running" /\ UNCHANGED <<loop, hand, scen, held, wg>>
      /\ \A k \in Jobs \ {j} :
           phase'[k] = phase[k] /\ at'[k] = at[k] /\ passed'[k] = passed[k]
      /\ \/ /\ at[j] \in 1..Len(Script[scen[j]]) /\ at'[j] = at[j] + 1
            /\ phase'[j] = "running" /\ passed'[j] = passed[j]
         \/ /\ at'[j] = at[j] /\ phase'[j] = "cleaning"
            /\ passed'[j] = passed[j] \/ at[j] = Len(Script[scen[j]]) + 1
  BY BodyFrame
<1>2. /\ Len(held[j]) = NumEndpoints[scen[j]] /\ ~passed[j]
      /\ at[j] \in 1..(Len(Script[scen[j]]) + 1)
  BY <1>1 DEF HandsInv, InBody
<1>3. Len(Script[scen[j]]) \in Nat
  BY ScriptType, MixAssumption DEF StructInv, TypeOK
<1>4. at'[j] \in 1..(Len(Script[scen[j]]) + 1)
  BY <1>1, <1>2, <1>3
<1>5. /\ phase'[j] \in {"unused", "running"} => ~passed'[j]
      /\ passed'[j] => at'[j] = Len(Script[scen[j]]) + 1
      /\ phase'[j] \notin {"finishing", "gone"}
  BY <1>1, <1>2
<1>6. QED
  BY <1>1, <1>2, <1>4, <1>5 DEF HandsInv

LEMMA EndHands ==
  ASSUME StructInv, CountInv, HandsInv, NEW j \in Jobs,
         CleanUp(j) \/ Record(j) \/ ReturnPort(j) \/ LeaveConc(j) \/ WgDone(j)
  PROVE  HandsInv'
<1>1. /\ UNCHANGED <<loop, hand, scen, at, passed>>
      /\ \A k \in Jobs \ {j} : phase'[k] = phase[k] /\ held'[k] = held[k]
  BY DEF CleanUp, Record, ReturnPort, LeaveConc, WgDone, StructInv, TypeOK, loopVars
<1>2. loop = "returned" => wg' = 0
  <2>1. CASE WgDone(j)
    <3>1. j \in JobsIn(Alive)
      BY <2>1 DEF WgDone, JobsIn, Alive, Phases
    <3>2. wg # 0
      BY <3>1, CountedJob DEF CountInv, WgInv
    <3>3. QED
      BY <3>2 DEF HandsInv
  <2>2. CASE ~WgDone(j)
    BY <2>2 DEF HandsInv, CleanUp, Record, ReturnPort, LeaveConc, concVars
  <2>3. QED
    BY <2>1, <2>2
<1>3. CASE CleanUp(j)
  <2>1. phase[j] = "cleaning" /\ phase'[j] = "recording" /\ held' = held
    BY <1>3 DEF CleanUp, StructInv, TypeOK
  <2>2. QED
    BY <1>1, <1>2, <2>1 DEF HandsInv, InBody
<1>4. CASE Record(j)
  <2>1. phase'[j] = "returning" /\ held' = held
    BY <1>4 DEF Record, StructInv, TypeOK
  <2>2. QED
    BY <1>1, <1>2, <2>1 DEF HandsInv, InBody
<1>5. CASE ReturnPort(j)
  <2>1. phase' = phase /\ phase[j] = "returning"
    BY <1>5 DEF ReturnPort
  <2>2. QED
    BY <1>1, <1>2, <2>1 DEF HandsInv, InBody
<1>6. CASE LeaveConc(j) \/ WgDone(j)
  <2>1. /\ phase'[j] \in {"finishing", "gone"} /\ held' = held
        /\ held[j] = <<>>
    BY <1>6 DEF LeaveConc, WgDone, StructInv, TypeOK, HandsInv
  <2>2. QED
    BY <1>1, <1>2, <2>1 DEF HandsInv, InBody
<1>7. QED
  BY <1>3, <1>4, <1>5, <1>6

-----------------------------------------------------------------------------
(* TallyInv *)

LEMMA TotalType ==
  ASSUME NEW f \in [AllScenarios -> Nat]
  PROVE  /\ Total(f) \in Nat
         /\ \A s \in AllScenarios : f[s] \in Nat /\ f[s] <= Total(f)
<1> DEFINE a == "add/remove/timeout"
           b == "HC failure"
           c == "host re-add"
           e == "partial removal"
           h == "long-lived healthy"
<1>1. AllScenarios = {a, b, c, e, h}
  BY DEF AllScenarios
<1>2. Total(f) = f[a] + f[b] + f[c] + f[e] + f[h]
  BY DEF Total
<1> HIDE DEF a, b, c, e, h
<1>3. /\ f[a] \in Nat /\ f[b] \in Nat /\ f[c] \in Nat /\ f[e] \in Nat /\ f[h] \in Nat
      /\ \A s \in AllScenarios : f[s] \in {f[a], f[b], f[c], f[e], f[h]}
  BY <1>1
<1>4. QED
  BY <1>2, <1>3

LEMMA ZeroTotal == Total([s \in AllScenarios |-> 0]) = 0
<1> DEFINE f == [s \in AllScenarios |-> 0]
           a == "add/remove/timeout"
           b == "HC failure"
           c == "host re-add"
           e == "partial removal"
           h == "long-lived healthy"
<1>1. AllScenarios = {a, b, c, e, h}
  BY DEF AllScenarios
<1>2. Total(f) = f[a] + f[b] + f[c] + f[e] + f[h]
  BY DEF Total
<1> HIDE DEF a, b, c, e, h
<1>3. f[a] = 0 /\ f[b] = 0 /\ f[c] = 0 /\ f[e] = 0 /\ f[h] = 0
  BY <1>1
<1> HIDE DEF f
<1>4. QED
  BY <1>2, <1>3 DEF f

\* A change of one number of a sum is the change of the sum.
LEMMA TotalChange ==
  ASSUME NEW f \in [AllScenarios -> Nat], NEW g \in [AllScenarios -> Nat],
         NEW s \in AllScenarios, NEW d \in Nat, g[s] = f[s] + d,
         \A t \in AllScenarios \ {s} : g[t] = f[t]
  PROVE  Total(g) = Total(f) + d
<1> DEFINE a == "add/remove/timeout"
           b == "HC failure"
           c == "host re-add"
           e == "partial removal"
           h == "long-lived healthy"
<1>1. AllScenarios = {a, b, c, e, h}
  BY DEF AllScenarios
<1>2. /\ a # b /\ a # c /\ a # e /\ a # h /\ b # c /\ b # e /\ b # h
      /\ c # e /\ c # h /\ e # h
  OBVIOUS
<1>3. Total(f) = f[a] + f[b] + f[c] + f[e] + f[h] /\ Total(g) = g[a] + g[b] + g[c] + g[e] + g[h]
  BY DEF Total
<1> HIDE DEF a, b, c, e, h
<1>4. f[a] \in Nat /\ f[b] \in Nat /\ f[c] \in Nat /\ f[e] \in Nat /\ f[h] \in Nat
  BY <1>1
<1>5. CASE s = a
  BY <1>1, <1>2, <1>3, <1>4, <1>5
<1>6. CASE s = b
  BY <1>1, <1>2, <1>3, <1>4, <1>6
<1>7. CASE s = c
  BY <1>1, <1>2, <1>3, <1>4, <1>7
<1>8. CASE s = e
  BY <1>1, <1>2, <1>3, <1>4, <1>8
<1>9. CASE s = h
  BY <1>1, <1>2, <1>3, <1>4, <1>9
<1>10. QED
  BY <1>1, <1>5, <1>6, <1>7, <1>8, <1>9

\* The sums of the report, and what Record adds to them.
LEMMA ReportTypes ==
  ASSUME StructInv
  PROVE  /\ Passed \in Nat /\ Failed \in Nat
         /\ IsFiniteSet(JobsIn(Recorded)) /\ Cardinality(JobsIn(Recorded)) \in Nat
         /\ \A ok \in BOOLEAN :
              IsFiniteSet(RecordedAs(ok)) /\ Cardinality(RecordedAs(ok)) \in Nat
<1>1. results \in [AllScenarios -> [Run : Nat, Passed : Nat, Failed : Nat]]
  BY DEF StructInv, TypeOK
<1>2. /\ [s \in AllScenarios |-> results[s].Passed] \in [AllScenarios -> Nat]
      /\ [s \in AllScenarios |-> results[s].Failed] \in [AllScenarios -> Nat]
  BY <1>1
<1>4. Passed \in Nat /\ Failed \in Nat
  BY <1>2, TotalType DEF Passed, Failed
<1>5. IsFiniteSet(JobsIn(Recorded))
  BY JobsAssumption, FS_Subset DEF JobsIn
<1>6. \A ok \in BOOLEAN : IsFiniteSet(RecordedAs(ok))
  BY <1>5, FS_Subset DEF RecordedAs
<1>7. QED
  BY <1>4, <1>5, <1>6, FS_CardinalityType

LEMMA RecordResults ==
  ASSUME StructInv, NEW j \in Jobs, Record(j)
  PROVE  LET s == scen[j]
             n == IF passed[j] THEN 1 ELSE 0
         IN /\ s \in AllScenarios
            /\ results'[s].Passed = results[s].Passed + n
            /\ results'[s].Failed = results[s].Failed + (1 - n)
            /\ \A t \in AllScenarios \ {s} : results'[t] = results[t]
            /\ results' \in [AllScenarios -> [Run : Nat, Passed : Nat, Failed : Nat]]
<1> DEFINE s == scen[j]
<1>1. s \in AllScenarios /\ passed[j] \in BOOLEAN
  BY MixAssumption DEF StructInv, TypeOK
<1>2. results \in [AllScenarios -> [Run : Nat, Passed : Nat, Failed : Nat]]
  BY DEF StructInv, TypeOK
<1>3. results' = [results EXCEPT ![s] = Tally(results[s], passed[j])]
  BY DEF Record
<1>4. results'[s] = Tally(results[s], passed[j])
  BY <1>1, <1>2, <1>3
<1>5. Tally(results[s], passed[j]) \in [Run : Nat, Passed : Nat, Failed : Nat]
  BY <1>1, <1>2, TallyType
<1>6. results' \in [AllScenarios -> [Run : Nat, Passed : Nat, Failed : Nat]]
  BY <1>2, <1>3, <1>5
<1>7. \A t \in AllScenarios \ {s} : results'[t] = results[t]
  BY <1>2, <1>3
<1>8. CASE passed[j]
  BY <1>1, <1>2, <1>4, <1>6, <1>7, <1>8 DEF Tally
<1>9. CASE ~passed[j]
  BY <1>1, <1>2, <1>4, <1>6, <1>7, <1>9 DEF Tally
<1>10. QED
  BY <1>8, <1>9

LEMMA RecordSums ==
  ASSUME StructInv, NEW j \in Jobs, Record(j)
  PROVE  /\ Passed' = Passed + (IF passed[j] THEN 1 ELSE 0)
         /\ Failed' = Failed + (IF passed[j] THEN 0 ELSE 1)
<1> DEFINE s == scen[j]
           n == IF passed[j] THEN 1 ELSE 0
           P == [t \in AllScenarios |-> results[t].Passed]
           F == [t \in AllScenarios |-> results[t].Failed]
           Q == [t \in AllScenarios |-> results'[t].Passed]
           G == [t \in AllScenarios |-> results'[t].Failed]
<1>1. /\ s \in AllScenarios
      /\ results'[s].Passed = results[s].Passed + n
      /\ results'[s].Failed = results[s].Failed + (1 - n)
      /\ \A t \in AllScenarios \ {s} : results'[t] = results[t]
      /\ results' \in [AllScenarios -> [Run : Nat, Passed : Nat, Failed : Nat]]
  BY RecordResults
<1>2. results \in [AllScenarios -> [Run : Nat, Passed : Nat, Failed : Nat]]
  BY DEF StructInv, TypeOK
<1>3. /\ P \in [AllScenarios -> Nat] /\ Q \in [AllScenarios -> Nat]
      /\ F \in [AllScenarios -> Nat] /\ G \in [AllScenarios -> Nat]
  BY <1>1, <1>2
<1>4. /\ Q[s] = P[s] + n /\ \A t \in AllScenarios \ {s} : Q[t] = P[t]
      /\ G[s] = F[s] + (1 - n) /\ \A t \in AllScenarios \ {s} : G[t] = F[t]
  BY <1>1
<1>5. n \in Nat /\ 1 - n \in Nat /\ 1 - n = IF passed[j] THEN 0 ELSE 1
  OBVIOUS
<1>6. Passed = Total(P) /\ Passed' = Total(Q) /\ Failed = Total(F) /\ Failed' = Total(G)
  BY DEF Passed, Failed, Total
<1> HIDE DEF P, Q, F, G, s, n
<1>7. Total(Q) = Total(P) + n
  BY <1>1, <1>3, <1>4, <1>5, TotalChange
<1>8. Total(G) = Total(F) + (1 - n)
  BY <1>1, <1>3, <1>4, <1>5, TotalChange
<1>9. QED
  BY <1>5, <1>6, <1>7, <1>8 DEF n

LEMMA InitTally == Init => TallyInv
<1> SUFFICES ASSUME Init PROVE TallyInv
  OBVIOUS
<1>1. JobsIn(Recorded) = {}
  BY DEF Init, JobsIn, Recorded
<1>2. RecordedAs(TRUE) = {} /\ RecordedAs(FALSE) = {}
  BY <1>1 DEF RecordedAs
<1>3. Passed = 0 /\ Failed = 0
  <2> DEFINE zero == [s \in AllScenarios |-> 0]
  <2>1. \A s \in AllScenarios : results[s].Passed = 0 /\ results[s].Failed = 0
    BY DEF Init, NoStats
  <2>2. Passed = Total(zero) /\ Failed = Total(zero)
    BY <2>1 DEF Passed, Failed
  <2>3. QED
    BY <2>2, ZeroTotal
<1>4. QED
  BY <1>1, <1>2, <1>3, FS_EmptySet DEF Init, TallyInv

\* A step in which no goroutine records its verdict.
LEMMA QuietTally ==
  ASSUME TallyInv, UNCHANGED <<results, totalRun>>,
         \A j \in Jobs : phase'[j] \in Recorded <=> phase[j] \in Recorded,
         \A j \in Jobs : phase[j] \in Recorded => passed'[j] = passed[j]
  PROVE  TallyInv'
<1>1. JobsIn(Recorded)' = JobsIn(Recorded)
  BY DEF JobsIn, Recorded
<1>2. RecordedAs(TRUE)' = RecordedAs(TRUE) /\ RecordedAs(FALSE)' = RecordedAs(FALSE)
  BY <1>1 DEF RecordedAs, JobsIn
<1>3. Passed' = Passed /\ Failed' = Failed
  BY DEF Passed, Failed, Total
<1>4. QED
  BY <1>1, <1>2, <1>3 DEF TallyInv

LEMMA RecordTally ==
  ASSUME StructInv, TallyInv, NEW j \in Jobs, Record(j)
  PROVE  TallyInv'
<1>1. /\ phase[j] = "recording" /\ phase'[j] = "returning" /\ passed' = passed
      /\ \A k \in Jobs \ {j} : phase'[k] = phase[k]
      /\ totalRun' = totalRun + 1 /\ passed[j] \in BOOLEAN
  BY DEF Record, StructInv, TypeOK
<1>2. JobsIn(Recorded)' = JobsIn(Recorded) \cup {j} /\ j \notin JobsIn(Recorded)
  BY <1>1 DEF JobsIn, Recorded
<1>3. IsFiniteSet(JobsIn(Recorded)) /\ \A ok \in BOOLEAN : IsFiniteSet(RecordedAs(ok))
  BY ReportTypes
<1>4. Cardinality(JobsIn(Recorded)') = Cardinality(JobsIn(Recorded)) + 1
  BY <1>2, <1>3, FS_AddElement
<1>5. RecordedAs(passed[j])' = RecordedAs(passed[j]) \cup {j} /\ j \notin RecordedAs(passed[j])
  BY <1>1, <1>2 DEF RecordedAs
<1>6. Cardinality(RecordedAs(passed[j])') = Cardinality(RecordedAs(passed[j])) + 1
  BY <1>1, <1>3, <1>5, FS_AddElement
<1>7. RecordedAs(~passed[j])' = RecordedAs(~passed[j])
  BY <1>1, <1>2 DEF RecordedAs
<1>8. /\ Passed' = Passed + (IF passed[j] THEN 1 ELSE 0)
      /\ Failed' = Failed + (IF passed[j] THEN 0 ELSE 1)
  BY RecordSums
<1>9. CASE passed[j] = TRUE
  <2>1. /\ Cardinality(RecordedAs(TRUE)') = Cardinality(RecordedAs(TRUE)) + 1
        /\ RecordedAs(FALSE)' = RecordedAs(FALSE)
    BY <1>1, <1>6, <1>7, <1>9
  <2>2. Passed' = Passed + 1 /\ Failed' = Failed
    BY <1>8, <1>9, ReportTypes
  <2>3. QED
    BY <1>1, <1>4, <2>1, <2>2 DEF TallyInv
<1>10. CASE passed[j] = FALSE
  <2>1. /\ Cardinality(RecordedAs(FALSE)') = Cardinality(RecordedAs(FALSE)) + 1
        /\ RecordedAs(TRUE)' = RecordedAs(TRUE)
    BY <1>1, <1>6, <1>7, <1>10
  <2>2. Passed' = Passed /\ Failed' = Failed + 1
    BY <1>8, <1>10, ReportTypes
  <2>3. QED
    BY <1>1, <1>4, <2>1, <2>2 DEF TallyInv
<1>11. QED
  BY <1>1, <1>9, <1>10

-----------------------------------------------------------------------------
(* ClearedInv *)

LEMMA NothingCleared == \A s \in AllScenarios : Cleared(s, 1) = {}
BY DEF Cleared

\* What is cleared after an instruction was cleared before it or is removed by
\* it, and is not added by it.
LEMMA ClearedStep ==
  ASSUME NEW s \in AllScenarios, NEW i \in 1..Len(Script[s]), NEW k \in Cleared(s, i + 1)
  PROVE  /\ k \in 1..NumEndpoints[s]
         /\ k \in Cleared(s, i) \/ (Script[s][i].op = "remove" /\ k \in Script[s][i].on)
         /\ ~(Script[s][i].op = "add" /\ k \in Script[s][i].on)
<1>1. Len(Script[s]) \in Nat /\ i \in Nat
  BY ScriptType
<1>2. (i + 1) - 1 = i
  BY <1>1
<1>3. PICK r \in 1..i :
         /\ Script[s][r].op = "remove" /\ k \in Script[s][r].on
         /\ \A a \in r..i : ~(Script[s][a].op = "add" /\ k \in Script[s][a].on)
  BY <1>2 DEF Cleared
<1>4. k \in 1..NumEndpoints[s]
  BY DEF Cleared
<1>5. i \in r..i
  BY <1>1, <1>3
<1>6. CASE r = i
  BY <1>3, <1>4, <1>5, <1>6
<1>7. CASE r # i
  <2>1. r \in 1..(i - 1)
    BY <1>1, <1>3, <1>7
  <2>2. \A a \in r..(i - 1) : a \in r..i
    BY <1>1, <1>3
  <2>3. k \in Cleared(s, i)
    BY <1>3, <1>4, <2>1, <2>2 DEF Cleared
  <2>4. QED
    BY <1>3, <1>4, <1>5, <2>3
<1>8. QED
  BY <1>6, <1>7

LEMMA ClearedFrom ==
  ASSUME NEW s \in AllScenarios, NEW n \in Nat, Len(Script[s]) = n,
         NEW r \in 1..n, NEW k \in 1..NumEndpoints[s],
         Script[s][r] = Remove(k), \A a \in r..n : Script[s][a].op # "add"
  PROVE  k \in Cleared(s, n + 1)
<1>1. (n + 1) - 1 = n
  OBVIOUS
<1>2. Script[s][r].op = "remove" /\ k \in Script[s][r].on
  BY DEF Remove
<1>3. QED
  BY <1>1, <1>2 DEF Cleared

\* A body with one port that ends with its removal, and with nothing but a
\* stop and a wait after it.
LEMMA OnePortCleared ==
  ASSUME NEW s \in AllScenarios, NumEndpoints[s] = 1, Len(Script[s]) \in 4..6,
         Script[s][4] = Remove(1), Len(Script[s]) = 4 \/ Script[s][5] \in {Await, Stop(1)},
         Len(Script[s]) # 6 \/ Script[s][6] = Await
  PROVE  Cleared(s, Len(Script[s]) + 1) = 1..NumEndpoints[s]
<1> DEFINE n == Len(Script[s])
<1>0. n \in Nat /\ n \in 4..6
  OBVIOUS
<1> HIDE DEF n
<1>1. Await.op # "add" /\ Stop(1).op # "add" /\ Remove(1).op # "add"
  BY DEF Await, Stop, Remove
<1>2. ASSUME NEW a \in 4..n
      PROVE  Script[s][a].op # "add"
  <2>1. a = 4 \/ (a = 5 /\ n # 4) \/ (a = 6 /\ n = 6)
    BY <1>0
  <2>2. Script[s][a] \in {Remove(1), Await, Stop(1)}
    BY <2>1 DEF n
  <2>3. QED
    BY <1>1, <2>2
<1>3. 4 \in 1..n /\ 1 \in 1..NumEndpoints[s]
  BY <1>0
<1>4. 1 \in Cleared(s, n + 1)
  BY <1>0, <1>2, <1>3, ClearedFrom DEF n
<1>5. Cleared(s, n + 1) \subseteq 1..NumEndpoints[s] /\ 1..NumEndpoints[s] = {1}
  BY DEF Cleared
<1>6. QED
  BY <1>4, <1>5 DEF n

LEMMA TwoPortsCleared ==
  ASSUME NEW s \in AllScenarios, NumEndpoints[s] = 2, Len(Script[s]) = 7,
         Script[s][5] = Remove(1), Script[s][6] = Await, Script[s][7] = Remove(2)
  PROVE  Cleared(s, Len(Script[s]) + 1) = 1..NumEndpoints[s]
<1>1. Await.op # "add" /\ Remove(1).op # "add" /\ Remove(2).op # "add"
  BY DEF Await, Remove
<1>2. ASSUME NEW a \in 5..7
      PROVE  Script[s][a].op # "add"
  <2>1. a = 5 \/ a = 6 \/ a = 7
    OBVIOUS
  <2>2. QED
    BY <1>1, <2>1
<1>3. 1 \in 1..NumEndpoints[s] /\ 2 \in 1..NumEndpoints[s] /\ 5 \in 1..7 /\ 7 \in 1..7
  OBVIOUS
<1>4. \A a \in 7..7 : Script[s][a].op # "add"
  BY <1>2
<1>5. 1 \in Cleared(s, 7 + 1)
  BY <1>2, <1>3, ClearedFrom
<1>6. 2 \in Cleared(s, 7 + 1)
  BY <1>3, <1>4, ClearedFrom
<1>7. Cleared(s, 7 + 1) \subseteq 1..NumEndpoints[s] /\ 1..NumEndpoints[s] = {1, 2}
  BY DEF Cleared
<1>8. QED
  BY <1>5, <1>6, <1>7

\* A body that has passed has removed all its ports, but for the re-add.
LEMMA AllCleared ==
  \A s \in AllScenarios \ {"host re-add"} :
    Cleared(s, Len(Script[s]) + 1) = 1..NumEndpoints[s]
<1> DEFINE Done(s) == Cleared(s, Len(Script[s]) + 1) = 1..NumEndpoints[s]
<1>1. ASSUME NEW s \in AllScenarios, s = "add/remove/timeout"
      PROVE  Done(s)
  <2>1. Script[s] = <<Start(1), Add({1}), Await, Remove(1), Await>>
    BY <1>1 DEF Script
  <2>2. Len(Script[s]) = 5 /\ Script[s][4] = Remove(1) /\ Script[s][5] = Await
    BY <2>1
  <2>3. NumEndpoints[s] = 1
    BY <1>1 DEF NumEndpoints
  <2>4. QED
    <3>1. /\ Len(Script[s]) \in 4..6
          /\ Len(Script[s]) = 4 \/ Script[s][5] \in {Await, Stop(1)}
          /\ Len(Script[s]) # 6 \/ Script[s][6] = Await
      BY <2>2
    <3>2. QED
      BY <2>2, <2>3, <3>1, OnePortCleared
<1>2. ASSUME NEW s \in AllScenarios, s = "HC failure"
      PROVE  Done(s)
  <2>1. Script[s] = <<Start(1), Add({1}), Await, Remove(1), Stop(1), Await>>
    BY <1>2 DEF Script
  <2>2. /\ Len(Script[s]) = 6 /\ Script[s][4] = Remove(1)
        /\ Script[s][5] = Stop(1) /\ Script[s][6] = Await
    BY <2>1
  <2>3. NumEndpoints[s] = 1
    BY <1>2 DEF NumEndpoints
  <2>4. QED
    <3>1. /\ Len(Script[s]) \in 4..6
          /\ Len(Script[s]) = 4 \/ Script[s][5] \in {Await, Stop(1)}
          /\ Len(Script[s]) # 6 \/ Script[s][6] = Await
      BY <2>2
    <3>2. QED
      BY <2>2, <2>3, <3>1, OnePortCleared
<1>3. ASSUME NEW s \in AllScenarios, s = "partial removal"
      PROVE  Done(s)
  <2>1. Script[s] = <<Start(1), Start(2), Add({1, 2}), Await, Remove(1), Await, Remove(2)>>
    BY <1>3 DEF Script
  <2>2. /\ Len(Script[s]) = 7 /\ Script[s][5] = Remove(1)
        /\ Script[s][6] = Await /\ Script[s][7] = Remove(2)
    BY <2>1
  <2>3. NumEndpoints[s] = 2
    BY <1>3 DEF NumEndpoints
  <2>4. QED
    BY <2>2, <2>3, TwoPortsCleared
<1>4. ASSUME NEW s \in AllScenarios, s = "long-lived healthy"
      PROVE  Done(s)
  <2>1. Script[s] = <<Start(1), Add({1}), Await, Remove(1)>>
    BY <1>4 DEF Script
  <2>2. Len(Script[s]) = 4 /\ Script[s][4] = Remove(1)
    BY <2>1
  <2>3. NumEndpoints[s] = 1
    BY <1>4 DEF NumEndpoints
  <2>4. QED
    <3>1. /\ Len(Script[s]) \in 4..6
          /\ Len(Script[s]) = 4 \/ Script[s][5] \in {Await, Stop(1)}
          /\ Len(Script[s]) # 6 \/ Script[s][6] = Await
      BY <2>2
    <3>2. QED
      BY <2>2, <2>3, <3>1, OnePortCleared
<1>5. QED
  BY <1>1, <1>2, <1>3, <1>4 DEF AllScenarios

\* What an instruction does to the endpoints: it touches the job's ports only.
LEMMA BodyPresent ==
  ASSUME StructInv, HandsInv, NEW j \in Jobs, BodyStep(j)
  PROVE  /\ present' \ Range(held[j]) = present \ Range(held[j])
         /\ \/ at'[j] = at[j] /\ present' = present
            \/ LET instr == Script[scen[j]][at[j]]
               IN /\ at'[j] = at[j] + 1 /\ at[j] \in 1..Len(Script[scen[j]])
                  /\ instr.on \subseteq DOMAIN held[j]
                  /\ \/ instr.op = "add" /\ present' = present \cup Targets(j)
                     \/ instr.op = "remove" /\ present' = present \ Targets(j)
                     \/ instr.op \notin {"add", "remove"} /\ present' = present
<1>1. /\ phase[j] = "running" /\ scen[j] \in AllScenarios /\ held[j] \in Seq(Ports)
      /\ Len(held[j]) = NumEndpoints[scen[j]] /\ at[j] \in Nat
      /\ at[j] \in 1..(Len(Script[scen[j]]) + 1)
  BY BodyFrame, MixAssumption DEF StructInv, TypeOK, BodyInv
<1>2. ASSUME NEW op, Execute(j, op), Continue(j)
      PROVE  /\ at'[j] = at[j] + 1 /\ at[j] \in 1..Len(Script[scen[j]])
             /\ Script[scen[j]][at[j]].on \subseteq DOMAIN held[j]
             /\ Script[scen[j]][at[j]].op = op
             /\ Targets(j) \subseteq Range(held[j])
  <2>1. at[j] \in 1..Len(Script[scen[j]]) /\ Script[scen[j]][at[j]].op = op
    BY <1>1, <1>2, ScriptType DEF Execute
  <2>2. Script[scen[j]][at[j]].on \subseteq DOMAIN held[j]
    BY <1>1, <2>1, ScriptType
  <2>3. at'[j] = at[j] + 1
    BY <1>2 DEF Continue, StructInv, TypeOK
  <2>4. Targets(j) \subseteq Range(held[j])
    BY <2>2 DEF Targets, Range
  <2>5. QED
    BY <2>1, <2>2, <2>3, <2>4
<1>3. CASE StartBackend(j) \/ StartFails(j) \/ StopBackend(j)
  BY <1>2, <1>3 DEF StartBackend, StartFails, StopBackend, envVars
<1>4. CASE AddEndpoints(j)
  BY <1>2, <1>4 DEF AddEndpoints
<1>5. CASE RemoveEndpoints(j)
  BY <1>2, <1>5 DEF RemoveEndpoints
<1>6. CASE AwaitEnvoy(j)
  BY <1>2, <1>6 DEF AwaitEnvoy, envVars
<1>7. CASE Pass(j)
  BY <1>7 DEF Pass, envVars
<1>8. QED
  BY <1>3, <1>4, <1>5, <1>6, <1>7 DEF BodyStep

LEMMA BodyCleared ==
  ASSUME StructInv, HandsInv, PortsConserved, ClearedInv, NEW j \in Jobs, BodyStep(j)
  PROVE  ClearedInv'
<1>1. /\ phase[j] = "running" /\ scen' = scen /\ held' = held
      /\ \A k \in Jobs \ {j} : phase'[k] = phase[k] /\ at'[k] = at[k]
  BY BodyFrame
<1>2. ASSUME NEW k \in Jobs, phase[k] \in InBody, NEW n \in Cleared(scen[k], at[k])
      PROVE  held[k][n] \in Range(held[k]) /\ held[k][n] \notin present
  <2>1. Len(held[k]) = NumEndpoints[scen[k]] /\ held[k] \in Seq(Ports)
    BY <1>2 DEF HandsInv, StructInv, TypeOK
  <2>2. n \in DOMAIN held[k]
    BY <2>1 DEF Cleared
  <2>3. QED
    BY <1>2, <2>2 DEF Range, ClearedInv
<1>3. ASSUME NEW k \in Jobs \ {j}, phase'[k] \in InBody, NEW n \in Cleared(scen[k], at'[k])
      PROVE  held[k][n] \notin present'
  <2>1. held[k][n] \in Range(held[k]) /\ held[k][n] \notin present
    BY <1>1, <1>2, <1>3
  <2>2. Range(held[k]) \cap Range(held[j]) = {}
    BY DEF PortsConserved
  <2>3. QED
    BY <2>1, <2>2, BodyPresent
<1>4. ASSUME NEW n \in Cleared(scen[j], at'[j])
      PROVE  held[j][n] \notin present'
  <2>1. phase[j] \in InBody /\ IsInjective(held[j])
    BY <1>1 DEF InBody, PortsConserved
  <2>2. CASE at'[j] = at[j] /\ present' = present
    BY <1>2, <1>4, <2>1, <2>2
  <2>3. CASE ~(at'[j] = at[j] /\ present' = present)
    <3> DEFINE instr == Script[scen[j]][at[j]]
    <3>1. /\ at'[j] = at[j] + 1 /\ at[j] \in 1..Len(Script[scen[j]])
          /\ instr.on \subseteq DOMAIN held[j]
          /\ \/ instr.op = "add" /\ present' = present \cup Targets(j)
             \/ instr.op = "remove" /\ present' = present \ Targets(j)
             \/ instr.op \notin {"add", "remove"} /\ present' = present
      BY <2>3, BodyPresent
    <3>2. scen[j] \in AllScenarios
      BY MixAssumption DEF StructInv, TypeOK
    <3>3. /\ n \in 1..NumEndpoints[scen[j]]
          /\ n \in Cleared(scen[j], at[j]) \/ (instr.op = "remove" /\ n \in instr.on)
          /\ ~(instr.op = "add" /\ n \in instr.on)
      BY <1>4, <3>1, <3>2, ClearedStep
    <3>4. n \in DOMAIN held[j]
      <4>1. Len(held[j]) = NumEndpoints[scen[j]] /\ held[j] \in Seq(Ports)
        BY <2>1 DEF HandsInv, StructInv, TypeOK
      <4>2. QED
        BY <3>3, <4>1
    <3>5. held[j][n] \in Targets(j) <=> n \in instr.on
      BY <2>1, <3>1, <3>4 DEF Targets, IsInjective
    <3>6. n \in Cleared(scen[j], at[j]) => held[j][n] \notin present
      BY <1>2, <2>1
    <3> HIDE DEF instr
    <3>7. QED
      BY <3>1, <3>3, <3>5, <3>6
  <2>4. QED
    BY <2>2, <2>3
<1>5. QED
  BY <1>1, <1>3, <1>4 DEF ClearedInv

\* Every other step leaves the endpoints alone, and the bodies in progress.
LEMMA QuietCleared ==
  ASSUME ClearedInv, UNCHANGED present,
         \A j \in Jobs : phase'[j] \in InBody =>
           \/ at'[j] = 1 /\ scen'[j] \in AllScenarios
           \/ /\ phase[j] \in InBody
              /\ scen'[j] = scen[j] /\ at'[j] = at[j] /\ held'[j] = held[j]
  PROVE  ClearedInv'
BY NothingCleared DEF ClearedInv

-----------------------------------------------------------------------------
(* LeftInv *)

LEMMA EndpointNumbers == \A s \in AllScenarios : NumEndpoints[s] \in {1, 2}
BY Zenon DEF NumEndpoints

LEMMA LeftTypes ==
  ASSUME StructInv
  PROVE  /\ IsFiniteSet(Idle \cap present) /\ Cardinality(Idle \cap present) \in Nat
         /\ Allowance \in Nat
<1>1. IsFiniteSet(present)
  BY PortsAssumption, FS_Subset DEF StructInv, TypeOK
<1>2. IsFiniteSet(Idle \cap present)
  BY <1>1, FS_Subset
<1> DEFINE c == "host re-add"
           n == [s \in AllScenarios |-> NumEndpoints[s] * results[s].Failed]
<1>3. c \in AllScenarios
  BY Zenon DEF AllScenarios
<1>4. Allowance = results[c].Passed + Total(n)
  BY DEF Allowance
<1> HIDE DEF c
<1>5. results \in [AllScenarios -> [Run : Nat, Passed : Nat, Failed : Nat]]
  BY DEF StructInv, TypeOK
<1>6. n \in [AllScenarios -> Nat]
  BY <1>5, EndpointNumbers
<1> HIDE DEF n
<1>7. Total(n) \in Nat
  BY <1>6, TotalType
<1>8. QED
  BY <1>2, <1>3, <1>4, <1>5, <1>7, FS_CardinalityType

\* What a verdict adds to the allowance.
LEMMA RecordAllowance ==
  ASSUME StructInv, NEW j \in Jobs, Record(j)
  PROVE  /\ passed[j] => Allowance' = Allowance + (IF scen[j] = "host re-add" THEN 1 ELSE 0)
         /\ ~passed[j] => Allowance' = Allowance + NumEndpoints[scen[j]]
<1> DEFINE c == "host re-add"
           s == scen[j]
           n == [t \in AllScenarios |-> NumEndpoints[t] * results[t].Failed]
           m == [t \in AllScenarios |-> NumEndpoints[t] * results'[t].Failed]
<1>1. c \in AllScenarios
  BY Zenon DEF AllScenarios
<1>2. Allowance = results[c].Passed + Total(n) /\ Allowance' = results'[c].Passed + Total(m)
  BY DEF Allowance, Total
<1>3. SUFFICES /\ passed[j] => Allowance' = Allowance + (IF s = c THEN 1 ELSE 0)
               /\ ~passed[j] => Allowance' = Allowance + NumEndpoints[s]
  OBVIOUS
<1> HIDE DEF c
<1>4. results \in [AllScenarios -> [Run : Nat, Passed : Nat, Failed : Nat]]
  BY DEF StructInv, TypeOK
<1>5. /\ s \in AllScenarios /\ passed[j] \in BOOLEAN
      /\ results'[s].Passed = results[s].Passed + (IF passed[j] THEN 1 ELSE 0)
      /\ results'[s].Failed = results[s].Failed + (1 - (IF passed[j] THEN 1 ELSE 0))
      /\ \A t \in AllScenarios \ {s} : results'[t] = results[t]
      /\ results' \in [AllScenarios -> [Run : Nat, Passed : Nat, Failed : Nat]]
  BY RecordResults, MixAssumption DEF StructInv, TypeOK
<1>6. NumEndpoints[s] \in {1, 2}
  BY <1>5, EndpointNumbers
<1>7. n \in [AllScenarios -> Nat] /\ m \in [AllScenarios -> Nat]
  BY <1>4, <1>5, EndpointNumbers
<1>8. \A t \in AllScenarios \ {s} : m[t] = n[t]
  BY <1>5
<1>9. /\ results[c].Passed \in Nat /\ results[s].Passed \in Nat /\ results[s].Failed \in Nat
      /\ c # s => results'[c].Passed = results[c].Passed
  BY <1>1, <1>4, <1>5
<1>10. CASE passed[j]
  <2>1. m[s] = n[s] + 0
    BY <1>5, <1>6, <1>9, <1>10
  <2> HIDE DEF m, n, s
  <2>2. Total(m) = Total(n) + 0 /\ Total(n) \in Nat
    BY <1>5, <1>7, <1>8, <2>1, TotalChange, TotalType
  <2>3. QED
    BY <1>2, <1>5, <1>9, <1>10, <2>2
<1>11. CASE ~passed[j]
  <2> DEFINE d == NumEndpoints[s]
  <2>1. m[s] = n[s] + d /\ d \in Nat
    <3>1. results'[s].Failed = results[s].Failed + 1
      BY <1>5, <1>9, <1>11
    <3>2. CASE NumEndpoints[s] = 1
      BY <1>5, <1>9, <3>1, <3>2
    <3>3. CASE NumEndpoints[s] = 2
      BY <1>5, <1>9, <3>1, <3>3
    <3>4. QED
      BY <1>6, <3>2, <3>3
  <2> HIDE DEF m, n, s, d
  <2>2. Total(m) = Total(n) + d /\ Total(n) \in Nat
    BY <1>5, <1>7, <1>8, <2>1, TotalChange, TotalType
  <2>3. QED
    BY <1>2, <1>5, <1>9, <1>11, <2>1, <2>2 DEF d
<1>12. QED
  BY <1>5, <1>10, <1>11

\* A step after which no more is left over, and in which nothing is recorded.
LEMMA QuietLeft ==
  ASSUME StructInv, LeftInv, UNCHANGED results, Idle' \cap present' \subseteq Idle \cap present
  PROVE  LeftInv'
<1>1. Allowance' = Allowance
  BY DEF Allowance, Total
<1>2. Cardinality(Idle' \cap present') <= Cardinality(Idle \cap present)
      /\ Cardinality(Idle' \cap present') \in Nat
  BY LeftTypes, FS_Subset, FS_CardinalityType
<1>3. QED
  BY <1>1, <1>2, LeftTypes DEF LeftInv

\* A step that leaves the ports of the pool, the loop and the jobs that have
\* recorded their verdict together.
LEMMA SameIdle ==
  ASSUME UNCHANGED <<pool, hand>>,
         \A j \in Jobs : phase'[j] \in Recorded <=> phase[j] \in Recorded,
         \A j \in Jobs : phase[j] \in Recorded => held'[j] = held[j]
  PROVE  Idle' = Idle
BY DEF Idle, JobsIn, Recorded

LEMMA LoopLeft ==
  ASSUME StructInv, LeftInv,
         CheckDone \/ (\E s \in Mix : Pick(s)) \/ TakePort \/ WaitReturns \/ Expire
  PROVE  LeftInv'
<1>1. UNCHANGED <<phase, held, results, present>>
  BY DEF CheckDone, Pick, TakePort, WaitReturns, Expire, jobVars, statVars, envVars
<1>2. CASE TakePort
  <2>1. /\ pool \in Seq(Ports) /\ pool # <<>> /\ hand \in Seq(Ports) /\ Head(pool) \in Ports
        /\ hand' = Append(hand, Head(pool)) /\ pool' = Tail(pool)
    BY <1>2, TailFacts DEF TakePort, StructInv, TypeOK
  <2>2. /\ Range(pool) = {Head(pool)} \cup Range(pool')
        /\ Range(hand') = Range(hand) \cup {Head(pool)}
    BY <2>1, TailFacts, AppendFacts
  <2>3. Idle' = Idle
    BY <1>1, <2>2 DEF Idle, JobsIn
  <2>4. QED
    BY <1>1, <2>3, QuietLeft
<1>3. CASE CheckDone \/ (\E s \in Mix : Pick(s)) \/ WaitReturns \/ Expire
  <2>1. UNCHANGED <<pool, hand>>
    BY <1>3 DEF CheckDone, Pick, WaitReturns, Expire, loopVars
  <2>2. QED
    BY <1>1, <2>1, SameIdle, QuietLeft
<1>4. QED
  BY <1>2, <1>3

LEMMA LaunchLeft ==
  ASSUME StructInv, LeftInv, NEW j \in Jobs, Launch(j)
  PROVE  LeftInv'
<1>1. /\ UNCHANGED <<pool, results, present>> /\ hand' = <<>>
      /\ phase[j] = "unused" /\ phase'[j] = "running"
      /\ \A k \in Jobs \ {j} : phase'[k] = phase[k] /\ held'[k] = held[k]
  BY DEF Launch, Spawn, StructInv, TypeOK, statVars, envVars
<1>2. Range(hand') = {}
  BY <1>1, EmptyFacts
<1>3. Idle' \subseteq Idle
  BY <1>1, <1>2 DEF Idle, JobsIn, Recorded
<1>4. QED
  BY <1>1, <1>3, QuietLeft

\* The ports of a job that has not recorded its verdict are not idle.
LEMMA NotIdle ==
  ASSUME PortsConserved, NEW j \in Jobs, phase[j] \notin Recorded
  PROVE  Range(held[j]) \cap Idle = {}
<1>1. Range(held[j]) \cap (Range(pool) \cup Range(hand)) = {}
  BY DEF PortsConserved
<1>2. \A k \in JobsIn(Recorded) : Range(held[j]) \cap Range(held[k]) = {}
  BY DEF PortsConserved, JobsIn
<1>3. QED
  BY <1>1, <1>2 DEF Idle

LEMMA BodyLeft ==
  ASSUME StructInv, HandsInv, PortsConserved, LeftInv, NEW j \in Jobs, BodyStep(j)
  PROVE  LeftInv'
<1>1. /\ phase[j] = "running" /\ UNCHANGED <<pool, hand, held, results>>
      /\ \A k \in Jobs \ {j} : phase'[k] = phase[k]
      /\ phase'[j] \in {"running", "cleaning"}
  BY BodyFrame
<1>2. Idle' = Idle
  BY <1>1, SameIdle DEF Recorded
<1>3. Range(held[j]) \cap Idle = {}
  BY <1>1, NotIdle DEF Recorded
<1>4. present' \ Range(held[j]) = present \ Range(held[j])
  BY BodyPresent
<1>5. QED
  BY <1>1, <1>2, <1>3, <1>4, QuietLeft

LEMMA EndLeft ==
  ASSUME StructInv, LeftInv, NEW j \in Jobs,
         CleanUp(j) \/ ReturnPort(j) \/ LeaveConc(j) \/ WgDone(j)
  PROVE  LeftInv'
<1>1. /\ UNCHANGED <<hand, results, present>>
      /\ \A k \in Jobs \ {j} : phase'[k] = phase[k] /\ held'[k] = held[k]
  BY DEF CleanUp, ReturnPort, LeaveConc, WgDone, StructInv, TypeOK, loopVars, statVars, envVars
<1>2. CASE ReturnPort(j)
  <2>1. /\ phase' = phase /\ phase[j] = "returning"
        /\ held[j] \in Seq(Ports) /\ held[j] # <<>> /\ pool \in Seq(Ports)
        /\ Head(held[j]) \in Ports
        /\ pool' = Append(pool, Head(held[j])) /\ held'[j] = Tail(held[j])
    BY <1>2, TailFacts DEF ReturnPort, StructInv, TypeOK
  <2>2. /\ Range(held[j]) = {Head(held[j])} \cup Range(held'[j])
        /\ Range(pool') = Range(pool) \cup {Head(held[j])}
    BY <2>1, TailFacts, AppendFacts
  <2>3. j \in JobsIn(Recorded) /\ JobsIn(Recorded)' = JobsIn(Recorded)
    BY <2>1 DEF JobsIn, Recorded
  <2>4. Idle' = Idle
    BY <1>1, <2>2, <2>3 DEF Idle, JobsIn
  <2>5. QED
    BY <1>1, <2>4, QuietLeft
<1>3. CASE CleanUp(j) \/ LeaveConc(j) \/ WgDone(j)
  <2>1. /\ UNCHANGED <<pool, held>>
        /\ phase'[j] \in Recorded <=> phase[j] \in Recorded
    BY <1>3 DEF CleanUp, LeaveConc, WgDone, Recorded, StructInv, TypeOK
  <2>2. QED
    BY <1>1, <2>1, SameIdle, QuietLeft
<1>4. QED
  BY <1>2, <1>3

\* A sequence of ports has no more ports than its length, which is 1 or 2.
LEMMA FewPorts ==
  ASSUME NEW s \in Seq(Ports), Len(s) \in {1, 2}
  PROVE  /\ IsFiniteSet(Range(s)) /\ Cardinality(Range(s)) \in Nat
         /\ Cardinality(Range(s)) <= Len(s)
<1> DEFINE A == {s[1]}
<1>1. IsFiniteSet(A) /\ Cardinality(A) = 1
  BY FS_Singleton
<1>2. CASE Len(s) = 1
  <2>1. Range(s) = A
    BY <1>2 DEF Range
  <2>2. QED
    BY <1>1, <1>2, <2>1
<1>3. CASE Len(s) = 2
  <2>1. Range(s) = A \cup {s[2]}
    BY <1>3 DEF Range
  <2> HIDE DEF A
  <2>2. IsFiniteSet(A \cup {s[2]})
    BY <1>1, FS_AddElement
  <2>3. Cardinality(A \cup {s[2]}) = IF s[2] \in A THEN Cardinality(A) ELSE Cardinality(A) + 1
    BY <1>1, FS_AddElement
  <2>4. QED
    BY <1>1, <1>3, <2>1, <2>2, <2>3
<1>4. QED
  BY <1>2, <1>3

LEMMA RecordLeft ==
  ASSUME StructInv, HandsInv, ClearedInv, LeftInv, NEW j \in Jobs, Record(j)
  PROVE  LeftInv'
<1> DEFINE s == scen[j]
           L == Range(held[j]) \cap present
           I == Idle \cap present
<1>1. /\ phase[j] = "recording" /\ phase'[j] = "returning"
      /\ \A k \in Jobs \ {j} : phase'[k] = phase[k]
      /\ UNCHANGED <<hand, pool, held, present>>
  BY DEF Record, StructInv, TypeOK, loopVars, envVars
<1>2. JobsIn(Recorded)' = JobsIn(Recorded) \cup {j}
  BY <1>1 DEF JobsIn, Recorded
<1>3. Idle' \cap present' = I \cup L
  BY <1>1, <1>2 DEF Idle
<1>4. /\ s \in AllScenarios /\ held[j] \in Seq(Ports) /\ passed[j] \in BOOLEAN
      /\ Len(held[j]) = NumEndpoints[s] /\ NumEndpoints[s] \in {1, 2}
      /\ passed[j] => at[j] = Len(Script[s]) + 1
  BY <1>1, MixAssumption, EndpointNumbers DEF StructInv, TypeOK, HandsInv, InBody
<1>5. /\ IsFiniteSet(L) /\ Cardinality(L) \in Nat /\ Cardinality(L) <= NumEndpoints[s]
  <2>1. /\ IsFiniteSet(Range(held[j])) /\ Cardinality(Range(held[j])) \in Nat
        /\ Cardinality(Range(held[j])) <= NumEndpoints[s]
    BY <1>4, FewPorts
  <2>2. IsFiniteSet(L) /\ Cardinality(L) <= Cardinality(Range(held[j]))
    BY <2>1, FS_Subset
  <2>3. QED
    BY <1>4, <2>1, <2>2, FS_CardinalityType
<1>6. /\ IsFiniteSet(I) /\ Cardinality(I) \in Nat /\ Allowance \in Nat
      /\ Cardinality(I) <= Allowance
  BY LeftTypes DEF LeftInv
<1>7. /\ Cardinality(I \cup L) \in Nat
      /\ Cardinality(I \cup L) <= Cardinality(I) + Cardinality(L)
  <2>1. IsFiniteSet(I \cap L) /\ IsFiniteSet(I \cup L)
    BY <1>5, <1>6, FS_Subset, FS_Union
  <2>2. Cardinality(I \cap L) \in Nat /\ Cardinality(I \cup L) \in Nat
    BY <2>1, FS_CardinalityType
  <2>3. Cardinality(I \cup L) = Cardinality(I) + Cardinality(L) - Cardinality(I \cap L)
    BY <1>5, <1>6, FS_Union
  <2>4. QED
    BY <1>5, <1>6, <2>2, <2>3
<1> DEFINE more == IF passed[j] THEN IF s = "host re-add" THEN 1 ELSE 0 ELSE NumEndpoints[s]
<1>8. Allowance' = Allowance + more
  BY <1>4, RecordAllowance
<1>9. Cardinality(L) <= more /\ more \in Nat
  <2>1. CASE ~passed[j]
    BY <1>4, <1>5, <2>1
  <2>2. CASE passed[j] /\ s = "host re-add"
    <3>1. more = 1 /\ NumEndpoints[s] = 1
      BY <1>4, <2>2 DEF NumEndpoints
    <3> HIDE DEF more
    <3>2. QED
      BY <1>5, <3>1
  <2>3. CASE passed[j] /\ s # "host re-add"
    <3>1. more = 0
      BY <2>3
    <3>2. Cleared(s, at[j]) = 1..NumEndpoints[s]
      BY <1>4, <2>3, AllCleared
    <3> HIDE DEF more
    <3>3. \A k \in 1..Len(held[j]) : held[j][k] \notin present
      BY <1>1, <1>4, <3>2 DEF ClearedInv, InBody
    <3>4. L = {}
      BY <1>4, <3>3 DEF Range
    <3>5. QED
      BY <3>1, <3>4, FS_EmptySet
  <2>4. QED
    BY <2>1, <2>2, <2>3
<1> HIDE DEF more, L, I
<1>10. Cardinality(I \cup L) <= Allowance'
  BY <1>5, <1>6, <1>7, <1>8, <1>9
<1>11. QED
  BY <1>3, <1>10 DEF LeftInv

-----------------------------------------------------------------------------
(* The invariant of the report                                             *)

LEMMA InitReport == Init => RInv
<1> SUFFICES ASSUME Init PROVE RInv
  OBVIOUS
<1>1. ClearedInv
  BY DEF Init, ClearedInv, InBody
<1>2. LeftInv
  <2>1. Idle \cap present = {}
    BY DEF Init
  <2>2. QED
    BY <2>1, InitStruct, LeftTypes, FS_EmptySet DEF LeftInv
<1>3. QED
  BY <1>1, <1>2, InitHands, InitTally DEF RInv

LEMMA LoopReport ==
  ASSUME IInv, RInv,
         CheckDone \/ (\E s \in Mix : Pick(s)) \/ TakePort \/ WaitReturns \/ Expire
  PROVE  RInv'
<1>1. StructInv /\ HandsInv /\ TallyInv /\ ClearedInv /\ LeftInv
  BY DEF IInv, RInv
<1>2. UNCHANGED <<phase, scen, at, held, passed, results, totalRun, present>>
  BY DEF CheckDone, Pick, TakePort, WaitReturns, Expire, jobVars, statVars, envVars
<1>3. HandsInv'
  BY <1>1, LoopHands
<1>4. TallyInv'
  BY <1>1, <1>2, QuietTally
<1>5. ClearedInv'
  BY <1>1, <1>2, QuietCleared
<1>6. LeftInv'
  BY <1>1, LoopLeft
<1>7. QED
  BY <1>3, <1>4, <1>5, <1>6 DEF RInv

LEMMA LaunchReport ==
  ASSUME IInv, RInv, NEW j \in Jobs, Launch(j)
  PROVE  RInv'
<1>1. StructInv /\ HandsInv /\ TallyInv /\ ClearedInv /\ LeftInv
  BY DEF IInv, RInv
<1>2. /\ UNCHANGED <<at, passed, results, totalRun, present>>
      /\ phase[j] = "unused" /\ phase'[j] = "running" /\ scen'[j] \in AllScenarios
      /\ at[j] = 1
      /\ \A k \in Jobs \ {j} :
           phase'[k] = phase[k] /\ held'[k] = held[k] /\ scen'[k] = scen[k]
  BY <1>1, MixAssumption
     DEF Launch, Spawn, StructInv, TypeOK, UnusedInv, statVars, envVars
<1>3. HandsInv'
  BY <1>1, LaunchHands
<1>4. TallyInv'
  BY <1>1, <1>2, QuietTally DEF Recorded
<1>5. ClearedInv'
  BY <1>1, <1>2, QuietCleared
<1>6. LeftInv'
  BY <1>1, LaunchLeft
<1>7. QED
  BY <1>3, <1>4, <1>5, <1>6 DEF RInv

LEMMA BodyReport ==
  ASSUME IInv, RInv, NEW j \in Jobs, BodyStep(j)
  PROVE  RInv'
<1>1. StructInv /\ PortsConserved /\ HandsInv /\ TallyInv /\ ClearedInv /\ LeftInv
  BY DEF IInv, RInv
<1>2. /\ phase[j] = "running" /\ phase'[j] \in {"running", "cleaning"}
      /\ UNCHANGED <<results, totalRun>>
      /\ \A k \in Jobs \ {j} : phase'[k] = phase[k] /\ passed'[k] = passed[k]
  BY <1>1, BodyFrame
<1>3. HandsInv'
  BY <1>1, BodyHands
<1>4. TallyInv'
  BY <1>1, <1>2, QuietTally DEF Recorded
<1>5. ClearedInv'
  BY <1>1, BodyCleared
<1>6. LeftInv'
  BY <1>1, BodyLeft
<1>7. QED
  BY <1>3, <1>4, <1>5, <1>6 DEF RInv

LEMMA EndReport ==
  ASSUME IInv, RInv, NEW j \in Jobs,
         CleanUp(j) \/ Record(j) \/ ReturnPort(j) \/ LeaveConc(j) \/ WgDone(j)
  PROVE  RInv'
<1>1. StructInv /\ CountInv /\ HandsInv /\ TallyInv /\ ClearedInv /\ LeftInv
  BY DEF IInv, RInv
<1>2. HandsInv'
  BY <1>1, EndHands
<1>3. /\ UNCHANGED <<at, scen, passed, present>>
      /\ \A k \in Jobs \ {j} : phase'[k] = phase[k] /\ held'[k] = held[k]
      /\ phase'[j] \in InBody => phase[j] \in InBody /\ held'[j] = held[j]
  BY <1>1 DEF CleanUp, Record, ReturnPort, LeaveConc, WgDone, StructInv, TypeOK, envVars, InBody
<1>4. ClearedInv'
  BY <1>1, <1>3, QuietCleared
<1>5. CASE Record(j)
  BY <1>1, <1>2, <1>4, <1>5, RecordTally, RecordLeft DEF RInv
<1>6. CASE CleanUp(j) \/ ReturnPort(j) \/ LeaveConc(j) \/ WgDone(j)
  <2>1. /\ UNCHANGED <<results, totalRun>>
        /\ phase'[j] \in Recorded <=> phase[j] \in Recorded
    BY <1>1, <1>6
       DEF CleanUp, ReturnPort, LeaveConc, WgDone, Recorded, StructInv, TypeOK, statVars
  <2>2. TallyInv'
    BY <1>1, <1>3, <2>1, QuietTally
  <2>3. LeftInv'
    BY <1>1, <1>6, EndLeft
  <2>4. QED
    BY <1>2, <1>4, <2>2, <2>3 DEF RInv
<1>7. QED
  BY <1>5, <1>6

\* A deferred Stop and a stutter change nothing that the report rests on.
LEMMA QuietReport ==
  ASSUME IInv, RInv,
         UNCHANGED <<loop, hand, pool, wg, phase, scen, at, held, passed, results, totalRun,
                     present>>
  PROVE  RInv'
<1>1. StructInv /\ HandsInv /\ TallyInv /\ ClearedInv /\ LeftInv
  BY DEF IInv, RInv
<1>2. HandsInv'
  BY <1>1 DEF HandsInv
<1>3. TallyInv'
  BY <1>1, QuietTally
<1>4. ClearedInv'
  BY <1>1, QuietCleared
<1>5. Idle' = Idle
  BY <1>1, SameIdle
<1>6. LeftInv'
  BY <1>1, <1>5, QuietLeft
<1>7. QED
  BY <1>2, <1>3, <1>4, <1>6 DEF RInv

LEMMA StutterReport ==
  ASSUME IInv, RInv, UNCHANGED vars
  PROVE  RInv'
BY QuietReport DEF vars, loopVars, jobVars, concVars, statVars, envVars

LEMMA DeferredReport ==
  ASSUME IInv, RInv, NEW j \in Jobs, StopDeferred(j)
  PROVE  RInv'
BY QuietReport, DeferredFrame

\* In every reachable state the tallies are the goroutines that have recorded
\* a verdict, and what is present at ports without a body is accounted for by
\* passed re-adds and failures (stress.go:90-167, 173-337).
THEOREM ReportInvariance == Spec => [](IInv /\ RInv)
<1>1. ASSUME IInv, RInv, [Next]_vars
      PROVE  RInv'
  BY <1>1, LoopReport, LaunchReport, BodyReport, EndReport, DeferredReport, StutterReport
     DEF Next, LoopStep, JobStep, Finished
<1>2. QED
  BY <1>1, InitReport, Invariance, PTL DEF Spec

\* Whatever is still present on a port that is back in the pool was left by a
\* failed body, which is counted in the report, or by a re-add.
THEOREM LeftoversAreExplained == Spec => []LeftoversExplained
<1>1. ASSUME IInv, RInv
      PROVE  LeftoversExplained
  <2>1. StructInv /\ LeftInv
    BY <1>1 DEF IInv, RInv
  <2>2. /\ IsFiniteSet(Idle \cap present) /\ Cardinality(Idle \cap present) \in Nat
        /\ Allowance \in Nat /\ Cardinality(Idle \cap present) <= Allowance
    BY <2>1, LeftTypes DEF LeftInv
  <2>3. Range(pool) \cap present \subseteq Idle \cap present
    BY DEF Idle
  <2>4. IsFiniteSet(Range(pool) \cap present)
    BY <2>2, <2>3, FS_Subset
  <2>5. /\ Cardinality(Range(pool) \cap present) <= Cardinality(Idle \cap present)
        /\ Cardinality(Range(pool) \cap present) \in Nat
    BY <2>2, <2>3, <2>4, FS_Subset, FS_CardinalityType
  <2>6. Cardinality(Range(pool) \cap present) <= Allowance
    BY <2>2, <2>5
  <2>7. QED
    BY <2>6 DEF LeftoversExplained, Allowance
<1>2. QED
  BY <1>1, ReportInvariance, PTL

LEMMA AllReturned ==
  ASSUME IInv, RInv, loop = "returned"
  PROVE  /\ JobsIn(Alive) = {} /\ \A j \in Jobs : phase[j] \in {"unused", "gone"}
         /\ hand = <<>> /\ \A j \in Jobs : held[j] = <<>>
         /\ JobsIn(Recorded) = JobsIn({"gone"})
<1>1. wg = 0 /\ hand = <<>>
  BY DEF RInv, HandsInv
<1>2. JobsIn(Alive) = {}
  <2>1. IsFiniteSet(JobsIn(Alive))
    BY JobsAssumption, FS_Subset DEF JobsIn
  <2>2. Cardinality(JobsIn(Alive)) = 0
    BY <1>1 DEF IInv, CountInv, WgInv
  <2>3. QED
    BY <2>1, <2>2, FS_EmptySet
<1>3. \A j \in Jobs : phase[j] \in {"unused", "gone"}
  BY <1>2 DEF IInv, StructInv, TypeOK, JobsIn, Alive
<1>4. \A j \in Jobs : held[j] = <<>>
  BY <1>3 DEF IInv, StructInv, UnusedInv, RInv, HandsInv
<1>5. QED
  BY <1>1, <1>2, <1>3, <1>4 DEF JobsIn, Recorded

LEMMA VerdictsAddUp ==
  ASSUME IInv, RInv
  PROVE  /\ Passed + Failed = totalRun
         /\ AllPassed <=> (totalRun > 0 /\ \A j \in JobsIn(Recorded) : passed[j])
<1> DEFINE R == JobsIn(Recorded)
           T == RecordedAs(TRUE)
           F == RecordedAs(FALSE)
<1>1. StructInv /\ TallyInv
  BY DEF IInv, RInv
<1>2. /\ IsFiniteSet(R) /\ IsFiniteSet(T) /\ IsFiniteSet(F)
      /\ Cardinality(R) \in Nat /\ Cardinality(T) \in Nat /\ Cardinality(F) \in Nat
  BY <1>1, ReportTypes
<1>3. totalRun = Cardinality(R) /\ Passed = Cardinality(T) /\ Failed = Cardinality(F)
  BY <1>1 DEF TallyInv
<1>4. R = T \cup F /\ T \cap F = {}
  BY <1>1 DEF RecordedAs, StructInv, TypeOK, JobsIn
<1>5. T = R <=> \A j \in R : passed[j]
  BY <1>1 DEF RecordedAs, StructInv, TypeOK, JobsIn
<1> HIDE DEF R, T, F
<1>6. Cardinality(R) = Cardinality(T) + Cardinality(F)
  <2>1. Cardinality(T \cup F) = Cardinality(T) + Cardinality(F) - Cardinality(T \cap F)
    BY <1>2, FS_Union
  <2>2. Cardinality(T \cap F) = 0
    BY <1>4, FS_EmptySet
  <2>3. QED
    BY <1>2, <1>4, <2>1, <2>2
<1>7. Cardinality(R) = Cardinality(T) <=> T = R
  BY <1>2, <1>4, FS_Subset
<1>8. Passed + Failed = totalRun
  BY <1>3, <1>6
<1>9. AllPassed <=> totalRun > 0 /\ T = R
  <2>1. CASE totalRun = 0
    BY <1>2, <1>3, <1>6, <2>1 DEF AllPassed
  <2>2. CASE totalRun # 0
    BY <1>2, <1>3, <1>6, <1>7, <2>2 DEF AllPassed
  <2>3. QED
    BY <2>1, <2>2
<1>10. QED
  BY <1>5, <1>8, <1>9 DEF R

\* When Run returns, its goroutines have ended, each has been counted once,
\* ports and backends are back, and the report passes exactly when something
\* has run and nothing has failed.
THEOREM RunReturnsComplete == Spec => []ReturnedRunIsComplete
<1>1. ASSUME IInv, RInv, NoLeakedBackend
      PROVE  ReturnedRunIsComplete
  <2> SUFFICES ASSUME loop = "returned"
               PROVE  /\ JobsIn(Alive) = {}
                      /\ totalRun = Cardinality(JobsIn({"gone"}))
                      /\ Passed + Failed = totalRun
                      /\ Range(pool) = Ports /\ backends = {}
                      /\ AllPassed <=> (totalRun > 0 /\ \A j \in JobsIn({"gone"}) : passed[j])
    BY DEF ReturnedRunIsComplete, Alive
  <2>1. /\ JobsIn(Alive) = {} /\ \A j \in Jobs : phase[j] \in {"unused", "gone"}
        /\ hand = <<>> /\ \A j \in Jobs : held[j] = <<>>
        /\ JobsIn(Recorded) = JobsIn({"gone"})
    BY <1>1, AllReturned
  <2>2. totalRun = Cardinality(JobsIn({"gone"}))
    BY <1>1, <2>1 DEF RInv, TallyInv
  <2>3. Range(pool) = Ports
    BY <1>1, <2>1, EmptyFacts DEF IInv, PortsConserved
  <2>4. backends = {}
    BY <1>1, <2>1 DEF NoLeakedBackend, JobsIn
  <2>5. QED
    BY <1>1, <2>1, <2>2, <2>3, <2>4, VerdictsAddUp
<1>2. QED
  BY <1>1, ReportInvariance, BackendsNeverLeak, PTL

=============================================================================
