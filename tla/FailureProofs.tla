--------------------------- MODULE FailureProofs ---------------------------
(***************************************************************************)
(* Proofs that the failures are right: with an Envoy that has the feature  *)
(* no scenario fails but for a crash of Envoy or a call of its admin port  *)
(* that failed.  Every poll is over before its deadline, every time that   *)
(* is measured is within its bounds and every sample shows what it must.   *)
(***************************************************************************)
EXTENDS VerdictProofs

-----------------------------------------------------------------------------
(* An Envoy with the feature, where nothing crashes                        *)

AliveInv ==
  /\ child = "ready" => answering \/ main = "exited"
  /\ child = "dead" => crashes > 0

LEMMA AliveNext == ASSUME BaseInv, FaultsInv, AliveInv, [Next]_vars PROVE AliveInv'
<1> USE DEF AliveInv, processVars, reportVars
<1>0. ChildInv /\ crashes \in Nat
  BY BaseParts DEF FaultsInv
<1>1. CASE StartEnvoy \/ StopServer \/ StartServer \/ EnvoyIsReady \/ NextBody \/ Finish
  <2>1. child' = "starting" \/ UNCHANGED <<child, answering, crashes>>
    BY <1>1 DEF StartEnvoy, StopServer, StartServer, EnvoyIsReady, NextBody, Finish, scenarioVars,
                faultVars
  <2>2. main # "exited"
    BY <1>1 DEF StartEnvoy, StopServer, StartServer, EnvoyIsReady, NextBody, Finish, Judged
  <2>3. QED
    BY <2>1, <2>2
<1>2. CASE UnknownProfile \/ EnvoyIsNotReady \/ Exit \/ SetupFails
  BY <1>2 DEF UnknownProfile, EnvoyIsNotReady, Exit, SetupFails, EndProcess
<1>3. CASE StopEnvoy
  BY <1>3 DEF StopEnvoy, faultVars
<1>4. CASE main = "run" /\ BodyStep /\ UNCHANGED <<processVars, reportVars>>
  BY <1>4, BodyStepIs DEF Advances, Returns, Misses, StartFails
<1>5. CASE EnvoyBecomesReady \/ OrphanBecomesReady
  BY <1>5 DEF EnvoyBecomesReady, OrphanBecomesReady, faultVars
<1>6. CASE EnvoyApplies /\ UNCHANGED <<processVars, reportVars>>
  BY <1>6 DEF EnvoyApplies, faultVars
<1>7. CASE EnvoyCrashes
  BY <1>0, <1>7 DEF EnvoyCrashes
<1>8. CASE StreamBreaks
  BY <1>8 DEF StreamBreaks
<1>9. CASE Passage
  BY <1>9 DEF Passage, Tick
<1>10. CASE CallHangs \/ Exited \/ UNCHANGED vars
  BY <1>10 DEF CallHangs, Exited, vars, scenarioVars, faultVars
<1>11. QED
  BY <1>1, <1>2, <1>3, <1>4, <1>5, <1>6, <1>7, <1>8, <1>9, <1>10 DEF Next, MainStep, EnvoyStep

LEMMA Answers ==
  ASSUME BaseInv, AliveInv, Running, crashes = 0
  PROVE  answering
BY BaseParts DEF ConfigInv, AliveInv, Running

\* A push that is on its way has been for as long as the instruction.
LagInv == Running /\ answering /\ pushed # applied => waited <= lag

LEMMA LagNext == ASSUME BaseInv, LagInv, [Next]_vars PROVE LagInv'
<1> SUFFICES ASSUME Running', answering', pushed' # applied'
             PROVE  waited' <= lag'
  BY DEF LagInv
<1>0. ShapeInv /\ BaseInv' /\ lag \in Nat /\ waited \in Nat
  BY BaseParts, BaseNext, TableTypes
<1>1. CASE Begins
  BY <1>0, <1>1 DEF Begins, Begin, envoyVars
<1>2. CASE Running /\ Advances
  BY <1>0, <1>2, AdvanceIs
<1>3. CASE Running /\ (Ticks \/ Applies \/ Breaks \/ UNCHANGED scenarioVars)
  <2>1. answering' = answering
    BY <1>3 DEF Ticks, Applies, Breaks, scenarioVars
  <2>2. CASE Ticks
    BY <1>0, <1>3, <2>1, <2>2 DEF LagInv, Ticks, EnvoyTick, TickMs
  <2>3. CASE Applies
    BY <2>3 DEF Applies, Apply
  <2>4. CASE Breaks
    BY <1>3, <2>4 DEF LagInv, Breaks, Reconnect, bodyVars
  <2>5. CASE UNCHANGED scenarioVars
    BY <1>3, <2>5 DEF LagInv, scenarioVars, envoyVars, bodyVars
  <2>6. QED
    BY <1>3, <2>2, <2>3, <2>4, <2>5
<1>4. CASE Dies
  BY <1>4 DEF Dies
<1>5. QED
  BY <1>1, <1>2, <1>3, <1>4, RunningSteps

\* Every endpoint that has been applied is listed, and a host is pending only
\* by health checks.
ListedInv == kind = "fixed" =>
  \A h \in Hosts :
    /\ h \in applied.endpoints => state[h] # "absent"
    /\ state[h] = "pending" => applied.healthChecks

LEMMA ListedNext == ASSUME BaseInv, ListedInv, [Next]_vars PROVE ListedInv'
<1> SUFFICES ASSUME kind' = "fixed", NEW h \in Hosts
             PROVE  /\ h \in applied'.endpoints => state'[h] # "absent"
                    /\ state'[h] = "pending" => applied'.healthChecks
  BY DEF ListedInv
<1>0. ShapeInv /\ HostsInv /\ ChildInv /\ state[h] \in States
  BY BaseParts, TableTypes
<1> DEFINE ListedNow == /\ h \in applied.endpoints => state[h] # "absent"
                        /\ state[h] = "pending" => applied.healthChecks
<1>1. CASE UNCHANGED <<kind, envoyVars, answering>>
  BY <1>1 DEF envoyVars, ListedInv
<1>2. CASE EmptyTable
  BY <1>2 DEF EmptyTable, NoCluster
<1>3. CASE answering /\ answering' = answering /\ Apply
  <2>1. kind = "fixed" /\ ListedNow /\ applied' = pushed
    BY <1>3 DEF Apply, ListedInv
  <2>2. /\ state'[h] = IF h \in Leaving THEN Removed(state[h]) ELSE Named(state[h])
        /\ h \in Leaving <=> h \notin pushed.endpoints
        /\ Listed # {} => ~Reconfigured
    BY <1>0, <1>3, <2>1, ApplyHost
  <2>3. Named(state[h]) \notin {"absent", "pending"}
    BY <1>0, <2>1 DEF Named, States
  <2>4. CASE state[h] = "absent"
    BY <2>1, <2>2, <2>3, <2>4 DEF Removed
  <2>5. CASE state[h] # "absent"
    <3>1. Removed(state[h]) = "pending" => applied.healthChecks
      BY <1>0, <2>1 DEF Removed, HostsInv
    <3>2. pushed.healthChecks = applied.healthChecks
      BY <2>2, <2>5 DEF Listed, Reconfigured
    <3>3. QED
      BY <2>1, <2>2, <2>3, <3>1, <3>2
  <2>6. QED
    BY <2>4, <2>5
<1>4. CASE answering /\ answering' = answering /\ EnvoyTick
  <2>1. kind = "fixed" /\ ListedNow /\ applied' = applied
    BY <1>4 DEF EnvoyTick, ListedInv
  <2>2. h \in applied.endpoints => state[h] \in {"new", "healthy", "failing"}
    BY <1>0, <2>1 DEF HostsInv, IsPending, States
  <2>3. h \in applied.endpoints => state'[h] # "absent"
    BY <1>0, <1>4, <2>2, TickHost
  <2>4. state'[h] = "pending" => state[h] = "pending"
    BY <1>0, <1>4, PendingTick
  <2>5. QED
    BY <2>1, <2>3, <2>4
<1>5. CASE answering /\ answering' = answering /\ Reconnect
  BY <1>5 DEF Reconnect, ListedInv
<1>6. QED
  BY <1>0, <1>1, <1>2, <1>3, <1>4, <1>5, TableMoves

-----------------------------------------------------------------------------
(* What a poll waits for, and how long it takes to come                    *)

\* h is confirmed at w, by the calls before it.
LEMMA ConfirmedBy ==
  ASSUME NEW q, NEW h, NEW w \in Nat, NEW j \in 2..w-1,
         Calls(q, 1, "start", h), Calls(q, j, "add", h), Confirms(q, w, h),
         \A k \in 1..w-1 : q[k].op \notin {"stop", "remove"}
  PROVE  ConfirmedAt(q, w, h)
<1>1. 1 \in 1..w-1 /\ j \in 1..w-1
  OBVIOUS
<1>2. QED
  BY <1>1 DEF ConfirmedAt, Started, Added, NothingRemoved, Calls

\* The hosts of a scenario, and how long they stay when they are removed.
Whole(s) == IF s = "E" THEN Hosts ELSE Two
Stay(s) == IF s \in StressBodies THEN 3000 ELSE IF s = "D" THEN 500 ELSE IF s = "G" THEN 0 ELSE 5000

Appears(s, q, i) ==
  \/ s # "G" /\ q[i].condition = "healthy" /\ q[i].n \in Hosts /\ ConfirmedAt(q, i, q[i].n)
  \/ q[i].condition = "count" /\ q[i].n = 2 /\ \A h \in Two : ConfirmedAt(q, i, h)
Pends(q, i) == \E r, p \in Nat : After(q, r, p, i) /\ Polled(q, r, i) /\ IsPoll(q[i], q[r].on)
Departs(q, i, S) ==
  \E r, p \in Nat :
    /\ After(q, r, p, i)
    /\ \/ q[i].condition = "gone" /\ q[i].n \in q[r].on
       \/ q[i].condition = "count" /\ q[i].n = 0 /\ q[r].on = S

\* But for the delay of a push, a tick and the calls that fail, the poll at i
\* is over after ms.
Due(s, q, i, ms) ==
  \/ ms = 0 /\ Appears(s, q, i)
  \/ ms = 0 /\ s \notin {"D", "G"} /\ Pends(q, i)
  \/ ms = Stay(s) /\ s # "0" /\ Departs(q, i, Whole(s))
  \/ ms = 0 /\ s \in Readding /\ i \in AddAt(s)+1..SleepAt(s)-1
  \/ ms = 0 /\ s = "B" /\ i = 9

\* Every poll whose error is returned is over in time.
IsDue(s, q, i) == \E ms \in Nat : Due(s, q, i, ms) /\ ms + 1000 <= q[i].within

InTime(s, q) == \A i \in 1..Len(q) : q[i].op = "wait" /\ q[i].must => IsDue(s, q, i)

LEMMA AppearsDue ==
  ASSUME NEW s, NEW q, NEW i, Appears(s, q, i), q[i].within \in Nat, q[i].within >= 1000
  PROVE  IsDue(s, q, i)
<1>1. Due(s, q, i, 0) /\ 0 + 1000 <= q[i].within
  BY DEF Due
<1>2. QED
  BY <1>1 DEF IsDue

LEMMA SetupDue ==
  ASSUME NEW s, s # "G", NEW q, IsCall(q[1], "start", Two), IsCall(q[2], "add", Two),
         IsAwait(q[3], "healthy", 1, 10000), IsAwait(q[4], "healthy", 2, 10000)
  PROVE  IsDue(s, q, 3) /\ IsDue(s, q, 4)
<1>1. /\ Calls(q, 1, "start", 1) /\ Calls(q, 1, "start", 2)
      /\ Calls(q, 2, "add", 1) /\ Calls(q, 2, "add", 2)
      /\ Confirms(q, 3, 1) /\ Confirms(q, 4, 2)
      /\ \A k \in 1..4 : q[k].op \notin {"stop", "remove"}
  BY DEF IsCall, IsAwait, Calls, Confirms, Two
<1>2. ConfirmedAt(q, 3, 1) /\ ConfirmedAt(q, 4, 2)
  BY <1>1, ConfirmedBy
<1>3. Appears(s, q, 3) /\ Appears(s, q, 4)
  BY <1>2, SomeHosts DEF Appears, IsAwait
<1>4. QED
  BY <1>3, AppearsDue DEF IsAwait

LEMMA PendsDue ==
  ASSUME NEW s, s \notin {"D", "G"}, NEW q, NEW r \in Nat, NEW p \in Nat, NEW i,
         After(q, r, p, i), Polled(q, r, i), IsPoll(q[i], q[r].on), q[i].within = 5000
  PROVE  IsDue(s, q, i)
<1>1. Due(s, q, i, 0) /\ 0 + 1000 <= q[i].within
  BY DEF Due, Pends
<1>2. QED
  BY <1>1 DEF IsDue

LEMMA DepartsDue ==
  ASSUME NEW s, s # "0", NEW q, NEW r \in Nat, NEW p \in Nat, NEW i, After(q, r, p, i),
         \/ q[i].condition = "gone" /\ q[i].n \in q[r].on
         \/ q[i].condition = "count" /\ q[i].n = 0 /\ q[r].on = Whole(s),
         Stay(s) \in Nat, Stay(s) + 1000 <= q[i].within
  PROVE  IsDue(s, q, i)
<1>1. Due(s, q, i, Stay(s)) /\ Stay(s) + 1000 <= q[i].within
  BY DEF Due, Departs
<1>2. QED
  BY <1>1 DEF IsDue

LEMMA InTime0 == InTime("0", Scenario0)
<1> DEFINE q == Scenario0
<1>1. /\ IsCall(q[1], "start", Two) /\ IsCall(q[2], "add", Two)
      /\ IsAwait(q[3], "healthy", 1, 10000) /\ IsAwait(q[4], "healthy", 2, 10000)
      /\ Len(q) = 9
  BY InScenario0
<1>2. \A i \in 1..9 : q[i].op = "wait" /\ q[i].must => i \in {3, 4, 6, 7}
  BY InScenario0 DEF IsCall, IsAwait, IsTry, IsSleep, IsMark, IsBound, IsSample, IsStrictSample
<1>3. /\ IsAwait(q[6], "flag", 1, 5000)
      /\ IsAwait(q[7], "flag", 2, 5000)
      /\ Removal(q, 5, 6) /\ q[5].on = Two /\ Keeps(q, 6, 10)
  BY InScenario0, RemovalIn0
<1> HIDE DEF q
<1>4. "0" \notin {"D", "G"}
  OBVIOUS
<1>5. IsDue("0", q, 3) /\ IsDue("0", q, 4)
  BY <1>1, <1>4, SetupDue
<1>6. IsDue("0", q, 6)
  <2>1. Polled(q, 5, 6) /\ IsPoll(q[6], q[5].on) /\ After(q, 5, 6, 6)
    BY <1>3 DEF Polled, IsPoll, IsAwait, Two, After, Keeps
  <2>2. QED
    BY <1>3, <1>4, <2>1, PendsDue DEF IsAwait
<1>7. IsDue("0", q, 7)
  <2>1. Polled(q, 5, 7) /\ IsPoll(q[7], q[5].on) /\ After(q, 5, 6, 7)
    BY <1>3 DEF Polled, IsPoll, IsAwait, Two, After, Keeps
  <2>2. QED
    BY <1>3, <1>4, <2>1, PendsDue DEF IsAwait
<1>8. InTime("0", q)
  BY <1>1, <1>2, <1>5, <1>6, <1>7 DEF InTime
<1>9. QED
  BY <1>8 DEF q

LEMMA InTimeB == InTime("B", ScenarioB)
<1> DEFINE q == ScenarioB
<1>1. /\ IsCall(q[1], "start", Two) /\ IsCall(q[2], "add", Two)
      /\ IsAwait(q[3], "healthy", 1, 10000) /\ IsAwait(q[4], "healthy", 2, 10000)
      /\ Len(q) = 10
  BY InScenarioB
<1>2. \A i \in 1..10 : q[i].op = "wait" /\ q[i].must => i \in {3, 4, 9}
  BY InScenarioB DEF IsCall, IsAwait, IsTry, IsSleep, IsMark, IsBound, IsSample, IsStrictSample
<1> HIDE DEF q
<1>3. "B" \notin {"0", "D", "G"}
  OBVIOUS
<1>4. IsDue("B", q, 3) /\ IsDue("B", q, 4)
  BY <1>1, <1>3, SetupDue
<1>5. IsDue("B", q, 9)
  <2>1. Due("B", q, 9, 0) /\ q[9].within = 3000
    BY InScenarioB DEF Due, IsAwait, q
  <2>2. QED
    BY <2>1 DEF IsDue
<1>6. InTime("B", q)
  BY <1>1, <1>2, <1>4, <1>5 DEF InTime
<1>7. QED
  BY <1>6 DEF q

LEMMA InTimeC == InTime("C", ScenarioC)
<1> DEFINE q == ScenarioC
<1>1. /\ IsCall(q[1], "start", Two) /\ IsCall(q[2], "add", Two)
      /\ IsAwait(q[3], "healthy", 1, 10000) /\ IsAwait(q[4], "healthy", 2, 10000)
      /\ Len(q) = 8
  BY InScenarioC
<1>2. \A i \in 1..8 : q[i].op = "wait" /\ q[i].must => i \in {3, 4, 7}
  BY InScenarioC DEF IsCall, IsAwait, IsTry, IsSleep, IsMark, IsBound, IsSample, IsStrictSample
<1>3. /\ IsAwait(q[7], "gone", 1, 10000)
      /\ Removal(q, 5, 6) /\ q[5].on = {1} /\ Keeps(q, 6, 9)
  BY InScenarioC, RemovalInC
<1> HIDE DEF q
<1>4. "C" \notin {"0", "D", "G"}
  OBVIOUS
<1>5. IsDue("C", q, 3) /\ IsDue("C", q, 4)
  BY <1>1, <1>4, SetupDue
<1>6. IsDue("C", q, 7)
  <2>1. Stay("C") = 5000 /\ Whole("C") = Two
    BY NamesDiffer DEF Stay, Whole
  <2>2. /\ After(q, 5, 6, 7)
        /\ \/ q[7].condition = "gone" /\ q[7].n \in q[5].on
           \/ q[7].condition = "count" /\ q[7].n = 0 /\ q[5].on = Whole("C")
    BY <1>3, <2>1 DEF IsAwait, After, Keeps
  <2>3. QED
    BY <1>3, <1>4, <2>1, <2>2, DepartsDue DEF IsAwait
<1>7. InTime("C", q)
  BY <1>1, <1>2, <1>5, <1>6 DEF InTime
<1>8. QED
  BY <1>7 DEF q

LEMMA InTimeF == InTime("F", ScenarioF)
<1> DEFINE q == ScenarioF
<1>1. /\ IsCall(q[1], "start", Two) /\ IsCall(q[2], "add", Two)
      /\ IsAwait(q[3], "healthy", 1, 10000) /\ IsAwait(q[4], "healthy", 2, 10000)
      /\ Len(q) = 8
  BY InScenarioF
<1>2. \A i \in 1..8 : q[i].op = "wait" /\ q[i].must => i \in {3, 4, 8}
  BY InScenarioF DEF IsCall, IsAwait, IsTry, IsSleep, IsMark, IsBound, IsSample, IsStrictSample
<1>3. /\ IsAwait(q[8], "count", 0, 10000)
      /\ Removal(q, 5, 6) /\ q[5].on = Two /\ Keeps(q, 6, 9)
  BY InScenarioF, RemovalInF
<1> HIDE DEF q
<1>4. "F" \notin {"0", "D", "G"}
  OBVIOUS
<1>5. IsDue("F", q, 3) /\ IsDue("F", q, 4)
  BY <1>1, <1>4, SetupDue
<1>6. IsDue("F", q, 8)
  <2>1. Stay("F") = 5000 /\ Whole("F") = Two
    BY NamesDiffer DEF Stay, Whole
  <2>2. /\ After(q, 5, 6, 8)
        /\ \/ q[8].condition = "gone" /\ q[8].n \in q[5].on
           \/ q[8].condition = "count" /\ q[8].n = 0 /\ q[5].on = Whole("F")
    BY <1>3, <2>1 DEF IsAwait, After, Keeps
  <2>3. QED
    BY <1>3, <1>4, <2>1, <2>2, DepartsDue DEF IsAwait
<1>7. InTime("F", q)
  BY <1>1, <1>2, <1>5, <1>6 DEF InTime
<1>8. QED
  BY <1>7 DEF q

LEMMA InTimeH == InTime("H", ScenarioH)
<1> DEFINE q == ScenarioH
<1>1. /\ IsCall(q[1], "start", Two) /\ IsCall(q[2], "add", Two)
      /\ IsAwait(q[3], "healthy", 1, 10000) /\ IsAwait(q[4], "healthy", 2, 10000)
      /\ Len(q) = 11
  BY InScenarioH
<1>2. \A i \in 1..11 : q[i].op = "wait" /\ q[i].must => i \in {3, 4, 7, 8, 10}
  BY InScenarioH DEF IsCall, IsAwait, IsTry, IsSleep, IsMark, IsBound, IsSample, IsStrictSample
<1>3. /\ IsAwait(q[7], "flag", 1, 5000)
      /\ IsAwait(q[8], "flag", 2, 5000)
      /\ IsAwait(q[10], "count", 0, 10000)
      /\ Removal(q, 6, 7) /\ q[6].on = Two /\ Keeps(q, 7, 12)
  BY InScenarioH, RemovalInH
<1> HIDE DEF q
<1>4. "H" \notin {"0", "D", "G"}
  OBVIOUS
<1>5. IsDue("H", q, 3) /\ IsDue("H", q, 4)
  BY <1>1, <1>4, SetupDue
<1>6. IsDue("H", q, 7)
  <2>1. Polled(q, 6, 7) /\ IsPoll(q[7], q[6].on) /\ After(q, 6, 7, 7)
    BY <1>3 DEF Polled, IsPoll, IsAwait, Two, After, Keeps
  <2>2. QED
    BY <1>3, <1>4, <2>1, PendsDue DEF IsAwait
<1>7. IsDue("H", q, 8)
  <2>1. Polled(q, 6, 8) /\ IsPoll(q[8], q[6].on) /\ After(q, 6, 7, 8)
    BY <1>3 DEF Polled, IsPoll, IsAwait, Two, After, Keeps
  <2>2. QED
    BY <1>3, <1>4, <2>1, PendsDue DEF IsAwait
<1>8. IsDue("H", q, 10)
  <2>1. Stay("H") = 5000 /\ Whole("H") = Two
    BY NamesDiffer DEF Stay, Whole
  <2>2. /\ After(q, 6, 7, 10)
        /\ \/ q[10].condition = "gone" /\ q[10].n \in q[6].on
           \/ q[10].condition = "count" /\ q[10].n = 0 /\ q[6].on = Whole("H")
    BY <1>3, <2>1 DEF IsAwait, After, Keeps
  <2>3. QED
    BY <1>3, <1>4, <2>1, <2>2, DepartsDue DEF IsAwait
<1>9. InTime("H", q)
  BY <1>1, <1>2, <1>5, <1>6, <1>7, <1>8 DEF InTime
<1>10. QED
  BY <1>9 DEF q

LEMMA InTimeA == InTime("A", ScenarioA)
<1> DEFINE q == ScenarioA
<1>1. /\ IsCall(q[1], "start", Two) /\ IsCall(q[2], "add", Two)
      /\ IsAwait(q[3], "healthy", 1, 10000) /\ IsAwait(q[4], "healthy", 2, 10000)
      /\ IsAwait(q[10], "present", 1, 10000) /\ IsAwait(q[11], "present", 2, 10000)
      /\ Len(q) = 13
  BY InScenarioA
<1>2. \A i \in 1..13 : q[i].op = "wait" /\ q[i].must => i \in {3, 4, 10, 11}
  BY InScenarioA DEF IsCall, IsAwait, IsTry, IsSleep, IsSample
<1> HIDE DEF q
<1>3. IsDue("A", q, 3) /\ IsDue("A", q, 4)
  BY <1>1, SetupDue
<1>4. \A i \in 10..11 : Due("A", q, i, 0)
  BY DEF Due, Readding, AddAt, SleepAt
<1>5. IsDue("A", q, 10) /\ IsDue("A", q, 11)
  BY <1>1, <1>4 DEF IsDue, IsAwait
<1>6. InTime("A", q)
  BY <1>1, <1>2, <1>3, <1>5 DEF InTime
<1>7. QED
  BY <1>6 DEF q

LEMMA InTimeD == InTime("D", ScenarioD)
<1> DEFINE q == ScenarioD
<1>1. /\ q[1].op = "start" /\ q[1].on = Two /\ q[2].op = "config" /\ q[3].op = "add"
      /\ q[3].on = Two /\ IsAwait(q[4], "healthy", 1, 10000) /\ IsAwait(q[5], "healthy", 2, 10000)
      /\ IsAwait(q[8], "count", 0, 5000) /\ Len(q) = 9
  BY InScenarioD DEF IsCall, IsConfig
<1>2. \A i \in 1..9 : q[i].op = "wait" /\ q[i].must => i \in {4, 5, 8}
  BY InScenarioD DEF IsCall, IsAwait, IsConfig, IsMark, IsBound
<1>3. Removal(q, 6, 8) /\ q[6].on = Two /\ Keeps(q, 7, 10)
  BY RemovalInD
<1> HIDE DEF q
<1>4. ConfirmedAt(q, 4, 1) /\ ConfirmedAt(q, 5, 2)
  <2>1. /\ Calls(q, 1, "start", 1) /\ Calls(q, 1, "start", 2)
        /\ Calls(q, 3, "add", 1) /\ Calls(q, 3, "add", 2)
        /\ Confirms(q, 4, 1) /\ Confirms(q, 5, 2)
        /\ \A k \in 1..5 : q[k].op \notin {"stop", "remove"}
    BY <1>1 DEF IsAwait, Calls, Confirms, Two
  <2>2. QED
    BY <2>1, ConfirmedBy
<1>5. Appears("D", q, 4) /\ Appears("D", q, 5)
  BY <1>1, <1>4, SomeHosts DEF Appears, IsAwait
<1>6. IsDue("D", q, 4) /\ IsDue("D", q, 5)
  BY <1>1, <1>5, AppearsDue DEF IsAwait
<1>7. IsDue("D", q, 8)
  <2>1. Stay("D") = 500 /\ Whole("D") = Two /\ "D" # "0"
    BY NamesDiffer DEF Stay, Whole
  <2>2. /\ After(q, 6, 8, 8)
        /\ q[8].condition = "count" /\ q[8].n = 0 /\ q[6].on = Whole("D")
    BY <1>1, <1>3, <2>1 DEF IsAwait, After, Keeps
  <2>3. QED
    BY <1>1, <2>1, <2>2, DepartsDue DEF IsAwait
<1>8. InTime("D", q)
  BY <1>1, <1>2, <1>6, <1>7 DEF InTime
<1>9. QED
  BY <1>8 DEF q

LEMMA InTimeG == InTime("G", ScenarioG)
<1> DEFINE q == ScenarioG
<1>1. /\ q[1].op = "start" /\ q[1].on = Two /\ q[2].op = "config" /\ q[3].op = "add"
      /\ q[3].on = Two /\ IsAwait(q[4], "count", 2, 10000) /\ IsAwait(q[7], "count", 0, 5000)
      /\ Len(q) = 8
  BY InScenarioG DEF IsCall, IsConfigNoHC
<1>2. \A i \in 1..8 : q[i].op = "wait" /\ q[i].must => i \in {4, 7}
  BY InScenarioG DEF IsCall, IsAwait, IsConfigNoHC, IsMark, IsBound
<1>3. Removal(q, 5, 7) /\ q[5].on = Two /\ Keeps(q, 6, 9)
  BY RemovalInG
<1> HIDE DEF q
<1>4. ASSUME NEW h \in Two
      PROVE  ConfirmedAt(q, 4, h)
  <2>1. /\ Calls(q, 1, "start", h) /\ Calls(q, 3, "add", h) /\ Confirms(q, 4, h)
        /\ \A k \in 1..3 : q[k].op \notin {"stop", "remove"}
    BY <1>1 DEF IsAwait, Calls, Confirms
  <2>2. QED
    BY <2>1, ConfirmedBy
<1>5. Appears("G", q, 4)
  BY <1>1, <1>4 DEF Appears, IsAwait
<1>6. IsDue("G", q, 4)
  BY <1>1, <1>5, AppearsDue DEF IsAwait
<1>7. IsDue("G", q, 7)
  <2>1. Stay("G") = 0 /\ Whole("G") = Two /\ "G" # "0"
    BY NamesDiffer DEF Stay, Whole
  <2>2. /\ After(q, 5, 7, 7)
        /\ q[7].condition = "count" /\ q[7].n = 0 /\ q[5].on = Whole("G")
    BY <1>1, <1>3, <2>1 DEF IsAwait, After, Keeps
  <2>3. QED
    BY <1>1, <2>1, <2>2, DepartsDue DEF IsAwait
<1>8. InTime("G", q)
  BY <1>1, <1>2, <1>6, <1>7 DEF InTime
<1>9. QED
  BY <1>8 DEF q

\* E waits for every host on its own, and in the end for all of them to go.
LEMMA InTimeE == InTime("E", ScenarioE)
<1> DEFINE q == ScenarioE
           N == NumHosts
<1>1. N \in Nat /\ N >= 2 /\ Hosts = 1..N
  BY EnvoyAssumption DEF Hosts
<1>2. /\ Len(q) = N + 4 /\ q[1].op = "start" /\ q[1].on = Hosts /\ q[2].op = "add"
      /\ q[2].on = Hosts /\ q[N + 3].op = "remove" /\ q[N + 3].on = Hosts
      /\ IsAwait(q[N + 4], "count", 0, 10000)
  BY InScenarioE, Fields, MadePolls
<1>3. \A i \in 3..N+2 : IsAwait(q[i], "healthy", i - 2, 15000)
  BY InScenarioE, MadePolls
<1> HIDE DEF q, N
<1>4. ASSUME NEW i \in 3..N+2
      PROVE  IsDue("E", q, i)
  <2>1. i - 2 \in Hosts /\ i \in Nat /\ 2 \in 2..i-1 /\ \A k \in 3..i-1 : k \in 3..N+2
    BY <1>1
  <2>2. \A k \in 1..i-1 : k = 1 \/ k = 2 \/ k \in 3..i-1
    BY <2>1
  <2>3. \A k \in 1..i-1 : q[k].op \notin {"stop", "remove"}
    BY <1>2, <1>3, <2>1, <2>2 DEF IsAwait
  <2>4. Calls(q, 1, "start", i - 2) /\ Calls(q, 2, "add", i - 2) /\ Confirms(q, i, i - 2)
    BY <1>2, <1>3, <2>1 DEF Calls, Confirms, IsAwait
  <2>5. ConfirmedAt(q, i, i - 2)
    BY <2>1, <2>3, <2>4, ConfirmedBy
  <2>6. Appears("E", q, i)
    BY <1>3, <2>1, <2>5 DEF Appears, IsAwait
  <2>7. QED
    BY <1>3, <2>6, AppearsDue DEF IsAwait
<1>5. IsDue("E", q, N + 4)
  <2>1. Removal(q, N + 3, N + 4)
    <3>1. \A h \in Hosts : Up(q, N + 3, h)
      BY UpInE DEF q, N
    <3>2. Hosts # {} /\ N + 3 \in 1..N+4 /\ N + 4 \in 1..N+4 /\ \A k \in (N+3)+1..(N+4)-1 : FALSE
      BY <1>1
    <3>3. QED
      BY <1>1, <1>2, <3>1, <3>2 DEF Removal, IsAwait
  <2>2. After(q, N + 3, N + 4, N + 4) /\ N + 3 \in Nat /\ N + 4 \in Nat
    <3>1. \A k \in (N+3)+1..(N+4)-1 : FALSE
      BY <1>1
    <3>2. QED
      BY <1>1, <2>1, <3>1 DEF After, Keeps
  <2>3. Stay("E") = 5000 /\ Whole("E") = Hosts /\ "E" # "0"
    BY NamesDiffer DEF Stay, Whole
  <2>4. /\ q[N + 4].condition = "count" /\ q[N + 4].n = 0 /\ q[N + 3].on = Whole("E")
        /\ q[N + 4].within = 10000
    BY <1>2, <2>3 DEF IsAwait
  <2>5. QED
    BY <2>2, <2>3, <2>4, DepartsDue
<1>6. \A i \in 1..N+4 : i = 1 \/ i = 2 \/ i \in 3..N+2 \/ i = N + 3 \/ i = N + 4
  BY <1>1
<1>7. InTime("E", q)
  BY <1>2, <1>4, <1>5, <1>6 DEF InTime
<1>8. QED
  BY <1>7 DEF q

LEMMA ScriptsInTime ==
  \A s \in {"0", "A", "B", "C", "D", "E", "F", "G", "H"} : InTime(s, Script(s))
BY Zenon, InTime0, InTimeA, InTimeB, InTimeC, InTimeD, InTimeE, InTimeF, InTimeG, InTimeH, ScriptOf

-----------------------------------------------------------------------------
(* Where an Envoy with the feature has applied what it is sent             *)

\* A host whose backend runs has been checked.
HealthyInv == kind = "fixed" /\ Running /\ answering /\ scenario # "G" =>
  \A h \in Hosts :
    /\ Started(Script(scenario), at, h) /\ Added(Script(scenario), at, h)
    /\ pushed = applied /\ waited > MaxLag
    => state[h] = "healthy"

\* A host that is named, and whose backend runs, passes the check of a tick.
LEMMA NamedTick ==
  ASSUME BaseInv, ListedInv, Running, EnvoyTick, kind = "fixed", scenario # "G",
         NEW h \in Hosts, h \in applied.endpoints, h \in backends
  PROVE  state'[h] = "healthy"
<1>0. ShapeInv /\ HostsInv /\ scenario \in Scenarios /\ state[h] \in States
  BY BaseParts, TableTypes
<1>1. state[h] \in {"new", "healthy", "failing"}
  BY <1>0 DEF ListedInv, HostsInv, IsPending, States
<1>2. applied.healthChecks
  BY <1>0, <1>1, ServedNow, Timeouts DEF Listed
<1>3. Checked(h) = "healthy"
  BY <1>1, <1>2 DEF Checked
<1>4. ~TimerFires(h)
  BY <1>1 DEF TimerFires, HasTimer
<1>5. QED
  BY <1>0, <1>3, <1>4, TickHost

LEMMA HealthyNext ==
  ASSUME BaseInv, CallsInv, LagInv, ListedInv, HealthyInv, [Next]_vars
  PROVE  HealthyInv'
<1> DEFINE q == Script(scenario)
<1> SUFFICES ASSUME Running', answering', kind' = "fixed", scenario' # "G", NEW h \in Hosts,
                    Started(q, at, h)', Added(q, at, h)', pushed' = applied', waited' > MaxLag
             PROVE  state'[h] = "healthy"
  BY DEF HealthyInv
<1>0. ShapeInv /\ HostsInv /\ MaxLag \in Nat /\ waited \in Nat /\ lag \in Nat /\ lag <= MaxLag
  BY BaseParts, TableTypes
<1>1. CASE Begins
  BY <1>0, <1>1 DEF Begins, Begin
<1>2. CASE Running /\ Advances
  BY <1>0, <1>2, AdvanceIs
<1>3. CASE Running /\ (Ticks \/ Applies \/ Breaks \/ UNCHANGED scenarioVars)
  <2>1. UNCHANGED <<scenario, at, kind, answering, pushed>>
    BY <1>3 DEF Ticks, EnvoyTick, Applies, Apply, Breaks, Reconnect, scenarioVars, bodyVars
  <2>2. Started(q, at, h) /\ Added(q, at, h) /\ h \in backends /\ h \in pushed.endpoints
    BY <1>3, <2>1 DEF CallsInv
  <2>3. pushed = applied /\ waited > MaxLag => state[h] = "healthy"
    BY <1>3, <2>1, <2>2 DEF HealthyInv
  <2>4. CASE Ticks
    <3>1. EnvoyTick /\ applied' = applied
      BY <2>1, <2>4 DEF Ticks, EnvoyTick
    <3>2. h \in applied.endpoints
      BY <2>1, <2>2, <3>1
    <3>3. QED
      BY <1>3, <2>1, <2>2, <3>1, <3>2, NamedTick
  <2>5. CASE Applies
    <3>1. pushed # applied /\ waited' = waited
      BY <2>5 DEF Applies, Apply, bodyVars
    <3>2. waited <= lag
      BY <1>3, <2>1, <3>1 DEF LagInv
    <3>3. QED
      BY <1>0, <3>1, <3>2
  <2>6. CASE Breaks
    BY <2>1, <2>3, <2>6 DEF Breaks, Reconnect, bodyVars
  <2>7. CASE UNCHANGED scenarioVars
    BY <2>1, <2>3, <2>7 DEF scenarioVars, envoyVars, bodyVars
  <2>8. QED
    BY <1>3, <2>4, <2>5, <2>6, <2>7
<1>4. CASE Dies
  BY <1>4 DEF Dies
<1>5. QED
  BY <1>1, <1>2, <1>3, <1>4, RunningSteps

\* B stops the backend of a pending host, which then fails its check.
BInv == kind = "fixed" /\ Running /\ answering /\ scenario = "B" =>
  /\ at = 9 => 1 \notin backends /\ (waited = 0 \/ state[1] = "absent")
  /\ lost = 0 => /\ at = 9 => state[2] = "pending" /\ age[2] <= waited /\ waited <= 250
                 /\ at = 10 => state[2] = "pending"

LEMMA InB ==
  LET q == ScenarioB IN
  /\ After(q, 5, 6, 8) /\ After(q, 5, 6, 9) /\ After(q, 5, 6, 10) /\ q[5].on = Two
  /\ Polled(q, 5, 8) /\ q[8].op = "stop" /\ q[8].on = {1} /\ IsAwait(q[9], "gone", 1, 3000)
  /\ Started(q, 9, 2) /\ Len(q) = 10
<1> DEFINE q == ScenarioB
<1>1. /\ q[1].op = "start" /\ q[1].on = Two /\ q[2].op = "add" /\ q[3].op = "wait"
      /\ q[4].op = "wait" /\ q[5].op = "remove" /\ IsTry(q[6], "flag", 1, 5000)
      /\ IsTry(q[7], "flag", 2, 5000) /\ q[8].op = "stop" /\ q[8].on = {1}
      /\ IsAwait(q[9], "gone", 1, 3000) /\ Len(q) = 10
  BY InScenarioB DEF IsCall, IsAwait
<1>2. Removal(q, 5, 6) /\ q[5].on = Two /\ Keeps(q, 6, 11)
  BY RemovalInB
<1> HIDE DEF q
<1>3. After(q, 5, 6, 8) /\ After(q, 5, 6, 9) /\ After(q, 5, 6, 10)
  BY <1>2 DEF After, Keeps
<1>4. Polled(q, 5, 8)
  BY <1>1, <1>2 DEF Polled, IsPoll, IsTry, Two
<1>5. Started(q, 9, 2)
  <2>1. \A k \in 1..8 : q[k].op = "stop" => q[k].on = {1}
    BY <1>1 DEF IsTry
  <2>2. 1 \in 1..9-1 /\ Calls(q, 1, "start", 2)
    BY <1>1 DEF Calls, Two
  <2>3. \A k \in 1..9-1 : ~Calls(q, k, "stop", 2)
    BY <2>1 DEF Calls
  <2>4. QED
    BY <2>2, <2>3 DEF Started
<1>6. QED
  BY <1>1, <1>2, <1>3, <1>4, <1>5 DEF q

\* With the removal before p applied, its hosts are pending or gone.
LEMMA FixedGone ==
  ASSUME BaseInv, RemovalInv, Running, answering, kind = "fixed", NEW r \in Nat, NEW p \in Nat,
         After(Script(scenario), r, p, at),
         at > p \/ pushed = applied \/ waited > MaxLag
  PROVE  /\ pushed = applied /\ Script(scenario)[r].on \in SUBSET Hosts
         /\ \A h \in Script(scenario)[r].on : state[h] \in {"pending", "absent"}
<1> DEFINE S == Script(scenario)[r].on
<1>0. ShapeInv /\ HostsInv /\ at \in Nat /\ waited \in Nat /\ lag \in Nat /\ lag <= MaxLag
      /\ MaxLag \in Nat
  BY BaseParts, TableTypes
<1>1. S \in SUBSET Hosts
  BY <1>0, RemovalTypes DEF After
<1>2. Spared(scenario, r)
  BY DEF Spared
<1>3. (at <= p /\ Unapplied(S)) \/ Gone(S)
  BY <1>2, RemovalNow
<1>4. Gone(S)
  BY <1>0, <1>3 DEF Unapplied
<1>5. QED
  BY <1>0, <1>1, <1>4 DEF Gone, HostsInv

LEMMA GoneInB ==
  ASSUME BaseInv, RemovalInv, Running, answering, kind = "fixed", scenario = "B", at \in {8, 9, 10}
  PROVE  pushed = applied /\ \A h \in Two : state[h] \in {"pending", "absent"}
<1> DEFINE q == Script(scenario)
<1>1. q = ScenarioB
  BY ScriptOf
<1>2. After(q, 5, 6, at) /\ q[5].on = Two
  BY <1>1, InB
<1> HIDE DEF q
<1>3. at > 6 /\ 5 \in Nat /\ 6 \in Nat
  OBVIOUS
<1>4. QED
  BY <1>2, <1>3, FixedGone DEF q

LEMMA BNext ==
  ASSUME BaseInv, FaultsInv, CallsInv, RemovalInv, PromptInv, ListedInv, BInv, [Next]_vars
  PROVE  BInv'
<1> DEFINE q == Script(scenario)
<1> SUFFICES ASSUME Running', answering', kind' = "fixed", scenario' = "B"
             PROVE  /\ at' = 9 => 1 \notin backends' /\ (waited' = 0 \/ state'[1] = "absent")
                    /\ lost' = 0 =>
                         /\ at' = 9 => state'[2] = "pending" /\ age'[2] <= waited' /\ waited' <= 250
                         /\ at' = 10 => state'[2] = "pending"
  BY DEF BInv
<1>0. /\ ShapeInv /\ HostsInv /\ waited \in Nat /\ lost \in Nat /\ 1 \in Hosts /\ 2 \in Hosts
      /\ age[2] \in Nat /\ 1 \in Two /\ 2 \in Two /\ at \in Nat
  BY BaseParts, TableTypes, SomeHosts DEF FaultsInv, Two
<1>1. CASE Begins
  BY <1>1 DEF Begins, Begin
<1>2. CASE Running /\ Advances
  <2>1. /\ waited' = 0 /\ age' = age /\ at' = at + 1 /\ Instruction = q[at]
        /\ state' = state /\ answering' = answering /\ kind' = kind /\ scenario' = scenario
        /\ (lost' = lost \/ lost' = lost + 1)
        /\ backends' = IF q[at].op = "start" THEN backends \cup q[at].on
                       ELSE IF q[at].op = "stop" THEN backends \ q[at].on ELSE backends
    BY <1>2, AdvanceIs
  <2>2. q = ScenarioB
    BY <2>1, ScriptOf
  <2>3. After(q, 5, 6, 8) /\ q[5].on = Two /\ Polled(q, 5, 8) /\ q[8].op = "stop" /\ q[8].on = {1}
        /\ Len(q) = 10
    BY <2>2, InB
  <2> HIDE DEF q
  <2>4. lost' = 0 => lost = 0
    BY <1>0, <2>1
  <2>5. at' = 9 => 1 \notin backends'
    BY <1>0, <2>1, <2>3
  <2>6. ASSUME at = 8, lost = 0
        PROVE  state[2] = "pending" /\ age[2] <= 0
    <3>1. kind \in Settling /\ scenario \notin {"D", "G"}
      BY <2>1 DEF Settling
    <3>2. IsBrief(q[8], q[5].on, TimeoutOf(scenario, 8)) /\ Slept(q[8]) = 0
      BY <2>3 DEF IsBrief, Slept
    <3>3. Prompt(2, 0)
      <4>1. \A r, p \in Nat : After(q, r, p, 8) =>
              \A h \in q[r].on : Polled(q, r, 8) /\ IsBrief(q[8], q[r].on, TimeoutOf(scenario, 8)) =>
                Prompt(h, Slept(q[8]))
        BY <1>2, <2>1, <2>3, <2>6, <3>1 DEF PromptInv, q
      <4>2. 5 \in Nat /\ 6 \in Nat
        OBVIOUS
      <4>3. QED
        BY <1>0, <2>3, <3>2, <4>1, <4>2
    <3>4. state[2] \in {"pending", "absent"}
      BY <1>0, <1>2, <2>1, <2>6, GoneInB
    <3>5. QED
      BY <2>6, <3>3, <3>4 DEF Prompt
  <2>7. ASSUME at = 9, lost = 0
        PROVE  state[2] = "pending"
    BY <1>2, <2>1, <2>7 DEF BInv
  <2>8. QED
    BY <1>0, <2>1, <2>4, <2>5, <2>6, <2>7
<1>3. CASE Running /\ (Ticks \/ Applies \/ Breaks \/ UNCHANGED scenarioVars)
  <2>1. UNCHANGED <<scenario, at, kind, answering, pushed, backends>>
    BY <1>3 DEF Ticks, EnvoyTick, Applies, Apply, Breaks, Reconnect, scenarioVars, bodyVars
  <2>2. /\ at = 9 => 1 \notin backends /\ (waited = 0 \/ state[1] = "absent")
        /\ lost = 0 => /\ at = 9 => state[2] = "pending" /\ age[2] <= waited /\ waited <= 250
                       /\ at = 10 => state[2] = "pending"
    BY <1>3, <2>1 DEF BInv
  <2>3. at \in {9, 10} => pushed = applied /\ \A h \in Two : state[h] \in {"pending", "absent"}
    BY <1>3, <2>1, GoneInB
  <2>4. CASE Ticks
    <3>1. EnvoyTick /\ waited' = waited + 250
          /\ IF Instruction.op = "wait" /\ Seen THEN lost' = lost + 1 ELSE lost' = lost
          /\ Instruction.op \in {"wait", "sleep"}
      BY <2>1, <2>4 DEF Ticks
    <3>2. q = ScenarioB /\ Instruction = q[at]
      BY <2>1, ScriptOf DEF Instruction
    <3>3. at # 10
      BY <3>1, <3>2, InScenarioB DEF IsSample
    <3>4. ASSUME at = 9
          PROVE  state'[1] = "absent"
      <4>1. CASE state[1] = "absent"
        BY <1>0, <3>1, <4>1, TickHost
      <4>2. CASE state[1] = "pending"
        <5>1. applied.healthChecks /\ 1 \notin backends
          BY <1>0, <2>1, <2>2, <3>4, <4>2 DEF ListedInv
        <5>2. Checked(1) = "absent"
          BY <2>1, <4>2, <5>1 DEF Checked
        <5>3. QED
          BY <1>0, <3>1, <5>2, TickHost
      <4>3. QED
        BY <1>0, <2>3, <3>4, <4>1, <4>2
    <3>5. ASSUME at = 9, lost' = 0
          PROVE  state'[2] = "pending" /\ age'[2] <= waited' /\ waited' <= 250
      <4>1. IsAwait(Instruction, "gone", 1, 3000) /\ Started(q, 9, 2)
        BY <3>2, <3>5, InB
      <4>2. ~Seen /\ lost = 0
        BY <1>0, <3>1, <3>5, <4>1 DEF IsAwait
      <4>3. state[1] # "absent"
        <5>1. CASE state[1] = "absent"
          <6>1. \A h \in {1} : state[h] = "absent"
            BY <5>1
          <6>2. Instruction.condition = "gone" /\ Instruction.n \in {1} /\ {1} \in SUBSET Hosts
            BY <1>0, <4>1 DEF IsAwait
          <6>3. Seen
            BY <1>0, <2>1, <6>1, <6>2, GoneSeen
          <6>4. QED
            BY <4>2, <6>3
        <5>2. QED
          BY <5>1
      <4>4. waited = 0
        BY <2>2, <3>5, <4>3
      <4>5. state[2] = "pending" /\ age[2] <= 0
        BY <2>2, <3>5, <4>2, <4>4
      <4>6. 2 \in backends
        BY <1>0, <1>3, <2>1, <3>5, <4>1 DEF CallsInv
      <4>7. applied.timeoutMs = 5000
        <5>1. applied.timeoutMs = TimeoutOf(scenario, at)
          BY <1>0, <1>3, <4>5, ServedNow DEF Listed
        <5>2. TimeoutOf("B", 9) = 5000
          BY NamesDiffer DEF TimeoutOf
        <5>3. QED
          BY <2>1, <3>5, <5>1, <5>2
      <4>8. kind \in Settling
        BY <2>1 DEF Settling
      <4>9. state'[2] = "pending" /\ age'[2] <= 250
        <5>1. 250 \in Nat /\ age[2] + 250 <= 250 /\ 250 < applied.timeoutMs
          BY <1>0, <4>5, <4>7
        <5>2. QED
          BY <1>0, <3>1, <4>5, <4>6, <4>8, <5>1, PromptTick
      <4>10. QED
        BY <3>1, <4>4, <4>9
    <3>6. QED
      BY <2>1, <2>2, <3>3, <3>4, <3>5
  <2>5. CASE Applies
    <3>1. pushed # applied
      BY <2>5 DEF Applies, Apply
    <3>2. QED
      BY <2>1, <2>3, <3>1
  <2>6. CASE Breaks
    BY <1>0, <2>1, <2>2, <2>6 DEF Breaks, Reconnect, bodyVars
  <2>7. CASE UNCHANGED scenarioVars
    BY <2>1, <2>2, <2>7 DEF scenarioVars, envoyVars, bodyVars, faultVars
  <2>8. QED
    BY <1>3, <2>4, <2>5, <2>6, <2>7
<1>4. CASE Dies
  BY <1>4 DEF Dies
<1>5. QED
  BY <1>1, <1>2, <1>3, <1>4, RunningSteps

-----------------------------------------------------------------------------
(* No poll of an Envoy with the feature is late                            *)

LEMMA AppearedSeen ==
  ASSUME BaseInv, LagInv, CallsInv, ListedInv, HealthyInv, Running, answering, kind = "fixed",
         at \in 1..Len(Script(scenario)), Script(scenario)[at].op = "wait",
         Appears(scenario, Script(scenario), at), waited > MaxLag
  PROVE  Seen
<1> DEFINE q == Script(scenario)
<1>0. /\ ShapeInv /\ ConfigInv /\ waited \in Nat /\ lag \in Nat /\ lag <= MaxLag /\ MaxLag \in Nat
      /\ state \in [Hosts -> States] /\ scenario \in Scenarios /\ main = "run" /\ Instruction = q[at]
  BY BaseParts, TableTypes DEF Running, Instruction
<1>1. pushed = applied
  BY <1>0 DEF LagInv
<1>2. ASSUME NEW h \in Hosts, ConfirmedAt(q, at, h)
      PROVE  /\ h \in Listed
             /\ scenario # "G" => state[h] = "healthy"
  <2>1. Started(q, at, h) /\ Added(q, at, h)
    BY <1>2 DEF ConfirmedAt
  <2>2. h \in applied.endpoints
    BY <1>1, <2>1 DEF CallsInv
  <2>3. QED
    BY <1>1, <2>1, <2>2 DEF ListedInv, Listed, HealthyInv
<1>3. CASE scenario # "G" /\ Instruction.condition = "healthy" /\ Instruction.n \in Hosts
           /\ ConfirmedAt(q, at, Instruction.n)
  <2>1. Instruction.n \in Listed /\ IsHealthyHost(Instruction.n)
    BY <1>2, <1>3 DEF IsHealthyHost
  <2>2. Sees("healthy", Instruction.n)
    BY <2>1, SeesWhat
  <2>3. Shows(GetClusterHosts, "healthy", Instruction.n)
    BY <1>0, <2>2, SeenIs DEF Conditions
  <2>4. QED
    BY <1>3, <2>3 DEF Seen
<1>4. CASE Instruction.condition = "count" /\ Instruction.n = 2 /\ \A h \in Two : ConfirmedAt(q, at, h)
  <2>1. Two \subseteq Listed
    BY <1>2, <1>4, SomeHosts
  <2>2. scenario = "G"
    BY <1>0, <1>4, TameScripts DEF Tame
  <2>3. Listed \subseteq Two
    BY <1>0, <2>2 DEF ConfigInv
  <2>4. Listed = Two
    BY <2>1, <2>3
  <2>5. Cardinality(Listed) = 2
    BY <2>4, TwoAreTwo
  <2>6. Sees("count", 2)
    BY <2>5, SeesWhat
  <2>7. Shows(GetClusterHosts, "count", 2)
    BY <1>0, <2>6, SeenIs DEF Conditions
  <2>8. QED
    BY <1>4, <2>7 DEF Seen
<1>5. QED
  BY <1>0, <1>3, <1>4 DEF Appears

LEMMA PendedSeen ==
  ASSUME BaseInv, RemovalInv, PromptInv, Running, answering, kind = "fixed",
         scenario \notin {"D", "G"}, at \in 1..Len(Script(scenario)),
         Pends(Script(scenario), at), waited > MaxLag
  PROVE  Seen
<1> DEFINE q == Script(scenario)
<1>0. ShapeInv /\ Instruction = q[at] /\ at <= Len(q)
  BY BaseParts, TableTypes DEF Instruction
<1>1. PICK r \in Nat, p \in Nat : After(q, r, p, at) /\ Polled(q, r, at) /\ IsPoll(q[at], q[r].on)
  BY DEF Pends
<1> HIDE DEF q
<1>2. q[r].on \in SUBSET Hosts /\ \A h \in q[r].on : state[h] \in {"pending", "absent"}
  BY <1>1, FixedGone DEF q
<1>3. IsBrief(q[at], q[r].on, TimeoutOf(scenario, at)) /\ Slept(q[at]) = 0
  BY <1>1 DEF IsBrief, IsPoll, Slept
<1>4. \A h \in q[r].on : Prompt(h, Slept(q[at]))
  BY <1>0, <1>1, <1>3 DEF PromptInv, Settling, q
<1>5. \A h \in q[r].on : state[h] = "pending"
  BY <1>2, <1>4 DEF Prompt
<1>6. QED
  BY <1>0, <1>1, <1>2, <1>5, PollSees

\* The timeout of a host that has been removed.
LEMMA StaysFor ==
  ASSUME BaseInv, ListedInv, Running, kind = "fixed", scenario # "0", at > 2,
         NEW h \in Hosts, state[h] = "pending"
  PROVE  scenario # "G" /\ Timeout = Stay(scenario) /\ Stay(scenario) \in Nat \ {0}
<1>0. scenario \in Scenarios
  BY BaseParts, TableTypes
<1>1. applied.healthChecks /\ applied.timeoutMs = TimeoutOf(scenario, at)
      /\ (applied.healthChecks <=> ChecksOf(scenario, at))
  BY ServedNow DEF ListedInv, Listed
<1>2. scenario # "G"
  BY <1>1 DEF ChecksOf
<1>3. TimeoutOf(scenario, at) = Stay(scenario) /\ Stay(scenario) \in {500, 3000, 5000}
  BY <1>2, NamesDiffer DEF TimeoutOf, Stay
<1>4. QED
  BY <1>1, <1>2, <1>3 DEF Timeout

LEMMA DepartedSeen ==
  ASSUME BaseInv, RemovalInv, LateInv, ListedInv, Running, answering, kind = "fixed",
         scenario # "0", at \in 1..Len(Script(scenario)),
         Departs(Script(scenario), at, Whole(scenario)), waited > MaxLag + Stay(scenario),
         Stay(scenario) \in Nat
  PROVE  Seen
<1> DEFINE q == Script(scenario)
<1>0. /\ ShapeInv /\ HostsInv /\ ConfigInv /\ Instruction = q[at] /\ MaxLag \in Nat /\ waited \in Nat
      /\ main = "run" /\ scenario \in Scenarios
  BY BaseParts, TableTypes DEF Instruction, Running
<1>1. PICK r \in Nat, p \in Nat :
        /\ After(q, r, p, at)
        /\ \/ q[at].condition = "gone" /\ q[at].n \in q[r].on
           \/ q[at].condition = "count" /\ q[at].n = 0 /\ q[r].on = Whole(scenario)
  BY DEF Departs
<1>2. waited > MaxLag
  BY <1>0
<1>3. at > 2
  <2>1. r \in 1..Len(q) /\ q[r].op = "remove" /\ r < at
    BY <1>1 DEF After, Removal
  <2>2. q[1].op = "start"
    BY <1>0, TameScripts DEF Tame
  <2>3. QED
    BY <2>1, <2>2
<1> HIDE DEF q
<1>4. q[r].on \in SUBSET Hosts /\ \A h \in q[r].on : state[h] \in {"pending", "absent"}
  BY <1>1, <1>2, FixedGone DEF q
<1>5. ASSUME NEW h \in q[r].on
      PROVE  state[h] = "absent"
  <2>1. CASE state[h] = "pending"
    <3>1. h \in Hosts /\ age[h] \in Nat
      BY <1>0, <1>4, TableTypes
    <3>2. Timeout = Stay(scenario) /\ Stay(scenario) \in Nat \ {0}
      BY <1>3, <2>1, <3>1, StaysFor
    <3>3. age[h] <= Stay(scenario)
      BY <1>0, <3>1, <3>2 DEF HostsInv
    <3>4. waited <= age[h] + MaxLag
      BY <1>1, <2>1 DEF LateInv, Settling, q
    <3>5. QED
      BY <1>0, <3>1, <3>2, <3>3, <3>4
  <2>2. QED
    BY <1>4, <2>1
<1>6. CASE q[at].condition = "gone" /\ q[at].n \in q[r].on
  BY <1>0, <1>4, <1>5, <1>6, GoneSeen
<1>7. CASE q[at].condition = "count" /\ q[at].n = 0 /\ q[r].on = Whole(scenario)
  <2>1. Listed \subseteq q[r].on
    BY <1>0, <1>7 DEF Whole, ConfigInv, Listed
  <2>2. QED
    BY <1>0, <1>4, <1>5, <1>7, <2>1, GoneSeen
<1>8. QED
  BY <1>1, <1>6, <1>7

LEMMA ReturnedSeen ==
  ASSUME BaseInv, LagInv, FaultsInv, ReturnInv, Running, answering, kind = "fixed",
         scenario \in Readding, at \in AddAt(scenario)+1..SleepAt(scenario)-1, waited > MaxLag
  PROVE  Seen
<1> DEFINE q == Script(scenario)
           S == Again(scenario)
<1>0. /\ ShapeInv /\ Instruction = q[at] /\ MaxLag \in Nat /\ waited \in Nat /\ lag \in Nat
      /\ lag <= MaxLag /\ state \in [Hosts -> States]
  BY BaseParts, TableTypes DEF Instruction
<1>1. IsPresent(Instruction, S) /\ S \in SUBSET Hosts
  BY <1>0, ReadsBackIs DEF ReadsBack
<1>2. Returning(S, Pause(scenario))
  BY DEF ReturnInv, Settling
<1>3. pushed = applied
  BY <1>0 DEF LagInv
<1>4. \A h \in S : state[h] = "healthy"
  BY <1>2, <1>3 DEF Returning, Back
<1> HIDE DEF S
<1>5. Instruction.n \in Listed /\ ~IsPending(Instruction.n)
  BY <1>1, <1>4 DEF IsPresent, Listed, IsPending
<1>6. Sees("present", Instruction.n)
  BY <1>5, SeesWhat
<1>7. Shows(GetClusterHosts, "present", Instruction.n)
  BY <1>0, <1>6, SeenIs DEF Conditions
<1>8. QED
  BY <1>1, <1>7 DEF Seen, IsPresent

LEMMA StoppedSeen ==
  ASSUME BaseInv, BInv, Running, answering, kind = "fixed", scenario = "B", at = 9, waited > 0
  PROVE  Seen
<1>0. Script(scenario) = ScenarioB
  BY ScriptOf
<1>1. IsAwait(Instruction, "gone", 1, 3000)
  BY <1>0, InB DEF Instruction
<1>2. state[1] = "absent" /\ 1 \in Hosts
  BY SomeHosts DEF BInv
<1>3. \A h \in {1} : state[h] = "absent"
  BY <1>2
<1>4. Instruction.condition = "gone" /\ Instruction.n \in {1} /\ {1} \in SUBSET Hosts /\ ShapeInv
  BY <1>1, <1>2, BaseParts DEF IsAwait
<1>5. QED
  BY <1>3, <1>4, GoneSeen

\* What a poll waits for is seen when it is due, but for the delay of a push.
LEMMA DueSeen ==
  ASSUME BaseInv, FaultsInv, CallsInv, RemovalInv, LateInv, PromptInv, ReturnInv,
         LagInv, ListedInv, HealthyInv, BInv, Running, answering, kind = "fixed",
         at \in 1..Len(Script(scenario)), Script(scenario)[at].op = "wait",
         NEW ms \in Nat, Due(scenario, Script(scenario), at, ms), waited > MaxLag + ms
  PROVE  Seen
<1> DEFINE q == Script(scenario)
<1>0. MaxLag \in Nat /\ waited \in Nat
  BY BaseParts, TableTypes
<1>1. waited > MaxLag /\ waited > 0
  BY <1>0
<1>2. CASE Appears(scenario, q, at)
  BY <1>1, <1>2, AppearedSeen
<1>3. CASE scenario \notin {"D", "G"} /\ Pends(q, at)
  BY <1>1, <1>3, PendedSeen
<1>4. CASE ms = Stay(scenario) /\ scenario # "0" /\ Departs(q, at, Whole(scenario))
  BY <1>4, DepartedSeen
<1>5. CASE scenario \in Readding /\ at \in AddAt(scenario)+1..SleepAt(scenario)-1
  BY <1>1, <1>5, ReturnedSeen
<1>6. CASE scenario = "B" /\ at = 9
  BY <1>1, <1>6, StoppedSeen
<1>7. QED
  BY <1>2, <1>3, <1>4, <1>5, <1>6 DEF Due

\* A poll is over a tick after what it waits for is due, but for the delay of
\* a push and the calls that fail.
DelayInv == kind = "fixed" /\ Running /\ answering =>
  LET q == Script(scenario) IN
  at <= Len(q) /\ q[at].op = "wait" =>
    \A ms \in Nat : Due(scenario, q, at, ms) => waited <= MaxLag + ms + 250 + 250 * lost

LEMMA DelayNext ==
  ASSUME BaseInv, FaultsInv, CallsInv, RemovalInv, LateInv, PromptInv, ReturnInv,
         LagInv, ListedInv, HealthyInv, BInv, DelayInv, [Next]_vars
  PROVE  DelayInv'
<1> DEFINE q == Script(scenario)
           l == lost'
<1> SUFFICES ASSUME Running', answering', kind' = "fixed", at' <= Len(q'), q'[at'].op = "wait",
                    NEW ms \in Nat, Due(scenario', q', at', ms)
             PROVE  waited' <= MaxLag + ms + 250 + 250 * l
  BY DEF DelayInv
<1>0. ShapeInv /\ MaxLag \in Nat /\ waited \in Nat /\ at \in Nat \ {0} /\ lost \in Nat /\ Len(q) \in Nat
  BY BaseParts, TableTypes DEF FaultsInv
<1>1. l \in Nat
  BY FaultsNext DEF FaultsInv
<1>2. CASE Begins \/ (Running /\ Advances)
  <2>1. waited' = 0
    BY <1>2, AdvanceIs DEF Begins, Begin
  <2> HIDE DEF l
  <2>2. QED
    BY <1>0, <1>1, <2>1
<1>3. CASE Running /\ Ticks
  <2>1. /\ UNCHANGED <<scenario, at, answering>> /\ waited' = waited + 250 /\ kind' = kind
        /\ Instruction = q[at] /\ IF q[at].op = "wait" /\ Seen THEN l = lost + 1 ELSE l = lost
    BY <1>3 DEF Ticks, EnvoyTick, Instruction
  <2>2. Due(scenario, q, at, ms) /\ q[at].op = "wait" /\ at \in 1..Len(q)
    BY <1>0, <2>1
  <2>3. waited <= MaxLag + ms + 250 + 250 * lost
    BY <1>3, <2>1, <2>2 DEF DelayInv
  <2>4. waited > MaxLag + ms => Seen
    BY <1>3, <2>1, <2>2, DueSeen
  <2> HIDE DEF l, q
  <2>5. QED
    BY <1>0, <1>1, <2>1, <2>2, <2>3, <2>4
<1>4. CASE Running /\ (Applies \/ Breaks \/ UNCHANGED scenarioVars)
  <2>1. UNCHANGED <<scenario, at, kind, answering, waited, lost>>
    BY <1>4 DEF Applies, Apply, Breaks, Reconnect, scenarioVars, bodyVars, faultVars
  <2>2. QED
    BY <1>4, <2>1 DEF DelayInv
<1>5. CASE Dies
  BY <1>5 DEF Dies
<1>6. QED
  BY <1>2, <1>3, <1>4, <1>5, RunningSteps

-----------------------------------------------------------------------------
(* What an Envoy with the feature is measured to take                      *)

Bounding == {"D", "G"}
BoundedAt(s) == IF s = "D" THEN 8 ELSE 7

\* A script that removes its hosts at p - 2 and compares how long the poll at
\* p has taken with bounds on the time they stay.
Bounds(s, q, p) ==
  /\ p \in {7, 8} /\ Len(q) = p + 1 /\ After(q, p - 2, p, p) /\ q[p - 1].op = "mark"
  /\ q[p].op = "wait" /\ q[p].must /\ q[p].condition \in {"gone", "count"}
  /\ Due(s, q, p, Stay(s)) /\ Stay(s) \in Nat
  /\ q[p + 1].op = "bound" /\ q[p + 1].lo \in Nat /\ q[p + 1].hi \in Nat
  /\ q[p + 1].lo <= Stay(s) /\ Stay(s) + 1000 <= q[p + 1].hi

LEMMA BoundsIs ==
  ASSUME NEW s \in Bounding
  PROVE  Bounds(s, Script(s), BoundedAt(s))
<1>1. CASE s = "D"
  <2> DEFINE q == ScenarioD
  <2>1. /\ Len(q) = 9 /\ q[7].op = "mark" /\ IsAwait(q[8], "count", 0, 5000)
        /\ IsBound(q[9], 400, 3000)
    BY InScenarioD DEF IsMark
  <2>2. Removal(q, 6, 8) /\ q[6].on = Two /\ Keeps(q, 7, 10)
    BY RemovalInD
  <2>3. q = Script(s) /\ BoundedAt(s) = 8 /\ Stay(s) = 500 /\ Whole(s) = Two /\ s # "0"
    <3>1. q = Script(s)
      BY <1>1, ScriptOf
    <3>2. Stay(s) = 500 /\ Whole(s) = Two
      BY <1>1, NamesDiffer DEF Stay, Whole
    <3>3. BoundedAt(s) = 8 /\ s # "0"
      BY <1>1 DEF BoundedAt
    <3>4. QED
      BY <3>1, <3>2, <3>3
  <2> HIDE DEF q
  <2>4. After(q, 6, 8, 8)
    BY <2>2 DEF After, Keeps
  <2>5. Due(s, q, 8, Stay(s))
    BY <2>1, <2>2, <2>3, <2>4 DEF Due, Departs, IsAwait
  <2>6. Bounds(s, q, 8)
    BY <2>1, <2>3, <2>4, <2>5 DEF Bounds, IsAwait, IsBound
  <2>7. QED
    BY <2>3, <2>6
<1>2. CASE s = "G"
  <2> DEFINE q == ScenarioG
  <2>1. /\ Len(q) = 8 /\ q[6].op = "mark" /\ IsAwait(q[7], "count", 0, 5000)
        /\ IsBound(q[8], 0, 2000)
    BY InScenarioG DEF IsMark
  <2>2. Removal(q, 5, 7) /\ q[5].on = Two /\ Keeps(q, 6, 9)
    BY RemovalInG
  <2>3. q = Script(s) /\ BoundedAt(s) = 7 /\ Stay(s) = 0 /\ Whole(s) = Two /\ s # "0"
    <3>1. q = Script(s)
      BY <1>2, ScriptOf
    <3>2. Stay(s) = 0 /\ Whole(s) = Two
      BY <1>2, NamesDiffer DEF Stay, Whole
    <3>3. BoundedAt(s) = 7 /\ s # "0"
      BY <1>2 DEF BoundedAt
    <3>4. QED
      BY <3>1, <3>2, <3>3
  <2> HIDE DEF q
  <2>4. After(q, 5, 7, 7)
    BY <2>2 DEF After, Keeps
  <2>5. Due(s, q, 7, Stay(s))
    BY <2>1, <2>2, <2>3, <2>4 DEF Due, Departs, IsAwait
  <2>6. Bounds(s, q, 7)
    BY <2>1, <2>3, <2>4, <2>5 DEF Bounds, IsAwait, IsBound
  <2>7. QED
    BY <2>3, <2>6
<1>3. QED
  BY <1>1, <1>2 DEF Bounding

\* The hosts are not gone before their time.
LEMMA StayedFor ==
  ASSUME BaseInv, RemovalInv, SlowInv, Running, kind = "fixed", scenario \in Bounding,
         at = BoundedAt(scenario), Seen
  PROVE  waited >= Stay(scenario)
<1> DEFINE q == Script(scenario)
           p == BoundedAt(scenario)
           r == p - 2
           S == q[r].on
<1>0. /\ ShapeInv /\ ConfigInv /\ waited \in Nat /\ scenario \in Scenarios /\ main = "run"
      /\ answering /\ at = p
  BY BaseParts, TableTypes DEF Running, Seen
<1>1. Bounds(scenario, q, p)
  BY BoundsIs
<1>2. CASE scenario = "G"
  BY <1>0, <1>2, NamesDiffer DEF Stay
<1>3. CASE scenario # "G"
  <2>1. After(q, r, p, at) /\ r \in Nat /\ p \in Nat /\ Removal(q, r, p) /\ at > 2 /\ Instruction = q[p]
        /\ q[p].condition \in {"gone", "count"}
    BY <1>0, <1>1 DEF Bounds, After, Instruction
  <2>2. S \in SUBSET Hosts /\ S # {} /\ Spared(scenario, r)
    BY <1>0, <2>1, RemovalTypes DEF Spared
  <2>3. pushed = applied
    <3>1. Unapplied(S) \/ Gone(S)
      BY <1>0, <2>1, <2>2, RemovalNow
    <3>2. ~Unapplied(S)
      BY <1>0, <2>1, NotSeenYet DEF Unapplied
    <3>3. QED
      BY <3>1, <3>2 DEF Gone
  <2>4. \E h \in S : state[h] = "absent"
    <3>1. \/ q[p].condition = "gone" /\ q[p].n \in S
          \/ q[p].condition = "count" /\ q[p].n = 0
      BY <2>1 DEF Removal
    <3>2. CASE q[p].condition = "gone" /\ q[p].n \in S
      <4>1. Sees("gone", q[p].n)
        BY <1>0, <2>1, <3>2, SeenSees DEF Conditions
      <4>2. QED
        BY <2>2, <3>2, <4>1, SeesWhat DEF Listed
    <3>3. CASE q[p].condition = "count" /\ q[p].n = 0
      <4>1. Listed = {}
        BY <1>0, <2>1, <3>3, NoneCounted DEF Seen
      <4>2. QED
        BY <2>2, <4>1 DEF Listed
    <3>4. QED
      BY <3>1, <3>2, <3>3
  <2>5. waited >= Timeout
    <3>1. Slow
      BY <1>3 DEF Slow
    <3>2. \A h \in S : state[h] = "healthy" \/ (state[h] = "pending" /\ age[h] <= waited)
                        \/ waited >= Timeout
      BY <1>0, <2>1, <3>1 DEF SlowInv
    <3>3. QED
      BY <2>4, <3>2
  <2>6. Timeout = TimeoutOf(scenario, at)
    BY <1>0, <2>3 DEF Timeout, ConfigInv
  <2>7. TimeoutOf(scenario, at) = Stay(scenario)
    <3>1. scenario = "D"
      BY <1>3 DEF Bounding
    <3>2. QED
      BY <2>1, <3>1, NamesDiffer DEF TimeoutOf, Stay
  <2>8. QED
    BY <2>5, <2>6, <2>7
<1>4. QED
  BY <1>2, <1>3

BoundInv == kind = "fixed" /\ Running /\ scenario \in Bounding =>
  LET q == Script(scenario)
      p == BoundedAt(scenario)
  IN  /\ at = p => since = waited
      /\ at = p + 1 /\ lost <= 1 => q[p + 1].lo <= since /\ since <= q[p + 1].hi

LEMMA BoundNext ==
  ASSUME BaseInv, FaultsInv, RemovalInv, SlowInv, DelayInv, BoundInv, [Next]_vars
  PROVE  BoundInv'
<1> DEFINE q == Script(scenario)
           p == BoundedAt(scenario)
           l == lost'
<1> SUFFICES ASSUME Running', kind' = "fixed", scenario' \in Bounding
             PROVE  /\ at' = p' => since' = waited'
                    /\ at' = p' + 1 /\ l <= 1 => q'[p' + 1].lo <= since' /\ since' <= q'[p' + 1].hi
  BY DEF BoundInv
<1>0. ShapeInv /\ lost \in Nat /\ waited \in Nat /\ MaxLag \in Nat /\ at \in Nat \ {0}
      /\ p' \in {7, 8} /\ MaxLag < 400
  BY BaseParts, TableTypes, BoundsAssumption DEF FaultsInv, BoundedAt
<1>1. CASE Begins
  <2>1. at' = 1
    BY <1>1 DEF Begins, Begin
  <2>2. at' # p' /\ at' # p' + 1
    <3>1. p' = 7 \/ p' = 8
      BY DEF BoundedAt
    <3>2. QED
      BY <2>1, <3>1
  <2>3. QED
    BY <2>2
<1>2. CASE Running /\ scenario' = scenario /\ kind' = kind
  <2>0. scenario \in Bounding /\ p' = p /\ p \in {7, 8} /\ q' = q /\ kind = "fixed"
    BY <1>2 DEF BoundedAt
  <2>1. Bounds(scenario, q, p)
    BY <2>0, BoundsIs
  <2>2. /\ at = p => since = waited
        /\ at = p + 1 /\ lost <= 1 => q[p + 1].lo <= since /\ since <= q[p + 1].hi
    BY <1>2, <2>0 DEF BoundInv
  <2>3. /\ at = p => Instruction = q[p] /\ q[p].op = "wait" /\ q[p].must /\ at <= Len(q)
        /\ at = p + 1 => Instruction.op = "bound"
    BY <2>0, <2>1 DEF Bounds, Instruction
  <2>4. CASE Advances
    <3>1. /\ at' = at + 1 /\ waited' = 0 /\ (l = lost \/ l = lost + 1) /\ at \in 1..Len(q)
          /\ since' = IF q[at].op = "mark" THEN 0 ELSE since
      BY <2>4, AdvanceIs
    <3>2. at = p => Seen /\ answering
      BY <2>3, <2>4, AdvanceBy DEF Seen
    <3>3. at = p => waited >= Stay(scenario)
      BY <1>2, <2>0, <3>2, StayedFor
    <3>4. at = p => waited <= MaxLag + Stay(scenario) + 250 + 250 * lost
      BY <1>2, <2>0, <2>1, <2>3, <3>2 DEF DelayInv, Bounds
    <3> HIDE DEF q, p, l
    <3>5. at' = p => since' = waited'
      <4>1. at' = p => at = p - 1 /\ q[p - 1].op = "mark"
        BY <1>0, <2>1, <3>1 DEF Bounds
      <4>2. QED
        BY <3>1, <4>1
    <3>6. ASSUME at = p, l <= 1
          PROVE  q[p + 1].lo <= since' /\ since' <= q[p + 1].hi
      <4>1. since' = waited
        BY <2>2, <2>3, <3>1, <3>6
      <4>2. lost <= 1
        BY <1>0, <3>1, <3>6
      <4>3. /\ Stay(scenario) \in Nat /\ q[p + 1].lo \in Nat /\ q[p + 1].hi \in Nat
            /\ q[p + 1].lo <= Stay(scenario) /\ Stay(scenario) + 1000 <= q[p + 1].hi
        BY <2>1 DEF Bounds
      <4>4. QED
        BY <1>0, <3>3, <3>4, <3>6, <4>1, <4>2, <4>3
    <3>7. at' = p + 1 => at = p
      BY <1>0, <2>0, <3>1
    <3>8. QED
      BY <2>0, <3>5, <3>6, <3>7
  <2>5. CASE Ticks
    <3>1. /\ at' = at /\ waited' = waited + 250 /\ Instruction.op \in {"wait", "sleep"}
          /\ since' = (IF since >= 0 THEN since + 250 ELSE since)
      BY <2>5 DEF Ticks
    <3>2. at # p + 1
      BY <2>3, <3>1
    <3> HIDE DEF q, p, l
    <3>3. QED
      BY <1>0, <2>0, <2>2, <3>1, <3>2
  <2>6. CASE Applies \/ Breaks \/ Dies \/ UNCHANGED scenarioVars
    <3>1. UNCHANGED <<at, waited, since>> /\ l = lost
      BY <2>6 DEF Applies, Breaks, Dies, scenarioVars, bodyVars, faultVars
    <3> HIDE DEF q, p, l
    <3>2. QED
      BY <2>0, <2>2, <3>1
  <2>7. QED
    BY <1>2, <2>4, <2>5, <2>6, RunningSteps, <1>1
<1>3. QED
  <2>1. Running /\ ~Begins => scenario' = scenario /\ kind' = kind
    BY RunningSteps, AdvanceIs
    DEF Ticks, EnvoyTick, Applies, Apply, Breaks, Reconnect, Dies, scenarioVars, bodyVars
  <2>2. QED
    BY <1>1, <1>2, <2>1, RunningSteps

-----------------------------------------------------------------------------
(* The samples                                                             *)

\* What a sample is to show is so.
Evident(i) == \A e \in i.expected : e[1] \in Conditions /\ Sees(e[1], e[2])

LEMMA EvidentHolds ==
  ASSUME ShapeInv, Evident(Instruction)
  PROVE  Satisfies(GetClusterHosts)
<1>1. ASSUME NEW e \in Instruction.expected
      PROVE  Shows(GetClusterHosts, e[1], e[2])
  <2>1. e[1] \in Conditions /\ Sees(e[1], e[2]) /\ state \in [Hosts -> States]
    BY TableTypes DEF Evident
  <2>2. QED
    BY <2>1, SeenIs
<1>2. QED
  BY <1>1 DEF Satisfies

LEMMA OneEvident ==
  ASSUME NEW i, NEW c \in Conditions, NEW n, IsSample(i, {<<c, n>>}), Sees(c, n)
  PROVE  Evident(i)
BY DEF IsSample, Evident

LEMMA AllEvident ==
  ASSUME NEW i, NEW c \in Conditions, IsSample(i, AllOf(c)) \/ IsStrictSample(i, AllOf(c)),
         Sees(c, 1), Sees(c, 2)
  PROVE  Evident(i)
<1>1. i.expected = {<<c, 1>>, <<c, 2>>}
  BY DEF IsSample, IsStrictSample, AllOf
<1>2. ASSUME NEW e \in i.expected
      PROVE  e[1] \in Conditions /\ Sees(e[1], e[2])
  <2>1. e = <<c, 1>> \/ e = <<c, 2>>
    BY <1>1
  <2>2. CASE e = <<c, 1>>
    <3>1. e[1] = c /\ e[2] = 1
      BY <2>2
    <3>2. QED
      BY <3>1
  <2>3. CASE e = <<c, 2>>
    <3>1. e[1] = c /\ e[2] = 2
      BY <2>3
    <3>2. QED
      BY <3>1
  <2>4. QED
    BY <2>1, <2>2, <2>3
<1>3. QED
  BY <1>2 DEF Evident

\* A host that is up is shown so.
LEMMA UpSeen ==
  ASSUME BaseInv, UpInv, Running, answering, kind = "fixed", NEW h \in Hosts,
         Up(Script(scenario), at, h)
  PROVE  state[h] = "healthy" /\ h \in Listed /\ Sees("present", h) /\ Sees("healthy", h)
<1>1. state[h] = "healthy"
  BY DEF UpInv, Spared
<1>2. h \in Listed /\ ~IsPending(h) /\ IsHealthyHost(h)
  BY <1>1 DEF Listed, IsPending, IsHealthyHost
<1>3. QED
  BY <1>1, <1>2, SeesWhat

\* A host that was removed a moment ago is shown as pending.
LEMMA PromptSeen ==
  ASSUME BaseInv, RemovalInv, PromptInv, Running, answering, kind = "fixed",
         scenario \notin {"D", "G"}, NEW r \in Nat, NEW p \in Nat,
         After(Script(scenario), r, p, at), at > p, at <= Len(Script(scenario)),
         Script(scenario)[at].op = "check",
         \/ Polled(Script(scenario), r, at)
         \/ /\ r < at - 1 /\ Polled(Script(scenario), r, at - 1)
            /\ IsShortSleep(Script(scenario)[at - 1], TimeoutOf(scenario, at)),
         NEW h \in Script(scenario)[r].on
  PROVE  Sees("flag", h)
<1> DEFINE q == Script(scenario)
<1>1. state[h] \in {"pending", "absent"} /\ h \in Hosts
  BY FixedGone
<1>2. IsBrief(q[at], q[r].on, TimeoutOf(scenario, at))
  BY DEF IsBrief
<1>3. kind \in Settling
  BY DEF Settling
<1> HIDE DEF q
<1>4. \E ms : Prompt(h, ms)
  BY <1>2, <1>3 DEF PromptInv, q
<1>5. state[h] = "pending"
  BY <1>1, <1>4 DEF Prompt
<1>6. h \in Listed /\ IsPending(h)
  BY <1>1, <1>5 DEF Listed, IsPending
<1>7. QED
  BY <1>6, SeesWhat

\* A body takes a sample, and nothing has failed.
Sampling(q) ==
  /\ Running /\ answering /\ kind = "fixed" /\ lost = 0 /\ Script(scenario) = q
  /\ at \in 1..Len(q) /\ q[at].op = "check"

SampledInv == BaseInv /\ RemovalInv /\ PromptInv /\ UpInv /\ ReturnInv /\ BInv

LEMMA SampleIn0 ==
  ASSUME SampledInv, Sampling(Scenario0), scenario = "0"
  PROVE  Evident(Scenario0[at])
<1> DEFINE q == Script(scenario)
<1>0. /\ BaseInv /\ RemovalInv /\ PromptInv /\ Running /\ answering /\ kind = "fixed"
      /\ q = Scenario0 /\ at \in 1..Len(q) /\ q[at].op = "check"
  BY DEF SampledInv, Sampling
<1>1. /\ Len(q) = 9 /\ IsAwait(q[6], "flag", 1, 5000) /\ IsAwait(q[7], "flag", 2, 5000)
      /\ IsSleep(q[8], 10000) /\ IsStrictSample(q[9], AllOf("flag"))
      /\ \A i \in 1..9 : q[i].op = "check" => i = 9
  BY <1>0, InScenario0 DEF IsCall, IsAwait, IsSleep
<1>2. Removal(q, 5, 6) /\ q[5].on = Two /\ Keeps(q, 6, 10)
  BY <1>0, RemovalIn0
<1>3. TimeoutOf(scenario, at) = 0
  BY DEF TimeoutOf
<1>4. scenario \notin {"D", "G"}
  OBVIOUS
<1> HIDE DEF q
<1>5. at = 9
  BY <1>0, <1>1
<1>6. After(q, 5, 6, at)
  BY <1>2, <1>5 DEF After, Keeps
<1>7. Polled(q, 5, at - 1) /\ IsShortSleep(q[at - 1], TimeoutOf(scenario, at))
  BY <1>1, <1>2, <1>3, <1>5 DEF Polled, IsPoll, IsAwait, IsShortSleep, IsSleep, Two
<1>8. \A h \in Two : Sees("flag", h)
  <2>1. 5 \in Nat /\ 6 \in Nat /\ at > 6 /\ 5 < at - 1 /\ at <= Len(q)
    BY <1>1, <1>5
  <2>2. QED
    BY <1>0, <1>2, <1>4, <1>6, <1>7, <2>1, PromptSeen DEF q
<1>9. Evident(q[9])
  BY <1>1, <1>8, AllEvident DEF Two, Conditions
<1>10. QED
  BY <1>0, <1>5, <1>9

LEMMA SampleInC ==
  ASSUME SampledInv, Sampling(ScenarioC)
  PROVE  Evident(ScenarioC[at])
<1> DEFINE q == Script(scenario)
<1>0. /\ BaseInv /\ UpInv /\ Running /\ answering /\ kind = "fixed"
      /\ q = ScenarioC /\ at \in 1..Len(q) /\ q[at].op = "check"
  BY DEF SampledInv, Sampling
<1>1. /\ Len(q) = 8 /\ IsSample(q[8], {<<"present", 2>>})
      /\ \A i \in 1..8 : q[i].op = "check" => i = 8
      /\ q[5].op = "remove" /\ q[5].on = {1} /\ q[6].op = "wait" /\ q[7].op = "wait"
  BY <1>0, InScenarioC DEF IsCall, IsAwait, IsTry
<1>2. /\ IsCall(q[1], "start", Two) /\ IsCall(q[2], "add", Two)
      /\ IsAwait(q[3], "healthy", 1, 10000) /\ IsAwait(q[4], "healthy", 2, 10000)
  BY <1>0, InScenarioC
<1> HIDE DEF q
<1>3. at = 8
  BY <1>0, <1>1
<1>4. Up(q, 8, 2)
  <2>1. \A k \in 5..8-1 : q[k].op # "config" /\ ~Calls(q, k, "stop", 2) /\ ~Calls(q, k, "remove", 2)
    BY <1>1 DEF Calls
  <2>2. 2 \in Two
    BY DEF Two
  <2>3. QED
    BY <1>2, <2>1, <2>2, UpFromSetup
<1>5. Sees("present", 2)
  BY <1>0, <1>3, <1>4, UpSeen, SomeHosts DEF q
<1>6. Evident(q[8])
  BY <1>1, <1>5, OneEvident DEF Conditions
<1>7. QED
  BY <1>0, <1>3, <1>6

LEMMA SampleInB ==
  ASSUME SampledInv, Sampling(ScenarioB), scenario = "B"
  PROVE  Evident(ScenarioB[at])
<1> DEFINE q == ScenarioB
<1>0. /\ BInv /\ Running /\ answering /\ kind = "fixed" /\ lost = 0
      /\ at \in 1..Len(q) /\ q[at].op = "check"
  BY DEF SampledInv, Sampling
<1>1. /\ Len(q) = 10 /\ IsSample(q[10], {<<"flag", 2>>})
      /\ \A i \in 1..10 : q[i].op = "check" => i = 10
  BY InScenarioB DEF IsCall, IsAwait, IsTry
<1> HIDE DEF q
<1>2. at = 10
  BY <1>0, <1>1
<1>3. state[2] = "pending"
  BY <1>0, <1>2 DEF BInv
<1>4. 2 \in Listed /\ IsPending(2)
  BY <1>3, SomeHosts DEF Listed, IsPending
<1>5. Sees("flag", 2)
  BY <1>4, SeesWhat
<1>6. Evident(q[10])
  BY <1>1, <1>5, OneEvident DEF Conditions
<1>7. QED
  BY <1>2, <1>6 DEF q

LEMMA ReadBack ==
  ASSUME ReturnInv, Running, answering, kind = "fixed", scenario \in Readding,
         at = SleepAt(scenario) + 1, NEW h \in Again(scenario)
  PROVE  state[h] = "healthy"
BY DEF ReturnInv, Settling, Left

LEMMA SampleInA ==
  ASSUME SampledInv, Sampling(ScenarioA), scenario = "A"
  PROVE  Evident(ScenarioA[at])
<1> DEFINE q == ScenarioA
<1>0. /\ ReturnInv /\ Running /\ answering /\ kind = "fixed"
      /\ at \in 1..Len(q) /\ q[at].op = "check"
  BY DEF SampledInv, Sampling
<1>1. /\ Len(q) = 13 /\ IsSample(q[13], AllOf("present"))
      /\ \A i \in 1..13 : q[i].op = "check" => i = 13
  BY InScenarioA DEF IsCall, IsAwait, IsTry, IsSleep
<1>2. SleepAt(scenario) = 12 /\ Again(scenario) = Two /\ scenario \in Readding
  BY DEF SleepAt, Again, Readding
<1> HIDE DEF q
<1>3. at = 13
  BY <1>0, <1>1
<1>4. \A h \in Two : state[h] = "healthy"
  BY <1>0, <1>2, <1>3, ReadBack
<1>5. \A h \in Two : h \in Listed /\ ~IsPending(h)
  BY <1>4, SomeHosts DEF Listed, IsPending
<1>6. Sees("present", 1) /\ Sees("present", 2)
  BY <1>5, SeesWhat DEF Two
<1>7. Evident(q[13])
  BY <1>1, <1>6, AllEvident DEF Conditions
<1>8. QED
  BY <1>3, <1>7 DEF q

LEMMA SampleInH ==
  ASSUME SampledInv, Sampling(ScenarioH), scenario = "H"
  PROVE  Evident(ScenarioH[at])
<1> DEFINE q == Script(scenario)
<1>0. /\ BaseInv /\ RemovalInv /\ PromptInv /\ UpInv /\ Running /\ answering /\ kind = "fixed"
      /\ q = ScenarioH /\ at \in 1..Len(q) /\ q[at].op = "check"
  BY DEF SampledInv, Sampling
<1>1. /\ Len(q) = 11 /\ IsCall(q[1], "start", Two) /\ IsCall(q[2], "add", Two)
      /\ IsAwait(q[3], "healthy", 1, 10000) /\ IsAwait(q[4], "healthy", 2, 10000)
      /\ IsSample(q[5], {<<"count", 2>>} \cup AllOf("healthy"))
      /\ IsAwait(q[7], "flag", 1, 5000) /\ IsAwait(q[8], "flag", 2, 5000)
      /\ IsSample(q[9], AllOf("flag")) /\ IsAwait(q[10], "count", 0, 10000)
      /\ IsSample(q[11], {<<"count", 0>>})
  BY <1>0, InScenarioH
<1>2. Removal(q, 6, 7) /\ q[6].on = Two /\ Keeps(q, 7, 12)
  BY <1>0, RemovalInH
<1>3. Ends(q, 6, 10)
  BY <1>0, EndsOfH
<1>4. scenario \notin {"D", "G"} /\ scenario # "E" /\ scenario \notin StressBodies
  BY NamesDiffer
<1> HIDE DEF q
<1>5. at = 5 \/ at = 9 \/ at = 11
  BY <1>0, <1>1, <1>2 DEF IsCall, IsAwait, Removal
<1>6. CASE at = 5
  <2>1. \A h \in Two : Up(q, 5, h)
    <3>1. \A k \in 5..5-1 : FALSE
      OBVIOUS
    <3>2. QED
      BY <1>1, <3>1, UpFromSetup
  <2>2. \A h \in Two : h \in Listed /\ Sees("healthy", h)
    BY <1>0, <1>6, <2>1, UpSeen, SomeHosts DEF q
  <2>3. Listed \subseteq Two
    BY <1>0, <1>4, BaseParts DEF ConfigInv, Running
  <2>4. Sees("count", 2)
    <3>1. Listed = Two
      BY <2>2, <2>3
    <3>2. Cardinality(Listed) = 2
      BY <3>1, TwoAreTwo
    <3>3. QED
      BY <3>2, SeesWhat
  <2>5. q[5].expected = {<<"count", 2>>, <<"healthy", 1>>, <<"healthy", 2>>}
    BY <1>1 DEF IsSample, AllOf
  <2>6. ASSUME NEW e \in q[5].expected
        PROVE  e[1] \in Conditions /\ Sees(e[1], e[2])
    <3>1. CASE e = <<"count", 2>>
      <4>1. e[1] = "count" /\ e[2] = 2
        BY <3>1
      <4>2. QED
        BY <2>4, <4>1 DEF Conditions
    <3>2. CASE e = <<"healthy", 1>>
      <4>1. e[1] = "healthy" /\ e[2] = 1
        BY <3>2
      <4>2. QED
        BY <2>2, <4>1 DEF Conditions, Two
    <3>3. CASE e = <<"healthy", 2>>
      <4>1. e[1] = "healthy" /\ e[2] = 2
        BY <3>3
      <4>2. QED
        BY <2>2, <4>1 DEF Conditions, Two
    <3>4. QED
      BY <2>5, <3>1, <3>2, <3>3
  <2>7. Evident(q[5])
    BY <2>6 DEF Evident
  <2>8. QED
    BY <1>0, <1>6, <2>7
<1>7. CASE at = 9
  <2>1. After(q, 6, 7, at)
    BY <1>2, <1>7 DEF After, Keeps
  <2>2. Polled(q, 6, at)
    BY <1>1, <1>2, <1>7 DEF Polled, IsPoll, IsAwait, Two
  <2>3. \A h \in Two : Sees("flag", h)
    <3>1. 6 \in Nat /\ 7 \in Nat /\ at > 7 /\ at <= Len(q)
      BY <1>1, <1>7
    <3>2. QED
      BY <1>0, <1>2, <1>4, <2>1, <2>2, <3>1, PromptSeen DEF q
  <2>4. Evident(q[9])
    BY <1>1, <2>3, AllEvident DEF Two, Conditions
  <2>5. QED
    BY <1>0, <1>7, <2>4
<1>8. CASE at = 11
  <2>1. ~InStress /\ verdict = "running" /\ EndsInv
    BY <1>0, <1>4, StressIs, BaseParts DEF Running
  <2>2. Listed = {}
    <3>1. at > 10 /\ 6 \in Nat /\ 10 \in Nat
      BY <1>8
    <3>2. QED
      BY <1>3, <2>1, <3>1 DEF EndsInv, q
  <2>3. Sees("count", 0)
    BY <2>2, SeesWhat, FS_EmptySet
  <2>4. Evident(q[11])
    BY <1>1, <2>3, OneEvident DEF Conditions
  <2>5. QED
    BY <1>0, <1>8, <2>4
<1>9. QED
  BY <1>5, <1>6, <1>7, <1>8

\* The scripts that sample nothing.
Forgiving == {"D", "E", "F", "G"}

LEMMA NoSamples ==
  ASSUME NEW s \in Forgiving, NEW i \in 1..Len(Script(s))
  PROVE  Script(s)[i].op # "check"
<1> DEFINE Unsampled(q) == \A k \in 1..Len(q) : q[k].op # "check"
<1>1. Unsampled(ScenarioD)
  BY InScenarioD DEF IsCall, IsConfig, IsAwait, IsMark, IsBound
<1>2. Unsampled(ScenarioE)
  <2> DEFINE q == ScenarioE
             N == NumHosts
  <2>1. /\ Len(q) = N + 4 /\ N \in Nat
        /\ q[1].op = "start" /\ q[2].op = "add" /\ q[N + 3].op = "remove" /\ q[N + 4].op = "wait"
    BY InScenarioE, Fields, WaitFields, EnvoyAssumption
  <2>2. \A k \in 3..N + 2 : q[k].op = "wait"
    BY InScenarioE, MadePolls DEF IsAwait
  <2> HIDE DEF q, N
  <2>3. \A k \in 1..N + 4 : k = 1 \/ k = 2 \/ k \in 3..N + 2 \/ k = N + 3 \/ k = N + 4
    BY <2>1
  <2>4. Unsampled(q)
    BY <2>1, <2>2, <2>3
  <2>5. QED
    BY <2>4 DEF q
<1>3. Unsampled(ScenarioF)
  BY InScenarioF DEF IsCall, IsAwait, IsTry
<1>4. Unsampled(ScenarioG)
  BY InScenarioG DEF IsCall, IsConfigNoHC, IsAwait, IsMark, IsBound
<1> HIDE DEF Unsampled
<1>5. Unsampled(Script(s))
  BY Zenon, <1>1, <1>2, <1>3, <1>4, ScriptOf DEF Forgiving
<1>6. QED
  BY <1>5 DEF Unsampled

\* What a sample is to show is there, where nothing has failed.
LEMMA SampleHolds ==
  ASSUME SampledInv, Running, scenario \notin StressBodies, answering, kind = "fixed", lost = 0,
         at \in 1..Len(Script(scenario)), Instruction.op = "check"
  PROVE  Satisfies(GetClusterHosts)
<1>0. BaseInv /\ ShapeInv /\ scenario \in Scenarios
  BY BaseParts, TableTypes DEF SampledInv
<1>1. Script(scenario)[at].op = "check" /\ Instruction = Script(scenario)[at]
  BY DEF Instruction
<1>2. Sampling(Script(scenario))
  BY <1>1 DEF Sampling
<1>3. scenario \notin Forgiving
  BY <1>1, NoSamples
<1> DEFINE Clear(q) == Evident(q[at])
<1> HIDE DEF Clear
<1>4. Clear(Script(scenario))
  <2>1. scenario \in {"0", "A", "B", "C", "H"}
    <3>1. scenario \in {"0", "A", "B", "C", "D", "E", "F", "G", "H"}
      BY <1>0, AllScenarioNames
    <3>2. scenario \notin {"D", "E", "F", "G"}
      BY Zenon, <1>3 DEF Forgiving
    <3>3. QED
      BY <3>1, <3>2
  <2>2. CASE scenario = "0"
    <3>1. Script(scenario) = Scenario0
      BY <2>2, ScriptOf
    <3>2. QED
      BY <1>2, <2>2, <3>1, SampleIn0 DEF Clear
  <2>3. CASE scenario = "A"
    <3>1. Script(scenario) = ScenarioA
      BY <2>3, ScriptOf
    <3>2. QED
      BY <1>2, <2>3, <3>1, SampleInA DEF Clear
  <2>4. CASE scenario = "B"
    <3>1. Script(scenario) = ScenarioB
      BY <2>4, ScriptOf
    <3>2. QED
      BY <1>2, <2>4, <3>1, SampleInB DEF Clear
  <2>5. CASE scenario = "C"
    <3>1. Script(scenario) = ScenarioC
      BY <2>5, ScriptOf
    <3>2. QED
      BY <1>2, <3>1, SampleInC DEF Clear
  <2>6. CASE scenario = "H"
    <3>1. Script(scenario) = ScenarioH
      BY <2>6, ScriptOf
    <3>2. QED
      BY <1>2, <2>6, <3>1, SampleInH DEF Clear
  <2>7. QED
    BY <2>1, <2>2, <2>3, <2>4, <2>5, <2>6
<1>5. Evident(Instruction)
  BY <1>1, <1>4 DEF Clear
<1>6. QED
  BY <1>0, <1>5, EvidentHolds

\* The time is compared once, in the scripts that measure it.
LEMMA OnlyBounds ==
  ASSUME NEW s \in Scenarios \ StressBodies, NEW i \in 1..Len(Script(s)), Script(s)[i].op = "bound"
  PROVE  s \in Bounding /\ i = BoundedAt(s) + 1
<1> DEFINE Unbounded(q) == \A k \in 1..Len(q) : q[k].op # "bound"
           OneBound(q, j) == \A k \in 1..Len(q) : q[k].op = "bound" => k = j
<1>1. Unbounded(Scenario0)
  BY InScenario0 DEF IsCall, IsAwait, IsSleep, IsStrictSample
<1>2. Unbounded(ScenarioA)
  BY InScenarioA DEF IsCall, IsAwait, IsTry, IsSleep, IsSample
<1>3. Unbounded(ScenarioB)
  BY InScenarioB DEF IsCall, IsAwait, IsTry, IsSample
<1>4. Unbounded(ScenarioC)
  BY InScenarioC DEF IsCall, IsAwait, IsTry, IsSample
<1>5. OneBound(ScenarioD, 9)
  BY InScenarioD DEF IsCall, IsConfig, IsAwait, IsMark
<1>6. Unbounded(ScenarioE)
  <2> DEFINE q == ScenarioE
             N == NumHosts
  <2>1. /\ Len(q) = N + 4 /\ N \in Nat
        /\ q[1].op = "start" /\ q[2].op = "add" /\ q[N + 3].op = "remove" /\ q[N + 4].op = "wait"
    BY InScenarioE, Fields, WaitFields, EnvoyAssumption
  <2>2. \A k \in 3..N + 2 : q[k].op = "wait"
    BY InScenarioE, MadePolls DEF IsAwait
  <2> HIDE DEF q, N
  <2>3. \A k \in 1..N + 4 : k = 1 \/ k = 2 \/ k \in 3..N + 2 \/ k = N + 3 \/ k = N + 4
    BY <2>1
  <2>4. Unbounded(q)
    BY <2>1, <2>2, <2>3
  <2>5. QED
    BY <2>4 DEF q
<1>7. Unbounded(ScenarioF)
  BY InScenarioF DEF IsCall, IsAwait, IsTry
<1>8. OneBound(ScenarioG, 8)
  BY InScenarioG DEF IsCall, IsConfigNoHC, IsAwait, IsMark
<1>9. Unbounded(ScenarioH)
  <2> DEFINE q == ScenarioH
  <2>1. /\ Len(q) = 11 /\ IsCall(q[1], "start", Two) /\ IsCall(q[2], "add", Two)
        /\ IsAwait(q[3], "healthy", 1, 10000) /\ IsAwait(q[4], "healthy", 2, 10000)
        /\ q[5].op = "check" /\ IsCall(q[6], "remove", Two) /\ IsAwait(q[7], "flag", 1, 5000)
        /\ IsAwait(q[8], "flag", 2, 5000) /\ q[9].op = "check"
        /\ IsAwait(q[10], "count", 0, 10000) /\ q[11].op = "check"
    BY InScenarioH DEF IsSample
  <2> HIDE DEF q
  <2>2. Unbounded(q)
    BY <2>1 DEF IsCall, IsAwait
  <2>3. QED
    BY <2>2 DEF q
<1>10. ~Unbounded(Script(s))
  OBVIOUS
<1>11. \A j : OneBound(Script(s), j) => i = j
  OBVIOUS
<1> HIDE DEF Unbounded, OneBound
<1>12. CASE s = "D"
  <2>1. i = 9
    BY <1>5, <1>11, <1>12, ScriptOf
  <2>2. BoundedAt(s) = 8 /\ s \in Bounding
    BY <1>12 DEF BoundedAt, Bounding
  <2>3. QED
    BY <2>1, <2>2
<1>13. CASE s = "G"
  <2>1. i = 8
    BY <1>8, <1>11, <1>13, ScriptOf
  <2>2. BoundedAt(s) = 7 /\ s \in Bounding
    BY <1>13 DEF BoundedAt, Bounding
  <2>3. QED
    BY <2>1, <2>2
<1>14. s \notin {"0", "A", "B", "C", "E", "F", "H"}
  <2>1. s \notin {"0", "A", "B"}
    BY Zenon, <1>1, <1>2, <1>3, <1>10, ScriptOf
  <2>2. s \notin {"C", "E", "F", "H"}
    BY Zenon, <1>4, <1>6, <1>7, <1>9, <1>10, ScriptOf
  <2>3. QED
    BY <2>1, <2>2
<1>15. s = "D" \/ s = "G"
  BY <1>14, AllScenarioNames
<1>16. QED
  BY <1>12, <1>13, <1>15

-----------------------------------------------------------------------------
(* The failures have their reasons                                         *)

\* Why a scenario may fail with an Envoy that has the feature.
Excuses(s) ==
  \/ crashes > 0 \/ lost > 1 \/ (lost > 0 /\ s \notin Forgiving)
  \/ s \in StressBodies \cup unstarted

FailInv == kind = "fixed" =>
  /\ main = "run" /\ verdict = "failed" => Excuses(scenario)
  /\ \A s \in failed : Excuses(s)

\* Every way of a body to fail.
LEMMA FailsFor ==
  ASSUME SampledInv, FaultsInv, AliveInv, DelayInv, BoundInv, main = "run", kind = "fixed", Fails,
         scenario \notin StressBodies \cup unstarted, lost' = lost \/ lost' = lost + 1, crashes = 0, lost' <= 1
  PROVE  lost' = 1 /\ scenario \notin Forgiving
<1> DEFINE q == Script(scenario)
<1>0. /\ BaseInv /\ ShapeInv /\ Running /\ at \in 1..Len(q) /\ scenario \in Scenarios
      /\ Instruction = q[at] /\ lost \in Nat /\ lost <= 1
      /\ MaxLag \in Nat /\ MaxLag < 400 /\ waited \in Nat
  <2>1. BaseInv /\ ShapeInv /\ InBody
    BY BaseParts DEF SampledInv, Fails
  <2>2. lost \in Nat /\ lost <= 1
    BY DEF FaultsInv
  <2>3. at \in 1..Len(q)
    BY <2>1, TableTypes DEF InBody
  <2>4. QED
    BY <2>1, <2>2, <2>3, TableTypes, BoundsAssumption DEF Running, Backed, InBody, Instruction
<1>1. answering
  BY <1>0, Answers
<1>2. Instruction = q[at]
  BY <1>0
<1> HIDE DEF q
<1>3. ~(Instruction.op = "wait" /\ waited >= Instruction.within /\ Instruction.must)
  <2> SUFFICES ASSUME q[at].op = "wait", waited >= q[at].within, q[at].must
               PROVE  FALSE
    BY <1>2
  <2>1. IsDue(scenario, q, at)
    BY <1>0, ScriptsInTime, AllScenarioNames DEF InTime, q
  <2>2. PICK ms \in Nat : Due(scenario, q, at, ms) /\ ms + 1000 <= q[at].within
    BY <2>1 DEF IsDue
  <2>3. waited <= MaxLag + ms + 250 + 250 * lost
    BY <1>0, <1>1, <2>2 DEF DelayInv, q
  <2>4. q[at].within \in Nat
    <3>1. q[at] \in Instructions
      BY <1>0, TableTypes DEF q
    <3>2. q[at].within \in Deadlines
      BY <3>1, InstructionFields
    <3>3. QED
      BY <3>2, WholeTicks
  <2>5. QED
    BY <1>0, <2>2, <2>3, <2>4
<1>4. ~(Instruction.op = "bound" /\ ~(Instruction.lo <= since /\ since <= Instruction.hi))
  <2> SUFFICES ASSUME q[at].op = "bound"
               PROVE  q[at].lo <= since /\ since <= q[at].hi
    BY <1>2
  <2>1. scenario \in Bounding /\ at = BoundedAt(scenario) + 1
    BY <1>0, OnlyBounds DEF q
  <2>2. QED
    BY <1>0, <2>1 DEF BoundInv, q
<1>5. /\ Instruction.op = "check"
      /\ (lost' = lost /\ ~Satisfies(GetClusterHosts)) \/ lost' = lost + 1
  BY <1>1, <1>3, <1>4 DEF Fails
<1>6. scenario \notin Forgiving
  BY <1>0, <1>5, NoSamples DEF q
<1>7. lost = 0 => lost' = lost + 1
  BY <1>0, <1>1, <1>5, SampleHolds DEF q
<1>8. QED
  BY <1>0, <1>6, <1>7

\* What fails is not undone, and Envoy stays of its kind.
LEMMA FaultsGrow ==
  ASSUME FaultsInv, [Next]_vars
  PROVE  /\ kind' = kind /\ lost' \in Nat /\ crashes' \in Nat
         /\ lost' >= lost /\ crashes' >= crashes
<1> USE DEF processVars, reportVars
<1>0. lost \in Nat /\ crashes \in Nat
  BY DEF FaultsInv
<1>1. CASE UNCHANGED <<kind, faultVars>>
  BY <1>0, <1>1 DEF faultVars
<1>2. CASE main = "run" /\ BodyStep
  BY <1>0, <1>2, BodyStepIs DEF Advances, Returns, Misses, StartFails
<1>3. CASE Passage
  BY <1>0, <1>3 DEF Passage, Tick, EnvoyTick
<1>4. CASE EnvoyCrashes
  BY <1>0, <1>4 DEF EnvoyCrashes, EmptyTable
<1>5. CASE StreamBreaks
  BY <1>0, <1>5 DEF StreamBreaks, Reconnect
<1>6. CASE MainStep /\ ~(main = "run" /\ BodyStep)
  <2>1. CASE StopEnvoy
    BY <1>1, <2>1 DEF StopEnvoy, EmptyTable
  <2>2. CASE ~StopEnvoy
    BY <1>1, <1>6, <2>2 DEF MainStep, StartServer, UnknownProfile, StartEnvoy, EnvoyIsReady,
       EnvoyIsNotReady, NextBody, Finish, StopServer, Exit, EndProcess, scenarioVars
  <2>3. QED
    BY <2>1, <2>2
<1>7. CASE SetupFails \/ CallHangs \/ Exited \/ UNCHANGED vars
  BY <1>1, <1>7 DEF SetupFails, EndProcess, CallHangs, Exited, vars, scenarioVars
<1>8. CASE EnvoyStep
  BY <1>1, <1>8 DEF EnvoyStep, EnvoyBecomesReady, OrphanBecomesReady, EmptyTable, EnvoyApplies,
     Apply
<1>9. QED
  BY <1>2, <1>3, <1>4, <1>5, <1>6, <1>7, <1>8 DEF Next

\* An excuse remains.
LEMMA ExcusesStay ==
  ASSUME FaultsInv, [Next]_vars, NEW s, Excuses(s)
  PROVE  \/ crashes' > 0 \/ lost' > 1 \/ (lost' > 0 /\ s \notin Forgiving)
         \/ s \in StressBodies \cup unstarted'
<1>1. /\ lost \in Nat /\ crashes \in Nat /\ lost' \in Nat /\ crashes' \in Nat
      /\ lost' >= lost /\ crashes' >= crashes
  BY FaultsGrow DEF FaultsInv
<1>2. unstarted \subseteq unstarted'
  BY UnstartedKept
<1>3. QED
  BY <1>1, <1>2 DEF Excuses

LEMMA FailNext ==
  ASSUME SampledInv, FaultsInv, AliveInv, DelayInv, BoundInv, FailInv, [Next]_vars
  PROVE  FailInv'
<1> USE DEF processVars, reportVars
<1> DEFINE Excused(s) == \/ crashes' > 0 \/ lost' > 1 \/ (lost' > 0 /\ s \notin Forgiving)
                        \/ s \in StressBodies \cup unstarted'
<1> SUFFICES ASSUME kind' = "fixed"
             PROVE  /\ main' = "run" /\ verdict' = "failed" => Excused(scenario')
                    /\ \A s \in failed' : Excused(s)
  BY DEF FailInv, Excuses
<1>0. kind = "fixed" /\ BaseInv /\ lost \in Nat /\ crashes \in Nat /\ lost' \in Nat /\ crashes' \in Nat
  BY FaultsGrow DEF SampledInv, FaultsInv
<1>1. main = "run" /\ verdict = "failed" => Excused(scenario)
  BY <1>0, ExcusesStay DEF FailInv
<1>2. \A s \in failed : Excused(s)
  BY <1>0, ExcusesStay DEF FailInv
<1>3. CASE main = "run" /\ BodyStep /\ UNCHANGED <<processVars, reportVars>>
  <2>1. failed' = failed
    BY <1>3
  <2>2. ASSUME verdict' = "failed"
        PROVE  Excused(scenario')
    <3>1. CASE Advances
      BY <2>2, <3>1 DEF Advances, InBody
    <3>2. CASE Returns
      <4>1. /\ Fails /\ scenario' = scenario /\ crashes' = crashes /\ unstarted' = unstarted
            /\ lost' = lost \/ lost' = lost + 1
        BY <2>2, <3>2 DEF Returns
      <4>2. crashes = 0 /\ lost' <= 1 /\ scenario \notin StressBodies \cup unstarted =>
              lost' = 1 /\ scenario \notin Forgiving
        BY <1>0, <1>3, <4>1, FailsFor
      <4>3. QED
        BY <1>0, <4>1, <4>2
    <3>3. CASE Misses
      BY <2>2, <3>3 DEF Misses, StartFails, Is, InBody
    <3>4. QED
      BY <1>3, <3>1, <3>2, <3>3, BodyStepIs
  <2>3. QED
    BY <1>2, <2>1, <2>2
<1>4. CASE NextBody \/ Finish
  <2>1. failed' = (IF verdict = "failed" THEN failed \cup {scenario} ELSE failed) /\ main = "run"
    BY <1>4 DEF NextBody, Finish, Reported, Judged
  <2>2. verdict' # "failed"
    BY <1>4 DEF NextBody, Finish, Begin
  <2>3. \A s \in failed' : Excused(s)
    BY <1>1, <1>2, <2>1
  <2>4. QED
    BY <2>2, <2>3
<1>5. CASE main' # "run" /\ failed' = failed
  BY <1>2, <1>5
<1>6. CASE EnvoyIsReady
  BY <1>2, <1>6 DEF EnvoyIsReady, Begin
<1>7. CASE UNCHANGED <<main, verdict, scenario, failed>>
  BY <1>1, <1>2, <1>7
<1>8. CASE CallHangs \/ StartServer \/ UnknownProfile \/ StartEnvoy \/ EnvoyIsNotReady \/ StopEnvoy \/ StopServer
           \/ Exit \/ SetupFails
  BY <1>5, <1>8 DEF CallHangs, StartServer, UnknownProfile, StartEnvoy, EnvoyIsNotReady, StopEnvoy, StopServer,
     Exit, SetupFails, EndProcess
<1>9. CASE EnvoyStep \/ EnvoyCrashes \/ StreamBreaks
  BY <1>7, <1>9 DEF EnvoyStep, EnvoyBecomesReady, OrphanBecomesReady, EnvoyApplies, EnvoyCrashes,
     StreamBreaks, bodyVars
<1>10. CASE Passage \/ Exited \/ UNCHANGED vars
  BY <1>7, <1>10 DEF Passage, Tick, Exited, vars, scenarioVars, bodyVars
<1>11. QED
  BY <1>3, <1>4, <1>6, <1>8, <1>9, <1>10 DEF Next, MainStep

FailedInv ==
  /\ VerdictInv /\ AliveInv /\ LagInv /\ ListedInv /\ HealthyInv /\ BInv /\ DelayInv /\ BoundInv
  /\ FailInv

\* A failure is evidence too: no isolated scenario fails with an Envoy that has
\* the feature, whatever it takes within the bounds, unless Envoy crashed, a
\* call of the admin port failed or a backend of the scenario was not started;
\* and the scenarios that sample nothing outlive one such call (admin.go:154-236,
\* scenarios.go:28-451).
THEOREM FailuresAreExplained == Spec => []FailuresExplained
<1>1. Init => FailedInv
  <2> SUFFICES ASSUME Init PROVE FailedInv
    OBVIOUS
  <2>1. ~Running /\ main = "begin" /\ child = "none" /\ failed = {} /\ state = [h \in Hosts |-> "absent"]
        /\ applied.endpoints = {}
    BY DEF Init, Running, EnvoyInit, NoCluster
  <2>2. AliveInv /\ LagInv /\ HealthyInv /\ BInv /\ DelayInv /\ BoundInv /\ FailInv
    BY <2>1 DEF AliveInv, LagInv, HealthyInv, BInv, DelayInv, BoundInv, FailInv
  <2>3. ListedInv
    BY <2>1 DEF ListedInv
  <2>4. QED
    BY <2>2, <2>3, VerdictInitially DEF FailedInv
<1>2. FailedInv /\ [Next]_vars => FailedInv'
  <2> SUFFICES ASSUME FailedInv, [Next]_vars PROVE FailedInv'
    OBVIOUS
  <2>1. /\ VerdictInv /\ AliveInv /\ LagInv /\ ListedInv /\ HealthyInv /\ BInv /\ DelayInv
        /\ BoundInv /\ FailInv
    BY DEF FailedInv
  <2>2. /\ BaseInv /\ FaultsInv /\ CallsInv /\ QuietInv /\ UpInv /\ RemovalInv /\ LateInv
        /\ SlowInv /\ PromptInv /\ ReturnInv
    BY <2>1 DEF VerdictInv, BodyInv
  <2>3. VerdictInv'
    BY <2>1, VerdictNext
  <2>4. AliveInv' /\ LagInv' /\ ListedInv'
    BY <2>1, <2>2, AliveNext, LagNext, ListedNext
  <2>5. HealthyInv'
    BY <2>1, <2>2, HealthyNext
  <2>6. BInv'
    BY <2>1, <2>2, BNext
  <2>7. DelayInv'
    BY <2>1, <2>2, DelayNext
  <2>8. BoundInv'
    BY <2>1, <2>2, BoundNext
  <2>9. FailInv'
    BY <2>1, <2>2, FailNext DEF SampledInv
  <2>10. QED
    BY <2>3, <2>4, <2>5, <2>6, <2>7, <2>8, <2>9 DEF FailedInv
<1>3. FailedInv => FailuresExplained
  <2> SUFFICES ASSUME FailedInv, kind = "fixed"
               PROVE  /\ lost + crashes = 0 => failed \cap Range(AllIsolatedScenarios) \subseteq unstarted
                      /\ lost <= 1 /\ crashes = 0 => failed \cap {"D", "E", "F", "G"} \subseteq unstarted
    BY DEF FailuresExplained
  <2>1. lost \in Nat /\ crashes \in Nat
    BY DEF FailedInv, VerdictInv, BodyInv, FaultsInv
  <2>2. /\ Range(AllIsolatedScenarios) \cap StressBodies = {}
        /\ {"D", "E", "F", "G"} \cap StressBodies = {}
    <3>1. DOMAIN AllIsolatedScenarios = 1..9
      BY DEF AllIsolatedScenarios
    <3>2. Range(AllIsolatedScenarios) \subseteq {"0", "A", "B", "C", "D", "E", "F", "G", "H"}
      BY <3>1, IsolatedNames DEF Range
    <3>3. QED
      BY <3>2, NamesDiffer
  <2>3. \A s \in failed :
          crashes > 0 \/ lost > 1 \/ (lost > 0 /\ s \notin Forgiving) \/ s \in StressBodies \cup unstarted
    BY DEF FailedInv, FailInv, Excuses
  <2>4. QED
    BY <2>1, <2>2, <2>3 DEF Forgiving
<1>4. QED
  BY <1>1, <1>2, <1>3, PTL DEF Spec

=============================================================================
