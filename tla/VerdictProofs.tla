--------------------------- MODULE VerdictProofs ---------------------------
(***************************************************************************)
(* Proofs that the verdicts are right: a scenario that passes has seen     *)
(* what it is there to see, whatever is late, is lost, breaks or crashes,  *)
(* so an exit status of 0 stands for the feature; and the hosts of a       *)
(* stress body are settled when the next body finds them.                  *)
(***************************************************************************)
EXTENDS HarnessProofs

-----------------------------------------------------------------------------
(* What a sample shows of the table                                        *)

IsPending(h) == state[h] \in {"pending", "frozen"}
IsHealthyHost(h) == state[h] \in {"healthy", "readded"}

\* A condition of a poll or a sample, of Envoy's table.
Sees(c, n) ==
  CASE c = "healthy" -> n \in Listed /\ IsHealthyHost(n)
    [] c = "flag"    -> n \in Listed /\ IsPending(n)
    [] c = "present" -> n \in Listed /\ ~IsPending(n)
    [] c = "listed"  -> n \in Listed
    [] c = "gone"    -> n \notin Listed
    [] c = "count"   -> Cardinality(Listed) = n

Shown(h) == [Address |-> h, HealthFlags |-> {HealthFlags[h]}]

\* The lines about a host are read as one entry, with its flags.
LEMMA HostsAreRead == GetClusterHosts = {Shown(h) : h \in Listed}
<1> DEFINE about == HostLines(ClustersText(HealthFlags), clusterName)
           subjects == {l.subject : l \in about}
           read(a) == {l.value : l \in {k \in about : k.subject = a /\ k.key = "health_flags"}}
           flagLine(h) == Line(clusterName, h, TRUE, "health_flags", HealthFlags[h])
           weightLine(h) == Line(clusterName, h, TRUE, "weight", {})
<1>1. DOMAIN HealthFlags = Listed
  BY DEF HealthFlags
<1>2. ASSUME NEW l \in about
      PROVE  \/ \E h \in Listed : l = flagLine(h)
             \/ \E h \in Listed : l = weightLine(h)
  <2>1. l \in ClustersText(HealthFlags) /\ l.cluster = clusterName /\ l.dotted
    BY DEF HostLines
  <2>2. CASE l \in {Line(c, 0, FALSE, "added_via_api", {}) : c \in {clusterName, "xds_cluster"}}
    <3>1. PICK c \in {clusterName, "xds_cluster"} : l = Line(c, 0, FALSE, "added_via_api", {})
      BY <2>2
    <3>2. ~l.dotted
      BY Zenon, <3>1 DEF Line
    <3>3. QED
      BY <2>1, <3>2
  <2>3. CASE l = Line("xds_cluster", 0, TRUE, "health_flags", {})
    <3>1. l.cluster = "xds_cluster"
      BY Zenon, <2>3 DEF Line
    <3>2. QED
      BY <2>1, <3>1 DEF clusterName
  <2>4. QED
    BY <1>1, <2>1, <2>2, <2>3 DEF ClustersText
<1>3. ASSUME NEW h \in Listed
      PROVE  flagLine(h) \in about
  <2>1. flagLine(h) \in ClustersText(HealthFlags)
    BY <1>1 DEF ClustersText
  <2>2. flagLine(h).cluster = clusterName /\ flagLine(h).dotted
    BY Zenon DEF Line
  <2>3. QED
    BY <2>1, <2>2 DEF HostLines
<1>4. ASSUME NEW h
      PROVE  /\ flagLine(h).subject = h /\ flagLine(h).value = HealthFlags[h]
             /\ flagLine(h).key = "health_flags"
             /\ weightLine(h).subject = h /\ weightLine(h).key = "weight"
  BY Zenon DEF Line
<1>5. GetClusterHosts = {[Address |-> a, HealthFlags |-> read(a)] : a \in subjects}
  BY DEF GetClusterHosts, parseClusterHosts
<1> HIDE DEF about, flagLine, weightLine
<1>6. subjects = Listed
  <2>1. ASSUME NEW l \in about
        PROVE  l.subject \in Listed
    BY <1>2, <1>4
  <2>2. ASSUME NEW h \in Listed
        PROVE  \E l \in about : l.subject = h
    BY <1>3, <1>4
  <2>3. QED
    BY <2>1, <2>2
<1>7. ASSUME NEW a \in Listed
      PROVE  read(a) = {HealthFlags[a]}
  <2>1. ASSUME NEW l \in about, l.subject = a, l.key = "health_flags"
        PROVE  l.value = HealthFlags[a]
    <3>1. CASE \E h \in Listed : l = flagLine(h)
      BY <1>4, <2>1, <3>1
    <3>2. CASE \E h \in Listed : l = weightLine(h)
      BY <1>4, <2>1, <3>2
    <3>3. QED
      BY <1>2, <3>1, <3>2
  <2>2. flagLine(a) \in about /\ flagLine(a).subject = a /\ flagLine(a).key = "health_flags"
        /\ flagLine(a).value = HealthFlags[a]
    BY <1>3, <1>4
  <2>3. QED
    BY <2>1, <2>2
<1> HIDE DEF read, subjects
<1>8. QED
  BY <1>5, <1>6, <1>7 DEF Shown

LEMMA FlagsOf ==
  ASSUME state \in [Hosts -> States], NEW h \in Listed
  PROVE  /\ HealthFlags[h] = {} <=> IsHealthyHost(h)
         /\ HealthFlags[h] = {PENDING} <=> IsPending(h)
<1>1. state[h] \in States /\ state[h] # "absent"
  BY DEF Listed
<1>2. HealthFlags[h] =
        CASE state[h] \in {"healthy", "readded"} -> {}
          [] state[h] = "new"                    -> {"failed_active_hc", "pending_active_hc"}
          [] state[h] = "failing"                -> {"failed_active_hc"}
          [] state[h] \in {"pending", "frozen"}  -> {"pending_dynamic_removal"}
  BY DEF HealthFlags
<1>3. CASE IsHealthyHost(h)
  BY <1>2, <1>3 DEF IsHealthyHost, IsPending, PENDING
<1>4. CASE state[h] = "new"
  BY <1>2, <1>4 DEF IsHealthyHost, IsPending, PENDING
<1>5. CASE state[h] = "failing"
  BY <1>2, <1>5 DEF IsHealthyHost, IsPending, PENDING
<1>6. CASE IsPending(h)
  BY <1>2, <1>6 DEF IsHealthyHost, IsPending, PENDING
<1>7. QED
  BY <1>1, <1>3, <1>4, <1>5, <1>6 DEF States, IsHealthyHost, IsPending

LEMMA ListedFinite == IsFiniteSet(Listed) /\ Cardinality(Listed) \in Nat
<1>1. IsFiniteSet(Hosts) /\ Listed \in SUBSET Hosts
  BY FS_Interval, EnvoyAssumption DEF Hosts, Listed
<1>2. QED
  BY <1>1, FS_Subset, FS_CardinalityType

LEMMA AsManyShown == Cardinality({Shown(h) : h \in Listed}) = Cardinality(Listed)
<1> DEFINE f == [h \in Listed |-> Shown(h)]
           S == {Shown(h) : h \in Listed}
<1>1. \A h : Shown(h).Address = h
  BY DEF Shown
<1>2. f \in Bijection(Listed, S)
  <2>1. \A a, b \in Listed : f[a] = f[b] => a = b
    BY <1>1
  <2>2. \A s \in S : \E a \in Listed : f[a] = s
    OBVIOUS
  <2>3. f \in [Listed -> S]
    OBVIOUS
  <2>4. QED
    BY <2>1, <2>2, <2>3 DEF Bijection, Injection, Surjection, IsInjective
<1>3. QED
  BY <1>2, ListedFinite, FS_Bijection DEF ExistsBijection

LEMMA SeesWhat ==
  ASSUME NEW n
  PROVE  /\ Sees("healthy", n) <=> n \in Listed /\ IsHealthyHost(n)
         /\ Sees("flag", n)    <=> n \in Listed /\ IsPending(n)
         /\ Sees("present", n) <=> n \in Listed /\ ~IsPending(n)
         /\ Sees("listed", n)  <=> n \in Listed
         /\ Sees("gone", n)    <=> n \notin Listed
         /\ Sees("count", n)   <=> Cardinality(Listed) = n
BY Zenon DEF Sees

LEMMA ShowsWhat ==
  ASSUME NEW S, NEW n
  PROVE  /\ Shows(S, "healthy", n) <=> FindHost(S, n) # {}
                                        /\ \A h \in FindHost(S, n) : IsHealthy(h)
         /\ Shows(S, "flag", n)    <=> FindHost(S, n) # {}
                                        /\ \A h \in FindHost(S, n) : HasFlag(h, PENDING)
         /\ Shows(S, "present", n) <=> FindHost(S, n) # {}
                                        /\ \A h \in FindHost(S, n) : ~HasFlag(h, PENDING)
         /\ Shows(S, "listed", n)  <=> FindHost(S, n) # {}
         /\ Shows(S, "gone", n)    <=> FindHost(S, n) = {}
         /\ Shows(S, "count", n)   <=> Cardinality(S) = n
BY Zenon DEF Shows

\* What a sample shows is so.
LEMMA SeenIs ==
  ASSUME state \in [Hosts -> States], NEW c \in Conditions, NEW n
  PROVE  Shows(GetClusterHosts, c, n) <=> Sees(c, n)
<1>1. \A h : Shown(h).Address = h /\ Shown(h).HealthFlags = {HealthFlags[h]}
  BY DEF Shown
<1>2. CASE n \in Listed
  <2>1. FindHost(GetClusterHosts, n) = {Shown(n)}
    BY <1>1, <1>2, HostsAreRead DEF FindHost
  <2>2. /\ IsHealthy(Shown(n)) <=> HealthFlags[n] = {}
        /\ HasFlag(Shown(n), PENDING) <=> HealthFlags[n] = {PENDING}
    <3>1. Shown(n).HealthFlags = {HealthFlags[n]}
      BY <1>1
    <3>2. QED
      BY Zenon, <3>1 DEF IsHealthy, HasFlag
  <2>3. /\ IsHealthy(Shown(n)) <=> IsHealthyHost(n)
        /\ HasFlag(Shown(n), PENDING) <=> IsPending(n)
    BY <1>2, <2>2, FlagsOf
  <2>4. /\ Shows(GetClusterHosts, "healthy", n) <=> IsHealthyHost(n)
        /\ Shows(GetClusterHosts, "flag", n) <=> IsPending(n)
        /\ Shows(GetClusterHosts, "present", n) <=> ~IsPending(n)
        /\ Shows(GetClusterHosts, "listed", n)
        /\ ~Shows(GetClusterHosts, "gone", n)
    BY Zenon, <2>1, <2>3, ShowsWhat
  <2>5. Shows(GetClusterHosts, "count", n) <=> Sees("count", n)
    BY Zenon, ShowsWhat, SeesWhat, HostsAreRead, AsManyShown
  <2>6. QED
    BY Zenon, <1>2, <2>4, <2>5, SeesWhat DEF Conditions
<1>3. CASE n \notin Listed
  <2>1. FindHost(GetClusterHosts, n) = {}
    BY <1>1, <1>3, HostsAreRead DEF FindHost
  <2>2. /\ ~Shows(GetClusterHosts, "healthy", n) /\ ~Shows(GetClusterHosts, "flag", n)
        /\ ~Shows(GetClusterHosts, "present", n) /\ ~Shows(GetClusterHosts, "listed", n)
        /\ Shows(GetClusterHosts, "gone", n)
    BY Zenon, <2>1, ShowsWhat
  <2>3. Shows(GetClusterHosts, "count", n) <=> Sees("count", n)
    BY Zenon, ShowsWhat, SeesWhat, HostsAreRead, AsManyShown
  <2>4. QED
    BY Zenon, <1>3, <2>2, <2>3, SeesWhat DEF Conditions
<1>4. QED
  BY <1>2, <1>3

\* What GetClusterHosts returns with an error.
HostsRead == IF answering THEN PartialHosts(GetClusterHosts) ELSE {{}}

LEMMA PartOf ==
  ASSUME NEW S, NEW hosts \in PartialHosts(S), NEW e \in hosts
  PROVE  \/ e \in S
         \/ \E cut \in S : \E flags \in {{}, {{"cut"}}} : e = [cut EXCEPT !.HealthFlags = flags]
<1>1. CASE hosts \in SUBSET S
  BY <1>1
<1>2. CASE hosts \in UNION {CutAt(S, cut) : cut \in S}
  <2>1. PICK cut \in S : hosts \in CutAt(S, cut)
    BY <1>2
  <2>2. PICK whole \in SUBSET (S \ {cut}) : \E flags \in {{}, {{"cut"}}} :
          hosts = whole \cup {[cut EXCEPT !.HealthFlags = flags]}
    BY <2>1 DEF CutAt
  <2>3. QED
    BY <2>2
<1>3. QED
  BY <1>1, <1>2 DEF PartialHosts

\* A list that was cut shows no host that is not there, and a flag only where
\* it is.
LEMMA PartShown ==
  ASSUME state \in [Hosts -> States], NEW hosts \in HostsRead,
         NEW c \in {"flag", "present", "listed"}, NEW n, Shows(hosts, c, n)
  PROVE  answering /\ n \in Listed /\ (c = "flag" => IsPending(n))
<1>1. FindHost(hosts, n) # {} /\ (c = "flag" => \A h \in FindHost(hosts, n) : HasFlag(h, PENDING))
  BY Zenon, ShowsWhat
<1>2. PICK e \in hosts : e.Address = n /\ (c = "flag" => HasFlag(e, PENDING))
  BY <1>1 DEF FindHost
<1>3. answering /\ hosts \in PartialHosts(GetClusterHosts)
  BY <1>2 DEF HostsRead
<1>4. ASSUME NEW x \in GetClusterHosts
      PROVE  \E h \in Listed : x.Address = h /\ x.HealthFlags = {HealthFlags[h]}
                             /\ x \in [{"Address", "HealthFlags"} -> {h, {HealthFlags[h]}}]
  BY <1>4, HostsAreRead DEF Shown
<1>5. PICK h \in Listed :
        e.Address = h /\ (e.HealthFlags = {HealthFlags[h]} \/ e.HealthFlags \in {{}, {{"cut"}}})
  BY <1>2, <1>3, <1>4, PartOf
<1>6. ASSUME c = "flag" PROVE IsPending(n)
  <2>1. {PENDING} \in e.HealthFlags
    BY <1>2, <1>6 DEF HasFlag
  <2>2. {PENDING} # {"cut"}
    BY DEF PENDING
  <2>3. HealthFlags[h] = {PENDING}
    BY <1>5, <2>1, <2>2
  <2>4. QED
    BY <1>2, <1>5, <2>3, FlagsOf
<1>7. QED
  BY <1>2, <1>3, <1>5, <1>6

\* The empty list of a call that failed shows no host.
LEMMA NothingShown ==
  ASSUME NEW n
  PROVE  /\ ~Shows({}, "healthy", n) /\ ~Shows({}, "flag", n)
         /\ ~Shows({}, "present", n) /\ ~Shows({}, "listed", n)
         /\ Shows({}, "count", n) => n = 0
<1>1. FindHost({}, n) = {}
  BY DEF FindHost
<1>2. Cardinality({}) = 0
  BY FS_EmptySet
<1>3. QED
  BY <1>1, <1>2 DEF Shows

-----------------------------------------------------------------------------
(* The scripts, instruction by instruction                                 *)

IsCall(i, op, S)     == i.op = op /\ i.on = S
IsConfig(i, ms)      == i.op = "config" /\ i.timeoutMs = ms /\ i.healthChecks
IsConfigNoHC(i, ms)  == i.op = "config" /\ i.timeoutMs = ms /\ ~i.healthChecks
IsAwait(i, c, n, ms) ==
  i.op = "wait" /\ i.condition = c /\ i.n = n /\ i.within = ms /\ i.must
IsTry(i, c, n, ms) ==
  i.op = "wait" /\ i.condition = c /\ i.n = n /\ i.within = ms /\ ~i.must
IsSleep(i, ms)       == i.op = "sleep" /\ i.within = ms
IsSample(i, E)       == i.op = "check" /\ i.expected = E /\ ~i.strict
IsStrictSample(i, E) == i.op = "check" /\ i.expected = E /\ i.strict
IsMark(i)            == i.op = "mark"
IsBound(i, lo, hi)   == i.op = "bound" /\ i.lo = lo /\ i.hi = hi

LEMMA MadeCalls ==
  /\ \A op, S : IsCall(Do(op, S), op, S)
  /\ \A ms : IsConfig(SetClusterConfig(ms), ms)
  /\ \A ms : IsConfigNoHC(SetClusterConfigNoHC(ms), ms)
BY Zenon DEF IsCall, Do, IsConfig, SetClusterConfig, IsConfigNoHC, SetClusterConfigNoHC

LEMMA MadePolls ==
  /\ \A c, n, ms : IsAwait(Await(c, n, ms), c, n, ms) /\ IsTry(Try(c, n, ms), c, n, ms)
  /\ \A h : /\ IsAwait(Pending(h), "flag", h, 5000) /\ IsTry(TryPending(h), "flag", h, 5000)
            /\ IsAwait(Healthy(h), "healthy", h, 10000)
            /\ IsAwait(Present(h), "present", h, 10000)
            /\ IsAwait(HealthyIn(15000, h), "healthy", h, 15000)
<1>1. \A c, n, ms : IsAwait(Await(c, n, ms), c, n, ms)
  BY Zenon DEF IsAwait, Await
<1>2. \A c, n, ms : IsTry(Try(c, n, ms), c, n, ms)
  BY Zenon DEF IsTry, Try
<1>3. QED
  BY <1>1, <1>2 DEF Pending, TryPending, Healthy, HealthyIn, Present

LEMMA MadeOthers ==
  /\ \A ms : IsSleep(Sleep(ms), ms)
  /\ \A E : IsSample(Sample(E), E) /\ IsStrictSample(StrictSample(E), E)
  /\ IsMark(Mark)
  /\ \A lo, hi : IsBound(Within(lo, hi), lo, hi)
BY Zenon DEF IsSleep, Sleep, IsSample, Sample, IsStrictSample, StrictSample, IsMark, Mark,
             IsBound, Within

LEMMA InScenario0 ==
  LET q == Scenario0 IN
  /\ Len(q) = 9
  /\ IsCall(q[1], "start", Two) /\ IsCall(q[2], "add", Two) /\ IsAwait(q[3], "healthy", 1, 10000)
  /\ IsAwait(q[4], "healthy", 2, 10000) /\ IsCall(q[5], "remove", Two)
  /\ IsAwait(q[6], "flag", 1, 5000) /\ IsAwait(q[7], "flag", 2, 5000) /\ IsSleep(q[8], 10000)
  /\ IsStrictSample(q[9], AllOf("flag"))
<1> DEFINE q == Scenario0
<1>1. /\ Len(q) = 9
      /\ q[1] = Do("start", Two) /\ q[2] = Do("add", Two) /\ q[3] = Healthy(1)
      /\ q[4] = Healthy(2) /\ q[5] = Do("remove", Two) /\ q[6] = Pending(1) /\ q[7] = Pending(2)
      /\ q[8] = Sleep(10000) /\ q[9] = StrictSample(AllOf("flag"))
  BY DEF Scenario0, Setup
<1> HIDE DEF q
<1>2. QED
  BY <1>1, MadeCalls, MadePolls, MadeOthers DEF q

LEMMA InScenarioA ==
  LET q == ScenarioA IN
  /\ Len(q) = 13
  /\ IsCall(q[1], "start", Two) /\ IsCall(q[2], "add", Two) /\ IsAwait(q[3], "healthy", 1, 10000)
  /\ IsAwait(q[4], "healthy", 2, 10000) /\ IsCall(q[5], "remove", Two)
  /\ IsTry(q[6], "flag", 1, 5000) /\ IsTry(q[7], "flag", 2, 5000) /\ IsSleep(q[8], 2000)
  /\ IsCall(q[9], "add", Two) /\ IsAwait(q[10], "present", 1, 10000)
  /\ IsAwait(q[11], "present", 2, 10000) /\ IsSleep(q[12], 5000)
  /\ IsSample(q[13], AllOf("present"))
<1> DEFINE q == ScenarioA
<1>1. /\ Len(q) = 13
      /\ q[1] = Do("start", Two) /\ q[2] = Do("add", Two) /\ q[3] = Healthy(1)
      /\ q[4] = Healthy(2) /\ q[5] = Do("remove", Two) /\ q[6] = TryPending(1)
      /\ q[7] = TryPending(2) /\ q[8] = Sleep(2000) /\ q[9] = Do("add", Two) /\ q[10] = Present(1)
      /\ q[11] = Present(2) /\ q[12] = Sleep(5000) /\ q[13] = Sample(AllOf("present"))
  BY DEF ScenarioA, Setup
<1> HIDE DEF q
<1>2. QED
  BY <1>1, MadeCalls, MadePolls, MadeOthers DEF q

LEMMA InScenarioB ==
  LET q == ScenarioB IN
  /\ Len(q) = 10
  /\ IsCall(q[1], "start", Two) /\ IsCall(q[2], "add", Two) /\ IsAwait(q[3], "healthy", 1, 10000)
  /\ IsAwait(q[4], "healthy", 2, 10000) /\ IsCall(q[5], "remove", Two)
  /\ IsTry(q[6], "flag", 1, 5000) /\ IsTry(q[7], "flag", 2, 5000) /\ IsCall(q[8], "stop", {1})
  /\ IsAwait(q[9], "gone", 1, 3000) /\ IsSample(q[10], {<<"flag", 2>>})
<1> DEFINE q == ScenarioB
<1>1. /\ Len(q) = 10
      /\ q[1] = Do("start", Two) /\ q[2] = Do("add", Two) /\ q[3] = Healthy(1)
      /\ q[4] = Healthy(2) /\ q[5] = Do("remove", Two) /\ q[6] = TryPending(1)
      /\ q[7] = TryPending(2) /\ q[8] = Do("stop", {1}) /\ q[9] = Await("gone", 1, 3000)
      /\ q[10] = Sample({<<"flag", 2>>})
  BY DEF ScenarioB, Setup
<1> HIDE DEF q
<1>2. QED
  BY <1>1, MadeCalls, MadePolls, MadeOthers DEF q

LEMMA InScenarioC ==
  LET q == ScenarioC IN
  /\ Len(q) = 8
  /\ IsCall(q[1], "start", Two) /\ IsCall(q[2], "add", Two) /\ IsAwait(q[3], "healthy", 1, 10000)
  /\ IsAwait(q[4], "healthy", 2, 10000) /\ IsCall(q[5], "remove", {1})
  /\ IsTry(q[6], "flag", 1, 5000) /\ IsAwait(q[7], "gone", 1, 10000)
  /\ IsSample(q[8], {<<"present", 2>>})
<1> DEFINE q == ScenarioC
<1>1. /\ Len(q) = 8
      /\ q[1] = Do("start", Two) /\ q[2] = Do("add", Two) /\ q[3] = Healthy(1)
      /\ q[4] = Healthy(2) /\ q[5] = Do("remove", {1}) /\ q[6] = TryPending(1)
      /\ q[7] = Await("gone", 1, 10000) /\ q[8] = Sample({<<"present", 2>>})
  BY DEF ScenarioC, Setup
<1> HIDE DEF q
<1>2. QED
  BY <1>1, MadeCalls, MadePolls, MadeOthers DEF q

LEMMA InScenarioD ==
  LET q == ScenarioD IN
  /\ Len(q) = 9
  /\ IsCall(q[1], "start", Two) /\ IsConfig(q[2], 500) /\ IsCall(q[3], "add", Two)
  /\ IsAwait(q[4], "healthy", 1, 10000) /\ IsAwait(q[5], "healthy", 2, 10000)
  /\ IsCall(q[6], "remove", Two) /\ IsMark(q[7]) /\ IsAwait(q[8], "count", 0, 5000)
  /\ IsBound(q[9], 400, 3000)
<1> DEFINE q == ScenarioD
<1>1. /\ Len(q) = 9
      /\ q[1] = Do("start", Two) /\ q[2] = SetClusterConfig(500) /\ q[3] = Do("add", Two)
      /\ q[4] = Healthy(1) /\ q[5] = Healthy(2) /\ q[6] = Do("remove", Two) /\ q[7] = Mark
      /\ q[8] = Await("count", 0, 5000) /\ q[9] = Within(400, 3000)
  BY DEF ScenarioD
<1> HIDE DEF q
<1>2. QED
  BY <1>1, MadeCalls, MadePolls, MadeOthers DEF q

LEMMA InScenarioF ==
  LET q == ScenarioF IN
  /\ Len(q) = 8
  /\ IsCall(q[1], "start", Two) /\ IsCall(q[2], "add", Two) /\ IsAwait(q[3], "healthy", 1, 10000)
  /\ IsAwait(q[4], "healthy", 2, 10000) /\ IsCall(q[5], "remove", Two)
  /\ IsTry(q[6], "flag", 1, 5000) /\ IsTry(q[7], "flag", 2, 5000)
  /\ IsAwait(q[8], "count", 0, 10000)
<1> DEFINE q == ScenarioF
<1>1. /\ Len(q) = 8
      /\ q[1] = Do("start", Two) /\ q[2] = Do("add", Two) /\ q[3] = Healthy(1)
      /\ q[4] = Healthy(2) /\ q[5] = Do("remove", Two) /\ q[6] = TryPending(1)
      /\ q[7] = TryPending(2) /\ q[8] = Await("count", 0, 10000)
  BY DEF ScenarioF, Setup
<1> HIDE DEF q
<1>2. QED
  BY <1>1, MadeCalls, MadePolls DEF q

LEMMA InScenarioG ==
  LET q == ScenarioG IN
  /\ Len(q) = 8
  /\ IsCall(q[1], "start", Two) /\ IsConfigNoHC(q[2], 5000) /\ IsCall(q[3], "add", Two)
  /\ IsAwait(q[4], "count", 2, 10000) /\ IsCall(q[5], "remove", Two) /\ IsMark(q[6])
  /\ IsAwait(q[7], "count", 0, 5000) /\ IsBound(q[8], 0, 2000)
<1> DEFINE q == ScenarioG
<1>1. /\ Len(q) = 8
      /\ q[1] = Do("start", Two) /\ q[2] = SetClusterConfigNoHC(5000) /\ q[3] = Do("add", Two)
      /\ q[4] = Await("count", 2, 10000) /\ q[5] = Do("remove", Two) /\ q[6] = Mark
      /\ q[7] = Await("count", 0, 5000) /\ q[8] = Within(0, 2000)
  BY DEF ScenarioG
<1> HIDE DEF q
<1>2. QED
  BY <1>1, MadeCalls, MadePolls, MadeOthers DEF q

LEMMA InScenarioH ==
  LET q == ScenarioH IN
  /\ Len(q) = 11
  /\ IsCall(q[1], "start", Two) /\ IsCall(q[2], "add", Two) /\ IsAwait(q[3], "healthy", 1, 10000)
  /\ IsAwait(q[4], "healthy", 2, 10000) /\ IsSample(q[5], {<<"count", 2>>} \cup AllOf("healthy"))
  /\ IsCall(q[6], "remove", Two) /\ IsAwait(q[7], "flag", 1, 5000)
  /\ IsAwait(q[8], "flag", 2, 5000) /\ IsSample(q[9], AllOf("flag"))
  /\ IsAwait(q[10], "count", 0, 10000) /\ IsSample(q[11], {<<"count", 0>>})
<1> DEFINE q == ScenarioH
<1>1. /\ Len(q) = 11
      /\ q[1] = Do("start", Two) /\ q[2] = Do("add", Two) /\ q[3] = Healthy(1)
      /\ q[4] = Healthy(2) /\ q[5] = Sample({<<"count", 2>>} \cup AllOf("healthy"))
      /\ q[6] = Do("remove", Two) /\ q[7] = Pending(1) /\ q[8] = Pending(2)
      /\ q[9] = Sample(AllOf("flag")) /\ q[10] = Await("count", 0, 10000)
      /\ q[11] = Sample({<<"count", 0>>})
  BY DEF ScenarioH, Setup
<1> HIDE DEF q
<1>2. QED
  BY <1>1, MadeCalls, MadePolls, MadeOthers DEF q

LEMMA InAddRemoveTimeout ==
  LET q == AddRemoveTimeout IN
  /\ Len(q) = 7
  /\ IsCall(q[1], "start", {1}) /\ IsCall(q[2], "add", {1}) /\ IsAwait(q[3], "healthy", 1, 10000)
  /\ IsCall(q[4], "remove", {1}) /\ IsMark(q[5]) /\ IsAwait(q[6], "gone", 1, 8000)
  /\ IsBound(q[7], 2000, 10000)
<1> DEFINE q == AddRemoveTimeout
<1>1. /\ Len(q) = 7
      /\ q[1] = Do("start", {1}) /\ q[2] = Do("add", {1}) /\ q[3] = Healthy(1)
      /\ q[4] = Do("remove", {1}) /\ q[5] = Mark /\ q[6] = Await("gone", 1, 8000)
      /\ q[7] = Within(2000, 10000)
  BY DEF AddRemoveTimeout, SetupOne
<1> HIDE DEF q
<1>2. QED
  BY <1>1, MadeCalls, MadePolls, MadeOthers DEF q

LEMMA InHCFailure ==
  LET q == HCFailure IN
  /\ Len(q) = 7
  /\ IsCall(q[1], "start", {1}) /\ IsCall(q[2], "add", {1}) /\ IsAwait(q[3], "healthy", 1, 10000)
  /\ IsCall(q[4], "remove", {1}) /\ IsTry(q[5], "flag", 1, 5000) /\ IsCall(q[6], "stop", {1})
  /\ IsAwait(q[7], "gone", 1, 5000)
<1> DEFINE q == HCFailure
<1>1. /\ Len(q) = 7
      /\ q[1] = Do("start", {1}) /\ q[2] = Do("add", {1}) /\ q[3] = Healthy(1)
      /\ q[4] = Do("remove", {1}) /\ q[5] = TryPending(1) /\ q[6] = Do("stop", {1})
      /\ q[7] = Await("gone", 1, 5000)
  BY DEF HCFailure, SetupOne
<1> HIDE DEF q
<1>2. QED
  BY <1>1, MadeCalls, MadePolls DEF q

LEMMA InHostReAdd ==
  LET q == HostReAdd IN
  /\ Len(q) = 10
  /\ IsCall(q[1], "start", {1}) /\ IsCall(q[2], "add", {1}) /\ IsAwait(q[3], "healthy", 1, 10000)
  /\ IsCall(q[4], "remove", {1}) /\ IsTry(q[5], "flag", 1, 5000) /\ IsSleep(q[6], 1000)
  /\ IsCall(q[7], "add", {1}) /\ IsAwait(q[8], "present", 1, 10000) /\ IsSleep(q[9], 5000)
  /\ IsSample(q[10], {<<"listed", 1>>})
<1> DEFINE q == HostReAdd
<1>1. /\ Len(q) = 10
      /\ q[1] = Do("start", {1}) /\ q[2] = Do("add", {1}) /\ q[3] = Healthy(1)
      /\ q[4] = Do("remove", {1}) /\ q[5] = TryPending(1) /\ q[6] = Sleep(1000)
      /\ q[7] = Do("add", {1}) /\ q[8] = Present(1) /\ q[9] = Sleep(5000)
      /\ q[10] = Sample({<<"listed", 1>>})
  BY DEF HostReAdd, SetupOne
<1> HIDE DEF q
<1>2. QED
  BY <1>1, MadeCalls, MadePolls, MadeOthers DEF q

LEMMA InPartialRemoval ==
  LET q == PartialRemoval IN
  /\ Len(q) = 9
  /\ IsCall(q[1], "start", Two) /\ IsCall(q[2], "add", Two) /\ IsAwait(q[3], "healthy", 1, 10000)
  /\ IsAwait(q[4], "healthy", 2, 10000) /\ IsCall(q[5], "remove", {1})
  /\ IsAwait(q[6], "gone", 1, 8000) /\ IsSample(q[7], {<<"present", 2>>})
  /\ IsCall(q[8], "remove", {2}) /\ IsTry(q[9], "gone", 2, 8000)
<1> DEFINE q == PartialRemoval
<1>1. /\ Len(q) = 9
      /\ q[1] = Do("start", Two) /\ q[2] = Do("add", Two) /\ q[3] = Healthy(1)
      /\ q[4] = Healthy(2) /\ q[5] = Do("remove", {1}) /\ q[6] = Await("gone", 1, 8000)
      /\ q[7] = Sample({<<"present", 2>>}) /\ q[8] = Do("remove", {2})
      /\ q[9] = Try("gone", 2, 8000)
  BY DEF PartialRemoval, Setup
<1> HIDE DEF q
<1>2. QED
  BY <1>1, MadeCalls, MadePolls, MadeOthers DEF q

LEMMA InLongLivedHealthy ==
  LET q == LongLivedHealthy IN
  /\ Len(q) = 7
  /\ IsCall(q[1], "start", {1}) /\ IsCall(q[2], "add", {1}) /\ IsAwait(q[3], "healthy", 1, 10000)
  /\ IsSleep(q[4], 10000) /\ IsSample(q[5], {<<"present", 1>>}) /\ IsCall(q[6], "remove", {1})
  /\ IsTry(q[7], "gone", 1, 8000)
<1> DEFINE q == LongLivedHealthy
<1>1. /\ Len(q) = 7
      /\ q[1] = Do("start", {1}) /\ q[2] = Do("add", {1}) /\ q[3] = Healthy(1)
      /\ q[4] = Sleep(10000) /\ q[5] = Sample({<<"present", 1>>}) /\ q[6] = Do("remove", {1})
      /\ q[7] = Try("gone", 1, 8000)
  BY DEF LongLivedHealthy, SetupOne
<1> HIDE DEF q
<1>2. QED
  BY <1>1, MadeCalls, MadePolls, MadeOthers DEF q

-----------------------------------------------------------------------------
(* The table, at any time                                                  *)

SameConfig ==
  /\ applied.timeoutMs = pushed.timeoutMs
  /\ applied.healthChecks = pushed.healthChecks

\* What is in the table has been named, and by the configuration that is
\* served: a new one is pushed only while the table is empty.
HostsInv ==
  /\ \A h \in Hosts :
       /\ state[h] \in {"new", "healthy", "failing", "readded"} => h \in applied.endpoints
       /\ IsPending(h) /\ kind # "contagious" => h \notin applied.endpoints
       /\ state[h] = "readded" => kind = "forgetful"
       /\ state[h] = "frozen" => kind = "amnesiac"
       /\ state[h] = "pending" => kind # "hasty"
       /\ state[h] \in {"new", "failing"} => applied.healthChecks
       /\ age[h] # 0 => state[h] \in {"pending", "readded"} /\ age[h] < Timeout
  /\ Listed # {} => SameConfig
  /\ ~answering => Listed = {}

LEMMA TableTypes ==
  ASSUME ShapeInv
  PROVE  /\ TableOK /\ pushed \in Clusters /\ applied \in Clusters
         /\ state \in [Hosts -> States]
         /\ \A h \in Hosts : state[h] \in States /\ age[h] \in Nat
         /\ lag \in Nat /\ lag <= MaxLag /\ MaxLag \in Nat
         /\ waited \in Nat /\ at \in Nat \ {0}
         /\ Script(scenario) \in Seq(Instructions) /\ Len(Script(scenario)) \in Nat
         /\ scenario \in Scenarios
         /\ verdict \in {"none", "running", "passed", "failed"}
<1>1. TableOK /\ BodyOK /\ WaitedInv
  BY DEF ShapeInv
<1>2. \A h \in Hosts : state[h] \in States /\ age[h] \in 0..LongestTimeout
  BY <1>1 DEF TableOK
<1>3. Script(scenario) \in Seq(Instructions) /\ scenario \in Scenarios
  BY <1>1, ScriptTypes DEF BodyOK
<1>4. at \in 1..Len(Script(scenario)) + 1 /\ Len(Script(scenario)) \in Nat
  BY <1>1, <1>3 DEF BodyOK
<1>5. \A h \in Hosts : age[h] \in Nat
  BY <1>2, LongestNumbers
<1>6. QED
  BY <1>1, <1>2, <1>3, <1>4, <1>5, EnvoyAssumption DEF TableOK, BodyOK, WaitedInv

\* What a push does to one host.
LEMMA ApplyHost ==
  ASSUME ShapeInv, HostsInv, Apply, NEW h \in Hosts
  PROVE  /\ state'[h] = IF h \in Leaving THEN Removed(state[h]) ELSE Named(state[h])
         /\ h \notin pushed.endpoints => h \in Leaving
         /\ h \in Leaving /\ kind # "contagious" => h \notin pushed.endpoints
         /\ age'[h] = IF {state[h], state'[h]} \subseteq {"pending", "readded"}
                      THEN age[h] ELSE 0
         /\ Listed # {} => ~Reconfigured
<1>0. state[h] \in States /\ pushed \in Clusters /\ applied \in Clusters
  BY TableTypes
<1>1. Listed # {} => ~Reconfigured
  BY DEF HostsInv, SameConfig, Reconfigured
<1>2. CASE Reconfigured
  <2>1. state[h] = "absent" /\ Leaving = Hosts \ pushed.endpoints
    BY <1>1, <1>2 DEF Listed, Leaving
  <2>2. Removed("absent") = "absent"
    BY NewStates
  <2>3. QED
    BY <1>1, <1>2, <2>1, <2>2 DEF Apply
<1>3. CASE ~Reconfigured
  <2>1. state'[h] = IF h \in Leaving THEN Removed(state[h]) ELSE Named(state[h])
    BY <1>3 DEF Apply
  <2>2. /\ h \notin pushed.endpoints => h \in Leaving
        /\ h \in Leaving /\ kind # "contagious" => h \notin pushed.endpoints
    BY DEF Leaving
  <2>3. QED
    BY <1>1, <2>1, <2>2 DEF Apply
<1>4. QED
  BY <1>2, <1>3

LEMMA HostsApply ==
  ASSUME ShapeInv, HostsInv, Apply, answering, answering' = answering
  PROVE  HostsInv'
<1>1. applied' = pushed /\ pushed' = pushed /\ kind' = kind
  BY DEF Apply
<1>2. ASSUME NEW h \in Hosts
      PROVE  /\ state'[h] \in {"new", "healthy", "failing", "readded"} => h \in applied'.endpoints
             /\ IsPending(h)' /\ kind # "contagious" => h \notin applied'.endpoints
             /\ state'[h] = "readded" => kind = "forgetful"
             /\ state'[h] = "frozen" => kind = "amnesiac"
             /\ state'[h] = "pending" => kind # "hasty"
             /\ state'[h] \in {"new", "failing"} => applied'.healthChecks
             /\ age'[h] # 0 => state'[h] \in {"pending", "readded"} /\ age'[h] < Timeout'
  <2>0. state[h] \in States /\ pushed \in Clusters /\ applied \in Clusters
    BY TableTypes
  <2>1. /\ state[h] = "readded" => kind = "forgetful"
        /\ state[h] = "frozen" => kind = "amnesiac"
        /\ state[h] = "pending" => kind # "hasty"
        /\ state[h] \in {"new", "failing"} => applied.healthChecks
        /\ age[h] # 0 => state[h] \in {"pending", "readded"} /\ age[h] < Timeout
        /\ Listed # {} => SameConfig
    BY DEF HostsInv
  <2>2. state[h] # "absent" => SameConfig /\ Timeout' = Timeout
    BY <1>1, <2>1 DEF Listed, SameConfig, Timeout
  <2>3. CASE h \in Leaving
    <3>1. state'[h] = Removed(state[h]) /\ (kind # "contagious" => h \notin pushed.endpoints)
      BY <2>3, ApplyHost
    <3>2. state'[h] \in {"absent", "pending", "frozen"}
      BY <2>0, <3>1 DEF Removed, States
    <3>3. state'[h] = "frozen" => kind = "amnesiac"
      BY <2>0, <2>1, <3>1 DEF Removed, States
    <3>4. state'[h] = "pending" => kind # "hasty"
      BY <2>0, <2>1, <3>1 DEF Removed, States
    <3>5. age'[h] # 0 => state'[h] \in {"pending", "readded"} /\ age'[h] < Timeout'
      BY <2>1, <2>2, ApplyHost
    <3>6. QED
      BY <1>1, <3>1, <3>2, <3>3, <3>4, <3>5
  <2>4. CASE h \notin Leaving
    <3>1. state'[h] = Named(state[h]) /\ h \in pushed.endpoints
      BY <2>4, ApplyHost
    <3>2. state'[h] \in {"new", "healthy", "failing", "readded"}
      BY <2>0, <3>1 DEF Named, States
    <3>3. state'[h] = "readded" => kind = "forgetful"
      BY <2>0, <2>1, <3>1 DEF Named, States
    <3>4. state'[h] \in {"new", "failing"} => pushed.healthChecks
      BY <2>0, <2>1, <2>2, <3>1 DEF Named, States, SameConfig
    <3>5. age'[h] # 0 => state'[h] \in {"pending", "readded"} /\ age'[h] < Timeout'
      BY <2>1, <2>2, ApplyHost
    <3>6. QED
      BY <1>1, <3>1, <3>2, <3>3, <3>4, <3>5 DEF IsPending
  <2>5. QED
    BY <2>3, <2>4
<1>3. SameConfig'
  BY <1>1 DEF SameConfig
<1>4. QED
  BY <1>1, <1>2, <1>3 DEF HostsInv

\* What a tick does to one host.
LEMMA TickHost ==
  ASSUME ShapeInv, EnvoyTick, NEW h \in Hosts
  PROVE  /\ state'[h] = IF TimerFires(h) THEN "absent" ELSE Checked(h)
         /\ age'[h] = IF HasTimer(h) /\ state'[h] = state[h] THEN age[h] + 250 ELSE 0
         /\ TimerFires(h) <=> HasTimer(h) /\ age[h] + 250 >= Timeout
         /\ state[h] = "absent" => state'[h] = "absent"
         /\ state[h] \in {"pending", "readded", "frozen"} => state'[h] \in {state[h], "absent"}
         /\ state[h] \in {"new", "healthy", "failing"} =>
              state'[h] \in {"new", "healthy", "failing"} /\ ~HasTimer(h)
         /\ kind' = kind /\ pushed' = pushed /\ applied' = applied /\ backends' = backends
         /\ Timeout' = Timeout
<1>0. state[h] \in States
  BY TableTypes
<1>1. /\ state'[h] = IF TimerFires(h) THEN "absent" ELSE Checked(h)
      /\ age'[h] = IF HasTimer(h) /\ state'[h] = state[h] THEN age[h] + 250 ELSE 0
  BY DEF EnvoyTick, TickMs
<1>2. TimerFires(h) <=> HasTimer(h) /\ age[h] + 250 >= Timeout
  BY DEF TimerFires, TickMs
<1>3. HasTimer(h) => state[h] \in {"pending", "readded"}
  BY DEF HasTimer
<1>4. /\ state[h] = "absent" => Checked(h) = "absent"
      /\ state[h] \in {"pending", "readded", "frozen"} => Checked(h) \in {state[h], "absent"}
      /\ state[h] \in {"new", "healthy", "failing"} => Checked(h) \in {"new", "healthy", "failing"}
  BY <1>0 DEF Checked, States
<1>5. kind' = kind /\ pushed' = pushed /\ applied' = applied /\ backends' = backends
  BY DEF EnvoyTick
<1>6. Timeout' = Timeout
  BY <1>5 DEF Timeout
<1>7. QED
  BY <1>1, <1>2, <1>3, <1>4, <1>5, <1>6

LEMMA HostsTick ==
  ASSUME ShapeInv, HostsInv, EnvoyTick, answering' = answering
  PROVE  HostsInv'
<1>1. kind' = kind /\ pushed' = pushed /\ applied' = applied
  BY DEF EnvoyTick
<1>2. Listed' \subseteq Listed
  BY TickTable, TableTypes
<1>3. ASSUME NEW h \in Hosts
      PROVE  /\ state'[h] \in {"new", "healthy", "failing", "readded"} => h \in applied.endpoints
             /\ IsPending(h)' /\ kind # "contagious" => h \notin applied.endpoints
             /\ state'[h] = "readded" => kind = "forgetful"
             /\ state'[h] = "frozen" => kind = "amnesiac"
             /\ state'[h] = "pending" => kind # "hasty"
             /\ state'[h] \in {"new", "failing"} => applied.healthChecks
             /\ age'[h] # 0 => state'[h] \in {"pending", "readded"} /\ age'[h] < Timeout'
  <2>0. state[h] \in States /\ age[h] \in Nat /\ applied \in Clusters
    BY TableTypes
  <2>1. /\ state[h] \in {"new", "healthy", "failing", "readded"} => h \in applied.endpoints
        /\ IsPending(h) /\ kind # "contagious" => h \notin applied.endpoints
        /\ state[h] = "readded" => kind = "forgetful"
        /\ state[h] = "frozen" => kind = "amnesiac"
        /\ state[h] = "pending" => kind # "hasty"
        /\ state[h] \in {"new", "failing"} => applied.healthChecks
    BY DEF HostsInv
  <2>2. /\ state[h] = "absent" => state'[h] = "absent"
        /\ state[h] \in {"pending", "readded", "frozen"} => state'[h] \in {state[h], "absent"}
        /\ state[h] \in {"new", "healthy", "failing"} => state'[h] \in {"new", "healthy", "failing"}
    BY TickHost
  <2>3. state'[h] \in {"new", "failing"} => applied.healthChecks
    <3>1. state[h] = "healthy" /\ ~applied.healthChecks => Checked(h) = "healthy"
      BY DEF Checked
    <3>2. state[h] = "healthy" => ~TimerFires(h)
      BY DEF TimerFires, HasTimer
    <3>3. QED
      BY <2>0, <2>1, <2>2, <3>1, <3>2, TickHost DEF States
  <2>4. age'[h] # 0 => state'[h] \in {"pending", "readded"} /\ age'[h] < Timeout'
    <3>1. age'[h] # 0 => HasTimer(h) /\ state'[h] = state[h] /\ age'[h] = age[h] + 250
      BY TickHost
    <3>2. HasTimer(h) => state[h] \in {"pending", "readded"}
      BY DEF HasTimer
    <3>3. age'[h] # 0 => ~(age[h] + 250 >= Timeout)
      BY <3>1, <3>2, TickHost
    <3>4. Timeout \in Int
      BY <2>0 DEF Timeout, Clusters
    <3>5. QED
      BY <2>0, <3>1, <3>2, <3>3, <3>4, TickHost
  <2>5. QED
    BY <2>0, <2>1, <2>2, <2>3, <2>4 DEF States, IsPending
<1>4. QED
  BY <1>1, <1>2, <1>3 DEF HostsInv, SameConfig

LEMMA HostsReconnect ==
  ASSUME ShapeInv, HostsInv, Reconnect, answering' = answering
  PROVE  HostsInv'
<1>1. kind' = kind /\ pushed' = pushed /\ applied' = applied /\ Timeout' = Timeout
  BY DEF Reconnect, Timeout
<1>2. Listed' = Listed
  BY ReconnectTable, TableTypes
<1>3. \A h \in Hosts :
        /\ state'[h] = IF kind = "amnesiac" /\ state[h] = "pending" THEN "frozen" ELSE state[h]
        /\ age'[h] = IF state'[h] = "frozen" THEN 0 ELSE age[h]
  BY DEF Reconnect
<1>4. QED
  BY <1>1, <1>2, <1>3 DEF HostsInv, SameConfig, IsPending

LEMMA HostsEmpty == EmptyTable => HostsInv'
<1> SUFFICES ASSUME EmptyTable PROVE HostsInv'
  OBVIOUS
<1>1. Listed' = {}
  BY EmptyTableType
<1>2. \A h \in Hosts : state'[h] = "absent" /\ age'[h] = 0
  BY DEF EmptyTable
<1>3. QED
  BY <1>1, <1>2 DEF HostsInv, IsPending

\* Only the configuration matters of what is pushed while Envoy rests.
LEMMA HostsStay ==
  ASSUME HostsInv, UNCHANGED <<kind, envoyVars>>, answering' = answering,
         \/ Listed = {}
         \/ /\ pushed'.timeoutMs = pushed.timeoutMs
            /\ pushed'.healthChecks = pushed.healthChecks
  PROVE  HostsInv'
<1>1. Listed' = Listed /\ Timeout' = Timeout
  BY DEF envoyVars, Listed, Timeout
<1>2. QED
  BY <1>1 DEF HostsInv, SameConfig, IsPending, envoyVars

-----------------------------------------------------------------------------
(* The configuration that is served                                        *)

\* Scripts D and G push a configuration of their own, in their second
\* instruction; no script but E has a third host, and none but G waits for two.
Tame(s, q) ==
  /\ \A i \in 1..Len(q) :
       /\ q[i].op = "config" => i = 2 /\ s \in {"D", "G"}
       /\ s # "E" /\ q[i].op \in {"start", "stop", "add", "remove"} => q[i].on \subseteq Two
       /\ q[i].op = "wait" /\ q[i].condition = "count" /\ q[i].n = 2 => s = "G" /\ i > 2
  /\ Len(q) > 2 /\ q[1].op = "start"
  /\ s = "D" => IsConfig(q[2], 500)
  /\ s = "G" => IsConfigNoHC(q[2], 5000)

LEMMA TameScripts == \A s \in Scenarios : Tame(s, Script(s))
<1>1. Tame("0", Scenario0)
  BY InScenario0 DEF Tame, Two, IsCall, IsAwait, IsSleep, IsStrictSample
<1>2. Tame("A", ScenarioA)
  BY InScenarioA DEF Tame, Two, IsCall, IsAwait, IsTry, IsSleep, IsSample
<1>3. Tame("B", ScenarioB)
  BY InScenarioB DEF Tame, Two, IsCall, IsAwait, IsTry, IsSample
<1>4. Tame("C", ScenarioC)
  BY InScenarioC DEF Tame, Two, IsCall, IsAwait, IsTry, IsSample
<1>5. Tame("D", ScenarioD)
  BY InScenarioD DEF Tame, Two, IsCall, IsAwait, IsMark, IsBound, IsConfig, IsConfigNoHC
<1>6. Tame("E", ScenarioE)
  <2> DEFINE q == ScenarioE
             N == NumHosts
  <2>1. /\ Len(q) = N + 4 /\ N \in Nat
        /\ q[1].op = "start" /\ q[2].op = "add" /\ q[N + 3].op = "remove" /\ q[N + 4].op = "wait"
        /\ q[N + 4].n = 0
    BY InScenarioE, Fields, WaitFields, EnvoyAssumption
  <2>2. \A i \in 3..N + 2 : q[i].op = "wait" /\ q[i].condition = "healthy"
    BY InScenarioE, MadePolls DEF IsAwait
  <2> HIDE DEF q, N
  <2>3. ASSUME NEW i \in 1..N + 4
        PROVE  /\ q[i].op # "config"
               /\ ~(q[i].op = "wait" /\ q[i].condition = "count" /\ q[i].n = 2)
    <3>1. i = 1 \/ i = 2 \/ i \in 3..N + 2 \/ i = N + 3 \/ i = N + 4
      BY <2>1
    <3>2. QED
      BY <2>1, <2>2, <3>1
  <2>4. Tame("E", q)
    BY <2>1, <2>3 DEF Tame
  <2>5. QED
    BY <2>4 DEF q
<1>7. Tame("F", ScenarioF)
  BY InScenarioF DEF Tame, Two, IsCall, IsAwait, IsTry
<1>8. Tame("G", ScenarioG)
  BY InScenarioG DEF Tame, Two, IsCall, IsAwait, IsMark, IsBound, IsConfig, IsConfigNoHC
<1>9. Tame("H", ScenarioH)
  BY InScenarioH DEF Tame, Two, IsCall, IsAwait, IsSample
<1>10. Tame("add/remove/timeout", AddRemoveTimeout)
  BY InAddRemoveTimeout DEF Tame, Two, IsCall, IsAwait, IsMark, IsBound
<1>11. Tame("HC failure", HCFailure)
  BY InHCFailure DEF Tame, Two, IsCall, IsAwait, IsTry
<1>12. Tame("host re-add", HostReAdd)
  BY InHostReAdd DEF Tame, Two, IsCall, IsAwait, IsTry, IsSleep, IsSample
<1>13. Tame("partial removal", PartialRemoval)
  BY InPartialRemoval DEF Tame, Two, IsCall, IsAwait, IsTry, IsSample
<1>14. Tame("long-lived healthy", LongLivedHealthy)
  BY InLongLivedHealthy DEF Tame, Two, IsCall, IsAwait, IsTry, IsSleep, IsSample
<1>15. \A s \in Scenarios : Tame(s, Script(s))
  BY Zenon, <1>1, <1>2, <1>3, <1>4, <1>5, <1>6, <1>7, <1>8, <1>9, <1>10, <1>11, <1>12,
     <1>13, <1>14, AllScenarioNames, ScriptOf DEF StressBodies
<1>16. QED
  BY <1>15

TimeoutOf(s, i) ==
  IF s = "0" THEN 0
  ELSE IF s \in StressBodies THEN 3000
  ELSE IF s = "D" /\ i > 2 THEN 500
  ELSE 5000

ChecksOf(s, i) == ~(s = "G" /\ i > 2)

NothingAdded(q, i) == \A k \in 1..i-1 : q[k].op # "add"

ConfigInv ==
  /\ main \in {"launch", "ready"} =>
       pushed.timeoutMs = ConfigFor(index) /\ pushed.healthChecks
  /\ main = "run" =>
       /\ pushed.timeoutMs = TimeoutOf(scenario, at)
       /\ pushed.healthChecks <=> ChecksOf(scenario, at)
       /\ ~InStress /\ NothingAdded(Script(scenario), at) =>
            Listed = {} /\ pushed.endpoints = {}
       /\ scenario # "E" => Listed \subseteq Two /\ pushed.endpoints \subseteq Two
       /\ child \in {"ready", "dead"}

\* The invariants of the verdicts rest on these.
BaseInv == EndsIInv /\ AnswersInv /\ HostsInv /\ ConfigInv

LEMMA BaseParts ==
  ASSUME BaseInv
  PROVE  /\ ShapeInv /\ ChildInv /\ CleanInv /\ CurrentInv /\ EndsInv
         /\ AnswersInv /\ HostsInv /\ ConfigInv
BY DEF BaseInv, EndsIInv

\* A call.  The backends are left open in G, which does without health checks:
\* there a Start that fails is a call like any other.
Called ==
  /\ Is({"start", "stop", "add", "remove", "config", "mark"})
  /\ at' = at + 1
  /\ waited' = 0
  /\ since' = IF Instruction.op = "mark" THEN 0 ELSE since
  /\ scenario # "G" =>
       backends' = CASE Instruction.op = "start" -> backends \cup Instruction.on
                     [] Instruction.op = "stop"  -> backends \ Instruction.on
                     [] OTHER -> backends
  /\ pushed' = CASE Instruction.op = "add" ->
                      [pushed EXCEPT !.endpoints = @ \cup Instruction.on]
                 [] Instruction.op = "remove" ->
                      [pushed EXCEPT !.endpoints = @ \ Instruction.on]
                 [] Instruction.op = "config" ->
                      [pushed EXCEPT !.timeoutMs = Instruction.timeoutMs,
                                     !.healthChecks = Instruction.healthChecks]
                 [] OTHER -> pushed
  /\ UNCHANGED <<kind, envoyVars, answering, scenario, verdict, lost, crashes, breaks>>
  /\ unstarted \subseteq unstarted' /\ (scenario # "G" => unstarted' = unstarted)

LEMMA CallIsCalled == Call \/ (StartFails /\ scenario = "G") => Called
<1>1. Call => Called
  BY DEF Call, Called, faultVars
<1>2. StartFails /\ scenario = "G" => Called
  BY DEF StartFails, Called, Is
<1>3. QED
  BY <1>1, <1>2

\* What a call does to what is served.
LEMMA CallPushed ==
  ASSUME ShapeInv, Called
  PROVE  /\ pushed'.endpoints = IF Instruction.op = "add"
                                THEN pushed.endpoints \cup Instruction.on
                                ELSE IF Instruction.op = "remove"
                                     THEN pushed.endpoints \ Instruction.on
                                     ELSE pushed.endpoints
         /\ pushed'.timeoutMs = IF Instruction.op = "config"
                                THEN Instruction.timeoutMs ELSE pushed.timeoutMs
         /\ pushed'.healthChecks = IF Instruction.op = "config"
                                   THEN Instruction.healthChecks ELSE pushed.healthChecks
         /\ Instruction.op \notin {"add", "remove", "config"} => pushed' = pushed
<1>0. pushed \in Clusters
  BY TableTypes
<1>1. CASE Instruction.op = "add"
  BY <1>0, <1>1 DEF Called, Clusters
<1>2. CASE Instruction.op = "remove"
  BY <1>0, <1>2 DEF Called, Clusters
<1>3. CASE Instruction.op = "config"
  <2> DEFINE d == [pushed EXCEPT !.timeoutMs = Instruction.timeoutMs]
  <2>1. pushed' = [d EXCEPT !.healthChecks = Instruction.healthChecks]
    BY <1>3 DEF Called
  <2>2. d \in [{"timeoutMs", "healthChecks", "endpoints"} ->
                 {d[f] : f \in {"timeoutMs", "healthChecks", "endpoints"}}]
        /\ d.endpoints = pushed.endpoints /\ d.timeoutMs = Instruction.timeoutMs
    BY <1>0 DEF Clusters
  <2> HIDE DEF d
  <2>3. /\ pushed'.endpoints = d.endpoints /\ pushed'.timeoutMs = d.timeoutMs
        /\ pushed'.healthChecks = Instruction.healthChecks
    BY <2>1, <2>2
  <2>4. QED
    BY <1>3, <2>2, <2>3
<1>4. CASE Instruction.op \notin {"add", "remove", "config"}
  BY <1>4 DEF Called
<1>5. QED
  BY <1>1, <1>2, <1>3, <1>4

\* The ways of a body on, and what they rest on.
Held ==
  /\ UNCHANGED <<pushed, backends, since>>
  /\ \/ Instruction.op = "wait" /\ waited < Instruction.within /\ Seen
     \/ Instruction.op = "wait" /\ waited >= Instruction.within /\ ~Instruction.must
     \/ Instruction.op = "sleep" /\ waited >= Instruction.within
     \/ Instruction.op = "bound" /\ Instruction.lo <= since /\ since <= Instruction.hi
     \/ Instruction.op = "check" /\ answering /\ Satisfies(GetClusterHosts)
     \/ Instruction.op = "check" /\ ~Instruction.strict /\ \E hosts \in HostsRead : Satisfies(hosts)

Advances ==
  /\ InBody
  /\ at' = at + 1 /\ waited' = 0
  /\ UNCHANGED <<kind, envoyVars, answering, scenario, verdict, crashes, breaks>>
  /\ lost' = lost \/ lost' = lost + 1
  /\ unstarted \subseteq unstarted' /\ (scenario # "G" => unstarted' = unstarted)
  /\ Called \/ Held

\* The ways of a body to fail, and what they rest on.
Fails ==
  /\ InBody
  /\ verdict' = "failed"
  /\ \/ Instruction.op = "wait" /\ waited >= Instruction.within /\ Instruction.must
     \/ Instruction.op = "bound" /\ ~(Instruction.lo <= since /\ since <= Instruction.hi)
     \/ Instruction.op = "check" /\ answering /\ lost' = lost /\ ~Satisfies(GetClusterHosts)
     \/ Instruction.op = "check" /\ (~answering \/ lost' = lost + 1)

Returns ==
  /\ verdict = "running"
  /\ UNCHANGED <<kind, pushed, envoyVars, answering, scenario, at, crashes, breaks, unstarted>>
  /\ lost' = lost \/ lost' = lost + 1
  /\ waited' = 0 /\ backends' = {}
  /\ Fails \/ (verdict' = "passed" /\ at = Len(Script(scenario)) + 1 /\ lost' = lost)

\* A Start fails where that matters.
Misses == scenario # "G" /\ StartFails

LEMMA BodyStepIs == BodyStep => Advances \/ Returns \/ Misses
<1> SUFFICES ASSUME BodyStep PROVE Advances \/ Returns \/ Misses
  OBVIOUS
<1>1. CASE Call \/ (StartFails /\ scenario = "G")
  BY <1>1, CallIsCalled DEF Called, Is, Advances
<1>2. CASE PollSucceeds
  BY <1>2 DEF PollSucceeds, Continue, Is, Advances, Held, faultVars
<1>3. CASE TimeIsUp
  <2>1. CASE Instruction.op = "sleep" \/ ~Instruction.must
    BY <1>3, <2>1 DEF TimeIsUp, ContinueIf, Continue, Is, Advances, Held, faultVars
  <2>2. CASE ~(Instruction.op = "sleep" \/ ~Instruction.must)
    BY <1>3, <2>2 DEF TimeIsUp, ContinueIf, Return, Is, InBody, Returns, Fails, faultVars
  <2>3. QED
    BY <2>1, <2>2
<1>4. CASE CompareElapsed
  <2>1. CASE Instruction.lo <= since /\ since <= Instruction.hi
    BY <1>4, <2>1 DEF CompareElapsed, ContinueIf, Continue, Is, Advances, Held, faultVars
  <2>2. CASE ~(Instruction.lo <= since /\ since <= Instruction.hi)
    BY <1>4, <2>2 DEF CompareElapsed, ContinueIf, Return, Is, InBody, Returns, Fails, faultVars
  <2>3. QED
    BY <2>1, <2>2
<1>5. CASE TakeSample
  <2>1. CASE Satisfies(GetClusterHosts)
    BY <1>5, <2>1 DEF TakeSample, ContinueIf, Continue, Is, Advances, Held, faultVars
  <2>2. CASE ~Satisfies(GetClusterHosts)
    BY <1>5, <2>2 DEF TakeSample, ContinueIf, Return, Is, InBody, Returns, Fails, faultVars
  <2>3. QED
    BY <2>1, <2>2
<1>6. CASE SampleFails
  <2>1. PICK hosts \in HostsRead : ContinueIf(~Instruction.strict /\ Satisfies(hosts))
    BY <1>6 DEF SampleFails, HostsRead
  <2>2. CASE ~Instruction.strict /\ Satisfies(hosts)
    BY <1>6, <2>1, <2>2 DEF SampleFails, ContinueIf, Continue, Is, Advances, Held
  <2>3. CASE ~(~Instruction.strict /\ Satisfies(hosts))
    BY <1>6, <2>1, <2>3 DEF SampleFails, ContinueIf, Return, Is, InBody, Returns, Fails
  <2>4. QED
    BY <2>2, <2>3
<1>7. CASE Pass
  BY <1>7 DEF Pass, Return, Returns, faultVars
<1>8. QED
  BY <1>1, <1>2, <1>3, <1>4, <1>5, <1>6, <1>7 DEF BodyStep, Misses

\* The ways of Envoy's table.
LEMMA TableMoves ==
  ASSUME ChildInv, [Next]_vars
  PROVE  \/ UNCHANGED <<kind, envoyVars, answering>>
         \/ EmptyTable /\ UNCHANGED <<kind, pushed>>
         \/ /\ answering /\ answering' = answering
            /\ Apply \/ EnvoyTick \/ Reconnect
<1>1. CASE MainStep
  <2>1. CASE StopEnvoy
    BY <2>1 DEF StopEnvoy, ChildInv
  <2>2. CASE main = "run" /\ BodyStep /\ UNCHANGED <<processVars, reportVars>>
    BY <2>2, BodyStepRest
  <2>3. CASE StartEnvoy \/ StopServer
    BY <2>3 DEF StartEnvoy, StopServer, scenarioVars
  <2>4. CASE UnknownProfile \/ EnvoyIsNotReady \/ Exit
    BY <2>4 DEF UnknownProfile, EnvoyIsNotReady, Exit, EndProcess
  <2>5. CASE StartServer \/ EnvoyIsReady \/ NextBody \/ Finish
    BY <2>5 DEF StartServer, EnvoyIsReady, NextBody, Finish
  <2>6. QED
    BY <1>1, <2>1, <2>2, <2>3, <2>4, <2>5 DEF MainStep
<1>2. CASE SetupFails
  BY <1>2 DEF SetupFails, EndProcess
<1>3. CASE EnvoyBecomesReady \/ OrphanBecomesReady \/ EnvoyCrashes
  BY <1>3 DEF EnvoyBecomesReady, OrphanBecomesReady, EnvoyCrashes
<1>4. CASE EnvoyApplies \/ StreamBreaks
  BY <1>4 DEF EnvoyApplies, StreamBreaks
<1>5. CASE Passage
  BY <1>5 DEF Passage, Tick
<1>6. CASE CallHangs \/ Exited \/ UNCHANGED vars
  BY <1>6 DEF CallHangs, Exited, vars, scenarioVars
<1>7. QED
  BY <1>1, <1>2, <1>3, <1>4, <1>5, <1>6 DEF Next, EnvoyStep

\* Scripts push a configuration before they add an endpoint.
LEMMA ConfigCall ==
  ASSUME BaseInv, main = "run", Called, Instruction.op = "config"
  PROVE  /\ Listed = {} /\ at = 2
         /\ \/ /\ scenario = "D" /\ Instruction.timeoutMs = 500 /\ Instruction.healthChecks
            \/ /\ scenario = "G" /\ Instruction.timeoutMs = 5000 /\ ~Instruction.healthChecks
<1>1. InBody /\ ShapeInv /\ CurrentInv /\ ConfigInv
  BY BaseParts DEF Called, Is
<1>2. Tame(scenario, Script(scenario)) /\ at \in 1..Len(Script(scenario))
  BY <1>1, TameScripts, TableTypes DEF InBody
<1>3. at = 2 /\ scenario \in {"D", "G"}
  BY <1>2 DEF Tame, Instruction
<1>4. ~InStress
  BY <1>1, <1>3 DEF CurrentInv, StressBodies
<1>5. NothingAdded(Script(scenario), at)
  BY <1>2, <1>3 DEF Tame, NothingAdded
<1>6. Listed = {}
  BY <1>1, <1>4, <1>5 DEF ConfigInv
<1>7. QED
  BY <1>2, <1>3, <1>6 DEF Tame, Instruction, IsConfig, IsConfigNoHC

LEMMA ConfigMoves ==
  ASSUME BaseInv, [Next]_vars
  PROVE  \/ Listed = {}
         \/ /\ pushed'.timeoutMs = pushed.timeoutMs
            /\ pushed'.healthChecks = pushed.healthChecks
<1>0. ShapeInv /\ CleanInv /\ pushed \in Clusters
  BY BaseParts, TableTypes
<1>1. CASE StartServer
  BY <1>0, <1>1 DEF StartServer, CleanInv
<1>2. CASE main = "run" /\ BodyStep
  <2>1. CASE Called
    BY <1>0, <1>2, <2>1, ConfigCall, CallPushed
  <2>2. CASE ~Called
    BY <1>2, <2>2, BodyStepIs DEF Advances, Held, Returns, Misses, StartFails
  <2>3. QED
    BY <2>1, <2>2
<1>3. CASE Finish
  BY <1>0, <1>3 DEF Finish, Clusters
<1>4. CASE MainStep /\ ~StartServer /\ ~Finish /\ ~(main = "run" /\ BodyStep)
  <2>1. pushed' = pushed
    BY <1>4 DEF MainStep, UnknownProfile, StartEnvoy, EnvoyIsReady, EnvoyIsNotReady, NextBody,
                StopEnvoy, StopServer, Exit, EndProcess, scenarioVars
  <2>2. QED
    BY <2>1
<1>5. CASE SetupFails \/ EnvoyStep \/ EnvoyCrashes \/ StreamBreaks \/ CallHangs \/ Passage
           \/ Exited \/ UNCHANGED vars
  <2>1. pushed' = pushed
    BY <1>5 DEF SetupFails, EndProcess, EnvoyStep, EnvoyBecomesReady, OrphanBecomesReady,
                EnvoyApplies, Apply, EnvoyCrashes, StreamBreaks, Reconnect, CallHangs, Passage,
                Tick, EnvoyTick, Exited, vars, scenarioVars
  <2>2. QED
    BY <2>1
<1>6. QED
  BY <1>1, <1>2, <1>3, <1>4, <1>5 DEF Next

LEMMA HostsNext == BaseInv /\ [Next]_vars => HostsInv'
<1> SUFFICES ASSUME BaseInv, [Next]_vars PROVE HostsInv'
  OBVIOUS
<1>0. ShapeInv /\ ChildInv /\ HostsInv
  BY BaseParts
<1>1. CASE UNCHANGED <<kind, envoyVars, answering>>
  BY <1>0, <1>1, ConfigMoves, HostsStay
<1>2. CASE EmptyTable
  BY <1>2, HostsEmpty
<1>3. CASE answering /\ answering' = answering /\ (Apply \/ EnvoyTick \/ Reconnect)
  BY <1>0, <1>3, HostsApply, HostsTick, HostsReconnect
<1>4. QED
  BY <1>0, <1>1, <1>2, <1>3, TableMoves

LEMMA IsolatedNames ==
  \A i \in 1..9 : AllIsolatedScenarios[i] \in {"0", "A", "B", "C", "D", "E", "F", "G", "H"}
<1> DEFINE q == AllIsolatedScenarios
<1>1. /\ q[1] = "0" /\ q[2] = "A" /\ q[3] = "B" /\ q[4] = "C" /\ q[5] = "D"
      /\ q[6] = "E" /\ q[7] = "F" /\ q[8] = "G" /\ q[9] = "H"
  BY DEF AllIsolatedScenarios
<1> HIDE DEF q
<1>2. \A i \in 1..9 : q[i] \in {"0", "A", "B", "C", "D", "E", "F", "G", "H"}
  BY <1>1
<1>3. QED
  BY <1>2 DEF q

LEMMA NamesDiffer ==
  \A s \in StressBodies : s \notin {"0", "A", "B", "C", "D", "E", "F", "G", "H"}
BY DEF StressBodies

LEMMA ConfigBegins ==
  ASSUME BaseInv, NEW s, Begin(s), main' = "run", UNCHANGED <<pushed, envoyVars, index>>,
         child' \in {"ready", "dead"},
         s \in IF InStress THEN StressBodies ELSE {AllIsolatedScenarios[index]},
         main = "ready" \/ (main = "run" /\ InStress)
  PROVE  ConfigInv'
<1>0. ShapeInv /\ CleanInv /\ CurrentInv /\ ConfigInv /\ index \in 1..10 /\ NumIsolated = 9
  BY BaseParts, HowManyIsolated DEF ShapeInv, ProcessOK
<1>1. s = "0" <=> index = 1
  <2>1. CASE InStress
    <3>1. s \in StressBodies /\ index = 10
      BY <1>0, <2>1 DEF InStress
    <3>2. QED
      BY <3>1, NamesDiffer
  <2>2. CASE ~InStress
    <3>1. index \in 1..9 /\ s = AllIsolatedScenarios[index]
      BY <1>0, <2>2 DEF InStress
    <3>2. /\ AllIsolatedScenarios[1] = "0"
          /\ \A i \in 2..9 : AllIsolatedScenarios[i] # "0"
      BY DEF AllIsolatedScenarios
    <3>3. QED
      BY <3>1, <3>2
  <2>3. QED
    BY <2>1, <2>2
<1>2. s \in StressBodies <=> index = 10
  <2>1. CASE InStress
    BY <1>0, <2>1 DEF InStress
  <2>2. CASE ~InStress
    <3>1. index \in 1..9 /\ s = AllIsolatedScenarios[index]
      BY <1>0, <2>2 DEF InStress
    <3>2. s \in {"0", "A", "B", "C", "D", "E", "F", "G", "H"}
      BY <3>1, IsolatedNames
    <3>3. QED
      BY <3>1, <3>2, NamesDiffer
  <2>3. QED
    BY <2>1, <2>2
<1>3. scenario' = s /\ at' = 1
  BY DEF Begin
<1>4. ConfigFor(index) = TimeoutOf(s, 1)
  BY <1>0, <1>1, <1>2 DEF ConfigFor, TimeoutOf
<1>5. pushed.timeoutMs = TimeoutOf(s, 1) /\ pushed.healthChecks
  <2>1. CASE main = "ready"
    BY <1>0, <1>4, <2>1 DEF ConfigInv
  <2>2. CASE main = "run" /\ InStress
    <3>1. scenario \in StressBodies /\ s \in StressBodies
      BY <1>0, <2>2 DEF CurrentInv
    <3>2. pushed.timeoutMs = TimeoutOf(scenario, at) /\ (pushed.healthChecks <=> ChecksOf(scenario, at))
      BY <1>0, <2>2 DEF ConfigInv
    <3>3. TimeoutOf(scenario, at) = 3000 /\ ChecksOf(scenario, at) /\ TimeoutOf(s, 1) = 3000
      BY <3>1, NamesDiffer DEF TimeoutOf, ChecksOf
    <3>4. QED
      BY <3>2, <3>3
  <2>3. QED
    BY <2>1, <2>2
<1>6. Listed' = Listed
  BY DEF envoyVars, Listed
<1>7. ChecksOf(s, 1)
  BY DEF ChecksOf
<1>8. CASE main = "ready"
  <2>1. pushed.endpoints = {} /\ Listed = {}
    BY <1>0, <1>8 DEF CleanInv
  <2>2. QED
    BY <1>3, <1>5, <1>6, <1>7, <2>1 DEF ConfigInv
<1>9. CASE main = "run" /\ InStress
  <2>1. Listed \subseteq Two /\ pushed.endpoints \subseteq Two
    BY <1>0, <1>9 DEF ConfigInv, CurrentInv, StressBodies
  <2>2. InStress'
    BY <1>9 DEF InStress, NumIsolated
  <2>3. QED
    BY <1>3, <1>5, <1>6, <1>7, <2>1, <2>2 DEF ConfigInv
<1>10. QED
  BY <1>8, <1>9

LEMMA ConfigBody ==
  ASSUME BaseInv, main = "run", BodyStep, UNCHANGED <<main, index, child>>
  PROVE  ConfigInv'
<1>0. ShapeInv /\ CurrentInv /\ ConfigInv /\ pushed \in Clusters
  BY BaseParts, TableTypes
<1>1. Listed' = Listed /\ InStress' = InStress /\ at \in Nat \ {0}
  BY <1>0, BodyStepRest, TableTypes DEF envoyVars, Listed, InStress, NumIsolated
<1>2. /\ pushed.timeoutMs = TimeoutOf(scenario, at)
      /\ pushed.healthChecks <=> ChecksOf(scenario, at)
      /\ ~InStress /\ NothingAdded(Script(scenario), at) =>
           Listed = {} /\ pushed.endpoints = {}
      /\ scenario # "E" => Listed \subseteq Two /\ pushed.endpoints \subseteq Two
      /\ child \in {"ready", "dead"}
  BY <1>0 DEF ConfigInv
<1>3. CASE Returns
  BY <1>1, <1>2, <1>3 DEF Returns, ConfigInv
<1>4. CASE Advances
  <2>0. /\ at' = at + 1 /\ scenario' = scenario /\ InBody
        /\ Tame(scenario, Script(scenario)) /\ at \in 1..Len(Script(scenario))
    BY <1>0, <1>4, TameScripts, TableTypes DEF Advances, InBody
  <2>1. Instruction.op # "config" =>
          TimeoutOf(scenario, at + 1) = TimeoutOf(scenario, at)
          /\ (ChecksOf(scenario, at + 1) <=> ChecksOf(scenario, at))
    <3>1. Instruction.op # "config" /\ scenario \in {"D", "G"} => at # 2
      BY <2>0 DEF Tame, Instruction, IsConfig, IsConfigNoHC
    <3>2. QED
      BY <2>0, <3>1 DEF TimeoutOf, ChecksOf
  <2>2. NothingAdded(Script(scenario), at + 1) =>
          NothingAdded(Script(scenario), at) /\ Instruction.op # "add"
    BY <2>0 DEF NothingAdded, Instruction
  <2>3. CASE Called
    <3>1. CASE Instruction.op = "config"
      <4>1. at = 2 /\ scenario \in {"D", "G"} /\ scenario \notin StressBodies
        BY <2>3, <3>1, ConfigCall, NamesDiffer
      <4>2. /\ pushed'.timeoutMs = TimeoutOf(scenario, 3)
            /\ pushed'.healthChecks <=> ChecksOf(scenario, 3)
            /\ pushed'.endpoints = pushed.endpoints
        BY <1>0, <2>3, <3>1, <4>1, ConfigCall, CallPushed DEF TimeoutOf, ChecksOf
      <4>3. QED
        BY <1>1, <1>2, <2>0, <2>2, <4>1, <4>2 DEF ConfigInv
    <3>2. CASE Instruction.op # "config"
      <4>1. /\ pushed'.timeoutMs = pushed.timeoutMs
            /\ pushed'.healthChecks = pushed.healthChecks
        BY <1>0, <2>3, <3>2, CallPushed
      <4>2. pushed.endpoints = {} /\ Instruction.op # "add" => pushed'.endpoints = {}
        BY <1>0, <2>3, CallPushed
      <4>3. scenario # "E" /\ Instruction.op = "add" => Instruction.on \subseteq Two
        BY <2>0 DEF Tame, Instruction
      <4>4. scenario # "E" => pushed'.endpoints \subseteq Two
        BY <1>0, <1>2, <2>3, <4>3, CallPushed
      <4>5. QED
        BY <1>1, <1>2, <2>0, <2>1, <2>2, <3>2, <4>1, <4>2, <4>4 DEF ConfigInv
    <3>3. QED
      BY <3>1, <3>2
  <2>4. CASE Held
    <3>1. pushed' = pushed /\ Instruction.op # "config" /\ Instruction.op # "add"
      BY <2>4 DEF Held
    <3>2. QED
      BY <1>1, <1>2, <2>0, <2>1, <2>2, <3>1 DEF ConfigInv
  <2>5. QED
    BY <1>4, <2>3, <2>4 DEF Advances
<1>5. CASE Misses
  <2>0. /\ at' = at + 1 /\ scenario' = scenario /\ pushed' = pushed /\ Instruction.op = "start"
        /\ InBody
    BY <1>5 DEF Misses, StartFails, Is
  <2>1. Tame(scenario, Script(scenario)) /\ at \in 1..Len(Script(scenario))
    BY <1>0, <2>0, TameScripts, TableTypes DEF InBody
  <2>2. scenario \in {"D", "G"} => at # 2
    BY <2>0, <2>1 DEF Tame, Instruction, IsConfig, IsConfigNoHC
  <2>3. NothingAdded(Script(scenario), at + 1) => NothingAdded(Script(scenario), at)
    BY <2>1 DEF NothingAdded
  <2>4. TimeoutOf(scenario, at + 1) = TimeoutOf(scenario, at)
        /\ (ChecksOf(scenario, at + 1) <=> ChecksOf(scenario, at))
    BY <2>1, <2>2 DEF TimeoutOf, ChecksOf
  <2>5. QED
    BY <1>1, <1>2, <2>0, <2>3, <2>4 DEF ConfigInv
<1>6. QED
  BY <1>3, <1>4, <1>5, BodyStepIs

LEMMA ConfigTable ==
  ASSUME ShapeInv, ConfigInv, UNCHANGED <<main, index, pushed, scenario, at>>,
         main = "run" => child' \in {"ready", "dead"},
         Listed' \subseteq Listed \/ Apply
  PROVE  ConfigInv'
<1>1. Listed = {} /\ pushed.endpoints = {} => Listed' = {}
  BY ApplyTable, TableTypes
<1>2. Listed \subseteq Two /\ pushed.endpoints \subseteq Two => Listed' \subseteq Two
  <2>1. SUFFICES ASSUME Listed \subseteq Two, pushed.endpoints \subseteq Two, Apply,
                        NEW h \in Hosts, h \notin Two
                 PROVE  state'[h] = "absent"
    BY DEF Listed
  <2>2. state[h] = "absent" /\ h \notin pushed.endpoints /\ Removed("absent") = "absent"
    BY <2>1, NewStates DEF Listed
  <2>3. h \in Leaving
    BY <2>2 DEF Leaving
  <2>4. QED
    BY <2>1, <2>2, <2>3 DEF Apply
<1>3. QED
  BY <1>1, <1>2 DEF ConfigInv, InStress, NumIsolated

LEMMA ConfigNext == BaseInv /\ [Next]_vars => ConfigInv'
<1> SUFFICES ASSUME BaseInv, [Next]_vars PROVE ConfigInv'
  OBVIOUS
<1> USE DEF processVars, reportVars
<1>0. /\ ShapeInv /\ ChildInv /\ CleanInv /\ CurrentInv /\ ConfigInv /\ AnswersInv
      /\ pushed \in Clusters
  BY BaseParts, TableTypes
<1>1. ASSUME main' \notin {"launch", "ready", "run"}
      PROVE  ConfigInv'
  BY <1>1 DEF ConfigInv
<1>2. CASE StartServer
  BY <1>0, <1>2 DEF StartServer, ConfigInv, Clusters
<1>3. CASE StartEnvoy
  BY <1>0, <1>3 DEF StartEnvoy, ConfigInv, scenarioVars
<1>4. CASE EnvoyIsReady
  <2>1. PICK s \in IF InStress THEN StressBodies ELSE {AllIsolatedScenarios[index]} : Begin(s)
    BY <1>4 DEF EnvoyIsReady
  <2>2. /\ main = "ready" /\ main' = "run" /\ child' = child /\ child = "ready"
        /\ UNCHANGED <<pushed, envoyVars, index>>
    BY <1>0, <1>4 DEF EnvoyIsReady, AnswersInv
  <2>3. QED
    BY <2>1, <2>2, ConfigBegins
<1>5. CASE NextBody
  <2>1. PICK s \in StressBodies : Begin(s)
    BY <1>5 DEF NextBody
  <2>2. /\ main = "run" /\ main' = "run" /\ child' = child /\ InStress
        /\ UNCHANGED <<pushed, envoyVars, index>>
    BY <1>5 DEF NextBody, Judged
  <2>3. child' \in {"ready", "dead"}
    BY <1>0, <2>2 DEF ConfigInv
  <2>4. QED
    BY <2>1, <2>2, <2>3, ConfigBegins
<1>6. CASE main = "run" /\ BodyStep /\ UNCHANGED <<processVars, reportVars>>
  BY <1>6, ConfigBody
<1>7. CASE UnknownProfile \/ EnvoyIsNotReady \/ Exit \/ SetupFails
  BY <1>1, <1>7 DEF UnknownProfile, EnvoyIsNotReady, Exit, SetupFails, EndProcess
<1>8. CASE Finish \/ StopEnvoy \/ StopServer
  BY <1>1, <1>8 DEF Finish, StopEnvoy, StopServer
<1>9. CASE EnvoyBecomesReady \/ OrphanBecomesReady \/ EnvoyCrashes
  <2>1. Listed' = {} /\ UNCHANGED <<main, index, pushed, scenario, at>>
    BY <1>9, EmptyTableType
    DEF EnvoyBecomesReady, OrphanBecomesReady, EnvoyCrashes, bodyVars
  <2>2. main = "run" => child' \in {"ready", "dead"}
    BY <1>0, <1>9 DEF EnvoyBecomesReady, OrphanBecomesReady, EnvoyCrashes, ConfigInv
  <2>3. QED
    BY <1>0, <2>1, <2>2, ConfigTable
<1>10. CASE StreamBreaks
  <2>1. Listed' = Listed /\ UNCHANGED <<main, index, child, pushed, scenario, at>>
    BY <1>0, <1>10, ReconnectTable, TableTypes DEF StreamBreaks, Reconnect, bodyVars
  <2>2. QED
    BY <1>0, <2>1, ConfigTable DEF ConfigInv
<1>11. CASE EnvoyApplies /\ UNCHANGED <<processVars, reportVars>>
  <2>1. Apply /\ UNCHANGED <<main, index, child, pushed, scenario, at>>
    BY <1>11 DEF EnvoyApplies, Apply, bodyVars
  <2>2. QED
    BY <1>0, <2>1, ConfigTable DEF ConfigInv
<1>12. CASE Passage
  <2>1. Listed' \subseteq Listed
    BY <1>0, <1>12, TickTable, TableTypes DEF Passage, Tick, envoyVars, Listed
  <2>2. UNCHANGED <<main, index, child, pushed, scenario, at>>
    BY <1>12 DEF Passage, Tick, EnvoyTick
  <2>3. QED
    BY <1>0, <2>1, <2>2, ConfigTable DEF ConfigInv
<1>13. CASE Exited \/ UNCHANGED vars
  <2>1. Listed' = Listed /\ UNCHANGED <<main, index, child, pushed, scenario, at>>
    BY <1>13 DEF Exited, vars, scenarioVars, bodyVars, envoyVars, Listed
  <2>2. QED
    BY <1>0, <2>1, ConfigTable DEF ConfigInv
<1>14. CASE CallHangs
  BY <1>1, <1>14 DEF CallHangs
<1>15. QED
  BY <1>2, <1>3, <1>4, <1>5, <1>6, <1>7, <1>8, <1>9, <1>10, <1>11, <1>12, <1>13, <1>14
  DEF Next, MainStep, EnvoyStep

LEMMA BaseInitially == Init => BaseInv
<1> SUFFICES ASSUME Init PROVE BaseInv
  OBVIOUS
<1>1. EndsIInv
  BY NoVerdictEnds, ShapeInitially, ChildInitially, CleanInitially, CurrentInitially
  DEF EndsIInv, EndsInv, Init
<1>2. Listed = {}
  BY DEF Init, EnvoyInit, Listed
<1>3. HostsInv
  BY <1>2 DEF Init, EnvoyInit, HostsInv, IsPending
<1>4. AnswersInv /\ ConfigInv
  BY DEF Init, AnswersInv, ConfigInv
<1>5. QED
  BY <1>1, <1>3, <1>4 DEF BaseInv

LEMMA BaseNext == BaseInv /\ [Next]_vars => BaseInv'
<1> SUFFICES ASSUME BaseInv, [Next]_vars PROVE BaseInv'
  OBVIOUS
<1>1. EndsIInv'
  BY ShapeNext, ChildNext, CleanNext, CurrentNext, EndsNext DEF EndsIInv, BaseInv
<1>2. AnswersInv'
  BY AnswersNext, BaseParts
<1>3. QED
  BY <1>1, <1>2, HostsNext, ConfigNext DEF BaseInv

-----------------------------------------------------------------------------
(* The steps of a body                                                     *)

\* The backends that the body has started run, and so did those of the stress
\* bodies before it.  G does without health checks and never sees the difference.
Backed ==
  \/ scenario = "G"
  \/ scenario \notin unstarted /\ (scenario \in StressBodies => StressBodies \cap unstarted = {})

Running == main = "run" /\ verdict = "running" /\ Backed

LEMMA BackedBefore ==
  ASSUME Backed', scenario' = scenario, unstarted \subseteq unstarted'
  PROVE  Backed
BY DEF Backed

LEMMA MissesShow == Misses => ~Backed'
BY DEF Misses, StartFails, Backed

\* A body begins, on the table that is there.
Begins ==
  /\ \E s \in Scenarios : Begin(s)
  /\ UNCHANGED <<kind, pushed, envoyVars, backends, answering, faultVars>>

\* Time passes.
Ticks ==
  /\ InBody /\ Instruction.op \in {"wait", "sleep"} /\ waited < Instruction.within
  /\ waited' = waited + 250
  /\ since' = IF since >= 0 THEN since + 250 ELSE since
  /\ IF Instruction.op = "wait" /\ Seen THEN lost' = lost + 1 ELSE lost' = lost
  /\ IF answering THEN EnvoyTick ELSE UNCHANGED <<kind, pushed, envoyVars, backends>>
  /\ UNCHANGED <<answering, scenario, at, verdict, crashes, breaks, unstarted>>

\* Envoy changes its table, or goes.
Applies == answering /\ Apply /\ UNCHANGED <<answering, bodyVars, faultVars>>
Breaks  == answering /\ Reconnect /\ UNCHANGED <<answering, bodyVars, lost, crashes, unstarted>>
Dies ==
  /\ EmptyTable /\ answering' = FALSE /\ crashes' = crashes + 1
  /\ UNCHANGED <<kind, pushed, backends, bodyVars, lost, breaks, unstarted>>

\* Where a body runs after a step, it has begun or gone on with it.
LEMMA RunningSteps ==
  ASSUME BaseInv, [Next]_vars, Running'
  PROVE  \/ Begins /\ (main = "run" => InStress)
         \/ Running /\ Advances
         \/ Running /\ (Ticks \/ Applies \/ Breaks \/ Dies \/ UNCHANGED scenarioVars)
<1> USE DEF processVars, reportVars
<1>0. /\ ShapeInv /\ ChildInv /\ CurrentInv /\ ConfigInv
      /\ main' = "run" /\ verdict' = "running" /\ Backed'
  BY BaseParts DEF Running
<1>1. CASE EnvoyIsReady
  <2>1. PICK s \in IF InStress THEN StressBodies ELSE {AllIsolatedScenarios[index]} : Begin(s)
    BY <1>1 DEF EnvoyIsReady
  <2>2. s \in Scenarios
    BY <1>0, <2>1, HowManyIsolated DEF InStress, ShapeInv, ProcessOK
  <2>3. QED
    BY <1>1, <2>1, <2>2 DEF EnvoyIsReady, Begins
<1>2. CASE NextBody
  <2>1. PICK s \in StressBodies : Begin(s)
    BY <1>2 DEF NextBody
  <2>2. QED
    BY <1>2, <2>1, HowManyIsolated DEF NextBody, Begins
<1>3. CASE main = "run" /\ BodyStep /\ UNCHANGED <<processVars, reportVars>>
  <2>1. ~Returns
    BY <1>0 DEF Returns, Fails
  <2>2. Advances
    BY <1>0, <1>3, <2>1, BodyStepIs, MissesShow
  <2>3. Backed
    BY <1>0, <2>2, BackedBefore DEF Advances
  <2>4. QED
    BY <1>3, <2>2, <2>3 DEF Running, Advances, InBody
<1>4. CASE Passage
  <2>1. Ticks
    BY <1>4 DEF Passage, Tick, Is, Ticks, TickMs, InBody
  <2>2. main = "run" /\ verdict = "running" /\ Backed
    BY <1>0, <1>4, <2>1, BackedBefore DEF Passage, Ticks
  <2>3. QED
    BY <2>1, <2>2 DEF Running
<1>5. CASE EnvoyApplies /\ UNCHANGED <<processVars, reportVars>>
  BY <1>0, <1>5, BackedBefore DEF EnvoyApplies, Applies, bodyVars, faultVars, Running
<1>6. CASE StreamBreaks
  BY <1>0, <1>6, BackedBefore DEF StreamBreaks, Breaks, bodyVars, Running
<1>7. CASE EnvoyCrashes
  BY <1>0, <1>7, BackedBefore DEF EnvoyCrashes, Dies, bodyVars, Running
<1>8. CASE EnvoyBecomesReady \/ OrphanBecomesReady
  BY <1>0, <1>8 DEF EnvoyBecomesReady, OrphanBecomesReady, ConfigInv, ChildInv
<1>9. CASE Exited \/ UNCHANGED vars
  BY <1>0, <1>9, BackedBefore DEF Exited, vars, scenarioVars, bodyVars, faultVars, Running
<1>10. CASE CallHangs \/ StartServer \/ UnknownProfile \/ StartEnvoy \/ EnvoyIsNotReady \/ Exit \/ SetupFails
            \/ Finish \/ StopEnvoy \/ StopServer
  BY <1>0, <1>10 DEF CallHangs, StartServer, UnknownProfile, StartEnvoy, EnvoyIsNotReady, Exit,
                     SetupFails, EndProcess, Finish, StopEnvoy, StopServer
<1>11. QED
  BY <1>1, <1>2, <1>3, <1>4, <1>5, <1>6, <1>7, <1>8, <1>9, <1>10 DEF Next, MainStep, EnvoyStep

-----------------------------------------------------------------------------
(* What a script has done to a host before its instruction i               *)

Calls(q, k, op, h) == q[k].op = op /\ h \in q[k].on

Started(q, i, h) ==
  /\ \E k \in 1..i-1 : Calls(q, k, "start", h)
  /\ \A k \in 1..i-1 : ~Calls(q, k, "stop", h)

Added(q, i, h) ==
  /\ \E k \in 1..i-1 : Calls(q, k, "add", h)
  /\ \A k \in 1..i-1 : ~Calls(q, k, "remove", h)

NothingRemoved(q, i) == \A k \in 1..i-1 : q[k].op # "remove"

\* A poll that must succeed and then has found h healthy.
Confirms(q, w, h) ==
  /\ q[w].op = "wait" /\ q[w].must
  /\ \/ q[w].condition = "healthy" /\ q[w].n = h
     \/ q[w].condition = "count" /\ q[w].n = 2 /\ h \in Two

ConfirmedAt(q, w, h) ==
  Confirms(q, w, h) /\ Started(q, w, h) /\ Added(q, w, h) /\ NothingRemoved(q, w)

\* h was found healthy, and its backend still runs.
WasUp(q, i, h) ==
  /\ \E w \in 1..i-1 : ConfirmedAt(q, w, h) /\ \A k \in w..i-1 : q[k].op # "config"
  /\ Started(q, i, h)

\* It is to be healthy still.
Up(q, i, h) == WasUp(q, i, h) /\ Added(q, i, h)

\* r removes healthy hosts, and the next poll, p, looks for that.
Removal(q, r, p) ==
  /\ r \in 1..Len(q) /\ p \in 1..Len(q)
  /\ q[r].op = "remove" /\ q[r].on # {}
  /\ \A h \in q[r].on : Up(q, r, h)
  /\ r < p /\ \A k \in r+1..p-1 : q[k].op = "mark"
  /\ q[p].op = "wait" /\ q[p].within >= 3000
  /\ \/ q[p].condition \in {"flag", "gone"} /\ q[p].n \in q[r].on
     \/ q[p].condition = "count" /\ q[p].n = 0

Keeps(q, i, j) == \A k \in i..j-1 : q[k].op \notin {"add", "remove", "config"}

After(q, r, p, i) == Removal(q, r, p) /\ r < i /\ Keeps(q, r + 1, i)

LEMMA StartedLater ==
  ASSUME NEW q, NEW i \in Nat \ {0}, NEW h, Started(q, i + 1, h)
  PROVE  ~Calls(q, i, "stop", h) /\ (Started(q, i, h) \/ Calls(q, i, "start", h))
BY DEF Started

LEMMA AddedLater ==
  ASSUME NEW q, NEW i \in Nat \ {0}, NEW h, Added(q, i + 1, h)
  PROVE  ~Calls(q, i, "remove", h) /\ (Added(q, i, h) \/ Calls(q, i, "add", h))
BY DEF Added

LEMMA RemovedLater ==
  ASSUME NEW q, NEW i \in Nat \ {0}, NothingRemoved(q, i + 1)
  PROVE  NothingRemoved(q, i) /\ q[i].op # "remove"
BY DEF NothingRemoved

LEMMA NothingYet ==
  ASSUME NEW q, NEW h
  PROVE  ~Started(q, 1, h) /\ ~Added(q, 1, h) /\ ~WasUp(q, 1, h) /\ ~Up(q, 1, h)
BY DEF Started, Added, WasUp, Up

LEMMA UpLater ==
  ASSUME NEW q, NEW i \in Nat \ {0}, NEW h, WasUp(q, i + 1, h)
  PROVE  q[i].op # "config" /\ (WasUp(q, i, h) \/ ConfirmedAt(q, i, h))
<1>1. PICK w \in 1..i : ConfirmedAt(q, w, h) /\ \A k \in w..i : q[k].op # "config"
  BY DEF WasUp
<1>2. q[i].op # "config"
  BY <1>1
<1>3. CASE w = i
  BY <1>1, <1>2, <1>3
<1>4. CASE w # i
  <2>1. w \in 1..i-1 /\ \A k \in w..i-1 : q[k].op # "config"
    BY <1>1, <1>4
  <2>2. PICK k \in 1..w-1 : Calls(q, k, "start", h)
    BY <1>1 DEF ConfirmedAt, Started
  <2>3. \A j \in 1..i : ~Calls(q, j, "stop", h)
    BY DEF WasUp, Started
  <2>4. Started(q, i, h)
    BY <2>1, <2>2, <2>3 DEF Started
  <2>5. QED
    BY <1>1, <1>2, <2>1, <2>4 DEF WasUp
<1>5. QED
  BY <1>3, <1>4

LEMMA AddedWhileUp ==
  ASSUME NEW q, NEW i \in Nat \ {0}, NEW h, Up(q, i + 1, h)
  PROVE  q[i].op # "config" /\ (Up(q, i, h) \/ ConfirmedAt(q, i, h))
<1>1. PICK w \in 1..i : ConfirmedAt(q, w, h) /\ \A k \in w..i : q[k].op # "config"
  BY DEF Up, WasUp
<1>2. q[i].op # "config" /\ (WasUp(q, i, h) \/ ConfirmedAt(q, i, h))
  BY UpLater DEF Up
<1>3. CASE w = i
  BY <1>1, <1>2, <1>3
<1>4. CASE w # i
  <2>1. PICK k \in 1..w-1 : Calls(q, k, "add", h)
    BY <1>1 DEF ConfirmedAt, Added
  <2>2. \A j \in 1..i : ~Calls(q, j, "remove", h)
    BY DEF Up, Added
  <2>3. Added(q, i, h)
    BY <1>4, <2>1, <2>2 DEF Added
  <2>4. QED
    BY <1>2, <2>3 DEF Up
<1>5. QED
  BY <1>3, <1>4

LEMMA AfterLater ==
  ASSUME NEW q, NEW r \in Nat, NEW p \in Nat, NEW i \in Nat \ {0}, After(q, r, p, i + 1)
  PROVE  \/ r = i
         \/ After(q, r, p, i) /\ q[i].op \notin {"add", "remove", "config"}
BY DEF After, Keeps

\* Between the removal and its poll nothing happens to the backends.
LEMMA StartedUntil ==
  ASSUME NEW q, NEW r \in Nat, NEW p \in Nat, NEW i \in Nat, NEW h \in q[r].on,
         After(q, r, p, i), i <= p
  PROVE  Started(q, i, h)
<1>1. Started(q, r, h)
  BY DEF After, Removal, Up, WasUp
<1>2. \A k \in r..i-1 : ~Calls(q, k, "stop", h)
  BY DEF After, Removal, Calls
<1>3. QED
  BY <1>1, <1>2 DEF Started, After

\* A body goes on: what its instruction, i, does.
LEMMA AdvanceIs ==
  ASSUME BaseInv, Advances
  PROVE  LET q == Script(scenario)
             i == q[at]
         IN  /\ at \in 1..Len(q) /\ at \in Nat \ {0} /\ Len(q) \in Nat /\ Instruction = i
             /\ at' = at + 1 /\ waited' = 0 /\ scenario' = scenario /\ q' = q
             /\ kind' = kind /\ applied' = applied /\ lag' = lag /\ state' = state /\ age' = age
             /\ answering' = answering
             /\ lost' = lost \/ lost' = lost + 1
             /\ scenario # "G" =>
                  backends' = IF i.op = "start" THEN backends \cup i.on
                              ELSE IF i.op = "stop" THEN backends \ i.on ELSE backends
             /\ pushed'.endpoints = IF i.op = "add" THEN pushed.endpoints \cup i.on
                                    ELSE IF i.op = "remove" THEN pushed.endpoints \ i.on
                                         ELSE pushed.endpoints
             /\ i.op \notin {"add", "remove", "config"} => pushed' = pushed
             /\ since' = IF i.op = "mark" THEN 0 ELSE since
<1> DEFINE q == Script(scenario)
           i == q[at]
<1>0. ShapeInv /\ InBody
  BY BaseParts DEF Advances
<1>1. /\ at \in 1..Len(q) /\ at \in Nat \ {0} /\ Len(q) \in Nat /\ Instruction = i
  BY <1>0, TableTypes DEF InBody, Instruction
<1>2. /\ at' = at + 1 /\ waited' = 0 /\ scenario' = scenario /\ q' = q
      /\ kind' = kind /\ applied' = applied /\ lag' = lag /\ state' = state /\ age' = age
      /\ answering' = answering
      /\ lost' = lost \/ lost' = lost + 1
  BY DEF Advances, envoyVars
<1>3. CASE Called
  <2>1. scenario # "G" =>
          backends' = IF i.op = "start" THEN backends \cup i.on
                      ELSE IF i.op = "stop" THEN backends \ i.on ELSE backends
    BY <1>1, <1>3 DEF Called
  <2>2. since' = IF i.op = "mark" THEN 0 ELSE since
    BY <1>1, <1>3 DEF Called
  <2>3. QED
    BY <1>0, <1>1, <1>2, <1>3, <2>1, <2>2, CallPushed
<1>4. CASE Held
  <2>1. i.op \notin {"start", "stop", "add", "remove", "config", "mark"}
    BY <1>1, <1>4 DEF Held
  <2>2. QED
    BY <1>1, <1>2, <1>4, <2>1 DEF Held
<1>5. QED
  BY <1>3, <1>4 DEF Advances

\* A call does nothing else, and what is not a call goes on by what it sees.
LEMMA AdvanceBy ==
  ASSUME BaseInv, Advances, NEW i, i = Script(scenario)[at]
  PROVE  /\ i.op = "wait" => \/ waited < i.within /\ Seen
                             \/ waited >= i.within /\ ~i.must
         /\ i.op = "sleep" => waited >= i.within
         /\ i.op = "bound" => i.lo <= since /\ since <= i.hi
         /\ i.op = "check" => \/ answering /\ Satisfies(GetClusterHosts)
                              \/ ~i.strict /\ \E hosts \in HostsRead : Satisfies(hosts)
         /\ i.op \in {"start", "stop", "add", "remove", "config", "mark"} => lost' = lost
<1>1. Instruction = i
  BY AdvanceIs
<1>2. CASE Called
  BY <1>1, <1>2 DEF Called, Is, faultVars
<1>3. CASE Held
  BY <1>1, <1>3 DEF Held
<1>4. QED
  BY <1>2, <1>3 DEF Advances

-----------------------------------------------------------------------------
(* The calls that were made have had their effect                          *)

CallsInv == Running =>
  \A h \in Hosts :
    /\ Started(Script(scenario), at, h) => h \in backends \/ scenario = "G"
    /\ Added(Script(scenario), at, h) => h \in pushed.endpoints

LEMMA CallsNext == ASSUME BaseInv, CallsInv, [Next]_vars PROVE CallsInv'
<1> DEFINE q == Script(scenario)
<1> SUFFICES ASSUME Running', NEW h \in Hosts
             PROVE  /\ Started(q, at, h)' => h \in backends' \/ scenario' = "G"
                    /\ Added(q, at, h)' => h \in pushed'.endpoints
  BY DEF CallsInv
<1>1. CASE Begins
  BY <1>1, NothingYet DEF Begins, Begin
<1>2. CASE Running /\ Advances
  <2>1. /\ at \in Nat \ {0} /\ at' = at + 1 /\ q' = q
        /\ scenario # "G" =>
             backends' = IF q[at].op = "start" THEN backends \cup q[at].on
                         ELSE IF q[at].op = "stop" THEN backends \ q[at].on ELSE backends
        /\ scenario' = scenario
        /\ pushed'.endpoints = IF q[at].op = "add" THEN pushed.endpoints \cup q[at].on
                               ELSE IF q[at].op = "remove" THEN pushed.endpoints \ q[at].on
                                    ELSE pushed.endpoints
    BY <1>2, AdvanceIs
  <2>2. /\ Started(q, at, h) => h \in backends \/ scenario = "G"
        /\ Added(q, at, h) => h \in pushed.endpoints
    BY <1>2 DEF CallsInv
  <2> HIDE DEF q
  <2>3. ASSUME Started(q, at + 1, h) PROVE h \in backends' \/ scenario' = "G"
    BY <2>1, <2>2, <2>3, StartedLater DEF Calls
  <2>4. ASSUME Added(q, at + 1, h) PROVE h \in pushed'.endpoints
    BY <2>1, <2>2, <2>4, AddedLater DEF Calls
  <2>5. QED
    BY <2>1, <2>3, <2>4
<1>3. CASE Running /\ (Ticks \/ Applies \/ Breaks \/ Dies \/ UNCHANGED scenarioVars)
  <2>1. UNCHANGED <<scenario, at, backends, pushed>>
    BY <1>3 DEF Ticks, EnvoyTick, Applies, Apply, Breaks, Reconnect, Dies, scenarioVars, bodyVars
  <2>2. QED
    BY <1>3, <2>1 DEF CallsInv
<1>4. QED
  BY <1>1, <1>2, <1>3, RunningSteps

-----------------------------------------------------------------------------
(* Hosts that nothing has removed                                          *)

Quiet(h) ==
  /\ state[h] \in {"absent", "new", "healthy", "failing"}
  /\ state[h] = "absent" \/ h \in pushed.endpoints

QuietInv == Running /\ scenario \notin StressBodies /\ NothingRemoved(Script(scenario), at) =>
  \A h \in Hosts : Quiet(h)

LEMMA StressNames ==
  ASSUME NEW i \in 1..10, NEW s,
         IF i > 9 THEN s \in StressBodies ELSE s = AllIsolatedScenarios[i]
  PROVE  i > 9 <=> s \in StressBodies
BY IsolatedNames, NamesDiffer

LEMMA StressIs ==
  ASSUME BaseInv, main = "run"
  PROVE  InStress <=> scenario \in StressBodies
<1>1. CurrentInv /\ index \in 1..10 /\ NumIsolated = 9
  BY BaseParts, HowManyIsolated DEF ShapeInv, ProcessOK
<1>2. QED
  BY <1>1, StressNames DEF CurrentInv, InStress

\* An isolated scenario begins with nothing in the table.
LEMMA BeginsClean ==
  ASSUME BaseInv', main' = "run", at' = 1, scenario' \notin StressBodies
  PROVE  Listed' = {} /\ pushed'.endpoints = {}
<1>1. CurrentInv' /\ CleanInv' /\ index' \in 1..10 /\ NumIsolated = 9
  BY HowManyIsolated DEF BaseInv, EndsIInv, ShapeInv, ProcessOK
<1>2. ~InStress'
  BY <1>1, StressNames DEF CurrentInv, InStress, NumIsolated
<1>3. QED
  BY <1>1, <1>2 DEF CleanInv

LEMMA QuietTick ==
  ASSUME ShapeInv, EnvoyTick, NEW h \in Hosts, Quiet(h)
  PROVE  Quiet(h)'
BY TickHost DEF Quiet

LEMMA QuietApply ==
  ASSUME ShapeInv, HostsInv, Apply, NEW h \in Hosts, Quiet(h),
         h \in Leaving <=> h \notin pushed.endpoints
  PROVE  Quiet(h)'
<1>1. pushed' = pushed
  BY DEF Apply
<1>2. CASE h \in Leaving
  <2>1. state[h] = "absent" /\ state'[h] = Removed("absent")
    BY <1>2, ApplyHost DEF Quiet
  <2>2. QED
    BY <1>1, <2>1, NewStates DEF Quiet
<1>3. CASE h \notin Leaving
  <2>1. state'[h] = Named(state[h]) /\ h \in pushed.endpoints
    BY <1>3, ApplyHost
  <2>2. Named(state[h]) \in {"new", "healthy", "failing"}
    BY DEF Quiet, Named
  <2>3. QED
    BY <1>1, <2>1, <2>2 DEF Quiet
<1>4. QED
  BY <1>2, <1>3

LEMMA QuietNext == ASSUME BaseInv, QuietInv, [Next]_vars PROVE QuietInv'
<1> DEFINE q == Script(scenario)
<1> SUFFICES ASSUME Running', scenario' \notin StressBodies, NothingRemoved(q, at)', NEW h \in Hosts
             PROVE  Quiet(h)'
  BY DEF QuietInv
<1>0. ShapeInv /\ HostsInv /\ BaseInv'
  BY BaseParts, BaseNext
<1>1. CASE Begins
  <2>1. Listed' = {}
    BY <1>0, <1>1, BeginsClean DEF Running, Begins, Begin
  <2>2. QED
    BY <2>1 DEF Listed, Quiet
<1>2. CASE Running /\ Advances
  <2>1. /\ at \in Nat \ {0} /\ at' = at + 1 /\ q' = q /\ state' = state /\ scenario' = scenario
        /\ q[at].op # "remove" => pushed.endpoints \subseteq pushed'.endpoints
    BY <1>2, AdvanceIs
  <2>2. NothingRemoved(q, at + 1)
    BY <2>1
  <2> HIDE DEF q
  <2>3. NothingRemoved(q, at) /\ q[at].op # "remove"
    BY <2>1, <2>2, RemovedLater
  <2>4. QED
    BY <1>2, <2>1, <2>3 DEF QuietInv, Quiet, q
<1>3. CASE Running /\ (Ticks \/ Applies \/ Breaks \/ Dies \/ UNCHANGED scenarioVars)
  <2>1. UNCHANGED <<scenario, at, pushed, kind>>
    BY <1>3 DEF Ticks, EnvoyTick, Applies, Apply, Breaks, Reconnect, Dies, scenarioVars, bodyVars
  <2>2. \A g \in Hosts : Quiet(g)
    BY <1>3, <2>1 DEF QuietInv
  <2>3. CASE Ticks
    <3>1. EnvoyTick \/ UNCHANGED <<pushed, state>>
      BY <2>3 DEF Ticks, envoyVars
    <3>2. QED
      BY <1>0, <2>2, <3>1, QuietTick DEF Quiet
  <2>4. CASE Applies
    <3>1. h \in Leaving <=> h \notin pushed.endpoints
      BY <2>2 DEF Leaving, Listed, Quiet
    <3>2. QED
      BY <1>0, <2>2, <2>4, <3>1, QuietApply DEF Applies
  <2>5. CASE Breaks
    BY <2>1, <2>2, <2>5 DEF Breaks, Reconnect, Quiet
  <2>6. CASE Dies
    BY <2>6 DEF Dies, EmptyTable, Quiet
  <2>7. CASE UNCHANGED scenarioVars
    BY <2>2, <2>7 DEF scenarioVars, envoyVars, Quiet
  <2>8. QED
    BY <1>3, <2>3, <2>4, <2>5, <2>6, <2>7
<1>4. QED
  BY <1>1, <1>2, <1>3, RunningSteps

-----------------------------------------------------------------------------
(* A host that was found healthy stays so                                  *)

\* An Envoy that removes all hosts when it removes one is looked at only
\* before the first removal.
Spared(s, i) ==
  kind = "contagious" => s \in {"C", "partial removal"} /\ NothingRemoved(Script(s), i)

UpInv == Running /\ answering =>
  \A h \in Hosts : Up(Script(scenario), at, h) /\ Spared(scenario, at) => state[h] = "healthy"

\* Between bodies of a stress test hosts may be on their way; none is added
\* again while its timer runs before a body removes one.
NotReadded == Running /\ NothingRemoved(Script(scenario), at) => \A h \in Hosts : state[h] # "readded"

LEMMA SeenSees ==
  ASSUME ShapeInv, Seen, Instruction.condition \in Conditions
  PROVE  answering /\ Sees(Instruction.condition, Instruction.n)
BY SeenIs, TableTypes DEF Seen

LEMMA TwoAreTwo == IsFiniteSet(Two) /\ Cardinality(Two) = 2
<1>1. IsFiniteSet({}) /\ Cardinality({}) = 0
  BY FS_EmptySet
<1>2. IsFiniteSet({} \cup {1}) /\ Cardinality({} \cup {1}) = 1
  BY <1>1, FS_AddElement
<1>3. IsFiniteSet(({} \cup {1}) \cup {2}) /\ Cardinality(({} \cup {1}) \cup {2}) = 2
  BY <1>2, FS_AddElement
<1>4. Two = ({} \cup {1}) \cup {2}
  BY DEF Two
<1>5. QED
  BY <1>3, <1>4

\* A poll that confirms a host.
LEMMA ConfirmedHealthy ==
  ASSUME BaseInv, QuietInv, NotReadded, Running, Advances, NEW h \in Hosts,
         ConfirmedAt(Script(scenario), at, h)
  PROVE  state[h] = "healthy"
<1> DEFINE q == Script(scenario)
<1>0. ShapeInv /\ HostsInv /\ ConfigInv /\ Instruction = q[at] /\ at \in 1..Len(q)
      /\ scenario \in Scenarios /\ main = "run"
  BY BaseParts, AdvanceIs, TableTypes DEF Running
<1>1. NothingRemoved(q, at) /\ Confirms(q, at, h)
  BY DEF ConfirmedAt
<1>2. Instruction.op = "wait" /\ Instruction.must
  BY <1>0, <1>1 DEF Confirms
<1>3. Seen
  BY <1>0, <1>2, AdvanceBy
<1>4. CASE Instruction.condition = "healthy" /\ Instruction.n = h
  <2>1. Sees("healthy", h)
    BY <1>0, <1>3, <1>4, SeenSees DEF Conditions
  <2>2. state[h] \in {"healthy", "readded"}
    BY <2>1, SeesWhat DEF IsHealthyHost
  <2>3. QED
    BY <1>1, <2>2 DEF NotReadded
<1>5. CASE Instruction.condition = "count" /\ Instruction.n = 2 /\ h \in Two
  <2>1. Sees("count", 2)
    BY <1>0, <1>3, <1>5, SeenSees DEF Conditions
  <2>2. Cardinality(Listed) = 2
    BY <2>1, SeesWhat
  <2>3. scenario = "G" /\ at > 2
    BY <1>0, <1>2, <1>5, TameScripts DEF Tame
  <2>4. scenario \notin StressBodies
    BY <2>3, NamesDiffer
  <2>5. Listed \subseteq Two /\ ~pushed.healthChecks
    BY <1>0, <2>3 DEF ConfigInv, ChecksOf
  <2>6. Listed = Two
    BY <2>2, <2>5, TwoAreTwo, FS_Subset
  <2>7. ~applied.healthChecks
    BY <1>0, <1>5, <2>5, <2>6 DEF HostsInv, SameConfig
  <2>8. Quiet(h)
    BY <1>1, <2>4 DEF QuietInv
  <2>9. QED
    BY <1>0, <1>5, <2>6, <2>7, <2>8 DEF HostsInv, Quiet, Listed
<1>6. QED
  BY <1>0, <1>1, <1>4, <1>5 DEF Confirms

\* The health checks of a host in the table find its backend, or there are none.
LEMMA Kept ==
  ASSUME BaseInv, CallsInv, Running, NEW h \in Hosts, state[h] # "absent",
         Started(Script(scenario), at, h)
  PROVE  h \in backends \/ ~applied.healthChecks
<1>1. h \in backends \/ scenario = "G"
  BY DEF CallsInv
<1>2. Listed # {} /\ main = "run"
  BY DEF Listed, Running
<1>3. ASSUME scenario = "G" PROVE ~applied.healthChecks
  <2>1. ~InStress
    BY <1>2, <1>3, StressIs, NamesDiffer
  <2>2. ~NothingAdded(Script(scenario), at)
    BY <1>2, <2>1, BaseParts DEF ConfigInv
  <2>3. Script(scenario) = ScenarioG
    BY <1>3, ScriptOf
  <2>4. ScenarioG[1].op = "start" /\ ScenarioG[2].op = "config"
    BY InScenarioG DEF IsCall, IsConfigNoHC
  <2>5. at > 2
    <3>1. at \in Nat
      BY BaseParts, TableTypes
    <3> DEFINE q == ScenarioG
    <3>2. q[1].op # "add" /\ q[2].op # "add" /\ ~NothingAdded(q, at)
      BY <2>2, <2>3, <2>4
    <3> HIDE DEF q
    <3>3. QED
      BY <3>1, <3>2 DEF NothingAdded
  <2>6. QED
    BY <1>2, <1>3, <2>5, BaseParts DEF HostsInv, SameConfig, ConfigInv, ChecksOf
<1>4. QED
  BY <1>1, <1>3

LEMMA HealthyTick ==
  ASSUME ShapeInv, EnvoyTick, NEW h \in Hosts, state[h] = "healthy",
         h \in backends \/ ~applied.healthChecks
  PROVE  state'[h] = "healthy"
<1>1. Checked(h) = "healthy"
  BY DEF Checked
<1>2. ~TimerFires(h)
  BY DEF TimerFires, HasTimer
<1>3. QED
  BY <1>1, <1>2, TickHost

\* Where both hosts are named, none is removed with another.
LEMMA SparedWhole ==
  ASSUME BaseInv, CallsInv, Running, NEW h, Up(Script(scenario), at, h), Spared(scenario, at),
         kind = "contagious"
  PROVE  Listed \subseteq pushed.endpoints
<1> DEFINE q == Script(scenario)
<1>0. ShapeInv /\ ConfigInv /\ main = "run" /\ at \in Nat \ {0}
  BY BaseParts, TableTypes DEF Running
<1>1. scenario \in {"C", "partial removal"} /\ NothingRemoved(q, at)
  BY DEF Spared
<1>2. Listed \subseteq Two
  BY <1>0, <1>1 DEF ConfigInv
<1>3. q[2].op = "add" /\ q[2].on = Two
  <2>1. /\ ScenarioC[2].op = "add" /\ ScenarioC[2].on = Two
        /\ PartialRemoval[2].op = "add" /\ PartialRemoval[2].on = Two
    BY InScenarioC, InPartialRemoval DEF IsCall
  <2>2. CASE scenario = "C"
    BY <2>1, <2>2, ScriptOf
  <2>3. CASE scenario = "partial removal"
    BY <2>1, <2>3, ScriptOf
  <2>4. QED
    BY <1>1, <2>2, <2>3
<1>4. at > 2
  <2>1. PICK w \in 1..at-1 : Added(q, w, h)
    BY DEF Up, WasUp, ConfirmedAt
  <2>2. PICK k \in 1..w-1 : TRUE
    BY <2>1 DEF Added
  <2>3. QED
    BY <1>0, <2>1, <2>2
<1>5. \A g \in Two : Added(q, at, g)
  <2> HIDE DEF q
  <2>1. 2 \in 1..at-1
    BY <1>0, <1>4
  <2>2. ASSUME NEW g \in Two, NEW k \in 1..at-1
        PROVE  ~Calls(q, k, "remove", g)
    BY <1>1 DEF Calls, NothingRemoved
  <2>3. QED
    BY <1>3, <2>1, <2>2 DEF Added, Calls
<1>6. Two \subseteq pushed.endpoints
  BY <1>5, SomeHosts DEF CallsInv
<1>7. QED
  BY <1>2, <1>6

LEMMA UpNext ==
  ASSUME BaseInv, CallsInv, QuietInv, NotReadded, UpInv, [Next]_vars
  PROVE  UpInv'
<1> DEFINE q == Script(scenario)
<1> SUFFICES ASSUME Running', answering', NEW h \in Hosts, Up(q, at, h)', Spared(scenario, at)'
             PROVE  state'[h] = "healthy"
  BY DEF UpInv
<1>0. ShapeInv /\ HostsInv
  BY BaseParts
<1>1. CASE Begins
  BY <1>1, NothingYet DEF Begins, Begin
<1>2. CASE Running /\ Advances
  <2>1. /\ at \in Nat \ {0} /\ at' = at + 1 /\ q' = q /\ state' = state /\ scenario' = scenario
        /\ answering' = answering /\ kind' = kind
    BY <1>2, AdvanceIs
  <2>2. Up(q, at + 1, h)
    BY <2>1
  <2>3. Spared(scenario, at)
    BY <2>1, RemovedLater DEF Spared
  <2>4. Up(q, at, h) \/ ConfirmedAt(q, at, h)
    BY <2>1, <2>2, AddedWhileUp
  <2>5. QED
    BY <1>2, <2>1, <2>3, <2>4, ConfirmedHealthy DEF UpInv
<1>3. CASE Running /\ (Ticks \/ Applies \/ Breaks \/ UNCHANGED scenarioVars)
  <2>1. UNCHANGED <<scenario, at, kind, answering, pushed>>
    BY <1>3 DEF Ticks, EnvoyTick, Applies, Apply, Breaks, Reconnect, scenarioVars, bodyVars
  <2>2. Up(q, at, h) /\ Spared(scenario, at)
    BY <2>1 DEF Spared
  <2>3. /\ state[h] = "healthy" /\ h \in pushed.endpoints
        /\ h \in backends \/ ~applied.healthChecks
    BY <1>3, <2>1, <2>2, Kept DEF UpInv, CallsInv, Up, WasUp
  <2>4. CASE Ticks
    BY <1>0, <2>1, <2>3, <2>4, HealthyTick DEF Ticks
  <2>5. CASE Applies
    <3>1. h \notin Leaving
      BY <1>3, <2>2, <2>3, SparedWhole DEF Leaving
    <3>2. QED
      BY <1>0, <2>3, <2>5, <3>1, ApplyHost DEF Applies, Named
  <2>6. CASE Breaks
    BY <2>3, <2>6 DEF Breaks, Reconnect
  <2>7. CASE UNCHANGED scenarioVars
    BY <2>3, <2>7 DEF scenarioVars, envoyVars
  <2>8. QED
    BY <1>3, <2>4, <2>5, <2>6, <2>7
<1>4. CASE Dies
  BY <1>4 DEF Dies
<1>5. QED
  BY <1>1, <1>2, <1>3, <1>4, RunningSteps

-----------------------------------------------------------------------------
(* A host without a timer stays while its backend runs                     *)

Stuck(h) == kind = "unpatched" \/ (kind = "leaky" /\ h > 2)

StuckInv == Running /\ answering /\ scenario # "G" =>
  \A h \in Hosts : Stuck(h) /\ WasUp(Script(scenario), at, h) => state[h] \in {"healthy", "pending"}

LEMMA StuckNext ==
  ASSUME BaseInv, CallsInv, QuietInv, NotReadded, StuckInv, [Next]_vars
  PROVE  StuckInv'
<1> DEFINE q == Script(scenario)
<1> SUFFICES ASSUME Running', answering', scenario' # "G", NEW h \in Hosts, Stuck(h)',
                    WasUp(q, at, h)'
             PROVE  state'[h] \in {"healthy", "pending"}
  BY DEF StuckInv
<1>0. ShapeInv /\ HostsInv /\ ConfigInv
  BY BaseParts
<1>1. CASE Begins
  BY <1>1, NothingYet DEF Begins, Begin
<1>2. CASE Running /\ Advances
  <2>1. /\ at \in Nat \ {0} /\ at' = at + 1 /\ q' = q /\ state' = state /\ scenario' = scenario
        /\ answering' = answering /\ kind' = kind
    BY <1>2, AdvanceIs
  <2>2. WasUp(q, at + 1, h) /\ Stuck(h)
    BY <2>1 DEF Stuck
  <2>3. WasUp(q, at, h) \/ ConfirmedAt(q, at, h)
    BY <2>1, <2>2, UpLater
  <2>4. QED
    BY <1>2, <2>1, <2>2, <2>3, ConfirmedHealthy DEF StuckInv
<1>3. CASE Running /\ (Ticks \/ Applies \/ Breaks \/ UNCHANGED scenarioVars)
  <2>1. UNCHANGED <<scenario, at, kind, answering, pushed>>
    BY <1>3 DEF Ticks, EnvoyTick, Applies, Apply, Breaks, Reconnect, scenarioVars, bodyVars
  <2>2. WasUp(q, at, h) /\ Stuck(h)
    BY <2>1 DEF Stuck
  <2>3. state[h] \in {"healthy", "pending"} /\ h \in backends
    BY <1>3, <2>1, <2>2 DEF StuckInv, CallsInv, WasUp
  <2>4. CASE Ticks
    <3>1. EnvoyTick
      BY <2>1, <2>4 DEF Ticks
    <3>2. ~TimerFires(h)
      <4>1. h \in Int
        BY EnvoyAssumption DEF Hosts
      <4>2. QED
        BY <2>2, <4>1 DEF Stuck, TimerFires, HasTimer
    <3>3. Checked(h) \in {"healthy", "pending"}
      BY <2>3 DEF Checked
    <3>4. QED
      BY <1>0, <3>1, <3>2, <3>3, TickHost
  <2>5. CASE Applies
    <3>1. applied.healthChecks
      BY <1>0, <1>3, <2>1, <2>3 DEF HostsInv, SameConfig, Listed, ConfigInv, ChecksOf, Running
    <3>2. Removed(state[h]) = "pending"
      BY <2>2, <2>3, <3>1 DEF Removed, Stuck
    <3>3. Named(state[h]) = "healthy"
      BY <2>2, <2>3 DEF Named, Stuck
    <3>4. QED
      BY <1>0, <2>5, <3>2, <3>3, ApplyHost DEF Applies
  <2>6. CASE Breaks
    BY <2>2, <2>3, <2>6 DEF Breaks, Reconnect, Stuck
  <2>7. CASE UNCHANGED scenarioVars
    BY <2>3, <2>7 DEF scenarioVars, envoyVars
  <2>8. QED
    BY <1>3, <2>4, <2>5, <2>6, <2>7
<1>4. CASE Dies
  BY <1>4 DEF Dies
<1>5. QED
  BY <1>1, <1>2, <1>3, <1>4, RunningSteps

-----------------------------------------------------------------------------
(* The hosts of a removal                                                  *)

\* The removal is still on its way, or it is done.
Unapplied(S) == pushed # applied /\ waited <= lag /\ \A h \in S : state[h] = "healthy"
Gone(S) == pushed = applied /\ \A h \in S : state[h] \in {"pending", "frozen", "absent"}

RemovalInv == Running =>
  \A r, p \in Nat :
    After(Script(scenario), r, p, at) /\ Spared(scenario, r) =>
      /\ Script(scenario)[r].on \cap pushed.endpoints = {}
      /\ answering => \/ at <= p /\ Unapplied(Script(scenario)[r].on)
                      \/ Gone(Script(scenario)[r].on)

LEMMA RemovalTypes ==
  ASSUME ShapeInv, NEW r \in Nat, NEW p \in Nat, Removal(Script(scenario), r, p)
  PROVE  /\ Script(scenario)[r].on \in SUBSET Hosts /\ Script(scenario)[r].on # {}
         /\ Script(scenario)[p].within \in Nat /\ Script(scenario)[p].within >= 3000
         /\ Script(scenario)[p].op = "wait"
<1> DEFINE q == Script(scenario)
<1>1. q \in Seq(Instructions)
  BY TableTypes
<1> HIDE DEF q
<1>2. r \in 1..Len(q) /\ p \in 1..Len(q) /\ q[r].op = "remove" /\ q[r].on # {}
      /\ q[p].op = "wait" /\ q[p].within >= 3000
  BY DEF Removal, q
<1>3. q[r] \in Instructions /\ q[p] \in Instructions
  BY <1>1, <1>2
<1>4. q[r].on \in SUBSET Hosts /\ q[p].within \in Deadlines
  BY <1>2, <1>3, InstructionFields
<1>5. QED
  BY <1>2, <1>4, WholeTicks DEF q

\* What a poll for a removal waits for is not seen while the hosts are healthy.
LEMMA NotSeenYet ==
  ASSUME ShapeInv, NEW r \in Nat, NEW p \in Nat, Removal(Script(scenario), r, p), at = p,
         \A h \in Script(scenario)[r].on : state[h] = "healthy"
  PROVE  ~Seen
<1> DEFINE S == Script(scenario)[r].on
<1>0. S \in SUBSET Hosts /\ S # {} /\ Instruction = Script(scenario)[p]
  BY RemovalTypes DEF Instruction
<1>1. \/ Instruction.condition \in {"flag", "gone"} /\ Instruction.n \in S
      \/ Instruction.condition = "count" /\ Instruction.n = 0
  BY <1>0 DEF Removal
<1>2. \A h \in S : h \in Listed /\ ~IsPending(h)
  BY <1>0 DEF Listed, IsPending
<1>3. CASE Instruction.condition \in {"flag", "gone"} /\ Instruction.n \in S
  <2>1. ~Sees(Instruction.condition, Instruction.n)
    BY <1>2, <1>3, SeesWhat
  <2>2. Instruction.condition \in Conditions
    BY <1>3 DEF Conditions
  <2>3. QED
    BY <2>1, <2>2, SeenSees
<1>4. CASE Instruction.condition = "count" /\ Instruction.n = 0
  <2>1. Listed # {}
    BY <1>0, <1>2
  <2>2. QED
    BY <1>4, <2>1, NoneCounted DEF Seen
<1>5. QED
  BY <1>1, <1>3, <1>4

LEMMA RemovalNext ==
  ASSUME BaseInv, CallsInv, UpInv, RemovalInv, [Next]_vars
  PROVE  RemovalInv'
<1> DEFINE q == Script(scenario)
<1> SUFFICES ASSUME Running', NEW r \in Nat, NEW p \in Nat, After(q, r, p, at)',
                    Spared(scenario, r)'
             PROVE  /\ q'[r].on \cap pushed'.endpoints = {}
                    /\ answering' => \/ at' <= p /\ Unapplied(q[r].on)'
                                     \/ Gone(q[r].on)'
  BY DEF RemovalInv
<1>0. ShapeInv /\ HostsInv /\ MaxLag < 2000 /\ MaxLag \in Nat /\ waited \in Nat /\ lag \in Nat
      /\ lag <= MaxLag
  BY BaseParts, TableTypes, BoundsAssumption
<1>1. CASE Begins
  BY <1>1 DEF Begins, Begin, After, Removal
<1>2. CASE Running /\ Advances
  <2>1. /\ at \in Nat \ {0} /\ at' = at + 1 /\ q' = q /\ state' = state /\ scenario' = scenario
        /\ answering' = answering /\ kind' = kind /\ applied' = applied /\ lag' = lag
        /\ waited' = 0 /\ at \in 1..Len(q) /\ Instruction = q[at]
        /\ pushed'.endpoints = IF q[at].op = "add" THEN pushed.endpoints \cup q[at].on
                               ELSE IF q[at].op = "remove" THEN pushed.endpoints \ q[at].on
                                    ELSE pushed.endpoints
        /\ q[at].op \notin {"add", "remove", "config"} => pushed' = pushed
    BY <1>2, AdvanceIs
  <2>2. After(q, r, p, at + 1) /\ Spared(scenario, r)
    BY <2>1 DEF Spared
  <2> DEFINE S == q[r].on
  <2>3. r = at \/ (After(q, r, p, at) /\ q[at].op \notin {"add", "remove", "config"})
    BY <2>1, <2>2, AfterLater
  <2>4. CASE r = at
    <3>1. /\ q[at].op = "remove" /\ S # {} /\ \A h \in S : Up(q, at, h)
          /\ r < p /\ S \in SUBSET Hosts
      BY <1>0, <2>2, <2>4, RemovalTypes DEF After, Removal
    <3>2. S \cap pushed'.endpoints = {}
      BY <2>1, <2>4, <3>1
    <3>3. ASSUME answering, NEW h \in S
          PROVE  state[h] = "healthy" /\ h \in Hosts
      BY <1>2, <2>2, <2>4, <3>1, <3>3 DEF UpInv
    <3>4. ASSUME answering
          PROVE  pushed' # applied
      <4>1. PICK h \in S : TRUE
        BY <3>1
      <4>2. state[h] = "healthy" /\ h \in Hosts
        BY <3>3, <3>4
      <4>3. h \in applied.endpoints
        BY <1>0, <4>2 DEF HostsInv
      <4>4. QED
        BY <3>2, <4>1, <4>3
    <3>5. at + 1 <= p
      BY <2>1, <2>4, <3>1
    <3>6. QED
      BY <1>0, <2>1, <3>2, <3>3, <3>4, <3>5 DEF Unapplied
  <2>5. CASE After(q, r, p, at) /\ q[at].op \notin {"add", "remove", "config"}
    <3>1. /\ S \cap pushed.endpoints = {}
          /\ answering => (at <= p /\ Unapplied(S)) \/ Gone(S)
      BY <1>2, <2>2, <2>5 DEF RemovalInv
    <3>2. pushed' = pushed
      BY <2>1, <2>5
    <3>3. Gone(S) => Gone(S)'
      BY <2>1, <3>2 DEF Gone
    <3>4. ASSUME at < p, Unapplied(S)
          PROVE  at' <= p /\ Unapplied(S)'
      BY <1>0, <2>1, <3>2, <3>4 DEF Unapplied
    <3>5. ASSUME at = p, Unapplied(S)
          PROVE  FALSE
      <4>1. Removal(q, r, p)
        BY <2>5 DEF After
      <4>2. waited < q[p].within /\ q[p].op = "wait"
        BY <1>0, <3>5, <4>1, RemovalTypes DEF Unapplied
      <4>3. ~Seen
        BY <1>0, <3>5, <4>1, NotSeenYet DEF Unapplied
      <4>4. QED
        BY <1>2, <1>0, <2>1, <3>5, <4>2, <4>3, AdvanceBy, RemovalTypes, <4>1
    <3>6. QED
      BY <2>1, <3>1, <3>2, <3>3, <3>4, <3>5
  <2>6. QED
    BY <2>3, <2>4, <2>5
<1>3. CASE Running /\ (Ticks \/ Applies \/ Breaks \/ Dies \/ UNCHANGED scenarioVars)
  <2> DEFINE S == q[r].on
  <2>1. UNCHANGED <<scenario, at, kind, pushed>>
    BY <1>3 DEF Ticks, EnvoyTick, Applies, Apply, Breaks, Reconnect, Dies, scenarioVars, bodyVars
  <2>2. After(q, r, p, at) /\ Spared(scenario, r)
    BY <2>1 DEF Spared
  <2>3. /\ S \cap pushed.endpoints = {}
        /\ answering => (at <= p /\ Unapplied(S)) \/ Gone(S)
    BY <1>3, <2>2 DEF RemovalInv
  <2>4. S \in SUBSET Hosts /\ at \in Nat
    BY <1>0, <2>2, RemovalTypes, TableTypes DEF After
  <2>5. CASE Ticks
    <3>1. CASE answering
      <4>1. EnvoyTick /\ waited' = waited + 250 /\ applied' = applied
        BY <2>5, <3>1 DEF Ticks, EnvoyTick
      <4>2. Gone(S) => Gone(S)'
        BY <1>0, <2>1, <2>4, <4>1, TickHost DEF Gone
      <4>3. ASSUME at <= p, Unapplied(S)
            PROVE  Unapplied(S)'
        <5>1. lag' = lag + 250
          BY <4>1, <4>3 DEF EnvoyTick, TickMs, Unapplied
        <5>2. ASSUME NEW h \in S
              PROVE  state'[h] = "healthy"
          <6>1. Started(q, at, h)
            BY <2>2, <2>4, <4>3, StartedUntil
          <6>2. h \in Hosts /\ state[h] = "healthy"
            BY <2>4, <4>3 DEF Unapplied
          <6>3. h \in backends \/ ~applied.healthChecks
            BY <1>3, <6>1, <6>2, Kept
          <6>4. QED
            BY <1>0, <4>1, <6>2, <6>3, HealthyTick
        <5>3. QED
          BY <1>0, <2>1, <4>1, <4>3, <5>1, <5>2 DEF Unapplied
      <4>4. QED
        BY <2>1, <2>3, <3>1, <4>2, <4>3
    <3>2. CASE ~answering
      BY <2>1, <2>3, <2>5, <3>2 DEF Ticks
    <3>3. QED
      BY <3>1, <3>2
  <2>6. CASE Applies
    <3>1. pushed' = applied' /\ ~Gone(S)
      BY <2>6 DEF Applies, Apply, Gone
    <3>2. ASSUME NEW h \in S
          PROVE  state'[h] \in {"pending", "frozen", "absent"}
      <4>1. state[h] = "healthy" /\ h \notin pushed.endpoints
        BY <2>3, <2>6, <3>1 DEF Applies, Unapplied
      <4>2. state'[h] = Removed("healthy")
        BY <1>0, <2>4, <2>6, <4>1, ApplyHost DEF Applies
      <4>3. QED
        BY <4>2 DEF Removed
    <3>3. QED
      BY <2>1, <2>3, <3>1, <3>2 DEF Gone
  <2>7. CASE Breaks
    <3>1. UNCHANGED <<applied, lag, waited, answering>>
      BY <2>7 DEF Breaks, Reconnect, bodyVars
    <3>2. \A h \in S : /\ state[h] = "healthy" => state'[h] = "healthy"
                       /\ state[h] \in {"pending", "frozen", "absent"} =>
                            state'[h] \in {"pending", "frozen", "absent"}
      BY <2>4, <2>7 DEF Breaks, Reconnect
    <3>3. QED
      BY <2>1, <2>3, <3>1, <3>2 DEF Gone, Unapplied
  <2>8. CASE Dies
    BY <2>1, <2>3, <2>8 DEF Dies
  <2>9. CASE UNCHANGED scenarioVars
    BY <2>1, <2>3, <2>9 DEF scenarioVars, envoyVars, bodyVars, Gone, Unapplied
  <2>10. QED
    BY <1>3, <2>5, <2>6, <2>7, <2>8, <2>9
<1>4. QED
  BY <1>1, <1>2, <1>3, RunningSteps

-----------------------------------------------------------------------------
(* What fails, and what is late                                            *)

FaultsInv ==
  /\ lost \in Nat /\ crashes \in Nat /\ breaks \in Nat
  /\ lost + crashes + breaks <= MaxFaults

LEMMA FaultsNext == ASSUME FaultsInv, [Next]_vars PROVE FaultsInv'
<1> USE DEF processVars, reportVars
<1>0. MaxFaults \in Nat
  BY FaultsAssumption
<1>1. CASE UNCHANGED faultVars
  BY <1>1 DEF faultVars, FaultsInv
<1>2. CASE main = "run" /\ BodyStep
  <2>1. CASE SampleFails
    BY <1>0, <2>1 DEF SampleFails, AnotherFault, FaultsInv
  <2>2. CASE Call \/ PollSucceeds \/ TimeIsUp \/ CompareElapsed \/ TakeSample \/ Pass
    BY <1>1, <2>2 DEF Call, PollSucceeds, TimeIsUp, CompareElapsed, TakeSample, Pass
  <2>3. CASE StartFails
    BY <2>3 DEF StartFails, FaultsInv
  <2>4. QED
    BY <1>2, <2>1, <2>2, <2>3 DEF BodyStep
<1>3. CASE Passage
  <2>1. (AnotherFault /\ lost' = lost + 1) \/ lost' = lost
    BY <1>3 DEF Passage, Tick
  <2>2. crashes' = crashes /\ breaks' = breaks
    BY <1>3 DEF Passage, Tick
  <2>3. QED
    BY <1>0, <2>1, <2>2 DEF AnotherFault, FaultsInv
<1>4. CASE EnvoyCrashes \/ StreamBreaks
  BY <1>0, <1>4 DEF EnvoyCrashes, StreamBreaks, AnotherFault, FaultsInv
<1>5. CASE MainStep /\ ~(main = "run" /\ BodyStep)
  BY <1>1, <1>5 DEF MainStep, StartServer, UnknownProfile, StartEnvoy, EnvoyIsReady,
     EnvoyIsNotReady, NextBody, Finish, StopEnvoy, StopServer, Exit, EndProcess, scenarioVars
<1>6. CASE SetupFails \/ EnvoyStep \/ CallHangs \/ Exited \/ UNCHANGED vars
  BY <1>1, <1>6 DEF SetupFails, EndProcess, EnvoyStep, EnvoyBecomesReady, OrphanBecomesReady,
     EnvoyApplies, CallHangs, Exited, vars, scenarioVars
<1>7. QED
  BY <1>2, <1>3, <1>4, <1>5, <1>6 DEF Next

\* What fails costs less than 2 s in all.
LEMMA FewFaults ==
  ASSUME FaultsInv
  PROVE  lost \in Nat /\ MaxLag \in Nat /\ MaxLag < 400 /\ MaxLag + 250 * lost < 2000
<1>1. lost <= MaxFaults /\ lost \in Nat /\ MaxFaults \in Nat /\ MaxLag \in Nat /\ MaxLag < 400
  BY FaultsAssumption, EnvoyAssumption, BoundsAssumption DEF FaultsInv
<1>2. MaxLag + 250 * MaxFaults < 2000
  BY BoundsAssumption DEF TickMs
<1>3. QED
  BY <1>1, <1>2

-----------------------------------------------------------------------------
(* The removals of the scripts                                             *)

LEMMA WasUpBy ==
  ASSUME NEW q, NEW h, NEW w \in Nat, NEW i \in Nat, w < i, NEW j \in 2..w-1,
         Calls(q, 1, "start", h), Calls(q, j, "add", h), Confirms(q, w, h),
         \A k \in 1..w-1 : q[k].op \notin {"stop", "remove"},
         \A k \in w..i-1 : q[k].op # "config" /\ ~Calls(q, k, "stop", h)
  PROVE  /\ WasUp(q, i, h)
         /\ (\A k \in w..i-1 : ~Calls(q, k, "remove", h)) => Up(q, i, h)
<1>1. 1 \in 1..w-1 /\ j \in 1..w-1 /\ w \in 1..i-1
  OBVIOUS
<1>2. Started(q, w, h) /\ Added(q, w, h) /\ NothingRemoved(q, w)
  BY <1>1 DEF Started, Added, NothingRemoved, Calls
<1>3. ASSUME NEW k \in 1..i-1
      PROVE  k \in 1..w-1 \/ k \in w..i-1
  OBVIOUS
<1>4. \A k \in 1..i-1 : ~Calls(q, k, "stop", h)
  BY <1>3 DEF Calls
<1>5. 1 \in 1..i-1 /\ j \in 1..i-1
  BY <1>1
<1>6. WasUp(q, i, h)
  BY <1>1, <1>2, <1>4, <1>5 DEF WasUp, ConfirmedAt, Started
<1>7. ASSUME \A k \in w..i-1 : ~Calls(q, k, "remove", h)
      PROVE  Added(q, i, h)
  <2>1. \A k \in 1..i-1 : ~Calls(q, k, "remove", h)
    BY <1>3, <1>7 DEF Calls
  <2>2. QED
    BY <1>5, <2>1 DEF Added
<1>8. QED
  BY <1>6, <1>7 DEF Up

\* The scripts that begin with Setup, and those that begin with SetupOne.
LEMMA UpFromSetup ==
  ASSUME NEW q, IsCall(q[1], "start", Two), IsCall(q[2], "add", Two),
         IsAwait(q[3], "healthy", 1, 10000), IsAwait(q[4], "healthy", 2, 10000),
         NEW i \in Nat, i >= 5, NEW h \in Two,
         \A k \in 5..i-1 : q[k].op # "config" /\ ~Calls(q, k, "stop", h)
  PROVE  /\ WasUp(q, i, h)
         /\ (\A k \in 5..i-1 : ~Calls(q, k, "remove", h)) => Up(q, i, h)
<1>1. /\ q[1].op = "start" /\ h \in q[1].on /\ q[2].op = "add" /\ h \in q[2].on
      /\ q[3].op = "wait" /\ q[4].op = "wait"
  BY DEF IsCall, IsAwait
<1>2. h \in {1, 2} /\ Confirms(q, 2 + h, h)
  BY DEF IsAwait, Confirms, Two
<1>3. /\ Calls(q, 1, "start", h) /\ Calls(q, 2, "add", h) /\ 2 \in 2..2+h-1 /\ 2 + h \in Nat
      /\ 2 + h < i
  BY <1>1, <1>2 DEF Calls
<1>4. \A k \in 1..2+h-1 : q[k].op \notin {"stop", "remove"}
  BY <1>1, <1>2
<1>5. ASSUME NEW k \in 2+h..i-1
      PROVE  /\ q[k].op # "config" /\ ~Calls(q, k, "stop", h)
             /\ (\A j \in 5..i-1 : ~Calls(q, j, "remove", h)) => ~Calls(q, k, "remove", h)
  <2>1. k = 3 \/ k = 4 \/ k \in 5..i-1
    BY <1>2
  <2>2. QED
    BY <1>1, <2>1 DEF Calls
<1>6. QED
  BY <1>2, <1>3, <1>4, <1>5, WasUpBy

LEMMA UpFromSetupOne ==
  ASSUME NEW q, IsCall(q[1], "start", {1}), IsCall(q[2], "add", {1}),
         IsAwait(q[3], "healthy", 1, 10000),
         NEW i \in Nat, i >= 4,
         \A k \in 4..i-1 : q[k].op # "config" /\ ~Calls(q, k, "stop", 1)
  PROVE  /\ WasUp(q, i, 1)
         /\ (\A k \in 4..i-1 : ~Calls(q, k, "remove", 1)) => Up(q, i, 1)
<1>1. /\ q[1].op = "start" /\ 1 \in q[1].on /\ q[2].op = "add" /\ 1 \in q[2].on
      /\ q[3].op = "wait" /\ Confirms(q, 3, 1)
  BY DEF IsCall, IsAwait, Confirms
<1>2. Calls(q, 1, "start", 1) /\ Calls(q, 2, "add", 1) /\ 2 \in 2..3-1 /\ 3 < i /\ 3 \in Nat
  BY <1>1 DEF Calls
<1>3. \A k \in 1..3-1 : q[k].op \notin {"stop", "remove"}
  BY <1>1
<1>4. ASSUME NEW k \in 3..i-1
      PROVE  /\ q[k].op # "config" /\ ~Calls(q, k, "stop", 1)
             /\ (\A j \in 4..i-1 : ~Calls(q, j, "remove", 1)) => ~Calls(q, k, "remove", 1)
  <2>1. k = 3 \/ k \in 4..i-1
    OBVIOUS
  <2>2. QED
    BY <1>1, <2>1 DEF Calls
<1>5. QED
  BY <1>1, <1>2, <1>3, <1>4, WasUpBy

\* Hosts that are up are still so after the rest of Setup.
LEMMA WasUpKeeps ==
  ASSUME NEW q, NEW h, NEW i \in Nat, NEW j \in Nat, i <= j, WasUp(q, i, h),
         \A k \in i..j-1 : q[k].op \notin {"config", "stop"}
  PROVE  WasUp(q, j, h)
<1>1. PICK w \in 1..i-1 : ConfirmedAt(q, w, h) /\ \A k \in w..i-1 : q[k].op # "config"
  BY DEF WasUp
<1>2. w \in 1..j-1 /\ \A k \in w..j-1 : q[k].op # "config"
  BY <1>1
<1>3. PICK k \in 1..i-1 : Calls(q, k, "start", h)
  BY DEF WasUp, Started
<1>4. k \in 1..j-1 /\ \A m \in 1..j-1 : ~Calls(q, m, "stop", h)
  <2>1. ASSUME NEW m \in 1..j-1
        PROVE  m \in 1..i-1 \/ m \in i..j-1
    OBVIOUS
  <2>2. QED
    BY <2>1 DEF WasUp, Started, Calls
<1>5. QED
  BY <1>1, <1>2, <1>3, <1>4 DEF WasUp, Started

LEMMA SetupRemoval ==
  ASSUME NEW q, IsCall(q[1], "start", Two), IsCall(q[2], "add", Two),
         IsAwait(q[3], "healthy", 1, 10000), IsAwait(q[4], "healthy", 2, 10000),
         NEW S \in {Two, {1}}, IsCall(q[5], "remove", S), Len(q) \in Nat, Len(q) >= 6,
         q[6].op = "wait", q[6].condition \in {"flag", "gone"}, q[6].n = 1, q[6].within >= 3000
  PROVE  Removal(q, 5, 6) /\ q[5].on = S
<1>1. \A h \in Two : Up(q, 5, h)
  BY UpFromSetup
<1>2. q[5].op = "remove" /\ q[5].on = S /\ 1 \in S /\ S \subseteq Two
  BY DEF IsCall, Two
<1>3. 5 \in 1..Len(q) /\ 6 \in 1..Len(q) /\ \A k \in 5+1..6-1 : q[k].op = "mark"
  OBVIOUS
<1>4. QED
  BY <1>1, <1>2, <1>3 DEF Removal

LEMMA SetupOneRemoval ==
  ASSUME NEW q, IsCall(q[1], "start", {1}), IsCall(q[2], "add", {1}),
         IsAwait(q[3], "healthy", 1, 10000), IsCall(q[4], "remove", {1}),
         Len(q) \in Nat, NEW p \in 5..Len(q), \A k \in 5..p-1 : q[k].op = "mark",
         q[p].op = "wait", q[p].condition \in {"flag", "gone"}, q[p].n = 1, q[p].within >= 3000
  PROVE  Removal(q, 4, p) /\ q[4].on = {1}
<1>1. Up(q, 4, 1)
  BY UpFromSetupOne
<1>2. q[4].op = "remove" /\ q[4].on = {1}
  BY DEF IsCall
<1>3. 4 \in 1..Len(q) /\ p \in 1..Len(q) /\ \A k \in 4+1..p-1 : q[k].op = "mark"
  OBVIOUS
<1>4. QED
  BY <1>1, <1>2, <1>3 DEF Removal

LEMMA RemovalIn0 ==
  LET q == Scenario0 IN Removal(q, 5, 6) /\ q[5].on = Two /\ Keeps(q, 6, 10)
<1> DEFINE q == Scenario0
<1>1. /\ IsCall(q[1], "start", Two) /\ IsCall(q[2], "add", Two)
      /\ IsAwait(q[3], "healthy", 1, 10000) /\ IsAwait(q[4], "healthy", 2, 10000)
      /\ IsCall(q[5], "remove", Two) /\ Len(q) = 9
  BY InScenario0
<1>2. q[6].op = "wait" /\ q[6].condition = "flag" /\ q[6].n = 1 /\ q[6].within = 5000
  BY InScenario0 DEF IsAwait, IsTry
<1>3. \A k \in 6..9 : q[k].op \notin {"add", "remove", "config"}
  BY InScenario0 DEF IsCall, IsAwait, IsTry, IsSleep, IsSample, IsStrictSample
<1> HIDE DEF q
<1>4. QED
  BY <1>1, <1>2, <1>3, SetupRemoval DEF Keeps, q

LEMMA RemovalInA ==
  LET q == ScenarioA IN Removal(q, 5, 6) /\ q[5].on = Two /\ Keeps(q, 6, 9)
<1> DEFINE q == ScenarioA
<1>1. /\ IsCall(q[1], "start", Two) /\ IsCall(q[2], "add", Two)
      /\ IsAwait(q[3], "healthy", 1, 10000) /\ IsAwait(q[4], "healthy", 2, 10000)
      /\ IsCall(q[5], "remove", Two) /\ Len(q) = 13
  BY InScenarioA
<1>2. q[6].op = "wait" /\ q[6].condition = "flag" /\ q[6].n = 1 /\ q[6].within = 5000
  BY InScenarioA DEF IsAwait, IsTry
<1>3. \A k \in 6..8 : q[k].op \notin {"add", "remove", "config"}
  BY InScenarioA DEF IsCall, IsAwait, IsTry, IsSleep, IsSample, IsStrictSample
<1> HIDE DEF q
<1>4. QED
  BY <1>1, <1>2, <1>3, SetupRemoval DEF Keeps, q

LEMMA RemovalInB ==
  LET q == ScenarioB IN Removal(q, 5, 6) /\ q[5].on = Two /\ Keeps(q, 6, 11)
<1> DEFINE q == ScenarioB
<1>1. /\ IsCall(q[1], "start", Two) /\ IsCall(q[2], "add", Two)
      /\ IsAwait(q[3], "healthy", 1, 10000) /\ IsAwait(q[4], "healthy", 2, 10000)
      /\ IsCall(q[5], "remove", Two) /\ Len(q) = 10
  BY InScenarioB
<1>2. q[6].op = "wait" /\ q[6].condition = "flag" /\ q[6].n = 1 /\ q[6].within = 5000
  BY InScenarioB DEF IsAwait, IsTry
<1>3. \A k \in 6..10 : q[k].op \notin {"add", "remove", "config"}
  BY InScenarioB DEF IsCall, IsAwait, IsTry, IsSleep, IsSample, IsStrictSample
<1> HIDE DEF q
<1>4. QED
  BY <1>1, <1>2, <1>3, SetupRemoval DEF Keeps, q

LEMMA RemovalInC ==
  LET q == ScenarioC IN Removal(q, 5, 6) /\ q[5].on = {1} /\ Keeps(q, 6, 9)
<1> DEFINE q == ScenarioC
<1>1. /\ IsCall(q[1], "start", Two) /\ IsCall(q[2], "add", Two)
      /\ IsAwait(q[3], "healthy", 1, 10000) /\ IsAwait(q[4], "healthy", 2, 10000)
      /\ IsCall(q[5], "remove", {1}) /\ Len(q) = 8
  BY InScenarioC
<1>2. q[6].op = "wait" /\ q[6].condition = "flag" /\ q[6].n = 1 /\ q[6].within = 5000
  BY InScenarioC DEF IsAwait, IsTry
<1>3. \A k \in 6..8 : q[k].op \notin {"add", "remove", "config"}
  BY InScenarioC DEF IsCall, IsAwait, IsTry, IsSleep, IsSample, IsStrictSample
<1> HIDE DEF q
<1>4. QED
  BY <1>1, <1>2, <1>3, SetupRemoval DEF Keeps, q

LEMMA RemovalInF ==
  LET q == ScenarioF IN Removal(q, 5, 6) /\ q[5].on = Two /\ Keeps(q, 6, 9)
<1> DEFINE q == ScenarioF
<1>1. /\ IsCall(q[1], "start", Two) /\ IsCall(q[2], "add", Two)
      /\ IsAwait(q[3], "healthy", 1, 10000) /\ IsAwait(q[4], "healthy", 2, 10000)
      /\ IsCall(q[5], "remove", Two) /\ Len(q) = 8
  BY InScenarioF
<1>2. q[6].op = "wait" /\ q[6].condition = "flag" /\ q[6].n = 1 /\ q[6].within = 5000
  BY InScenarioF DEF IsAwait, IsTry
<1>3. \A k \in 6..8 : q[k].op \notin {"add", "remove", "config"}
  BY InScenarioF DEF IsCall, IsAwait, IsTry, IsSleep, IsSample, IsStrictSample
<1> HIDE DEF q
<1>4. QED
  BY <1>1, <1>2, <1>3, SetupRemoval DEF Keeps, q

LEMMA RemovalInPartialRemoval ==
  LET q == PartialRemoval IN Removal(q, 5, 6) /\ q[5].on = {1} /\ Keeps(q, 6, 8)
<1> DEFINE q == PartialRemoval
<1>1. /\ IsCall(q[1], "start", Two) /\ IsCall(q[2], "add", Two)
      /\ IsAwait(q[3], "healthy", 1, 10000) /\ IsAwait(q[4], "healthy", 2, 10000)
      /\ IsCall(q[5], "remove", {1}) /\ Len(q) = 9
  BY InPartialRemoval
<1>2. q[6].op = "wait" /\ q[6].condition = "gone" /\ q[6].n = 1 /\ q[6].within = 8000
  BY InPartialRemoval DEF IsAwait, IsTry
<1>3. \A k \in 6..7 : q[k].op \notin {"add", "remove", "config"}
  BY InPartialRemoval DEF IsCall, IsAwait, IsTry, IsSleep, IsSample, IsStrictSample
<1> HIDE DEF q
<1>4. QED
  BY <1>1, <1>2, <1>3, SetupRemoval DEF Keeps, q

LEMMA RemovalInAddRemoveTimeout ==
  LET q == AddRemoveTimeout IN Removal(q, 4, 6) /\ q[4].on = {1} /\ Keeps(q, 5, 8)
<1> DEFINE q == AddRemoveTimeout
<1>1. /\ IsCall(q[1], "start", {1}) /\ IsCall(q[2], "add", {1})
      /\ IsAwait(q[3], "healthy", 1, 10000) /\ IsCall(q[4], "remove", {1}) /\ Len(q) = 7
  BY InAddRemoveTimeout
<1>2. q[6].op = "wait" /\ q[6].condition = "gone" /\ q[6].n = 1 /\ q[6].within = 8000
  BY InAddRemoveTimeout DEF IsAwait, IsTry
<1>3. /\ \A k \in 5..7 : q[k].op \notin {"add", "remove", "config"}
      /\ \A k \in 5..6-1 : q[k].op = "mark"
  BY InAddRemoveTimeout DEF IsCall, IsAwait, IsTry, IsSleep, IsMark, IsBound
<1> HIDE DEF q
<1>4. QED
  BY <1>1, <1>2, <1>3, SetupOneRemoval DEF Keeps, q

LEMMA RemovalInHCFailure ==
  LET q == HCFailure IN Removal(q, 4, 5) /\ q[4].on = {1} /\ Keeps(q, 5, 8)
<1> DEFINE q == HCFailure
<1>1. /\ IsCall(q[1], "start", {1}) /\ IsCall(q[2], "add", {1})
      /\ IsAwait(q[3], "healthy", 1, 10000) /\ IsCall(q[4], "remove", {1}) /\ Len(q) = 7
  BY InHCFailure
<1>2. q[5].op = "wait" /\ q[5].condition = "flag" /\ q[5].n = 1 /\ q[5].within = 5000
  BY InHCFailure DEF IsAwait, IsTry
<1>3. /\ \A k \in 5..7 : q[k].op \notin {"add", "remove", "config"}
      /\ \A k \in 5..5-1 : q[k].op = "mark"
  BY InHCFailure DEF IsCall, IsAwait, IsTry, IsSleep, IsMark, IsBound
<1> HIDE DEF q
<1>4. QED
  BY <1>1, <1>2, <1>3, SetupOneRemoval DEF Keeps, q

LEMMA RemovalInHostReAdd ==
  LET q == HostReAdd IN Removal(q, 4, 5) /\ q[4].on = {1} /\ Keeps(q, 5, 7)
<1> DEFINE q == HostReAdd
<1>1. /\ IsCall(q[1], "start", {1}) /\ IsCall(q[2], "add", {1})
      /\ IsAwait(q[3], "healthy", 1, 10000) /\ IsCall(q[4], "remove", {1}) /\ Len(q) = 10
  BY InHostReAdd
<1>2. q[5].op = "wait" /\ q[5].condition = "flag" /\ q[5].n = 1 /\ q[5].within = 5000
  BY InHostReAdd DEF IsAwait, IsTry
<1>3. /\ \A k \in 5..6 : q[k].op \notin {"add", "remove", "config"}
      /\ \A k \in 5..5-1 : q[k].op = "mark"
  BY InHostReAdd DEF IsCall, IsAwait, IsTry, IsSleep, IsMark, IsBound
<1> HIDE DEF q
<1>4. QED
  BY <1>1, <1>2, <1>3, SetupOneRemoval DEF Keeps, q

LEMMA RemovalInH ==
  LET q == ScenarioH IN Removal(q, 6, 7) /\ q[6].on = Two /\ Keeps(q, 7, 12)
<1> DEFINE q == ScenarioH
<1>1. /\ IsCall(q[1], "start", Two) /\ IsCall(q[2], "add", Two)
      /\ IsAwait(q[3], "healthy", 1, 10000) /\ IsAwait(q[4], "healthy", 2, 10000)
      /\ q[5].op = "check" /\ q[6].op = "remove" /\ q[6].on = Two /\ Len(q) = 11
  BY InScenarioH DEF IsSample, IsCall
<1>2. q[7].op = "wait" /\ q[7].condition = "flag" /\ q[7].n = 1 /\ q[7].within = 5000
  BY InScenarioH DEF IsAwait
<1>3. \A k \in 7..11 : q[k].op \notin {"add", "remove", "config"}
  BY InScenarioH DEF IsAwait, IsSample
<1> HIDE DEF q
<1>4. \A h \in Two : Up(q, 6, h)
  <2>1. \A k \in 5..6-1 : q[k].op = "check"
    BY <1>1
  <2>2. \A h \in Two : \A k \in 5..6-1 : q[k].op # "config" /\ ~Calls(q, k, "stop", h)
                                         /\ ~Calls(q, k, "remove", h)
    BY <2>1 DEF Calls
  <2>3. QED
    BY <1>1, <2>2, UpFromSetup
<1>5. Removal(q, 6, 7)
  BY <1>1, <1>2, <1>4 DEF Removal, Two
<1>6. QED
  BY <1>1, <1>3, <1>5 DEF Keeps, q

LEMMA RemovalInD ==
  LET q == ScenarioD IN Removal(q, 6, 8) /\ q[6].on = Two /\ Keeps(q, 7, 10)
<1> DEFINE q == ScenarioD
<1>1. /\ q[1].op = "start" /\ q[1].on = Two /\ q[2].op = "config" /\ q[3].op = "add"
      /\ q[3].on = Two /\ q[6].op = "remove" /\ q[6].on = Two /\ q[7].op = "mark" /\ Len(q) = 9
      /\ q[4].op = "wait" /\ q[4].condition = "healthy" /\ q[4].n = 1 /\ q[4].must
      /\ q[5].op = "wait" /\ q[5].condition = "healthy" /\ q[5].n = 2 /\ q[5].must
      /\ q[8].op = "wait" /\ q[8].condition = "count" /\ q[8].n = 0 /\ q[8].within = 5000
      /\ q[9].op = "bound"
  BY InScenarioD DEF IsCall, IsConfig, IsAwait, IsMark, IsBound
<1> HIDE DEF q
<1>2. Up(q, 6, 1)
  <2>1. Calls(q, 1, "start", 1) /\ Calls(q, 3, "add", 1) /\ Confirms(q, 4, 1)
    BY <1>1 DEF Calls, Confirms, Two
  <2>2. /\ \A k \in 1..4-1 : q[k].op \notin {"stop", "remove"}
        /\ \A k \in 4..6-1 : q[k].op = "wait"
    BY <1>1
  <2>3. \A k \in 4..6-1 : q[k].op # "config" /\ ~Calls(q, k, "stop", 1) /\ ~Calls(q, k, "remove", 1)
    BY <2>2 DEF Calls
  <2>4. 4 < 6 /\ 3 \in 2..4-1
    OBVIOUS
  <2>5. QED
    BY <2>1, <2>2, <2>3, <2>4, WasUpBy
<1>3. Up(q, 6, 2)
  <2>1. Calls(q, 1, "start", 2) /\ Calls(q, 3, "add", 2) /\ Confirms(q, 5, 2)
    BY <1>1 DEF Calls, Confirms, Two
  <2>2. /\ \A k \in 1..5-1 : q[k].op \notin {"stop", "remove"}
        /\ \A k \in 5..6-1 : q[k].op = "wait"
    BY <1>1
  <2>3. \A k \in 5..6-1 : q[k].op # "config" /\ ~Calls(q, k, "stop", 2) /\ ~Calls(q, k, "remove", 2)
    BY <2>2 DEF Calls
  <2>4. 5 < 6 /\ 3 \in 2..5-1
    OBVIOUS
  <2>5. QED
    BY <2>1, <2>2, <2>3, <2>4, WasUpBy
<1>4. Removal(q, 6, 8)
  <2>1. \A k \in 6+1..8-1 : q[k].op = "mark"
    BY <1>1
  <2>2. QED
    BY <1>1, <1>2, <1>3, <2>1 DEF Removal, Two
<1>5. Keeps(q, 7, 10)
  BY <1>1 DEF Keeps
<1>6. QED
  BY <1>1, <1>4, <1>5 DEF q

LEMMA RemovalInG ==
  LET q == ScenarioG IN Removal(q, 5, 7) /\ q[5].on = Two /\ Keeps(q, 6, 9)
<1> DEFINE q == ScenarioG
<1>1. /\ q[1].op = "start" /\ q[1].on = Two /\ q[2].op = "config" /\ q[3].op = "add"
      /\ q[3].on = Two /\ q[5].op = "remove" /\ q[5].on = Two /\ q[6].op = "mark" /\ Len(q) = 8
      /\ q[4].op = "wait" /\ q[4].condition = "count" /\ q[4].n = 2 /\ q[4].must
      /\ q[7].op = "wait" /\ q[7].condition = "count" /\ q[7].n = 0 /\ q[7].within = 5000
      /\ q[8].op = "bound"
  BY InScenarioG DEF IsCall, IsConfigNoHC, IsAwait, IsMark, IsBound
<1> HIDE DEF q
<1>2. ASSUME NEW h \in Two
      PROVE  Up(q, 5, h)
  <2>1. Calls(q, 1, "start", h) /\ Calls(q, 3, "add", h) /\ Confirms(q, 4, h)
    BY <1>1 DEF Calls, Confirms
  <2>2. /\ \A k \in 1..4-1 : q[k].op \notin {"stop", "remove"}
        /\ \A k \in 4..5-1 : q[k].op = "wait"
    BY <1>1
  <2>3. \A k \in 4..5-1 : q[k].op # "config" /\ ~Calls(q, k, "stop", h) /\ ~Calls(q, k, "remove", h)
    BY <2>2 DEF Calls
  <2>4. 4 < 5 /\ 3 \in 2..4-1
    OBVIOUS
  <2>5. QED
    BY <2>1, <2>2, <2>3, <2>4, WasUpBy
<1>3. Removal(q, 5, 7)
  <2>1. \A k \in 5+1..7-1 : q[k].op = "mark"
    BY <1>1
  <2>2. QED
    BY <1>1, <1>2, <2>1 DEF Removal, Two
<1>4. Keeps(q, 6, 9)
  BY <1>1 DEF Keeps
<1>5. QED
  BY <1>1, <1>3, <1>4 DEF q

\* The removal of the second host.
LEMMA SecondRemoval ==
  LET q == PartialRemoval IN Removal(q, 8, 9) /\ q[8].on = {2} /\ Keeps(q, 9, 10)
<1> DEFINE q == PartialRemoval
<1>1. /\ IsCall(q[1], "start", Two) /\ IsCall(q[2], "add", Two)
      /\ IsAwait(q[3], "healthy", 1, 10000) /\ IsAwait(q[4], "healthy", 2, 10000)
      /\ q[5].op = "remove" /\ q[5].on = {1} /\ q[6].op = "wait" /\ q[7].op = "check"
      /\ q[8].op = "remove" /\ q[8].on = {2} /\ Len(q) = 9
      /\ q[9].op = "wait" /\ q[9].condition = "gone" /\ q[9].n = 2 /\ q[9].within = 8000
  BY InPartialRemoval DEF IsCall, IsAwait, IsTry, IsSample
<1> HIDE DEF q
<1>2. Up(q, 8, 2)
  <2>1. \A k \in 5..8-1 : k = 5 \/ q[k].op \in {"wait", "check"}
    BY <1>1
  <2>2. \A k \in 5..8-1 : q[k].op # "config" /\ ~Calls(q, k, "stop", 2) /\ ~Calls(q, k, "remove", 2)
    BY <1>1, <2>1 DEF Calls
  <2>3. 2 \in Two /\ 8 >= 5
    BY DEF Two
  <2>4. QED
    BY <1>1, <2>2, <2>3, UpFromSetup
<1>3. QED
  BY <1>1, <1>2 DEF Removal, Keeps, q

LEMMA RemovalInLongLived ==
  LET q == LongLivedHealthy IN Removal(q, 6, 7) /\ q[6].on = {1} /\ Keeps(q, 7, 8)
<1> DEFINE q == LongLivedHealthy
<1>1. /\ IsCall(q[1], "start", {1}) /\ IsCall(q[2], "add", {1})
      /\ IsAwait(q[3], "healthy", 1, 10000)
      /\ q[4].op = "sleep" /\ q[5].op = "check"
      /\ q[6].op = "remove" /\ q[6].on = {1} /\ Len(q) = 7
      /\ q[7].op = "wait" /\ q[7].condition = "gone" /\ q[7].n = 1 /\ q[7].within = 8000
  BY InLongLivedHealthy DEF IsCall, IsAwait, IsTry, IsSleep, IsSample
<1> HIDE DEF q
<1>2. Up(q, 6, 1)
  <2>1. \A k \in 4..6-1 : q[k].op \in {"sleep", "check"}
    BY <1>1
  <2>2. \A k \in 4..6-1 : q[k].op # "config" /\ ~Calls(q, k, "stop", 1) /\ ~Calls(q, k, "remove", 1)
    BY <2>1 DEF Calls
  <2>3. QED
    BY <1>1, <2>2, UpFromSetupOne
<1>3. QED
  BY <1>1, <1>2 DEF Removal, Keeps, q

\* E confirms every host it adds.
LEMMA UpInE ==
  ASSUME NEW h \in Hosts
  PROVE  WasUp(ScenarioE, NumHosts + 4, h) /\ Up(ScenarioE, NumHosts + 3, h)
<1> DEFINE q == ScenarioE
           N == NumHosts
<1>1. N \in Nat /\ h \in 1..N /\ N >= 2
  BY EnvoyAssumption DEF Hosts
<1>2. /\ q[1].op = "start" /\ q[1].on = Hosts /\ q[2].op = "add" /\ q[2].on = Hosts
      /\ q[N + 3].op = "remove"
  BY InScenarioE, Fields
<1>3. \A i \in 3..N+2 : /\ q[i].op = "wait" /\ q[i].must /\ q[i].condition = "healthy"
                        /\ q[i].n = i - 2
  BY InScenarioE, MadePolls DEF IsAwait
<1> HIDE DEF q, N
<1> DEFINE w == h + 2
<1>4. w \in 3..N+2 /\ w - 2 = h /\ w \in Nat
  BY <1>1
<1> HIDE DEF w
<1>5. Calls(q, 1, "start", h) /\ Calls(q, 2, "add", h) /\ Confirms(q, w, h) /\ 2 \in 2..w-1
  BY <1>2, <1>3, <1>4 DEF Calls, Confirms
<1>6. \A k \in 1..w-1 : q[k].op \notin {"stop", "remove"}
  <2>1. \A k \in 1..w-1 : k = 1 \/ k = 2 \/ k \in 3..N+2
    BY <1>1, <1>4
  <2>2. QED
    BY <1>2, <1>3, <2>1
<1>7. \A k \in w..N+3 : k = N + 3 \/ q[k].op = "wait"
  <2>1. \A k \in w..N+3 : k = N + 3 \/ k \in 3..N+2
    BY <1>1, <1>4
  <2>2. QED
    BY <1>3, <2>1
<1> DEFINE i == N + 4
           j == N + 3
<1>8. /\ i \in Nat /\ w < i /\ j \in Nat /\ w < j
      /\ \A k \in w..i-1 : k \in w..N+3
      /\ \A k \in w..j-1 : k \in w..N+3 /\ k # N + 3
  BY <1>1, <1>4
<1> HIDE DEF i, j
<1>9. WasUp(q, i, h)
  <2>1. \A k \in w..i-1 : q[k].op # "config" /\ ~Calls(q, k, "stop", h)
    BY <1>2, <1>7, <1>8 DEF Calls
  <2>2. QED
    BY <1>4, <1>5, <1>6, <1>8, <2>1, WasUpBy
<1>10. Up(q, j, h)
  <2>1. \A k \in w..j-1 : q[k].op = "wait"
    BY <1>7, <1>8
  <2>2. \A k \in w..j-1 : q[k].op # "config" /\ ~Calls(q, k, "stop", h) /\ ~Calls(q, k, "remove", h)
    BY <2>1 DEF Calls
  <2>3. QED
    BY <1>4, <1>5, <1>6, <1>8, <2>2, WasUpBy
<1>11. QED
  BY <1>9, <1>10 DEF q, N, i, j

-----------------------------------------------------------------------------
(* How long a removed host stays                                           *)

LEMMA ServedNow ==
  ASSUME BaseInv, Running, Listed # {}
  PROVE  /\ applied.timeoutMs = TimeoutOf(scenario, at)
         /\ applied.healthChecks <=> ChecksOf(scenario, at)
BY BaseParts DEF HostsInv, SameConfig, ConfigInv, Running

LEMMA Timeouts ==
  ASSUME NEW s \in Scenarios, NEW i
  PROVE  /\ TimeoutOf(s, i) \in {0, 500, 3000, 5000}
         /\ s = "0" <=> TimeoutOf(s, i) = 0
         /\ s # "D" => TimeoutOf(s, i) # 500
         /\ s \in StressBodies <=> TimeoutOf(s, i) = 3000
         /\ s # "G" => ChecksOf(s, i)
BY NamesDiffer DEF TimeoutOf, ChecksOf

LEMMA RemovalNow ==
  ASSUME RemovalInv, Running, NEW r \in Nat, NEW p \in Nat,
         After(Script(scenario), r, p, at), Spared(scenario, r)
  PROVE  /\ Script(scenario)[r].on \cap pushed.endpoints = {}
         /\ answering => \/ at <= p /\ Unapplied(Script(scenario)[r].on)
                         \/ Gone(Script(scenario)[r].on)
BY DEF RemovalInv

\* The push of a removal is applied.
LEMMA RemovalApplied ==
  ASSUME BaseInv, RemovalInv, Running, Applies, NEW r \in Nat, NEW p \in Nat,
         After(Script(scenario), r, p, at), Spared(scenario, r), NEW h \in Script(scenario)[r].on
  PROVE  /\ h \in Hosts /\ at <= p /\ waited <= MaxLag /\ waited \in Nat
         /\ state[h] = "healthy" /\ age'[h] = 0 /\ state'[h] = Removed("healthy")
         /\ applied.timeoutMs = TimeoutOf(scenario, at)
         /\ applied.healthChecks <=> ChecksOf(scenario, at)
<1> DEFINE S == Script(scenario)[r].on
<1>0. ShapeInv /\ HostsInv /\ waited \in Nat /\ lag \in Nat /\ lag <= MaxLag /\ MaxLag \in Nat
  BY BaseParts, TableTypes
<1>1. S \in SUBSET Hosts
  BY <1>0, RemovalTypes DEF After
<1>2. ~Gone(S) /\ answering /\ Apply
  BY DEF Applies, Apply, Gone
<1>3. at <= p /\ Unapplied(S) /\ h \notin pushed.endpoints
  BY <1>2, RemovalNow
<1>4. state[h] = "healthy" /\ waited <= lag /\ h \in Listed
  BY <1>1, <1>3 DEF Unapplied, Listed
<1>5. state'[h] = Removed("healthy") /\ age'[h] = 0
  BY <1>0, <1>1, <1>2, <1>3, <1>4, ApplyHost
<1>6. QED
  BY <1>0, <1>1, <1>3, <1>4, <1>5, ServedNow

\* The timer of a host that is pending after a tick.
LEMMA PendingTick ==
  ASSUME ShapeInv, EnvoyTick, NEW h \in Hosts, state'[h] = "pending"
  PROVE  /\ state[h] = "pending"
         /\ HasTimer(h) => age'[h] = age[h] + 250 /\ age[h] + 250 < Timeout
         /\ ~HasTimer(h) => age'[h] = 0
<1>1. state[h] \in States /\ age[h] \in Nat /\ applied \in Clusters
  BY TableTypes
<1>2. state[h] = "pending"
  BY <1>1, TickHost DEF States
<1>3. Timeout \in Int
  BY <1>1 DEF Timeout, Clusters
<1>4. QED
  BY <1>1, <1>2, <1>3, TickHost

\* Where Envoy keeps its timeout, a host has been pending for all of a poll,
\* but for the delay of the push.
Settling == {"fixed", "forgetful"}

LateInv == Running /\ answering /\ kind \in Settling /\ scenario # "0" =>
  \A r, p \in Nat : After(Script(scenario), r, p, at) =>
    \A h \in Script(scenario)[r].on : state[h] = "pending" => waited <= age[h] + MaxLag

LEMMA LateNext ==
  ASSUME BaseInv, RemovalInv, LateInv, [Next]_vars
  PROVE  LateInv'
<1> DEFINE q == Script(scenario)
<1> SUFFICES ASSUME Running', answering', kind' \in Settling, scenario' # "0",
                    NEW r \in Nat, NEW p \in Nat, After(q, r, p, at)', NEW h \in q'[r].on,
                    state'[h] = "pending"
             PROVE  waited' <= age'[h] + MaxLag
  BY DEF LateInv
<1>0. /\ ShapeInv /\ HostsInv /\ BaseInv' /\ MaxLag \in Nat /\ waited \in Nat
      /\ scenario \in Scenarios
  BY BaseParts, BaseNext, TableTypes
<1>1. CASE Begins
  BY <1>1 DEF Begins, Begin, After, Removal
<1>2. CASE Running /\ Advances
  <2>1. /\ waited' = 0 /\ age' = age /\ q' = q /\ at' = at + 1 /\ at \in Nat
    BY <1>2, AdvanceIs
  <2>2. r \in 1..Len(q) /\ q[r].on \in SUBSET Hosts
    BY <1>0, <2>1, RemovalTypes DEF After, Removal
  <2>3. age[h] \in Nat
    BY <1>0, <2>1, <2>2, TableTypes
  <2>4. QED
    BY <1>0, <2>1, <2>3
<1>3. CASE Running /\ (Ticks \/ Applies \/ Breaks \/ UNCHANGED scenarioVars)
  <2>1. UNCHANGED <<scenario, at, kind, answering>>
    BY <1>3 DEF Ticks, EnvoyTick, Applies, Apply, Breaks, Reconnect, scenarioVars, bodyVars
  <2>2. After(q, r, p, at) /\ q[r].on \in SUBSET Hosts /\ q' = q
    BY <1>0, <2>1, RemovalTypes DEF After
  <2>3. state[h] = "pending" => waited <= age[h] + MaxLag
    BY <1>3, <2>1, <2>2 DEF LateInv
  <2>4. CASE Ticks
    <3>1. EnvoyTick /\ waited' = waited + 250
      BY <2>1, <2>4 DEF Ticks
    <3>2. state[h] = "pending" /\ (HasTimer(h) => age'[h] = age[h] + 250) /\ age[h] \in Nat
      BY <1>0, <2>2, <3>1, PendingTick, TableTypes
    <3>3. HasTimer(h)
      <4>1. TimeoutOf(scenario, at) > 0
        BY <1>0, <2>1, Timeouts
      <4>2. applied.timeoutMs = TimeoutOf(scenario, at)
        BY <1>3, <2>2, <3>2, ServedNow DEF Listed
      <4>3. kind \in Settling
        BY <2>1
      <4>4. QED
        BY <3>2, <4>1, <4>2, <4>3 DEF HasTimer, Timeout, Settling
    <3>4. QED
      BY <1>0, <2>3, <3>1, <3>2, <3>3
  <2>5. CASE Applies
    <3>1. Spared(scenario, r)
      BY <2>1 DEF Spared, Settling
    <3>2. waited <= MaxLag /\ age'[h] = 0 /\ waited' = waited
      BY <1>3, <2>2, <2>5, <3>1, RemovalApplied DEF Applies, bodyVars
    <3>3. QED
      BY <1>0, <3>2
  <2>6. CASE Breaks
    BY <2>1, <2>2, <2>3, <2>6 DEF Breaks, Reconnect, bodyVars
  <2>7. CASE UNCHANGED scenarioVars
    BY <2>2, <2>3, <2>7 DEF scenarioVars, envoyVars, bodyVars
  <2>8. QED
    BY <1>3, <2>4, <2>5, <2>6, <2>7
<1>4. CASE Dies
  BY <1>4 DEF Dies
<1>5. QED
  BY <1>1, <1>2, <1>3, <1>4, RunningSteps

\* No host goes before its timeout, for as long as its backend runs and no
\* stream breaks its timer.
Slow == kind \notin {"hasty", "amnesiac", "contagious"} /\ (scenario = "G" => kind = "unconditional")

SlowInv == Running /\ answering /\ Slow =>
  \A r, p \in Nat : After(Script(scenario), r, p, at) /\ at <= p =>
    \A h \in Script(scenario)[r].on :
      state[h] = "healthy" \/ (state[h] = "pending" /\ age[h] <= waited) \/ waited >= Timeout

LEMMA SlowNext ==
  ASSUME BaseInv, CallsInv, UpInv, RemovalInv, SlowInv, [Next]_vars
  PROVE  SlowInv'
<1> DEFINE q == Script(scenario)
<1> SUFFICES ASSUME Running', answering', Slow',
                    NEW r \in Nat, NEW p \in Nat, After(q, r, p, at)', at' <= p, NEW h \in q'[r].on
             PROVE  \/ state'[h] = "healthy"
                    \/ state'[h] = "pending" /\ age'[h] <= waited'
                    \/ waited' >= Timeout'
  BY DEF SlowInv
<1>0. ShapeInv /\ HostsInv /\ BaseInv' /\ waited \in Nat /\ scenario \in Scenarios
      /\ WaitedInv /\ applied \in Clusters /\ at \in Nat \ {0}
  BY BaseParts, BaseNext, TableTypes DEF ShapeInv
<1>1. CASE Begins
  BY <1>1 DEF Begins, Begin, After, Removal
<1>2. CASE Running /\ Advances
  <2>1. /\ waited' = 0 /\ age' = age /\ q' = q /\ at' = at + 1 /\ Instruction = q[at]
        /\ state' = state /\ answering' = answering /\ kind' = kind /\ scenario' = scenario
        /\ applied' = applied
    BY <1>2, AdvanceIs
  <2>2. After(q, r, p, at + 1) /\ Timeout' = Timeout /\ Slow
    BY <2>1 DEF Timeout, Slow
  <2>3. r = at \/ After(q, r, p, at)
    BY <1>0, <2>2, AfterLater
  <2>4. CASE r = at
    <3>1. Up(q, at, h) /\ q[r].on \in SUBSET Hosts
      BY <1>0, <2>1, <2>2, <2>4, RemovalTypes DEF After, Removal
    <3>2. Spared(scenario, at)
      BY <2>2 DEF Spared, Slow
    <3>3. QED
      BY <1>2, <2>1, <3>1, <3>2 DEF UpInv
  <2>5. CASE After(q, r, p, at)
    <3>1. at \in r+1..p-1
      BY <1>0, <2>1, <2>5 DEF After
    <3>2. q[at].op = "mark"
      BY <2>5, <3>1 DEF After, Removal
    <3>3. waited = 0
      BY <1>0, <2>1, <3>2 DEF WaitedInv, Is
    <3>4. at <= p
      BY <3>1
    <3>5. state[h] = "healthy" \/ (state[h] = "pending" /\ age[h] <= waited) \/ waited >= Timeout
      BY <1>2, <2>1, <2>2, <2>5, <3>4 DEF SlowInv
    <3>6. QED
      BY <2>1, <2>2, <3>3, <3>5
  <2>6. QED
    BY <2>3, <2>4, <2>5
<1>3. CASE Running /\ (Ticks \/ Applies \/ Breaks \/ UNCHANGED scenarioVars)
  <2>1. UNCHANGED <<scenario, at, kind, answering>>
    BY <1>3 DEF Ticks, EnvoyTick, Applies, Apply, Breaks, Reconnect, scenarioVars, bodyVars
  <2>2. After(q, r, p, at) /\ q[r].on \in SUBSET Hosts /\ q' = q /\ Slow /\ at <= p
    BY <1>0, <2>1, RemovalTypes DEF After, Slow
  <2>3. state[h] = "healthy" \/ (state[h] = "pending" /\ age[h] <= waited) \/ waited >= Timeout
    BY <1>3, <2>1, <2>2 DEF SlowInv
  <2>4. CASE Ticks
    <3>1. EnvoyTick /\ waited' = waited + 250
      BY <2>1, <2>4 DEF Ticks
    <3>2. Timeout' = Timeout /\ Timeout \in Nat /\ age[h] \in Nat
      BY <1>0, <2>2, <3>1, TickHost, TableTypes DEF Timeout, Clusters
    <3>3. state[h] # "absent" => h \in backends \/ ~applied.healthChecks
      <4>1. Started(q, at, h)
        BY <1>0, <2>2, StartedUntil
      <4>2. QED
        BY <1>3, <2>2, <4>1, Kept
    <3>4. CASE state[h] = "healthy"
      BY <1>0, <2>2, <3>1, <3>3, <3>4, HealthyTick
    <3>5. CASE state[h] = "pending" /\ age[h] <= waited
      <4>1. Checked(h) = "pending"
        BY <3>3, <3>5 DEF Checked
      <4>2. CASE TimerFires(h)
        BY <1>0, <2>2, <3>1, <3>2, <3>5, <4>2, TickHost
      <4>3. CASE ~TimerFires(h)
        <5>1. state'[h] = "pending"
          BY <1>0, <2>2, <3>1, <4>1, <4>3, TickHost
        <5>2. QED
          BY <1>0, <2>2, <3>1, <3>2, <3>5, <5>1, PendingTick
      <4>4. QED
        BY <4>2, <4>3
    <3>6. QED
      BY <1>0, <2>3, <3>1, <3>2, <3>4, <3>5
  <2>5. CASE Applies
    <3>1. Spared(scenario, r)
      BY <2>2 DEF Spared, Slow
    <3>2. /\ age'[h] = 0 /\ waited' = waited /\ state'[h] = Removed("healthy")
          /\ applied.healthChecks <=> ChecksOf(scenario, at)
      BY <1>3, <2>2, <2>5, <3>1, RemovalApplied DEF Applies, bodyVars
    <3>3. applied.healthChecks \/ kind = "unconditional"
      BY <1>0, <2>2, <3>2, Timeouts DEF Slow
    <3>4. Removed("healthy") = "pending"
      BY <2>2, <3>3 DEF Removed, Slow
    <3>5. QED
      BY <1>0, <3>2, <3>4
  <2>6. CASE Breaks
    BY <2>1, <2>2, <2>3, <2>6 DEF Breaks, Reconnect, bodyVars, Timeout, Slow
  <2>7. CASE UNCHANGED scenarioVars
    BY <2>2, <2>3, <2>7 DEF scenarioVars, envoyVars, bodyVars, Timeout
  <2>8. QED
    BY <1>3, <2>4, <2>5, <2>6, <2>7
<1>4. CASE Dies
  BY <1>4 DEF Dies
<1>5. QED
  BY <1>1, <1>2, <1>3, <1>4, RunningSteps

-----------------------------------------------------------------------------
(* A removed host soon after its removal                                   *)

\* What fails costs less than 2 s after a step, too.
LEMMA Budget ==
  ASSUME NEW l \in Nat, NEW c \in Nat, NEW b \in Nat, l + c + b <= MaxFaults
  PROVE  MaxLag + 250 * l < 2000
<1>1. l <= MaxFaults /\ MaxFaults \in Nat /\ MaxLag \in Nat
  BY FaultsAssumption, EnvoyAssumption
<1>2. MaxLag + 250 * MaxFaults < 2000
  BY BoundsAssumption DEF TickMs
<1>3. QED
  BY <1>1, <1>2

LEMMA FewFaultsLater ==
  ASSUME FaultsInv', NEW l, l = lost'
  PROVE  l \in Nat /\ MaxLag + 250 * l < 2000
<1> DEFINE c == crashes'
           b == breaks'
<1>1. l \in Nat /\ c \in Nat /\ b \in Nat /\ l + c + b <= MaxFaults
  BY DEF FaultsInv
<1> HIDE DEF c, b
<1>2. MaxLag + 250 * l < 2000
  BY <1>1, Budget
<1>3. QED
  BY <1>1, <1>2

\* Instructions that a removed host outlasts: a poll for it to be pending, and
\* a sleep that ends 2 s before its timeout.
IsPoll(i, S) == i.op = "wait" /\ i.condition = "flag" /\ i.n \in S
Polled(q, r, i) == \A k \in r+1..i-1 : IsPoll(q[k], q[r].on)
IsShortSleep(i, ms) == i.op = "sleep" /\ (ms = 0 \/ i.within + 2000 <= ms)
IsBrief(i, S, ms) == i.op \notin {"wait", "sleep"} \/ IsPoll(i, S) \/ IsShortSleep(i, ms)

\* A host that is still healthy, or has been pending for ms at most, but for
\* the polls that failed.
Prompt(h, ms) == state[h] = "healthy" \/ (state[h] = "pending" /\ age[h] <= 250 * lost + ms)

Slept(i) == IF i.op = "sleep" THEN waited ELSE 0

PromptInv == Running /\ answering /\ kind \in Settling /\ scenario \notin {"D", "G"} =>
  \A r, p \in Nat : After(Script(scenario), r, p, at) /\ at <= Len(Script(scenario)) =>
    \A h \in Script(scenario)[r].on :
      LET q  == Script(scenario)
          ms == TimeoutOf(scenario, at)
      IN  /\ Polled(q, r, at) /\ IsBrief(q[at], q[r].on, ms) => Prompt(h, Slept(q[at]))
          /\ /\ r < at - 1 /\ Polled(q, r, at - 1) /\ IsShortSleep(q[at - 1], ms)
             /\ q[at].op \notin {"wait", "sleep"}
             => Prompt(h, q[at - 1].within)

LEMMA PolledLater ==
  ASSUME NEW q, NEW r \in Nat, NEW i \in Nat, r < i, Polled(q, r, i + 1)
  PROVE  Polled(q, r, i) /\ IsPoll(q[i], q[r].on)
BY DEF Polled

\* The polls stop no backend.
LEMMA PolledStarted ==
  ASSUME NEW q, NEW r \in Nat, NEW p \in Nat, NEW i \in Nat, NEW h \in q[r].on,
         After(q, r, p, i), Polled(q, r, i)
  PROVE  Started(q, i, h)
<1>1. Started(q, r, h) /\ q[r].op = "remove" /\ r < i /\ r \in Nat \ {0}
  BY DEF After, Removal, Up, WasUp
<1>2. \A k \in r+1..i-1 : q[k].op = "wait"
  BY DEF Polled, IsPoll
<1>3. \A k \in 1..i-1 : k \in 1..r-1 \/ k = r \/ k \in r+1..i-1
  BY <1>1
<1>4. \A k \in 1..i-1 : ~Calls(q, k, "stop", h)
  BY <1>1, <1>2, <1>3 DEF Started, Calls
<1>5. PICK k \in 1..r-1 : Calls(q, k, "start", h)
  BY <1>1 DEF Started
<1>6. k \in 1..i-1
  BY <1>1, <1>5
<1>7. QED
  BY <1>4, <1>5, <1>6 DEF Started

\* Where the removed hosts are pending, a poll for one of them sees it.
LEMMA PollSees ==
  ASSUME ShapeInv, answering, NEW S \in SUBSET Hosts, IsPoll(Instruction, S),
         \A h \in S : state[h] = "pending"
  PROVE  Seen
<1>1. Instruction.n \in Listed /\ IsPending(Instruction.n) /\ Instruction.condition = "flag"
  BY DEF IsPoll, Listed, IsPending
<1>2. Sees("flag", Instruction.n)
  BY <1>1, SeesWhat
<1>3. Shows(GetClusterHosts, "flag", Instruction.n)
  BY <1>2, SeenIs, TableTypes DEF Conditions
<1>4. QED
  BY <1>1, <1>3 DEF Seen

\* A tick does not end the timer of a host that is pending for a short time.
LEMMA PromptTick ==
  ASSUME ShapeInv, EnvoyTick, NEW h \in Hosts, kind \in Settling, h \in backends,
         state[h] = "pending", NEW b \in Nat, age[h] + 250 <= b,
         applied.timeoutMs = 0 \/ b < applied.timeoutMs
  PROVE  state'[h] = "pending" /\ age'[h] <= b
<1>1. age[h] \in Nat /\ applied.timeoutMs \in Nat
  BY TableTypes DEF Clusters
<1>2. Timeout = applied.timeoutMs
  BY DEF Timeout, Settling
<1>3. ~TimerFires(h)
  <2>1. TimerFires(h) => HasTimer(h) /\ age[h] + 250 >= Timeout
    BY TickHost
  <2>2. HasTimer(h) => Timeout > 0
    BY DEF HasTimer
  <2>3. QED
    BY <1>1, <1>2, <2>1, <2>2
<1>4. Checked(h) = "pending"
  BY DEF Checked
<1>5. state'[h] = "pending"
  BY <1>3, <1>4, TickHost
<1>6. age'[h] = age[h] + 250 \/ age'[h] = 0
  BY TickHost
<1>7. QED
  BY <1>1, <1>5, <1>6

LEMMA PromptNext ==
  ASSUME BaseInv, FaultsInv, CallsInv, UpInv, RemovalInv, PromptInv, [Next]_vars
  PROVE  PromptInv'
<1> DEFINE q == Script(scenario)
           ms == TimeoutOf(scenario, at)
<1> SUFFICES ASSUME Running', answering', kind' \in Settling, scenario' \notin {"D", "G"},
                    NEW r \in Nat, NEW p \in Nat, After(q, r, p, at)', at' <= Len(q'),
                    NEW h \in q'[r].on
             PROVE  /\ (Polled(q, r, at) /\ IsBrief(q[at], q[r].on, ms))' => Prompt(h, Slept(q[at]))'
                    /\ (/\ r < at - 1 /\ Polled(q, r, at - 1) /\ IsShortSleep(q[at - 1], ms)
                        /\ q[at].op \notin {"wait", "sleep"})'
                       => Prompt(h, q[at - 1].within)'
  BY DEF PromptInv
<1>0. /\ ShapeInv /\ HostsInv /\ waited \in Nat /\ scenario \in Scenarios /\ WaitedInv
      /\ at \in Nat \ {0} /\ Len(q) \in Nat
  BY BaseParts, TableTypes DEF ShapeInv
<1>1. CASE Begins
  BY <1>1 DEF Begins, Begin, After, Removal
<1>2. CASE Running /\ Advances
  <2>1. /\ waited' = 0 /\ age' = age /\ q' = q /\ at' = at + 1 /\ Instruction = q[at]
        /\ state' = state /\ answering' = answering /\ kind' = kind /\ scenario' = scenario
        /\ (lost' = lost \/ lost' = lost + 1) /\ lost \in Nat
    BY <1>2, AdvanceIs DEF FaultsInv
  <2>2. After(q, r, p, at + 1) /\ q[r].on \in SUBSET Hosts /\ r < at + 1 /\ at + 1 <= Len(q)
    BY <1>0, <2>1, RemovalTypes DEF After
  <2>3. age[h] \in Nat /\ 250 * lost' >= 250 * lost /\ lost' \in Nat
    BY <1>0, <2>1, <2>2, TableTypes
  <2>4. r = at \/ After(q, r, p, at)
    BY <1>0, <2>2, AfterLater
  <2>5. TimeoutOf(scenario, at + 1) = TimeoutOf(scenario, at)
    BY <2>1 DEF TimeoutOf
  <2>6. ASSUME Polled(q, r, at + 1)
        PROVE  Prompt(h, 0)'
    <3>1. CASE r = at
      <4>1. Up(q, at, h)
        BY <2>1, <2>2, <3>1 DEF After, Removal
      <4>2. Spared(scenario, at)
        BY <2>1 DEF Spared, Settling
      <4>3. QED
        BY <1>2, <2>1, <2>2, <4>1, <4>2 DEF UpInv, Prompt
    <3>2. CASE After(q, r, p, at)
      <4>1. r < at
        BY <3>2 DEF After
      <4>2. Polled(q, r, at) /\ IsPoll(q[at], q[r].on)
        BY <1>0, <2>6, <4>1, PolledLater
      <4>3. IsBrief(q[at], q[r].on, ms) /\ Slept(q[at]) = 0
        BY <4>2 DEF IsBrief, IsPoll, Slept
      <4>4. Prompt(h, 0)
        BY <1>0, <1>2, <2>1, <2>2, <3>2, <4>2, <4>3 DEF PromptInv
      <4>5. QED
        BY <2>1, <2>3, <4>4 DEF Prompt
    <3>3. QED
      BY <2>4, <3>1, <3>2
  <2>7. ASSUME r < at, Polled(q, r, at), IsShortSleep(q[at], ms)
        PROVE  \/ state'[h] = "healthy"
               \/ state'[h] = "pending" /\ age'[h] <= 250 * lost' + q[at].within
    <3>1. After(q, r, p, at) /\ at <= Len(q)
      BY <1>0, <2>2, <2>4, <2>7
    <3>2. IsBrief(q[at], q[r].on, ms) /\ Slept(q[at]) = waited
      BY <2>7 DEF IsBrief, IsShortSleep, Slept
    <3>3. Prompt(h, waited)
      BY <1>0, <1>2, <2>1, <2>2, <2>7, <3>1, <3>2 DEF PromptInv
    <3>4. q[at].within \in Nat /\ waited <= q[at].within
      <4>1. q[at] \in Instructions
        BY <1>0, <3>1, TableTypes
      <4>2. q[at].within \in Nat
        BY <2>7, <4>1, InstructionFields, WholeTicks DEF IsShortSleep
      <4>3. QED
        BY <1>0, <2>1, <4>2 DEF WaitedInv
    <3>5. state[h] = "healthy" \/ (state[h] = "pending" /\ age[h] <= 250 * lost + waited)
      BY <3>3 DEF Prompt
    <3> DEFINE d == q[at].within
               l == lost'
    <3>6. d \in Nat /\ waited <= d /\ l \in Nat /\ 250 * l >= 250 * lost
      BY <2>3, <3>4
    <3> HIDE DEF d, l
    <3>7. age[h] <= 250 * lost + waited => age[h] <= 250 * l + d
      BY <1>0, <2>1, <2>3, <3>6
    <3>8. QED
      BY <2>1, <3>5, <3>7 DEF d, l
  <2>8. (Polled(q, r, at) /\ IsBrief(q[at], q[r].on, ms))' => Prompt(h, Slept(q[at]))'
    <3>1. Slept(q[at])' = 0
      BY <2>1 DEF Slept
    <3>2. Polled(q, r, at)' => Polled(q, r, at + 1)
      BY <2>1
    <3>3. QED
      BY <2>6, <3>1, <3>2 DEF Prompt
  <2>9. (/\ r < at - 1 /\ Polled(q, r, at - 1) /\ IsShortSleep(q[at - 1], ms)
         /\ q[at].op \notin {"wait", "sleep"})'
        => Prompt(h, q[at - 1].within)'
    <3>1. (at - 1)' = at
      BY <1>0, <2>1
    <3>2. /\ Polled(q, r, at - 1)' => Polled(q, r, at)
          /\ q[at - 1].within' = q[at].within
          /\ ms' = ms /\ (q[at - 1])' = q[at]
      BY <2>1, <2>5, <3>1
    <3>3. IsShortSleep(q[at - 1], ms)' => IsShortSleep(q[at], ms)
      BY <3>2 DEF IsShortSleep
    <3>4. QED
      BY <2>7, <3>1, <3>2, <3>3 DEF Prompt
  <2>10. QED
    BY <2>8, <2>9
<1>3. CASE Running /\ (Ticks \/ Applies \/ Breaks \/ UNCHANGED scenarioVars)
  <2>1. UNCHANGED <<scenario, at, kind, answering>>
    BY <1>3 DEF Ticks, EnvoyTick, Applies, Apply, Breaks, Reconnect, scenarioVars, bodyVars
  <2>2. /\ After(q, r, p, at) /\ q[r].on \in SUBSET Hosts /\ q' = q /\ r < at /\ at <= Len(q)
        /\ kind \in Settling /\ scenario \notin {"D", "G"} /\ Spared(scenario, r)
    <3>1. q' = q /\ at' = at /\ kind \in Settling /\ scenario \notin {"D", "G"}
      BY <2>1
    <3>2. After(q, r, p, at) /\ at <= Len(q)
      BY <3>1
    <3>3. q[r].on \in SUBSET Hosts /\ r < at
      BY <1>0, <3>2, RemovalTypes DEF After
    <3>4. Spared(scenario, r)
      BY <3>1 DEF Spared, Settling
    <3>5. QED
      BY <3>1, <3>2, <3>3, <3>4
  <2>3. /\ Polled(q, r, at) /\ IsBrief(q[at], q[r].on, ms) => Prompt(h, Slept(q[at]))
        /\ /\ r < at - 1 /\ Polled(q, r, at - 1) /\ IsShortSleep(q[at - 1], ms)
           /\ q[at].op \notin {"wait", "sleep"}
           => Prompt(h, q[at - 1].within)
    BY <1>3, <2>1, <2>2 DEF PromptInv
  <2>4. CASE Ticks
    <3>1. EnvoyTick /\ waited' = waited + 250 /\ InBody /\ Instruction = q[at]
          /\ q[at].op \in {"wait", "sleep"}
          /\ IF q[at].op = "wait" /\ Seen THEN lost' = lost + 1 ELSE lost' = lost
      BY <2>1, <2>2, <2>4 DEF Ticks, Instruction
    <3>2. ASSUME Polled(q, r, at), IsBrief(q[at], q[r].on, ms)
          PROVE  Prompt(h, Slept(q[at]))'
      <4>1. h \in backends
        <5>1. Started(q, at, h)
          BY <1>0, <2>2, <3>2, PolledStarted
        <5>2. QED
          BY <1>3, <2>2, <5>1 DEF CallsInv
      <4>2. CASE state[h] = "healthy"
        BY <1>0, <2>1, <2>2, <3>1, <4>1, <4>2, HealthyTick DEF Prompt
      <4>3. CASE state[h] = "pending"
        <5> DEFINE S == q[r].on
                   l == lost'
                   sl == Slept(q[at])'
                   b == 250 * l + sl
        <5>0. l = lost' /\ sl = Slept(q[at])' /\ FaultsInv'
          BY FaultsNext
        <5> HIDE DEF l, sl
        <5>1. \A g \in S : state[g] = "pending"
          <6>1. Gone(S)
            BY <1>3, <2>1, <2>2, <4>3, RemovalNow DEF Unapplied
          <6>2. ASSUME NEW g \in S
                PROVE  Prompt(g, Slept(q[at]))
            BY <1>3, <2>1, <2>2, <3>2 DEF PromptInv
          <6>3. QED
            BY <6>1, <6>2 DEF Gone, Prompt
        <5>2. age[h] <= 250 * lost + Slept(q[at]) /\ age[h] \in Nat
          BY <1>0, <2>2, <2>3, <3>2, <4>3, TableTypes DEF Prompt
        <5>3. applied.timeoutMs = ms /\ ms \in {0, 3000, 5000}
          BY <1>0, <1>3, <2>2, <4>3, ServedNow, Timeouts DEF Listed
        <5>4. lost \in Nat /\ l \in Nat /\ MaxLag \in Nat /\ MaxLag + 250 * l < 2000
          <6>1. l \in Nat /\ MaxLag + 250 * l < 2000
            BY <5>0, FewFaultsLater
          <6>2. lost \in Nat /\ MaxLag \in Nat
            BY EnvoyAssumption DEF FaultsInv
          <6>3. QED
            BY <6>1, <6>2
        <5>5. CASE IsPoll(q[at], S)
          <6>1. Seen /\ q[at].op = "wait"
            BY <1>0, <2>1, <2>2, <3>1, <5>1, <5>5, PollSees DEF IsPoll
          <6>2. l = lost + 1 /\ Slept(q[at]) = 0 /\ sl = 0
            BY <2>1, <3>1, <5>0, <6>1 DEF Slept
          <6>3. b \in Nat /\ age[h] + 250 <= b /\ (ms = 0 \/ b < ms)
            BY <5>2, <5>3, <5>4, <6>2
          <6>4. state'[h] = "pending" /\ age'[h] <= b
            BY <1>0, <2>2, <3>1, <4>1, <4>3, <5>3, <6>3, PromptTick
          <6>5. QED
            BY <5>0, <6>4 DEF Prompt
        <5>6. CASE IsShortSleep(q[at], ms)
          <6>1. q[at].op = "sleep" /\ l = lost
            BY <3>1, <5>0, <5>6 DEF IsShortSleep
          <6>2. Slept(q[at]) = waited /\ sl = waited + 250
            BY <2>1, <3>1, <5>0, <6>1 DEF Slept
          <6>3. waited + 250 <= q[at].within /\ q[at].within \in Nat
            <7>1. q[at] \in Instructions
              BY <1>0, <2>2, TableTypes
            <7>2. q[at].within \in Nat
              BY <6>1, <7>1, InstructionFields, WholeTicks
            <7>3. ShapeInv'
              BY BaseNext DEF BaseInv, EndsIInv
            <7>4. waited' <= Instruction'.within
              BY <1>0, <3>1, <7>3 DEF ShapeInv, WaitedInv
            <7>5. Instruction' = q[at]
              BY <2>1, <3>1 DEF Instruction
            <7>6. QED
              BY <3>1, <7>2, <7>4, <7>5
          <6>4. b \in Nat /\ age[h] + 250 <= b
            BY <1>0, <5>2, <5>4, <6>1, <6>2
          <6>5. ms = 0 \/ b < ms
            <7> DEFINE d == q[at].within
                       m == ms
            <7>1. d \in Nat /\ waited + 250 <= d /\ m \in Nat /\ (m = 0 \/ d + 2000 <= m)
              BY <5>3, <5>6, <6>3 DEF IsShortSleep
            <7> HIDE DEF d, m
            <7>2. m = 0 \/ b < m
              BY <1>0, <5>4, <6>2, <7>1
            <7>3. QED
              BY <7>2 DEF m
          <6>6. state'[h] = "pending" /\ age'[h] <= b
            BY <1>0, <2>2, <3>1, <4>1, <4>3, <5>3, <6>4, <6>5, PromptTick
          <6>7. QED
            BY <5>0, <6>6 DEF Prompt
        <5>7. QED
          BY <3>1, <3>2, <5>5, <5>6 DEF IsBrief
      <4>4. QED
        BY <2>3, <3>2, <4>2, <4>3 DEF Prompt
    <3>3. QED
      BY <2>1, <3>1, <3>2
  <2>5. CASE Applies
    <3>1. /\ at <= p /\ age'[h] = 0 /\ state'[h] = Removed("healthy")
          /\ applied.healthChecks <=> ChecksOf(scenario, at)
      BY <1>3, <2>2, <2>5, RemovalApplied
    <3>2. Removed("healthy") = "pending"
      BY <1>0, <2>2, <3>1, Timeouts DEF Removed, Settling
    <3>3. lost' = lost /\ waited' = waited /\ lost \in Nat
      BY <2>5 DEF Applies, faultVars, bodyVars, FaultsInv
    <3>4. Slept(q[at])' \in Nat
      BY <1>0, <2>1, <3>3 DEF Slept
    <3>5. Prompt(h, Slept(q[at]))'
      BY <3>1, <3>2, <3>3, <3>4 DEF Prompt
    <3>6. ~(r < at - 1 /\ IsShortSleep(q[at - 1], ms))
      <4>1. ASSUME r < at - 1
            PROVE  q[at - 1].op = "mark"
        <5>1. at - 1 \in r+1..p-1
          BY <1>0, <2>2, <3>1, <4>1
        <5>2. QED
          BY <2>2, <5>1 DEF After, Removal
      <4>2. QED
        BY <4>1 DEF IsShortSleep
    <3>7. QED
      BY <2>1, <2>2, <3>5, <3>6
  <2>6. CASE Breaks
    <3>1. UNCHANGED <<waited, lost>> /\ state'[h] = state[h]
          /\ (state[h] # "frozen" => age'[h] = age[h])
      BY <2>2, <2>6 DEF Breaks, Reconnect, bodyVars, Settling
    <3>2. \A d : Prompt(h, d) => Prompt(h, d)'
      BY <3>1 DEF Prompt
    <3>3. Slept(q[at])' = Slept(q[at])
      BY <2>1, <3>1 DEF Slept
    <3>4. QED
      BY <2>1, <2>3, <3>2, <3>3
  <2>7. CASE UNCHANGED scenarioVars
    <3>1. \A d : Prompt(h, d) => Prompt(h, d)'
      BY <2>7 DEF Prompt, scenarioVars, envoyVars, faultVars
    <3>2. Slept(q[at])' = Slept(q[at])
      BY <2>1, <2>7 DEF Slept, scenarioVars, bodyVars
    <3>3. QED
      BY <2>1, <2>3, <3>1, <3>2
  <2>8. QED
    BY <1>3, <2>4, <2>5, <2>6, <2>7
<1>4. CASE Dies
  BY <1>4 DEF Dies
<1>5. QED
  BY <1>1, <1>2, <1>3, <1>4, RunningSteps

-----------------------------------------------------------------------------
(* Hosts that are added again while they are pending                       *)

Readding == {"A", "host re-add"}

RemoveAt(s) == IF s = "A" THEN 5 ELSE 4
AddAt(s)    == IF s = "A" THEN 9 ELSE 7
SleepAt(s)  == IF s = "A" THEN 12 ELSE 9
Again(s)    == IF s = "A" THEN Two ELSE {1}
Pause(s)    == IF s = "A" THEN 2000 ELSE 1000

IsPresent(i, S) == i.op = "wait" /\ i.condition = "present" /\ i.n \in S /\ i.within = 10000 /\ i.must

\* A script that removes S at r, sleeps ms at the end, adds S again at a and
\* sleeps at z.
ReadsBack(q, r, a, z, S, ms) ==
  /\ After(q, r, r + 1, a) /\ q[r].on = S /\ r < a - 1 /\ Polled(q, r, a - 1)
  /\ IsSleep(q[a - 1], ms) /\ IsCall(q[a], "add", S)
  /\ \A k \in a+1..z-1 : IsPresent(q[k], S)
  /\ IsSleep(q[z], 5000) /\ q[z + 1].op = "check" /\ Len(q) = z + 1
  /\ \A h \in S : \A i \in a..z+1 : Started(q, i, h)

LEMMA ReadsBackA == ReadsBack(ScenarioA, 5, 9, 12, Two, 2000)
<1> DEFINE q == ScenarioA
<1>1. /\ q[1].op = "start" /\ q[1].on = Two /\ q[2].op = "add" /\ q[3].op = "wait"
      /\ q[4].op = "wait" /\ q[5].op = "remove" /\ IsTry(q[6], "flag", 1, 5000)
      /\ IsTry(q[7], "flag", 2, 5000) /\ IsSleep(q[8], 2000) /\ IsCall(q[9], "add", Two)
      /\ IsAwait(q[10], "present", 1, 10000) /\ IsAwait(q[11], "present", 2, 10000)
      /\ IsSleep(q[12], 5000) /\ q[13].op = "check" /\ Len(q) = 13
  BY InScenarioA DEF IsCall, IsAwait, IsSample
<1>2. Removal(q, 5, 6) /\ q[5].on = Two /\ Keeps(q, 6, 9)
  BY RemovalInA
<1> HIDE DEF q
<1>3. After(q, 5, 5 + 1, 9)
  BY <1>2 DEF After
<1>4. Polled(q, 5, 9 - 1)
  BY <1>1, <1>2 DEF Polled, IsPoll, IsTry, Two
<1>5. \A k \in 9+1..12-1 : IsPresent(q[k], Two)
  <2>1. IsPresent(q[10], Two) /\ IsPresent(q[11], Two)
    BY <1>1 DEF IsPresent, IsAwait, Two
  <2>2. QED
    BY <2>1
<1>6. ASSUME NEW h \in Two, NEW i \in 9..12+1
      PROVE  Started(q, i, h)
  <2>1. \A k \in 1..12 : q[k].op # "stop"
    BY <1>1 DEF IsTry, IsSleep, IsCall, IsAwait
  <2>2. 1 \in 1..i-1 /\ \A k \in 1..i-1 : k \in 1..12
    OBVIOUS
  <2>3. QED
    BY <1>1, <2>1, <2>2 DEF Started, Calls
<1>7. QED
  BY <1>1, <1>2, <1>3, <1>4, <1>5, <1>6 DEF ReadsBack, q

LEMMA ReadsBackOne == ReadsBack(HostReAdd, 4, 7, 9, {1}, 1000)
<1> DEFINE q == HostReAdd
<1>1. /\ q[1].op = "start" /\ q[1].on = {1} /\ q[2].op = "add" /\ q[3].op = "wait"
      /\ q[4].op = "remove" /\ IsTry(q[5], "flag", 1, 5000)
      /\ IsSleep(q[6], 1000) /\ IsCall(q[7], "add", {1})
      /\ IsAwait(q[8], "present", 1, 10000)
      /\ IsSleep(q[9], 5000) /\ q[10].op = "check" /\ Len(q) = 10
  BY InHostReAdd DEF IsCall, IsAwait, IsSample
<1>2. Removal(q, 4, 5) /\ q[4].on = {1} /\ Keeps(q, 5, 7)
  BY RemovalInHostReAdd
<1> HIDE DEF q
<1>3. After(q, 4, 4 + 1, 7)
  BY <1>2 DEF After
<1>4. Polled(q, 4, 7 - 1)
  BY <1>1, <1>2 DEF Polled, IsPoll, IsTry
<1>5. \A k \in 7+1..9-1 : IsPresent(q[k], {1})
  <2>1. IsPresent(q[8], {1})
    BY <1>1 DEF IsPresent, IsAwait
  <2>2. QED
    BY <2>1
<1>6. ASSUME NEW h \in {1}, NEW i \in 7..9+1
      PROVE  Started(q, i, h)
  <2>1. \A k \in 1..9 : q[k].op # "stop"
    BY <1>1 DEF IsTry, IsSleep, IsCall, IsAwait
  <2>2. 1 \in 1..i-1 /\ \A k \in 1..i-1 : k \in 1..9
    OBVIOUS
  <2>3. QED
    BY <1>1, <2>1, <2>2 DEF Started, Calls
<1>7. QED
  BY <1>1, <1>2, <1>3, <1>4, <1>5, <1>6 DEF ReadsBack, q

LEMMA ReadsBackIs ==
  ASSUME NEW s \in Readding
  PROVE  /\ ReadsBack(Script(s), RemoveAt(s), AddAt(s), SleepAt(s), Again(s), Pause(s))
         /\ RemoveAt(s) \in Nat /\ AddAt(s) \in Nat /\ SleepAt(s) \in Nat /\ AddAt(s) + 1 < SleepAt(s)
         /\ RemoveAt(s) + 1 < AddAt(s) /\ 1 < AddAt(s)
         /\ Again(s) \in SUBSET Hosts /\ Again(s) # {} /\ Pause(s) \in Nat /\ s \notin {"0", "D", "G"}
         /\ \A i : TimeoutOf(s, i) \in {3000, 5000} /\ Pause(s) + 2000 <= TimeoutOf(s, i)
<1>1. CASE s = "A"
  <2>1. /\ RemoveAt(s) = 5 /\ AddAt(s) = 9 /\ SleepAt(s) = 12 /\ Again(s) = Two
        /\ Pause(s) = 2000
    BY <1>1 DEF RemoveAt, AddAt, SleepAt, Again, Pause
  <2>2. Script(s) = ScenarioA
    BY <1>1, ScriptOf
  <2>3. \A i : TimeoutOf(s, i) = 5000
    BY <1>1, NamesDiffer DEF TimeoutOf
  <2>4. Two \in SUBSET Hosts /\ Two # {}
    BY SomeHosts DEF Two
  <2>5. ReadsBack(Script(s), RemoveAt(s), AddAt(s), SleepAt(s), Again(s), Pause(s))
    BY <2>1, <2>2, ReadsBackA
  <2>6. s \notin {"0", "D", "G"}
    BY <1>1
  <2>7. QED
    BY <2>1, <2>3, <2>4, <2>5, <2>6
<1>2. CASE s = "host re-add"
  <2>0. s \in StressBodies
    BY <1>2 DEF StressBodies
  <2>1. s # "A" /\ s \notin {"0", "D", "G"}
    BY <2>0, NamesDiffer
  <2>2. /\ RemoveAt(s) = 4 /\ AddAt(s) = 7 /\ SleepAt(s) = 9 /\ Again(s) = {1}
        /\ Pause(s) = 1000
    BY <2>1 DEF RemoveAt, AddAt, SleepAt, Again, Pause
  <2>3. Script(s) = HostReAdd
    BY <1>2, ScriptOf
  <2>4. \A i : TimeoutOf(s, i) = 3000
    BY <2>0, <2>1 DEF TimeoutOf
  <2>5. ReadsBack(Script(s), RemoveAt(s), AddAt(s), SleepAt(s), Again(s), Pause(s))
    BY <2>2, <2>3, ReadsBackOne
  <2>6. QED
    BY <2>1, <2>2, <2>4, <2>5, SomeHosts
<1>3. QED
  BY <1>1, <1>2 DEF Readding

\* Added again, a host is healthy; its timer runs on if Envoy forgets to stop it.
Back(h) == state[h] = IF kind = "forgetful" THEN "readded" ELSE "healthy"

\* The addition is on its way, or it has been applied.
Returning(S, ms) ==
  \/ /\ pushed # applied /\ waited <= lag
     /\ \A h \in S : state[h] = "pending" /\ age[h] <= 250 * lost + ms + waited
  \/ /\ pushed = applied /\ waited <= 250 * lost + MaxLag
     /\ \A h \in S : Back(h) /\ age[h] <= 250 * lost + ms + MaxLag

\* The timer that goes on, and what it leaves.
Lasting(h) == \/ Back(h) /\ (kind = "forgetful" => age[h] >= waited)
              \/ kind = "forgetful" /\ state[h] = "absent"
Left(h) == state[h] = IF kind = "forgetful" THEN "absent" ELSE "healthy"

ReturnInv == Running /\ kind \in Settling /\ scenario \in Readding =>
  LET a == AddAt(scenario)
      z == SleepAt(scenario)
      S == Again(scenario)
  IN  /\ at > a => S \subseteq pushed.endpoints
      /\ answering /\ at \in a+1..z-1 => Returning(S, Pause(scenario))
      /\ answering /\ at = z => pushed = applied /\ \A h \in S : Lasting(h)
      /\ answering /\ at = z + 1 => pushed = applied /\ \A h \in S : Left(h)

LEMMA ReaddedTick ==
  ASSUME ShapeInv, EnvoyTick, NEW h \in Hosts, kind \in Settling, state[h] = "readded",
         applied.timeoutMs > 0
  PROVE  \/ state'[h] = "readded" /\ age'[h] = age[h] + 250
         \/ state'[h] = "absent" /\ age[h] + 250 >= applied.timeoutMs
<1>1. HasTimer(h) /\ Timeout = applied.timeoutMs
  BY DEF HasTimer, Timeout, Settling
<1>2. Checked(h) = "readded"
  BY DEF Checked
<1>3. QED
  BY <1>1, <1>2, TickHost

\* The addition is applied.
LEMMA ReturnApplies ==
  ASSUME BaseInv, Applies, kind \in Settling, NEW S \in SUBSET Hosts, NEW ms \in Nat,
         S \subseteq pushed.endpoints, lost \in Nat, Returning(S, ms)
  PROVE  Returning(S, ms)'
<1>0. ShapeInv /\ HostsInv /\ waited \in Nat /\ lag \in Nat /\ lag <= MaxLag /\ MaxLag \in Nat
  BY BaseParts, TableTypes
<1>1. /\ pushed # applied /\ waited <= lag
      /\ \A h \in S : state[h] = "pending" /\ age[h] <= 250 * lost + ms + waited
  BY DEF Applies, Apply, Returning
<1>2. /\ Apply /\ pushed' = pushed /\ applied' = pushed /\ waited' = waited /\ lost' = lost
      /\ kind' = kind
  BY DEF Applies, Apply, bodyVars, faultVars
<1>3. ASSUME NEW h \in S
      PROVE  Back(h)' /\ age'[h] <= 250 * lost + ms + MaxLag
  <2>1. state[h] = "pending" /\ age[h] <= 250 * lost + ms + waited /\ age[h] \in Nat
    BY <1>0, <1>1, TableTypes
  <2>2. h \notin Leaving
    BY <1>0, <1>2, ApplyHost DEF Settling
  <2>3. state'[h] = Named("pending") /\ (age'[h] = age[h] \/ age'[h] = 0)
    BY <1>0, <1>2, <2>1, <2>2, ApplyHost
  <2>4. Back(h)'
    BY <1>2, <2>3 DEF Named, Back
  <2>5. age'[h] <= 250 * lost + ms + MaxLag
    BY <1>0, <1>1, <2>1, <2>3
  <2>6. QED
    BY <2>4, <2>5
<1>4. waited <= 250 * lost + MaxLag
  BY <1>0, <1>1
<1>5. QED
  BY <1>2, <1>3, <1>4 DEF Returning

LEMMA ReturnTicks ==
  ASSUME BaseInv, FaultsInv', Running, Ticks, answering, kind \in Settling,
         NEW S \in SUBSET Hosts, NEW ms \in Nat, lost \in Nat, Returning(S, ms),
         IsPresent(Instruction, S), S \subseteq backends,
         ms + 2000 <= TimeoutOf(scenario, at)
  PROVE  Returning(S, ms)'
<1> DEFINE l == lost'
           c == Instruction
           to == TimeoutOf(scenario, at)
<1>0. /\ ShapeInv /\ HostsInv /\ waited \in Nat /\ lag \in Nat /\ MaxLag \in Nat
      /\ scenario \in Scenarios
  BY BaseParts, TableTypes
<1>1. to \in Nat
  BY <1>0, Timeouts
<1>2. l \in Nat /\ MaxLag + 250 * l < 2000
  BY FewFaultsLater
<1>3. /\ EnvoyTick /\ waited' = waited + 250 /\ pushed' = pushed /\ applied' = applied
      /\ kind' = kind
      /\ IF Seen THEN lost' = lost + 1 ELSE lost' = lost
  BY DEF Ticks, EnvoyTick, IsPresent
<1>4. c.n \in S
  BY DEF IsPresent
<1>5. l = lost'
  OBVIOUS
<1> HIDE DEF l, c, to
<1>6. \A h \in S : state[h] # "absent" => applied.timeoutMs = to
  BY <1>0, ServedNow DEF Listed, to
<1>7. CASE /\ pushed # applied /\ waited <= lag
           /\ \A h \in S : state[h] = "pending" /\ age[h] <= 250 * lost + ms + waited
  <2>1. ~Seen
    <3>1. IsPending(c.n)
      BY <1>4, <1>7 DEF IsPending
    <3>2. ~Sees("present", c.n)
      BY <3>1, SeesWhat
    <3>3. QED
      BY <1>0, <3>2, SeenSees DEF IsPresent, Conditions, c
  <2>2. l = lost /\ lag' = lag + 250 /\ lag + 250 <= MaxLag
    BY <1>3, <1>5, <1>7, <2>1 DEF EnvoyTick, TickMs
  <2> DEFINE b == 250 * l + ms + (waited + 250)
  <2>3. b \in Nat /\ b < to
    BY <1>0, <1>1, <1>2, <1>7, <2>2 DEF to
  <2>4. ASSUME NEW h \in S
        PROVE  state'[h] = "pending" /\ age'[h] <= b
    <3>1. age[h] \in Nat /\ age[h] + 250 <= b
      BY <1>0, <1>2, <1>7, <2>2, TableTypes
    <3>2. applied.timeoutMs = to
      BY <1>6, <1>7
    <3> HIDE DEF b
    <3>3. QED
      BY <1>0, <1>3, <1>7, <2>3, <3>1, <3>2, PromptTick
  <2>5. waited' <= lag'
    BY <1>0, <1>3, <1>7, <2>2
  <2>6. \A h \in S : state'[h] = "pending" /\ age'[h] <= 250 * lost' + ms + waited'
    BY <1>3, <1>5, <2>4
  <2>7. QED
    BY <1>3, <1>7, <2>5, <2>6 DEF Returning
<1>8. CASE /\ pushed = applied /\ waited <= 250 * lost + MaxLag
           /\ \A h \in S : Back(h) /\ age[h] <= 250 * lost + ms + MaxLag
  <2>1. Seen
    <3>1. c.n \in Hosts /\ state[c.n] \in {"healthy", "readded"}
      BY <1>4, <1>8 DEF Back
    <3>2. c.n \in Listed /\ ~IsPending(c.n)
      BY <3>1 DEF IsPending, Listed
    <3>3. Sees("present", c.n)
      BY <3>2, SeesWhat
    <3>4. Shows(GetClusterHosts, "present", c.n)
      BY <1>0, <3>3, SeenIs, TableTypes DEF Conditions
    <3>5. QED
      BY <3>4 DEF Seen, IsPresent, c
  <2>2. l = lost + 1
    BY <1>3, <1>5, <2>1
  <2> DEFINE b == 250 * l + ms + MaxLag
  <2>3. b \in Nat /\ b < to
    BY <1>0, <1>1, <1>2 DEF to
  <2>4. ASSUME NEW h \in S
        PROVE  Back(h)' /\ age'[h] <= b
    <3>1. age[h] \in Nat /\ age[h] + 250 <= b
      BY <1>0, <1>8, <2>2, TableTypes
    <3> HIDE DEF b
    <3>2. CASE kind = "forgetful"
      <4>1. state[h] = "readded"
        BY <1>8, <3>2 DEF Back
      <4>2. applied.timeoutMs = to
        BY <1>6, <4>1
      <4>3. state'[h] = "readded" /\ age'[h] = age[h] + 250
        BY <1>0, <1>1, <1>3, <2>3, <3>1, <4>1, <4>2, ReaddedTick
      <4>4. QED
        BY <1>3, <3>1, <3>2, <4>3 DEF Back
    <3>3. CASE kind # "forgetful"
      <4>1. state[h] = "healthy" /\ h \in backends
        BY <1>8, <3>3 DEF Back
      <4>2. state'[h] = "healthy"
        BY <1>0, <1>3, <4>1, HealthyTick
      <4>3. age'[h] = 0
        BY <1>0, <1>3, <4>1, TickHost
      <4>4. QED
        BY <1>3, <2>3, <3>3, <4>2, <4>3 DEF Back
    <3>4. QED
      BY <3>2, <3>3
  <2>5. waited + 250 <= 250 * l + MaxLag
    BY <1>0, <1>8, <2>2
  <2>6. \A h \in S : Back(h)' /\ age'[h] <= 250 * lost' + ms + MaxLag
    BY <1>5, <2>4
  <2>7. QED
    BY <1>3, <1>5, <1>8, <2>5, <2>6 DEF Returning
<1>9. QED
  BY <1>7, <1>8 DEF Returning

\* The last poll has seen the hosts.
LEMMA ReturnSeen ==
  ASSUME ShapeInv, NEW S \in SUBSET Hosts, NEW ms, Returning(S, ms), IsPresent(Instruction, S), Seen
  PROVE  /\ pushed = applied
         /\ \A h \in S : Back(h) /\ age[h] <= 250 * lost + ms + MaxLag
<1>1. Sees("present", Instruction.n)
  BY SeenSees DEF IsPresent, Conditions
<1>2. ~IsPending(Instruction.n) /\ Instruction.n \in S
  BY <1>1, SeesWhat DEF IsPresent
<1>3. QED
  BY <1>2 DEF Returning, IsPending

LEMMA ReturnAdvances ==
  ASSUME BaseInv, FaultsInv, RemovalInv, PromptInv, ReturnInv, Running, Advances, answering,
         kind \in Settling, scenario \in Readding
  PROVE  LET a == AddAt(scenario)
             z == SleepAt(scenario)
             S == Again(scenario)
         IN  /\ at + 1 \in a+1..z-1 => Returning(S, Pause(scenario))'
             /\ at + 1 = z => (pushed = applied)' /\ \A h \in S : Lasting(h)'
             /\ at + 1 = z + 1 => (pushed = applied)' /\ \A h \in S : Left(h)'
<1> DEFINE q == Script(scenario)
           r == RemoveAt(scenario)
           a == AddAt(scenario)
           z == SleepAt(scenario)
           S == Again(scenario)
           ms == Pause(scenario)
           to == TimeoutOf(scenario, at)
<1>0. /\ ShapeInv /\ HostsInv /\ waited \in Nat /\ lag \in Nat /\ MaxLag \in Nat
      /\ scenario \in Scenarios /\ at \in Nat \ {0} /\ lost \in Nat
  BY BaseParts, TableTypes DEF FaultsInv
<1>1. /\ ReadsBack(q, r, a, z, S, ms)
      /\ r \in Nat /\ a \in Nat /\ z \in Nat /\ a + 1 < z /\ r + 1 < a /\ 1 < a
      /\ S \in SUBSET Hosts /\ S # {} /\ ms \in Nat /\ scenario \notin {"0", "D", "G"}
      /\ to \in {3000, 5000} /\ ms + 2000 <= to
  BY ReadsBackIs
<1>2. /\ at' = at + 1 /\ waited' = 0 /\ Instruction = q[at] /\ kind' = kind /\ applied' = applied
      /\ lag' = lag /\ state' = state /\ age' = age /\ (lost' = lost \/ lost' = lost + 1)
      /\ at \in 1..Len(q)
      /\ pushed'.endpoints = IF q[at].op = "add" THEN pushed.endpoints \cup q[at].on
                             ELSE IF q[at].op = "remove" THEN pushed.endpoints \ q[at].on
                                  ELSE pushed.endpoints
      /\ q[at].op \notin {"add", "remove", "config"} => pushed' = pushed
  BY AdvanceIs
<1>3. ReturnInv => /\ at \in a+1..z-1 => Returning(S, ms)
                   /\ at = z => pushed = applied /\ \A h \in S : Lasting(h)
  BY DEF ReturnInv
<1> HIDE DEF q, r, a, z, S, ms, to
<1>4. CASE at = a
  <2>1. After(q, r, r + 1, a) /\ Polled(q, r, a - 1) /\ IsSleep(q[a - 1], ms) /\ q[r].on = S
        /\ r < a - 1 /\ q[a].op = "add" /\ q[a].on = S
    BY <1>1 DEF ReadsBack, IsCall
  <2>2. /\ S \cap pushed.endpoints = {}
        /\ \/ at <= r + 1 /\ Unapplied(S)
           \/ Gone(S)
    <3>1. Spared(scenario, r)
      BY DEF Spared, Settling
    <3>2. r + 1 \in Nat
      BY <1>1
    <3>3. QED
      BY <1>4, <1>1, <2>1, <3>1, <3>2, RemovalNow DEF q
  <2>3. Gone(S)
    BY <1>1, <1>4, <2>2
  <2>4. ASSUME NEW h \in S
        PROVE  state[h] = "pending" /\ age[h] <= 250 * lost + ms
    <3>1. IsShortSleep(q[at - 1], to)
      <4>1. q[a - 1].op = "sleep" /\ q[a - 1].within = ms
        BY <2>1 DEF IsSleep
      <4>2. QED
        BY <1>1, <1>4, <4>1 DEF IsShortSleep
    <3>2. q[at].op \notin {"wait", "sleep"}
      BY <1>4, <2>1
    <3>3. r + 1 \in Nat /\ at <= Len(q) /\ r < at - 1 /\ After(q, r, r + 1, at) /\ Polled(q, r, at - 1)
      BY <1>1, <1>2, <1>4, <2>1
    <3>4. Prompt(h, q[at - 1].within)
      BY <1>1, <2>1, <3>1, <3>2, <3>3 DEF PromptInv, q, to
    <3>5. q[at - 1].within = ms
      BY <1>4, <2>1 DEF IsSleep
    <3>6. QED
      BY <2>3, <3>4, <3>5 DEF Prompt, Gone
  <2>5. pushed' # applied'
    <3>1. pushed'.endpoints = pushed.endpoints \cup S /\ applied' = applied /\ pushed = applied
      BY <1>2, <1>4, <2>1, <2>3 DEF Gone
    <3>2. QED
      BY <1>1, <2>2, <3>1
  <2>6. lost' = lost
    <3>1. q[at].op = "add"
      BY <1>4, <2>1
    <3>2. QED
      BY <3>1, AdvanceBy DEF q
  <2>7. waited' <= lag' /\ \A h \in S : state'[h] = "pending" /\ age'[h] <= 250 * lost' + ms + waited'
    <3>1. ASSUME NEW h \in S
          PROVE  age[h] <= 250 * lost + ms + 0
      BY <1>0, <1>1, <2>4, TableTypes
    <3>2. QED
      BY <1>0, <1>2, <2>4, <2>6, <3>1
  <2>8. Returning(S, ms)'
    <3>1. ms' = ms /\ S' = S
      BY <1>2, AdvanceIs DEF ms, S
    <3>2. QED
      BY <2>5, <2>7, <3>1 DEF Returning
  <2>9. at + 1 # z /\ at + 1 # z + 1
    BY <1>1, <1>4
  <2>10. QED
    BY <2>8, <2>9 DEF S, z, ms
<1>5. CASE at \in a+1..z-1
  <2>1. IsPresent(q[at], S)
    BY <1>1, <1>5 DEF ReadsBack
  <2>2. Seen
    BY <2>1, AdvanceBy DEF IsPresent, q
  <2>3. pushed = applied /\ \A h \in S : Back(h) /\ age[h] <= 250 * lost + ms + MaxLag
    BY <1>0, <1>1, <1>2, <1>3, <1>5, <2>1, <2>2, ReturnSeen
  <2>4. pushed' = applied'
    BY <1>2, <2>1, <2>3 DEF IsPresent
  <2>5. \A h \in S : Back(h)'
    BY <1>2, <2>3 DEF Back
  <2>6. \A h \in S : Lasting(h)'
    <3>1. \A h \in S : age[h] \in Nat
      BY <1>0, <1>1, TableTypes
    <3>2. \A h \in S : age'[h] >= waited'
      BY <1>2, <3>1
    <3>3. QED
      BY <2>5, <3>2 DEF Lasting
  <2>7. Returning(S, ms)'
    <3> DEFINE l == lost'
    <3>1. l \in Nat /\ l >= lost /\ l = lost'
      BY <1>0, <1>2
    <3> HIDE DEF l
    <3>2. 0 <= 250 * l + MaxLag
      <4>1. l \in Nat /\ MaxLag \in Nat
        BY <1>0, <3>1
      <4>2. QED
        BY <4>1
    <3>3. ASSUME NEW h \in S
          PROVE  age[h] <= 250 * l + ms + MaxLag
      <4>1. age[h] <= 250 * lost + ms + MaxLag /\ age[h] \in Nat
        BY <1>0, <1>1, <2>3, TableTypes
      <4>2. QED
        BY <1>0, <1>1, <3>1, <4>1
    <3>4. ms' = ms /\ S' = S
      BY <1>2, AdvanceIs DEF ms, S
    <3>5. waited' <= 250 * lost' + MaxLag /\ \A h \in S : age'[h] <= 250 * lost' + ms + MaxLag
      BY <1>2, <3>1, <3>2, <3>3
    <3>6. QED
      BY <2>4, <2>5, <3>4, <3>5 DEF Returning
  <2>8. at + 1 # z + 1
    BY <1>1, <1>5
  <2>9. QED
    BY <2>4, <2>6, <2>7, <2>8 DEF S, z, ms
<1>6. CASE at = z
  <2>1. q[z].op = "sleep" /\ q[z].within = 5000
    BY <1>1 DEF ReadsBack, IsSleep
  <2>2. waited >= 5000
    BY <1>6, <2>1, AdvanceBy DEF q
  <2>3. pushed = applied /\ \A h \in S : Lasting(h)
    BY <1>3, <1>6
  <2>4. pushed' = applied'
    BY <1>2, <1>6, <2>1, <2>3
  <2>5. ASSUME NEW h \in S
        PROVE  Left(h)'
    <3>1. CASE kind # "forgetful"
      BY <1>2, <2>3, <3>1 DEF Lasting, Left, Back
    <3>2. CASE kind = "forgetful" /\ state[h] # "absent"
      <4>1. state[h] = "readded" /\ age[h] >= waited /\ age[h] \in Nat
        BY <1>0, <1>1, <2>3, <3>2, TableTypes DEF Lasting, Back
      <4>2. age[h] >= 5000
        BY <1>0, <2>2, <4>1
      <4>3. age[h] < Timeout
        BY <1>0, <1>1, <4>1, <4>2 DEF HostsInv
      <4>4. Timeout = to
        BY <1>1, <3>2, <4>1, ServedNow DEF Timeout, Listed, to
      <4>5. QED
        BY <1>1, <4>1, <4>2, <4>3, <4>4
    <3>3. CASE kind = "forgetful" /\ state[h] = "absent"
      BY <1>2, <3>3 DEF Left
    <3>4. QED
      BY <3>1, <3>2, <3>3
  <2>6. at + 1 # z /\ ~(at + 1 \in a+1..z-1)
    BY <1>1, <1>6
  <2>7. QED
    BY <2>4, <2>5, <2>6 DEF S, z, a
<1>7. CASE at \notin a..z
  <2>1. at + 1 # z /\ at + 1 # z + 1 /\ ~(at + 1 \in a+1..z-1)
    BY <1>0, <1>1, <1>7
  <2>2. QED
    BY <2>1 DEF z, a
<1>8. QED
  <2>1. at = a \/ at \in a+1..z-1 \/ at = z \/ at \notin a..z
    BY <1>0, <1>1
  <2>2. QED
    BY <1>4, <1>5, <1>6, <1>7, <2>1

LEMMA ReturnNext ==
  ASSUME BaseInv, FaultsInv, CallsInv, RemovalInv, PromptInv, ReturnInv, [Next]_vars
  PROVE  ReturnInv'
<1> DEFINE q == Script(scenario)
           r == RemoveAt(scenario)
           a == AddAt(scenario)
           z == SleepAt(scenario)
           S == Again(scenario)
           ms == Pause(scenario)
<1> SUFFICES ASSUME Running', kind' \in Settling, scenario' \in Readding
             PROVE  /\ at' > a' => S' \subseteq pushed'.endpoints
                    /\ answering' /\ at' \in a'+1..z'-1 => Returning(S, ms)'
                    /\ answering' /\ at' = z' => (pushed = applied)' /\ \A h \in S' : Lasting(h)'
                    /\ answering' /\ at' = z' + 1 => (pushed = applied)' /\ \A h \in S' : Left(h)'
  BY DEF ReturnInv
<1>0. ShapeInv /\ HostsInv /\ FaultsInv' /\ lost \in Nat /\ waited \in Nat
      /\ at \in Nat \ {0} /\ scenario \in Scenarios
  BY BaseParts, FaultsNext, TableTypes DEF FaultsInv
<1>1. CASE Begins
  <2>1. at' = 1
    BY <1>1 DEF Begins, Begin
  <2>2. a' \in Nat /\ z' \in Nat /\ 1 < a' /\ a' + 1 < z'
    BY ReadsBackIs
  <2>3. ~(at' > a') /\ at' \notin a'+1..z'-1 /\ at' # z' /\ at' # z' + 1
    <3> DEFINE b == a'
               y == z'
               i == at'
    <3>1. i = 1 /\ b \in Nat /\ y \in Nat /\ 1 < b /\ b + 1 < y
      BY <2>1, <2>2
    <3> HIDE DEF i, b, y
    <3>2. ~(i > b) /\ i \notin b+1..y-1 /\ i # y /\ i # y + 1
      BY <3>1
    <3>3. QED
      BY <3>2 DEF i, b, y
  <2>4. QED
    BY <2>3
<1>2. ASSUME scenario \in Readding
      PROVE  /\ ReadsBack(q, r, a, z, S, ms)
             /\ r \in Nat /\ a \in Nat /\ z \in Nat /\ a + 1 < z /\ r + 1 < a /\ 1 < a
             /\ S \in SUBSET Hosts /\ S # {} /\ ms \in Nat
             /\ \A i : TimeoutOf(scenario, i) \in {3000, 5000} /\ ms + 2000 <= TimeoutOf(scenario, i)
  BY <1>2, ReadsBackIs
<1>3. ASSUME scenario \in Readding, Running, kind \in Settling
      PROVE  /\ at > a => S \subseteq pushed.endpoints
             /\ answering /\ at \in a+1..z-1 => Returning(S, ms)
             /\ answering /\ at = z => pushed = applied /\ \A h \in S : Lasting(h)
             /\ answering /\ at = z + 1 => pushed = applied /\ \A h \in S : Left(h)
  BY <1>3 DEF ReturnInv
<1>4. CASE Running /\ Advances
  <2>1. /\ at' = at + 1 /\ scenario' = scenario /\ kind' = kind /\ answering' = answering
        /\ at \in 1..Len(q)
        /\ pushed'.endpoints = IF q[at].op = "add" THEN pushed.endpoints \cup q[at].on
                               ELSE IF q[at].op = "remove" THEN pushed.endpoints \ q[at].on
                                    ELSE pushed.endpoints
    BY <1>4, AdvanceIs
  <2>2. a' = a /\ z' = z /\ S' = S /\ ms' = ms /\ scenario \in Readding /\ kind \in Settling
    BY <2>1
  <2>3. answering => /\ at + 1 \in a+1..z-1 => Returning(S, ms)'
                     /\ at + 1 = z => (pushed = applied)' /\ \A h \in S : Lasting(h)'
                     /\ at + 1 = z + 1 => (pushed = applied)' /\ \A h \in S : Left(h)'
    BY <1>4, <2>2, ReturnAdvances
  <2>4. at + 1 > a => S \subseteq pushed'.endpoints
    <3> HIDE DEF q, r, a, z, S, ms
    <3>1. CASE at = a
      BY <1>2, <2>1, <2>2, <3>1 DEF ReadsBack, IsCall
    <3>2. CASE at > a
      <4>1. at \in a+1..z-1 \/ at = z \/ at = z + 1
        BY <1>0, <1>2, <2>1, <2>2, <3>2 DEF ReadsBack
      <4>2. q[at].op \in {"wait", "sleep", "check"}
        BY <1>2, <2>2, <4>1 DEF ReadsBack, IsPresent, IsSleep
      <4>3. S \subseteq pushed.endpoints
        BY <1>3, <1>4, <2>2, <3>2
      <4>4. QED
        BY <2>1, <4>2, <4>3
    <3>3. QED
      BY <1>0, <1>2, <2>2, <3>1, <3>2
  <2> HIDE DEF q, r, a, z, S, ms
  <2>5. QED
    BY <2>1, <2>2, <2>3, <2>4
<1>5. CASE Running /\ (Ticks \/ Applies \/ Breaks \/ UNCHANGED scenarioVars)
  <2>1. UNCHANGED <<scenario, at, kind, answering, pushed>>
    BY <1>5 DEF Ticks, EnvoyTick, Applies, Apply, Breaks, Reconnect, scenarioVars, bodyVars
  <2>2. a' = a /\ z' = z /\ S' = S /\ ms' = ms /\ scenario \in Readding /\ kind \in Settling
    BY <2>1
  <2>3. ReadsBack(q, r, a, z, S, ms) /\ S \in SUBSET Hosts /\ S # {} /\ ms \in Nat
        /\ a \in Nat /\ z \in Nat /\ a + 1 < z /\ TimeoutOf(scenario, at) \in {3000, 5000}
        /\ ms + 2000 <= TimeoutOf(scenario, at)
    BY <1>2, <2>2
  <2>4. /\ at > a => S \subseteq pushed.endpoints
        /\ answering /\ at \in a+1..z-1 => Returning(S, ms)
        /\ answering /\ at = z => pushed = applied /\ \A h \in S : Lasting(h)
        /\ answering /\ at = z + 1 => pushed = applied /\ \A h \in S : Left(h)
    BY <1>3, <1>5, <2>2
  <2> HIDE DEF r, a, z, S, ms
  <2>5. at \in a+1..z-1 => IsPresent(Instruction, S)
    BY <2>3 DEF ReadsBack, Instruction
  <2>6. at \in a..z+1 => S \subseteq backends
    <3>1. scenario # "G"
      BY <2>2 DEF Readding
    <3>2. \A h \in Hosts : Started(q, at, h) => h \in backends
      BY <1>5, <3>1 DEF CallsInv
    <3>3. QED
      BY <2>3, <3>2 DEF ReadsBack
  <2>7. at = z + 1 => Instruction.op = "check"
    BY <2>3 DEF ReadsBack, Instruction
  <2>8. CASE ~answering
    BY <2>1, <2>2, <2>4, <2>8
  <2>9. CASE answering /\ Ticks
    <3>1. EnvoyTick /\ waited' = waited + 250 /\ applied' = applied
      BY <2>9 DEF Ticks, EnvoyTick
    <3>2. at # z + 1
      BY <2>7, <2>9 DEF Ticks
    <3>3. at \in a+1..z-1 => Returning(S, ms)'
      BY <1>0, <1>5, <2>2, <2>3, <2>4, <2>5, <2>6, <2>9, ReturnTicks
    <3>4. ASSUME at = z, NEW h \in S
          PROVE  Lasting(h)'
      <4>1. Lasting(h) /\ pushed = applied /\ h \in Hosts /\ h \in backends /\ age[h] \in Nat
        BY <1>0, <2>3, <2>4, <2>6, <2>9, <3>4, TableTypes
      <4>2. CASE kind # "forgetful"
        <5>1. state[h] = "healthy"
          BY <4>1, <4>2 DEF Lasting, Back
        <5>2. state'[h] = "healthy"
          BY <1>0, <3>1, <4>1, <5>1, HealthyTick
        <5>3. QED
          BY <2>1, <4>2, <5>2 DEF Lasting, Back
      <4>3. CASE kind = "forgetful" /\ state[h] = "absent"
        <5>1. state'[h] = "absent"
          BY <1>0, <3>1, <4>1, <4>3, TickHost DEF TimerFires, HasTimer, Checked
        <5>2. QED
          BY <2>1, <4>3, <5>1 DEF Lasting
      <4>4. CASE kind = "forgetful" /\ state[h] # "absent"
        <5>1. state[h] = "readded" /\ age[h] >= waited
          BY <4>1, <4>4 DEF Lasting, Back
        <5>2. applied.timeoutMs = TimeoutOf(scenario, at)
          BY <1>5, <4>1, <5>1, ServedNow DEF Listed
        <5>3. applied.timeoutMs > 0
          BY <2>3, <5>2
        <5>4. \/ state'[h] = "readded" /\ age'[h] = age[h] + 250
              \/ state'[h] = "absent"
          BY <1>0, <2>2, <3>1, <4>1, <5>1, <5>3, ReaddedTick
        <5>5. state'[h] = "readded" => age'[h] >= waited'
          BY <1>0, <3>1, <4>1, <5>1, <5>4
        <5>6. QED
          BY <2>1, <4>4, <5>4, <5>5 DEF Lasting, Back
      <4>5. QED
        BY <4>2, <4>3, <4>4
    <3>5. QED
      BY <2>1, <2>2, <2>4, <2>9, <3>1, <3>2, <3>3, <3>4
  <2>10. CASE answering /\ Applies
    <3>1. pushed # applied
      BY <2>10 DEF Applies, Apply
    <3>2. at # z /\ at # z + 1
      BY <2>4, <2>10, <3>1
    <3>3. at \in a+1..z-1 => Returning(S, ms)'
      <4>1. at \in a+1..z-1 => at > a
        BY <2>3
      <4>2. QED
        BY <1>0, <2>2, <2>3, <2>4, <2>10, <4>1, ReturnApplies
    <3>4. QED
      BY <2>1, <2>2, <2>4, <3>2, <3>3
  <2>11. CASE answering /\ (Breaks \/ UNCHANGED scenarioVars)
    <3>1. UNCHANGED <<kind, pushed, applied, lag, waited, lost>>
      BY <2>11 DEF Breaks, Reconnect, bodyVars, scenarioVars, envoyVars, faultVars
    <3>2. ASSUME NEW h \in S
          PROVE  state'[h] = state[h] /\ age'[h] = age[h]
      <4>1. h \in Hosts /\ kind # "amnesiac" /\ state[h] # "frozen"
        BY <1>0, <2>2, <2>3 DEF Settling, HostsInv
      <4>2. QED
        BY <2>11, <4>1 DEF Breaks, Reconnect, scenarioVars, envoyVars
    <3>3. /\ Returning(S, ms) => Returning(S, ms)'
          /\ \A h \in S : Lasting(h) => Lasting(h)'
          /\ \A h \in S : Left(h) => Left(h)'
      BY <2>2, <3>1, <3>2 DEF Returning, Lasting, Left, Back
    <3>4. QED
      BY <2>1, <2>2, <2>4, <2>11, <3>1, <3>3
  <2>12. QED
    BY <1>5, <2>8, <2>9, <2>10, <2>11
<1>6. CASE Running /\ Dies
  <2>1. UNCHANGED <<scenario, at, kind, pushed>> /\ ~answering'
    BY <1>6 DEF Dies, bodyVars
  <2>2. at > a => S \subseteq pushed.endpoints
    BY <1>3, <1>6, <2>1
  <2>3. QED
    BY <2>1, <2>2
<1>7. QED
  BY <1>1, <1>4, <1>5, <1>6, RunningSteps

-----------------------------------------------------------------------------
(* The measured removals                                                   *)

\* Where the removed hosts are gone, a poll for that sees it.
LEMMA GoneSeen ==
  ASSUME ShapeInv, answering, NEW S \in SUBSET Hosts, \A h \in S : state[h] = "absent",
         \/ Instruction.condition = "gone" /\ Instruction.n \in S
         \/ Instruction.condition = "count" /\ Instruction.n = 0 /\ Listed \subseteq S
  PROVE  Seen
<1>0. state \in [Hosts -> States]
  BY TableTypes
<1>1. CASE Instruction.condition = "gone" /\ Instruction.n \in S
  <2>1. Instruction.n \notin Listed
    BY <1>1 DEF Listed
  <2>2. Sees("gone", Instruction.n)
    BY <2>1, SeesWhat
  <2>3. Shows(GetClusterHosts, "gone", Instruction.n)
    BY <1>0, <2>2, SeenIs DEF Conditions
  <2>4. QED
    BY <1>1, <2>3 DEF Seen
<1>2. CASE Instruction.condition = "count" /\ Instruction.n = 0 /\ Listed \subseteq S
  <2>1. Listed = {}
    BY <1>2 DEF Listed
  <2>2. Cardinality(Listed) = 0
    BY <2>1, FS_EmptySet
  <2>3. Sees("count", 0)
    BY <2>2, SeesWhat
  <2>4. Shows(GetClusterHosts, "count", 0)
    BY <1>0, <2>3, SeenIs DEF Conditions
  <2>5. QED
    BY <1>2, <2>4 DEF Seen
<1>3. QED
  BY <1>1, <1>2

\* The scripts that measure a removal, at r, by their poll, at p.
Measuring == {"D", "add/remove/timeout"}

Measures(s, q, r, p) ==
  /\ r \in Nat /\ p \in Nat /\ r = p - 2 /\ 2 < p /\ Len(q) = p + 1
  /\ Removal(q, r, p) /\ After(q, r, p, p) /\ q[p - 1].op = "mark"
  /\ q[p].op = "wait" /\ q[p].must /\ q[p + 1].op = "bound"
  /\ \/ q[p].condition = "gone" /\ q[p].n \in q[r].on
     \/ q[p].condition = "count" /\ q[p].n = 0 /\ q[r].on = Two
  /\ q[p + 1].lo = IF s = "D" THEN 400 ELSE 2000

MeasuredAt(s) == IF s = "D" THEN 8 ELSE 6

LEMMA MeasuresIs ==
  ASSUME NEW s \in Measuring
  PROVE  Measures(s, Script(s), MeasuredAt(s) - 2, MeasuredAt(s))
<1>1. CASE s = "D"
  <2> DEFINE q == ScenarioD
  <2>1. /\ Len(q) = 9 /\ q[7].op = "mark" /\ q[8].op = "wait" /\ q[8].must
        /\ q[8].condition = "count" /\ q[8].n = 0 /\ q[9].op = "bound" /\ q[9].lo = 400
    BY InScenarioD DEF IsMark, IsAwait, IsBound
  <2>2. Removal(q, 6, 8) /\ q[6].on = Two /\ Keeps(q, 7, 10)
    BY RemovalInD
  <2>3. After(q, 6, 8, 8)
    BY <2>2 DEF After, Keeps
  <2>4. q = Script(s) /\ MeasuredAt(s) = 8
    BY <1>1, ScriptOf DEF MeasuredAt
  <2> HIDE DEF q
  <2>5. Measures(s, q, 6, 8)
    BY <1>1, <2>1, <2>2, <2>3 DEF Measures
  <2>6. QED
    BY <2>4, <2>5
<1>2. CASE s = "add/remove/timeout"
  <2> DEFINE q == AddRemoveTimeout
  <2>1. /\ Len(q) = 7 /\ q[5].op = "mark" /\ q[6].op = "wait" /\ q[6].must
        /\ q[6].condition = "gone" /\ q[6].n = 1 /\ q[7].op = "bound" /\ q[7].lo = 2000
    BY InAddRemoveTimeout DEF IsMark, IsAwait, IsBound
  <2>2. Removal(q, 4, 6) /\ q[4].on = {1} /\ Keeps(q, 5, 8)
    BY RemovalInAddRemoveTimeout
  <2>3. After(q, 4, 6, 6)
    BY <2>2 DEF After, Keeps
  <2>4. q = Script(s) /\ MeasuredAt(s) = 6
    BY <1>2, ScriptOf DEF MeasuredAt
  <2> HIDE DEF q
  <2>5. Measures(s, q, 4, 6)
    BY <1>2, <2>1, <2>2, <2>3 DEF Measures
  <2>6. QED
    BY <2>4, <2>5
<1>3. QED
  BY <1>1, <1>2 DEF Measuring

\* An Envoy without the timeout is found out as soon as it has applied the
\* push, but for the calls that fail.
HastyInv == Running /\ kind = "hasty" /\ scenario \in Measuring =>
  LET p == MeasuredAt(scenario)
  IN  /\ at = p => since = waited
      /\ at = p /\ answering /\ pushed = applied => waited <= MaxLag + 250 * lost
      /\ at = p + 1 => since <= MaxLag + 250 * lost

LEMMA HastyNext ==
  ASSUME BaseInv, FaultsInv, RemovalInv, HastyInv, [Next]_vars
  PROVE  HastyInv'
<1> DEFINE q == Script(scenario)
           p == MeasuredAt(scenario)
           r == p - 2
           S == q[r].on
           l == lost'
<1> SUFFICES ASSUME Running', kind' = "hasty", scenario' \in Measuring
             PROVE  /\ at' = p' => since' = waited'
                    /\ at' = p' /\ answering' /\ (pushed = applied)' => waited' <= MaxLag + 250 * l
                    /\ at' = p' + 1 => since' <= MaxLag + 250 * l
  BY DEF HastyInv
<1>0. ShapeInv /\ HostsInv /\ ConfigInv /\ lost \in Nat /\ waited \in Nat /\ lag \in Nat
      /\ MaxLag \in Nat /\ lag <= MaxLag /\ at \in Nat \ {0} /\ scenario \in Scenarios
  BY BaseParts, TableTypes DEF FaultsInv
<1>1. CASE Begins
  <2>1. at' = 1
    BY <1>1 DEF Begins, Begin
  <2>2. p' \in {6, 8}
    BY DEF MeasuredAt
  <2>3. QED
    BY <2>1, <2>2
<1>2. CASE Running /\ scenario' = scenario /\ kind' = kind
  <2>0. scenario \in Measuring /\ p' = p /\ p \in {6, 8} /\ q' = q /\ S' = S /\ main = "run"
        /\ kind = "hasty"
    BY <1>2 DEF MeasuredAt, Running
  <2>1. Measures(scenario, q, r, p)
    BY <2>0, MeasuresIs
  <2>2. /\ at = p => since = waited
        /\ at = p /\ answering /\ pushed = applied => waited <= MaxLag + 250 * lost
        /\ at = p + 1 => since <= MaxLag + 250 * lost
    BY <1>2, <2>0 DEF HastyInv
  <2>3. Spared(scenario, r) /\ r \in Nat /\ p \in Nat /\ S \in SUBSET Hosts /\ Removal(q, r, p)
    BY <1>0, <2>0, <2>1, RemovalTypes DEF Spared, Measures
  <2>4. at = p /\ answering => Unapplied(S) \/ Gone(S)
    BY <1>2, <2>1, <2>3, RemovalNow DEF Measures
  <2>5. at = p => Instruction = q[p] /\ q[p].op = "wait"
    BY <2>1 DEF Measures, Instruction
  <2>6. at = p + 1 => Instruction.op = "bound"
    BY <2>1 DEF Measures, Instruction
  <2>7. CASE Advances
    <3>1. /\ at' = at + 1 /\ waited' = 0 /\ answering' = answering /\ applied' = applied
          /\ at \in 1..Len(q) /\ (l = lost \/ l = lost + 1)
          /\ since' = IF q[at].op = "mark" THEN 0 ELSE since
      BY <2>7, AdvanceIs
    <3> HIDE DEF q, p, r, S, l
    <3>2. l \in Nat /\ lost <= l
      BY <1>0, <3>1
    <3>3. at' = p => since' = waited'
      <4>1. at' = p => at = p - 1 /\ q[p - 1].op = "mark"
        BY <1>0, <2>1, <3>1 DEF Measures
      <4>2. QED
        BY <3>1, <4>1
    <3>4. 0 <= MaxLag + 250 * l
      BY <1>0, <3>2
    <3>5. ASSUME at = p
          PROVE  since' <= MaxLag + 250 * l
      <4>1. Seen /\ answering
        BY <2>1, <2>5, <2>7, <3>5, AdvanceBy DEF Measures, Seen, q
      <4>2. ~Unapplied(S)
        BY <1>0, <2>3, <3>5, <4>1, NotSeenYet DEF Unapplied, q, S
      <4>3. pushed = applied
        BY <2>4, <3>5, <4>1, <4>2 DEF Gone
      <4>4. waited <= MaxLag + 250 * lost /\ since' = waited
        BY <2>2, <2>5, <3>1, <3>5, <4>1, <4>3
      <4>5. QED
        BY <1>0, <3>2, <4>4
    <3>6. at' = p + 1 => at = p
      BY <1>0, <2>0, <3>1
    <3>7. QED
      BY <2>0, <3>1, <3>3, <3>4, <3>5, <3>6
  <2>8. CASE Ticks
    <3>1. /\ waited' = waited + 250 /\ since' = (IF since >= 0 THEN since + 250 ELSE since)
          /\ at' = at /\ answering' = answering
          /\ IF Instruction.op = "wait" /\ Seen THEN l = lost + 1 ELSE l = lost
          /\ Instruction.op \in {"wait", "sleep"}
          /\ answering => EnvoyTick
      BY <2>8 DEF Ticks
    <3>2. answering => pushed' = pushed /\ applied' = applied
      BY <3>1 DEF EnvoyTick
    <3> HIDE DEF q, p, r, S, l
    <3>3. at = p => since' = waited'
      BY <1>0, <2>2, <3>1
    <3>4. ASSUME at = p, answering, pushed = applied
          PROVE  waited' <= MaxLag + 250 * l
      <4>1. Gone(S)
        BY <2>4, <3>4 DEF Unapplied
      <4>2. \A h \in S : state[h] = "absent"
        BY <1>0, <2>0, <2>3, <4>1 DEF Gone, HostsInv
      <4>3. Seen
        <5>1. CASE Instruction.condition = "gone" /\ Instruction.n \in S
          BY <1>0, <2>3, <3>4, <4>2, <5>1, GoneSeen
        <5>2. CASE Instruction.condition = "count" /\ Instruction.n = 0 /\ S = Two
          <6>1. scenario # "E"
            BY <2>0 DEF Measuring
          <6>2. Listed \subseteq S
            BY <1>0, <2>0, <5>2, <6>1 DEF ConfigInv
          <6>3. QED
            BY <1>0, <2>3, <3>4, <4>2, <5>2, <6>2, GoneSeen
        <5>3. QED
          BY <2>1, <2>5, <3>4, <5>1, <5>2 DEF Measures, S
      <4>4. l = lost + 1
        BY <2>5, <3>1, <3>4, <4>3
      <4>5. QED
        BY <1>0, <2>2, <3>1, <3>4, <4>4
    <3>5. at # p + 1
      BY <2>6, <3>1
    <3>6. QED
      BY <2>0, <3>1, <3>2, <3>3, <3>4, <3>5
  <2>9. CASE Applies
    <3>1. UNCHANGED <<at, waited, since, lost, answering>> /\ l = lost
      BY <2>9 DEF Applies, bodyVars, faultVars
    <3>2. pushed # applied /\ answering
      BY <2>9 DEF Applies, Apply
    <3> HIDE DEF q, p, r, S, l
    <3>3. at = p => waited <= MaxLag + 250 * l
      <4>1. at = p => waited <= lag
        BY <2>4, <3>2 DEF Unapplied, Gone
      <4>2. QED
        BY <1>0, <3>1, <4>1
    <3>4. QED
      BY <2>0, <2>2, <3>1, <3>3
  <2>10. CASE Breaks \/ Dies \/ UNCHANGED scenarioVars
    <3>1. UNCHANGED <<at, waited, since, lost>> /\ l = lost
      BY <2>10 DEF Breaks, Dies, scenarioVars, bodyVars, faultVars
    <3>2. answering' => answering /\ pushed' = pushed /\ applied' = applied
      BY <2>10 DEF Breaks, Reconnect, Dies, scenarioVars, envoyVars
    <3> HIDE DEF l
    <3>3. QED
      BY <2>0, <2>2, <3>1, <3>2
  <2>11. QED
    BY <1>2, <2>7, <2>8, <2>9, <2>10, RunningSteps, <1>1
<1>3. QED
  <2>1. Running /\ ~Begins => scenario' = scenario /\ kind' = kind
    BY RunningSteps, AdvanceIs
    DEF Ticks, EnvoyTick, Applies, Apply, Breaks, Reconnect, Dies, scenarioVars, bodyVars
  <2>2. QED
    BY <1>1, <1>2, <2>1, RunningSteps

-----------------------------------------------------------------------------
(* A timeout that is not configured                                        *)

\* Scenario 0 sleeps longer than a timer that it has not configured.
ConstantInv == Running /\ answering /\ kind = "constant" /\ scenario = "0" =>
  \A h \in Two : /\ at = 8 /\ state[h] = "pending" => waited <= age[h]
                 /\ at = 9 => state[h] = "absent"

LEMMA ConstantNext ==
  ASSUME BaseInv, RemovalInv, ConstantInv, [Next]_vars
  PROVE  ConstantInv'
<1> DEFINE q == Script(scenario)
<1> SUFFICES ASSUME Running', answering', kind' = "constant", scenario' = "0", NEW h \in Two
             PROVE  /\ at' = 8 /\ state'[h] = "pending" => waited' <= age'[h]
                    /\ at' = 9 => state'[h] = "absent"
  BY DEF ConstantInv
<1>0. ShapeInv /\ HostsInv /\ waited \in Nat /\ at \in Nat \ {0} /\ h \in Hosts /\ age[h] \in Nat
  BY BaseParts, TableTypes, SomeHosts
<1>1. CASE Begins
  BY <1>1 DEF Begins, Begin
<1>2. ASSUME scenario = "0", Running, at \in 7..9, answering, kind = "constant"
      PROVE  /\ Gone(Two)
             /\ at = 8 => Instruction.op = "sleep" /\ Instruction.within = 10000
             /\ at = 9 => Instruction.op = "check"
  <2>1. q = Scenario0
    BY <1>2, ScriptOf
  <2>2. Removal(q, 5, 6) /\ q[5].on = Two /\ Keeps(q, 6, 10)
    BY <2>1, RemovalIn0
  <2>3. After(q, 5, 6, at)
    BY <1>2, <2>2 DEF After, Keeps
  <2>4. Spared(scenario, 5)
    BY <1>2 DEF Spared
  <2>5. Gone(Two)
    <3>1. ~(at <= 6)
      BY <1>2
    <3>2. QED
      BY <1>2, <2>2, <2>3, <2>4, <3>1, RemovalNow
  <2>6. QED
    BY <2>1, <2>5, InScenario0 DEF Instruction, IsSleep, IsStrictSample
<1>3. ASSUME scenario = "0", Running, answering, kind = "constant"
      PROVE  /\ at = 8 /\ state[h] = "pending" => waited <= age[h]
             /\ at = 9 => state[h] = "absent"
  BY <1>3 DEF ConstantInv
<1>4. CASE Running /\ Advances
  <2>1. /\ at' = at + 1 /\ waited' = 0 /\ answering' = answering /\ scenario' = scenario
        /\ kind' = kind /\ state' = state /\ age' = age
    BY <1>4, AdvanceIs
  <2>2. ASSUME at = 8
        PROVE  state[h] = "absent"
    <3>1. Gone(Two) /\ Instruction.op = "sleep" /\ Instruction.within = 10000
      BY <1>2, <1>4, <2>1, <2>2
    <3>2. waited >= 10000
      <4>1. Instruction = q[at]
        BY DEF Instruction
      <4>2. QED
        BY <1>4, <3>1, <4>1, AdvanceBy
    <3>3. state[h] # "pending"
      <4>1. Timeout = 5000
        BY <2>1 DEF Timeout
      <4>2. age[h] # 0 => age[h] < 5000
        BY <1>0, <4>1 DEF HostsInv
      <4>3. QED
        BY <1>0, <1>3, <1>4, <2>1, <2>2, <3>2, <4>2
    <3>4. state[h] # "frozen"
      BY <1>0, <2>1 DEF HostsInv
    <3>5. QED
      BY <3>1, <3>3, <3>4 DEF Gone
  <2>3. at' = 8 => waited' <= age'[h]
    BY <1>0, <2>1
  <2>4. QED
    BY <1>0, <2>1, <2>2, <2>3
<1>5. CASE Running /\ (Ticks \/ Applies \/ Breaks \/ UNCHANGED scenarioVars)
  <2>1. UNCHANGED <<scenario, at, kind, answering, pushed>>
    BY <1>5 DEF Ticks, EnvoyTick, Applies, Apply, Breaks, Reconnect, scenarioVars, bodyVars
  <2>2. CASE at \notin {8, 9}
    BY <2>1, <2>2
  <2>3. CASE at \in {8, 9}
    <3>1. /\ Gone(Two)
          /\ at = 8 => Instruction.op = "sleep" /\ Instruction.within = 10000
          /\ at = 9 => Instruction.op = "check"
      BY <1>2, <1>5, <2>1, <2>3
    <3>2. /\ at = 8 /\ state[h] = "pending" => waited <= age[h]
          /\ at = 9 => state[h] = "absent"
      BY <1>3, <1>5, <2>1
    <3>3. CASE Ticks
      <4>1. EnvoyTick /\ waited' = waited + 250 /\ at = 8
        BY <2>1, <2>3, <3>1, <3>3 DEF Ticks
      <4>2. state'[h] = "pending" => state[h] = "pending" /\ (HasTimer(h) => age'[h] = age[h] + 250)
        BY <1>0, <4>1, PendingTick
      <4>3. state[h] = "pending" => HasTimer(h)
        BY <2>1 DEF HasTimer, Timeout
      <4>4. QED
        BY <1>0, <2>1, <3>2, <4>1, <4>2, <4>3
    <3>4. CASE Applies
      BY <3>1, <3>4 DEF Applies, Apply, Gone
    <3>5. CASE Breaks
      <4>1. state'[h] = state[h] /\ (state[h] = "pending" => age'[h] = age[h]) /\ waited' = waited
        BY <1>0, <2>1, <3>5 DEF Breaks, Reconnect, bodyVars
      <4>2. QED
        BY <2>1, <3>2, <4>1
    <3>6. CASE UNCHANGED scenarioVars
      BY <3>2, <3>6 DEF scenarioVars, envoyVars, bodyVars
    <3>7. QED
      BY <1>5, <3>3, <3>4, <3>5, <3>6
  <2>4. QED
    BY <2>2, <2>3
<1>6. CASE Dies
  BY <1>6 DEF Dies
<1>7. QED
  BY <1>1, <1>4, <1>5, <1>6, RunningSteps

-----------------------------------------------------------------------------
(* Two hosts that are treated alike                                        *)

\* A script that removes host 1 at least, at 5, waits until it is gone and then
\* looks at host 2, at z.
Twins == {"B", "C", "partial removal"}

LastOf(s) == IF s = "B" THEN 10 ELSE IF s = "C" THEN 8 ELSE 7

Compares(s, q, z) ==
  /\ Removal(q, 5, 6) /\ NothingRemoved(q, 5) /\ 1 \in q[5].on
  /\ s = "B" => q[5].on = Two
  /\ \A i \in 6..z : After(q, 5, 6, i)
  /\ \A h \in Two : Up(q, 5, h)
  /\ IsAwait(q[z - 1], "gone", 1, q[z - 1].within) /\ q[z].op = "check"
  /\ \A i \in 6..z : \A h \in Two : Started(q, i, h) \/ (s = "B" /\ i \in 9..10)

LEMMA ComparesBy ==
  ASSUME NEW q, IsCall(q[1], "start", Two), IsCall(q[2], "add", Two),
         IsAwait(q[3], "healthy", 1, 10000), IsAwait(q[4], "healthy", 2, 10000),
         Removal(q, 5, 6), NEW z \in 6..10, Keeps(q, 6, z), NEW s,
         1 \in q[5].on, s = "B" => q[5].on = Two,
         \A k \in 6..z-1 : q[k].op = "wait" \/ (s = "B" /\ k = 8),
         IsAwait(q[z - 1], "gone", 1, q[z - 1].within), q[z].op = "check"
  PROVE  Compares(s, q, z)
<1>1. q[1].op = "start" /\ q[1].on = Two /\ q[2].op = "add" /\ q[3].op = "wait" /\ q[4].op = "wait"
      /\ q[5].op = "remove"
  BY DEF IsCall, IsAwait, Removal
<1>2. NothingRemoved(q, 5)
  BY <1>1 DEF NothingRemoved
<1>3. \A h \in Two : Up(q, 5, h)
  <2>1. \A k \in 5..5-1 : FALSE
    OBVIOUS
  <2>2. QED
    BY <2>1, UpFromSetup
<1>4. \A i \in 6..z : After(q, 5, 6, i)
  BY DEF After, Keeps
<1>5. ASSUME NEW i \in 6..z, NEW h \in Two
      PROVE  Started(q, i, h) \/ (s = "B" /\ i \in 9..10)
  <2> SUFFICES ASSUME ~(s = "B" /\ i \in 9..10) PROVE Started(q, i, h)
    OBVIOUS
  <2>1. ASSUME NEW k \in 1..i-1
        PROVE  q[k].op # "stop"
    <3>1. k = 1 \/ k = 2 \/ k = 3 \/ k = 4 \/ k = 5 \/ (k \in 6..z-1 /\ ~(s = "B" /\ k = 8))
      OBVIOUS
    <3>2. QED
      BY <1>1, <3>1
  <2>2. 1 \in 1..i-1 /\ Calls(q, 1, "start", h)
    BY <1>1 DEF Calls
  <2>3. QED
    BY <2>1, <2>2 DEF Started, Calls
<1>6. QED
  BY <1>2, <1>3, <1>4, <1>5 DEF Compares

LEMMA ComparesIs ==
  ASSUME NEW s \in Twins
  PROVE  Compares(s, Script(s), LastOf(s)) /\ LastOf(s) \in 7..10 /\ (s = "B" => LastOf(s) = 10)
<1>1. CASE s = "B"
  <2> DEFINE q == ScenarioB
  <2>1. /\ IsCall(q[1], "start", Two) /\ IsCall(q[2], "add", Two)
        /\ IsAwait(q[3], "healthy", 1, 10000) /\ IsAwait(q[4], "healthy", 2, 10000)
        /\ q[6].op = "wait" /\ q[7].op = "wait" /\ q[9].op = "wait"
        /\ IsAwait(q[9], "gone", 1, q[9].within) /\ q[10].op = "check"
    BY InScenarioB DEF IsTry, IsAwait, IsSample
  <2>2. Removal(q, 5, 6) /\ q[5].on = Two /\ Keeps(q, 6, 10)
    BY RemovalInB DEF Keeps
  <2>3. q = Script(s) /\ LastOf(s) = 10 /\ 1 \in Two
    BY <1>1, ScriptOf DEF LastOf, Two
  <2> HIDE DEF q
  <2>4. \A k \in 6..10-1 : q[k].op = "wait" \/ (s = "B" /\ k = 8)
    BY <1>1, <2>1
  <2>5. Compares(s, q, 10)
    <3> DEFINE z == 10
    <3>1. z \in 6..10 /\ z - 1 = 9
      OBVIOUS
    <3>2. Keeps(q, 6, z) /\ q[z].op = "check"
          /\ (\A k \in 6..z-1 : q[k].op = "wait" \/ (s = "B" /\ k = 8))
      BY <2>1, <2>2, <2>4
    <3> HIDE DEF z
    <3>3. Compares(s, q, z)
      BY <2>1, <2>2, <2>3, <3>1, <3>2, ComparesBy
    <3>4. QED
      BY <3>3 DEF z
  <2>6. QED
    BY <2>3, <2>5
<1>2. CASE s = "C"
  <2> DEFINE q == ScenarioC
  <2>1. /\ IsCall(q[1], "start", Two) /\ IsCall(q[2], "add", Two)
        /\ IsAwait(q[3], "healthy", 1, 10000) /\ IsAwait(q[4], "healthy", 2, 10000)
        /\ q[6].op = "wait" /\ q[7].op = "wait"
        /\ IsAwait(q[7], "gone", 1, q[7].within) /\ q[8].op = "check"
    BY InScenarioC DEF IsTry, IsAwait, IsSample
  <2>2. Removal(q, 5, 6) /\ q[5].on = {1} /\ Keeps(q, 6, 8)
    BY RemovalInC DEF Keeps
  <2>3. q = Script(s) /\ LastOf(s) = 8 /\ s # "B"
    BY <1>2, ScriptOf DEF LastOf
  <2> HIDE DEF q
  <2>4. Compares(s, q, 8)
    <3> DEFINE z == 8
    <3>1. z \in 6..10 /\ z - 1 = 7
      OBVIOUS
    <3>2. Keeps(q, 6, z) /\ q[z].op = "check"
          /\ (\A k \in 6..z-1 : q[k].op = "wait" \/ (s = "B" /\ k = 8))
      BY <2>1, <2>2
    <3> HIDE DEF z
    <3>3. Compares(s, q, z)
      BY <2>1, <2>2, <2>3, <3>1, <3>2, ComparesBy
    <3>4. QED
      BY <3>3 DEF z
  <2>5. QED
    BY <2>3, <2>4
<1>3. CASE s = "partial removal"
  <2> DEFINE q == PartialRemoval
  <2>1. /\ IsCall(q[1], "start", Two) /\ IsCall(q[2], "add", Two)
        /\ IsAwait(q[3], "healthy", 1, 10000) /\ IsAwait(q[4], "healthy", 2, 10000)
        /\ q[6].op = "wait" /\ IsAwait(q[6], "gone", 1, q[6].within) /\ q[7].op = "check"
    BY InPartialRemoval DEF IsTry, IsAwait, IsSample
  <2>2. Removal(q, 5, 6) /\ q[5].on = {1} /\ Keeps(q, 6, 7)
    BY RemovalInPartialRemoval DEF Keeps
  <2>3. q = Script(s) /\ LastOf(s) = 7 /\ s # "B"
    BY <1>3, ScriptOf DEF LastOf
  <2> HIDE DEF q
  <2>4. Compares(s, q, 7)
    <3> DEFINE z == 7
    <3>1. z \in 6..10 /\ z - 1 = 6
      OBVIOUS
    <3>2. Keeps(q, 6, z) /\ q[z].op = "check"
          /\ (\A k \in 6..z-1 : q[k].op = "wait" \/ (s = "B" /\ k = 8))
      BY <2>1, <2>2
    <3> HIDE DEF z
    <3>3. Compares(s, q, z)
      BY <2>1, <2>2, <2>3, <3>1, <3>2, ComparesBy
    <3>4. QED
      BY <3>3 DEF z
  <2>5. QED
    BY <2>3, <2>4
<1>4. QED
  BY <1>1, <1>2, <1>3 DEF Twins

\* An Envoy that does not look at the health of a pending host, or that removes
\* all hosts with one, treats the two hosts alike.
Alike(s) == \/ kind = "blind" /\ s = "B"
            \/ kind = "contagious" /\ s \in {"C", "partial removal"}

Equal == state[1] = state[2] /\ age[1] = age[2]

TwinInv == Running /\ answering /\ Alike(scenario) =>
  /\ at \in 6..LastOf(scenario) => Equal
  /\ at = LastOf(scenario) => state[1] = "absent"

LEMMA TwinNext ==
  ASSUME BaseInv, CallsInv, UpInv, RemovalInv, TwinInv, [Next]_vars
  PROVE  TwinInv'
<1> DEFINE q == Script(scenario)
           z == LastOf(scenario)
           S == q[5].on
<1> SUFFICES ASSUME Running', answering', Alike(scenario)'
             PROVE  /\ at' \in 6..z' => Equal'
                    /\ at' = z' => state'[1] = "absent"
  BY DEF TwinInv
<1>0. ShapeInv /\ HostsInv /\ at \in Nat \ {0} /\ 1 \in Two /\ 2 \in Two /\ 1 \in Hosts /\ 2 \in Hosts
      /\ age[1] \in Nat /\ age[2] \in Nat
  BY BaseParts, TableTypes, SomeHosts DEF Two
<1>1. CASE Begins
  <2>1. at' = 1 /\ z' \in 7..10
    BY <1>1, ComparesIs DEF Begins, Begin, LastOf
  <2>2. QED
    BY <2>1
<1>2. CASE Running /\ scenario' = scenario /\ kind' = kind /\ answering
  <2>1. Alike(scenario) /\ scenario \in Twins /\ z' = z
    BY <1>2 DEF Alike, Twins
  <2>2. Compares(scenario, q, z) /\ z \in 7..10 /\ (scenario = "B" => z = 10)
    BY <2>1, ComparesIs
  <2>3. /\ at \in 6..z => Equal
        /\ at = z => state[1] = "absent"
    BY <1>2, <2>1 DEF TwinInv
  <2>4. /\ Spared(scenario, 5) /\ 1 \in S
        /\ kind # "forgetful" /\ kind # "leaky" /\ kind # "amnesiac" /\ kind # "constant"
    BY <2>1, <2>2 DEF Spared, Alike, Compares
  <2> HIDE DEF z
  <2>5. at \in 6..z => (at <= 6 /\ Unapplied(S)) \/ Gone(S)
    <3>1. at \in 6..z => After(q, 5, 6, at)
      BY <2>2 DEF Compares
    <3>2. QED
      BY <1>2, <2>4, <3>1, RemovalNow
  <2>6. S \cap pushed.endpoints = {} \/ at \notin 6..z
    <3>1. at \in 6..z => After(q, 5, 6, at)
      BY <2>2 DEF Compares
    <3>2. QED
      BY <1>2, <2>4, <3>1, RemovalNow
  <2>7. at = z => Gone(S)
    BY <2>2, <2>5
  <2>8. CASE Advances
    <3>1. at' = at + 1 /\ state' = state /\ age' = age /\ Instruction = q[at]
      BY <2>8, AdvanceIs
    <3>2. at = 5 => Equal
      <4>1. ASSUME at = 5
            PROVE  state[1] = "healthy" /\ state[2] = "healthy"
        <5>1. Spared(scenario, at) /\ Up(q, at, 1) /\ Up(q, at, 2)
          BY <1>0, <2>2, <2>4, <4>1 DEF Compares
        <5>2. QED
          BY <1>0, <1>2, <5>1 DEF UpInv
      <4>2. QED
        BY <1>0, <4>1 DEF HostsInv, Equal
    <3>3. ASSUME at + 1 = z
          PROVE  state[1] = "absent"
      <4>1. at = z - 1
        BY <1>0, <2>2, <3>3
      <4>2. q[at].op = "wait" /\ q[at].condition = "gone" /\ q[at].n = 1 /\ q[at].must
        BY <2>2, <4>1 DEF Compares, IsAwait
      <4>3. Seen
        BY <2>8, <4>2, AdvanceBy
      <4>4. Sees("gone", 1)
        BY <1>0, <3>1, <4>2, <4>3, SeenSees DEF Conditions
      <4>5. QED
        BY <1>0, <4>4, SeesWhat DEF Listed
    <3>4. at + 1 \in 6..z => at = 5 \/ at \in 6..z
      BY <1>0, <2>2
    <3>5. QED
      BY <2>1, <2>3, <3>1, <3>2, <3>3, <3>4 DEF Equal
  <2>9. CASE Ticks
    <3>1. EnvoyTick /\ at' = at /\ at # z
      BY <1>2, <2>2, <2>9 DEF Ticks, Compares, Instruction
    <3>2. ASSUME at \in 6..z
          PROVE  Equal'
      <4>1. state[1] = state[2] /\ age[1] = age[2]
        BY <2>3, <3>2 DEF Equal
      <4>2. \/ at <= 6 /\ state[1] = "healthy"
            \/ state[1] \in {"pending", "frozen", "absent"}
        BY <2>4, <2>5, <3>2 DEF Unapplied, Gone
      <4>3. HasTimer(1) <=> HasTimer(2)
        BY <2>4, <4>1 DEF HasTimer
      <4>4. TimerFires(1) <=> TimerFires(2)
        BY <4>1, <4>3 DEF TimerFires
      <4>5. Checked(1) = Checked(2)
        <5>1. CASE 1 \in backends /\ 2 \in backends
          BY <4>1, <4>2, <5>1 DEF Checked
        <5>2. CASE ~(1 \in backends /\ 2 \in backends)
          <6>1. scenario = "B" /\ at \in 9..10
            BY <1>0, <1>2, <2>1, <2>2, <3>2, <5>2 DEF Compares, CallsInv, Alike
          <6>2. kind = "blind"
            BY <2>1, <6>1 DEF Alike
          <6>3. ~(at <= 6)
            BY <6>1
          <6>4. state[1] \in {"pending", "frozen", "absent"}
            BY <4>2, <6>3
          <6>5. QED
            BY <4>1, <6>2, <6>4 DEF Checked
        <5>3. QED
          BY <5>1, <5>2
      <4>6. state'[1] = state'[2]
        BY <1>0, <3>1, <4>4, <4>5, TickHost
      <4>7. age'[1] = age'[2]
        BY <1>0, <3>1, <4>1, <4>3, <4>6, TickHost
      <4>8. QED
        BY <4>6, <4>7 DEF Equal
    <3>3. QED
      BY <2>1, <3>1, <3>2
  <2>10. CASE Applies
    <3>1. Apply /\ at' = at /\ pushed # applied
      BY <2>10 DEF Applies, Apply, bodyVars
    <3>2. at # z
      BY <2>7, <3>1 DEF Gone
    <3>3. ASSUME at \in 6..z
          PROVE  Equal'
      <4>1. Unapplied(S) /\ 1 \notin pushed.endpoints
        BY <2>4, <2>5, <2>6, <3>1, <3>3 DEF Gone
      <4>2. state[1] = "healthy" /\ state[2] = "healthy" /\ age[1] = age[2]
        BY <2>3, <2>4, <3>3, <4>1 DEF Unapplied, Equal
      <4>3. 1 \in Leaving /\ 2 \in Leaving
        <5>1. CASE kind = "blind"
          <6>1. S = Two
            BY <2>1, <2>2, <5>1 DEF Alike, Compares
          <6>2. 2 \notin pushed.endpoints
            BY <1>0, <2>6, <3>3, <6>1
          <6>3. QED
            BY <1>0, <4>1, <5>1, <6>2 DEF Leaving
        <5>2. CASE kind = "contagious"
          <6>1. 1 \in {h \in Listed : h \notin pushed.endpoints}
            BY <1>0, <4>1, <4>2 DEF Listed
          <6>2. QED
            BY <1>0, <5>2, <6>1 DEF Leaving
        <5>3. QED
          BY <2>1, <5>1, <5>2 DEF Alike
      <4>4. state'[1] = state'[2]
        BY <1>0, <3>1, <4>2, <4>3, ApplyHost
      <4>5. age'[1] = age'[2]
        BY <1>0, <3>1, <4>2, <4>4, ApplyHost
      <4>6. QED
        BY <4>4, <4>5 DEF Equal
    <3>4. QED
      BY <2>1, <3>1, <3>2, <3>3
  <2>11. CASE Breaks \/ UNCHANGED scenarioVars
    <3>1. at' = at /\ state'[1] = state[1] /\ state'[2] = state[2]
      BY <1>0, <2>4, <2>11 DEF Breaks, Reconnect, bodyVars, scenarioVars, envoyVars
    <3>2. age'[1] = age[1] /\ age'[2] = age[2]
      <4>1. state[1] # "frozen" /\ state[2] # "frozen"
        BY <1>0, <2>4 DEF HostsInv
      <4>2. QED
        BY <1>0, <2>11, <3>1, <4>1 DEF Breaks, Reconnect, scenarioVars, envoyVars
    <3>3. QED
      BY <2>1, <2>3, <3>1, <3>2 DEF Equal
  <2>12. QED
    BY <1>1, <1>2, <2>8, <2>9, <2>10, <2>11, RunningSteps DEF Dies
<1>3. QED
  <2>1. Running /\ ~Begins => scenario' = scenario /\ kind' = kind /\ answering
    BY RunningSteps, AdvanceIs
    DEF Ticks, EnvoyTick, Applies, Apply, Breaks, Reconnect, Dies, scenarioVars, bodyVars
  <2>2. QED
    BY <1>1, <1>2, <2>1, RunningSteps

-----------------------------------------------------------------------------
(* The hosts that a stress body leaves                                     *)

\* Where h may be on its way, from its removal to the end of the last poll for
\* it.
InWindow(s, i, h) ==
  \/ h = 1 /\ \/ s = "add/remove/timeout" /\ i \in 5..6
              \/ s = "HC failure" /\ i \in 5..7
              \/ s = "host re-add" /\ i \in 5..9
              \/ s = "partial removal" /\ i = 6
              \/ s = "long-lived healthy" /\ i = 7
  \/ h = 2 /\ s = "partial removal" /\ i = 9

\* The last poll for h.
Leaves(q, i, h) ==
  /\ q[i].op = "wait" /\ q[i].condition = "gone" /\ q[i].n = h /\ q[i].within >= 5000
  /\ \E r, p \in Nat : After(q, r, p, i) /\ h \in q[r].on

\* What a body does at i does not fail.
Goes(i) == i.op \in {"mark", "stop", "add", "sleep"} \/ (i.op = "wait" /\ ~i.must)

WindowAt(s, q, i, h) ==
  /\ i \in 1..Len(q) /\ q[i].op = "remove" /\ h \in q[i].on => InWindow(s, i + 1, h)
  /\ InWindow(s, i, h) =>
       /\ i \in 1..Len(q)
       /\ \E r \in 1..i-1 : q[r].op = "remove"
       /\ \/ Goes(q[i]) /\ InWindow(s, i + 1, h)
          \/ Leaves(q, i, h)
          \/ s = "host re-add" /\ i \in 8..9 /\ h = 1

LEMMA WindowInOne ==
  ASSUME NEW i \in Nat, NEW h
  PROVE  /\ WindowAt("add/remove/timeout", AddRemoveTimeout, i, h)
         /\ WindowAt("HC failure", HCFailure, i, h)
         /\ WindowAt("host re-add", HostReAdd, i, h)
<1>1. WindowAt("add/remove/timeout", AddRemoveTimeout, i, h)
  <2> DEFINE s == "add/remove/timeout"
             q == AddRemoveTimeout
  <2>1. /\ Len(q) = 7 /\ q[1].op = "start" /\ q[2].op = "add" /\ q[3].op = "wait"
        /\ q[4].op = "remove" /\ q[4].on = {1} /\ q[5].op = "mark" /\ q[6].op = "wait"
        /\ q[6].condition = "gone" /\ q[6].n = 1 /\ q[6].within = 8000 /\ q[7].op = "bound"
    BY InAddRemoveTimeout DEF IsCall, IsAwait, IsMark, IsBound
  <2>2. Removal(q, 4, 6) /\ Keeps(q, 5, 8)
    BY RemovalInAddRemoveTimeout
  <2>3. After(q, 4, 6, 6)
    BY <2>2 DEF After, Keeps
  <2>4. \A j : InWindow(s, j, h) <=> h = 1 /\ j \in 5..6
    BY DEF InWindow
  <2> HIDE DEF s, q
  <2>5. i \in 1..Len(q) /\ q[i].op = "remove" => i = 4
    BY <2>1
  <2>6. ASSUME InWindow(s, i, h)
        PROVE  \/ Goes(q[i]) /\ InWindow(s, i + 1, h)
               \/ Leaves(q, i, h)
    <3>1. h = 1 /\ (i = 5 \/ i = 6)
      BY <2>4, <2>6
    <3>2. CASE i = 5
      BY <2>1, <2>4, <3>1, <3>2 DEF Goes
    <3>3. CASE i = 6
      BY <2>1, <2>3, <3>1, <3>3 DEF Leaves
    <3>4. QED
      BY <3>1, <3>2, <3>3
  <2>7. InWindow(s, i, h) => i \in 1..Len(q) /\ 4 \in 1..i-1
    BY <2>1, <2>4
  <2>8. i \in 1..Len(q) /\ q[i].op = "remove" /\ h \in q[i].on => InWindow(s, i + 1, h)
    BY <2>1, <2>4, <2>5
  <2>9. InWindow(s, i, h) => \E r \in 1..i-1 : q[r].op = "remove"
    BY <2>1, <2>7
  <2>10. WindowAt(s, q, i, h)
    BY <2>6, <2>7, <2>8, <2>9 DEF WindowAt
  <2>11. QED
    BY <2>10 DEF s, q
<1>2. WindowAt("HC failure", HCFailure, i, h)
  <2> DEFINE s == "HC failure"
             q == HCFailure
  <2>1. /\ Len(q) = 7 /\ q[1].op = "start" /\ q[2].op = "add" /\ q[3].op = "wait"
        /\ q[4].op = "remove" /\ q[4].on = {1} /\ q[5].op = "wait" /\ ~q[5].must
        /\ q[6].op = "stop" /\ q[7].op = "wait"
        /\ q[7].condition = "gone" /\ q[7].n = 1 /\ q[7].within = 5000
    BY InHCFailure DEF IsCall, IsAwait, IsTry
  <2>2. Removal(q, 4, 5) /\ Keeps(q, 5, 8)
    BY RemovalInHCFailure
  <2>3. After(q, 4, 5, 7)
    BY <2>2 DEF After, Keeps
  <2>4. \A j : InWindow(s, j, h) <=> h = 1 /\ j \in 5..7
    BY DEF InWindow
  <2> HIDE DEF s, q
  <2>5. i \in 1..Len(q) /\ q[i].op = "remove" => i = 4
    BY <2>1
  <2>6. ASSUME InWindow(s, i, h)
        PROVE  \/ Goes(q[i]) /\ InWindow(s, i + 1, h)
               \/ Leaves(q, i, h)
    <3>1. h = 1 /\ (i = 5 \/ i = 6 \/ i = 7)
      BY <2>4, <2>6
    <3>2. CASE i = 5 \/ i = 6
      BY <2>1, <2>4, <3>1, <3>2 DEF Goes
    <3>3. CASE i = 7
      BY <2>1, <2>3, <3>1, <3>3 DEF Leaves
    <3>4. QED
      BY <3>1, <3>2, <3>3
  <2>7. InWindow(s, i, h) => i \in 1..Len(q) /\ 4 \in 1..i-1
    BY <2>1, <2>4
  <2>8. i \in 1..Len(q) /\ q[i].op = "remove" /\ h \in q[i].on => InWindow(s, i + 1, h)
    BY <2>1, <2>4, <2>5
  <2>9. InWindow(s, i, h) => \E r \in 1..i-1 : q[r].op = "remove"
    BY <2>1, <2>7
  <2>10. WindowAt(s, q, i, h)
    BY <2>6, <2>7, <2>8, <2>9 DEF WindowAt
  <2>11. QED
    BY <2>10 DEF s, q
<1>3. WindowAt("host re-add", HostReAdd, i, h)
  <2> DEFINE s == "host re-add"
             q == HostReAdd
  <2>1. /\ Len(q) = 10 /\ q[1].op = "start" /\ q[2].op = "add" /\ q[3].op = "wait"
        /\ q[4].op = "remove" /\ q[4].on = {1} /\ q[5].op = "wait" /\ ~q[5].must
        /\ q[6].op = "sleep" /\ q[7].op = "add" /\ q[8].op = "wait" /\ q[9].op = "sleep"
        /\ q[10].op = "check"
    BY InHostReAdd DEF IsCall, IsAwait, IsTry, IsSleep, IsSample
  <2>3. s = "host re-add"
    OBVIOUS
  <2>4. \A j : InWindow(s, j, h) <=> h = 1 /\ j \in 5..9
    BY DEF InWindow
  <2> HIDE DEF s, q
  <2>5. i \in 1..Len(q) /\ q[i].op = "remove" => i = 4
    BY <2>1
  <2>6. ASSUME InWindow(s, i, h)
        PROVE  \/ Goes(q[i]) /\ InWindow(s, i + 1, h)
               \/ i \in 8..9 /\ h = 1
    <3>1. h = 1 /\ (i = 5 \/ i = 6 \/ i = 7 \/ i \in 8..9)
      BY <2>4, <2>6
    <3>2. CASE i = 5 \/ i = 6 \/ i = 7
      <4>1. Goes(q[i])
        BY <2>1, <3>2 DEF Goes
      <4>2. i + 1 \in 5..9
        BY <3>2
      <4>3. QED
        BY <2>4, <3>1, <4>1, <4>2
    <3>3. QED
      BY <3>1, <3>2
  <2>7. InWindow(s, i, h) => i \in 1..Len(q) /\ 4 \in 1..i-1
    BY <2>1, <2>4
  <2>8. i \in 1..Len(q) /\ q[i].op = "remove" /\ h \in q[i].on => InWindow(s, i + 1, h)
    BY <2>1, <2>4, <2>5
  <2>9. InWindow(s, i, h) => \E r \in 1..i-1 : q[r].op = "remove"
    BY <2>1, <2>7
  <2>10. WindowAt(s, q, i, h)
    BY <2>6, <2>7, <2>8, <2>9, <2>3 DEF WindowAt
  <2>11. QED
    BY <2>10 DEF s, q
<1>4. QED
  BY <1>1, <1>2, <1>3

LEMMA WindowInOthers ==
  ASSUME NEW i \in Nat, NEW h
  PROVE  /\ WindowAt("partial removal", PartialRemoval, i, h)
         /\ WindowAt("long-lived healthy", LongLivedHealthy, i, h)
<1>1. WindowAt("partial removal", PartialRemoval, i, h)
  <2> DEFINE s == "partial removal"
             q == PartialRemoval
  <2>1. /\ Len(q) = 9 /\ q[1].op = "start" /\ q[2].op = "add" /\ q[3].op = "wait" /\ q[4].op = "wait"
        /\ q[5].op = "remove" /\ q[5].on = {1} /\ q[6].op = "wait" /\ q[6].condition = "gone"
        /\ q[6].n = 1 /\ q[6].within = 8000 /\ q[7].op = "check"
        /\ q[8].op = "remove" /\ q[8].on = {2} /\ q[9].op = "wait" /\ q[9].condition = "gone"
        /\ q[9].n = 2 /\ q[9].within = 8000
    BY InPartialRemoval DEF IsCall, IsAwait, IsTry, IsSample
  <2>2. Removal(q, 5, 6) /\ Keeps(q, 6, 8) /\ Removal(q, 8, 9) /\ Keeps(q, 9, 10)
    BY RemovalInPartialRemoval, SecondRemoval
  <2>3. After(q, 5, 6, 6) /\ After(q, 8, 9, 9)
    BY <2>2 DEF After, Keeps
  <2>4. \A j : InWindow(s, j, h) <=> (h = 1 /\ j = 6) \/ (h = 2 /\ j = 9)
    BY DEF InWindow
  <2> HIDE DEF s, q
  <2>5. i \in 1..Len(q) /\ q[i].op = "remove" => i = 5 \/ i = 8
    BY <2>1
  <2>6. ASSUME InWindow(s, i, h)
        PROVE  Leaves(q, i, h)
    <3>1. (h = 1 /\ i = 6) \/ (h = 2 /\ i = 9)
      BY <2>4, <2>6
    <3>2. CASE h = 1 /\ i = 6
      BY <2>1, <2>3, <3>2 DEF Leaves
    <3>3. CASE h = 2 /\ i = 9
      BY <2>1, <2>3, <3>3 DEF Leaves
    <3>4. QED
      BY <3>1, <3>2, <3>3
  <2>7. InWindow(s, i, h) => i \in 1..Len(q) /\ 5 \in 1..i-1
    BY <2>1, <2>4
  <2>8. i \in 1..Len(q) /\ q[i].op = "remove" /\ h \in q[i].on => InWindow(s, i + 1, h)
    BY <2>1, <2>4, <2>5
  <2>9. InWindow(s, i, h) => \E r \in 1..i-1 : q[r].op = "remove"
    BY <2>1, <2>7
  <2>10. WindowAt(s, q, i, h)
    BY <2>6, <2>7, <2>8, <2>9 DEF WindowAt
  <2>11. QED
    BY <2>10 DEF s, q
<1>2. WindowAt("long-lived healthy", LongLivedHealthy, i, h)
  <2> DEFINE s == "long-lived healthy"
             q == LongLivedHealthy
  <2>1. /\ Len(q) = 7 /\ q[1].op = "start" /\ q[2].op = "add" /\ q[3].op = "wait"
        /\ q[4].op = "sleep" /\ q[5].op = "check" /\ q[6].op = "remove" /\ q[6].on = {1}
        /\ q[7].op = "wait" /\ q[7].condition = "gone" /\ q[7].n = 1 /\ q[7].within = 8000
    BY InLongLivedHealthy DEF IsCall, IsAwait, IsTry, IsSleep, IsSample
  <2>2. Removal(q, 6, 7) /\ Keeps(q, 7, 8)
    BY RemovalInLongLived
  <2>3. After(q, 6, 7, 7)
    BY <2>2 DEF After, Keeps
  <2>4. \A j : InWindow(s, j, h) <=> h = 1 /\ j = 7
    BY DEF InWindow
  <2> HIDE DEF s, q
  <2>5. i \in 1..Len(q) /\ q[i].op = "remove" => i = 6
    BY <2>1
  <2>6. ASSUME InWindow(s, i, h)
        PROVE  Leaves(q, i, h)
    <3>1. h = 1 /\ i = 7
      BY <2>4, <2>6
    <3>2. QED
      BY <2>1, <2>3, <3>1 DEF Leaves
  <2>7. InWindow(s, i, h) => i \in 1..Len(q) /\ 6 \in 1..i-1
    BY <2>1, <2>4
  <2>8. i \in 1..Len(q) /\ q[i].op = "remove" /\ h \in q[i].on => InWindow(s, i + 1, h)
    BY <2>1, <2>4, <2>5
  <2>9. InWindow(s, i, h) => \E r \in 1..i-1 : q[r].op = "remove"
    BY <2>1, <2>7
  <2>10. WindowAt(s, q, i, h)
    BY <2>6, <2>7, <2>8, <2>9 DEF WindowAt
  <2>11. QED
    BY <2>10 DEF s, q
<1>3. QED
  BY <1>1, <1>2

LEMMA WindowIs ==
  ASSUME NEW s \in StressBodies, NEW i \in Nat, NEW h
  PROVE  WindowAt(s, Script(s), i, h)
<1>1. CASE s = "add/remove/timeout"
  BY <1>1, WindowInOne, ScriptOf
<1>2. CASE s = "HC failure"
  BY <1>2, WindowInOne, ScriptOf
<1>3. CASE s = "host re-add"
  BY <1>3, WindowInOne, ScriptOf
<1>4. CASE s = "partial removal"
  BY <1>4, WindowInOthers, ScriptOf
<1>5. CASE s = "long-lived healthy"
  BY <1>5, WindowInOthers, ScriptOf
<1>6. QED
  BY <1>1, <1>2, <1>3, <1>4, <1>5 DEF StressBodies

\* Where main is running a body after a step, it has begun it, gone on with it,
\* ended it or let time pass.
LEMMA RunSteps ==
  ASSUME BaseInv, [Next]_vars, main' = "run"
  PROVE  \/ Begins /\ (main = "ready" \/ (main = "run" /\ verdict # "running" /\ InStress))
         \/ main = "run" /\ (Advances \/ Returns \/ Misses)
         \/ main = "run" /\ (Ticks \/ Applies \/ Breaks \/ Dies \/ UNCHANGED scenarioVars)
<1> USE DEF processVars, reportVars
<1>0. /\ ShapeInv /\ ChildInv /\ CurrentInv /\ ConfigInv /\ main' = "run"
  BY BaseParts
<1>1. CASE EnvoyIsReady
  <2>1. PICK s \in IF InStress THEN StressBodies ELSE {AllIsolatedScenarios[index]} : Begin(s)
    BY <1>1 DEF EnvoyIsReady
  <2>2. s \in Scenarios
    BY <1>0, <2>1, HowManyIsolated DEF InStress, ShapeInv, ProcessOK
  <2>3. QED
    BY <1>1, <2>1, <2>2 DEF EnvoyIsReady, Begins
<1>2. CASE NextBody
  <2>1. PICK s \in StressBodies : Begin(s)
    BY <1>2 DEF NextBody
  <2>2. main = "run" /\ verdict # "running" /\ InStress
    BY <1>2 DEF NextBody, Judged
  <2>3. QED
    BY <1>2, <2>1, <2>2, HowManyIsolated DEF NextBody, Begins
<1>3. CASE main = "run" /\ BodyStep /\ UNCHANGED <<processVars, reportVars>>
  BY <1>3, BodyStepIs
<1>4. CASE Passage
  BY <1>4 DEF Passage, Tick, Is, Ticks, TickMs, InBody
<1>5. CASE EnvoyApplies /\ UNCHANGED <<processVars, reportVars>>
  BY <1>0, <1>5 DEF EnvoyApplies, Applies
<1>6. CASE StreamBreaks
  BY <1>0, <1>6 DEF StreamBreaks, Breaks
<1>7. CASE EnvoyCrashes
  BY <1>0, <1>7 DEF EnvoyCrashes, Dies
<1>8. CASE EnvoyBecomesReady \/ OrphanBecomesReady
  BY <1>0, <1>8 DEF EnvoyBecomesReady, OrphanBecomesReady, ConfigInv, ChildInv
<1>9. CASE Exited \/ UNCHANGED vars
  BY <1>0, <1>9 DEF Exited, vars
<1>10. CASE CallHangs \/ StartServer \/ UnknownProfile \/ StartEnvoy \/ EnvoyIsNotReady \/ Exit \/ SetupFails
            \/ Finish \/ StopEnvoy \/ StopServer
  BY <1>0, <1>10 DEF CallHangs, StartServer, UnknownProfile, StartEnvoy, EnvoyIsNotReady, Exit,
                     SetupFails, EndProcess, Finish, StopEnvoy, StopServer
<1>11. QED
  BY <1>1, <1>2, <1>3, <1>4, <1>5, <1>6, <1>7, <1>8, <1>9, <1>10 DEF Next, MainStep, EnvoyStep

\* The last poll for a host has seen that it is gone, or outlasts its timer.
LEMMA GoneOver ==
  ASSUME BaseInv, RemovalInv, LateInv, Running, kind \in Settling, scenario \in StressBodies,
         at \in 1..Len(Script(scenario)), NEW h, Leaves(Script(scenario), at, h),
         Seen \/ waited >= Instruction.within
  PROVE  state[h] = "absent"
<1> DEFINE q == Script(scenario)
<1>0. ShapeInv /\ HostsInv /\ Instruction = q[at] /\ waited \in Nat /\ lag <= MaxLag /\ MaxLag < 400
      /\ lag \in Nat /\ MaxLag \in Nat /\ scenario \in Scenarios
  BY BaseParts, TableTypes, BoundsAssumption DEF Instruction
<1>1. PICK r, p \in Nat : After(q, r, p, at) /\ h \in q[r].on
  BY DEF Leaves
<1>2. q[r].on \in SUBSET Hosts /\ h \in Hosts
  BY <1>0, <1>1, RemovalTypes DEF After
<1>3. CASE Seen
  <2>1. Sees("gone", h)
    BY <1>0, <1>3, SeenSees DEF Leaves, Conditions
  <2>2. QED
    BY <1>2, <2>1, SeesWhat DEF Listed
<1>4. CASE ~answering
  BY <1>0, <1>2, <1>4 DEF HostsInv, Listed
<1>5. CASE waited >= Instruction.within /\ answering
  <2>1. waited >= 5000
    <3>1. Instruction.within >= 5000
      BY <1>0 DEF Leaves
    <3>2. Instruction.within \in Nat
      <4>1. InBody /\ BodyOK
        BY <1>0, TableTypes DEF Running, InBody, ShapeInv
      <4>2. Instruction.op = "wait"
        BY <1>0 DEF Leaves
      <4>3. QED
        BY <4>1, <4>2, CurrentInstruction, InstructionFields, WholeTicks
    <3>3. QED
      BY <1>0, <1>5, <3>1, <3>2
  <2>2. Spared(scenario, r)
    BY DEF Spared, Settling
  <2>3. Gone(q[r].on)
    <3>1. ~Unapplied(q[r].on)
      BY <1>0, <2>1 DEF Unapplied
    <3>2. QED
      BY <1>1, <1>5, <2>2, <3>1, RemovalNow
  <2>4. state[h] # "frozen"
    BY <1>0, <1>2 DEF HostsInv, Settling
  <2>5. state[h] # "pending"
    <3> SUFFICES ASSUME state[h] = "pending" PROVE FALSE
      OBVIOUS
    <3>1. waited <= age[h] + MaxLag
      <4>1. scenario # "0"
        BY NamesDiffer
      <4>2. QED
        BY <1>1, <1>5, <4>1 DEF LateInv
    <3>2. age[h] \in Nat
      BY <1>0, <1>2, TableTypes
    <3>3. applied.timeoutMs = 3000
      <4>1. TimeoutOf(scenario, at) = 3000
        BY <1>0, Timeouts
      <4>2. QED
        BY <1>2, <4>1, ServedNow DEF Listed
    <3>4. Timeout = 3000
      BY <3>3 DEF Timeout, Settling
    <3>5. age[h] < 3000
      BY <1>0, <1>2, <3>2, <3>4 DEF HostsInv
    <3>6. QED
      BY <1>0, <2>1, <3>1, <3>2, <3>5
  <2>6. QED
    BY <1>1, <2>3, <2>4, <2>5 DEF Gone
<1>6. QED
  BY <1>3, <1>4, <1>5

\* With an Envoy that keeps its timers a host of a stress body is on its way
\* out of the table only while the body that removed it waits for that.
SettledInv == main = "run" /\ Backed /\ scenario \in StressBodies /\ kind \in Settling =>
  \A h \in Hosts : Quiet(h) \/ (Running /\ InWindow(scenario, at, h))

LEMMA QuietStays ==
  ASSUME NEW h, Quiet(h), UNCHANGED envoyVars, pushed'.endpoints = pushed.endpoints
  PROVE  Quiet(h)'
BY DEF Quiet, envoyVars

\* A body that goes on leaves the hosts settled, or in their window.
LEMMA SettledAdvances ==
  ASSUME BaseInv, RemovalInv, LateInv, ReturnInv', SettledInv, main = "run", main' = "run", Advances,
         Backed', BaseInv', kind \in Settling, scenario \in StressBodies, NEW h \in Hosts
  PROVE  Quiet(h)' \/ (Running /\ InWindow(scenario, at, h))'
<1> DEFINE q == Script(scenario)
<1>0. /\ Instruction = q[at] /\ at \in 1..Len(q) /\ at \in Nat /\ at' = at + 1 /\ kind' = kind
      /\ scenario' = scenario /\ state' = state /\ Running /\ Running'
      /\ pushed'.endpoints = IF q[at].op = "add" THEN pushed.endpoints \cup q[at].on
                             ELSE IF q[at].op = "remove" THEN pushed.endpoints \ q[at].on
                                  ELSE pushed.endpoints
  BY AdvanceIs, BackedBefore DEF Advances, InBody, Running
<1>1. WindowAt(scenario, q, at, h)
  BY <1>0, WindowIs
<1>2. (Running /\ InWindow(scenario, at, h))' <=> InWindow(scenario, at + 1, h)
  BY <1>0 DEF InWindow
<1>3. CASE Quiet(h)
  <2>1. CASE q[at].op = "remove" /\ h \in q[at].on
    BY <1>0, <1>1, <1>2, <2>1 DEF WindowAt
  <2>2. CASE ~(q[at].op = "remove" /\ h \in q[at].on)
    <3>1. h \in pushed.endpoints => h \in pushed'.endpoints
      BY <1>0, <2>2
    <3>2. QED
      BY <1>0, <1>3, <3>1 DEF Quiet
  <2>3. QED
    BY <2>1, <2>2
<1>4. CASE InWindow(scenario, at, h) /\ Goes(q[at]) /\ InWindow(scenario, at + 1, h)
  BY <1>2, <1>4
<1>5. CASE Leaves(q, at, h)
  <2>1. Seen \/ waited >= Instruction.within
    BY <1>0, <1>5, AdvanceBy DEF Leaves
  <2>2. state[h] = "absent"
    BY <1>0, <1>5, <2>1, GoneOver
  <2>3. QED
    BY <1>0, <2>2 DEF Quiet
<1>6. CASE scenario = "host re-add" /\ at \in 8..9 /\ h = 1
  <2>0. at = 8 \/ at = 9
    <3>1. at \in 8..9
      BY <1>6
    <3>2. QED
      BY <3>1
  <2>1. CASE at = 8
    <3>1. ASSUME NEW s, s = "host re-add", NEW i, i \in 5..9
          PROVE  InWindow(s, i, 1)
      BY <3>1 DEF InWindow
    <3>2. 9 \in 5..9 /\ at + 1 = 9
      BY <2>1
    <3>3. InWindow(scenario, 9, 1)
      BY <1>6, <3>1, <3>2
    <3>4. QED
      BY <1>2, <1>6, <3>2, <3>3
  <2>2. CASE at = 9 /\ ~answering'
    <3>1. HostsInv'
      BY DEF BaseInv
    <3>2. state'[h] = "absent"
      BY <2>2, <3>1 DEF HostsInv, Listed
    <3>3. QED
      BY <3>2 DEF Quiet
  <2>3. CASE at = 9 /\ answering'
    <3>1. scenario' = "host re-add" /\ scenario' \in Readding /\ kind' \in Settling
      BY <1>0, <1>6 DEF Readding
    <3>2. AddAt(scenario') = 7 /\ SleepAt(scenario') = 9 /\ Again(scenario') = {1}
      BY <3>1 DEF AddAt, SleepAt, Again
    <3>3. at' = 10
      BY <1>0, <2>3
    <3>4. 1 \in pushed'.endpoints /\ Left(1)'
      <4> DEFINE a == at'
      <4>1. /\ a > AddAt(scenario') => Again(scenario') \subseteq pushed'.endpoints
            /\ a = SleepAt(scenario') + 1 => \A g \in Again(scenario') : Left(g)'
        BY <1>0, <2>3, <3>1 DEF ReturnInv
      <4> HIDE DEF a
      <4>2. a = 10
        BY <3>3 DEF a
      <4>3. a > AddAt(scenario') /\ a = SleepAt(scenario') + 1
        BY <3>2, <4>2
      <4>4. QED
        BY <3>2, <4>1, <4>3
    <3>5. state'[1] \in {"absent", "healthy"}
      BY <3>4 DEF Left
    <3>6. QED
      BY <1>6, <3>4, <3>5 DEF Quiet
  <2>4. QED
    BY <2>0, <2>1, <2>2, <2>3
<1>7. Quiet(h) \/ InWindow(scenario, at, h)
  BY <1>0 DEF SettledInv, Running
<1>8. QED
  BY <1>1, <1>3, <1>4, <1>5, <1>6, <1>7 DEF WindowAt

\* A body that returns leaves the hosts settled: where it may fail it has seen
\* that its host has gone, or waited longer than the timer runs.
LEMMA SettledReturns ==
  ASSUME BaseInv, FaultsInv, RemovalInv, LateInv, ReturnInv, SettledInv, main = "run", Returns,
         Backed, kind \in Settling, scenario \in StressBodies, NEW h \in Hosts
  PROVE  Quiet(h)
<1> DEFINE q == Script(scenario)
<1>0. ShapeInv /\ HostsInv /\ Instruction = q[at] /\ at \in Nat /\ Len(q) \in Nat /\ Running
  BY BaseParts, TableTypes DEF Instruction, Returns, Running
<1>1. SUFFICES ASSUME InWindow(scenario, at, h)
               PROVE  Quiet(h)
  BY DEF SettledInv
<1>2. WindowAt(scenario, q, at, h)
  BY <1>0, WindowIs
<1>3. at \in 1..Len(q) /\ Fails
  <2>1. at \in 1..Len(q)
    BY <1>1, <1>2 DEF WindowAt
  <2>2. at # Len(q) + 1
    BY <1>0, <2>1
  <2>3. QED
    BY <2>1, <2>2 DEF Returns
<1>4. CASE Goes(q[at])
  BY <1>0, <1>3, <1>4 DEF Goes, Fails
<1>5. CASE Leaves(q, at, h)
  <2>1. waited >= Instruction.within
    BY <1>0, <1>3, <1>5 DEF Fails, Leaves
  <2>2. state[h] = "absent"
    BY <1>0, <1>3, <1>5, <2>1, GoneOver
  <2>3. QED
    BY <2>2 DEF Quiet
<1>6. CASE scenario = "host re-add" /\ at \in 8..9 /\ h = 1
  <2>1. q = HostReAdd
    BY <1>6, ScriptOf
  <2>2. IsAwait(q[8], "present", 1, 10000) /\ IsSleep(q[9], 5000)
    BY <2>1, InHostReAdd
  <2>3. at = 8
    <3>1. Instruction.op # "sleep"
      BY <1>3 DEF Fails
    <3>2. at # 9
      BY <1>0, <2>2, <3>1 DEF IsSleep
    <3>3. at \in 8..9
      BY <1>6
    <3>4. QED
      BY <3>2, <3>3
  <2>4. waited >= 10000
    BY <1>0, <1>3, <2>2, <2>3 DEF Fails, IsAwait
  <2>5. CASE ~answering
    BY <1>0, <2>5 DEF HostsInv, Listed, Quiet
  <2>6. CASE answering
    <3>1. scenario \in Readding /\ AddAt(scenario) = 7 /\ SleepAt(scenario) = 9
      BY <1>6 DEF AddAt, SleepAt, Readding
    <3>2. Returning(Again(scenario), Pause(scenario))
      BY <1>0, <2>3, <2>6, <3>1 DEF ReturnInv
    <3>3. waited <= lag \/ waited <= 250 * lost + MaxLag
      BY <3>2 DEF Returning
    <3>4. lag \in Nat /\ lag <= MaxLag /\ waited \in Nat
      BY <1>0, TableTypes
    <3>5. lost \in Nat /\ MaxLag \in Nat /\ MaxLag < 400 /\ MaxLag + 250 * lost < 2000
      BY FewFaults
    <3>6. QED
      BY <2>4, <3>3, <3>4, <3>5
  <2>7. QED
    BY <2>5, <2>6
<1>7. QED
  BY <1>1, <1>2, <1>4, <1>5, <1>6 DEF WindowAt

LEMMA SettledNext ==
  ASSUME BaseInv, FaultsInv, CallsInv, RemovalInv, LateInv, PromptInv, ReturnInv, SettledInv, [Next]_vars
  PROVE  SettledInv'
<1> SUFFICES ASSUME (main = "run" /\ Backed /\ scenario \in StressBodies /\ kind \in Settling)',
                    NEW h \in Hosts
             PROVE  Quiet(h)' \/ (Running /\ InWindow(scenario, at, h))'
  BY DEF SettledInv
<1>0. ShapeInv /\ HostsInv /\ CleanInv /\ BaseInv' /\ ReturnInv'
  BY BaseParts, BaseNext, ReturnNext
<1>1. CASE Begins /\ main = "ready"
  <2>1. Listed = {}
    BY <1>0, <1>1 DEF CleanInv
  <2>2. state' = state
    BY <1>1 DEF Begins, envoyVars
  <2>3. QED
    BY <2>1, <2>2 DEF Listed, Quiet
<1>2. CASE Begins /\ main = "run" /\ verdict # "running" /\ InStress
  <2>1. scenario \in StressBodies /\ kind \in Settling
    BY <1>2, StressIs DEF Begins
  <2>2. Backed
    BY <1>2, <2>1, NamesDiffer DEF Begins, Begin, faultVars, Backed
  <2>3. Quiet(h)
    BY <1>2, <2>1, <2>2 DEF SettledInv, Running
  <2>4. QED
    BY <1>2, <2>3, QuietStays DEF Begins
<1>3. CASE main = "run" /\ Advances
  <2>1. scenario \in StressBodies /\ kind \in Settling
    BY <1>3 DEF Advances
  <2>2. QED
    BY <1>0, <1>3, <2>1, SettledAdvances
<1>4. CASE main = "run" /\ Returns
  <2>1. scenario \in StressBodies /\ kind \in Settling /\ Backed
    BY <1>4, BackedBefore DEF Returns
  <2>2. Quiet(h)
    BY <1>4, <2>1, SettledReturns
  <2>3. QED
    BY <1>4, <2>2, QuietStays DEF Returns
<1>5. ASSUME main = "run", Ticks \/ Applies \/ Breaks \/ Dies \/ UNCHANGED scenarioVars
      PROVE  Quiet(h)' \/ (Running /\ InWindow(scenario, at, h))'
  <2>1. UNCHANGED <<scenario, at, verdict, pushed, kind, unstarted>>
    BY <1>5
    DEF Ticks, EnvoyTick, Applies, Apply, Breaks, Reconnect, Dies, scenarioVars, bodyVars, faultVars
  <2>2. scenario \in StressBodies /\ kind \in Settling /\ Backed
    BY <2>1, BackedBefore
  <2>3. CASE Running /\ InWindow(scenario, at, h)
    BY <1>5, <2>1, <2>3 DEF Running, InWindow
  <2>4. CASE Quiet(h)
    <3>1. CASE Ticks
      <4>1. CASE answering
        BY <1>0, <2>4, <3>1, <4>1, QuietTick DEF Ticks
      <4>2. CASE ~answering
        BY <2>4, <3>1, <4>2, QuietStays DEF Ticks
      <4>3. QED
        BY <4>1, <4>2
    <3>2. CASE Applies
      <4>1. h \in Leaving <=> h \notin pushed.endpoints
        BY <2>2 DEF Leaving, Settling
      <4>2. QED
        BY <1>0, <2>4, <3>2, <4>1, QuietApply DEF Applies
    <3>3. CASE Breaks
      <4>1. state'[h] = state[h]
        BY <2>2, <3>3 DEF Breaks, Reconnect, Settling
      <4>2. QED
        BY <2>1, <2>4, <4>1 DEF Quiet
    <3>4. CASE Dies
      BY <3>4 DEF Dies, EmptyTable, Quiet
    <3>5. CASE UNCHANGED scenarioVars
      BY <2>1, <2>4, <3>5, QuietStays DEF scenarioVars
    <3>6. QED
      BY <1>5, <3>1, <3>2, <3>3, <3>4, <3>5
  <2>5. QED
    BY <1>5, <2>2, <2>3, <2>4 DEF SettledInv
<1>6. CASE Misses
  BY <1>6, MissesShow
<1>7. QED
  BY <1>1, <1>2, <1>3, <1>4, <1>5, <1>6, RunSteps

LEMMA NoneReadded ==
  ASSUME BaseInv, QuietInv, SettledInv
  PROVE  NotReadded
<1> SUFFICES ASSUME Running, NothingRemoved(Script(scenario), at), NEW h \in Hosts,
                    state[h] = "readded"
             PROVE  FALSE
  BY DEF NotReadded
<1>1. ShapeInv /\ HostsInv /\ at \in Nat /\ main = "run"
  BY BaseParts, TableTypes DEF Running
<1>2. ~Quiet(h)
  BY DEF Quiet
<1>3. kind \in Settling
  BY <1>1 DEF HostsInv, Settling
<1>4. scenario \in StressBodies
  BY <1>2 DEF QuietInv
<1>5. InWindow(scenario, at, h)
  BY <1>1, <1>2, <1>3, <1>4 DEF SettledInv, Running
<1>6. WindowAt(scenario, Script(scenario), at, h)
  BY <1>1, <1>4, WindowIs
<1>7. \E r \in 1..at-1 : Script(scenario)[r].op = "remove"
  BY <1>5, <1>6 DEF WindowAt
<1>8. QED
  BY <1>7 DEF NothingRemoved

-----------------------------------------------------------------------------
(* Where a body stops                                                      *)

\* The instruction that an Envoy of kind k does not get past in s.
Barrier(s, k) ==
  CASE s = "0" -> IF k = "hasty" THEN 6 ELSE 9
    [] s = "A" -> 13
    [] s = "B" -> 10
    [] s = "C" -> IF k = "unpatched" THEN 7 ELSE 8
    [] s = "D" -> IF k = "hasty" THEN 9 ELSE 8
    [] s = "E" -> NumHosts + 4
    [] s = "F" -> 8
    [] s = "G" -> 7
    [] s = "H" -> IF k = "hasty" THEN 7 ELSE 10
    [] s = "add/remove/timeout" -> IF k = "hasty" THEN 7 ELSE 6
    [] s = "host re-add" -> 10
    [] s = "partial removal" -> IF k = "unpatched" THEN 6 ELSE 7
    [] OTHER -> 1

BarrierInv ==
  main = "run" /\ verdict \in {"running", "passed"} /\ Backed /\ kind \in Defects(scenario) =>
  at <= Barrier(scenario, kind)

LEMMA BarrierIs ==
  ASSUME NEW k
  PROVE  /\ Barrier("0", k) = IF k = "hasty" THEN 6 ELSE 9
         /\ Barrier("A", k) = 13 /\ Barrier("B", k) = 10
         /\ Barrier("C", k) = IF k = "unpatched" THEN 7 ELSE 8
         /\ Barrier("D", k) = IF k = "hasty" THEN 9 ELSE 8
         /\ Barrier("E", k) = NumHosts + 4 /\ Barrier("F", k) = 8 /\ Barrier("G", k) = 7
         /\ Barrier("H", k) = IF k = "hasty" THEN 7 ELSE 10
         /\ Barrier("add/remove/timeout", k) = IF k = "hasty" THEN 7 ELSE 6
         /\ Barrier("host re-add", k) = 10
         /\ Barrier("partial removal", k) = IF k = "unpatched" THEN 6 ELSE 7
BY Zenon DEF Barrier

LEMMA PollPassed ==
  ASSUME BaseInv, Advances, NEW c \in Conditions, NEW n, NEW ms,
         IsAwait(Script(scenario)[at], c, n, ms)
  PROVE  answering /\ Sees(c, n) /\ waited < ms
<1>1. ShapeInv /\ Instruction = Script(scenario)[at]
  BY BaseParts, AdvanceIs
<1>2. waited < ms /\ Seen
  BY AdvanceBy DEF IsAwait
<1>3. QED
  BY <1>1, <1>2, SeenSees DEF IsAwait

\* A sample that was passed has shown the host; its flag it has shown only
\* where it was, though a list that was cut may have lost one.
LEMMA SamplePassed ==
  ASSUME BaseInv, Advances, NEW E,
         IsSample(Script(scenario)[at], E) \/ IsStrictSample(Script(scenario)[at], E),
         NEW c \in {"flag", "present", "listed"}, NEW n, <<c, n>> \in E
  PROVE  answering /\ n \in Listed /\ (c = "flag" => IsPending(n))
<1>1. ShapeInv /\ Instruction = Script(scenario)[at] /\ state \in [Hosts -> States]
  BY BaseParts, AdvanceIs, TableTypes
<1>2. Instruction.op = "check" /\ Instruction.expected = E
  BY <1>1 DEF IsSample, IsStrictSample
<1>3. \/ answering /\ Satisfies(GetClusterHosts)
      \/ \E hosts \in HostsRead : Satisfies(hosts)
  BY <1>1, <1>2, AdvanceBy
<1>4. ASSUME NEW hosts, Satisfies(hosts)
      PROVE  Shows(hosts, c, n)
  BY <1>2, <1>4 DEF Satisfies
<1>5. CASE answering /\ Satisfies(GetClusterHosts)
  <2>1. Sees(c, n)
    BY <1>1, <1>4, <1>5, SeenIs DEF Conditions
  <2>2. QED
    BY <1>5, <2>1, SeesWhat
<1>6. CASE \E hosts \in HostsRead : Satisfies(hosts)
  BY <1>1, <1>4, <1>6, PartShown
<1>7. QED
  BY <1>3, <1>5, <1>6

LEMMA OneSampled ==
  ASSUME BaseInv, Advances, NEW c \in {"flag", "present", "listed"}, NEW n,
         IsSample(Script(scenario)[at], {<<c, n>>})
  PROVE  answering /\ n \in Listed /\ (c = "flag" => IsPending(n))
<1> DEFINE E == {<<c, n>>}
<1>1. IsSample(Script(scenario)[at], E) /\ <<c, n>> \in E
  OBVIOUS
<1> HIDE DEF E
<1>2. QED
  BY <1>1, SamplePassed

LEMMA AllSampled ==
  ASSUME BaseInv, Advances, NEW c \in {"flag", "present", "listed"},
         \/ IsSample(Script(scenario)[at], AllOf(c))
         \/ IsStrictSample(Script(scenario)[at], AllOf(c))
  PROVE  answering /\ 1 \in Listed /\ (c = "flag" => IsPending(1))
<1>1. <<c, 1>> \in AllOf(c)
  BY DEF AllOf
<1>2. QED
  BY <1>1, SamplePassed

LEMMA NoneListed == Sees("count", 0) => Listed = {}
BY SeesWhat, ListedFinite, FS_EmptySet

\* A host for which Envoy has no timer does not go.
LEMMA StuckBarred ==
  ASSUME BaseInv, StuckInv, Running, Advances, NEW h \in Hosts, Stuck(h), scenario # "G",
         WasUp(Script(scenario), at, h), NEW ms,
         \/ IsAwait(Script(scenario)[at], "gone", h, ms)
         \/ IsAwait(Script(scenario)[at], "count", 0, ms)
  PROVE  FALSE
<1>1. answering /\ (Sees("gone", h) \/ Sees("count", 0))
  BY PollPassed DEF Conditions
<1>2. state[h] = "absent"
  BY <1>1, SeesWhat, NoneListed DEF Listed
<1>3. QED
  BY <1>1, <1>2 DEF StuckInv

LEMMA UpAtTheEnd ==
  /\ WasUp(ScenarioC, 7, 1) /\ WasUp(ScenarioD, 8, 1) /\ WasUp(ScenarioF, 8, 1)
  /\ WasUp(ScenarioH, 10, 1) /\ WasUp(AddRemoveTimeout, 6, 1) /\ WasUp(PartialRemoval, 6, 1)
<1>0. 1 \in Two
  BY DEF Two
<1>1. WasUp(ScenarioC, 7, 1)
  <2> DEFINE q == ScenarioC
  <2>1. \A k \in 5..7-1 : q[k].op # "config" /\ ~Calls(q, k, "stop", 1)
    <3>1. q[5].op = "remove" /\ q[6].op = "wait"
      BY InScenarioC DEF IsCall, IsTry
    <3> HIDE DEF q
    <3>2. QED
      BY <3>1 DEF Calls
  <2>2. QED
    BY <1>0, <2>1, InScenarioC, UpFromSetup
<1>2. WasUp(ScenarioD, 8, 1)
  <2> DEFINE q == ScenarioD
  <2>1. q[6].op = "remove" /\ q[7].op = "mark"
    BY InScenarioD DEF IsCall, IsMark
  <2>2. Removal(q, 6, 8) /\ 1 \in q[6].on
    BY <1>0, RemovalInD
  <2> HIDE DEF q
  <2>3. WasUp(q, 6, 1)
    BY <2>2 DEF Removal, Up
  <2>4. \A k \in 6..8-1 : q[k].op \notin {"config", "stop"}
    BY <2>1
  <2>5. WasUp(q, 8, 1)
    BY <2>3, <2>4, WasUpKeeps
  <2>6. QED
    BY <2>5 DEF q
<1>3. WasUp(ScenarioF, 8, 1)
  <2> DEFINE q == ScenarioF
  <2>1. \A k \in 5..8-1 : q[k].op # "config" /\ ~Calls(q, k, "stop", 1)
    <3>1. q[5].op = "remove" /\ q[6].op = "wait" /\ q[7].op = "wait"
      BY InScenarioF DEF IsCall, IsTry
    <3> HIDE DEF q
    <3>2. QED
      BY <3>1 DEF Calls
  <2>2. QED
    BY <1>0, <2>1, InScenarioF, UpFromSetup
<1>4. WasUp(ScenarioH, 10, 1)
  <2> DEFINE q == ScenarioH
  <2>1. \A k \in 5..10-1 : q[k].op # "config" /\ ~Calls(q, k, "stop", 1)
    <3>1. q[5].op = "check" /\ q[6].op = "remove" /\ q[7].op = "wait" /\ q[8].op = "wait"
          /\ q[9].op = "check"
      BY InScenarioH DEF IsCall, IsAwait, IsSample
    <3> HIDE DEF q
    <3>2. QED
      BY <3>1 DEF Calls
  <2>2. QED
    BY <1>0, <2>1, InScenarioH, UpFromSetup
<1>5. WasUp(AddRemoveTimeout, 6, 1)
  <2> DEFINE q == AddRemoveTimeout
  <2>1. \A k \in 4..6-1 : q[k].op # "config" /\ ~Calls(q, k, "stop", 1)
    <3>1. q[4].op = "remove" /\ q[5].op = "mark"
      BY InAddRemoveTimeout DEF IsCall, IsMark
    <3> HIDE DEF q
    <3>2. QED
      BY <3>1 DEF Calls
  <2>2. QED
    BY <2>1, InAddRemoveTimeout, UpFromSetupOne
<1>6. WasUp(PartialRemoval, 6, 1)
  <2> DEFINE q == PartialRemoval
  <2>1. \A k \in 5..6-1 : q[k].op # "config" /\ ~Calls(q, k, "stop", 1)
    <3>1. q[5].op = "remove"
      BY InPartialRemoval DEF IsCall
    <3> HIDE DEF q
    <3>2. QED
      BY <3>1 DEF Calls
  <2>2. QED
    BY <1>0, <2>1, InPartialRemoval, UpFromSetup
<1>7. QED
  BY <1>1, <1>2, <1>3, <1>4, <1>5, <1>6

LEMMA DefectsAre ==
  /\ Defects("0") = {"hasty", "constant"} /\ Defects("A") = {"forgetful"}
  /\ Defects("B") = {"hasty", "blind"} /\ Defects("C") = {"unpatched", "contagious"}
  /\ Defects("D") = {"unpatched", "constant"} \cup (IF lost = 0 THEN {"hasty"} ELSE {})
  /\ Defects("E") = {"unpatched", "leaky"} /\ Defects("F") = {"unpatched"}
  /\ Defects("G") = {"unconditional"} /\ Defects("H") = {"unpatched", "hasty"}
  /\ Defects("add/remove/timeout") = {"unpatched", "hasty"}
  /\ Defects("HC failure") = {} /\ Defects("host re-add") = {"forgetful"}
  /\ Defects("partial removal") = {"unpatched", "contagious"}
  /\ Defects("long-lived healthy") = {}
BY Zenon DEF Defects

\* An Envoy that removes hosts at once never shows one as pending.
LEMMA HastyHides ==
  ASSUME BaseInv, kind = "hasty", NEW h, Sees("flag", h)
  PROVE  FALSE
<1>1. h \in Hosts /\ state[h] \in {"pending", "frozen"} /\ HostsInv
  BY BaseParts, SeesWhat DEF IsPending, Listed
<1>2. QED
  BY <1>1 DEF HostsInv

\* ... nor does it take the time that is compared.
LEMMA HastyBarred ==
  ASSUME BaseInv, FaultsInv, HastyInv, Running, Advances, kind = "hasty", kind \in Defects(scenario),
         at = Barrier(scenario, kind)
  PROVE  FALSE
<1>0. lost \in Nat /\ MaxLag \in Nat /\ MaxLag < 400 /\ MaxLag + 250 * lost < 2000
  BY FewFaults
<1>1. CASE scenario = "0"
  <2>1. Script(scenario) = Scenario0 /\ at = 6
    BY <1>1, ScriptOf, BarrierIs
  <2>2. IsAwait(Script(scenario)[at], "flag", 1, 5000)
    BY <2>1, InScenario0
  <2>3. QED
    BY <2>2, PollPassed, HastyHides DEF Conditions
<1>2. CASE scenario = "B"
  <2>1. Script(scenario) = ScenarioB /\ at = 10
    BY <1>2, ScriptOf, BarrierIs
  <2>2. IsSample(Script(scenario)[at], {<<"flag", 2>>})
    BY <2>1, InScenarioB
  <2>3. QED
    BY <2>2, OneSampled, HastyHides, SeesWhat
<1>3. CASE scenario = "D"
  <2>1. Script(scenario) = ScenarioD /\ at = 9 /\ lost = 0
    <3>1. Script(scenario) = ScenarioD /\ at = 9
      BY <1>3, ScriptOf, BarrierIs
    <3>2. kind \in {"unpatched", "constant"} \cup (IF lost = 0 THEN {"hasty"} ELSE {})
      BY <1>3, DefectsAre
    <3>3. QED
      BY <3>1, <3>2
  <2>2. IsBound(Script(scenario)[at], 400, 3000)
    BY <2>1, InScenarioD
  <2>3. 400 <= since
    BY <2>2, AdvanceBy DEF IsBound
  <2>4. since <= MaxLag + 250 * lost
    <3>1. scenario \in Measuring /\ MeasuredAt(scenario) = 8
      BY <1>3 DEF Measuring, MeasuredAt
    <3>2. at = MeasuredAt(scenario) + 1
      BY <2>1, <3>1
    <3>3. QED
      BY <3>1, <3>2 DEF HastyInv
  <2>5. since <= MaxLag + 250 * 0
    BY <2>1, <2>4
  <2>6. QED
    <3>1. \/ since \in Int
          \/ ~(400 <= since /\ since <= MaxLag + 250 * 0)
      BY BaseParts DEF ShapeInv, BodyOK, SinceInv
    <3>2. QED
      BY <1>0, <2>3, <2>5, <3>1
<1>4. CASE scenario = "H"
  <2>1. Script(scenario) = ScenarioH /\ at = 7
    BY <1>4, ScriptOf, BarrierIs
  <2>2. IsAwait(Script(scenario)[at], "flag", 1, 5000)
    BY <2>1, InScenarioH
  <2>3. QED
    BY <2>2, PollPassed, HastyHides DEF Conditions
<1>5. CASE scenario = "add/remove/timeout"
  <2>1. Script(scenario) = AddRemoveTimeout /\ at = 7
    BY <1>5, ScriptOf, BarrierIs
  <2>2. IsBound(Script(scenario)[at], 2000, 10000)
    BY <2>1, InAddRemoveTimeout
  <2>3. 2000 <= since
    BY <2>2, AdvanceBy DEF IsBound
  <2>4. since <= MaxLag + 250 * lost
    <3>1. scenario \in Measuring /\ MeasuredAt(scenario) = 6
      BY Zenon, <1>5 DEF Measuring, MeasuredAt
    <3>2. at = MeasuredAt(scenario) + 1
      BY <2>1, <3>1
    <3>3. QED
      BY <3>1, <3>2 DEF HastyInv
  <2>6. QED
    <3>1. since \in Int
      BY BaseParts DEF ShapeInv, BodyOK, SinceInv
    <3>2. QED
      BY <1>0, <2>3, <2>4, <3>1
<1>6. scenario \in {"0", "B", "D", "H", "add/remove/timeout"}
  <2>1. scenario \in Scenarios
    BY BaseParts, TableTypes
  <2>2. scenario \notin {"A", "C", "E", "F", "G", "HC failure", "host re-add", "partial removal",
                       "long-lived healthy"}
    BY Zenon, DefectsAre
  <2>3. QED
    BY Zenon, <2>1, <2>2, AllScenarioNames DEF StressBodies
<1>7. QED
  BY Zenon, <1>1, <1>2, <1>3, <1>4, <1>5, <1>6

\* An Envoy without timers, or with too few, never loses the host waited for.
LEMMA StuckEvidence ==
  ASSUME BaseInv, StuckInv, Running, Advances, kind \in {"unpatched", "leaky"},
         kind \in Defects(scenario), at = Barrier(scenario, kind)
  PROVE  FALSE
<1>0. 1 \in Hosts /\ 3 \in Hosts /\ NumHosts \in Nat
  BY EnvoyAssumption, BoundsAssumption DEF Hosts
<1>1. CASE kind = "unpatched"
  <2>1. Stuck(1)
    BY <1>1 DEF Stuck
  <2>2. CASE scenario = "C"
    <3>1. Script(scenario) = ScenarioC /\ at = 7 /\ scenario # "G"
      BY <1>1, <2>2, ScriptOf, BarrierIs
    <3>2. IsAwait(Script(scenario)[at], "gone", 1, 10000) /\ WasUp(Script(scenario), at, 1)
      BY <3>1, InScenarioC, UpAtTheEnd
    <3>3. QED
      BY <1>0, <2>1, <3>1, <3>2, StuckBarred
  <2>3. CASE scenario = "D"
    <3>1. Script(scenario) = ScenarioD /\ at = 8 /\ scenario # "G"
      BY <1>1, <2>3, ScriptOf, BarrierIs
    <3>2. IsAwait(Script(scenario)[at], "count", 0, 5000) /\ WasUp(Script(scenario), at, 1)
      BY <3>1, InScenarioD, UpAtTheEnd
    <3>3. QED
      BY <1>0, <2>1, <3>1, <3>2, StuckBarred
  <2>4. CASE scenario = "F"
    <3>1. Script(scenario) = ScenarioF /\ at = 8 /\ scenario # "G"
      BY <1>1, <2>4, ScriptOf, BarrierIs
    <3>2. IsAwait(Script(scenario)[at], "count", 0, 10000) /\ WasUp(Script(scenario), at, 1)
      BY <3>1, InScenarioF, UpAtTheEnd
    <3>3. QED
      BY <1>0, <2>1, <3>1, <3>2, StuckBarred
  <2>5. CASE scenario = "H"
    <3>1. Script(scenario) = ScenarioH /\ at = 10 /\ scenario # "G"
      BY <1>1, <2>5, ScriptOf, BarrierIs
    <3>2. IsAwait(Script(scenario)[at], "count", 0, 10000) /\ WasUp(Script(scenario), at, 1)
      BY <3>1, InScenarioH, UpAtTheEnd
    <3>3. QED
      BY <1>0, <2>1, <3>1, <3>2, StuckBarred
  <2>6. CASE scenario = "add/remove/timeout"
    <3>1. Script(scenario) = AddRemoveTimeout /\ at = 6 /\ scenario # "G"
      BY <1>1, <2>6, ScriptOf, BarrierIs
    <3>2. IsAwait(Script(scenario)[at], "gone", 1, 8000) /\ WasUp(Script(scenario), at, 1)
      BY <3>1, InAddRemoveTimeout, UpAtTheEnd
    <3>3. QED
      BY <1>0, <2>1, <3>1, <3>2, StuckBarred
  <2>7. CASE scenario = "partial removal"
    <3>1. Script(scenario) = PartialRemoval /\ at = 6 /\ scenario # "G"
      BY <1>1, <2>7, ScriptOf, BarrierIs
    <3>2. IsAwait(Script(scenario)[at], "gone", 1, 8000) /\ WasUp(Script(scenario), at, 1)
      BY <3>1, InPartialRemoval, UpAtTheEnd
    <3>3. QED
      BY <1>0, <2>1, <3>1, <3>2, StuckBarred
  <2>8. CASE scenario = "E"
    <3>1. Script(scenario) = ScenarioE /\ at = NumHosts + 4 /\ scenario # "G"
      BY <2>8, ScriptOf, BarrierIs
    <3>2. IsAwait(Script(scenario)[at], "count", 0, 10000) /\ WasUp(Script(scenario), at, 1)
      BY <1>0, <3>1, InScenarioE, UpInE, MadePolls
    <3>3. QED
      BY <1>0, <2>1, <3>1, <3>2, StuckBarred
  <2>9. scenario \in {"C", "D", "E", "F", "H", "add/remove/timeout", "partial removal"}
    <3>1. scenario \in Scenarios
      BY BaseParts, TableTypes
    <3>2. scenario \notin {"0", "A", "B", "G", "HC failure", "host re-add", "long-lived healthy"}
      BY Zenon, <1>1, DefectsAre
    <3>3. QED
      BY Zenon, <3>1, <3>2, AllScenarioNames DEF StressBodies
  <2>10. QED
    BY Zenon, <2>2, <2>3, <2>4, <2>5, <2>6, <2>7, <2>8, <2>9
<1>2. CASE kind = "leaky"
  <2>1. Stuck(3)
    BY <1>2 DEF Stuck
  <2>2. scenario = "E"
    <3>1. scenario \in Scenarios
      BY BaseParts, TableTypes
    <3>2. scenario \notin {"C", "D", "F", "H", "add/remove/timeout", "partial removal"}
      <4>1. kind \notin {"unpatched", "constant"} \cup (IF lost = 0 THEN {"hasty"} ELSE {})
        BY <1>2
      <4>2. QED
        BY Zenon, <1>2, <4>1, DefectsAre
    <3>3. scenario \notin {"0", "A", "B", "G", "HC failure", "host re-add", "long-lived healthy"}
      BY Zenon, <1>2, DefectsAre
    <3>4. QED
      BY Zenon, <3>1, <3>2, <3>3, AllScenarioNames DEF StressBodies
  <2>3. Script(scenario) = ScenarioE /\ at = NumHosts + 4 /\ scenario # "G"
    BY <2>2, ScriptOf, BarrierIs
  <2>4. IsAwait(Script(scenario)[at], "count", 0, 10000) /\ WasUp(Script(scenario), at, 3)
    BY <1>0, <2>3, InScenarioE, UpInE, MadePolls
  <2>5. QED
    BY <1>0, <2>1, <2>3, <2>4, StuckBarred
<1>3. QED
  BY <1>1, <1>2

\* One that takes another timeout than the one configured shows it.
LEMMA ConstantBarred ==
  ASSUME BaseInv, RemovalInv, SlowInv, ConstantInv, Running, Advances, kind = "constant",
         kind \in Defects(scenario), at = Barrier(scenario, kind)
  PROVE  FALSE
<1>1. CASE scenario = "0"
  <2>1. Script(scenario) = Scenario0 /\ at = 9
    BY <1>1, ScriptOf, BarrierIs
  <2>2. IsStrictSample(Script(scenario)[at], AllOf("flag"))
    BY <2>1, InScenario0
  <2>3. answering /\ Sees("flag", 1)
    BY <2>2, AllSampled, SeesWhat
  <2>4. state[1] = "absent"
    BY <1>1, <2>1, <2>3 DEF ConstantInv, Two
  <2>5. QED
    BY <2>3, <2>4, SeesWhat DEF Listed
<1>2. CASE scenario = "D"
  <2>1. Script(scenario) = ScenarioD /\ at = 8
    BY <1>2, ScriptOf, BarrierIs
  <2>2. IsAwait(Script(scenario)[at], "count", 0, 5000)
    BY <2>1, InScenarioD
  <2>3. answering /\ Sees("count", 0) /\ waited < 5000
    BY <2>2, PollPassed DEF Conditions
  <2>4. Removal(ScenarioD, 6, 8) /\ ScenarioD[6].on = Two /\ Keeps(ScenarioD, 7, 10)
    BY RemovalInD
  <2>5. After(ScenarioD, 6, 8, 8)
    BY <2>4 DEF After, Keeps
  <2>6. 1 \in Script(scenario)[6].on
    BY <2>1, <2>4 DEF Two
  <2>7. waited >= Timeout
    <3>1. Slow
      BY <1>2 DEF Slow
    <3>2. state[1] = "absent"
      BY <2>3, NoneListed, SomeHosts DEF Listed
    <3>3. After(Script(scenario), 6, 8, at) /\ at <= 8
      BY <2>1, <2>5
    <3>4. QED
      BY <2>3, <2>6, <3>1, <3>2, <3>3 DEF SlowInv
  <2>8. Timeout = 5000
    BY DEF Timeout
  <2>9. waited \in Nat
    BY BaseParts, TableTypes
  <2>10. QED
    BY <2>3, <2>7, <2>8, <2>9
<1>3. scenario \in {"0", "D"}
  <2>1. scenario \in Scenarios
    BY BaseParts, TableTypes
  <2>2. /\ scenario \notin {"A", "B", "C", "E"}
        /\ scenario \notin {"F", "G", "H", "add/remove/timeout"}
        /\ scenario \notin {"HC failure", "host re-add", "partial removal", "long-lived healthy"}
    <3>1. scenario \notin {"A", "B", "C", "E"}
      <4>1. /\ kind \notin {"forgetful"} /\ kind \notin {"hasty", "blind"}
            /\ kind \notin {"unpatched", "contagious"} /\ kind \notin {"unpatched", "leaky"}
        OBVIOUS
      <4>2. QED
        BY Zenon, <4>1, DefectsAre
    <3>2. scenario \notin {"F", "G", "H", "add/remove/timeout"}
      BY Zenon, DefectsAre
    <3>3. scenario \notin {"HC failure", "host re-add", "partial removal", "long-lived healthy"}
      BY Zenon, DefectsAre
    <3>4. QED
      BY Zenon, <3>1, <3>2, <3>3
  <2>3. QED
    BY Zenon, <2>1, <2>2, AllScenarioNames DEF StressBodies
<1>4. QED
  BY <1>1, <1>2, <1>3

\* One that removes a host without health checks no earlier shows that in G.
LEMMA UnconditionalBarred ==
  ASSUME BaseInv, RemovalInv, SlowInv, Running, Advances, kind = "unconditional",
         kind \in Defects(scenario), at = Barrier(scenario, kind)
  PROVE  FALSE
<1>1. scenario = "G"
  <2>1. scenario \in Scenarios
    BY BaseParts, TableTypes
  <2>2. /\ scenario \notin {"0", "A", "B", "C"}
        /\ scenario \notin {"E", "F", "H", "add/remove/timeout"}
        /\ scenario \notin {"HC failure", "host re-add", "partial removal", "long-lived healthy"}
    <3>1. scenario \notin {"0", "A", "B", "C"}
      <4>1. /\ kind \notin {"hasty", "constant"} /\ kind \notin {"forgetful"}
            /\ kind \notin {"hasty", "blind"} /\ kind \notin {"unpatched", "contagious"}
        OBVIOUS
      <4>2. QED
        BY Zenon, <4>1, DefectsAre
    <3>2. scenario \notin {"E", "F", "H", "add/remove/timeout"}
      BY Zenon, DefectsAre
    <3>3. scenario \notin {"HC failure", "host re-add", "partial removal", "long-lived healthy"}
      BY Zenon, DefectsAre
    <3>4. QED
      BY Zenon, <3>1, <3>2, <3>3
  <2>3. scenario # "D"
    <3>1. kind \notin {"unpatched", "constant"} \cup (IF lost = 0 THEN {"hasty"} ELSE {})
      OBVIOUS
    <3>2. QED
      BY Zenon, <3>1, DefectsAre
  <2>4. QED
    BY Zenon, <2>1, <2>2, <2>3, AllScenarioNames DEF StressBodies
<1>2. Script(scenario) = ScenarioG /\ at = 7
  BY <1>1, ScriptOf, BarrierIs
<1>3. IsAwait(Script(scenario)[at], "count", 0, 5000)
  BY <1>2, InScenarioG
<1>4. answering /\ Sees("count", 0) /\ waited < 5000
  BY <1>3, PollPassed DEF Conditions
<1>5. Removal(ScenarioG, 5, 7) /\ ScenarioG[5].on = Two /\ Keeps(ScenarioG, 6, 9)
  BY RemovalInG
<1>6. After(ScenarioG, 5, 7, 7)
  BY <1>5 DEF After, Keeps
<1>7. After(Script(scenario), 5, 7, at) /\ at <= 7 /\ 1 \in Script(scenario)[5].on
  BY <1>2, <1>5, <1>6 DEF Two
<1>8. state[1] = "absent"
  BY <1>4, NoneListed, SomeHosts DEF Listed
<1>9. waited >= Timeout
  <2>1. Slow
    BY DEF Slow
  <2>2. QED
    BY <1>4, <1>7, <1>8, <2>1 DEF SlowInv
<1>10. Timeout = 5000
  <2>1. pushed = applied
    <3>1. Spared(scenario, 5)
      BY DEF Spared
    <3>2. QED
      BY <1>4, <1>7, <1>8, <3>1, RemovalNow DEF Unapplied, Gone
  <2>2. pushed.timeoutMs = TimeoutOf(scenario, at)
    BY BaseParts DEF ConfigInv, Running
  <2>3. TimeoutOf("G", 7) = 5000
    BY NamesDiffer DEF TimeoutOf
  <2>4. QED
    BY <1>1, <1>2, <2>1, <2>2, <2>3 DEF Timeout
<1>11. waited \in Nat
  BY BaseParts, TableTypes
<1>12. QED
  BY <1>4, <1>9, <1>10, <1>11

\* One that keeps the timer of a host that was added again loses the host.
LEMMA ForgetfulBarred ==
  ASSUME BaseInv, ReturnInv, Running, Advances, kind = "forgetful",
         kind \in Defects(scenario), at = Barrier(scenario, kind)
  PROVE  FALSE
<1>1. scenario \in {"A", "host re-add"}
  <2>1. scenario \in Scenarios
    BY BaseParts, TableTypes
  <2>2. /\ scenario \notin {"0", "B", "C", "E"}
        /\ scenario \notin {"F", "G", "H", "add/remove/timeout"}
        /\ scenario \notin {"HC failure", "partial removal", "long-lived healthy"}
    <3>1. scenario \notin {"0", "B"} /\ scenario \notin {"C", "E"}
      <4>1. scenario \notin {"0", "B"}
        BY Zenon, DefectsAre
      <4>2. scenario \notin {"C", "E"}
        BY Zenon, DefectsAre
      <4>3. QED
        BY <4>1, <4>2
    <3>2. scenario \notin {"F", "G", "H", "add/remove/timeout"}
      BY Zenon, DefectsAre
    <3>3. scenario \notin {"HC failure", "partial removal", "long-lived healthy"}
      BY Zenon, DefectsAre
    <3>4. QED
      BY <3>1, <3>2, <3>3
  <2>3. scenario # "D"
    <3>1. kind \notin {"unpatched", "constant"} \cup (IF lost = 0 THEN {"hasty"} ELSE {})
      OBVIOUS
    <3>2. QED
      BY Zenon, <3>1, DefectsAre
  <2>4. QED
    BY Zenon, <2>1, <2>2, <2>3, AllScenarioNames DEF StressBodies
<1>2. answering /\ 1 \in Listed
  <2>1. CASE scenario = "A"
    <3>1. Script(scenario) = ScenarioA /\ at = 13
      BY <2>1, ScriptOf, BarrierIs
    <3>2. IsSample(Script(scenario)[at], AllOf("present"))
      BY <3>1, InScenarioA
    <3>3. QED
      BY <3>2, AllSampled, SeesWhat
  <2>2. CASE scenario = "host re-add"
    <3>1. Script(scenario) = HostReAdd /\ at = 10
      BY <2>2, ScriptOf, BarrierIs
    <3>2. IsSample(Script(scenario)[at], {<<"listed", 1>>})
      BY <3>1, InHostReAdd
    <3>3. QED
      BY <3>2, OneSampled, SeesWhat
  <2>3. QED
    BY <1>1, <2>1, <2>2
<1>3. scenario \in Readding /\ kind \in Settling
  BY <1>1 DEF Readding, Settling
<1>4. at = SleepAt(scenario) + 1 /\ 1 \in Again(scenario)
  <2>1. CASE scenario = "A"
    <3>1. at = 13 /\ SleepAt(scenario) = 12 /\ Again(scenario) = Two
      BY <2>1, BarrierIs DEF SleepAt, Again
    <3>2. QED
      BY <3>1 DEF Two
  <2>2. CASE scenario = "host re-add"
    <3>1. at = 10 /\ SleepAt(scenario) = 9 /\ Again(scenario) = {1}
      BY <2>2, BarrierIs DEF SleepAt, Again
    <3>2. QED
      BY <3>1
  <2>3. QED
    BY <1>1, <2>1, <2>2
<1>5. Left(1)
  BY <1>2, <1>3, <1>4 DEF ReturnInv
<1>6. QED
  BY <1>2, <1>5 DEF Left, Listed

\* One that spares a host whose backend has stopped, or removes a host with
\* another, takes the two for the same.
LEMMA TwinBarred ==
  ASSUME BaseInv, TwinInv, Running, Advances, kind \in {"blind", "contagious"},
         kind \in Defects(scenario), at = Barrier(scenario, kind)
  PROVE  FALSE
<1>1. \/ kind = "blind" /\ scenario = "B"
      \/ kind = "contagious" /\ scenario = "C"
      \/ kind = "contagious" /\ scenario = "partial removal"
  <2>1. scenario \in Scenarios
    BY BaseParts, TableTypes
  <2>2. scenario \notin {"0", "A", "E", "F", "G", "H", "add/remove/timeout", "HC failure",
                       "host re-add", "long-lived healthy"}
    BY Zenon, DefectsAre
  <2>3. scenario # "D"
    <3>1. kind \notin {"unpatched", "constant"} \cup (IF lost = 0 THEN {"hasty"} ELSE {})
      OBVIOUS
    <3>2. QED
      BY Zenon, <3>1, DefectsAre
  <2>4. scenario \in {"B", "C", "partial removal"}
    BY Zenon, <2>1, <2>2, <2>3, AllScenarioNames DEF StressBodies
  <2>5. QED
    BY Zenon, <2>4, DefectsAre
<1>2. /\ at = LastOf(scenario) /\ at \in 6..LastOf(scenario) /\ Alike(scenario)
      /\ answering /\ 2 \in Listed
  <2>1. CASE kind = "blind" /\ scenario = "B"
    <3>1. Script(scenario) = ScenarioB /\ at = 10 /\ LastOf(scenario) = 10
      BY <2>1, ScriptOf, BarrierIs DEF LastOf
    <3>2. IsSample(Script(scenario)[at], {<<"flag", 2>>})
      BY <3>1, InScenarioB
    <3>3. answering /\ 2 \in Listed
      BY <3>2, OneSampled, SeesWhat
    <3>4. Alike(scenario)
      BY <2>1 DEF Alike
    <3>5. QED
      BY <3>1, <3>3, <3>4
  <2>2. CASE kind = "contagious" /\ scenario = "C"
    <3>1. Script(scenario) = ScenarioC /\ at = 8 /\ LastOf(scenario) = 8
      BY <2>2, ScriptOf, BarrierIs DEF LastOf
    <3>2. IsSample(Script(scenario)[at], {<<"present", 2>>})
      BY <3>1, InScenarioC
    <3>3. answering /\ 2 \in Listed
      BY <3>2, OneSampled, SeesWhat
    <3>4. Alike(scenario)
      BY <2>2 DEF Alike
    <3>5. QED
      BY <3>1, <3>3, <3>4
  <2>3. CASE kind = "contagious" /\ scenario = "partial removal"
    <3>1. Script(scenario) = PartialRemoval /\ at = 7 /\ LastOf(scenario) = 7
      BY <2>3, ScriptOf, BarrierIs DEF LastOf
    <3>2. IsSample(Script(scenario)[at], {<<"present", 2>>})
      BY <3>1, InPartialRemoval
    <3>3. answering /\ 2 \in Listed
      BY <3>2, OneSampled, SeesWhat
    <3>4. Alike(scenario)
      BY <2>3 DEF Alike
    <3>5. QED
      BY <3>1, <3>3, <3>4
  <2>4. QED
    BY <1>1, <2>1, <2>2, <2>3
<1>3. state[1] = "absent" /\ state[2] = state[1]
  BY <1>2 DEF TwinInv, Equal
<1>4. QED
  BY <1>2, <1>3 DEF Listed

\* No step makes a scenario expose what it did not.
LEMMA DefectsLater ==
  ASSUME lost \in Nat, lost' = lost \/ lost' = lost + 1, (kind \in Defects(scenario))',
         NEW s \in Scenarios, s = scenario', NEW k, k = kind'
  PROVE  k \in Defects(s)
<1>1. CASE s = "0"
  <2>1. k \in {"hasty", "constant"}
    BY Zenon, <1>1 DEF Defects
  <2>2. QED
    BY Zenon, <1>1, <2>1, DefectsAre
<1>2. CASE s = "A"
  <2>1. k \in {"forgetful"}
    BY Zenon, <1>2 DEF Defects
  <2>2. QED
    BY Zenon, <1>2, <2>1, DefectsAre
<1>3. CASE s = "host re-add"
  <2>1. k \in {"forgetful"}
    BY Zenon, <1>3 DEF Defects
  <2>2. QED
    BY Zenon, <1>3, <2>1, DefectsAre
<1>4. CASE s = "B"
  <2>1. k \in {"hasty", "blind"}
    BY Zenon, <1>4 DEF Defects
  <2>2. QED
    BY Zenon, <1>4, <2>1, DefectsAre
<1>5. CASE s = "C"
  <2>1. k \in {"unpatched", "contagious"}
    BY Zenon, <1>5 DEF Defects
  <2>2. QED
    BY Zenon, <1>5, <2>1, DefectsAre
<1>6. CASE s = "partial removal"
  <2>1. k \in {"unpatched", "contagious"}
    BY Zenon, <1>6 DEF Defects
  <2>2. QED
    BY Zenon, <1>6, <2>1, DefectsAre
<1>7. CASE s = "E"
  <2>1. k \in {"unpatched", "leaky"}
    BY Zenon, <1>7 DEF Defects
  <2>2. QED
    BY Zenon, <1>7, <2>1, DefectsAre
<1>8. CASE s = "F"
  <2>1. k \in {"unpatched"}
    BY Zenon, <1>8 DEF Defects
  <2>2. QED
    BY Zenon, <1>8, <2>1, DefectsAre
<1>9. CASE s = "G"
  <2>1. k \in {"unconditional"}
    BY Zenon, <1>9 DEF Defects
  <2>2. QED
    BY Zenon, <1>9, <2>1, DefectsAre
<1>10. CASE s = "H"
  <2>1. k \in {"unpatched", "hasty"}
    BY Zenon, <1>10 DEF Defects
  <2>2. QED
    BY Zenon, <1>10, <2>1, DefectsAre
<1>11. CASE s = "add/remove/timeout"
  <2>1. k \in {"unpatched", "hasty"}
    BY Zenon, <1>11 DEF Defects
  <2>2. QED
    BY Zenon, <1>11, <2>1, DefectsAre
<1>12. CASE s = "HC failure"
  <2>1. k \in {}
    BY Zenon, <1>12 DEF Defects
  <2>2. QED
    BY Zenon, <1>12, <2>1, DefectsAre
<1>13. CASE s = "long-lived healthy"
  <2>1. k \in {}
    BY Zenon, <1>13 DEF Defects
  <2>2. QED
    BY Zenon, <1>13, <2>1, DefectsAre
<1>14. CASE s = "D"
  <2>1. k \in {"unpatched", "constant"} \cup (IF lost' = 0 THEN {"hasty"} ELSE {})
    BY Zenon, <1>14 DEF Defects
  <2>2. lost' = 0 => lost = 0
    OBVIOUS
  <2>3. k \in {"unpatched", "constant"} \cup (IF lost = 0 THEN {"hasty"} ELSE {})
    BY Zenon, <2>1, <2>2
  <2>4. QED
    BY Zenon, <1>14, <2>3, DefectsAre
<1>15. QED
  BY Zenon, <1>1, <1>2, <1>3, <1>4, <1>5, <1>6, <1>7, <1>8, <1>9, <1>10, <1>11, <1>12,
     <1>13, <1>14, AllScenarioNames DEF StressBodies

LEMMA BarrierWithin ==
  ASSUME NEW s \in Scenarios, NEW k, k \in Defects(s)
  PROVE  Barrier(s, k) \in Nat \ {0} /\ Barrier(s, k) <= Len(Script(s))
<1>0. NumHosts \in Nat
  BY EnvoyAssumption
<1>1. CASE s = "0"
  <2>1. (Barrier(s, k) = 6 \/ Barrier(s, k) = 9) /\ Script(s) = Scenario0
    BY <1>1, BarrierIs, ScriptOf
  <2>2. QED
    BY <2>1, InScenario0
<1>2. CASE s = "A"
  <2>1. Barrier(s, k) = 13 /\ Script(s) = ScenarioA
    BY <1>2, BarrierIs, ScriptOf
  <2>2. QED
    BY <2>1, InScenarioA
<1>3. CASE s = "B"
  <2>1. Barrier(s, k) = 10 /\ Script(s) = ScenarioB
    BY <1>3, BarrierIs, ScriptOf
  <2>2. QED
    BY <2>1, InScenarioB
<1>4. CASE s = "C"
  <2>1. (Barrier(s, k) = 7 \/ Barrier(s, k) = 8) /\ Script(s) = ScenarioC
    BY <1>4, BarrierIs, ScriptOf
  <2>2. QED
    BY <2>1, InScenarioC
<1>5. CASE s = "D"
  <2>1. (Barrier(s, k) = 9 \/ Barrier(s, k) = 8) /\ Script(s) = ScenarioD
    BY <1>5, BarrierIs, ScriptOf
  <2>2. QED
    BY <2>1, InScenarioD
<1>6. CASE s = "E"
  <2>1. Barrier(s, k) = NumHosts + 4 /\ Script(s) = ScenarioE
    BY <1>6, BarrierIs, ScriptOf
  <2>2. QED
    BY <1>0, <2>1, InScenarioE
<1>7. CASE s = "F"
  <2>1. Barrier(s, k) = 8 /\ Script(s) = ScenarioF
    BY <1>7, BarrierIs, ScriptOf
  <2>2. QED
    BY <2>1, InScenarioF
<1>8. CASE s = "G"
  <2>1. Barrier(s, k) = 7 /\ Script(s) = ScenarioG
    BY <1>8, BarrierIs, ScriptOf
  <2>2. QED
    BY <2>1, InScenarioG
<1>9. CASE s = "H"
  <2>1. (Barrier(s, k) = 7 \/ Barrier(s, k) = 10) /\ Script(s) = ScenarioH
    BY <1>9, BarrierIs, ScriptOf
  <2>2. QED
    BY <2>1, InScenarioH
<1>10. CASE s = "add/remove/timeout"
  <2>1. (Barrier(s, k) = 7 \/ Barrier(s, k) = 6) /\ Script(s) = AddRemoveTimeout
    BY <1>10, BarrierIs, ScriptOf
  <2>2. QED
    BY <2>1, InAddRemoveTimeout
<1>11. CASE s = "host re-add"
  <2>1. Barrier(s, k) = 10 /\ Script(s) = HostReAdd
    BY <1>11, BarrierIs, ScriptOf
  <2>2. QED
    BY <2>1, InHostReAdd
<1>12. CASE s = "partial removal"
  <2>1. (Barrier(s, k) = 6 \/ Barrier(s, k) = 7) /\ Script(s) = PartialRemoval
    BY <1>12, BarrierIs, ScriptOf
  <2>2. QED
    BY <2>1, InPartialRemoval
<1>13. s # "HC failure" /\ s # "long-lived healthy"
  BY Zenon, DefectsAre
<1>14. s \in {"0", "A", "B", "C", "D", "E", "F", "G", "H"}
       \/ s \in {"add/remove/timeout", "host re-add", "partial removal"}
  BY Zenon, <1>13, AllScenarioNames DEF StressBodies
<1>15. QED
  BY Zenon, <1>1, <1>2, <1>3, <1>4, <1>5, <1>6, <1>7, <1>8, <1>9, <1>10, <1>11, <1>12, <1>14

\* No body gets past its evidence.
LEMMA Barred ==
  ASSUME BaseInv, FaultsInv, StuckInv, RemovalInv, SlowInv, ReturnInv, HastyInv, ConstantInv,
         TwinInv, Running, Advances, kind \in Defects(scenario)
  PROVE  at # Barrier(scenario, kind)
<1> SUFFICES ASSUME at = Barrier(scenario, kind) PROVE FALSE
  OBVIOUS
<1>1. kind \in {"hasty", "unpatched", "leaky", "constant", "forgetful", "blind", "contagious",
                "unconditional"}
  <2>1. kind \in AllKinds
    BY BaseParts, EnvoyAssumption DEF ShapeInv, ProcessOK
  <2>2. kind \notin {"fixed", "amnesiac"}
    <3>1. scenario \in Scenarios
      BY BaseParts, TableTypes
    <3>2. \A s \in {"0", "A", "B", "C"} : Defects(s) \cap {"fixed", "amnesiac"} = {}
      BY DefectsAre
    <3>3. \A s \in {"E", "F", "G", "H"} : Defects(s) \cap {"fixed", "amnesiac"} = {}
      BY DefectsAre
    <3>4. Defects("D") \cap {"fixed", "amnesiac"} = {}
      BY DefectsAre
    <3>5. \A s \in StressBodies : Defects(s) \cap {"fixed", "amnesiac"} = {}
      BY DefectsAre DEF StressBodies
    <3>6. QED
      BY Zenon, <3>1, <3>2, <3>3, <3>4, <3>5, AllScenarioNames
  <2>3. QED
    BY <2>1, <2>2 DEF AllKinds
<1>2. QED
  BY <1>1, HastyBarred, StuckEvidence, ConstantBarred, UnconditionalBarred, ForgetfulBarred,
     TwinBarred

LEMMA BarrierNext ==
  ASSUME BaseInv, FaultsInv, StuckInv, RemovalInv, SlowInv, ReturnInv, HastyInv, ConstantInv,
         TwinInv, BarrierInv, [Next]_vars
  PROVE  BarrierInv'
<1> SUFFICES ASSUME main' = "run", verdict' \in {"running", "passed"}, Backed',
                    (kind \in Defects(scenario))'
             PROVE  at' <= Barrier(scenario', kind')
  BY DEF BarrierInv
<1>0. BaseInv' /\ lost \in Nat /\ at \in Nat
  BY BaseNext, BaseParts, TableTypes DEF FaultsInv
<1>1. lost' = lost \/ lost' = lost + 1
  BY RunSteps, MissesShow
  DEF Begins, Advances, Returns, Ticks, Applies, Breaks, Dies, scenarioVars, faultVars
<1>2. scenario' \in Scenarios /\ kind' \in Defects(scenario')
  <2>1. scenario' \in Scenarios
    BY <1>0 DEF BaseInv, EndsIInv, ShapeInv, BodyOK
  <2>2. QED
    BY <1>0, <1>1, <2>1, DefectsLater
<1>3. Barrier(scenario', kind') \in Nat \ {0}
  BY <1>2, BarrierWithin
<1>4. CASE Begins
  BY <1>3, <1>4 DEF Begins, Begin
<1>5. CASE main = "run" /\ Advances
  <2>1. /\ Running /\ kind' = kind /\ scenario' = scenario /\ at' = at + 1
    BY <1>5, BackedBefore DEF Advances, InBody, Running
  <2>2. kind \in Defects(scenario) /\ at <= Barrier(scenario, kind)
    BY <1>2, <1>5, <2>1 DEF BarrierInv, Running
  <2>3. at # Barrier(scenario, kind)
    BY <1>5, <2>1, <2>2, Barred
  <2>4. QED
    BY <1>0, <1>3, <2>1, <2>2, <2>3
<1>6. ASSUME main = "run", UNCHANGED <<kind, scenario, at, unstarted>>,
             verdict \in {"running", "passed"}
      PROVE  at' <= Barrier(scenario', kind')
  BY <1>2, <1>6, BackedBefore DEF BarrierInv
<1>7. CASE main = "run" /\ Returns
  BY <1>6, <1>7 DEF Returns
<1>8. CASE main = "run" /\ (Ticks \/ Applies \/ Breaks \/ Dies \/ UNCHANGED scenarioVars)
  <2>1. UNCHANGED <<kind, scenario, at, verdict, unstarted>>
    BY <1>8
    DEF Ticks, EnvoyTick, Applies, Apply, Breaks, Reconnect, Dies, scenarioVars, bodyVars,
        faultVars
  <2>2. QED
    BY <1>6, <1>8, <2>1
<1>9. QED
  BY <1>4, <1>5, <1>7, <1>8, RunSteps, MissesShow

-----------------------------------------------------------------------------
(* A scenario in which a backend was not started                           *)

\* Where a scenario waits for the health of h.
HealthyAt(s, h) == IF s = "D" THEN h + 3 ELSE h + 2

\* A script starts what it starts at first, and waits for the health of all
\* of it.
Waits(s, q) ==
  /\ Len(q) \in Nat
  /\ \A i \in 2..Len(q) : q[i].op # "start"
  /\ q[1].on \subseteq Hosts
  /\ \A h \in q[1].on :
       /\ HealthyAt(s, h) \in 2..Len(q) /\ HealthyAt(s, h) # 2
       /\ q[HealthyAt(s, h)].op = "wait" /\ q[HealthyAt(s, h)].condition = "healthy"
       /\ q[HealthyAt(s, h)].n = h /\ q[HealthyAt(s, h)].must

LEMMA WaitingScripts == \A s \in {"0", "A", "B", "C", "D", "E", "F", "H"} : Waits(s, Script(s))
<1>0. Two \subseteq Hosts
  BY SomeHosts DEF Two
<1>1. Waits("0", Scenario0)
  BY <1>0, InScenario0 DEF Waits, HealthyAt, Two, IsCall, IsAwait, IsSleep, IsStrictSample
<1>2. Waits("A", ScenarioA)
  BY <1>0, InScenarioA DEF Waits, HealthyAt, Two, IsCall, IsAwait, IsTry, IsSleep, IsSample
<1>3. Waits("B", ScenarioB)
  BY <1>0, InScenarioB DEF Waits, HealthyAt, Two, IsCall, IsAwait, IsTry, IsSample
<1>4. Waits("C", ScenarioC)
  BY <1>0, InScenarioC DEF Waits, HealthyAt, Two, IsCall, IsAwait, IsTry, IsSample
<1>5. Waits("D", ScenarioD)
  BY <1>0, InScenarioD DEF Waits, HealthyAt, Two, IsCall, IsAwait, IsMark, IsBound, IsConfig
<1>6. Waits("E", ScenarioE)
  <2> DEFINE q == ScenarioE
             N == NumHosts
  <2>1. /\ Len(q) = N + 4 /\ N \in Nat /\ Hosts = 1..N
        /\ q[1].on = Hosts /\ q[2].op = "add" /\ q[N + 3].op = "remove" /\ q[N + 4].op = "wait"
    BY InScenarioE, Fields, WaitFields, EnvoyAssumption DEF Hosts
  <2>2. \A i \in 3..N + 2 :
          q[i].op = "wait" /\ q[i].condition = "healthy" /\ q[i].n = i - 2 /\ q[i].must
    BY InScenarioE, MadePolls DEF IsAwait
  <2> HIDE DEF q, N
  <2>3. ASSUME NEW i \in 2..N + 4 PROVE q[i].op # "start"
    <3>1. i = 2 \/ i \in 3..N + 2 \/ i = N + 3 \/ i = N + 4
      BY <2>1
    <3>2. QED
      BY <2>1, <2>2, <3>1
  <2>4. ASSUME NEW h \in Hosts
        PROVE  /\ HealthyAt("E", h) = h + 2 /\ h + 2 \in 2..N + 4 /\ h + 2 # 2
               /\ q[h + 2].op = "wait" /\ q[h + 2].condition = "healthy"
               /\ q[h + 2].n = h /\ q[h + 2].must
    <3>1. h + 2 \in 3..N + 2 /\ (h + 2) - 2 = h
      BY <2>1
    <3>2. HealthyAt("E", h) = h + 2
      BY DEF HealthyAt
    <3>3. QED
      BY <2>1, <2>2, <3>1, <3>2
  <2>5. Waits("E", q)
    BY <2>1, <2>3, <2>4 DEF Waits
  <2>6. QED
    BY <2>5 DEF q
<1>7. Waits("F", ScenarioF)
  BY <1>0, InScenarioF DEF Waits, HealthyAt, Two, IsCall, IsAwait, IsTry
<1>8. Waits("H", ScenarioH)
  BY <1>0, InScenarioH DEF Waits, HealthyAt, Two, IsCall, IsAwait, IsSample
<1>9. QED
  BY Zenon, <1>1, <1>2, <1>3, <1>4, <1>5, <1>6, <1>7, <1>8, ScriptOf

\* A scenario that has not begun has not failed to start a backend.
UnstartedInv ==
  \A i \in 1..9 : AllIsolatedScenarios[i] \in unstarted =>
    i < index \/ (i = index /\ main \notin {"begin", "launch", "ready"})

LEMMA NamesInjective ==
  \A i, j \in 1..9 : AllIsolatedScenarios[i] = AllIsolatedScenarios[j] => i = j
<1> DEFINE q == AllIsolatedScenarios
<1>1. /\ q[1] = "0" /\ q[2] = "A" /\ q[3] = "B" /\ q[4] = "C" /\ q[5] = "D"
      /\ q[6] = "E" /\ q[7] = "F" /\ q[8] = "G" /\ q[9] = "H"
  BY DEF AllIsolatedScenarios
<1> HIDE DEF q
<1>2. \A i, j \in 1..9 : q[i] = q[j] => i = j
  BY <1>1
<1>3. QED
  BY <1>2 DEF q

\* Only StopServer goes on to another scenario.
LEMMA IndexKept ==
  ASSUME [Next]_vars, main' # "begin"
  PROVE  index' = index
BY DEF Next, MainStep, StartServer, UnknownProfile, StartEnvoy, EnvoyIsReady, EnvoyIsNotReady,
       NextBody, Finish, StopEnvoy, StopServer, Exit, EndProcess, SetupFails, EnvoyStep,
       EnvoyBecomesReady, OrphanBecomesReady, EnvoyCrashes, StreamBreaks, CallHangs, Passage,
       Exited, processVars, vars

\* Only a Start that fails adds to the scenarios without a backend.
LEMMA UnstartedKept ==
  ASSUME [Next]_vars
  PROVE  \/ unstarted' = unstarted
         \/ /\ main = "run" /\ main' = "run" /\ index' = index
            /\ unstarted' = unstarted \cup {scenario}
<1>1. CASE main = "run" /\ BodyStep /\ UNCHANGED <<processVars, reportVars>>
  <2>1. unstarted' = unstarted \/ unstarted' = unstarted \cup {scenario}
    BY <1>1 DEF BodyStep, Call, StartFails, PollSucceeds, TimeIsUp, CompareElapsed, TakeSample,
                SampleFails, Pass, faultVars
  <2>2. QED
    BY <1>1, <2>1 DEF processVars
<1>2. CASE MainStep /\ ~(main = "run" /\ BodyStep /\ UNCHANGED <<processVars, reportVars>>)
  BY <1>2 DEF MainStep, StartServer, UnknownProfile, StartEnvoy, EnvoyIsReady, EnvoyIsNotReady,
              NextBody, Finish, StopEnvoy, StopServer, Exit, EndProcess, scenarioVars, faultVars
<1>3. CASE SetupFails \/ EnvoyStep \/ EnvoyCrashes \/ StreamBreaks \/ CallHangs \/ Passage
           \/ Exited \/ UNCHANGED vars
  BY <1>3 DEF SetupFails, EndProcess, EnvoyStep, EnvoyBecomesReady, OrphanBecomesReady,
              EnvoyApplies, EnvoyCrashes, StreamBreaks, CallHangs, Passage, Tick, Exited, vars,
              scenarioVars, faultVars
<1>4. QED
  BY <1>1, <1>2, <1>3 DEF Next

LEMMA UnstartedNext ==
  ASSUME BaseInv, UnstartedInv, [Next]_vars
  PROVE  UnstartedInv'
<1> SUFFICES ASSUME NEW i \in 1..9, AllIsolatedScenarios[i] \in unstarted'
             PROVE  i < index' \/ (i = index' /\ main' \notin {"begin", "launch", "ready"})
  BY DEF UnstartedInv
<1>0. ShapeInv /\ CurrentInv /\ index \in 1..10 /\ NumIsolated = 9
  BY BaseParts, HowManyIsolated DEF ShapeInv, ProcessOK
<1>1. CASE AllIsolatedScenarios[i] \notin unstarted
  <2>1. main = "run" /\ main' = "run" /\ index' = index /\ AllIsolatedScenarios[i] = scenario
    BY <1>1, UnstartedKept
  <2>2. scenario \notin StressBodies
    BY <2>1, IsolatedNames, NamesDiffer
  <2>3. index \in 1..9 /\ scenario = AllIsolatedScenarios[index]
    BY <1>0, <2>1, <2>2 DEF CurrentInv, InStress
  <2>4. i = index
    BY <2>1, <2>3, NamesInjective
  <2>5. QED
    BY <2>1, <2>4
<1>2. CASE AllIsolatedScenarios[i] \in unstarted
  <2>1. i < index \/ (i = index /\ main \notin {"begin", "launch", "ready"})
    BY <1>2 DEF UnstartedInv
  <2>2. CASE main' = "begin"
    <3>1. index' = index + 1 \/ (main = "begin" /\ index' = index)
      BY <2>2 DEF Next, MainStep, StartServer, UnknownProfile, StartEnvoy, EnvoyIsReady,
                  EnvoyIsNotReady, NextBody, Finish, StopEnvoy, StopServer, Exit, EndProcess,
                  SetupFails, EnvoyStep, EnvoyBecomesReady, OrphanBecomesReady, EnvoyCrashes,
                  StreamBreaks, CallHangs, Passage, Exited, processVars, vars
    <3>2. QED
      BY <1>0, <2>1, <3>1
  <2>3. CASE main' \in {"launch", "ready"}
    <3>1. main \in {"begin", "launch", "ready"}
      BY <2>3 DEF Next, MainStep, StartServer, UnknownProfile, StartEnvoy, EnvoyIsReady,
                  EnvoyIsNotReady, NextBody, Finish, StopEnvoy, StopServer, Exit, EndProcess,
                  SetupFails, EnvoyStep, EnvoyBecomesReady, OrphanBecomesReady, EnvoyCrashes,
                  StreamBreaks, CallHangs, Passage, Exited, processVars, vars
    <3>2. QED
      BY <2>1, <2>3, <3>1, IndexKept
  <2>4. CASE main' \notin {"begin", "launch", "ready"}
    BY <2>1, <2>4, IndexKept
  <2>5. QED
    BY <2>2, <2>3, <2>4
<1>3. QED
  BY <1>1, <1>2

\* Such a scenario does not get past the health of a host that has no backend:
\* it has not passed, and never does.
Lacking(h) == h \notin backends /\ state[h] \in {"absent", "new"}

InLack ==
  /\ main = "run" /\ verdict \in {"running", "passed"}
  /\ scenario \in unstarted /\ scenario \notin StressBodies /\ scenario # "G"

LackInv == InLack =>
  /\ verdict = "running" /\ at > 1
  /\ \E h \in Script(scenario)[1].on : Lacking(h) /\ at <= HealthyAt(scenario, h)

LEMMA LackNext ==
  ASSUME BaseInv, UnstartedInv, LackInv, [Next]_vars
  PROVE  LackInv'
<1> DEFINE q == Script(scenario)
<1> SUFFICES ASSUME InLack'
             PROVE  /\ verdict' = "running" /\ at' > 1
                    /\ \E h \in q[1].on' : Lacking(h)' /\ at' <= HealthyAt(scenario', h)
  BY DEF LackInv
<1>0. /\ ShapeInv /\ HostsInv /\ CleanInv /\ CurrentInv /\ ConfigInv /\ BaseInv'
      /\ at \in Nat /\ index \in 1..10 /\ NumIsolated = 9
  BY BaseParts, BaseNext, TableTypes, HowManyIsolated DEF ShapeInv, ProcessOK
<1>1. ~Begins \/ ~(main = "ready" \/ (main = "run" /\ InStress))
  <2> SUFFICES ASSUME Begins, main = "ready" \/ (main = "run" /\ InStress) PROVE FALSE
    OBVIOUS
  <2>1. index' = index /\ unstarted' = unstarted
    BY IndexKept DEF InLack, Begins, faultVars
  <2>2. IF InStress' THEN scenario' \in StressBodies ELSE scenario' = AllIsolatedScenarios[index]
    BY <1>0, <2>1 DEF BaseInv, EndsIInv, CurrentInv, InLack
  <2>3. ~InStress' /\ main = "ready" /\ index \in 1..9
    BY <1>0, <2>1, <2>2 DEF InLack, InStress
  <2>4. QED
    BY <2>1, <2>2, <2>3 DEF InLack, UnstartedInv
<1>2. ASSUME scenario' = scenario
      PROVE  scenario \in {"0", "A", "B", "C", "D", "E", "F", "H"} /\ Waits(scenario, q)
  <2>1. scenario \in Scenarios
    BY <1>0, TableTypes
  <2>2. scenario \in {"0", "A", "B", "C", "D", "E", "F", "H"}
    BY <1>2, <2>1, AllScenarioNames DEF InLack
  <2>3. QED
    BY <2>2, WaitingScripts
<1>3. ASSUME main = "run", scenario' = scenario, unstarted' = unstarted,
             verdict \in {"running", "passed"}
      PROVE  /\ verdict = "running" /\ at > 1
             /\ \E h \in q[1].on : Lacking(h) /\ at <= HealthyAt(scenario, h)
  BY <1>3 DEF InLack, LackInv
<1>4. CASE main = "run" /\ Advances
  <2>1. /\ at \in 1..Len(q) /\ Len(q) \in Nat /\ at' = at + 1 /\ scenario' = scenario
        /\ backends' = IF q[at].op = "start" THEN backends \cup q[at].on
                       ELSE IF q[at].op = "stop" THEN backends \ q[at].on ELSE backends
        /\ state' = state /\ verdict' = "running" /\ verdict = "running"
        /\ unstarted' = unstarted /\ Instruction = q[at]
    BY <1>4, AdvanceIs DEF Advances, InBody, InLack
  <2>2. Waits(scenario, q) /\ at > 1
    BY <1>2, <1>3, <1>4, <2>1
  <2>3. PICK h \in q[1].on : Lacking(h) /\ at <= HealthyAt(scenario, h)
    BY <1>3, <1>4, <2>1
  <2>4. h \notin backends'
    BY <2>1, <2>2, <2>3 DEF Waits, Lacking
  <2>5. at # HealthyAt(scenario, h)
    <3> SUFFICES ASSUME at = HealthyAt(scenario, h) PROVE FALSE
      OBVIOUS
    <3>1. q[at].op = "wait" /\ q[at].condition = "healthy" /\ q[at].n = h /\ q[at].must
      BY <2>2, <2>3 DEF Waits
    <3>2. Seen
      BY <1>4, <3>1, AdvanceBy
    <3>3. Sees("healthy", h)
      BY <1>0, <2>1, <3>1, <3>2, SeenSees DEF Conditions
    <3>4. QED
      BY <2>3, <3>3, SeesWhat DEF Lacking, IsHealthyHost
  <2>6. HealthyAt(scenario, h) \in Nat
    BY <2>1, <2>2 DEF Waits
  <2>7. QED
    BY <2>1, <2>2, <2>3, <2>4, <2>5, <2>6 DEF Lacking
<1>5. CASE main = "run" /\ Returns
  <2>1. /\ verdict = "running" /\ scenario' = scenario /\ unstarted' = unstarted
        /\ verdict' = "passed" /\ at = Len(q) + 1
    BY <1>5 DEF Returns, Fails, InLack
  <2>2. PICK h \in q[1].on : at <= HealthyAt(scenario, h)
    BY <1>3, <1>5, <2>1
  <2>3. HealthyAt(scenario, h) \in 2..Len(q) /\ Len(q) \in Nat
    BY <1>2, <2>1, <2>2 DEF Waits
  <2>4. QED
    BY <2>1, <2>2, <2>3
<1>6. CASE main = "run" /\ Misses
  <2>1. /\ Is({"start"}) /\ scenario' = scenario /\ at' = at + 1 /\ verdict' = verdict
        /\ verdict = "running" /\ state' = state
    BY <1>6 DEF Misses, StartFails, Is, InBody, envoyVars
  <2>2. Waits(scenario, q) /\ scenario \notin StressBodies
    BY <1>2, <2>1 DEF InLack
  <2>3. at = 1 /\ Instruction = q[1]
    <3>1. q[at].op = "start" /\ at <= Len(q) /\ at \in Nat \ {0}
      BY <1>0, <2>1, TableTypes DEF Is, InBody, Instruction
    <3>2. at = 1
      BY <2>2, <3>1 DEF Waits
    <3>3. QED
      BY <3>2 DEF Instruction
  <2>4. backends = {} /\ Listed = {}
    <3>1. ~InStress
      BY <1>0, <1>6, <2>2 DEF CurrentInv
    <3>2. QED
      BY <1>0, <1>6, <2>3, <3>1 DEF CleanInv
  <2>5. PICK missing \in (SUBSET q[1].on) \ {{}} : backends' = backends \cup (q[1].on \ missing)
    BY <1>6, <2>3 DEF Misses, StartFails
  <2>6. PICK h \in missing : h \in q[1].on
    BY <2>5
  <2>7. h \notin backends' /\ state'[h] = "absent"
    BY <2>1, <2>2, <2>4, <2>5, <2>6 DEF Waits, Listed
  <2>8. HealthyAt(scenario, h) \in Nat /\ 2 <= HealthyAt(scenario, h)
    BY <2>2, <2>6 DEF Waits
  <2>9. QED
    BY <2>1, <2>3, <2>6, <2>7, <2>8 DEF Lacking
<1>7. CASE main = "run" /\ (Ticks \/ Applies \/ Breaks \/ Dies \/ UNCHANGED scenarioVars)
  <2>1. UNCHANGED <<scenario, at, verdict, backends, unstarted>>
    BY <1>7
    DEF Ticks, EnvoyTick, Applies, Apply, Breaks, Reconnect, Dies, scenarioVars, bodyVars,
        faultVars
  <2>2. /\ verdict = "running" /\ at > 1 /\ Waits(scenario, q)
        /\ scenario # "G"
    BY <1>2, <1>3, <1>7, <2>1 DEF InLack
  <2>3. PICK h \in q[1].on : Lacking(h) /\ at <= HealthyAt(scenario, h)
    BY <1>3, <1>7, <2>1 DEF InLack
  <2>4. h \in Hosts /\ h \notin backends /\ state[h] \in {"absent", "new"}
    BY <2>2, <2>3 DEF Waits, Lacking
  <2>5. state'[h] \in {"absent", "new"}
    <3>1. CASE Ticks /\ answering
      <4>1. EnvoyTick
        BY <3>1 DEF Ticks
      <4>2. Checked(h) \in {"absent", "new"} /\ ~TimerFires(h)
        BY <2>4 DEF Checked, TimerFires, HasTimer
      <4>3. QED
        BY <1>0, <2>4, <4>1, <4>2, TickHost
    <3>2. CASE Ticks /\ ~answering
      BY <2>4, <3>2 DEF Ticks, envoyVars
    <3>3. CASE Applies
      <4>1. pushed.healthChecks
        BY <1>0, <1>7, <2>2 DEF ConfigInv, ChecksOf
      <4>2. QED
        BY <1>0, <2>4, <3>3, <4>1, ApplyHost DEF Applies, Removed, Named
    <3>4. CASE Breaks
      BY <2>4, <3>4 DEF Breaks, Reconnect
    <3>5. CASE Dies
      BY <2>4, <3>5 DEF Dies, EmptyTable
    <3>6. CASE UNCHANGED scenarioVars
      BY <2>4, <3>6 DEF scenarioVars, envoyVars
    <3>7. QED
      BY <1>7, <3>1, <3>2, <3>3, <3>4, <3>5, <3>6
  <2>6. QED
    BY <2>1, <2>2, <2>3, <2>4, <2>5 DEF Lacking
<1>8. QED
  BY <1>1, <1>4, <1>5, <1>6, <1>7, RunSteps DEF InLack

-----------------------------------------------------------------------------
(* The verdicts                                                            *)

\* What the body has done to its hosts, and what Envoy shows of it.
BodyInv ==
  /\ FaultsInv /\ CallsInv /\ QuietInv /\ UpInv /\ StuckInv /\ RemovalInv
  /\ LateInv /\ SlowInv /\ PromptInv /\ ReturnInv

\* What every defect comes to.
DefectInv == HastyInv /\ ConstantInv /\ TwinInv

VerdictInv ==
  BaseInv /\ BodyInv /\ DefectInv /\ SettledInv /\ BarrierInv /\ UnstartedInv /\ LackInv

LEMMA VerdictInitially == Init => VerdictInv
<1> SUFFICES ASSUME Init PROVE VerdictInv
  OBVIOUS
<1>1. ~Running /\ main # "run"
  BY DEF Init, Running
<1>2. FaultsInv
  BY FaultsAssumption DEF Init, FaultsInv
<1>3. BodyInv
  BY <1>1, <1>2
  DEF BodyInv, CallsInv, QuietInv, UpInv, StuckInv, RemovalInv, LateInv, SlowInv, PromptInv,
      ReturnInv
<1>4. DefectInv /\ SettledInv /\ BarrierInv /\ UnstartedInv /\ LackInv
  BY <1>1 DEF DefectInv, HastyInv, ConstantInv, TwinInv, SettledInv, BarrierInv, UnstartedInv,
              LackInv, InLack, Init
<1>5. QED
  BY <1>3, <1>4, BaseInitially DEF VerdictInv

LEMMA VerdictNext == VerdictInv /\ [Next]_vars => VerdictInv'
<1> SUFFICES ASSUME VerdictInv, [Next]_vars PROVE VerdictInv'
  OBVIOUS
<1>1. /\ BaseInv /\ FaultsInv /\ CallsInv /\ QuietInv /\ UpInv /\ StuckInv /\ RemovalInv
      /\ LateInv /\ SlowInv /\ PromptInv /\ ReturnInv /\ HastyInv /\ ConstantInv /\ TwinInv
      /\ SettledInv /\ BarrierInv /\ UnstartedInv /\ LackInv
  BY DEF VerdictInv, BodyInv, DefectInv
<1>2. NotReadded
  BY <1>1, NoneReadded
<1>3. BaseInv' /\ FaultsInv' /\ CallsInv' /\ QuietInv'
  BY <1>1, BaseNext, FaultsNext, CallsNext, QuietNext
<1>4. UpInv' /\ StuckInv' /\ RemovalInv'
  BY <1>1, <1>2, UpNext, StuckNext, RemovalNext
<1>5. LateInv' /\ SlowInv' /\ PromptInv' /\ ReturnInv'
  BY <1>1, LateNext, SlowNext, PromptNext, ReturnNext
<1>6. HastyInv' /\ ConstantInv' /\ TwinInv'
  BY <1>1, HastyNext, ConstantNext, TwinNext
<1>7. SettledInv' /\ BarrierInv' /\ UnstartedInv' /\ LackInv'
  BY <1>1, SettledNext, BarrierNext, UnstartedNext, LackNext
<1>8. QED
  BY <1>3, <1>4, <1>5, <1>6, <1>7 DEF VerdictInv, BodyInv, DefectInv

\* No body passes with an Envoy of a kind it is there to expose: there is an
\* instruction that it does not get past, however late a push is applied,
\* whichever calls fail and whenever Envoy goes or its stream breaks.
LEMMA VerdictIsEarned ==
  ASSUME VerdictInv, ~InStress \/ StressBodies \cap unstarted = {}
  PROVE  PassesAreEarned
<1> SUFFICES ASSUME verdict = "passed", kind \in Exposes(scenario)
             PROVE  FALSE
  BY DEF PassesAreEarned
<1>1. BaseInv /\ BarrierInv /\ LackInv
  BY DEF VerdictInv
<1>2. /\ main = "run" /\ scenario \in Scenarios /\ at = Len(Script(scenario)) + 1
      /\ Len(Script(scenario)) \in Nat /\ (InStress <=> scenario \in StressBodies)
  BY <1>1, BaseParts, TableTypes, StressIs DEF CurrentInv, EndsInv
<1>3. kind \in Defects(scenario)
  BY Zenon DEF Exposes
<1>4. Backed
  BY <1>1, <1>2 DEF LackInv, InLack, Backed
<1>5. at <= Barrier(scenario, kind)
  BY <1>1, <1>2, <1>3, <1>4 DEF BarrierInv
<1>6. Barrier(scenario, kind) \in Nat /\ Barrier(scenario, kind) <= Len(Script(scenario))
  BY <1>2, <1>3, BarrierWithin
<1>7. QED
  BY <1>2, <1>5, <1>6

\* A pass is evidence, for every number of hosts, faults and bodies, every
\* profile and every delay of Envoy within the bounds, also where Starts fail;
\* of the stress test it is shown while none of its bodies has missed a backend
\* (scenarios.go:28-451, stress.go:173-337).
THEOREM PassesEarned ==
  Spec => [](~InStress \/ StressBodies \cap unstarted = {} => PassesAreEarned)
<1>1. VerdictInv => (~InStress \/ StressBodies \cap unstarted = {} => PassesAreEarned)
  BY VerdictIsEarned
<1>2. QED
  BY <1>1, VerdictInitially, VerdictNext, PTL DEF Spec

\* The exit status is 0 only for an Envoy with the feature (main.go:221-223).
THEOREM ExitMeansFixed == Spec => []ExitOkMeansFixed
<1>1. (~InStress \/ StressBodies \cap unstarted = {} => PassesAreEarned)
        => (~InStress => PassesAreEarned)
  OBVIOUS
<1>2. QED
  BY <1>1, PassesEarned, ExitFollowsVerdicts, PTL

\* A stress body never finds a host pending from one before it on its ports,
\* though the last wait of a body is not looked at (stress.go:300-301,
\* 331-332), while no body has missed a backend.
THEOREM BodiesSettled == Spec => [](StressBodies \cap unstarted = {} => BodiesStartSettled)
<1>1. ASSUME VerdictInv, StressBodies \cap unstarted = {}
      PROVE  BodiesStartSettled
  <2>1. SUFFICES ASSUME main = "run", InStress, at = 1, kind = "fixed", NEW h \in Hosts
                 PROVE  state[h] # "pending"
    BY DEF BodiesStartSettled
  <2>2. BaseInv /\ SettledInv /\ scenario \in StressBodies
    BY <1>1, <2>1, StressIs DEF VerdictInv
  <2>3. WindowAt(scenario, Script(scenario), 1, h)
    BY <2>2, WindowIs
  <2>4. ~InWindow(scenario, 1, h)
    BY <2>3 DEF WindowAt
  <2>5. Backed
    BY <1>1, <2>2 DEF Backed
  <2>6. Quiet(h)
    BY <2>1, <2>2, <2>4, <2>5 DEF SettledInv, Settling, Running
  <2>7. QED
    BY <2>6 DEF Quiet
<1>2. QED
  BY <1>1, VerdictInitially, VerdictNext, PTL DEF Spec

=============================================================================
