---------------------------- MODULE BenchProofs ----------------------------
(***************************************************************************)
(* Proofs about the benchmark, for every number of load workers, every     *)
(* command line and every duration: what the load records, when the swap   *)
(* falls into the load, what has ended when the result is written, and     *)
(* what is left running.                                                   *)
(***************************************************************************)
EXTENDS Bench, FiniteSetTheorems, TLAPS

-----------------------------------------------------------------------------
(* The load generator on its own: for every number of workers and of ticks *)
(* the channel, the requests and the records together hold every token that *)
(* was sent, and Run returns a record for each                              *)

WorkerStages == {"receive", "request", "done"}

LoadTypes ==
  /\ cancelled \in BOOLEAN /\ tick \in BOOLEAN /\ closed \in BOOLEAN
  /\ ticks \in 0..MaxTicks /\ skipped \in 0..MaxTicks
  /\ loop \in {"select", "waiting", "returned"}
  /\ work \in 0..Capacity
  /\ pc \in [Workers -> WorkerStages]
  /\ records \in [Workers -> [Statuses -> Nat]]
  /\ merged \in [Statuses -> Nat]
  /\ \A status \in Statuses : IsFiniteSet(Entries(status))

\* A worker leaves only a channel that is closed and empty; nothing is sent
\* on it afterwards, so that what Merge finds is the end of it.
DrainInv ==
  /\ closed <=> loop # "select"
  /\ \A w \in Workers : pc[w] = "done" => closed /\ work = 0
  /\ loop = "select" \/ loop = "waiting" => merged = NoRecords
  /\ loop = "returned" => merged = Collected /\ \A w \in Workers : pc[w] = "done"

LInv == LoadTypes /\ TokensConserved /\ DrainInv

-----------------------------------------------------------------------------
(* Counting *)

LEMMA CapacityNat == Capacity \in Nat /\ Capacity > 0
<1>1. Cardinality(Workers) \in Nat
  BY WorkersAssumption, FS_CardinalityType
<1>2. Cardinality(Workers) # 0
  BY WorkersAssumption, FS_EmptySet
<1>3. QED
  BY <1>1, <1>2 DEF Capacity

LEMMA StatusValues == 200 \in Statuses /\ 0 \in Statuses /\ \A s \in Statuses : s = 200 \/ s = 0
BY DEF Statuses

\* The sums of the invariant are sums of natural numbers.
LEMMA SumTypes ==
  ASSUME LoadTypes
  PROVE  /\ IsFiniteSet(Requesting) /\ Cardinality(Requesting) \in Nat
         /\ Collected \in [Statuses -> Nat]
         /\ Collected[200] \in Nat /\ Collected[0] \in Nat
         /\ Size(Collected) = Collected[200] + Collected[0]
         /\ Sent \in Int
<1>1. IsFiniteSet(Requesting)
  BY WorkersAssumption, FS_Subset DEF Requesting
<1>2. Cardinality(Requesting) \in Nat
  BY <1>1, FS_CardinalityType
<1>3. \A status \in Statuses : Cardinality(Entries(status)) \in Nat
  BY FS_CardinalityType DEF LoadTypes
<1>4. Collected \in [Statuses -> Nat]
  BY <1>3 DEF Collected
<1>5. Sent \in Int
  BY BoundsAssumption DEF Sent, LoadTypes
<1>6. QED
  BY <1>1, <1>2, <1>4, <1>5, StatusValues DEF Size

LEMMA IntervalSize ==
  ASSUME NEW n \in Nat
  PROVE  IsFiniteSet(1..n) /\ Cardinality(1..n) = n
<1>1. 1 \in Int /\ n \in Int
  OBVIOUS
<1>2. IsFiniteSet(1..n) /\ Cardinality(1..n) = IF 1 > n THEN 0 ELSE n - 1 + 1
  BY <1>1, FS_Interval
<1>3. (IF 1 > n THEN 0 ELSE n - 1 + 1) = n
  OBVIOUS
<1>4. QED
  BY <1>2, <1>3

\* What a worker has recorded is part of what is collected.
LEMMA RecordsCounted ==
  ASSUME LoadTypes, NEW w \in Workers, NEW status \in Statuses
  PROVE  records[w][status] <= Collected[status]
<1> DEFINE r == records[w][status]
           mine == {w} \X (1..r)
<1>1. r \in Nat
  BY DEF LoadTypes
<1>2. IsFiniteSet(1..r) /\ Cardinality(1..r) = r
  BY <1>1, IntervalSize
<1>3. IsFiniteSet({w}) /\ Cardinality({w}) = 1
  BY FS_Singleton
<1>4. IsFiniteSet(mine) /\ Cardinality(mine) = 1 * r
  BY <1>2, <1>3, FS_Product
<1>5. mine \in SUBSET Entries(status)
  BY DEF Entries
<1>6. Cardinality(mine) <= Cardinality(Entries(status))
  BY <1>5, FS_Subset DEF LoadTypes
<1>7. QED
  BY <1>1, <1>4, <1>6 DEF Collected

\* A token taken by a worker, or put down by it, is one request more or less.
LEMMA RequestsChange ==
  ASSUME LoadTypes, NEW w \in Workers, NEW stage \in WorkerStages,
         pc' = [pc EXCEPT ![w] = stage]
  PROVE  /\ stage = "request" /\ pc[w] # "request" =>
              Cardinality(Requesting') = Cardinality(Requesting) + 1
         /\ stage # "request" /\ pc[w] = "request" =>
              Cardinality(Requesting') = Cardinality(Requesting) - 1
         /\ stage # "request" /\ pc[w] # "request" => Requesting' = Requesting
<1>1. IsFiniteSet(Requesting)
  BY SumTypes
<1>2. ASSUME stage = "request", pc[w] # "request"
      PROVE  Cardinality(Requesting') = Cardinality(Requesting) + 1
  <2>1. Requesting' = Requesting \cup {w} /\ w \notin Requesting
    BY <1>2 DEF Requesting, LoadTypes
  <2>2. QED
    BY <1>1, <2>1, FS_AddElement
<1>3. ASSUME stage # "request", pc[w] = "request"
      PROVE  Cardinality(Requesting') = Cardinality(Requesting) - 1
  <2>1. Requesting' = Requesting \ {w} /\ w \in Requesting
    BY <1>3 DEF Requesting, LoadTypes
  <2>2. QED
    BY <1>1, <2>1, FS_RemoveElement
<1>4. stage # "request" /\ pc[w] # "request" => Requesting' = Requesting
  BY DEF Requesting, LoadTypes
<1>5. QED
  BY <1>2, <1>3, <1>4

\* A record appended to a worker's slice is one entry more, under its status.
LEMMA EntriesGrow ==
  ASSUME LoadTypes, NEW w \in Workers, NEW status \in Statuses,
         records' = [records EXCEPT ![w][status] = @ + 1]
  PROVE  /\ \A s \in Statuses : IsFiniteSet(Entries(s)')
         /\ Collected' = [Collected EXCEPT ![status] = @ + 1]
<1> DEFINE r == records[w][status]
<1>1. r \in Nat
  BY DEF LoadTypes
<1>2. Entries(status)' = Entries(status) \cup {<<w, r + 1>>}
  <2>1. \A v \in Workers : records'[v][status] = IF v = w THEN r + 1 ELSE records[v][status]
    BY DEF LoadTypes
  <2>2. 1..(r + 1) = (1..r) \cup {r + 1}
    BY <1>1
  <2>3. \A v \in Workers :
          {v} \X (1..records'[v][status]) =
            IF v = w THEN ({v} \X (1..records[v][status])) \cup {<<w, r + 1>>}
                     ELSE {v} \X (1..records[v][status])
    BY <2>1, <2>2
  <2>4. QED
    BY <2>3 DEF Entries
<1>3. <<w, r + 1>> \notin Entries(status)
  BY <1>1 DEF Entries
<1>4. IsFiniteSet(Entries(status))
  BY DEF LoadTypes
<1>5. /\ IsFiniteSet(Entries(status)')
      /\ Cardinality(Entries(status)') = Cardinality(Entries(status)) + 1
  BY <1>2, <1>3, <1>4, FS_AddElement
<1>6. \A s \in Statuses \ {status} : Entries(s)' = Entries(s)
  <2>1. \A s \in Statuses \ {status} : \A v \in Workers : records'[v][s] = records[v][s]
    BY DEF LoadTypes
  <2>2. QED
    BY <2>1 DEF Entries
<1>7. \A s \in Statuses : IsFiniteSet(Entries(s)')
  BY <1>5, <1>6 DEF LoadTypes
<1>8. Collected' = [Collected EXCEPT ![status] = @ + 1]
  BY <1>5, <1>6 DEF Collected
<1>9. QED
  BY <1>7, <1>8

-----------------------------------------------------------------------------
(* The steps *)

LEMMA InitLInv == Init => LInv
<1> SUFFICES ASSUME Init PROVE LInv
  OBVIOUS
<1>1. \A status \in Statuses : Entries(status) = {}
  <2>1. \A status \in Statuses, w \in Workers : 1..records[w][status] = {}
    BY DEF Init, NoRecords
  <2>2. QED
    BY <2>1 DEF Entries
<1>2. \A status \in Statuses : IsFiniteSet(Entries(status)) /\ Cardinality(Entries(status)) = 0
  BY <1>1, FS_EmptySet
<1>3. LoadTypes
  <2>1. NoRecords \in [Statuses -> Nat]
    BY DEF NoRecords
  <2>2. records \in [Workers -> [Statuses -> Nat]] /\ merged \in [Statuses -> Nat]
    BY <2>1 DEF Init
  <2>3. pc \in [Workers -> WorkerStages]
    BY DEF Init, WorkerStages
  <2>4. work \in 0..Capacity /\ ticks \in 0..MaxTicks /\ skipped \in 0..MaxTicks
    BY CapacityNat, BoundsAssumption DEF Init
  <2>5. QED
    BY <1>2, <2>2, <2>3, <2>4 DEF Init, LoadTypes
<1>4. Requesting = {}
  BY DEF Init, Requesting
<1>5. TokensConserved
  BY <1>2, <1>4, FS_EmptySet, StatusValues DEF Init, TokensConserved, Sent, Size, Collected
<1>6. DrainInv
  BY DEF Init, DrainInv
<1>7. QED
  BY <1>3, <1>5, <1>6 DEF LInv

\* A step that leaves the workers and their records alone.
LEMMA WorkersAlone ==
  ASSUME UNCHANGED workerVars
  PROVE  /\ Requesting' = Requesting /\ Collected' = Collected
         /\ \A status \in Statuses : Entries(status)' = Entries(status)
BY DEF workerVars, Requesting, Collected, Entries

LEMMA LoopLInv == LInv /\ (Tick \/ Cancel \/ TakeTick \/ TakeDone \/ Merge) => LInv'
<1> SUFFICES ASSUME LInv, Tick \/ Cancel \/ TakeTick \/ TakeDone \/ Merge PROVE LInv'
  OBVIOUS
<1>1. UNCHANGED workerVars
  BY DEF Tick, Cancel, TakeTick, TakeDone, Merge
<1>2. /\ Requesting' = Requesting /\ Collected' = Collected
      /\ \A status \in Statuses : Entries(status)' = Entries(status)
  BY <1>1, WorkersAlone
<1>3. LoadTypes /\ TokensConserved /\ DrainInv
  BY DEF LInv
<1>4. Collected \in [Statuses -> Nat] /\ Size(Collected) \in Nat /\ Cardinality(Requesting) \in Nat
  BY <1>3, SumTypes
<1>5. Size(Collected)' = Size(Collected)
  BY <1>2 DEF Size
<1>6. CASE Tick \/ Cancel
  <2>1. UNCHANGED <<ticks, loop, work, closed, pc, records, merged, skipped>>
    BY <1>1, <1>6 DEF Tick, Cancel, workerVars
  <2>2. LoadTypes'
    BY <1>2, <1>3, <1>6, <2>1 DEF LoadTypes, Tick, Cancel
  <2>3. TokensConserved'
    BY <1>2, <1>3, <1>5, <2>1 DEF TokensConserved, Sent
  <2>4. DrainInv'
    BY <1>2, <1>3, <2>1 DEF DrainInv
  <2>5. QED
    BY <2>2, <2>3, <2>4 DEF LInv
<1>7. CASE TakeTick
  <2>1. loop = "select" /\ UNCHANGED <<cancelled, loop, closed, pc, records, merged>>
    BY <1>1, <1>7 DEF TakeTick, workerVars
  <2>2. \/ work' = work + 1 /\ skipped' = skipped /\ work < Capacity
        \/ work' = work /\ skipped' = skipped + 1
    BY <1>7 DEF TakeTick
  <2>3. ticks' = ticks + 1 /\ ticks' \in 0..MaxTicks /\ tick' = FALSE
    BY <1>3, <1>7, BoundsAssumption DEF TakeTick, LoadTypes
  <2>4. ticks \in Int /\ skipped \in Nat /\ work \in Nat
    BY <1>3, BoundsAssumption, CapacityNat DEF LoadTypes
  <2>5. TokensConserved'
    BY <1>2, <1>3, <1>4, <1>5, <2>2, <2>3, <2>4 DEF TokensConserved, Sent
  <2>6. work' \in 0..Capacity
    BY <1>3, <2>2, CapacityNat DEF LoadTypes
  <2>7. ticks' - skipped' >= 0
    BY <1>2, <1>4, <1>5, <2>5, <2>6, CapacityNat DEF TokensConserved, Sent
  <2>8. skipped' \in 0..MaxTicks
    BY <2>2, <2>3, <2>4, <2>7, BoundsAssumption
  <2>9. LoadTypes'
    BY <1>2, <1>3, <2>1, <2>3, <2>6, <2>8 DEF LoadTypes
  <2>10. DrainInv'
    BY <1>2, <1>3, <2>1 DEF DrainInv
  <2>11. QED
    BY <2>5, <2>9, <2>10 DEF LInv
<1>8. CASE TakeDone
  <2>1. /\ loop = "select" /\ loop' = "waiting" /\ closed' = TRUE
        /\ UNCHANGED <<cancelled, tick, ticks, work, pc, records, merged, skipped>>
    BY <1>1, <1>8 DEF TakeDone, workerVars
  <2>2. LoadTypes'
    BY <1>2, <1>3, <2>1 DEF LoadTypes
  <2>3. TokensConserved'
    BY <1>2, <1>3, <1>5, <2>1 DEF TokensConserved, Sent
  <2>4. DrainInv'
    BY <1>3, <2>1 DEF DrainInv
  <2>5. QED
    BY <2>2, <2>3, <2>4 DEF LInv
<1>9. CASE Merge
  <2>1. /\ loop = "waiting" /\ loop' = "returned" /\ merged' = Collected
        /\ \A w \in Workers : pc[w] = "done"
        /\ UNCHANGED <<cancelled, tick, ticks, work, closed, pc, records, skipped>>
    BY <1>1, <1>9 DEF Merge, workerVars
  <2>2. LoadTypes'
    BY <1>2, <1>3, <1>4, <2>1 DEF LoadTypes
  <2>3. TokensConserved'
    BY <1>2, <1>3, <1>5, <2>1 DEF TokensConserved, Sent
  <2>4. DrainInv'
    BY <1>2, <1>3, <2>1 DEF DrainInv
  <2>5. QED
    BY <2>2, <2>3, <2>4 DEF LInv
<1>10. QED
  BY <1>6, <1>7, <1>8, <1>9

LEMMA WorkerLInv == ASSUME NEW w \in Workers PROVE LInv /\ WorkerStep(w) => LInv'
<1> SUFFICES ASSUME LInv, WorkerStep(w) PROVE LInv'
  OBVIOUS
<1>1. LoadTypes /\ TokensConserved /\ DrainInv
  BY DEF LInv
<1>2. UNCHANGED <<cancelled, tick, ticks, loop, closed, merged, skipped>>
  BY DEF WorkerStep, Receive, Respond, Leave
<1>3. /\ Cardinality(Requesting) \in Nat /\ Collected \in [Statuses -> Nat]
      /\ Size(Collected) \in Nat /\ Sent \in Int /\ Sent' = Sent
  BY <1>1, <1>2, SumTypes DEF Sent
<1>4. ticks \in Nat /\ skipped \in Nat /\ work \in Nat
  BY <1>1, BoundsAssumption, CapacityNat DEF LoadTypes
<1>5. pc[w] # "done" => loop # "returned" /\ merged = NoRecords
  BY <1>1 DEF DrainInv, LoadTypes
<1>6. ASSUME UNCHANGED records
      PROVE  /\ Collected' = Collected /\ Size(Collected)' = Size(Collected)
             /\ \A status \in Statuses : Entries(status)' = Entries(status)
  BY <1>6 DEF Collected, Entries, Size
<1>7. CASE Receive(w)
  <2>1. /\ pc[w] = "receive" /\ work > 0 /\ work' = work - 1
        /\ pc' = [pc EXCEPT ![w] = "request"] /\ UNCHANGED records
    BY <1>7 DEF Receive
  <2>2. Cardinality(Requesting') = Cardinality(Requesting) + 1
    BY <1>1, <2>1, RequestsChange DEF WorkerStages
  <2>3. LoadTypes'
    <3>1. work' \in 0..Capacity
      BY <1>1, <2>1, CapacityNat DEF LoadTypes
    <3>2. pc' \in [Workers -> WorkerStages]
      BY <1>1, <2>1 DEF LoadTypes, WorkerStages
    <3>3. QED
      BY <1>1, <1>2, <1>6, <2>1, <3>1, <3>2 DEF LoadTypes
  <2>4. TokensConserved'
    BY <1>1, <1>3, <1>4, <1>6, <2>1, <2>2 DEF TokensConserved
  <2>5. DrainInv'
    BY <1>1, <1>2, <1>5, <2>1 DEF DrainInv, LoadTypes
  <2>6. QED
    BY <2>3, <2>4, <2>5 DEF LInv
<1>8. ASSUME NEW status \in Statuses, Respond(w, status)
      PROVE  LInv'
  <2>1. /\ pc[w] = "request" /\ pc' = [pc EXCEPT ![w] = "receive"] /\ UNCHANGED work
        /\ records' = [records EXCEPT ![w][status] = @ + 1]
    BY <1>8 DEF Respond
  <2>2. Cardinality(Requesting') = Cardinality(Requesting) - 1
    BY <1>1, <2>1, RequestsChange DEF WorkerStages
  <2>3. /\ \A s \in Statuses : IsFiniteSet(Entries(s)')
        /\ Collected' = [Collected EXCEPT ![status] = @ + 1]
    BY <1>1, <2>1, EntriesGrow
  <2>4. Size(Collected') = Size(Collected) + 1
    BY <1>3, <2>3, StatusValues DEF Size
  <2>5. LoadTypes'
    <3>1. pc' \in [Workers -> WorkerStages]
      BY <1>1, <2>1 DEF LoadTypes, WorkerStages
    <3>2. records' \in [Workers -> [Statuses -> Nat]]
      BY <1>1, <2>1 DEF LoadTypes
    <3>3. QED
      BY <1>1, <1>2, <2>1, <2>3, <3>1, <3>2 DEF LoadTypes
  <2>6. TokensConserved'
    BY <1>1, <1>3, <1>4, <2>1, <2>2, <2>4 DEF TokensConserved, Size
  <2>7. DrainInv'
    BY <1>1, <1>2, <1>5, <2>1 DEF DrainInv, LoadTypes
  <2>8. QED
    BY <2>5, <2>6, <2>7 DEF LInv
<1>9. CASE Leave(w)
  <2>1. /\ pc[w] = "receive" /\ closed /\ work = 0
        /\ pc' = [pc EXCEPT ![w] = "done"] /\ UNCHANGED <<work, records>>
    BY <1>9 DEF Leave
  <2>2. Requesting' = Requesting
    BY <1>1, <2>1, RequestsChange DEF WorkerStages
  <2>3. pc' \in [Workers -> WorkerStages]
    BY <1>1, <2>1 DEF LoadTypes, WorkerStages
  <2>4. LoadTypes'
    BY <1>1, <1>2, <1>6, <2>1, <2>3 DEF LoadTypes
  <2>5. TokensConserved'
    BY <1>1, <1>3, <1>6, <2>1, <2>2 DEF TokensConserved
  <2>6. DrainInv'
    BY <1>1, <1>2, <1>5, <2>1 DEF DrainInv, LoadTypes
  <2>7. QED
    BY <2>4, <2>5, <2>6 DEF LInv
<1>10. QED
  BY <1>7, <1>8, <1>9 DEF WorkerStep

\* A step that changes at most the cancellation.
LEMMA StutterLInv ==
  ASSUME LInv, cancelled' \in BOOLEAN,
         UNCHANGED <<tick, ticks, loop, work, closed, workerVars, merged, skipped>>
  PROVE  LInv'
<1>1. /\ Requesting' = Requesting /\ Collected' = Collected
      /\ \A status \in Statuses : Entries(status)' = Entries(status)
  BY WorkersAlone
<1>2. LoadTypes'
  BY <1>1 DEF LInv, LoadTypes, workerVars
<1>3. TokensConserved' /\ DrainInv'
  BY <1>1 DEF LInv, TokensConserved, Sent, Size, DrainInv, workerVars
<1>4. QED
  BY <1>2, <1>3 DEF LInv

-----------------------------------------------------------------------------
(* What follows from the invariant *)

LEMMA LInvTypeOK == LInv => TypeOK
<1> SUFFICES ASSUME LInv PROVE TypeOK
  OBVIOUS
<1>1. LoadTypes /\ TokensConserved /\ DrainInv
  BY DEF LInv
<1>2. /\ Cardinality(Requesting) \in Nat /\ Collected \in [Statuses -> Nat]
      /\ Size(Collected) = Collected[200] + Collected[0]
  BY <1>1, SumTypes
<1>3. work \in Nat /\ ticks \in 0..MaxTicks /\ skipped \in Nat
  BY <1>1, CapacityNat, BoundsAssumption DEF LoadTypes
<1>4. Collected[200] + Collected[0] <= MaxTicks
  BY <1>1, <1>2, <1>3, StatusValues, BoundsAssumption DEF TokensConserved, Sent
<1>5. \A status \in Statuses : Collected[status] \in 0..MaxTicks
  BY <1>2, <1>4, StatusValues, BoundsAssumption
<1>6. \A w \in Workers, status \in Statuses : records[w][status] \in 0..MaxTicks
  <2> TAKE w \in Workers, status \in Statuses
  <2>1. records[w][status] <= Collected[status] /\ records[w][status] \in Nat
    BY <1>1, RecordsCounted DEF LoadTypes
  <2>2. QED
    BY <1>5, <2>1, BoundsAssumption
<1>7. records \in [Workers -> Counts]
  BY <1>1, <1>6 DEF LoadTypes, Counts
<1>8. merged = NoRecords \/ merged = Collected
  BY <1>1 DEF LoadTypes, DrainInv
<1>9. merged \in Counts
  BY <1>2, <1>5, <1>8, BoundsAssumption DEF NoRecords, Counts
<1>10. QED
  BY <1>1, <1>7, <1>9 DEF LoadTypes, TypeOK, WorkerStages

LEMMA LInvComplete == LInv => ResultIsComplete
<1> SUFFICES ASSUME LInv, loop = "returned"
             PROVE  /\ work = 0 /\ \A w \in Workers : pc[w] = "done"
                    /\ TotalRequests = Sent
                    /\ ErrorCount = Sent - merged[200]
  BY DEF ResultIsComplete
<1>1. LoadTypes /\ TokensConserved /\ DrainInv
  BY DEF LInv
<1>2. merged = Collected /\ \A w \in Workers : pc[w] = "done"
  BY <1>1 DEF DrainInv
<1>3. work = 0
  BY <1>1, <1>2, WorkersAssumption DEF DrainInv
<1>4. Requesting = {}
  BY <1>2 DEF Requesting
<1>5. Cardinality(Requesting) = 0
  BY <1>4, FS_EmptySet
<1>6. Size(Collected) \in Nat /\ Size(Collected) = merged[200] + merged[0]
  BY <1>1, <1>2, SumTypes
<1>7. merged[200] \in Nat /\ merged[0] \in Nat
  BY <1>1, <1>2, SumTypes
<1>8. Sent = Size(Collected)
  BY <1>1, <1>3, <1>5, <1>6 DEF TokensConserved
<1>9. QED
  BY <1>2, <1>3, <1>6, <1>7, <1>8 DEF TotalRequests, ErrorCount, Size

\* The load generator by itself, under a context that may be cancelled at any
\* time: every token is accounted for in every state, and the result of Run is
\* complete (loadgen.go:76-121).
THEOREM LoadIsComplete == Spec => [](TypeOK /\ TokensConserved /\ ResultIsComplete)
<1>1. LInv /\ [Next]_vars => LInv'
  <2> SUFFICES ASSUME LInv, [Next]_vars PROVE LInv'
    OBVIOUS
  <2>1. CASE UNCHANGED vars
    <3>1. cancelled' \in BOOLEAN
      BY <2>1 DEF LInv, LoadTypes, vars
    <3>2. QED
      BY <2>1, <3>1, StutterLInv DEF vars
  <2>2. QED
    BY <2>1, LoopLInv, WorkerLInv DEF Next, Returned
<1>2. LInv => TypeOK /\ TokensConserved /\ ResultIsComplete
  BY LInvTypeOK, LInvComplete DEF LInv
<1>3. QED
  BY <1>1, <1>2, InitLInv, PTL DEF Spec

-----------------------------------------------------------------------------
(* The benchmark around it *)

\* The stages before the goroutines of a scenario are started, and those of
\* the deferred calls.
Early == {"resolve", "xds", "backends", "envoy", "ready"}
Closing == {"stop envoy", "stop xds", "stop backends", "returned"}

-----------------------------------------------------------------------------
(* The inductive invariant *)

Shape ==
  /\ cfg \in Configs
  /\ clock \in Nat /\ samples \in Nat
  /\ pc \in [Workers -> {"receive", "request", "done"}]
  /\ up \subseteq {"xds", "envoy"}

\* The clock and the end of the load.  Until the swap the clock does not pass
\* the warm-up; while the loop selects it does not pass the duration; the load
\* is not cancelled before the duration is over.
TimeInv ==
  /\ main \in Early => clock = 0 /\ inLoad = "unknown"
  /\ main = "warmup" => clock <= cfg.WarmupDuration
  /\ main = "start new" => clock = cfg.WarmupDuration
  /\ loop = "select" => clock <= TestDuration
  /\ loop # "select" => cancelled
  /\ cancelled => clock >= TestDuration \/ main \in Closing \cup {"ended"}

\* The three goroutines end in order, and the channel holds every sample.
EndInv ==
  /\ main \in Early => poller = "off" /\ epRecords = -1
  /\ loop = "returned" => \A w \in Workers : pc[w] = "done"
  /\ main = "collect" => loop = "returned"
  /\ epRecords # -1 => poller = "done" /\ epRecords = samples
  /\ main \in Closing /\ exit # "panic" =>
       loop = "returned" /\ poller = "done" /\ endpoints = samples

\* What the deferred calls have stopped so far.
LeftInv ==
  /\ main \in {"resolve", "xds"} => up = {} /\ backends = {}
  /\ main = "stop backends" => up = {}
  /\ main = "returned" => up = {} /\ backends = {}
  /\ main = "ended" /\ exit # "fatal" => up = {} /\ backends = {}

BInv == Shape /\ TimeInv /\ SwapIsInLoad /\ EndInv /\ LeftInv

LEMMA Types ==
  /\ \A c \in Configs : c.WarmupDuration \in Nat /\ c.HealthyCount \in Nat
  /\ TestDuration \in Nat
BY BenchAssumption

LEMMA InitBInv == BInit => BInv
BY Types DEF BInit, Init, BInv, Shape, TimeInv, SwapIsInLoad, EndInv, LeftInv, Early,
   Closing

-----------------------------------------------------------------------------
(* The goroutines beside runBenchScenario *)

\* BInv reads the workers only as a function that no longer changes once the
\* loop has returned.
LEMMA WorkersBInv ==
  ASSUME BInv,
         UNCHANGED <<cfg, main, clock, inLoad, loop, cancelled, up, backends, endpoints, exit,
                     poller, samples, epRecords>>,
         pc' \in [Workers -> {"receive", "request", "done"}],
         loop = "returned" => pc' = pc
  PROVE  BInv'
<1>1. Shape' /\ SwapIsInLoad' /\ LeftInv'
  BY DEF BInv, Shape, SwapIsInLoad, LeftInv
<1>2. TimeInv'
  BY DEF BInv, TimeInv, Early, Closing
<1>3. EndInv'
  <2>1. loop' = "returned" => \A w \in Workers : pc'[w] = "done"
    BY DEF BInv, EndInv
  <2>2. QED
    BY <2>1 DEF BInv, EndInv, Early, Closing
<1>4. QED
  BY <1>1, <1>2, <1>3 DEF BInv

LEMMA WorkerStepBInv ==
  ASSUME BInv, UNCHANGED benchVars, NEW w \in Workers, WorkerStep(w)
  PROVE  BInv'
<1> USE DEF benchVars, upVars, swapVars, pollVars, BInv, Shape, EndInv
<1>1. CASE Receive(w)
  BY <1>1, WorkersBInv DEF Receive
<1>2. ASSUME NEW status \in Statuses, Respond(w, status)
      PROVE  BInv'
  BY <1>2, WorkersBInv DEF Respond
<1>3. CASE Leave(w)
  BY <1>3, WorkersBInv DEF Leave
<1>4. QED
  BY <1>1, <1>2, <1>3 DEF WorkerStep

LEMMA LoadStepBInv == BInv /\ LoadStep => BInv'
<1> SUFFICES ASSUME BInv, LoadStep PROVE BInv'
  OBVIOUS
<1>1. ASSUME NEW w \in Workers, WorkerStep(w)
      PROVE  BInv'
  BY <1>1, WorkerStepBInv DEF LoadStep
<1> USE DEF BInv, Shape, TimeInv, SwapIsInLoad, EndInv, LeftInv, LoadStep, benchVars,
            upVars, swapVars, pollVars, workerVars, Early, Closing
<1>2. CASE Tick
  BY <1>2 DEF Tick
<1>3. CASE TakeTick
  BY <1>3 DEF TakeTick
<1>4. CASE TakeDone
  BY <1>4 DEF TakeDone
<1>5. CASE Merge
  BY <1>5 DEF Merge
<1>6. CASE clock >= LoadDeadline /\ Cancel
  BY <1>6 DEF Cancel, LoadDeadline
<1>7. QED
  BY <1>1, <1>2, <1>3, <1>4, <1>5, <1>6

LEMMA PollerBInv == BInv /\ (PollerSamples \/ PollerEnds) => BInv'
<1> SUFFICES ASSUME BInv, PollerSamples \/ PollerEnds PROVE BInv'
  OBVIOUS
<1>1. UNCHANGED <<cfg, clock, inLoad, main, loop, cancelled, pc, up, backends, endpoints, exit>>
  BY DEF PollerSamples, PollerEnds, vars, workerVars, upVars, swapVars
<1>2. Shape' /\ TimeInv' /\ SwapIsInLoad' /\ LeftInv'
  <2>1. samples' \in Nat
    BY DEF BInv, Shape, PollerSamples, PollerEnds
  <2>2. QED
    BY <1>1, <2>1 DEF BInv, Shape, TimeInv, SwapIsInLoad, LeftInv, Early, Closing
<1>3. EndInv'
  BY <1>1 DEF BInv, EndInv, Closing, PollerSamples, PollerEnds
<1>4. QED
  BY <1>2, <1>3 DEF BInv

LEMMA ClockBInv == BInv /\ ClockAdvances => BInv'
<1> SUFFICES ASSUME BInv, ClockAdvances PROVE BInv'
  OBVIOUS
<1>1. UNCHANGED <<cfg, inLoad, main, loop, cancelled, pc, up, backends, endpoints, exit,
                  poller, samples, epRecords>>
  BY DEF ClockAdvances, vars, workerVars, upVars, pollVars
<1>2. clock \in Nat /\ clock' = clock + 1 /\ cfg.WarmupDuration \in Nat /\ TestDuration \in Nat
  BY Types DEF BInv, Shape, ClockAdvances
<1>3. TimeInv'
  <2>1. main \notin Early \cup {"start new"}
    BY DEF ClockAdvances, Early
  <2>2. main = "warmup" => clock < cfg.WarmupDuration
    BY DEF ClockAdvances
  <2>3. loop = "select" => clock < TestDuration
    BY <1>2 DEF ClockAdvances, LoadDeadline
  <2>4. main' \notin Early \cup {"start new"}
    BY <1>1, <2>1
  <2>5. (main' = "warmup" => clock' <= cfg'.WarmupDuration) /\ (loop' = "select" => clock' <= TestDuration)
    BY <1>1, <1>2, <2>2, <2>3
  <2>6. loop' # "select" => cancelled'
    BY <1>1 DEF BInv, TimeInv
  <2>7. cancelled' => clock' >= TestDuration \/ main' \in Closing \cup {"ended"}
    <3>1. cancelled => clock >= TestDuration \/ main \in Closing \cup {"ended"}
      BY DEF BInv, TimeInv
    <3>2. QED
      BY <1>1, <1>2, <3>1
  <2>8. QED
    BY <2>4, <2>5, <2>6, <2>7 DEF TimeInv, Early, Closing
<1>4. Shape'
  BY <1>1, <1>2 DEF BInv, Shape
<1>5. EndInv'
  BY <1>1 DEF BInv, EndInv, Closing
<1>6. SwapIsInLoad' /\ LeftInv'
  BY <1>1 DEF BInv, SwapIsInLoad, LeftInv
<1>7. QED
  BY <1>3, <1>4, <1>5, <1>6 DEF BInv

-----------------------------------------------------------------------------
(* The goroutine of runBenchScenario *)

LEMMA WarmedUpBInv == BInv /\ WarmedUp => BInv'
<1> SUFFICES ASSUME BInv, WarmedUp PROVE BInv'
  OBVIOUS
<1>1. UNCHANGED <<cfg, clock, inLoad, loop, cancelled, pc, up, backends, endpoints, exit,
                  poller, samples, epRecords>> /\ main' = "start new"
  BY DEF WarmedUp, Goto, vars, workerVars, upVars, swapVars, pollVars
<1>2. Shape' /\ SwapIsInLoad' /\ LeftInv'
  BY <1>1 DEF BInv, Shape, SwapIsInLoad, LeftInv
<1>3. TimeInv'
  <2>1. clock = cfg.WarmupDuration
    <3>1. cfg.WarmupDuration \in Nat /\ clock \in Nat
      BY Types DEF BInv, Shape
    <3>2. clock >= cfg.WarmupDuration /\ clock <= cfg.WarmupDuration
      BY DEF BInv, TimeInv, WarmedUp
    <3>3. QED
      BY <3>1, <3>2
  <2>2. main = "warmup"
    BY DEF WarmedUp
  <2>3. QED
    BY <1>1, <2>1, <2>2 DEF BInv, TimeInv, Early, Closing
<1>4. EndInv'
  BY <1>1 DEF BInv, EndInv, Early, Closing
<1>5. QED
  BY <1>2, <1>3, <1>4 DEF BInv

LEMMA SetupBInv ==
  ASSUME BInv,
         Resolve \/ StartServer \/ StartBackends \/ StartEnvoy \/ StartLoad \/ WarmedUp
  PROVE  BInv'
<1> USE DEF BInv, Shape, TimeInv, SwapIsInLoad, EndInv, LeftInv, Early, Closing, vars,
            workerVars, upVars, swapVars, pollVars, Goto
<1>1. CASE Resolve
  BY <1>1 DEF Resolve, Fatal
<1>2. CASE StartServer
  BY <1>2 DEF StartServer
<1>3. CASE StartBackends
  BY <1>3 DEF StartBackends
<1>4. CASE StartEnvoy
  BY <1>4 DEF StartEnvoy
<1>5. CASE StartLoad
  BY <1>5, Types DEF StartLoad
<1>6. CASE WarmedUp
  BY <1>6, WarmedUpBInv
<1>7. QED
  BY <1>1, <1>2, <1>3, <1>4, <1>5, <1>6

LEMMA FatalBInv == BInv /\ Fatal => BInv'
<1> SUFFICES ASSUME BInv, Fatal PROVE BInv'
  OBVIOUS
<1>1. /\ main' = "ended" /\ exit' = "fatal" /\ up' = up \cap {"envoy"}
      /\ UNCHANGED <<cfg, clock, inLoad, loop, cancelled, pc, poller, samples, epRecords>>
  BY DEF Fatal, vars, workerVars, swapVars, pollVars
<1>2. Shape' /\ SwapIsInLoad' /\ LeftInv'
  BY <1>1 DEF BInv, Shape, SwapIsInLoad, LeftInv
<1>3. TimeInv'
  BY <1>1 DEF BInv, TimeInv, Early
<1>4. EndInv'
  BY <1>1 DEF BInv, EndInv, Early, Closing
<1>5. QED
  BY <1>2, <1>3, <1>4 DEF BInv

LEMMA SwapBInv ==
  ASSUME BInv, StartNew \/ Swap \/ LoadIsDone \/ Collect
  PROVE  BInv'
<1> USE DEF BInv, Shape, TimeInv, SwapIsInLoad, EndInv, LeftInv, Early, Closing, vars,
            workerVars, upVars, swapVars, pollVars, Goto
<1>1. CASE StartNew
  BY <1>1 DEF StartNew
<1>2. CASE Swap
  BY <1>2, Types DEF Swap
<1>3. CASE LoadIsDone
  BY <1>3 DEF LoadIsDone
<1>4. CASE Collect
  BY <1>4 DEF Collect
<1>5. QED
  BY <1>1, <1>2, <1>3, <1>4

LEMMA ClosingBInv ==
  ASSUME BInv, StopEnvoy \/ StopServer \/ StopBackends \/ NextRun \/ ReturnFromMain
  PROVE  BInv'
<1> USE DEF BInv, Shape, TimeInv, SwapIsInLoad, EndInv, LeftInv, Early, Closing, vars,
            workerVars, upVars, swapVars, pollVars, Goto
<1>1. CASE StopEnvoy
  BY <1>1 DEF StopEnvoy
<1>2. CASE StopServer
  BY <1>2 DEF StopServer
<1>3. CASE StopBackends
  BY <1>3 DEF StopBackends
<1>4. CASE NextRun
  BY <1>4, Types DEF NextRun
<1>5. CASE ReturnFromMain
  BY <1>5 DEF ReturnFromMain
<1>6. QED
  BY <1>1, <1>2, <1>3, <1>4, <1>5

-----------------------------------------------------------------------------
(* The ranges of the state *)

\* Only a panic starts more new backends than there are ports for them.
RangeInv ==
  /\ BTypeOK
  /\ main \notin Closing \cup {"ended"} => started <= TotalCount

LEMMA Bounds ==
  /\ TotalCount \in Nat /\ MaxSamples \in Nat
  /\ \A c \in Configs : Len(c.Scenarios) \in Nat /\ Len(c.Scenarios) >= 1
<1>1. ASSUME NEW c \in Configs
      PROVE  Len(c.Scenarios) \in Nat /\ Len(c.Scenarios) >= 1
  <2>1. c.Scenarios \in Seq(STRING) /\ c.Scenarios # <<>>
    BY BenchAssumption
  <2>2. QED
    BY <2>1
<1>2. QED
  BY <1>1, BenchAssumption

LEMMA InitRange == BInit => RangeInv
<1> SUFFICES ASSUME BInit PROVE RangeInv
  OBVIOUS
<1>1. run \in 1..Len(cfg.Scenarios)
  BY Bounds DEF BInit
<1>2. started \in 0..TotalCount + 1 /\ started <= TotalCount
  BY Bounds DEF BInit
<1>3. {samples, epRecords, endpoints} \subseteq -1..MaxSamples
  BY Bounds DEF BInit
<1>4. QED
  BY <1>1, <1>2, <1>3 DEF BInit, RangeInv, BTypeOK

\* A step that changes neither the counters nor the backends.
LEMMA CountersAlone ==
  ASSUME RangeInv,
         UNCHANGED <<cfg, run, started, samples, epRecords, endpoints, inLoad>>,
         backends' \subseteq backends, up' \subseteq {"xds", "envoy"},
         poller' \in {"off", "select", "done"}, pollCtx' \in BOOLEAN,
         exit' \in {"none", "ok", "fatal", "panic"},
         main \in Closing \cup {"ended"} => main' \in Closing \cup {"ended"}
  PROVE  RangeInv'
<1>1. BTypeOK'
  BY DEF RangeInv, BTypeOK, InitialPorts, NewPorts
<1>2. QED
  BY <1>1 DEF RangeInv

LEMMA StartNewRange == RangeInv /\ StartNew => RangeInv'
<1> SUFFICES ASSUME RangeInv, StartNew PROVE RangeInv'
  OBVIOUS
<1>1. /\ main = "start new" /\ started' = started + 1
      /\ UNCHANGED <<cfg, run, up, inLoad, endpoints, poller, pollCtx, samples, epRecords>>
  BY DEF StartNew, pollVars
<1>2. started <= TotalCount /\ started \in Nat /\ TotalCount \in Nat
  <2>1. started \in 0..TotalCount + 1 /\ TotalCount \in Nat
    BY Bounds DEF RangeInv, BTypeOK
  <2>2. started <= TotalCount
    BY <1>1 DEF RangeInv, Closing
  <2>3. QED
    BY <2>1, <2>2
<1>3. started' \in 0..TotalCount + 1
  <2>1. started + 1 \in 0..TotalCount + 1
    BY <1>2
  <2>2. QED
    BY <1>1, <2>1
<1>4. CASE started < TotalCount
  <2>1. TotalCount + started + 1 \in NewPorts
    BY <1>2, <1>4 DEF NewPorts
  <2>2. backends' \subseteq InitialPorts \cup NewPorts
    BY <1>4, <2>1 DEF StartNew, RangeInv, BTypeOK
  <2>3. main' = main /\ exit' = exit /\ started' <= TotalCount
    <3>1. started + 1 <= TotalCount
      BY <1>2, <1>4
    <3>2. QED
      BY <1>1, <1>4, <3>1 DEF StartNew
  <2>4. BTypeOK'
    BY <1>1, <1>3, <2>2, <2>3 DEF RangeInv, BTypeOK, InitialPorts, NewPorts
  <2>5. QED
    BY <2>3, <2>4 DEF RangeInv
<1>5. CASE ~(started < TotalCount)
  <2>1. main' = "stop envoy" /\ exit' = "panic" /\ backends' = backends
    BY <1>5 DEF StartNew
  <2>2. BTypeOK'
    BY <1>1, <1>3, <2>1 DEF RangeInv, BTypeOK, InitialPorts, NewPorts
  <2>3. QED
    BY <2>1, <2>2 DEF RangeInv, Closing
<1>6. QED
  BY <1>4, <1>5

LEMMA MainStepRange == RangeInv /\ MainStep => RangeInv'
<1> SUFFICES ASSUME RangeInv, MainStep PROVE RangeInv'
  OBVIOUS
<1>1. /\ BTypeOK /\ TotalCount \in Nat /\ MaxSamples \in Nat
      /\ main \notin Closing \cup {"ended"} => started <= TotalCount
  BY Bounds DEF RangeInv
<1>2. CASE Resolve \/ StartServer \/ StartEnvoy \/ StartLoad \/ WarmedUp \/ LoadIsDone
            \/ StopEnvoy \/ StopServer \/ StopBackends \/ ReturnFromMain
  <2> USE DEF Goto, Fatal, BTypeOK, Closing, upVars, swapVars, pollVars
  <2>1. CASE Resolve \/ StartServer \/ StartEnvoy \/ StartLoad
    BY <1>1, <2>1, CountersAlone DEF Resolve, StartServer, StartEnvoy, StartLoad
  <2>2. CASE WarmedUp \/ LoadIsDone
    BY <1>1, <2>2, CountersAlone DEF WarmedUp, LoadIsDone
  <2>3. CASE StopEnvoy \/ StopServer \/ StopBackends \/ ReturnFromMain
    BY <1>1, <2>3, CountersAlone DEF StopEnvoy, StopServer, StopBackends, ReturnFromMain
  <2>4. QED
    BY <1>2, <2>1, <2>2, <2>3
<1>3. CASE StartBackends
  <2>1. /\ main \notin Closing \cup {"ended"} /\ backends' = backends \cup InitialPorts
        /\ UNCHANGED <<cfg, run, exit, up, started, inLoad, endpoints, poller, pollCtx, samples,
                       epRecords>>
    BY <1>3 DEF StartBackends, Goto, swapVars, pollVars, Closing
  <2>2. BTypeOK'
    BY <1>1, <2>1 DEF BTypeOK, InitialPorts, NewPorts
  <2>3. QED
    BY <1>1, <2>1, <2>2 DEF RangeInv
<1>4. CASE StartNew
  BY <1>4, StartNewRange
<1>5. CASE Swap
  <2>1. /\ main \notin Closing \cup {"ended"} /\ inLoad' \in {"yes", "no"}
        /\ UNCHANGED <<cfg, run, exit, up, backends, started, endpoints, poller, pollCtx, samples,
                       epRecords>>
    BY <1>5 DEF Swap, Goto, upVars, pollVars, Closing
  <2>2. BTypeOK'
    BY <1>1, <2>1 DEF BTypeOK, InitialPorts, NewPorts
  <2>3. QED
    BY <1>1, <2>1, <2>2 DEF RangeInv
<1>6. CASE Collect
  <2>1. /\ main' = "stop envoy" /\ endpoints' = epRecords /\ epRecords' = -1
        /\ UNCHANGED <<cfg, run, exit, up, backends, started, inLoad, poller, pollCtx, samples>>
    BY <1>6 DEF Collect, Goto, upVars
  <2>2. {samples', epRecords', endpoints'} \subseteq -1..MaxSamples
    <3>1. -1 \in -1..MaxSamples
      BY <1>1
    <3>2. QED
      BY <1>1, <2>1, <3>1 DEF BTypeOK
  <2>3. BTypeOK'
    BY <1>1, <2>1, <2>2 DEF BTypeOK, InitialPorts, NewPorts
  <2>4. QED
    BY <2>1, <2>3 DEF RangeInv, Closing
<1>7. CASE NextRun
  <2>1. /\ run' = run + 1 /\ run < Len(cfg.Scenarios)
        /\ started' = 0 /\ inLoad' = "unknown" /\ endpoints' = -1 /\ poller' = "off"
        /\ pollCtx' = FALSE /\ samples' = 0 /\ epRecords' = -1
        /\ UNCHANGED <<cfg, up, backends, exit>>
    BY <1>7 DEF NextRun, upVars
  <2>2. run' \in 1..Len(cfg'.Scenarios)
    BY <1>1, <2>1, Bounds DEF BTypeOK
  <2>3. BTypeOK'
    <3>1. 0 \in -1..MaxSamples /\ -1 \in -1..MaxSamples /\ 0 \in 0..TotalCount + 1
      BY <1>1
    <3>2. {samples', epRecords', endpoints'} \subseteq -1..MaxSamples
      BY <2>1, <3>1
    <3>3. QED
      BY <1>1, <2>1, <2>2, <3>1, <3>2 DEF BTypeOK, InitialPorts, NewPorts
  <2>4. QED
    BY <1>1, <2>1, <2>3 DEF RangeInv
<1>8. QED
  BY <1>2, <1>3, <1>4, <1>5, <1>6, <1>7 DEF MainStep

LEMMA OthersRange ==
  ASSUME RangeInv,
         SetupFails \/ SwapFails \/ LoadStep \/ PollerSamples \/ PollerEnds \/ ClockAdvances
           \/ UNCHANGED bvars
  PROVE  RangeInv'
<1> USE DEF upVars, swapVars, pollVars
<1>1. BTypeOK /\ MaxSamples \in Nat
  BY Bounds DEF RangeInv
<1>2. CASE SetupFails \/ SwapFails
  <2>1. Fatal
    BY <1>2 DEF SetupFails, SwapFails
  <2>2. QED
    BY <1>1, <2>1, CountersAlone DEF Fatal, BTypeOK, Closing
<1>3. CASE LoadStep \/ ClockAdvances \/ UNCHANGED bvars
  <2>1. UNCHANGED <<cfg, main, run, up, backends, started, inLoad, endpoints, poller, pollCtx,
                    samples, epRecords, exit>>
    BY <1>3 DEF LoadStep, ClockAdvances, bvars, benchVars
  <2>2. QED
    BY <1>1, <2>1, CountersAlone DEF BTypeOK
<1>4. CASE PollerSamples \/ PollerEnds
  <2>1. /\ poller' \in {"select", "done"}
        /\ UNCHANGED <<cfg, main, run, up, backends, started, inLoad, endpoints, pollCtx, exit>>
    BY <1>4 DEF PollerSamples, PollerEnds
  <2>2. {samples', epRecords', endpoints'} \subseteq -1..MaxSamples
    BY <1>1, <1>4 DEF PollerSamples, PollerEnds, BTypeOK
  <2>3. BTypeOK'
    BY <1>1, <2>1, <2>2 DEF BTypeOK, InitialPorts, NewPorts
  <2>4. QED
    BY <2>1, <2>3 DEF RangeInv
<1>5. QED
  BY <1>2, <1>3, <1>4

-----------------------------------------------------------------------------
(* The load within the benchmark *)

\* The load takes steps of its own, is cancelled by the deferred calls, and
\* begins anew with every scenario.
LEMMA BenchLInv == LInv /\ [BNext]_bvars => LInv'
<1> SUFFICES ASSUME LInv, [BNext]_bvars PROVE LInv'
  OBVIOUS
<1>1. CASE LoadStep
  BY <1>1, LoopLInv, WorkerLInv DEF LoadStep
<1>2. CASE StopEnvoy
  BY <1>2, StutterLInv DEF StopEnvoy
<1>3. CASE NextRun
  <2>1. Init'
    BY <1>3 DEF NextRun, Init
  <2>2. (Init => LInv)'
    BY InitLInv, PTL
  <2>3. QED
    BY <2>1, <2>2
<1>4. CASE UNCHANGED vars
  <2>1. cancelled' \in BOOLEAN
    BY <1>4 DEF LInv, LoadTypes, vars
  <2>2. QED
    BY <1>4, <2>1, StutterLInv DEF vars
<1>5. CASE SetupFails \/ SwapFails \/ PollerSamples \/ PollerEnds \/ ClockAdvances
  BY <1>4, <1>5 DEF SetupFails, SwapFails, Fatal, PollerSamples, PollerEnds, ClockAdvances
<1>6. CASE MainStep /\ ~StopEnvoy /\ ~NextRun
  <2>1. CASE Resolve \/ StartServer \/ StartBackends \/ StartEnvoy \/ StartLoad
    BY <1>4, <2>1 DEF Resolve, Fatal, StartServer, StartBackends, StartEnvoy, StartLoad
  <2>2. CASE WarmedUp \/ StartNew \/ Swap \/ LoadIsDone \/ Collect
    BY <1>4, <2>2 DEF WarmedUp, StartNew, Swap, LoadIsDone, Collect
  <2>3. CASE StopServer \/ StopBackends \/ ReturnFromMain
    BY <1>4, <2>3 DEF StopServer, StopBackends, ReturnFromMain
  <2>4. QED
    BY <1>6, <2>1, <2>2, <2>3 DEF MainStep
<1>7. CASE UNCHANGED bvars
  BY <1>4, <1>7 DEF bvars
<1>8. QED
  BY <1>1, <1>2, <1>3, <1>5, <1>6, <1>7 DEF BNext, Ended

-----------------------------------------------------------------------------
(* The theorems *)

LEMMA BInvInvariant == BSpec => []BInv
<1>1. BInit => BInv
  BY InitBInv
<1>2. BInv /\ [BNext]_bvars => BInv'
  <2> SUFFICES ASSUME BInv, [BNext]_bvars PROVE BInv'
    OBVIOUS
  <2>1. CASE MainStep
    BY <2>1, SetupBInv, SwapBInv, ClosingBInv DEF MainStep
  <2>2. CASE SetupFails \/ SwapFails
    BY <2>2, FatalBInv DEF SetupFails, SwapFails
  <2>3. CASE LoadStep \/ PollerSamples \/ PollerEnds \/ ClockAdvances
    BY <2>3, LoadStepBInv, PollerBInv, ClockBInv
  <2>4. CASE UNCHANGED bvars
    <3>1. UNCHANGED <<cfg, main, clock, inLoad, loop, cancelled, pc, up, backends, endpoints,
                      exit, poller, samples, epRecords>>
      BY <2>4 DEF bvars, benchVars, vars, workerVars, upVars, swapVars, pollVars
    <3>2. QED
      BY <3>1, WorkersBInv DEF BInv, Shape
  <2>5. QED
    BY <2>1, <2>2, <2>3, <2>4 DEF BNext, Ended
<1>3. QED
  BY <1>1, <1>2, PTL DEF BSpec

\* The swap falls into the load exactly when the warm-up is not the longer of
\* the two times, however late a goroutine is (bench.go:214-241).
THEOREM SwapInLoad == BSpec => []SwapIsInLoad
<1>1. BInv => SwapIsInLoad
  BY DEF BInv
<1>2. QED
  BY <1>1, BInvInvariant, PTL

\* When the result of a scenario is written, the loop, every worker and the
\* poller have ended and every sample is in it (bench.go:244-246).
THEOREM NothingRunning == BSpec => []NothingIsRunningWhenCollected
<1>1. BInv => NothingIsRunningWhenCollected
  BY DEF BInv, EndInv, Closing, NothingIsRunningWhenCollected
<1>2. QED
  BY <1>1, BInvInvariant, PTL

\* Nothing of a scenario is left when the next one starts its server, nor at
\* an end of the process other than log.Fatalf (bench.go:138-175, 230).
THEOREM NothingLeft == BSpec => []NothingIsLeft
<1>1. BInv => NothingIsLeft
  BY DEF BInv, LeftInv, NothingIsLeft
<1>2. QED
  BY <1>1, BInvInvariant, PTL

LEMMA RangeInvariant == BSpec => []RangeInv
<1>1. RangeInv /\ [BNext]_bvars => RangeInv'
  <2> SUFFICES ASSUME RangeInv, [BNext]_bvars PROVE RangeInv'
    OBVIOUS
  <2>1. CASE MainStep
    BY <2>1, MainStepRange
  <2>2. CASE ~MainStep
    BY <2>2, OthersRange DEF BNext, Ended
  <2>3. QED
    BY <2>1, <2>2
<1>2. QED
  BY <1>1, InitRange, PTL DEF BSpec

LEMMA LInvInvariant == BSpec => []LInv
<1>1. BInit => LInv
  BY InitLInv DEF BInit
<1>2. QED
  BY <1>1, BenchLInv, PTL DEF BSpec

\* At most one new backend more than there are ports for is ever begun, and
\* what runs are ports of the two lists, in every run of every command line
\* (bench.go:157-168, 226-234).
THEOREM BenchTypeOK == BSpec => []BTypeOK
<1>1. RangeInv => BTypeOK
  BY DEF RangeInv
<1>2. QED
  BY <1>1, RangeInvariant, PTL

\* The channel of the load never holds more than its capacity, and no worker
\* records more than was sent (loadgen.go:69, 115-121).
THEOREM LoadTypeOK == BSpec => []TypeOK
BY LInvTypeOK, LInvInvariant, PTL

\* Within the benchmark no token that the load has sent is lost: it is in the
\* channel, in a request or in a record, before and after the cancellation
\* (loadgen.go:76-91, 103, 117).
THEOREM NoTokenIsLost == BSpec => []TokensConserved
<1>1. LInv => TokensConserved
  BY DEF LInv
<1>2. QED
  BY <1>1, LInvInvariant, PTL

\* The result that the benchmark collects has a record for every token sent,
\* failures included, for every number of workers and however the merge, the
\* workers and the cancellation are interleaved (loadgen.go:103-114).
THEOREM LoadResultComplete == BSpec => []ResultIsComplete
BY LInvComplete, LInvInvariant, PTL

=============================================================================
