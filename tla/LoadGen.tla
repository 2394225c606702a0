------------------------------ MODULE LoadGen ------------------------------
(***************************************************************************)
(* The load generator of loadgen.go.  A ticker paces the loop of Run, which *)
(* puts one token per tick into a buffered channel and skips the tick when *)
(* the channel is full; workers take tokens and make one request for each. *)
(* When the context is cancelled the loop closes the channel, waits for    *)
(* the workers, which first drain it, and merges their records.            *)
(*                                                                         *)
(* Records are counted by status; their timestamps and latencies, and the  *)
(* order in which the result lists them, are left out.                     *)
(*                                                                         *)
(* A definition named Op_Fault is a faulty form of Op; no specification    *)
(* uses it.                                                                *)
(***************************************************************************)
EXTENDS Integers, FiniteSets

CONSTANTS
  Workers,     \* the goroutines of Run; their number is lg.concurrency
  MaxTicks     \* bound: the ticks taken by the loop

ASSUME WorkersAssumption == IsFiniteSet(Workers) /\ Workers # {}
ASSUME BoundsAssumption  == MaxTicks \in Nat

VARIABLES
  cancelled,   \* ctx is done
  tick,        \* the ticker's channel (capacity 1) holds a tick
  ticks,       \* ticks taken by the loop so far
  loop,        \* "select", "waiting" (in wg.Wait) or "returned"
  work,        \* tokens in the channel work
  closed,      \* the channel work is closed
  pc,          \* pc[w]: "receive", "request" or "done"
  records,     \* records[w]: workers[idx].records, counted by status
  merged,      \* result.Records, counted by status
  skipped      \* history: the ticks dropped because the channel was full

workerVars == <<pc, records>>
vars == <<cancelled, tick, ticks, loop, work, closed, workerVars, merged, skipped>>

Statuses == {200, 0}          \* 0 for an error of Get, and here for any status that is not 200
NoRecords == [status \in Statuses |-> 0]
Capacity == Cardinality(Workers) * 2

Init ==
  /\ cancelled = FALSE
  /\ tick = FALSE
  /\ ticks = 0
  /\ loop = "select"
  /\ work = 0
  /\ closed = FALSE
  /\ pc = [w \in Workers |-> "receive"]
  /\ records = [w \in Workers |-> NoRecords]
  /\ merged = NoRecords
  /\ skipped = 0

-----------------------------------------------------------------------------
(* The ticker and the caller *)

\* The ticker drops a tick when the last one has not been taken.
Tick ==
  /\ loop = "select"
  /\ tick' = TRUE
  /\ UNCHANGED <<cancelled, ticks, loop, work, closed, workerVars, merged, skipped>>

Cancel ==
  /\ ~cancelled
  /\ cancelled' = TRUE
  /\ UNCHANGED <<tick, ticks, loop, work, closed, workerVars, merged, skipped>>

-----------------------------------------------------------------------------
(* The loop of Run.  When both channels are ready select takes either.     *)

\* Fault: a send that does not check for room (an unbounded queue).
TakeTick_Unbounded ==
  /\ loop = "select"
  /\ tick
  /\ ticks < MaxTicks
  /\ tick' = FALSE
  /\ ticks' = ticks + 1
  /\ work' = work + 1
  /\ UNCHANGED <<cancelled, loop, closed, workerVars, merged, skipped>>

TakeTick ==
  /\ loop = "select"
  /\ tick
  /\ ticks < MaxTicks
  /\ tick' = FALSE
  /\ ticks' = ticks + 1
  /\ IF work < Capacity
     THEN work' = work + 1 /\ skipped' = skipped
     ELSE work' = work /\ skipped' = skipped + 1
  /\ UNCHANGED <<cancelled, loop, closed, workerVars, merged>>

\* Fault: the channel is not closed.
TakeDone_NoClose ==
  /\ loop = "select"
  /\ cancelled
  /\ loop' = "waiting"
  /\ UNCHANGED <<cancelled, tick, ticks, work, closed, workerVars, merged, skipped>>

TakeDone ==
  /\ loop = "select"
  /\ cancelled
  /\ closed' = TRUE
  /\ loop' = "waiting"
  /\ UNCHANGED <<cancelled, tick, ticks, work, workerVars, merged, skipped>>

\* The number of records in a count by status.
Size(counts) == counts[200] + counts[0]

\* The records of all workers, each as its worker and its number there.
Entries(status) == UNION {{w} \X (1..records[w][status]) : w \in Workers}

Collected == [status \in Statuses |-> Cardinality(Entries(status))]

\* Fault: the merge does not wait for the workers.
Merge_NoWait ==
  /\ loop = "waiting"
  /\ loop' = "returned"
  /\ merged' = Collected
  /\ UNCHANGED <<cancelled, tick, ticks, work, closed, workerVars, skipped>>

\* wg.Wait, the merge and the sort.
Merge ==
  /\ loop = "waiting"
  /\ \A w \in Workers : pc[w] = "done"
  /\ loop' = "returned"
  /\ merged' = Collected
  /\ UNCHANGED <<cancelled, tick, ticks, work, closed, workerVars, skipped>>

-----------------------------------------------------------------------------
(* A worker *)

Receive(w) ==
  /\ pc[w] = "receive"
  /\ work > 0
  /\ work' = work - 1
  /\ pc' = [pc EXCEPT ![w] = "request"]
  /\ UNCHANGED <<cancelled, tick, ticks, loop, closed, records, merged, skipped>>

\* Fault: a failed request is not recorded.
Respond_SuccessOnly(w, status) ==
  /\ pc[w] = "request"
  /\ records' = IF status = 0 THEN records ELSE [records EXCEPT ![w][status] = @ + 1]
  /\ pc' = [pc EXCEPT ![w] = "receive"]
  /\ UNCHANGED <<cancelled, tick, ticks, loop, work, closed, merged, skipped>>

\* client.Get returns, within its timeout; a record in any case.
Respond(w, status) ==
  /\ pc[w] = "request"
  /\ records' = [records EXCEPT ![w][status] = @ + 1]
  /\ pc' = [pc EXCEPT ![w] = "receive"]
  /\ UNCHANGED <<cancelled, tick, ticks, loop, work, closed, merged, skipped>>

\* The range loop ends when the channel is closed and empty.
Leave(w) ==
  /\ pc[w] = "receive"
  /\ closed
  /\ work = 0
  /\ pc' = [pc EXCEPT ![w] = "done"]
  /\ UNCHANGED <<cancelled, tick, ticks, loop, work, closed, records, merged, skipped>>

WorkerStep(w) ==
  \/ Receive(w)
  \/ \E status \in Statuses : Respond(w, status)
  \/ Leave(w)

Returned == loop = "returned" /\ UNCHANGED vars

Next ==
  \/ Tick
  \/ Cancel
  \/ TakeTick
  \/ TakeDone
  \/ Merge
  \/ \E w \in Workers : WorkerStep(w)
  \/ Returned

Spec == Init /\ [][Next]_vars

-----------------------------------------------------------------------------
(* Statistics of the result *)

TotalRequests == Size(merged)
ErrorCount    == merged[0]

-----------------------------------------------------------------------------
(* Properties *)

Counts == [Statuses -> 0..MaxTicks]

\* The shape of the state; the channel never holds more than its capacity.
TypeOK ==
  /\ cancelled \in BOOLEAN /\ tick \in BOOLEAN /\ closed \in BOOLEAN
  /\ ticks \in 0..MaxTicks
  /\ loop \in {"select", "waiting", "returned"}
  /\ work \in 0..Capacity
  /\ pc \in [Workers -> {"receive", "request", "done"}]
  /\ records \in [Workers -> Counts]
  /\ merged \in Counts
  /\ skipped \in 0..MaxTicks

\* The tokens that were put into the channel.
Sent == ticks - skipped

Requesting == {w \in Workers : pc[w] = "request"}

\* Every token sent is in the channel, in a request or in a record: none is
\* dropped when the channel is closed or a request fails
\* (loadgen.go:76-91, 103, 117).
TokensConserved ==
  Sent = work + Cardinality(Requesting) + Size(Collected)

\* When Run returns, the channel is empty, no worker is left, and there is
\* one record for every token sent, failures included (loadgen.go:103-114).
ResultIsComplete ==
  loop = "returned" =>
    /\ work = 0 /\ \A w \in Workers : pc[w] = "done"
    /\ TotalRequests = Sent
    /\ ErrorCount = Sent - merged[200]

=============================================================================
