----------------------------- MODULE FetchPool ------------------------------
(***************************************************************************)
(* Metric enrichment: the bounded pool of fetch jobs that                  *)
(* pkg/metrics/{gcp,aws,azure}/client.go share in shape, the job each of   *)
(* them runs (fillOne), and the progress phase of internal/cli/progress.go *)
(* that the jobs report to.                                                *)
(*                                                                         *)
(* A job is a sequence of batches and a batch a sequence of reads of the   *)
(* metrics service; only when all reads of a batch are in does the job     *)
(* reduce what it collected and write it to the graph.  In GCP the one     *)
(* batch reads the metric types in order of priority and the first type    *)
(* with data wins a slot; in AWS a batch is up to 500 instances, its reads *)
(* are the pages of one answer and all of them count; in Azure one read    *)
(* answers for one VM.  A slot is one metric key of one resource.          *)
(***************************************************************************)
EXTENDS Naturals, Sequences, FiniteSets

CONSTANTS
  Slot,    \* the (resource, metric key) pairs that can be written
  Plans,   \* the request plans: [firstWins |-> ..., jobs |-> jobs of batches of reads]
  Limit    \* maxConcurrentFetches

ASSUME PoolAssumption ==
  /\ Limit \in Nat \ {0}
  /\ \A p \in Plans : /\ p.firstWins \in BOOLEAN
                      /\ p.jobs \in Seq(Seq(Seq(SUBSET Slot)))
                      /\ \A j \in DOMAIN p.jobs : \A b \in DOMAIN p.jobs[j] : p.jobs[j][b] # <<>>

VARIABLES
  plan,       \* the plan of this call of Fill
  cancelled,  \* the scan's context is done
  pool,       \* of runFetchJobs and its caller: "spawn", "returned", "ended"
  next,       \* the job the loop starts next
  at,         \* at[j]: where job j is
  batch,      \* batch[j], read[j]: the read it makes next
  read,
  series,     \* series[j][s]: the reads whose samples it holds for slot s
  metrics,    \* metrics[s]: the reads behind the value on the graph; {}: no value
  errs,       \* the jobs whose error was collected
  completed,  \* the atomic counter of finished jobs
  ticket,     \* ticket[j]: what its completed.Add returned; 0 before
  shown,      \* Phase.done: the count the last Set stored
  final       \* the count on the phase's last line, once printed

call == <<plan, pool, next>>
progress == <<completed, ticket, shown, final>>
vars == <<plan, cancelled, pool, next, at, batch, read, series, metrics, errs,
          completed, ticket, shown, final>>

Jobs == plan.jobs
Job == DOMAIN Jobs

\* Every place from the acquired semaphore to its release.
Fetching == {"fetch", "write", "failed"}
HoldingSlot == Fetching \cup {"count", "report", "release"}
Holders == {j \in Job : at[j] \in HoldingSlot}

\* What a write of batch b of job j puts in slot s: the first read with data, or
\* all of them.
Answering(j, b, s) == {<<j, b, r>> : r \in {r \in DOMAIN Jobs[j][b] : s \in Jobs[j][b][r]}}
Expected(j, b, s) ==
  IF plan.firstWins
  THEN {x \in Answering(j, b, s) : \A y \in Answering(j, b, s) : x[3] <= y[3]}
  ELSE Answering(j, b, s)

ReadId == UNION {UNION {{<<j, b, r>> : r \in DOMAIN Jobs[j][b]} : b \in DOMAIN Jobs[j]} : j \in Job}

\* Every variable stays in its type; no more jobs hold a slot than the limit allows
\* (runFetchJobs).
TypeOK ==
  /\ plan \in Plans
  /\ cancelled \in BOOLEAN
  /\ pool \in {"spawn", "returned", "ended"}
  /\ next \in 1..(Len(Jobs) + 1)
  /\ at \in [Job -> HoldingSlot \cup {"new", "gone"}]
  /\ Cardinality(Holders) <= Limit
  /\ batch \in [Job -> Nat \ {0}]
  /\ read \in [Job -> Nat \ {0}]
  /\ series \in [Job -> [Slot -> SUBSET ReadId]]
  /\ metrics \in [Slot -> SUBSET ReadId]
  /\ errs \subseteq Job
  /\ completed \in 0..Len(Jobs)
  /\ ticket \in [Job -> 0..Len(Jobs)]
  /\ shown \in 0..Len(Jobs)
  /\ final \in 0..Len(Jobs)

NoSeries == [s \in Slot |-> {}]

Init ==
  /\ plan \in Plans
  /\ cancelled = FALSE
  /\ pool = "spawn"
  /\ next = 1
  /\ at = [j \in Job |-> "new"]
  /\ batch = [j \in Job |-> 1]
  /\ read = [j \in Job |-> 1]
  /\ series = [j \in Job |-> NoSeries]
  /\ metrics = NoSeries
  /\ errs = {}
  /\ completed = 0
  /\ ticket = [j \in Job |-> 0]
  /\ shown = 0
  /\ final = 0

Goto(j, l) == at' = [at EXCEPT ![j] = l]

-----------------------------------------------------------------------------
(* runFetchJobs *)

\* Slip: one slot too many.
SpawnOneMore ==
  /\ pool = "spawn" /\ next \in Job
  /\ Cardinality(Holders) <= Limit
  /\ next' = next + 1
  /\ Goto(next, "fetch")
  /\ UNCHANGED <<plan, pool, cancelled, batch, read, series, metrics, errs, progress>>

\* wg.Add(1); sem <- struct{}{}; go: the loop waits for a slot, and never for
\* the context.
Spawn ==
  /\ pool = "spawn" /\ next \in Job
  /\ Cardinality(Holders) < Limit
  /\ next' = next + 1
  /\ Goto(next, "fetch")
  /\ UNCHANGED <<plan, pool, cancelled, batch, read, series, metrics, errs, progress>>

\* wg.Wait() returns and Fill with it.
Return ==
  /\ pool = "spawn" /\ next = Len(Jobs) + 1
  /\ \A j \in Job : at[j] = "gone"
  /\ pool' = "returned"
  /\ UNCHANGED <<plan, next, cancelled, at, batch, read, series, metrics, errs, progress>>

\* Phase.End prints the count that was stored last.
EndPhase ==
  /\ pool = "returned"
  /\ pool' = "ended"
  /\ final' = shown
  /\ UNCHANGED <<plan, next, cancelled, at, batch, read, series, metrics, errs,
                 completed, ticket, shown>>

Expire ==
  /\ ~cancelled /\ pool = "spawn"
  /\ cancelled' = TRUE
  /\ UNCHANGED <<call, at, batch, read, series, metrics, errs, progress>>

-----------------------------------------------------------------------------
(* One job: fillOne, then its bookkeeping *)

\* One call of the metrics service answers.
Read(j) ==
  /\ at[j] = "fetch" /\ batch[j] <= Len(Jobs[j])
  /\ ~cancelled
  /\ series' = [series EXCEPT ![j] = [s \in Slot |->
        IF s \in Jobs[j][batch[j]][read[j]] /\ ~(plan.firstWins /\ @[s] # {})
        THEN @[s] \cup {<<j, batch[j], read[j]>>}
        ELSE @[s]]]
  /\ IF read[j] = Len(Jobs[j][batch[j]])
     THEN Goto(j, "write") /\ UNCHANGED read
     ELSE read' = [read EXCEPT ![j] = @ + 1] /\ UNCHANGED at
  /\ UNCHANGED <<call, cancelled, batch, metrics, errs, progress>>

\* Slip: what is in before the error is written.
ReadFailsFlushing(j) ==
  /\ at[j] = "fetch" /\ batch[j] <= Len(Jobs[j])
  /\ Goto(j, "write")
  /\ UNCHANGED <<call, cancelled, batch, read, series, metrics, errs, progress>>

\* Slip: the error is swallowed.
ReadFailsSilently(j) ==
  /\ at[j] = "fetch" /\ batch[j] <= Len(Jobs[j])
  /\ Goto(j, "count")
  /\ UNCHANGED <<call, cancelled, batch, read, series, metrics, errs, progress>>

\* It fails: denied, throttled, unreachable, or the context is done.
ReadFails(j) ==
  /\ at[j] = "fetch" /\ batch[j] <= Len(Jobs[j])
  /\ Goto(j, "failed")
  /\ UNCHANGED <<call, cancelled, batch, read, series, metrics, errs, progress>>

\* Slip: the same batch is asked for again.
WriteInPlace(j) ==
  /\ at[j] = "write"
  /\ metrics' = [s \in Slot |-> IF series[j][s] # {} THEN series[j][s] ELSE metrics[s]]
  /\ series' = [series EXCEPT ![j] = NoSeries]
  /\ read' = [read EXCEPT ![j] = 1]
  /\ Goto(j, "fetch")
  /\ UNCHANGED <<call, cancelled, batch, errs, progress>>

\* The batch is in: every slot with samples is reduced and set, in a loop that
\* nothing interrupts and nobody reads.  Its one way out, a time_stat that
\* reduceTimeStat does not know, is that of no metric the scan registers.
Write(j) ==
  /\ at[j] = "write"
  /\ metrics' = [s \in Slot |-> IF series[j][s] # {} THEN series[j][s] ELSE metrics[s]]
  /\ series' = [series EXCEPT ![j] = NoSeries]
  /\ batch' = [batch EXCEPT ![j] = @ + 1]
  /\ read' = [read EXCEPT ![j] = 1]
  /\ Goto(j, "fetch")
  /\ UNCHANGED <<call, cancelled, errs, progress>>

\* No batch is left: fillOne returns nil.  A job with nothing to query (an AWS
\* region without instances) comes here at once.
JobOk(j) ==
  /\ at[j] = "fetch" /\ batch[j] > Len(Jobs[j])
  /\ Goto(j, "count")
  /\ UNCHANGED <<call, cancelled, batch, read, series, metrics, errs, progress>>

\* Under mu: errs = append(errs, err)
Collect(j) ==
  /\ at[j] = "failed"
  /\ errs' = errs \cup {j}
  /\ Goto(j, "count")
  /\ UNCHANGED <<call, cancelled, batch, read, series, metrics, progress>>

\* completed.Add(1), the argument of report
Count(j) ==
  /\ at[j] = "count"
  /\ completed' = completed + 1
  /\ ticket' = [ticket EXCEPT ![j] = completed + 1]
  /\ Goto(j, "report")
  /\ UNCHANGED <<call, cancelled, batch, read, series, metrics, errs, shown, final>>

\* Phase.Set: the stored count is the ticket, whatever was stored before.
Set(j) ==
  /\ at[j] = "report"
  /\ shown' = ticket[j]
  /\ Goto(j, "release")
  /\ UNCHANGED <<call, cancelled, batch, read, series, metrics, errs, completed, ticket, final>>

\* The deferred calls: <-sem, then wg.Done().
Release(j) ==
  /\ at[j] = "release"
  /\ Goto(j, "gone")
  /\ UNCHANGED <<call, cancelled, batch, read, series, metrics, errs, progress>>

JobStep(j) ==
  \/ Read(j) \/ ReadFails(j) \/ Write(j) \/ JobOk(j)
  \/ Collect(j) \/ Count(j) \/ Set(j) \/ Release(j)

Caller == Spawn \/ Return \/ EndPhase

Terminated == pool = "ended" /\ UNCHANGED vars

Next == Caller \/ Expire \/ Terminated \/ \E j \in Job : JobStep(j)

\* Runnable goroutines run, and every call of the service comes back with an
\* answer or an error: the scan's deadline sees to it.
Fairness ==
  /\ WF_vars(Caller)
  /\ \A j \in UNION {DOMAIN p.jobs : p \in Plans} : WF_vars(j \in Job /\ JobStep(j))

Spec == Init /\ [][Next]_vars /\ Fairness

-----------------------------------------------------------------------------
(* Properties *)

\* A value on the graph stands for the complete answer of one batch: never for
\* the pages before an error, and never for a mix of metric types (fillOne).
NoPartialSeries ==
  \A s \in Slot : metrics[s] # {} =>
    \E j \in Job : \E b \in DOMAIN Jobs[j] : metrics[s] = Expected(j, b, s)

\* One failing job costs only its own slots: when Fill returns, every job that
\* did not report an error has a value in each slot the service had data for,
\* and a job that reported one has left the batch it failed in unwritten.
FailureIsolated ==
  pool # "spawn" =>
    \A j \in Job :
      /\ j \notin errs => \A b \in DOMAIN Jobs[j] : \A s \in Slot :
                            Expected(j, b, s) # {} => metrics[s] # {}
      /\ j \in errs => /\ batch[j] \in DOMAIN Jobs[j]
                       /\ \A s \in Slot : \A x \in metrics[s] : x[1] = j => x[2] < batch[j]

\* Fill returns and the phase ends, whatever fails and whenever the scan is
\* cancelled.
FillReturns == <>(pool = "ended")

=============================================================================
