----------------------------- MODULE RuleEngine -----------------------------
(***************************************************************************)
(* The rule engine: Engine.Run of pkg/rules/engine.go with the evaluation  *)
(* skeleton of pkg/rules/adapt.go that every registered rule runs under.   *)
(*                                                                         *)
(* One dispatcher (the goroutine that called Run) offers the rules in      *)
(* order on an unbuffered channel; every worker receives a rule, walks the *)
(* rule's candidates, publishes the findings under the result mutex and    *)
(* then reports progress outside it.  The context can be cancelled at any  *)
(* moment: by the deadline or a signal, or by a failing rule when FailFast *)
(* is set.  A section that holds muRes is one step.                        *)
(***************************************************************************)
EXTENDS RuleOutcomes, FiniteSets

CONSTANTS
  Worker,    \* the worker goroutines
  Failing    \* the rules whose Eval returns an error beside its findings

ASSUME EngineAssumption ==
  /\ Worker # {}
  /\ Failing \subseteq Rule

VARIABLES
  failFast,   \* Engine.FailFast; the scan command leaves it FALSE
  next,       \* the rule the dispatcher offers next; NumRules + 1: all offered
  phase,      \* of the dispatcher: "dispatch", "wait" (channel closed), "done"
  expired,    \* the caller's context is done: deadline or signal
  cancelled,  \* the run's own context is done: ctx.Err() is not nil
  pc,         \* pc[w]: where worker w is
  job,        \* job[w]: the rule it holds
  pos,        \* pos[w]: the candidates of that rule it has decided
  out,        \* out[w]: the findings it collected for that rule
  findings,   \* findings[r]: the nodes in Result.Findings for rule r
  skips,      \* skips[r]: the nodes tallied in Result.Skipped for rule r
  errors,     \* the keys of Result.Errors
  done,       \* the atomic progress counter
  ticket,     \* ticket[w]: the value its done.Add returned
  shown,      \* the values handed to OnProgress
  runErr      \* the rule whose error Run returns; 0: no error

run == <<failFast, expired, runErr>>
results == <<findings, skips, errors>>
progress == <<done, ticket, shown>>
vars == <<failFast, next, phase, expired, cancelled, pc, job, pos, out,
          findings, skips, errors, done, ticket, shown, runErr>>

Location == {"idle", "iterate", "price", "publish", "count", "report", "exited"}

\* The places where a worker holds a rule whose findings are not published yet.
Evaluating == {"iterate", "price", "publish"}

\* Every variable stays in its type: numbers of rules, candidates and workers in range.
TypeOK ==
  /\ failFast \in BOOLEAN
  /\ next \in 1..(NumRules + 1)
  /\ phase \in {"dispatch", "wait", "done"}
  /\ expired \in BOOLEAN
  /\ cancelled \in BOOLEAN
  /\ pc \in [Worker -> Location]
  /\ job \in [Worker -> 0..NumRules]
  /\ pos \in [Worker -> 0..MaxNodes]
  /\ out \in [Worker -> SUBSET Node]
  /\ findings \in [Rule -> SUBSET Node]
  /\ skips \in [Rule -> SUBSET Node]
  /\ errors \in SUBSET Rule
  /\ done \in Nat
  /\ ticket \in [Worker -> Nat]
  /\ shown \in SUBSET Nat
  /\ runErr \in 0..NumRules

Init ==
  /\ failFast \in BOOLEAN
  /\ next = 1
  /\ phase = "dispatch"
  /\ expired = FALSE
  /\ cancelled = FALSE
  /\ pc = [w \in Worker |-> "idle"]
  /\ job = [w \in Worker |-> 0]
  /\ pos = [w \in Worker |-> 0]
  /\ out = [w \in Worker |-> {}]
  /\ findings = [r \in Rule |-> {}]
  /\ skips = [r \in Rule |-> {}]
  /\ errors = {}
  /\ done = 0
  /\ ticket = [w \in Worker |-> 0]
  /\ shown = {}
  /\ runErr = 0

Goto(w, l) == pc' = [pc EXCEPT ![w] = l]

-----------------------------------------------------------------------------
(* The dispatcher *)

\* Slip: the worker keeps the findings slice of its last rule.
SendReusingSlice(w) ==
  /\ phase = "dispatch" /\ next <= NumRules
  /\ pc[w] = "idle"
  /\ next' = next + 1
  /\ Goto(w, "iterate")
  /\ job' = [job EXCEPT ![w] = next]
  /\ pos' = [pos EXCEPT ![w] = 0]
  /\ UNCHANGED <<run, phase, cancelled, out, results, progress>>

\* case jobs <- r: the send meets a worker that waits to receive.
Send(w) ==
  /\ phase = "dispatch" /\ next <= NumRules
  /\ pc[w] = "idle"
  /\ next' = next + 1
  /\ Goto(w, "iterate")
  /\ job' = [job EXCEPT ![w] = next]
  /\ pos' = [pos EXCEPT ![w] = 0]
  /\ out' = [out EXCEPT ![w] = {}]
  /\ UNCHANGED <<run, phase, cancelled, results, progress>>

\* Slip: the loop is not bounded by the rules.
DropUnbounded ==
  /\ phase = "dispatch"
  /\ cancelled
  /\ next' = next + 1
  /\ UNCHANGED <<run, phase, cancelled, pc, job, pos, out, results, progress>>

\* case <-ctx.Done(): the rule is never evaluated.  The select is free to take
\* either case when both are ready, and the loop goes on to the next rule.
Drop ==
  /\ phase = "dispatch" /\ next <= NumRules
  /\ cancelled
  /\ next' = next + 1
  /\ UNCHANGED <<run, phase, cancelled, pc, job, pos, out, results, progress>>

\* close(jobs)
CloseJobs ==
  /\ phase = "dispatch" /\ next = NumRules + 1
  /\ phase' = "wait"
  /\ UNCHANGED <<run, next, cancelled, pc, job, pos, out, results, progress>>

\* Slip: a cancelled run returns before it looks at the error map.
FinishQuietly ==
  /\ phase = "wait"
  /\ \A w \in Worker : pc[w] = "exited"
  /\ phase' = "done"
  /\ runErr' \in IF failFast /\ errors # {} /\ ~cancelled THEN errors ELSE {0}
  /\ UNCHANGED <<failFast, expired, next, cancelled, pc, job, pos, out, results, progress>>

\* wg.Wait() returns; the result is handed over, under FailFast with the error
\* of whichever rule the iteration over the error map meets first.
Finish ==
  /\ phase = "wait"
  /\ \A w \in Worker : pc[w] = "exited"
  /\ phase' = "done"
  /\ runErr' \in IF failFast /\ errors # {} THEN errors ELSE {0}
  /\ UNCHANGED <<failFast, expired, next, cancelled, pc, job, pos, out, results, progress>>

\* The deadline passes or the caller cancels.
Expire ==
  /\ phase # "done"
  /\ ~expired
  /\ expired' = TRUE
  /\ cancelled' = TRUE
  /\ UNCHANGED <<failFast, runErr, next, phase, pc, job, pos, out, results, progress>>

-----------------------------------------------------------------------------
(* A worker: one candidate at a time *)

More(w) == pos[w] < Candidates[job[w]]
Current(w) == pos[w] + 1

\* ByKind is exhausted, or the context is done when the next candidate comes up:
\* evalNodeRule returns what it has, and no error.
StopIterating(w) ==
  /\ pc[w] = "iterate"
  /\ cancelled \/ ~More(w)
  /\ Goto(w, "publish")
  /\ UNCHANGED <<run, next, phase, cancelled, job, pos, out, results, progress>>

\* The exempt label or a guard turns the candidate away: tallied under muRes.
GuardSkips(w) ==
  /\ pc[w] = "iterate"
  /\ ~cancelled /\ More(w)
  /\ Outcome[job[w]][Current(w)] = "skip"
  /\ skips' = [skips EXCEPT ![job[w]] = @ \cup {Current(w)}]
  /\ pos' = [pos EXCEPT ![w] = Current(w)]
  /\ UNCHANGED <<run, next, phase, cancelled, pc, job, out, findings, errors, progress>>

\* Every guard holds: the rule's Cost runs, which asks for prices.
GuardsPass(w) ==
  /\ pc[w] = "iterate"
  /\ ~cancelled /\ More(w)
  /\ Outcome[job[w]][Current(w)] # "skip"
  /\ Goto(w, "price")
  /\ UNCHANGED <<run, next, phase, cancelled, job, pos, out, results, progress>>

\* Slip: the failure is tallied as a missing price although the run was cancelled.
CostCancelledTallied(w) ==
  /\ pc[w] = "price"
  /\ cancelled
  /\ skips' = [skips EXCEPT ![job[w]] = @ \cup {Current(w)}]
  /\ pos' = [pos EXCEPT ![w] = Current(w)]
  /\ Goto(w, "iterate")
  /\ UNCHANGED <<run, next, phase, cancelled, job, out, findings, errors, progress>>

\* Cost fails and the context is done: the iteration ends, nothing is tallied.
\* A cancelled run can also make a cost fail that would have succeeded.
CostCancelled(w) ==
  /\ pc[w] = "price"
  /\ cancelled
  /\ Goto(w, "publish")
  /\ UNCHANGED <<run, next, phase, cancelled, job, pos, out, results, progress>>

\* Slip: the candidate is looked at again.
CostSkipsInPlace(w) ==
  /\ pc[w] = "price"
  /\ \/ Outcome[job[w]][Current(w)] = "noprice" /\ ~cancelled
     \/ Outcome[job[w]][Current(w)] = "cheap"
  /\ skips' = [skips EXCEPT ![job[w]] = @ \cup {Current(w)}]
  /\ Goto(w, "iterate")
  /\ UNCHANGED <<run, next, phase, cancelled, job, pos, out, findings, errors, progress>>

\* Cost fails for want of a price, or no branch reaches the minimum waste.
CostSkips(w) ==
  /\ pc[w] = "price"
  /\ \/ Outcome[job[w]][Current(w)] = "noprice" /\ ~cancelled
     \/ Outcome[job[w]][Current(w)] = "cheap"
  /\ skips' = [skips EXCEPT ![job[w]] = @ \cup {Current(w)}]
  /\ pos' = [pos EXCEPT ![w] = Current(w)]
  /\ Goto(w, "iterate")
  /\ UNCHANGED <<run, next, phase, cancelled, job, out, findings, errors, progress>>

\* Slip: the finding goes to the shared result at once.
CostFindsShared(w) ==
  /\ pc[w] = "price"
  /\ Outcome[job[w]][Current(w)] = "finding"
  /\ out' = [out EXCEPT ![w] = @ \cup {Current(w)}]
  /\ findings' = [findings EXCEPT ![job[w]] = @ \cup {Current(w)}]
  /\ pos' = [pos EXCEPT ![w] = Current(w)]
  /\ Goto(w, "iterate")
  /\ UNCHANGED <<run, next, phase, cancelled, job, skips, errors, progress>>

\* The highest branch becomes a finding of the worker's own slice.
CostFinds(w) ==
  /\ pc[w] = "price"
  /\ Outcome[job[w]][Current(w)] = "finding"
  /\ out' = [out EXCEPT ![w] = @ \cup {Current(w)}]
  /\ pos' = [pos EXCEPT ![w] = Current(w)]
  /\ Goto(w, "iterate")
  /\ UNCHANGED <<run, next, phase, cancelled, job, results, progress>>

\* Slip: a cancelled run throws the findings of a rule away.
PublishUnlessCancelled(w) ==
  /\ pc[w] = "publish"
  /\ errors' = IF job[w] \in Failing THEN errors \cup {job[w]} ELSE errors
  /\ cancelled' = (cancelled \/ (failFast /\ job[w] \in Failing))
  /\ findings' = [findings EXCEPT ![job[w]] = @ \cup (IF cancelled THEN {} ELSE out[w])]
  /\ Goto(w, "count")
  /\ UNCHANGED <<run, next, phase, job, pos, out, skips, progress>>

\* Under muRes: the error, the cancellation FailFast asks for, the findings.
Publish(w) ==
  /\ pc[w] = "publish"
  /\ errors' = IF job[w] \in Failing THEN errors \cup {job[w]} ELSE errors
  /\ cancelled' = (cancelled \/ (failFast /\ job[w] \in Failing))
  /\ findings' = [findings EXCEPT ![job[w]] = @ \cup out[w]]
  /\ Goto(w, "count")
  /\ UNCHANGED <<run, next, phase, job, pos, out, skips, progress>>

\* done.Add(1), and then OnProgress with the value it returned.
Count(w) ==
  /\ pc[w] = "count"
  /\ done' = done + 1
  /\ ticket' = [ticket EXCEPT ![w] = done + 1]
  /\ Goto(w, "report")
  /\ UNCHANGED <<run, next, phase, cancelled, job, pos, out, results, shown>>

Report(w) ==
  /\ pc[w] = "report"
  /\ shown' = shown \cup {ticket[w]}
  /\ Goto(w, "idle")
  /\ UNCHANGED <<run, next, phase, cancelled, job, pos, out, results, done, ticket>>

\* range over the closed channel ends.
Leave(w) ==
  /\ pc[w] = "idle"
  /\ phase = "wait"
  /\ Goto(w, "exited")
  /\ UNCHANGED <<run, next, phase, cancelled, job, pos, out, results, progress>>

WorkerStep(w) ==
  \/ StopIterating(w) \/ GuardSkips(w) \/ GuardsPass(w)
  \/ CostCancelled(w) \/ CostSkips(w) \/ CostFinds(w)
  \/ Publish(w) \/ Count(w) \/ Report(w) \/ Leave(w)

Dispatcher == Drop \/ CloseJobs \/ Finish \/ \E w \in Worker : Send(w)

\* The run is over; nothing is left to do.
Terminated == phase = "done" /\ UNCHANGED vars

Next == Dispatcher \/ Expire \/ Terminated \/ \E w \in Worker : WorkerStep(w)

\* Goroutines that can run are scheduled; nothing obliges a run to be cancelled.
Fairness == WF_vars(Dispatcher) /\ \A w \in Worker : WF_vars(WorkerStep(w))

Spec == Init /\ [][Next]_vars /\ Fairness

-----------------------------------------------------------------------------
(* Properties *)

\* A run nobody cancelled returns the same result whatever the schedule and the
\* number of workers: of every rule exactly the findings and the skips of all its
\* candidates, and the errors of exactly the failing rules (engine.go Run).
ScheduleIndependent ==
  phase = "done" /\ ~cancelled =>
    /\ \A r \in Rule : /\ findings[r] = Found(r, Candidates[r])
                       /\ skips[r] = Skipped(r, Candidates[r])
    /\ errors = Failing

\* At every moment, cancelled or not, what a rule has reported and tallied comes
\* from a prefix of its candidates: no candidate is passed over, and none is both
\* reported and tallied (adapt.go evalNodeRule stops, it never jumps).
PrefixOnly ==
  \A r \in Rule : \E p \in 0..Candidates[r] :
    /\ findings[r] \in {{}, Found(r, p)}
    /\ skips[r] = Skipped(r, p)

\* A finished run leaves no findings behind in a worker: of every rule, whatever
\* prefix was decided is decided in full, findings together with skips.
NothingLostAtJoin ==
  phase = "done" =>
    \A r \in Rule : \E p \in 0..Candidates[r] :
      findings[r] = Found(r, p) /\ skips[r] = Skipped(r, p)

\* A run that cut itself short says why: when no deadline passed and yet the run
\* was cancelled, the error of a failing rule is returned (engine.go FailFast).
FailFastSurfaces ==
  phase = "done" /\ cancelled /\ ~expired => runErr \in Failing

\* Run returns, cancelled or not (wg.Wait is reached by every schedule).
RunReturns == <>(phase = "done")

\* The rules whose evaluation is over: offered, and published if a worker took them.
Closed == {r \in Rule : r < next /\ \A w \in Worker : ~(pc[w] \in Evaluating /\ job[w] = r)}

Evaluation == INSTANCE RuleEvaluation
  WITH closed <- Closed, published <- findings, finished <- (phase = "done")

\* The engine implements the worker-free promise of RuleEvaluation.
ImplementsEvaluation == Evaluation!AbsSpec
=============================================================================
