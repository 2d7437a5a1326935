-------------------------- MODULE RuleEngineProofs --------------------------
(***************************************************************************)
(* The safety of the rule engine, for every number of rules, candidates    *)
(* and workers, every outcome table and both settings of FailFast.         *)
(*                                                                         *)
(* The properties of RuleEngine speak of finished runs and of published    *)
(* results; none is inductive, because what a worker will publish sits in  *)
(* its local slice.  IInv adds what links the two: no rule is held by two  *)
(* workers, and a held rule's slice and tallies are those of the prefix    *)
(* the worker has decided.                                                 *)
(***************************************************************************)
EXTENDS RuleEngine, TLAPS

Holds(w) == pc[w] \in Evaluating

\* A held rule was offered, and by one worker only.
HeldOnce ==
  \A w \in Worker : Holds(w) =>
    /\ job[w] \in 1..(next - 1)
    /\ \A v \in Worker : Holds(v) /\ job[v] = job[w] => v = w

\* What a worker collected, and what was tallied, is its decided prefix.
Prefix(w) ==
  /\ pos[w] \in 0..Candidates[job[w]]
  /\ out[w] = Found(job[w], pos[w])
  /\ skips[job[w]] = Skipped(job[w], pos[w])
  /\ findings[job[w]] = {}

HeldPrefix ==
  \A w \in Worker : Holds(w) =>
    /\ Prefix(w)
    /\ pc[w] = "price" => /\ pos[w] < Candidates[job[w]]
                          /\ Outcome[job[w]][pos[w] + 1] # "skip"
    /\ pc[w] = "publish" /\ ~cancelled => pos[w] = Candidates[job[w]]

\* A rule not offered yet has no results.
Untouched == \A r \in Rule : r >= next => findings[r] = {} /\ skips[r] = {}

\* The results of a rule whose evaluation is over.
Decided(r, p) == /\ findings[r] = Found(r, p)
                 /\ skips[r] = Skipped(r, p)
                 /\ ~cancelled => p = Candidates[r]

ClosedDecided == \A r \in Closed : \E p \in 0..Candidates[r] : Decided(r, p)

\* Only failing rules are in the error map; of the closed ones all are, unless the
\* run was cancelled.
ErrorsExact == /\ errors \subseteq Failing
               /\ ~cancelled => \A r \in Closed \cap Failing : r \in errors

\* The run's context is done because the caller's is, or because FailFast saw an
\* error.
CancelCause == cancelled /\ ~expired => failFast /\ errors # {}

Phases ==
  /\ phase # "dispatch" => next = NumRules + 1
  /\ phase = "done" => /\ \A w \in Worker : pc[w] = "exited"
                       /\ failFast /\ errors # {} => runErr \in errors

IInv == /\ TypeOK /\ HeldOnce /\ HeldPrefix /\ Untouched /\ ClosedDecided
        /\ ErrorsExact /\ CancelCause /\ Phases

-----------------------------------------------------------------------------
(* Prefixes of a rule's candidates *)

\* Nothing is found, and nothing skipped, among no candidates.
LEMMA EmptyPrefix ==
  ASSUME NEW r \in Rule
  PROVE  Found(r, 0) = {} /\ Skipped(r, 0) = {}
BY OutcomeAssumption DEF Found, Skipped, Node

\* One more candidate extends the one or the other of the two sets.
LEMMA NextPrefix ==
  ASSUME NEW r \in Rule, NEW p \in 0..MaxNodes, p + 1 \in Node
  PROVE  /\ Outcome[r][p + 1] = "finding" =>
              /\ Found(r, p + 1) = Found(r, p) \cup {p + 1}
              /\ Skipped(r, p + 1) = Skipped(r, p)
         /\ Outcome[r][p + 1] # "finding" =>
              /\ Found(r, p + 1) = Found(r, p)
              /\ Skipped(r, p + 1) = Skipped(r, p) \cup {p + 1}
BY OutcomeAssumption DEF Found, Skipped, Node

-----------------------------------------------------------------------------
(* Every step keeps the invariant *)

USE DEF results, progress, run, Goto, Holds, Evaluating

\* The places are places (Location stays folded in the proofs below).
LEMMA Locations ==
  /\ "idle" \in Location /\ "iterate" \in Location /\ "price" \in Location
  /\ "publish" \in Location /\ "count" \in Location /\ "report" \in Location
  /\ "exited" \in Location
BY DEF Location

LEMMA InitInv == Init => IInv
<1> SUFFICES ASSUME Init PROVE IInv
    OBVIOUS
<1>1. TypeOK
  <2>1. /\ pc \in [Worker -> Location] /\ job \in [Worker -> 0..NumRules]
        /\ pos \in [Worker -> 0..MaxNodes] /\ out \in [Worker -> SUBSET Node]
        /\ ticket \in [Worker -> Nat]
    BY OutcomeAssumption, Locations DEF Init
  <2>2. findings \in [Rule -> SUBSET Node] /\ skips \in [Rule -> SUBSET Node]
    BY DEF Init
  <2>3. /\ failFast \in BOOLEAN /\ expired \in BOOLEAN /\ cancelled \in BOOLEAN
    BY DEF Init
  <2>4. /\ phase \in {"dispatch", "wait", "done"} /\ next \in 1..(NumRules + 1)
        /\ runErr \in 0..NumRules
    BY OutcomeAssumption DEF Init
  <2>5. errors \in SUBSET Rule /\ done \in Nat /\ shown \in SUBSET Nat
    BY DEF Init
  <2> QED
    BY <2>1, <2>2, <2>3, <2>4, <2>5 DEF TypeOK
<1>2. HeldOnce /\ HeldPrefix
  BY DEF Init, HeldOnce, HeldPrefix
<1>3. Untouched /\ ErrorsExact /\ CancelCause /\ Phases
  BY DEF Init, Untouched, ErrorsExact, CancelCause, Phases, Closed, Rule
<1>4. ClosedDecided
  BY DEF Init, ClosedDecided, Closed, Rule
<1> QED
  BY <1>1, <1>2, <1>3, <1>4 DEF IInv

\* Type correctness is kept by every step.
LEMMA TypeStep ==
  ASSUME IInv, [Next]_vars
  PROVE  TypeOK'
<1> USE OutcomeAssumption, EngineAssumption, Locations DEF IInv, TypeOK, Rule, Node
<1>1. CASE UNCHANGED vars \/ Terminated
  BY <1>1 DEF vars, Terminated
<1>2. CASE Drop \/ CloseJobs
  <2>1. CASE Drop
    BY <2>1 DEF Drop
  <2>2. CASE CloseJobs
    BY <2>2 DEF CloseJobs
  <2> QED
    BY <1>2, <2>1, <2>2
<1>3. CASE Finish \/ Expire
  <2>1. CASE Finish
    BY <2>1 DEF Finish
  <2>2. CASE Expire
    BY <2>2 DEF Expire
  <2> QED
    BY <1>3, <2>1, <2>2
<1>4. ASSUME NEW w \in Worker, Send(w)
      PROVE  TypeOK'
  <2>1. next \in 1..NumRules /\ next' = next + 1 /\ next' \in 1..(NumRules + 1)
    BY <1>4 DEF Send
  <2>2. /\ pc' \in [Worker -> Location] /\ job' \in [Worker -> 0..NumRules]
        /\ pos' \in [Worker -> 0..MaxNodes] /\ out' \in [Worker -> SUBSET Node]
    BY <1>4, <2>1 DEF Send
  <2>3. UNCHANGED <<run, phase, cancelled, results, progress>>
    BY <1>4 DEF Send
  <2>4. QED
    BY <2>1, <2>2, <2>3
<1>5. ASSUME NEW w \in Worker, WorkerStep(w)
      PROVE  TypeOK'
  <2>1. CASE StopIterating(w) \/ GuardsPass(w) \/ CostCancelled(w) \/ Leave(w)
    BY <2>1 DEF StopIterating, GuardsPass, CostCancelled, Leave
  <2>2. CASE GuardSkips(w) \/ CostSkips(w) \/ CostFinds(w)
    <3>0. Holds(w) /\ pos[w] < Candidates[job[w]]
      <4>1. CASE GuardSkips(w)
        BY <4>1 DEF GuardSkips, More, Holds, Evaluating
      <4>2. CASE CostSkips(w) \/ CostFinds(w)
        BY <4>2 DEF CostSkips, CostFinds, HeldPrefix, Holds, Evaluating
      <4> QED
        BY <2>2, <4>1, <4>2
    <3>1. job[w] \in Rule /\ Current(w) \in Node /\ Candidates[job[w]] \in 0..MaxNodes
      <4>1. job[w] \in 1..(next - 1) /\ pos[w] \in Nat
        BY <3>0 DEF HeldOnce
      <4>2. job[w] \in Rule /\ Candidates[job[w]] \in 0..MaxNodes
        BY <4>1
      <4> QED
        BY <3>0, <4>1, <4>2 DEF Current
    <3> DEFINE r == job[w]
               k == Current(w)
    <3>a. r \in Rule /\ k \in Node /\ k \in 0..MaxNodes
      BY <3>1
    <3> HIDE DEF r, k
    <3>b. [skips EXCEPT ![r] = @ \cup {k}] \in [Rule -> SUBSET Node]
      BY ONLY TypeOK, <3>a DEF TypeOK
    <3>c. [out EXCEPT ![w] = @ \cup {k}] \in [Worker -> SUBSET Node]
      BY ONLY TypeOK, <3>a DEF TypeOK
    <3>d. [pos EXCEPT ![w] = k] \in [Worker -> 0..MaxNodes]
      BY ONLY TypeOK, <3>a DEF TypeOK
    <3>e. [pc EXCEPT ![w] = "iterate"] \in [Worker -> Location]
      BY ONLY TypeOK DEF TypeOK, Location
    <3>2. CASE GuardSkips(w)
      <4> USE DEF r, k
      <4>1. /\ skips' \in [Rule -> SUBSET Node] /\ pos' \in [Worker -> 0..MaxNodes]
            /\ UNCHANGED <<run, next, phase, cancelled, pc, job, out, findings, errors, progress>>
        BY <3>2, <3>b, <3>d DEF GuardSkips
      <4> QED
        BY ONLY TypeOK, <4>1 DEF TypeOK, run, progress
    <3>3. CASE CostSkips(w)
      <4> USE DEF r, k
      <4>1. /\ skips' \in [Rule -> SUBSET Node] /\ pos' \in [Worker -> 0..MaxNodes]
            /\ pc' \in [Worker -> Location]
            /\ UNCHANGED <<run, next, phase, cancelled, job, out, findings, errors, progress>>
        BY <3>3, <3>b, <3>d, <3>e DEF CostSkips, Goto
      <4> QED
        BY ONLY TypeOK, <4>1 DEF TypeOK, run, progress
    <3>4. CASE CostFinds(w)
      <4> USE DEF r, k
      <4>1. /\ out' \in [Worker -> SUBSET Node] /\ pos' \in [Worker -> 0..MaxNodes]
            /\ pc' \in [Worker -> Location]
            /\ UNCHANGED <<run, next, phase, cancelled, job, results, progress>>
        BY <3>4, <3>c, <3>d, <3>e DEF CostFinds, Goto
      <4> QED
        BY ONLY TypeOK, <4>1 DEF TypeOK, run, results, progress
    <3> QED
      BY <2>2, <3>2, <3>3, <3>4
  <2>3. CASE Publish(w)
    BY <2>3 DEF Publish, HeldOnce
  <2>4. CASE Count(w)
    <3>1. /\ done' \in Nat /\ ticket' \in [Worker -> Nat] /\ pc' \in [Worker -> Location]
          /\ UNCHANGED <<run, next, phase, cancelled, job, pos, out, results, shown>>
      BY <2>4 DEF Count
    <3>2. QED
      BY <3>1
  <2>5. CASE Report(w)
    BY <2>5 DEF Report
  <2> QED
    BY <1>5, <2>1, <2>2, <2>3, <2>4, <2>5 DEF WorkerStep
<1> QED
  BY <1>1, <1>2, <1>3, <1>4, <1>5 DEF Next, Dispatcher

\* Offering a rule to a waiting worker: the rule is untouched until now.
LEMMA SendStep ==
  ASSUME IInv, TypeOK', NEW w \in Worker, Send(w)
  PROVE  IInv'
<1> USE OutcomeAssumption DEF IInv, TypeOK, Send
<1>1. next \in Rule /\ next < next'
  BY DEF Rule
<1>2. HeldOnce'
  <2>1. /\ job' = [job EXCEPT ![w] = next] /\ next' = next + 1
        /\ \A v \in Worker : v # w => (Holds(v)' <=> Holds(v))
    BY DEF Goto, Holds
  <2>2. \A v \in Worker : v # w /\ Holds(v) => job[v] \in 1..(next - 1)
    BY DEF HeldOnce
  <2> QED
    BY ONLY <1>1, <2>1, <2>2, IInv, TypeOK DEF IInv, TypeOK, HeldOnce, Rule
<1>3. HeldPrefix'
  <2> SUFFICES ASSUME NEW v \in Worker, Holds(v)'
               PROVE  /\ Prefix(v)'
                      /\ pc'[v] = "price" => /\ pos'[v] < Candidates[job'[v]]
                                             /\ Outcome[job'[v]][pos'[v] + 1] # "skip"
                      /\ pc'[v] = "publish" /\ ~cancelled' => pos'[v] = Candidates[job'[v]]
    BY DEF HeldPrefix
  <2>1. CASE v = w
    <3>1. /\ job'[w] = next /\ pos'[w] = 0 /\ out'[w] = {} /\ pc'[w] = "iterate"
          /\ findings' = findings /\ skips' = skips
      OBVIOUS
    <3>2. findings[next] = {} /\ skips[next] = {}
      BY <1>1 DEF Untouched, Rule
    <3>3. Found(next, 0) = {} /\ Skipped(next, 0) = {} /\ 0 \in 0..Candidates[next]
      BY <1>1, EmptyPrefix
    <3> QED
      BY <2>1, <3>1, <3>2, <3>3 DEF Prefix
  <2>2. CASE v # w
    BY <2>2 DEF HeldPrefix, Prefix
  <2> QED
    BY <2>1, <2>2
<1>4. Untouched'
  BY <1>1 DEF Untouched, Rule
<1>5. Closed' \subseteq Closed
  BY <1>1 DEF Closed, Rule
<1>6. ClosedDecided' /\ ErrorsExact'
  BY <1>5 DEF ClosedDecided, Decided, ErrorsExact
<1>7. CancelCause' /\ Phases'
  BY DEF CancelCause, Phases
<1> QED
  BY <1>2, <1>3, <1>4, <1>6, <1>7

\* The dispatcher's other steps touch no worker.
LEMMA DispatcherStep ==
  ASSUME IInv, TypeOK', Drop \/ CloseJobs \/ Finish
  PROVE  IInv'
<1> USE OutcomeAssumption DEF IInv, TypeOK
<1>1. CASE Drop
  <2> USE <1>1 DEF Drop
  <2>1. next \in Rule /\ next < next'
    BY DEF Rule
  <2>2. HeldOnce'
    BY DEF HeldOnce, Rule
  <2>3. HeldPrefix'
    BY DEF HeldPrefix, Prefix
  <2>4. Untouched'
    BY <2>1 DEF Untouched, Rule
  <2>5. Closed' \subseteq Closed \cup {next}
    BY <2>1 DEF Closed, Rule
  <2>6. /\ findings'[next] = Found(next, 0) /\ skips'[next] = Skipped(next, 0)
        /\ 0 \in 0..Candidates[next] /\ cancelled'
    <3>1. findings[next] = {} /\ skips[next] = {}
      BY <2>1 DEF Untouched
    <3>2. Found(next, 0) = {} /\ Skipped(next, 0) = {} /\ 0 \in 0..Candidates[next]
      BY <2>1, EmptyPrefix
    <3> QED
      BY <3>1, <3>2
  <2>7. ClosedDecided'
    <3> SUFFICES ASSUME NEW r \in Closed'
                 PROVE  \E p \in 0..Candidates[r] : Decided(r, p)'
      BY DEF ClosedDecided
    <3>1. CASE r = next
      BY <2>6, <3>1 DEF Decided
    <3>2. CASE r \in Closed
      BY <3>2 DEF ClosedDecided, Decided
    <3> QED
      BY <2>5, <3>1, <3>2
  <2>8. ErrorsExact' /\ CancelCause' /\ Phases'
    BY DEF ErrorsExact, CancelCause, Phases, Rule
  <2> QED
    BY <2>2, <2>3, <2>4, <2>7, <2>8
<1>2. CASE CloseJobs
  <2> USE <1>2 DEF CloseJobs
  <2>1. HeldOnce' /\ HeldPrefix' /\ Untouched'
    BY DEF HeldOnce, HeldPrefix, Prefix, Untouched
  <2>2. Closed' = Closed
    BY DEF Closed
  <2>3. ClosedDecided' /\ ErrorsExact' /\ CancelCause' /\ Phases'
    BY <2>2 DEF ClosedDecided, Decided, ErrorsExact, CancelCause, Phases
  <2> QED
    BY <2>1, <2>3
<1>3. CASE Finish
  <2> USE <1>3 DEF Finish
  <2>1. HeldOnce' /\ HeldPrefix' /\ Untouched'
    BY DEF HeldOnce, HeldPrefix, Prefix, Untouched
  <2>2. Closed' = Closed
    BY DEF Closed
  <2>3. ClosedDecided' /\ ErrorsExact' /\ CancelCause' /\ Phases'
    BY <2>2 DEF ClosedDecided, Decided, ErrorsExact, CancelCause, Phases
  <2> QED
    BY <2>1, <2>3
<1> QED
  BY <1>1, <1>2, <1>3

\* The deadline only weakens what the invariant asks of closed and held rules.
LEMMA ExpireStep ==
  ASSUME IInv, TypeOK', Expire
  PROVE  IInv'
<1> USE DEF IInv, TypeOK, Expire
<1>1. HeldOnce' /\ HeldPrefix' /\ Untouched'
  BY DEF HeldOnce, HeldPrefix, Prefix, Untouched
<1>2. Closed' = Closed
  BY DEF Closed
<1>3. ClosedDecided' /\ ErrorsExact' /\ CancelCause' /\ Phases'
  BY <1>2 DEF ClosedDecided, Decided, ErrorsExact, CancelCause, Phases
<1> QED
  BY <1>1, <1>3

\* A step of a worker inside its rule: it still holds the rule, and nobody else's
\* state, nor the rule's published findings, changes.
Inside(w) ==
  /\ w \in Worker /\ Holds(w) /\ Holds(w)'
  /\ \A v \in Worker : v # w => /\ pc'[v] = pc[v] /\ pos'[v] = pos[v] /\ out'[v] = out[v]
  /\ \A r \in Rule : r # job[w] => skips'[r] = skips[r]
  /\ job' = job
  /\ UNCHANGED <<next, phase, cancelled, expired, failFast, runErr, findings, errors>>

\* Such a step keeps the invariant if the worker's own prefix stays right.
LEMMA InsideStep ==
  ASSUME IInv, TypeOK', NEW w \in Worker, Inside(w), Prefix(w)',
         pc'[w] = "price" => /\ pos'[w] < Candidates[job[w]]
                             /\ Outcome[job[w]][pos'[w] + 1] # "skip",
         pc'[w] = "publish" /\ ~cancelled => pos'[w] = Candidates[job[w]]
  PROVE  IInv'
<1> USE DEF IInv, TypeOK, Inside
<1>1. \A v \in Worker : Holds(v)' <=> Holds(v)
  OBVIOUS
<1>2. HeldOnce'
  BY <1>1 DEF HeldOnce
<1>3. job[w] \in Rule /\ job[w] < next /\ \A v \in Worker : Holds(v) /\ v # w => job[v] # job[w]
  BY DEF HeldOnce, Rule
<1>4. HeldPrefix'
  <2> SUFFICES ASSUME NEW v \in Worker, Holds(v)'
               PROVE  /\ Prefix(v)'
                      /\ pc'[v] = "price" => /\ pos'[v] < Candidates[job'[v]]
                                             /\ Outcome[job'[v]][pos'[v] + 1] # "skip"
                      /\ pc'[v] = "publish" /\ ~cancelled' => pos'[v] = Candidates[job'[v]]
    BY DEF HeldPrefix
  <2>1. CASE v = w
    BY <2>1
  <2>2. CASE v # w
    <3>1. job[v] \in Rule /\ job[v] # job[w] /\ Holds(v)
      BY <1>1, <1>3, <2>2 DEF HeldOnce, Rule
    <3> QED
      BY <2>2, <3>1 DEF HeldPrefix, Prefix
  <2> QED
    BY <2>1, <2>2
<1>5. Untouched'
  BY <1>3 DEF Untouched
<1>6. Closed' = Closed /\ job[w] \notin Closed
  BY <1>1, <1>3 DEF Closed
<1>7. ClosedDecided'
  BY <1>6 DEF ClosedDecided, Decided, Closed
<1>8. ErrorsExact' /\ CancelCause'
  BY <1>6 DEF ErrorsExact, CancelCause
<1>9. Phases'
  BY DEF Phases
<1> QED
  BY <1>2, <1>4, <1>5, <1>7, <1>8, <1>9

\* The steps that decide a candidate, or stop before it.
LEMMA EvaluateStep ==
  ASSUME IInv, TypeOK', NEW w \in Worker,
         \/ StopIterating(w) \/ GuardSkips(w) \/ GuardsPass(w)
         \/ CostCancelled(w) \/ CostSkips(w) \/ CostFinds(w)
  PROVE  IInv'
<1>1. Holds(w)
  BY DEF StopIterating, GuardSkips, GuardsPass, CostCancelled, CostSkips, CostFinds
<1>2. job[w] \in Rule /\ Prefix(w) /\ Candidates[job[w]] \in 0..MaxNodes
  BY <1>1, OutcomeAssumption DEF IInv, HeldOnce, HeldPrefix, TypeOK, Rule
<1>3. pos[w] \in 0..MaxNodes /\ pos[w] \in 0..Candidates[job[w]]
  BY <1>2 DEF IInv, TypeOK, Prefix
<1>4. CASE StopIterating(w) \/ CostCancelled(w)
  <2>1. Inside(w)
    BY <1>1, <1>4 DEF Inside, StopIterating, CostCancelled, IInv, TypeOK
  <2>2. Prefix(w)'
    BY <1>2, <1>4 DEF Prefix, StopIterating, CostCancelled
  <2>3. pc'[w] = "publish" /\ pos'[w] = pos[w] /\ cancelled' = cancelled
    BY <1>4 DEF StopIterating, CostCancelled, IInv, TypeOK
  <2>4. ~cancelled => pos[w] = Candidates[job[w]]
    <3>1. cancelled \/ ~(pos[w] < Candidates[job[w]])
      BY <1>4 DEF StopIterating, CostCancelled, More
    <3> QED
      <4> SUFFICES ASSUME ~cancelled PROVE pos[w] = Candidates[job[w]]
        OBVIOUS
      <4>1. MaxNodes \in Nat
        BY OutcomeAssumption
      <4>2. ~(pos[w] < Candidates[job[w]])
        BY <3>1
      <4> QED
        BY <1>2, <1>3, <4>1, <4>2
  <2> QED
    BY <2>1, <2>2, <2>3, <2>4, InsideStep
<1>5. CASE GuardsPass(w)
  <2>1. Inside(w)
    BY <1>1, <1>5 DEF Inside, GuardsPass, IInv, TypeOK
  <2>2. Prefix(w)'
    BY <1>2, <1>5 DEF Prefix, GuardsPass
  <2>3. pc'[w] = "price" /\ pos'[w] = pos[w]
    BY <1>5 DEF GuardsPass, IInv, TypeOK
  <2>4. pos[w] < Candidates[job[w]] /\ Outcome[job[w]][pos[w] + 1] # "skip"
    BY <1>5 DEF GuardsPass, More, Current
  <2> QED
    BY <2>1, <2>2, <2>3, <2>4, InsideStep
<1>6. CASE GuardSkips(w) \/ CostSkips(w) \/ CostFinds(w)
  <2>1. pos[w] < Candidates[job[w]]
    BY <1>1, <1>6 DEF GuardSkips, CostSkips, CostFinds, More, IInv, HeldPrefix
  <2>2. pos[w] + 1 \in Node /\ pos[w] + 1 \in 0..Candidates[job[w]]
    BY <1>2, <1>3, <2>1, OutcomeAssumption DEF Node
  <2>3. pc'[w] = "iterate" /\ pos'[w] = pos[w] + 1 /\ job' = job /\ findings' = findings
    BY <1>6 DEF GuardSkips, CostSkips, CostFinds, Current, IInv, TypeOK
  <2>4. Inside(w)
    <3>1. CASE GuardSkips(w)
      BY <1>1, <3>1 DEF Inside, GuardSkips, IInv, TypeOK
    <3>2. CASE CostSkips(w)
      BY <1>1, <3>2 DEF Inside, CostSkips, IInv, TypeOK
    <3>3. CASE CostFinds(w)
      BY <1>1, <3>3 DEF Inside, CostFinds, IInv, TypeOK
    <3> QED
      BY <1>6, <3>1, <3>2, <3>3
  <2>5. out'[w] = Found(job[w], pos[w] + 1) /\ skips'[job[w]] = Skipped(job[w], pos[w] + 1)
    <3>1. CASE CostFinds(w)
      <4>1. out'[w] = out[w] \cup {pos[w] + 1} /\ skips' = skips
        BY <3>1 DEF CostFinds, Current, IInv, TypeOK
      <4>2. Outcome[job[w]][pos[w] + 1] = "finding"
        BY <3>1 DEF CostFinds, Current
      <4> QED
        BY <1>2, <1>3, <2>2, <4>1, <4>2, NextPrefix DEF Prefix
    <3>2. CASE GuardSkips(w) \/ CostSkips(w)
      <4>1. out' = out
        BY <3>2 DEF GuardSkips, CostSkips
      <4>2. skips'[job[w]] = skips[job[w]] \cup {pos[w] + 1}
        BY <1>2, <3>2 DEF GuardSkips, CostSkips, Current, IInv, TypeOK
      <4>3. Outcome[job[w]][pos[w] + 1] # "finding"
        BY <3>2 DEF GuardSkips, CostSkips, Current
      <4> QED
        BY <1>2, <1>3, <2>2, <4>1, <4>2, <4>3, NextPrefix DEF Prefix
    <3> QED
      BY <1>6, <3>1, <3>2
  <2>6. Prefix(w)'
    <3>1. findings'[job[w]] = {}
      BY <1>2, <2>3 DEF Prefix
    <3> QED
      BY <2>2, <2>3, <2>5, <3>1 DEF Prefix
  <2> QED
    BY <2>3, <2>4, <2>6, InsideStep
<1> QED
  BY <1>4, <1>5, <1>6

\* Handing over the slice closes the rule; a failing one may cancel the run.
LEMMA PublishStep ==
  ASSUME IInv, TypeOK', NEW w \in Worker, Publish(w)
  PROVE  IInv'
<1> DEFINE r == job[w]
<1>1. /\ r \in Rule /\ r < next /\ Prefix(w) /\ pos[w] \in 0..Candidates[r]
      /\ ~cancelled => pos[w] = Candidates[r]
  BY DEF IInv, TypeOK, Publish, HeldOnce, HeldPrefix, Prefix, Rule
<1>2. /\ job' = job /\ pos' = pos /\ out' = out /\ skips' = skips /\ next' = next
      /\ phase' = phase /\ expired' = expired /\ failFast' = failFast /\ runErr' = runErr
      /\ cancelled => cancelled'
  BY DEF Publish
<1>3. /\ findings'[r] = Found(r, pos[w]) /\ skips'[r] = Skipped(r, pos[w])
      /\ \A q \in Rule : q # r => findings'[q] = findings[q] /\ skips'[q] = skips[q]
  BY <1>1 DEF Publish, IInv, TypeOK, Prefix
<1>4. /\ \A v \in Worker : v # w => pc'[v] = pc[v]
      /\ pc'[w] = "count" /\ pc[w] = "publish"
  BY DEF Publish, IInv, TypeOK
<1>5. \A v \in Worker : Holds(v) /\ job[v] = r => v = w
  BY <1>4 DEF IInv, HeldOnce
<1>6. HeldOnce'
  BY <1>2, <1>4 DEF IInv, HeldOnce
<1>7. HeldPrefix'
  <2> SUFFICES ASSUME NEW v \in Worker, Holds(v)'
               PROVE  /\ Prefix(v)'
                      /\ pc'[v] = "price" => /\ pos'[v] < Candidates[job'[v]]
                                             /\ Outcome[job'[v]][pos'[v] + 1] # "skip"
                      /\ pc'[v] = "publish" /\ ~cancelled' => pos'[v] = Candidates[job'[v]]
    BY DEF HeldPrefix
  <2>1. v # w /\ Holds(v) /\ pc'[v] = pc[v]
    BY <1>4
  <2>2. job[v] \in Rule /\ job[v] # r
    BY <1>5, <2>1 DEF IInv, HeldOnce, TypeOK, Rule
  <2>3. findings'[job[v]] = findings[job[v]]
    BY <1>3, <2>2
  <2> QED
    BY <1>2, <2>1, <2>3 DEF IInv, HeldPrefix, Prefix
<1>8. Untouched'
  <2> SUFFICES ASSUME NEW q \in Rule, q >= next'
               PROVE  findings'[q] = {} /\ skips'[q] = {}
    BY DEF Untouched
  <2>1. q # r /\ q >= next
    BY <1>1, <1>2, OutcomeAssumption DEF IInv, TypeOK, Rule
  <2> QED
    BY <1>3, <2>1 DEF IInv, Untouched
<1>9. Closed' = Closed \cup {r}
  BY <1>1, <1>2, <1>4, <1>5 DEF Closed
<1>10. ClosedDecided'
  <2> SUFFICES ASSUME NEW q \in Closed'
               PROVE  \E p \in 0..Candidates[q] : Decided(q, p)'
    BY DEF ClosedDecided
  <2>1. CASE q = r
    BY <1>1, <1>2, <1>3, <2>1 DEF Decided
  <2>2. CASE q # r
    <3>1. q \in Closed /\ q \in Rule
      BY <1>9, <2>2 DEF Closed
    <3>2. PICK p \in 0..Candidates[q] : Decided(q, p)
      BY <3>1 DEF IInv, ClosedDecided
    <3>3. Decided(q, p)'
      BY <1>2, <1>3, <2>2, <3>1, <3>2 DEF Decided
    <3> QED
      BY <3>3
  <2> QED
    BY <2>1, <2>2
<1>11. errors \subseteq errors' /\ errors' \subseteq errors \cup {r} /\ (r \in errors' <=> r \in Failing \/ r \in errors)
  BY DEF Publish
<1>12. ErrorsExact'
  BY <1>2, <1>9, <1>11 DEF IInv, ErrorsExact
<1>13. CancelCause'
  <2>1. cancelled' => cancelled \/ (failFast /\ r \in errors')
    BY <1>11 DEF Publish
  <2> QED
    BY <1>2, <1>11, <2>1 DEF IInv, CancelCause
<1>14. Phases'
  BY <1>2, <1>4 DEF IInv, Phases
<1> QED
  BY <1>6, <1>7, <1>8, <1>10, <1>12, <1>13, <1>14 DEF IInv

\* Past its rule a worker changes neither results nor what is held.
LEMMA OutsideStep ==
  ASSUME IInv, TypeOK', NEW w \in Worker, Count(w) \/ Report(w) \/ Leave(w)
  PROVE  IInv'
<1>1. /\ UNCHANGED <<failFast, next, phase, expired, cancelled, job, pos, out, runErr>>
      /\ UNCHANGED <<findings, skips, errors>>
  BY DEF Count, Report, Leave
<1>2. /\ \A v \in Worker : v # w => pc'[v] = pc[v]
      /\ ~Holds(w) /\ ~Holds(w)' /\ pc[w] # "exited"
  BY DEF Count, Report, Leave, IInv, TypeOK
<1>3. \A v \in Worker : /\ Holds(v)' <=> Holds(v)
                        /\ Holds(v) => pc'[v] = pc[v]
  BY <1>2
<1>4. HeldOnce' /\ HeldPrefix'
  BY <1>1, <1>3 DEF IInv, HeldOnce, HeldPrefix, Prefix
<1>5. Closed' = Closed
  BY <1>1, <1>3 DEF Closed
<1>6. Untouched' /\ ClosedDecided' /\ ErrorsExact' /\ CancelCause'
  BY <1>1, <1>5 DEF IInv, Untouched, ClosedDecided, Decided, ErrorsExact, CancelCause
<1>7. Phases'
  BY <1>1, <1>2 DEF IInv, Phases
<1> QED
  BY <1>4, <1>6, <1>7 DEF IInv

\* A step that changes nothing.
LEMMA StutterStep ==
  ASSUME IInv, UNCHANGED vars
  PROVE  IInv'
<1>1. TypeOK' /\ HeldOnce' /\ HeldPrefix' /\ Untouched'
  BY DEF vars, IInv, TypeOK, HeldOnce, HeldPrefix, Prefix, Untouched
<1>2. Closed' = Closed
  BY DEF vars, Closed
<1>3. ClosedDecided' /\ ErrorsExact' /\ CancelCause' /\ Phases'
  BY <1>2 DEF vars, IInv, ClosedDecided, Decided, ErrorsExact, CancelCause, Phases
<1> QED
  BY <1>1, <1>3 DEF IInv

LEMMA StepInv == IInv /\ [Next]_vars => IInv'
<1> SUFFICES ASSUME IInv, [Next]_vars PROVE IInv'
    OBVIOUS
<1>1. TypeOK'
  BY TypeStep
<1>2. CASE UNCHANGED vars \/ Terminated
  BY <1>2, StutterStep DEF Terminated
<1>3. CASE Drop \/ CloseJobs \/ Finish
  BY <1>1, <1>3, DispatcherStep
<1>4. ASSUME NEW w \in Worker, Send(w) PROVE IInv'
  BY <1>1, <1>4, SendStep
<1>5. CASE Expire
  BY <1>1, <1>5, ExpireStep
<1>6. ASSUME NEW w \in Worker, WorkerStep(w) PROVE IInv'
  BY <1>1, <1>6, EvaluateStep, PublishStep, OutsideStep DEF WorkerStep
<1> QED
  BY <1>2, <1>3, <1>4, <1>5, <1>6 DEF Next, Dispatcher

\* The inductive invariant holds of every behaviour.
THEOREM Invariance == Spec => []IInv
<1> QED
  BY InitInv, StepInv, PTL DEF Spec

-----------------------------------------------------------------------------
(* What follows from it *)

\* Every variable keeps its type.
THEOREM TypeCorrect == Spec => []TypeOK
<1> QED
  BY Invariance, PTL DEF IInv

\* When Run has returned, every rule is closed.
LEMMA AllClosed ==
  ASSUME IInv, phase = "done"
  PROVE  Closed = Rule
BY OutcomeAssumption DEF IInv, Phases, Closed, Rule, TypeOK

\* A finished run leaves nothing behind in a worker (engine.go wg.Wait).
THEOREM JoinIsComplete == Spec => []NothingLostAtJoin
<1>1. IInv => NothingLostAtJoin
  BY AllClosed DEF NothingLostAtJoin, IInv, ClosedDecided, Decided
<1> QED
  BY <1>1, Invariance, PTL

\* An uncancelled run's result depends on the rules and the graph alone, whatever
\* the workers and the schedule (engine.go Run).
THEOREM Deterministic == Spec => []ScheduleIndependent
<1>1. ASSUME IInv, phase = "done", ~cancelled
      PROVE  /\ \A r \in Rule : /\ findings[r] = Found(r, Candidates[r])
                                /\ skips[r] = Skipped(r, Candidates[r])
             /\ errors = Failing
  <2>1. Closed = Rule
    BY <1>1, AllClosed
  <2>2. \A r \in Rule : findings[r] = Found(r, Candidates[r]) /\ skips[r] = Skipped(r, Candidates[r])
    BY <1>1, <2>1 DEF IInv, ClosedDecided, Decided
  <2>3. errors = Failing
    BY <1>1, <2>1, EngineAssumption DEF IInv, ErrorsExact
  <2> QED
    BY <2>2, <2>3
<1>2. IInv => ScheduleIndependent
  BY <1>1 DEF ScheduleIndependent
<1> QED
  BY <1>2, Invariance, PTL

\* Results are those of a prefix of the candidates at every moment, also of a
\* rule a worker still holds (adapt.go evalNodeRule).
THEOREM PrefixResults == Spec => []PrefixOnly
<1>1. ASSUME IInv, NEW r \in Rule
      PROVE  \E p \in 0..Candidates[r] : /\ findings[r] \in {{}, Found(r, p)}
                                         /\ skips[r] = Skipped(r, p)
  <2>1. CASE r \in Closed
    BY <1>1, <2>1 DEF IInv, ClosedDecided, Decided
  <2>2. CASE r >= next
    <3>1. findings[r] = {} /\ skips[r] = {}
      BY <1>1, <2>2 DEF IInv, Untouched
    <3>2. Skipped(r, 0) = {} /\ 0 \in 0..Candidates[r]
      BY EmptyPrefix, OutcomeAssumption
    <3> QED
      BY <3>1, <3>2
  <2>3. CASE r < next /\ r \notin Closed
    <3>1. PICK w \in Worker : Holds(w) /\ job[w] = r
      BY <2>3 DEF Closed
    <3>2. Prefix(w)
      BY <1>1, <3>1 DEF IInv, HeldPrefix
    <3> QED
      BY <3>1, <3>2 DEF Prefix
  <2> QED
    BY <1>1, <2>1, <2>2, <2>3, OutcomeAssumption DEF IInv, TypeOK, Rule
<1>2. IInv => PrefixOnly
  BY <1>1 DEF PrefixOnly
<1> QED
  BY <1>2, Invariance, PTL

\* A run that was cancelled without a deadline returns a rule's error.
THEOREM FailFastReturnsError == Spec => []FailFastSurfaces
<1>1. IInv => FailFastSurfaces
  BY DEF FailFastSurfaces, IInv, CancelCause, Phases, ErrorsExact
<1> QED
  BY <1>1, Invariance, PTL

-----------------------------------------------------------------------------
(* The engine implements RuleEvaluation *)

\* Publishing closes the rule with the prefix the worker decided.
LEMMA PublishCloses ==
  ASSUME IInv, IInv', NEW w \in Worker, Publish(w)
  PROVE  Evaluation!Close(job[w])
<1> DEFINE r == job[w]
<1>1. /\ r \in Rule /\ r < next /\ Holds(w) /\ Prefix(w)
      /\ ~cancelled => pos[w] = Candidates[r]
  BY DEF IInv, TypeOK, Publish, HeldOnce, HeldPrefix, Rule
<1>2. r \notin Closed
  BY <1>1 DEF Closed
<1>3. Closed' = Closed \cup {r}
  <2>1. /\ job' = job /\ next' = next
        /\ \A v \in Worker : v # w => pc'[v] = pc[v]
        /\ pc'[w] = "count"
    BY DEF Publish, IInv, TypeOK
  <2>2. \A v \in Worker : Holds(v) /\ job[v] = r => v = w
    BY <1>1 DEF IInv, HeldOnce
  <2> QED
    BY <1>1, <2>1, <2>2 DEF Closed
<1>4. pos[w] \in 0..Candidates[r] /\ (cancelled \/ pos[w] = Candidates[r])
  BY <1>1 DEF Prefix
<1>5. findings' = [findings EXCEPT ![r] = Found(r, pos[w])]
  BY <1>1 DEF Publish, Prefix, IInv, TypeOK
<1>6. cancelled' \in {cancelled, TRUE} /\ phase' = phase
  BY DEF Publish, IInv, TypeOK
<1> QED
  BY <1>2, <1>3, <1>4, <1>5, <1>6 DEF Evaluation!Close, Evaluation!Found, Found,
     Evaluation!Node, Node

\* A dropped rule is closed with nothing decided.
LEMMA DropCloses ==
  ASSUME IInv, IInv', Drop
  PROVE  Evaluation!Close(next)
<1>1. next \in Rule /\ next \notin Closed
  BY OutcomeAssumption DEF Drop, IInv, TypeOK, Rule, Closed
<1>2. Closed' = Closed \cup {next}
  <2>1. next' = next + 1 /\ job' = job /\ pc' = pc
    BY DEF Drop
  <2>2. \A v \in Worker : Holds(v) => job[v] # next
    BY <1>1 DEF IInv, HeldOnce, Rule
  <2> QED
    BY <1>1, <2>1, <2>2 DEF Closed, Rule
<1>3. findings[next] = {} /\ Found(next, 0) = {} /\ 0 \in 0..Candidates[next]
  BY <1>1, EmptyPrefix, OutcomeAssumption DEF IInv, Untouched, Rule
<1>4. findings' = [findings EXCEPT ![next] = Found(next, 0)]
  BY <1>1, <1>3 DEF Drop, IInv, TypeOK
<1>5. cancelled /\ cancelled' = cancelled /\ phase' = phase
  BY DEF Drop
<1> QED
  BY <1>1, <1>2, <1>3, <1>4, <1>5 DEF Evaluation!Close, Evaluation!Found, Found,
     Evaluation!Node, Node

\* Every other step closes nothing, or is the deadline or the return.
LEMMA OtherSteps ==
  ASSUME IInv, IInv', [Next]_vars, ~Drop, \A w \in Worker : ~Publish(w)
  PROVE  Evaluation!Abort \/ Evaluation!Return \/ UNCHANGED Evaluation!absVars
<1> USE DEF Evaluation!absVars
<1>1. CASE UNCHANGED vars \/ Terminated
  BY <1>1 DEF vars, Terminated, Closed
<1>2. CASE CloseJobs
  BY <1>2 DEF CloseJobs, Closed
<1>3. CASE Finish
  <2>1. UNCHANGED <<Closed, findings, cancelled>> /\ phase' = "done"
    BY <1>3 DEF Finish, Closed
  <2>2. Closed = Rule
    BY <1>3, OutcomeAssumption DEF Finish, IInv, Phases, Closed, Rule
  <2> QED
    BY <2>1, <2>2 DEF Evaluation!Return, Evaluation!Rule, Rule
<1>4. CASE Expire
  BY <1>4 DEF Expire, Closed, Evaluation!Abort
<1>5. ASSUME NEW w \in Worker, Send(w)
      PROVE  UNCHANGED Evaluation!absVars
  <2>1. /\ next' = next + 1 /\ job'[w] = next /\ pc'[w] = "iterate" /\ pc[w] = "idle"
        /\ \A v \in Worker : v # w => job'[v] = job[v] /\ pc'[v] = pc[v]
        /\ UNCHANGED <<findings, cancelled, phase>> /\ next \in Nat
    BY <1>5 DEF Send, IInv, TypeOK
  <2>2. Closed' = Closed
    BY <2>1 DEF Closed, Rule
  <2> QED
    BY <2>1, <2>2
<1>6. ASSUME NEW w \in Worker, WorkerStep(w)
      PROVE  UNCHANGED Evaluation!absVars
  <2>1. /\ UNCHANGED <<findings, cancelled, phase, next, job>>
        /\ \A v \in Worker : v # w => pc'[v] = pc[v]
        /\ Holds(w)' <=> Holds(w)
    <3>1. CASE StopIterating(w) \/ GuardSkips(w) \/ GuardsPass(w)
      BY <3>1 DEF StopIterating, GuardSkips, GuardsPass, IInv, TypeOK
    <3>2. CASE CostCancelled(w) \/ CostSkips(w) \/ CostFinds(w)
      BY <3>2 DEF CostCancelled, CostSkips, CostFinds, IInv, TypeOK
    <3>3. CASE Count(w) \/ Report(w) \/ Leave(w)
      BY <3>3 DEF Count, Report, Leave, IInv, TypeOK
    <3> QED
      BY <1>6, <3>1, <3>2, <3>3 DEF WorkerStep
  <2>2. Closed' = Closed
    BY <2>1 DEF Closed
  <2> QED
    BY <2>1, <2>2
<1> QED
  BY <1>1, <1>2, <1>3, <1>4, <1>5, <1>6 DEF Next, Dispatcher

\* Every behaviour of the engine, seen through the refinement mapping, is one of
\* the worker-free evaluation.
THEOREM Refinement == Spec => ImplementsEvaluation
<1>1. Init => Evaluation!AbsInit
  BY DEF Init, Evaluation!AbsInit, Evaluation!Rule, Closed, Rule
<1>2. IInv /\ IInv' /\ [Next]_vars => [Evaluation!AbsNext]_(Evaluation!absVars)
  <2> SUFFICES ASSUME IInv, IInv', [Next]_vars
               PROVE  Evaluation!AbsNext \/ UNCHANGED Evaluation!absVars
    OBVIOUS
  <2>1. ASSUME NEW w \in Worker, Publish(w)
        PROVE  Evaluation!AbsNext
    <3>1. job[w] \in Rule
      BY <2>1 DEF Publish, IInv, HeldOnce, TypeOK, Rule
    <3> QED
      BY <2>1, <3>1, PublishCloses DEF Evaluation!AbsNext, Evaluation!Rule, Rule
  <2>2. CASE Drop
    <3>1. next \in Rule
      BY <2>2, OutcomeAssumption DEF Drop, IInv, TypeOK, Rule
    <3> QED
      BY <2>2, <3>1, DropCloses DEF Evaluation!AbsNext, Evaluation!Rule, Rule
  <2> QED
    BY <2>1, <2>2, OtherSteps DEF Evaluation!AbsNext
<1> QED
  BY <1>1, <1>2, Invariance, PTL DEF Spec, ImplementsEvaluation, Evaluation!AbsSpec
=============================================================================
