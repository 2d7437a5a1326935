--------------------------- MODULE RuleEvaluation ---------------------------
(***************************************************************************)
(* What a run of the rule engine promises, with no workers in it: every    *)
(* selected rule is closed once, and closing a rule publishes the findings *)
(* of a prefix of its candidates, the whole of them unless the run was     *)
(* cancelled before.  The run is finished when every rule is closed.       *)
(***************************************************************************)
EXTENDS RuleOutcomes

VARIABLES
  closed,     \* the rules whose evaluation is over, or that were dropped
  published,  \* published[r]: the nodes rule r reported
  cancelled,  \* the run's context is done
  finished    \* the result was handed to the caller

absVars == <<closed, published, cancelled, finished>>

AbsInit ==
  /\ closed = {}
  /\ published = [r \in Rule |-> {}]
  /\ cancelled = FALSE
  /\ finished = FALSE

Close(r) ==
  /\ r \notin closed
  /\ closed' = closed \cup {r}
  /\ \E p \in 0..Candidates[r] :
        /\ cancelled \/ p = Candidates[r]
        /\ published' = [published EXCEPT ![r] = Found(r, p)]
  /\ cancelled' \in {cancelled, TRUE}
  /\ UNCHANGED finished

Abort ==
  /\ cancelled' = TRUE
  /\ UNCHANGED <<closed, published, finished>>

Return ==
  /\ closed = Rule
  /\ finished' = TRUE
  /\ UNCHANGED <<closed, published, cancelled>>

AbsNext == Abort \/ Return \/ \E r \in Rule : Close(r)

AbsSpec == AbsInit /\ [][AbsNext]_absVars
=============================================================================
