---------------------------- MODULE RuleOutcomes ----------------------------
(***************************************************************************)
(* What a rule says of each of its candidate resources, as data.           *)
(*                                                                         *)
(* A rule walks the nodes of its kind in the order of the frozen graph     *)
(* (pkg/graph/query.go ByKind), so its candidates are numbered             *)
(* 1 .. Candidates[r].  What the evaluation skeleton of pkg/rules/adapt.go *)
(* decides for a candidate depends on the rule and the node alone, unless  *)
(* the scan is cancelled, and is one of                                    *)
(*   "skip"     the exempt label or the first failing guard,               *)
(*   "noprice"  the cost needs a price the catalogue does not have,        *)
(*   "cheap"    no cost branch reaches the rule's minimum waste,           *)
(*   "finding"  the highest branch is reported.                            *)
(***************************************************************************)
EXTENDS Naturals

CONSTANTS
  NumRules,     \* the selected rules are 1 .. NumRules, in dispatch order
  MaxNodes,     \* bound on the candidates of one rule
  Candidates,   \* Candidates[r]: how many nodes of its kind the graph holds
  Outcome       \* Outcome[r][n]: what the skeleton decides for node n

Rule == 1..NumRules
Node == 1..MaxNodes
OutcomeKind == {"skip", "noprice", "cheap", "finding"}

ASSUME OutcomeAssumption ==
  /\ NumRules \in Nat
  /\ MaxNodes \in Nat
  /\ Candidates \in [Rule -> 0..MaxNodes]
  /\ Outcome \in [Rule -> [Node -> OutcomeKind]]

\* The findings, and the skips, of the first p candidates of rule r.
Found(r, p)   == {n \in Node : n <= p /\ Outcome[r][n] = "finding"}
Skipped(r, p) == {n \in Node : n <= p /\ Outcome[r][n] # "finding"}
=============================================================================
