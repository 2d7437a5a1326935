---------------------------- MODULE MCRuleEngine ----------------------------
(* Three rules over up to three candidates, two workers.  The first rule has  *)
(* one candidate of every sort of outcome that is not a guard's, the second   *)
(* fails, and the third has no candidate at all.                              *)
EXTENDS RuleEngine

MCCandidates == <<3, 2, 0>>
MCOutcome == << <<"finding", "noprice", "finding">>,
                <<"skip", "finding", "cheap">>,
                <<"cheap", "cheap", "cheap">> >>
=============================================================================
