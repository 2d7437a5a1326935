CONSTANTS
  NumRules = 3
  MaxNodes = 3
  Candidates <- MCCandidates
  Outcome <- MCOutcome
  Worker = {w1, w2}
  Failing = {2}
SPECIFICATION Spec
INVARIANTS
  TypeOK
  ScheduleIndependent
  PrefixOnly
  NothingLostAtJoin
  FailFastSurfaces
PROPERTIES
  RunReturns
  ImplementsEvaluation
