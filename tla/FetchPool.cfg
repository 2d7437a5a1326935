CONSTANTS
  Slot <- MCSlot
  Plans <- MCPlans
  Limit = 2
SPECIFICATION Spec
INVARIANTS
  TypeOK
  NoPartialSeries
  FailureIsolated
PROPERTIES
  FillReturns
