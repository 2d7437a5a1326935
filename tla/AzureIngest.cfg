CONSTANTS
  Worlds <- MCWorlds
  Scopes <- MCScopes
  MaxMoves = 2
  Spelling <- MCSpelling
SPECIFICATION Spec
INVARIANTS
  TypeOK
  OneContainer
  ShapesFromWholeLoads
PROPERTIES
  ImplementsOwnerIngest
