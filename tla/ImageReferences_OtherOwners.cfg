CONSTANT
  Worlds <- MCWorlds
SPECIFICATION Spec
INVARIANT
  UnusedIsUnused
