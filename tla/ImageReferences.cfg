CONSTANT
  Worlds <- MCWorlds
SPECIFICATION Spec
INVARIANTS
  TypeOK
  UnusedWhereLooked
  SnapshotBilledOnce
