CONSTANTS
  Inventories <- MCInventories
  Modelled <- MCModelled
  Canonical <- MCCanonical
SPECIFICATION Spec
INVARIANTS
  TypeOK
  HierarchyIsExact
  DetachedExactly
  ReplayPreservesView
