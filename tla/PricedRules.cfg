CONSTANTS
  Workers <- Everyone
  Scenes <- MCScenes
  Ladders <- MCLadders
  PrefixOf <- MCPrefixOf
  Spelling <- MCSpelling
SPECIFICATION Spec
INVARIANTS
  TypeOK
  LookupsAgree
  ExcessIsABound
  EvidenceNamesTheSource
  IgnoranceNeverFires
  ListedPricesResolve
PROPERTIES
  RulesEnd
