CONSTANTS
  Process <- MCProcess
  Owner = {"prod", "dev"}
  Resource <- MCResource
  OwnerOf <- MCOwnerOf
  Gated = {"vm"}
  NeedsMetric = {"vm"}
  Sized = {"vm"}
  OldFrom <- MCOldFrom
  Wasteful <- MCWasteful
  Flags <- MCFlags
  MaxName = 2
SPECIFICATION Spec
INVARIANTS
  TypeOK
  ReplayRepeatsFindings
  ArtifactsBeforeOutput
  ConsecutiveScansKeepArtifacts
  
PROPERTIES
  ScansEnd
