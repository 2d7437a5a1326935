CONSTANTS
  Worlds <- MCWorlds
  Scopes <- MCScopes
  Modes <- MCModes
  Explicit <- MCExplicit
  Nobody = Nobody
SPECIFICATION Spec
INVARIANT
  NeverAShorterList
