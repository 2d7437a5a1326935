CONSTANTS
  Worlds <- MCWorlds
  Scopes <- MCScopes
  Modes <- MCModes
  Explicit <- MCExplicit
  Nobody = Nobody
SPECIFICATION Spec
INVARIANTS
  TypeOK
  AccountsAreWhole
  AccountsAreReported
  AttachedExactly
  ReadWithOwnersCredentials
