CONSTANTS
  c1 = c1  c2 = c2  c3 = c3  n1 = n1  n2 = n2  n3 = n3
  None = None
  Conns <- MCConns
  Names <- MCNames
  BannedIps <- MCBannedIps
  BannedNames <- MCBannedNames
SPECIFICATION Spec

INVARIANT NoDuplicateSessions
