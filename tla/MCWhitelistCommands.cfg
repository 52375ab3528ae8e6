CONSTANTS
  h1 = h1  h2 = h2  n1 = n1
  Handlers <- MCHandlers
  Names <- MCNames
  SetCallers = {h1}
SPECIFICATION Spec
INVARIANT TypeOK
PROPERTY WhitelistStoreRefined
