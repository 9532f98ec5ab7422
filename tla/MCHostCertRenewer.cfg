CONSTANTS
  Lifetime <- MCLifetime
  Backdate <- MCBackdate
  FracNum = 3
  FracDen = 5
  MinRenewInterval = 2
  RetryBackoff = 1
  MaxTime = 7
  None = None
SPECIFICATION Spec
INVARIANTS
  TypeOK
  FileIsWhole
  FreshWhileSigning
