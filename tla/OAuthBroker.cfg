SPECIFICATION Spec
CONSTANTS
  t1 = t1
  t2 = t2
  t3 = t3
  Threads <- MCThreads
  None = None
  MaxLogins = 2
  MaxTokens = 2
  MaxStops = 1
SYMMETRY Symmetric
INVARIANTS OneGeneration NewestIsKept RestartKeepsSignIn SignedOutStays
