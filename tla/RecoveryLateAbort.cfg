SPECIFICATION Spec
CONSTANTS
  None = None
  Seed = Seed
  MaxAttempts = 2
  MaxStops = 0
INVARIANTS ImportIsAtomic
CHECK_DEADLOCK FALSE
