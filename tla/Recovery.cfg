SPECIFICATION Spec
CONSTANTS
  None = None
  Seed = Seed
  MaxAttempts = 3
  MaxStops = 2
INVARIANTS FailsClosed OneRuntimePerImport ImportIsWhole
PROPERTIES NeverOverwritten
CHECK_DEADLOCK FALSE
