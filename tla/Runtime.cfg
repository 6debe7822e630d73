SPECIFICATION Spec
CONSTANTS
  p1 = p1
  p2 = p2
  k1 = k1
  k2 = k2
  None = None
  Processes <- MCProcesses
  Keys <- MCKeys
  Anchored <- MCAnchored
  Settings = {"default", "changed"}
  Default = "default"
  Starts = {"new"}
  Calls = {"commit", "settings", "save", "restore"}
  Shared = {"commit"}
  MayFail = {"open", "commit", "reload", "save"}
  MaxSaved = 1
  MaxLength = 2
  MaxCrashes = 1
CHECK_DEADLOCK FALSE
INVARIANTS TypeOK HeadCoherent MemoryIsHead 
PROPERTIES OpenRecovers CommitsAreKept
