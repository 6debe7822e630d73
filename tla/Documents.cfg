SPECIFICATION Spec
CONSTANTS
  d1 = d1
  d2 = d2
  d3 = d3
  None = None
  Docs <- MCDocs
  Legacy <- MCLegacy
  Modes = {"tree", "rgm"}
  MayFail = {"open", "apply", "write", "restore", "library"}
  MaxStops = 1
INVARIANTS StoresAgree MemoryIsTree
PROPERTIES PacketsAreBacked MigrationRepairs
