CHECK_DEADLOCK FALSE
SPECIFICATION Spec
CONSTANTS
  g1 = g1
  s1 = s1
  s2 = s2
  s3 = s3
  r1 = r1
  r2 = r2
  None = None
  Processes <- MCProcesses
  Sources <- MCSources
  Relations <- MCRelations
  Asked <- MCAsked
  States <- MCStates
  Opposing <- MCOpposing
  MaxMemories = 2
  MaxTime = 1
INVARIANTS TypeOK LinksAcyclic TreeIsCatalog
PROPERTIES EvidenceIsCurrent
