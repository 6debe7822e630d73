SPECIFICATION Spec
CONSTANTS
  Threads = {t1, t2}
  Exchanges = {x1, x2}
  Sessions = {s1}
  Drafts = {d1}
  None = None
  MaxMoves = 1
  MaxCrashes = 1
SYMMETRY Names
INVARIANTS TypeOK AtMostOneRequest GenerationIsOwned TurnsInOrder
PROPERTIES OutcomesAreKept
