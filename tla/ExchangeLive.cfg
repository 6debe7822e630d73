SPECIFICATION Spec
CONSTANTS
  Threads = {t1, t2}
  Exchanges = {x1}
  Sessions = {s1, s2}
  Drafts = {d1}
  None = None
  MaxMoves = 0
  MaxCrashes = 1
PROPERTIES EveryCallReturns SendingEnds
