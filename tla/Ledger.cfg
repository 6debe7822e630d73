SPECIFICATION Spec
CONSTANTS
  Writers = {desktop, daemon}
  Readers = {loader}
  Objects = {o1, o2}
  Keys = {k1, k2, k3}
  None = None
  MaxVersion = 2
SYMMETRY Names
INVARIANTS LedgerChain ReplayRebuildsState OkMeansCommittedOnce LoadLagsOnlyInVersion
PROPERTIES HistoryIsKept ImplementsDecisionLog
