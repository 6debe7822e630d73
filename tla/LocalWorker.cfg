SPECIFICATION WorkerSpec
CONSTANTS
  c1 = c1
  c2 = c2
  Callers <- MCCallers
  Nobody = Nobody
  MaxRequests = 3
  MaxChunks = 2
  MaxFaults = 2
INVARIANTS AnswersAreOwn InStep
PROPERTIES EveryCallReturns
CHECK_DEADLOCK FALSE
