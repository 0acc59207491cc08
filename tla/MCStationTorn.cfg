CONSTANTS
  Requests <- StreamRequests
  ReadySets <- AllReady
  MaxRequests = 2
  MaxTx = 3
  MaxSessions = 1
SPECIFICATION Spec
INVARIANTS TornIsLast
