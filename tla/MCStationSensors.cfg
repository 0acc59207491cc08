CONSTANTS
  Requests <- SensorRequests
  ReadySets <- AllReady
  MaxRequests = 2
  MaxTx = 4
  MaxSessions = 2
SPECIFICATION Spec
INVARIANTS IdleClean FirstReport FailedSendEnds
PROPERTIES ImplementsService PassBounded
