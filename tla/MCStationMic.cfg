CONSTANTS
  Requests <- StreamRequests
  ReadySets <- NoMicrophone
  MaxRequests = 1
  MaxTx = 1
  MaxSessions = 1
SPECIFICATION Spec
INVARIANTS AckMeansReady
