CONSTANTS
  Requests <- StreamRequests
  ReadySets <- AllReady
  MaxRequests = 3
  MaxTx = 3
  MaxSessions = 2
SPECIFICATION Spec
INVARIANTS TypeOK SubscriptionsFollowRequests DataOnlyWhileSubscribed SequenceContiguous
PROPERTIES FreshCapture
