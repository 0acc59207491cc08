CONSTANTS
  Requests <- CommandRequests
  ReadySets <- SomeReady
  MaxRequests = 2
  MaxTx = 1
  MaxSessions = 2
SPECIFICATION Spec
INVARIANTS AnsweredInOrder
PROPERTIES Reconnect EventuallyHandled ReadsChannel
