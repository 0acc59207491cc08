CONSTANTS
  kHeaderSize = 2
  kMaxPayload = 2
  RX_BUFFER_SIZE = 6
  Payloads <- MCPayloads
  MaxSent = 3
  MaxSessions = 2
SPECIFICATION Spec
INVARIANTS TypeOK NoUnderflow BoundedResidue Reassembly
PROPERTIES OverflowMeansBacklog Progress ImplementsChannel
