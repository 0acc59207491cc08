CONSTANTS
  Wrap = 12
  MaxLag = 2
  MinMs = 3
  DefaultMs = 5
  Intervals <- MCIntervals
  Readings <- MCReadings
  Invalid = Invalid
  None = None
SPECIFICATION Spec
INVARIANTS TypesAndMinimum Punctual BackendClose
PROPERTIES NeverEarly FirstAtOnce Told
