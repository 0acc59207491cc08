SPECIFICATION Spec
CONSTANTS
  MaxSubscriptions = 1
  Plays = 1
  UpSize = 3
  DownSize = 2
INVARIANTS TypeOK WholeOnWire CrashOnlyAtClose
PROPERTIES WritesEnd StopNoticed StationFree StationWindsDown
CHECK_DEADLOCK FALSE
