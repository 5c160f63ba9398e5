SPECIFICATION Spec
CONSTANTS
  Goroutines = {g1, g2}
  MaxLines = 2
  Buffer = 1
  MaxSize = 3
  Faults = 1
INVARIANTS InOrder FatalIsWritten
PROPERTIES FatalEnds
CHECK_DEADLOCK FALSE
