SPECIFICATION Spec
CONSTANTS
  Clients = {c1, c2}
  Capacity = 2
  Quantum = 2
  FillInterval = 2
  Counts = {1, 2}
  MaxWaits = {0, 3}
  MaxTime = 6
  MaxTakes = 4
INVARIANTS LongRunRate
CHECK_DEADLOCK FALSE
