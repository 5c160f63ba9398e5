SPECIFICATION TestSpec
CONSTANTS
  Pods = {p1, p2}
  Replicas = 1
  MaxRuns = 3
  MaxFailures = 2
  Foreign = FALSE
INVARIANTS OnlyThisRunsPods
PROPERTIES RunEnds
CHECK_DEADLOCK FALSE
