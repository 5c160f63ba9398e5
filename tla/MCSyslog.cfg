SPECIFICATION FairSpec
CONSTANTS
  QLen = 2
  SockLen = 2
  MaxSent = 6
INVARIANTS TypeOK InOrder BurstKept Drained
PROPERTIES ShutdownEnds
