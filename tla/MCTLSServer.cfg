SPECIFICATION FairSpec
CONSTANTS
  Host = "foo.bar.com"
  IPs = {"10.0.1.175"}
  MaxSleep = 60
  MaxFaults = 2
INVARIANTS TypeOK OnlyOwnServer BackoffBounded GivesUpLate
PROPERTIES FailureReported Served
