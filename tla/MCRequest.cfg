SPECIFICATION Spec
CONSTANTS
  Verbs = {"GET", "PUT", "POST"}
  BodyLen = 1
  MaxRetries = 10
  Codes = {200, 207, 301, 409, 429, 500}
  Success = {200}
INVARIANTS FirstErrorStops
PROPERTIES ImplementsCall DoEnds
CHECK_DEADLOCK FALSE
