SPECIFICATION Spec
CONSTANTS
  Layouts = {"secret"}
  Kept = {TRUE}
  MaxRotations = 0
  MaxCrashes = 1
INVARIANTS PemConverted
