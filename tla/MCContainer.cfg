SPECIFICATION ContainerSpec
CONSTANTS
  Layouts = {"secret", "shared", "pemOnly"}
  Kept = {TRUE, FALSE}
  MaxRotations = 2
  MaxCrashes = 3
  QLen = 2
  SockLen = 1
  MaxSent = 4
INVARIANTS LogSocketBound Accounted LogInOrder
PROPERTIES PemKept RecoversUnlessTorn LoggedIsPrinted
