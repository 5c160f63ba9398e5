SPECIFICATION Spec
CONSTANTS
  Originals = {0, 1, 3}
  Desireds = {0, 1, 2}
  Limits <- MCLimits
  Policies = {"Delete", "Preserve"}
  MaxFaults = 2
  MaxFails = 1
INVARIANTS SurgeBounded
PROPERTIES KeepsAvailable Rolls
CHECK_DEADLOCK FALSE
