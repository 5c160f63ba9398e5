SPECIFICATION Spec
CONSTANTS
  Updaters = {u1}
  h1 = h1
  h2 = h2
  b1 = b1
  b2 = b2
  Hosts <- MCHosts
  Bindings <- MCBindings
  Unset = Unset
  Rests = {r1}
  EditLists <- MCEditLists
  MaxEdits = 0
  MaxFaults = 0
INVARIANTS UpdateReturns
