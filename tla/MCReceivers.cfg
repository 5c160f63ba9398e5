SPECIFICATION FairSpec
CONSTANTS
  Updaters = {u1, u2}
  h1 = h1
  h2 = h2
  b1 = b1
  b2 = b2
  Hosts <- MCHosts
  Bindings <- MCBindings
  Unset = Unset
  Rests = {r1, r2}
  EditLists <- MCEditLists
  MaxEdits = 2
  MaxFaults = 1
INVARIANTS TypeOK CopyIsCurrent SomeUpdateWins ReadYourUpdate
PROPERTIES Termination EntriesKept NoNewDuplicates ImplementsRegistry
