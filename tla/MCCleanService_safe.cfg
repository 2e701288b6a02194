SPECIFICATION FairSpec
CONSTANTS
  None = None
  NoHash = NoHash
  first = first
  changed = changed
  again = again
  t1 = t1
  t2 = t2
  report = report
  logo = logo
  Requests = {first, changed}
  Modules <- MCModules
  Elements <- MCElements
  Task <- MCTask
  Doc <- MCDoc
  MaxCrashes = 1
INVARIANTS
  TypeOK
  SettledRegistryComplete
  DuplicatesHaveOriginal
  StoredAreWhole
  PairsMatch
PROPERTIES
  EveryRequestEnds
CHECK_DEADLOCK FALSE
