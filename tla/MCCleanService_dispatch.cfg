SPECIFICATION Spec
CONSTANTS
  None = None
  NoHash = NoHash
  first = first
  changed = changed
  again = again
  t1 = t1
  t2 = t2
  report = report
  logo = logo
  Requests = {first, again}
  Modules <- MCModules
  Elements <- MCElements
  Task <- MCTask
  Doc <- MCDoc
  MaxCrashes = 0
INVARIANTS
  SuccessMeansDispatched
CHECK_DEADLOCK FALSE
