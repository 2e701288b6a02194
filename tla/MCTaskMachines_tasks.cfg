CONSTANTS
  Threads = {t1, t2}
  Machines = {m1, m2}
  None = None
  MaxTransitions = 11
  MaxMixed = 6
SYMMETRY Symmetric
SPECIFICATION Spec
INVARIANTS
  SuccessAfterWholeRun
  EveryStagePassed
  HandleIsRegistered
