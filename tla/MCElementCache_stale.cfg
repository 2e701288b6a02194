CONSTANTS
  Procs = {p1, p2}
  Threads = {t1, t2}
  Versions = {v1, v2, v3}
  None = None
  L1Ttl = 2
  L2Ttl = 3
  CallTicks = 1
SYMMETRY Symmetric
SPECIFICATION Spec
INVARIANT
  BoundedStaleness
