CONSTANTS
  Clients = {c1, c2}
  Tokens = {t1, t2, t3}
  NoToken = NoToken
  LockTtl = 2
  LockRetry = 2
SPECIFICATION Spec
INVARIANTS
  TypeOK
  LeaseExcludes
PROPERTIES
  LockFreed
