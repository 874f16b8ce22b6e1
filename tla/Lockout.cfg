\* Either store, two logins at once.
SPECIFICATION Spec
CONSTANTS
  Reqs = {r1, r2}
  Backends = {"redis", "memory"}
  Limit = 2
  Window = 3
INVARIANTS TypeOK AttemptsLimited
PROPERTY MemoryLockoutEnds
