\* One request is enough to see an error that /metrics does not count.
SPECIFICATION Spec
CONSTANTS
  Reqs = {r1}
  Threads = 1
  Conns = 1
  None = None
INVARIANTS ErrorsCounted
CHECK_DEADLOCK FALSE
