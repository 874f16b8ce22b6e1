\* Two threads of one process.
SPECIFICATION Spec
CONSTANTS
  Threads = {t1, t2}
  Jtis = {j1, j2}
  Dicts = {d1, d2}
  TTL = 1
  MarkTTL = 1
  MaxTime = 1
  None = None
SYMMETRY Symmetry
INVARIANTS TypeOK AddedAloneIsKept MarkerSetAloneIsKept
PROPERTIES SessionsFollowLifecycle DeadNeverReported
