\* Three requests, two threads, one connection; a replica may run out of requests.
SPECIFICATION Spec
CONSTANTS
  Reqs = {r1, r2, r3}
  Threads = 2
  Conns = 1
  None = None
INVARIANTS TypeOK StallNeedsOverload CountedAreMarked SnapshotConsistent
PROPERTY EveryRequestAnswered
CHECK_DEADLOCK FALSE
