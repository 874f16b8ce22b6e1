\* Redis: every attempt renews the window.
SPECIFICATION Spec
CONSTANTS
  Reqs = {r1}
  Backends = {"redis"}
  Limit = 2
  Window = 3
PROPERTY LockoutEnds
