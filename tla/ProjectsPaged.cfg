\* Two writing requests beside a walk through the pages.
SPECIFICATION Spec
CONSTANTS
  Ids = {p1, p2, p3}
  Reqs = {r1, r2}
  Limits = {1}
  Filters = {FALSE, None}
  None = None
  Unset = Unset
SYMMETRY Symmetry
INVARIANTS TypeOK WalkMissesNothing TwiceOnlyIfCutIn
