\* Overlapping refreshes of a session, with three sessions in all.
SPECIFICATION Spec
CONSTANTS
  Replicas = {i1, i2}
  Redis = redis
  Reqs = {r1, r2}
  Tokens = {t1, t2, t3}
  Ops = {"refresh"}
  None = None
SYMMETRY Symmetry
INVARIANTS ExchangedOnceUnlessRaced RetiredEverywhere
