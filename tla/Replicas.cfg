\* The two replicas of the deployment, two overlapping requests, two sessions in all.
SPECIFICATION Spec
CONSTANTS
  Replicas = {i1, i2}
  Redis = redis
  Reqs = {r1, r2}
  Tokens = {t1, t2}
  Ops = {"refresh", "logout", "logout_all"}
  None = None
SYMMETRY Symmetry
INVARIANTS TypeOK RetiredEverywhere EndedForGood
