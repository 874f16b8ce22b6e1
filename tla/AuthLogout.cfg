\* Two workers: logouts against refreshes and bearer checks.
SPECIFICATION Spec
CONSTANTS
  u1 = u1
  Users = {u1}
  Jtis = {j1, j2}
  Sub <- MCSub
  MaxTime = 2
  AccessTTL = 1
  RefreshTTL = 2
  Reqs = {r1, r2}
  Ops = {"login", "refresh", "logout", "me"}
  Passwords = {p1}
  StoreMayFail = FALSE
  None = None
SYMMETRY Symmetry
INVARIANTS TypeOK RetiredStaysBlacklisted
PROPERTIES RetiredNeverHonoured
