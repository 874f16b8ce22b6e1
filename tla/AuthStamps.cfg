\* Two workers: two overlapping logout-alls store their stamps in the wrong order.
SPECIFICATION Spec
CONSTANTS
  u1 = u1
  Users = {u1}
  Jtis = {j1, j2}
  Sub <- MCSub
  MaxTime = 2
  AccessTTL = 2
  RefreshTTL = 3
  Reqs = {r1, r2}
  Ops = {"login", "logout_all"}
  Passwords = {p1}
  StoreMayFail = FALSE
  None = None
SYMMETRY Symmetry
INVARIANTS AccessCutHolds
