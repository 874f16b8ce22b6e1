\* Two workers: the same refresh token twice.
SPECIFICATION Spec
CONSTANTS
  u1 = u1
  Users = {u1}
  Jtis = {j1, j2, j3}
  Sub <- MCSub
  MaxTime = 1
  AccessTTL = 1
  RefreshTTL = 2
  Reqs = {r1, r2}
  Ops = {"login", "refresh", "me"}
  Passwords = {p1}
  StoreMayFail = FALSE
  None = None
SYMMETRY Symmetry
INVARIANTS SingleSuccessor
