\* One worker, any round trip may fail: rotation, logout-all and password changes.
SPECIFICATION Spec
CONSTANTS
  u1 = u1
  Users = {u1}
  Jtis = {j1, j2, j3}
  Sub <- MCSub
  MaxTime = 3
  AccessTTL = 2
  RefreshTTL = 3
  Reqs = {r1}
  Ops = {"login", "refresh", "logout_all", "change_password"}
  Passwords = {p1, p2}
  StoreMayFail = TRUE
  None = None
SYMMETRY Symmetry
INVARIANTS RevokedStayDead SingleSuccessor AccessCutHolds PasswordChangeRevokes
