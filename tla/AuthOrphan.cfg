\* Two workers: a login between the two round trips of revoke_all_refresh.
SPECIFICATION Spec
CONSTANTS
  u1 = u1
  Users = {u1}
  Jtis = {j1, j2}
  Sub <- MCSub
  MaxTime = 1
  AccessTTL = 1
  RefreshTTL = 2
  Reqs = {r1, r2}
  Ops = {"login", "logout_all"}
  Passwords = {p1}
  StoreMayFail = FALSE
  None = None
SYMMETRY Symmetry
INVARIANTS RevokedStayDead
