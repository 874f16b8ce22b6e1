\* Two workers, any round trip may fail: the sessions of a user and their index.
SPECIFICATION Spec
CONSTANTS
  u1 = u1
  Users = {u1}
  Jtis = {j1, j2, j3}
  Sub <- MCSub
  MaxTime = 2
  AccessTTL = 1
  RefreshTTL = 2
  Reqs = {r1, r2}
  Ops = {"login", "refresh", "logout_all"}
  Passwords = {p1}
  StoreMayFail = TRUE
  None = None
SYMMETRY Symmetry
INVARIANTS IndexOutlivesSessions
PROPERTIES SessionsFollowLifecycle
