\* Two PATCH requests overlap: transitions decided on a stale row.
SPECIFICATION Spec
CONSTANTS
  boss = boss
  dev1 = dev1
  dev2 = dev2
  Users = {boss}
  Role <- MCRole
  Issues = {i1}
  Priorities = {"medium"}
  Reqs = {r1, r2}
  MaxComments = 1
  None = None
  Unset = Unset
SYMMETRY Symmetry
PROPERTY StatusFollowsTable
