\* One PATCH raises the priority and closes.
SPECIFICATION Spec
CONSTANTS
  boss = boss
  dev1 = dev1
  dev2 = dev2
  Users = {boss}
  Role <- MCRole
  Issues = {i1}
  Priorities = {"medium", "critical"}
  Reqs = {r1}
  MaxComments = 1
  None = None
  Unset = Unset
SYMMETRY Symmetry
PROPERTY CriticalClosedWithComment
