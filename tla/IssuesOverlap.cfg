\* Two PATCH requests overlap.
SPECIFICATION Spec
CONSTANTS
  boss = boss
  dev1 = dev1
  dev2 = dev2
  Users = {boss, dev1}
  Role <- MCRole
  Issues = {i1}
  Priorities = {"critical"}
  Reqs = {r1, r2}
  MaxComments = 1
  None = None
  Unset = Unset
SYMMETRY Symmetry
INVARIANTS TypeOK CountedBeforeClosing
PROPERTIES ReassignedByManagerOrReporter OffTableOnlyIfOvertaken
