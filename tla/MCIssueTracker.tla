---------------------------- MODULE MCIssueTracker ----------------------------
(* Small instances of IssueTracker: a manager and developers, one issue.       *)
EXTENDS IssueTracker, TLC

CONSTANTS boss, dev1, dev2

MCRole == [u \in Users |-> IF u = boss THEN "manager" ELSE "developer"]

Symmetry == Permutations(Reqs) \cup Permutations(Users \ {boss})

=============================================================================
