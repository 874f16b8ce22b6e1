----------------------------- MODULE IssueTracker -----------------------------
(***************************************************************************)
(* app/api/routes/issues.py and comments.py over the issues and comments   *)
(* tables.  PATCH /issues/{id} reads the row, decides on what it read, and *)
(* commits an UPDATE of the columns it changed; the database runs at READ  *)
(* COMMITTED and no row is locked, so a request decides on values that     *)
(* another may have replaced.  A step is one round trip to the database    *)
(* with the computation up to the next one.                                *)
(*                                                                         *)
(* Columns no rule depends on (title, description, due date, comment text) *)
(* are left out, and with them PATCH /comments/{id}, which changes only    *)
(* text.  No endpoint deletes an issue or a comment, or changes a role or  *)
(* a reporter.                                                             *)
(***************************************************************************)
EXTENDS Naturals

CONSTANTS
  Users,
  Role,         \* users.role
  Issues,       \* ids that POST /issues will draw
  Priorities,   \* the priorities clients use
  Reqs,         \* worker slots: as many PATCH requests overlap
  MaxComments,  \* bound: comments per issue
  None,         \* SQL NULL, and "no such row"
  Unset         \* a field that a body does not name

Status == {"open", "in_progress", "resolved", "closed", "reopened"}

Row == [status : Status, priority : Priorities,
        reporter : Users, assignee : Users \cup {None}]

ASSUME RoleAssumption == Role \in [Users -> {"developer", "manager", "admin"}]
ASSUME PriorityAssumption == Priorities \subseteq {"low", "medium", "high", "critical"}
ASSUME NoneAssumption == None \notin Users \cup {Unset} \cup Row
ASSUME UnsetAssumption == Unset \notin Users \cup Priorities \cup Status
ASSUME CommentsAssumption == MaxComments \in Nat

VARIABLES
  issue,      \* issue[i]: its row, or None
  comments,   \* comments[i]: how many rows of comments have it as issue_id
  patch       \* patch[r]: the PATCH request that worker r serves

vars == <<issue, comments, patch>>

\* The body of a PATCH, Unset for what model_dump(exclude_unset=True) leaves out.
\* No client sends a status or a priority of null: the first is refused with 400,
\* the second by the database, and neither changes a row.
Payload == [status : Status \cup {Unset}, priority : Priorities \cup {Unset},
            assignee : Users \cup {None, Unset}]

Idle == [at |-> "idle"]
Patch == [at : {"count", "commit"}, user : Users, id : Issues, data : Payload, row : Row]

TypeOK ==
  /\ issue \in [Issues -> Row \cup {None}]
  /\ comments \in [Issues -> 0..MaxComments]
  /\ patch \in [Reqs -> Patch \cup {Idle}]

Init ==
  /\ issue = [i \in Issues |-> None]
  /\ comments = [i \in Issues |-> 0]
  /\ patch = [r \in Reqs |-> Idle]

-----------------------------------------------------------------------------
(* Permissions (app/api/permissions.py)                                       *)

IsManager(u) == Role[u] \in {"manager", "admin"}

MayUpdate(u, row) == IsManager(u) \/ u = row.reporter \/ u = row.assignee

MayAssign(u, row, data) ==
  data.assignee \notin {Unset, row.assignee}
    => IsManager(u) \/ u = row.reporter

-----------------------------------------------------------------------------
(* The state machine (_enforce_transition)                                    *)

allowed == [open        |-> {"in_progress"},
            in_progress |-> {"resolved"},
            resolved    |-> {"closed", "reopened"},
            closed      |-> {"reopened"},
            reopened    |-> {"in_progress"}]

\* Mutant of ValidTransition: the table is not consulted for a closed issue.
LaxTransition(row, data) ==
  row.status # "closed" => data.status \in {Unset, row.status} \cup allowed[row.status]

ValidTransition(row, data) == data.status \in {Unset, row.status} \cup allowed[row.status]

\* The priority is that of the row read, not the one the same body may set.
NeedsComment(row, data) ==
  /\ data.status = "closed" /\ row.status # "closed"
  /\ row.priority = "critical"

\* Mutant of Changed: every field of the body is written, changed or not.
Named(row, data) == {f \in DOMAIN data : data[f] # Unset}

\* The fields update_issue assigns, and so the columns of its UPDATE.
Changed(row, data) == {f \in DOMAIN data : data[f] \notin {Unset, row[f]}}

-----------------------------------------------------------------------------
(* Handlers                                                                   *)

\* POST /issues and POST /projects/{id}/issues: a status in the body is ignored.
CreateIssue(u, i, p, a) ==
  /\ issue[i] = None
  /\ issue' = [issue EXCEPT ![i] = [status |-> "open", priority |-> p,
                                    reporter |-> u, assignee |-> a]]
  /\ UNCHANGED <<comments, patch>>

\* POST /issues/{id}/comments and POST /comments
AddComment(i) ==
  /\ issue[i] # None
  /\ comments[i] < MaxComments
  /\ comments' = [comments EXCEPT ![i] = @ + 1]
  /\ UNCHANGED <<issue, patch>>

\* PATCH /issues/{id}: require_issue_update_permission reads the row; what is
\* refused with 403 or 400 ends here and leaves no trace.
StartUpdate(r, u, i, data) ==
  LET row == issue[i]
  IN  /\ patch[r] = Idle
      /\ row # None
      /\ MayUpdate(u, row)
      /\ MayAssign(u, row, data)
      /\ ValidTransition(row, data)
      /\ patch' = [patch EXCEPT ![r] =
                     [at |-> IF NeedsComment(row, data) THEN "count" ELSE "commit",
                      user |-> u, id |-> i, data |-> data, row |-> row]]
      /\ UNCHANGED <<issue, comments>>

\* Mutant of CountComments: the count is not compared with zero.
CountIgnored(r) ==
  /\ patch[r].at = "count"
  /\ patch' = [patch EXCEPT ![r] = [@ EXCEPT !.at = "commit"]]
  /\ UNCHANGED <<issue, comments>>

\* The query of _enforce_transition; no comment is a 400.
CountComments(r) ==
  /\ patch[r].at = "count"
  /\ patch' = [patch EXCEPT ![r] =
                 IF comments[patch[r].id] = 0 THEN Idle ELSE [@ EXCEPT !.at = "commit"]]
  /\ UNCHANGED <<issue, comments>>

\* Mutant of Updated: the body is dumped with its unset fields.
Overwritten(i, row, data) ==
  [f \in DOMAIN issue[i] |-> IF f \in DOMAIN data THEN data[f] ELSE issue[i][f]]

\* The UPDATE: columns that did not change keep what the table holds by now.
Updated(i, row, data) ==
  [f \in DOMAIN issue[i] |-> IF f \in Changed(row, data) THEN data[f] ELSE issue[i][f]]

Commit(r) ==
  /\ patch[r].at = "commit"
  /\ issue' = [issue EXCEPT ![patch[r].id] = Updated(patch[r].id, patch[r].row, patch[r].data)]
  /\ patch' = [patch EXCEPT ![r] = Idle]
  /\ UNCHANGED comments

\* The database or the process fails before the COMMIT.
Abort(r) ==
  /\ patch[r] # Idle
  /\ patch' = [patch EXCEPT ![r] = Idle]
  /\ UNCHANGED <<issue, comments>>

Next ==
  \/ \E u \in Users, i \in Issues, p \in Priorities, a \in Users \cup {None} :
       CreateIssue(u, i, p, a)
  \/ \E i \in Issues : AddComment(i)
  \/ \E r \in Reqs :
       \/ \E u \in Users, i \in Issues, data \in Payload : StartUpdate(r, u, i, data)
       \/ CountComments(r) \/ Commit(r) \/ Abort(r)

Spec == Init /\ [][Next]_vars

-----------------------------------------------------------------------------
(* Properties *)

Existing == {i \in Issues : issue[i] # None}

\* The status of an issue moves only along the table of _enforce_transition.
StatusFollowsTable ==
  [][\A i \in Existing :
       issue'[i].status # issue[i].status => issue'[i].status \in allowed[issue[i].status]]_vars

\* It leaves the table in one way only: the PATCH that changes it read an older
\* status, which another PATCH has replaced before this one commits.
OffTableOnlyIfOvertaken ==
  [][\A i \in Existing : issue'[i].status # issue[i].status =>
       \/ issue'[i].status \in allowed[issue[i].status]
       \/ \E r \in Reqs : /\ patch[r] # Idle /\ patch'[r] = Idle /\ patch[r].id = i
                          /\ patch[r].row.status # issue[i].status]_vars

\* Only a manager, an admin or the reporter ever changes who an issue is
\* assigned to, whatever the assignee's own PATCH names and whoever reassigns
\* between its read and its commit.
ReassignedByManagerOrReporter ==
  [][\A i \in Existing : issue'[i].assignee # issue[i].assignee =>
       \E r \in Reqs : /\ patch[r] # Idle /\ patch'[r] = Idle /\ patch[r].id = i
                       /\ IsManager(patch[r].user) \/ patch[r].user = issue[i].reporter]_vars

\* A request that read a critical issue closes it only once the issue has a
\* comment: the count is stale by the time of the commit, but never too high.
CountedBeforeClosing ==
  \A r \in Reqs : patch[r] # Idle /\ patch[r].at = "commit"
                  /\ NeedsComment(patch[r].row, patch[r].data) => comments[patch[r].id] > 0

\* An issue that is critical once it is closed had a comment by then.
CriticalClosedWithComment ==
  [][\A i \in Existing :
       issue[i].status # "closed" /\ issue'[i].status = "closed" /\ issue'[i].priority = "critical"
         => comments[i] > 0]_vars

=============================================================================
