-------------------------- MODULE IssueTrackerProofs --------------------------
(* Theorems of IssueTracker, for any users, issues and number of workers.      *)
EXTENDS IssueTracker, TLAPS

\* What holds of a request that is being served.
LEMMA ServedPatch ==
  ASSUME TypeOK, NEW r \in Reqs, patch[r] # Idle
  PROVE  /\ patch[r] \in Patch
         /\ [patch[r] EXCEPT !.at = "commit"] \in Patch
  BY DEF TypeOK, Patch

\* An UPDATE turns a row into a row.
LEMMA UpdatedIsRow ==
  ASSUME TypeOK, NEW i \in Issues, issue[i] # None, NEW row \in Row, NEW data \in Payload
  PROVE  /\ Updated(i, row, data) \in Row
         /\ \A f \in {"status", "priority", "assignee"} :
              Updated(i, row, data)[f] = IF f \in Changed(row, data) THEN data[f] ELSE issue[i][f]
         /\ Updated(i, row, data).reporter = issue[i].reporter
<1>1. issue[i] \in Row BY DEF TypeOK
<1>2. DOMAIN issue[i] = {"status", "priority", "reporter", "assignee"} BY <1>1 DEF Row
<1>3. DOMAIN data = {"status", "priority", "assignee"} BY DEF Payload
<1>4. "reporter" \notin Changed(row, data) BY <1>3 DEF Changed
<1>5. \A f \in {"status", "priority", "assignee"} :
        f \in Changed(row, data) => data[f] # Unset
  BY DEF Changed
<1> DEFINE new == Updated(i, row, data)
<1>6. new = [f \in DOMAIN issue[i] |-> IF f \in Changed(row, data) THEN data[f] ELSE issue[i][f]]
  BY DEF Updated
<1>7. /\ \A f \in {"status", "priority", "assignee"} :
            new[f] = IF f \in Changed(row, data) THEN data[f] ELSE issue[i][f]
      /\ new.reporter = issue[i].reporter
  BY <1>2, <1>4, <1>6
<1>8. new \in Row
  <2>1. new = [status |-> new.status, priority |-> new.priority,
               reporter |-> new.reporter, assignee |-> new.assignee]
    BY <1>2, <1>6
  <2>2. new.status \in Status /\ new.priority \in Priorities /\ new.reporter \in Users
        /\ new.assignee \in Users \cup {None}
    BY <1>1, <1>5, <1>7 DEF Row, Payload
  <2>3. QED BY <2>1, <2>2 DEF Row
<1>9. QED BY <1>7, <1>8

\* A request that is being served has found its issue, and issues stay.
ServedExists == \A r \in Reqs : patch[r] # Idle => issue[patch[r].id] # None

TypeInv == TypeOK /\ ServedExists

LEMMA TypeInvInductive == TypeInv /\ [Next]_vars => TypeInv'
<1> SUFFICES ASSUME TypeInv, [Next]_vars PROVE TypeInv'
  OBVIOUS
<1>1. TypeOK /\ ServedExists BY DEF TypeInv
<1>create. ASSUME NEW u \in Users, NEW i \in Issues, NEW p \in Priorities,
                  NEW a \in Users \cup {None}, CreateIssue(u, i, p, a)
           PROVE  TypeInv'
  <2> DEFINE new == [status |-> "open", priority |-> p, reporter |-> u, assignee |-> a]
  <2>1. new \in Row BY DEF Row, Status
  <2>2. issue' = [issue EXCEPT ![i] = new] BY <1>create DEF CreateIssue
  <2>3. TypeOK' BY <1>1, <1>create, <2>1, <2>2 DEF CreateIssue, TypeOK
  <2>4. ServedExists'
    BY <1>1, <1>create, <2>1, <2>2, NoneAssumption DEF CreateIssue, TypeOK, ServedExists
  <2>5. QED BY <2>3, <2>4 DEF TypeInv
<1>comment. ASSUME NEW i \in Issues, AddComment(i) PROVE TypeInv'
  BY <1>1, <1>comment, CommentsAssumption DEF AddComment, TypeOK, ServedExists, TypeInv
<1>start. ASSUME NEW r \in Reqs, NEW u \in Users, NEW i \in Issues, NEW data \in Payload,
                 StartUpdate(r, u, i, data)
          PROVE  TypeInv'
  <2> DEFINE at == IF NeedsComment(issue[i], data) THEN "count" ELSE "commit"
             new == [at |-> at, user |-> u, id |-> i, data |-> data, row |-> issue[i]]
  <2>1. issue[i] \in Row BY <1>1, <1>start DEF StartUpdate, TypeOK
  <2>2. new \in Patch BY <2>1 DEF Patch
  <2>3. patch' = [patch EXCEPT ![r] = new] BY <1>start DEF StartUpdate
  <2>4. TypeOK' BY <1>1, <1>start, <2>2, <2>3 DEF StartUpdate, TypeOK
  <2>5. ServedExists' BY <1>1, <1>start, <2>3 DEF StartUpdate, TypeOK, ServedExists
  <2>6. QED BY <2>4, <2>5 DEF TypeInv
<1>count. ASSUME NEW r \in Reqs, CountComments(r) PROVE TypeInv'
  <2>1. patch[r] # Idle BY <1>count DEF CountComments, Idle
  <2>2. patch[r] \in Patch /\ [patch[r] EXCEPT !.at = "commit"] \in Patch
    BY <1>1, <2>1, ServedPatch
  <2>3. [patch[r] EXCEPT !.at = "commit"].id = patch[r].id BY <2>2 DEF Patch
  <2>4. TypeOK' BY <1>1, <1>count, <2>2 DEF CountComments, TypeOK
  <2>5. ServedExists' BY <1>1, <1>count, <2>1, <2>3 DEF CountComments, TypeOK, ServedExists
  <2>6. QED BY <2>4, <2>5 DEF TypeInv
<1>commit. ASSUME NEW r \in Reqs, Commit(r) PROVE TypeInv'
  <2> DEFINE q == patch[r]
             new == Updated(q.id, q.row, q.data)
  <2>1. q # Idle BY <1>commit DEF Commit, Idle
  <2>2. q \in Patch /\ issue[q.id] # None BY <1>1, <2>1, ServedPatch DEF ServedExists
  <2>3. q.id \in Issues /\ q.row \in Row /\ q.data \in Payload BY <2>2 DEF Patch
  <2>4. new \in Row BY <1>1, <2>2, <2>3, UpdatedIsRow
  <2>5. issue' = [issue EXCEPT ![q.id] = new] /\ patch' = [patch EXCEPT ![r] = Idle]
    BY <1>commit DEF Commit
  <2> HIDE DEF new
  <2>6. TypeOK' BY <1>1, <1>commit, <2>3, <2>4, <2>5 DEF Commit, TypeOK
  <2>7. ServedExists'
    BY <1>1, <2>3, <2>4, <2>5, NoneAssumption DEF TypeOK, ServedExists
  <2>8. QED BY <2>6, <2>7 DEF TypeInv
<1>abort. ASSUME NEW r \in Reqs, Abort(r) PROVE TypeInv'
  BY <1>1, <1>abort DEF Abort, TypeOK, ServedExists, TypeInv
<1>stutter. CASE UNCHANGED vars
  BY <1>1, <1>stutter DEF vars, TypeOK, ServedExists, TypeInv
<1>2. QED
  BY <1>create, <1>comment, <1>start, <1>count, <1>commit, <1>abort, <1>stutter DEF Next

LEMMA TypeInvAlways == Spec => []TypeInv
<1>1. Init => TypeInv BY CommentsAssumption DEF Init, TypeInv, TypeOK, ServedExists
<1>2. QED BY <1>1, TypeInvInductive, PTL DEF Spec

\* No commit, however stale the row it was decided on, leaves a row malformed:
\* the UPDATE never writes what the body left unset.
THEOREM IssueTypeCorrect == Spec => []TypeOK
<1>1. TypeInv => TypeOK BY DEF TypeInv
<1>2. QED BY <1>1, TypeInvAlways, PTL

\* The three ways a request that is being served after a step came to be so.
LEMMA ServedAfter ==
  ASSUME TypeInv, [Next]_vars, NEW r \in Reqs, patch'[r] # Idle
  PROVE  \/ patch'[r] = patch[r]
         \/ /\ patch[r] # Idle /\ patch[r].at = "count" /\ comments[patch[r].id] # 0
            /\ patch'[r] = [patch[r] EXCEPT !.at = "commit"]
         \/ \E u \in Users, i \in Issues, data \in Payload :
              /\ StartUpdate(r, u, i, data)
              /\ patch'[r] = [at |-> IF NeedsComment(issue[i], data) THEN "count" ELSE "commit",
                              user |-> u, id |-> i, data |-> data, row |-> issue[i]]
<1>1. patch \in [Reqs -> Patch \cup {Idle}] BY DEF TypeInv, TypeOK
<1>2. ASSUME UNCHANGED patch PROVE patch'[r] = patch[r] BY <1>2
<1>3. ASSUME NEW q \in Reqs, NEW u \in Users, NEW i \in Issues, NEW data \in Payload,
             StartUpdate(q, u, i, data)
      PROVE  \/ patch'[r] = patch[r]
             \/ /\ StartUpdate(r, u, i, data)
                /\ patch'[r] = [at |-> IF NeedsComment(issue[i], data) THEN "count" ELSE "commit",
                                user |-> u, id |-> i, data |-> data, row |-> issue[i]]
  BY <1>1, <1>3 DEF StartUpdate
<1>4. ASSUME NEW q \in Reqs, CountComments(q)
      PROVE  \/ patch'[r] = patch[r]
             \/ /\ patch[r] # Idle /\ patch[r].at = "count" /\ comments[patch[r].id] # 0
                /\ patch'[r] = [patch[r] EXCEPT !.at = "commit"]
  BY <1>1, <1>4 DEF CountComments, Idle
<1>5. ASSUME NEW q \in Reqs, Commit(q) \/ Abort(q) PROVE patch'[r] = patch[r]
  BY <1>1, <1>5 DEF Commit, Abort
<1>6. QED
  BY <1>2, <1>3, <1>4, <1>5 DEF Next, CreateIssue, AddComment, vars

\* Comments are never taken back, so a count above zero cannot go stale.
THEOREM CommentCountedBeforeClosing == Spec => []CountedBeforeClosing
<1>1. Init => CountedBeforeClosing BY DEF Init, CountedBeforeClosing
<1>2. TypeInv /\ CountedBeforeClosing /\ [Next]_vars => CountedBeforeClosing'
  <2> SUFFICES ASSUME TypeInv, CountedBeforeClosing, [Next]_vars, NEW r \in Reqs,
                      patch'[r] # Idle, patch'[r].at = "commit",
                      NeedsComment(patch'[r].row, patch'[r].data)
               PROVE  comments'[patch'[r].id] > 0
    BY DEF CountedBeforeClosing, NeedsComment
  <2>1. comments \in [Issues -> Nat] BY CommentsAssumption DEF TypeInv, TypeOK
  <2>2. \A i \in Issues : comments'[i] >= comments[i]
    BY <2>1 DEF Next, CreateIssue, AddComment, StartUpdate, CountComments, Commit, Abort, vars
  <2>3. comments' \in [Issues -> Nat]
    BY <2>1 DEF Next, CreateIssue, AddComment, StartUpdate, CountComments, Commit, Abort, vars
  <2>4. ASSUME patch[r] # Idle PROVE patch[r] \in Patch /\ patch[r].id \in Issues
    BY <2>4, ServedPatch DEF TypeInv, Patch
  <2>5. CASE patch'[r] = patch[r]
    BY <2>1, <2>2, <2>3, <2>4, <2>5 DEF CountedBeforeClosing
  <2>6. CASE /\ patch[r] # Idle /\ patch[r].at = "count" /\ comments[patch[r].id] # 0
             /\ patch'[r] = [patch[r] EXCEPT !.at = "commit"]
    <3>1. patch'[r].id = patch[r].id BY <2>4, <2>6 DEF Patch
    <3>2. QED BY <2>1, <2>2, <2>3, <2>4, <2>6, <3>1
  <2>7. ASSUME NEW u \in Users, NEW i \in Issues, NEW data \in Payload,
               patch'[r] = [at |-> IF NeedsComment(issue[i], data) THEN "count" ELSE "commit",
                            user |-> u, id |-> i, data |-> data, row |-> issue[i]]
        PROVE  FALSE
    BY <2>7
  <2>8. QED BY <2>5, <2>6, <2>7, ServedAfter
<1>3. QED BY <1>1, <1>2, TypeInvAlways, PTL DEF Spec

\* A served request was allowed to reassign, judged by the row it read, and the
\* reporter it read is the reporter still.
AssignInv ==
  \A r \in Reqs : patch[r] # Idle =>
    /\ MayAssign(patch[r].user, patch[r].row, patch[r].data)
    /\ patch[r].row.reporter = issue[patch[r].id].reporter

LEMMA ReporterStays ==
  ASSUME TypeInv, [Next]_vars, NEW i \in Issues, issue[i] # None
  PROVE  issue'[i].reporter = issue[i].reporter
<1>1. issue \in [Issues -> Row \cup {None}] BY DEF TypeInv, TypeOK
<1>2. CASE \E r \in Reqs : Commit(r)
  <2> PICK r \in Reqs : Commit(r) BY <1>2
  <2>1. patch[r] # Idle BY DEF Commit, Idle
  <2>2. patch[r] \in Patch /\ issue[patch[r].id] # None
    BY <2>1, ServedPatch DEF TypeInv, ServedExists
  <2>3. patch[r].id \in Issues /\ patch[r].row \in Row /\ patch[r].data \in Payload
    BY <2>2 DEF Patch
  <2>4. Updated(patch[r].id, patch[r].row, patch[r].data).reporter = issue[patch[r].id].reporter
    BY <2>2, <2>3, UpdatedIsRow DEF TypeInv
  <2>5. QED BY <1>1, <2>3, <2>4 DEF Commit
<1>3. CASE ~\E r \in Reqs : Commit(r)
  BY <1>1, <1>3 DEF Next, CreateIssue, AddComment, StartUpdate, CountComments, Abort, vars
<1>4. QED BY <1>2, <1>3

LEMMA AssignInvInductive == TypeInv /\ AssignInv /\ [Next]_vars => AssignInv'
<1> SUFFICES ASSUME TypeInv, AssignInv, [Next]_vars, NEW r \in Reqs, patch'[r] # Idle
             PROVE  /\ MayAssign(patch'[r].user, patch'[r].row, patch'[r].data)
                    /\ patch'[r].row.reporter = issue'[patch'[r].id].reporter
  BY DEF AssignInv, MayAssign, IsManager
<1>1. ASSUME patch[r] # Idle
      PROVE  /\ patch[r] \in Patch /\ patch[r].id \in Issues
             /\ MayAssign(patch[r].user, patch[r].row, patch[r].data)
             /\ patch[r].row.reporter = issue'[patch[r].id].reporter
  <2>1. patch[r] \in Patch /\ issue[patch[r].id] # None
    BY <1>1, ServedPatch DEF TypeInv, ServedExists
  <2>2. patch[r].id \in Issues BY <2>1 DEF Patch
  <2>3. QED BY <1>1, <2>1, <2>2, ReporterStays DEF AssignInv
<1>2. CASE patch'[r] = patch[r] BY <1>1, <1>2
<1>3. CASE patch[r] # Idle /\ patch'[r] = [patch[r] EXCEPT !.at = "commit"]
  <2>1. /\ patch'[r].user = patch[r].user /\ patch'[r].row = patch[r].row
        /\ patch'[r].data = patch[r].data /\ patch'[r].id = patch[r].id
    BY <1>1, <1>3 DEF Patch
  <2>2. QED BY <1>1, <1>3, <2>1
<1>4. ASSUME NEW u \in Users, NEW i \in Issues, NEW data \in Payload,
             StartUpdate(r, u, i, data),
             patch'[r] = [at |-> IF NeedsComment(issue[i], data) THEN "count" ELSE "commit",
                          user |-> u, id |-> i, data |-> data, row |-> issue[i]]
      PROVE  /\ MayAssign(patch'[r].user, patch'[r].row, patch'[r].data)
             /\ patch'[r].row.reporter = issue'[patch'[r].id].reporter
  BY <1>4 DEF StartUpdate
<1>5. QED BY <1>2, <1>3, <1>4, ServedAfter

\* Stale reads do not let an assignee hand an issue on: the UPDATE leaves out an
\* assignee that equals the one read, even if another has been set meanwhile.
THEOREM AssigneeGuarded == Spec => ReassignedByManagerOrReporter
<1> DEFINE Step ==
      \A i \in Existing : issue'[i].assignee # issue[i].assignee =>
        \E r \in Reqs : /\ patch[r] # Idle /\ patch'[r] = Idle /\ patch[r].id = i
                        /\ IsManager(patch[r].user) \/ patch[r].user = issue[i].reporter
<1>1. Init => AssignInv BY DEF Init, AssignInv
<1>2. TypeInv /\ AssignInv /\ [Next]_vars => [Step]_vars
  <2> SUFFICES ASSUME TypeInv, AssignInv, Next, NEW i \in Existing,
                      issue'[i].assignee # issue[i].assignee
               PROVE  \E r \in Reqs :
                        /\ patch[r] # Idle /\ patch'[r] = Idle /\ patch[r].id = i
                        /\ IsManager(patch[r].user) \/ patch[r].user = issue[i].reporter
    OBVIOUS
  <2>1. /\ issue \in [Issues -> Row \cup {None}] /\ i \in Issues /\ issue[i] # None
        /\ patch \in [Reqs -> Patch \cup {Idle}]
    BY DEF TypeInv, TypeOK, Existing
  <2>2. PICK r \in Reqs : Commit(r)
    BY <2>1 DEF Next, CreateIssue, AddComment, StartUpdate, CountComments, Abort
  <2>3. patch[r] # Idle /\ patch[r] \in Patch
    <3>1. patch[r] # Idle BY <2>2 DEF Commit, Idle
    <3>2. QED BY <3>1, ServedPatch DEF TypeInv
  <2>4. patch[r].id \in Issues /\ patch[r].row \in Row /\ patch[r].data \in Payload
    BY <2>3 DEF Patch
  <2>5. patch[r].id = i /\ patch'[r] = Idle
    BY <2>1, <2>2, <2>4 DEF Commit
  <2>6. issue'[i].assignee = Updated(i, patch[r].row, patch[r].data).assignee
    BY <2>1, <2>2, <2>5 DEF Commit
  <2>7. "assignee" \in Changed(patch[r].row, patch[r].data)
    BY <2>1, <2>4, <2>6, UpdatedIsRow DEF TypeInv
  <2>8. IsManager(patch[r].user) \/ patch[r].user = issue[i].reporter
    BY <2>3, <2>5, <2>7 DEF Changed, AssignInv, MayAssign
  <2>9. QED BY <2>3, <2>5, <2>8
<1>3. QED
  BY <1>1, <1>2, AssignInvInductive, TypeInvAlways, PTL
     DEF Spec, ReassignedByManagerOrReporter

\* The transition of a served request is one the table allows from the row it read.
TransitionInv ==
  \A r \in Reqs : patch[r] # Idle => ValidTransition(patch[r].row, patch[r].data)

LEMMA TransitionInvInductive == TypeInv /\ TransitionInv /\ [Next]_vars => TransitionInv'
<1> SUFFICES ASSUME TypeInv, TransitionInv, [Next]_vars, NEW r \in Reqs, patch'[r] # Idle
             PROVE  ValidTransition(patch'[r].row, patch'[r].data)
  BY DEF TransitionInv, ValidTransition, allowed
<1>1. CASE patch'[r] = patch[r] BY <1>1 DEF TransitionInv
<1>2. CASE patch[r] # Idle /\ patch'[r] = [patch[r] EXCEPT !.at = "commit"]
  <2>1. patch[r] \in Patch BY <1>2, ServedPatch DEF TypeInv
  <2>2. patch'[r].row = patch[r].row /\ patch'[r].data = patch[r].data
    BY <1>2, <2>1 DEF Patch
  <2>3. QED BY <1>2, <2>2 DEF TransitionInv
<1>3. ASSUME NEW u \in Users, NEW i \in Issues, NEW data \in Payload,
             StartUpdate(r, u, i, data),
             patch'[r] = [at |-> IF NeedsComment(issue[i], data) THEN "count" ELSE "commit",
                          user |-> u, id |-> i, data |-> data, row |-> issue[i]]
      PROVE  ValidTransition(patch'[r].row, patch'[r].data)
  BY <1>3 DEF StartUpdate
<1>4. QED BY <1>1, <1>2, <1>3, ServedAfter

\* A status that leaves the table was decided on a status already replaced: no
\* other mix of stale columns, comments and permissions can do it.
THEOREM OnlyOvertakenLeavesTable == Spec => OffTableOnlyIfOvertaken
<1> DEFINE Step ==
      \A i \in Existing : issue'[i].status # issue[i].status =>
        \/ issue'[i].status \in allowed[issue[i].status]
        \/ \E r \in Reqs : /\ patch[r] # Idle /\ patch'[r] = Idle /\ patch[r].id = i
                           /\ patch[r].row.status # issue[i].status
<1>1. Init => TransitionInv BY DEF Init, TransitionInv
<1>2. TypeInv /\ TransitionInv /\ [Next]_vars => [Step]_vars
  <2> SUFFICES ASSUME TypeInv, TransitionInv, Next, NEW i \in Existing,
                      issue'[i].status # issue[i].status,
                      issue'[i].status \notin allowed[issue[i].status]
               PROVE  \E r \in Reqs : /\ patch[r] # Idle /\ patch'[r] = Idle /\ patch[r].id = i
                                      /\ patch[r].row.status # issue[i].status
    OBVIOUS
  <2>1. /\ issue \in [Issues -> Row \cup {None}] /\ i \in Issues /\ issue[i] # None
        /\ patch \in [Reqs -> Patch \cup {Idle}]
    BY DEF TypeInv, TypeOK, Existing
  <2>2. PICK r \in Reqs : Commit(r)
    BY <2>1 DEF Next, CreateIssue, AddComment, StartUpdate, CountComments, Abort
  <2>3. patch[r] # Idle /\ patch[r] \in Patch
    <3>1. patch[r] # Idle BY <2>2 DEF Commit, Idle
    <3>2. QED BY <3>1, ServedPatch DEF TypeInv
  <2>4. patch[r].id \in Issues /\ patch[r].row \in Row /\ patch[r].data \in Payload
    BY <2>3 DEF Patch
  <2>5. patch[r].id = i /\ patch'[r] = Idle
    BY <2>1, <2>2, <2>4 DEF Commit
  <2>6. issue'[i].status = Updated(i, patch[r].row, patch[r].data).status
    BY <2>1, <2>2, <2>5 DEF Commit
  <2>7. "status" \in Changed(patch[r].row, patch[r].data)
        /\ issue'[i].status = patch[r].data.status
    BY <2>1, <2>4, <2>6, UpdatedIsRow DEF TypeInv
  <2>8. issue'[i].status \in allowed[patch[r].row.status]
    BY <2>3, <2>7 DEF Changed, TransitionInv, ValidTransition
  <2>9. QED BY <2>3, <2>5, <2>8
<1>3. QED
  BY <1>1, <1>2, TransitionInvInductive, TypeInvAlways, PTL
     DEF Spec, OffTableOnlyIfOvertaken

=============================================================================
