------------------------------- MODULE Projects -------------------------------
(***************************************************************************)
(* app/api/routes/projects.py over the projects table, and app/api/query.py *)
(* as GET /projects uses it: a client that walks the pages of the list,    *)
(* sorted by created_at, while projects are created, archived and restored. *)
(*                                                                         *)
(* A step is one statement of the database.  created_at is taken when the  *)
(* INSERT is prepared and visible when it is committed, so rows need not   *)
(* appear in its order.  The clock is fine enough for no two rows to share *)
(* it.  Names, descriptions and the permissions, which depend on columns   *)
(* that never change, are left out; a name that is taken fails the INSERT. *)
(***************************************************************************)
EXTENDS Naturals, FiniteSets

CONSTANTS
  Ids,      \* ids that POST /projects will draw
  Reqs,     \* worker slots for writing requests
  Limits,   \* page sizes clients ask for
  Filters,  \* values of is_archived clients ask for (the default is FALSE)
  None,     \* no such row; no filter (is_archived=null)
  Unset     \* a PATCH that does not name is_archived

ASSUME IdsAssumption == IsFiniteSet(Ids)
ASSUME LimitsAssumption == Limits \subseteq Nat \ {0}
ASSUME FiltersAssumption == Filters \subseteq BOOLEAN \cup {None}
ASSUME NoneAssumption == None \notin BOOLEAN \cup {Unset} /\ Unset \notin BOOLEAN

VARIABLES
  project,  \* project[p]: its row, or None
  clock,    \* the next created_at
  req,      \* the writing request each worker serves
  walk      \* the walk of one client through the pages

vars == <<project, clock, req, walk>>

Row == [created_at : Nat, is_archived : BOOLEAN]

\* No row is None.
ASSUME RowAssumption == None \notin Row

Idle == [at |-> "idle"]
Insert == [at : {"insert"}, id : Ids, created_at : Nat]
Update == [at : {"update"}, id : Ids, is_archived : BOOLEAN \cup {Unset}, row : Row]

\* A walk: the parameters of its requests, the page it asks for next, the rows it
\* was given, and history: the rows listed when it began, those given twice, and
\* whether since then a row has left the list, or has entered it before another or
\* for the second time.
Walk == [at : {"walking", "done"}, filter : Filters, desc : BOOLEAN,
         limit : Limits, page : Nat, seen : SUBSET Ids, initial : SUBSET Ids,
         twice : SUBSET Ids, left : BOOLEAN, cutIn : BOOLEAN]

TypeOK ==
  /\ project \in [Ids -> Row \cup {None}]
  /\ clock \in Nat
  /\ req \in [Reqs -> {Idle} \cup Insert \cup Update]
  /\ walk \in Walk \cup {Idle}

Init ==
  /\ project = [p \in Ids |-> None]
  /\ clock = 0
  /\ req = [r \in Reqs |-> Idle]
  /\ walk = Idle

-----------------------------------------------------------------------------
(* The query of list_projects                                                 *)

\* The rows of table that q.filter(is_archived == filter) keeps.
Listed(table, filter) ==
  {p \in Ids : table[p] # None /\ (filter = None \/ table[p].is_archived = filter)}

Before(table, desc, p, q) ==
  IF desc THEN table[p].created_at > table[q].created_at
          ELSE table[p].created_at < table[q].created_at

\* apply_sort: how many of the rows come before p.
Rank(table, filter, desc, p) ==
  Cardinality({q \in Listed(table, filter) : Before(table, desc, q, p)})

\* Mutant of Offset: pages counted from zero.
OffsetFromZero(page, limit) == page * limit

Offset(page, limit) == (page - 1) * limit

\* Mutant of Page: one row more, to tell whether a page follows.
PageAndOne(w) ==
  {p \in Listed(project, w.filter) :
     LET rank == Rank(project, w.filter, w.desc, p)
     IN  Offset(w.page, w.limit) <= rank /\ rank <= Offset(w.page, w.limit) + w.limit}

\* apply_pagination
Page(w) ==
  {p \in Listed(project, w.filter) :
     LET rank == Rank(project, w.filter, w.desc, p)
     IN  Offset(w.page, w.limit) <= rank /\ rank < Offset(w.page, w.limit) + w.limit}

-----------------------------------------------------------------------------
(* A client walks the pages until one is not full.                            *)

StartWalk(filter, desc, limit) ==
  /\ walk = Idle
  /\ walk' = [at |-> "walking", filter |-> filter, desc |-> desc, limit |-> limit, page |-> 1,
              seen |-> {}, initial |-> Listed(project, filter), twice |-> {},
              left |-> FALSE, cutIn |-> FALSE]
  /\ UNCHANGED <<project, clock, req>>

GetPage ==
  /\ walk.at = "walking"
  /\ LET rows == Page(walk)
     IN  walk' = [walk EXCEPT !.seen = @ \cup rows,
                              !.twice = @ \cup (walk.seen \cap rows),
                              !.page = @ + 1,
                              !.at = IF Cardinality(rows) < walk.limit THEN "done" ELSE @]
  /\ UNCHANGED <<project, clock, req>>

EndWalk ==
  /\ walk.at = "done"
  /\ walk' = Idle
  /\ UNCHANGED <<project, clock, req>>

\* What a commit that makes the table `new` means to the walk.
Watched(new) ==
  IF walk = Idle THEN Idle
  ELSE LET before == Listed(project, walk.filter)
           after  == Listed(new, walk.filter)
       IN  [walk EXCEPT
              !.left = @ \/ ~(before \subseteq after),
              !.cutIn = @ \/ \E p \in after \ before :
                               p \in walk.seen \/ \E q \in before : Before(new, walk.desc, p, q)]

-----------------------------------------------------------------------------
(* POST, PATCH and DELETE                                                     *)

\* create_project up to the INSERT
StartCreate(r, p) ==
  /\ req[r] = Idle
  /\ project[p] = None
  /\ \A o \in Reqs : req[o] # Idle => req[o].id # p
  /\ req' = [req EXCEPT ![r] = [at |-> "insert", id |-> p, created_at |-> clock]]
  /\ clock' = clock + 1
  /\ UNCHANGED <<project, walk>>

CommitCreate(r) ==
  /\ req[r].at = "insert"
  /\ LET new == [project EXCEPT ![req[r].id] =
                   [created_at |-> req[r].created_at, is_archived |-> FALSE]]
     IN  project' = new /\ walk' = Watched(new)
  /\ req' = [req EXCEPT ![r] = Idle]
  /\ UNCHANGED clock

\* update_project, and archive_project, which always says TRUE: the row is read by
\* require_project_manage.
StartUpdate(r, p, is_archived) ==
  /\ req[r] = Idle
  /\ project[p] # None
  /\ req' = [req EXCEPT ![r] = [at |-> "update", id |-> p, is_archived |-> is_archived,
                                row |-> project[p]]]
  /\ UNCHANGED <<project, clock, walk>>

\* Mutant of Written: the body is dumped with its unset fields.
WrittenUnset(q) ==
  IF q.is_archived = q.row.is_archived THEN project
  ELSE [project EXCEPT ![q.id].is_archived = q.is_archived]

\* Only a value that the body names and that differs from the one read is written.
Written(q) ==
  IF q.is_archived \in {Unset, q.row.is_archived} THEN project
  ELSE [project EXCEPT ![q.id].is_archived = q.is_archived]

CommitUpdate(r) ==
  /\ req[r].at = "update"
  /\ project' = Written(req[r])
  /\ walk' = Watched(Written(req[r]))
  /\ req' = [req EXCEPT ![r] = Idle]
  /\ UNCHANGED clock

\* The statement or the process fails: nothing is committed.
Abort(r) ==
  /\ req[r] # Idle
  /\ req' = [req EXCEPT ![r] = Idle]
  /\ UNCHANGED <<project, clock, walk>>

\* Bound: as many stamps are taken as there are ids.
MayCreate == clock < Cardinality(Ids)

Next ==
  \/ \E filter \in Filters, desc \in BOOLEAN, limit \in Limits :
       StartWalk(filter, desc, limit)
  \/ GetPage
  \/ EndWalk
  \/ \E r \in Reqs :
       \/ \E p \in Ids : MayCreate /\ StartCreate(r, p)
       \/ \E p \in Ids, is_archived \in BOOLEAN \cup {Unset} : StartUpdate(r, p, is_archived)
       \/ CommitCreate(r) \/ CommitUpdate(r) \/ Abort(r)

Spec == Init /\ [][Next]_vars

-----------------------------------------------------------------------------
(* Properties *)

\* A walk that no row left meanwhile (none was archived out of its filter) has
\* been given every row that was listed when it began, whatever was inserted
\* before or behind the page it was at, in either direction.
WalkMissesNothing ==
  walk # Idle /\ walk.at = "done" /\ ~walk.left => walk.initial \subseteq walk.seen

\* A walk is given a row twice only if that row was archived and restored, or if a
\* row cut in before another: newest first, every new project does; oldest first,
\* only one that is committed late or restored.
TwiceOnlyIfCutIn == walk # Idle /\ ~walk.cutIn => walk.twice = {}

=============================================================================
