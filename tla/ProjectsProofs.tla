--------------------------- MODULE ProjectsProofs ---------------------------
(* Theorems of Projects, for any finite set of ids, any number of writing     *)
(* requests and any page sizes.                                               *)
EXTENDS Projects, FiniteSetTheorems, TLAPS

-----------------------------------------------------------------------------
(* The invariants: rows stay, and no two of them have one created_at.         *)

InsertsFresh ==
  \A r \in Reqs : req[r].at = "insert" =>
    /\ project[req[r].id] = None
    /\ \A o \in Reqs : o # r /\ req[o] # Idle => req[o].id # req[r].id
UpdatesExist == \A r \in Reqs : req[r].at = "update" => project[req[r].id] # None
PageFromOne == walk # Idle => walk.page >= 1

TypeInv == TypeOK /\ InsertsFresh /\ UpdatesExist /\ PageFromOne

\* created_at tells the rows of a table apart.
Distinct(table) ==
  \A p, q \in Ids : table[p] # None /\ table[q] # None /\ p # q =>
                      table[p].created_at # table[q].created_at

RowsPast == \A p \in Ids : project[p] # None => project[p].created_at < clock
InsertsPast == \A r \in Reqs : req[r].at = "insert" => req[r].created_at < clock
InsertsApart ==
  \A r \in Reqs : req[r].at = "insert" =>
    /\ \A p \in Ids : project[p] # None => project[p].created_at # req[r].created_at
    /\ \A o \in Reqs : o # r /\ req[o].at = "insert" => req[o].created_at # req[r].created_at

StampInv == Distinct(project) /\ RowsPast /\ InsertsPast /\ InsertsApart

\* The rows that the pages before the next one hold now.
Passed(w) ==
  {p \in Listed(project, w.filter) :
     Rank(project, w.filter, w.desc, p) < Offset(w.page, w.limit)}

\* A row listed at the start that is on one of those pages has been given.
InitialSeen ==
  walk # Idle /\ ~walk.left => /\ walk.initial \subseteq Listed(project, walk.filter)
                               /\ walk.initial \cap Passed(walk) \subseteq walk.seen

MissInv == InitialSeen /\ WalkMissesNothing

\* A row that was given is on one of those pages, and not on a later one.
SeenPassed ==
  walk # Idle /\ ~walk.cutIn => walk.seen \cap Listed(project, walk.filter) \subseteq Passed(walk)

TwiceInv == SeenPassed /\ TwiceOnlyIfCutIn

-----------------------------------------------------------------------------
(* Types                                                                       *)

LEMMA Shapes ==
  ASSUME TypeOK, NEW r \in Reqs
  PROVE  /\ req[r] \in {Idle} \cup Insert \cup Update
         /\ req[r].at = "insert" => req[r] \in Insert
         /\ req[r].at = "update" => req[r] \in Update
         /\ req[r] # Idle => req[r] \in Insert \cup Update
  BY DEF TypeOK, Idle, Insert, Update

\* What a write leaves as it was.
RowsStay ==
  \A p \in Ids : project[p] # None =>
    project'[p] # None /\ project'[p].created_at = project[p].created_at

LEMMA WrittenKeepsRows ==
  ASSUME TypeInv, NEW r \in Reqs, CommitUpdate(r)
  PROVE  project' \in [Ids -> Row \cup {None}] /\ RowsStay
         /\ \A p \in Ids : project[p] = None => project'[p] = None
<1>1. /\ req[r] \in Update /\ project \in [Ids -> Row \cup {None}]
      /\ project[req[r].id] # None
  BY Shapes DEF TypeInv, TypeOK, CommitUpdate, UpdatesExist
<1>2. req[r].id \in Ids /\ req[r].is_archived \in BOOLEAN \cup {Unset} /\ project[req[r].id] \in Row
  BY <1>1 DEF Update
<1>3. CASE project' = project BY <1>1, <1>3 DEF RowsStay
<1>4. CASE req[r].is_archived \in BOOLEAN
           /\ project' = [project EXCEPT ![req[r].id].is_archived = req[r].is_archived]
  <2> DEFINE row == [project[req[r].id] EXCEPT !.is_archived = req[r].is_archived]
  <2>1. row \in Row /\ row.created_at = project[req[r].id].created_at
    BY <1>2, <1>4 DEF Row
  <2>2. project' = [project EXCEPT ![req[r].id] = row] BY <1>4
  <2>3. row # None BY <2>1, RowAssumption
  <2> HIDE DEF row
  <2> QED BY <1>1, <1>2, <2>1, <2>2, <2>3 DEF RowsStay
<1> QED BY <1>2, <1>3, <1>4 DEF CommitUpdate, Written

LEMMA InsertKeepsRows ==
  ASSUME TypeInv, NEW r \in Reqs, CommitCreate(r)
  PROVE  /\ req[r] \in Insert /\ project[req[r].id] = None
         /\ project' = [project EXCEPT ![req[r].id] =
                          [created_at |-> req[r].created_at, is_archived |-> FALSE]]
         /\ project' \in [Ids -> Row \cup {None}] /\ RowsStay
<1>1. /\ req[r] \in Insert /\ project \in [Ids -> Row \cup {None}] /\ project[req[r].id] = None
  BY Shapes DEF TypeInv, TypeOK, CommitCreate, InsertsFresh
<1>2. [created_at |-> req[r].created_at, is_archived |-> FALSE] \in Row
  BY <1>1 DEF Insert, Row
<1> QED BY <1>1, <1>2 DEF CommitCreate, Insert, RowsStay

LEMMA WatchedWalk ==
  ASSUME TypeOK, walk' = Watched(project'), walk # Idle
  PROVE  /\ walk \in Walk /\ walk' \in Walk /\ walk' # Idle
         /\ walk'.at = walk.at /\ walk'.filter = walk.filter /\ walk'.desc = walk.desc
         /\ walk'.limit = walk.limit /\ walk'.page = walk.page /\ walk'.seen = walk.seen
         /\ walk'.initial = walk.initial /\ walk'.twice = walk.twice
         /\ ~walk'.left => /\ ~walk.left
                           /\ Listed(project, walk.filter) \subseteq Listed(project', walk.filter)
         /\ ~walk'.cutIn =>
              /\ ~walk.cutIn
              /\ \A p \in Listed(project', walk.filter) \ Listed(project, walk.filter) :
                   /\ p \notin walk.seen
                   /\ \A q \in Listed(project, walk.filter) : ~Before(project', walk.desc, p, q)
<1> DEFINE before == Listed(project, walk.filter)
           after  == Listed(project', walk.filter)
           left   == walk.left \/ ~(before \subseteq after)
           cutIn  == walk.cutIn \/ \E p \in after \ before :
                       p \in walk.seen \/ \E q \in before : Before(project', walk.desc, p, q)
<1>1. walk \in Walk BY DEF TypeOK
<1>2. walk' = [walk EXCEPT !.left = left, !.cutIn = cutIn] BY DEF Watched
<1>3. left \in BOOLEAN /\ cutIn \in BOOLEAN BY <1>1 DEF Walk
<1>4. /\ left <=> walk.left \/ ~(before \subseteq after)
      /\ cutIn <=> walk.cutIn \/ \E p \in after \ before :
                     p \in walk.seen \/ \E q \in before : Before(project', walk.desc, p, q)
  OBVIOUS
<1> HIDE DEF left, cutIn
<1>5. walk' \in Walk /\ walk' # Idle BY <1>1, <1>2, <1>3 DEF Walk, Idle
<1>6. walk'.left = left /\ walk'.cutIn = cutIn BY <1>1, <1>2 DEF Walk
<1> QED BY <1>1, <1>2, <1>4, <1>5, <1>6 DEF Walk

LEMMA PageStep ==
  ASSUME TypeOK, GetPage
  PROVE  /\ walk \in Walk /\ walk' \in Walk /\ walk # Idle /\ walk' # Idle
         /\ walk.at = "walking" /\ Page(walk) \subseteq Listed(project, walk.filter)
         /\ walk'.filter = walk.filter /\ walk'.desc = walk.desc /\ walk'.limit = walk.limit
         /\ walk'.page = walk.page + 1 /\ walk'.initial = walk.initial
         /\ walk'.left = walk.left /\ walk'.cutIn = walk.cutIn
         /\ walk'.seen = walk.seen \cup Page(walk)
         /\ walk'.twice = walk.twice \cup (walk.seen \cap Page(walk))
         /\ walk'.at = "done" => Cardinality(Page(walk)) < walk.limit
         /\ UNCHANGED <<project, clock, req>>
<1>1. walk \in Walk /\ walk # Idle /\ walk.at = "walking"
  BY DEF TypeOK, GetPage, Idle
<1> DEFINE rows == Page(walk)
           at == IF Cardinality(rows) < walk.limit THEN "done" ELSE "walking"
<1>2. rows \in SUBSET Ids /\ rows \subseteq Listed(project, walk.filter)
  BY DEF Page, Listed
<1>3. walk' = [walk EXCEPT !.seen = walk.seen \cup rows,
                           !.twice = walk.twice \cup (walk.seen \cap rows),
                           !.page = walk.page + 1, !.at = at]
  BY <1>1 DEF GetPage
<1>4. at \in {"walking", "done"} /\ (at = "done" => Cardinality(rows) < walk.limit)
  OBVIOUS
<1>5. UNCHANGED <<project, clock, req>> BY DEF GetPage
<1> HIDE DEF rows, at
<1>6. walk' \in Walk /\ walk'.at = at /\ walk' # Idle
  <2>1. /\ walk.seen \cup rows \in SUBSET Ids /\ walk.page + 1 \in Nat
        /\ walk.twice \cup (walk.seen \cap rows) \in SUBSET Ids
    BY <1>1, <1>2 DEF Walk
  <2>2. walk' \in Walk BY <1>1, <1>3, <1>4, <2>1 DEF Walk
  <2>3. walk'.at = at BY <1>1, <1>3 DEF Walk
  <2> QED BY <1>4, <2>2, <2>3 DEF Idle
<1>7. /\ walk'.filter = walk.filter /\ walk'.desc = walk.desc /\ walk'.limit = walk.limit
      /\ walk'.page = walk.page + 1 /\ walk'.initial = walk.initial
      /\ walk'.left = walk.left /\ walk'.cutIn = walk.cutIn
      /\ walk'.seen = walk.seen \cup rows
      /\ walk'.twice = walk.twice \cup (walk.seen \cap rows)
  BY <1>1, <1>3 DEF Walk
<1> QED BY <1>1, <1>2, <1>4, <1>5, <1>6, <1>7 DEF rows

\* What a step does to the table and to the walk.
LEMMA StepKinds ==
  ASSUME TypeInv, [Next]_vars
  PROVE  \/ /\ UNCHANGED project
            /\ \/ UNCHANGED walk \/ GetPage \/ EndWalk
               \/ \E filter \in Filters, desc \in BOOLEAN, limit \in Limits :
                    StartWalk(filter, desc, limit)
         \/ project' \in [Ids -> Row \cup {None}] /\ RowsStay /\ walk' = Watched(project')
<1>1. ASSUME NEW r \in Reqs, CommitCreate(r)
      PROVE  project' \in [Ids -> Row \cup {None}] /\ RowsStay /\ walk' = Watched(project')
  BY <1>1, InsertKeepsRows DEF CommitCreate
<1>2. ASSUME NEW r \in Reqs, CommitUpdate(r)
      PROVE  project' \in [Ids -> Row \cup {None}] /\ RowsStay /\ walk' = Watched(project')
  BY <1>2, WrittenKeepsRows DEF CommitUpdate
<1> QED
  BY <1>1, <1>2 DEF Next, StartWalk, GetPage, EndWalk, StartCreate, StartUpdate, Abort, vars

LEMMA TypeInvInductive ==
  ASSUME TypeInv, [Next]_vars
  PROVE  TypeInv'
<1>1. /\ project \in [Ids -> Row \cup {None}] /\ clock \in Nat
      /\ req \in [Reqs -> {Idle} \cup Insert \cup Update] /\ walk \in Walk \cup {Idle}
  BY DEF TypeInv, TypeOK
<1>2. project' \in [Ids -> Row \cup {None}] /\ RowsStay
  BY <1>1, StepKinds DEF RowsStay
<1>3. (walk' \in Walk /\ (walk' # Idle => walk'.page >= 1)) \/ walk' = Idle
  <2>1. ASSUME NEW filter \in Filters, NEW desc \in BOOLEAN, NEW limit \in Limits,
               StartWalk(filter, desc, limit)
        PROVE  walk' \in Walk /\ walk'.page >= 1
    BY <2>1 DEF StartWalk, Walk, Listed
  <2>2. CASE GetPage BY <2>2, PageStep DEF TypeInv, PageFromOne, Walk
  <2>3. CASE walk' = Watched(project') /\ walk # Idle
    BY <2>3, WatchedWalk DEF TypeInv, PageFromOne
  <2>4. CASE walk' = Watched(project') /\ walk = Idle BY <2>4 DEF Watched
  <2> QED
    BY <1>1, <2>1, <2>2, <2>3, <2>4, StepKinds DEF EndWalk, TypeInv, PageFromOne
<1>4. PageFromOne' /\ walk' \in Walk \cup {Idle} BY <1>3 DEF PageFromOne
<1>5. ASSUME UNCHANGED <<project, clock, req>> PROVE TypeInv'
  BY <1>1, <1>4, <1>5 DEF TypeInv, TypeOK, InsertsFresh, UpdatesExist
<1>6. ASSUME NEW r \in Reqs, req' = [req EXCEPT ![r] = Idle], clock' = clock,
             project' = project \/ CommitUpdate(r) \/ CommitCreate(r)
      PROVE  TypeInv'
  <2>1. TypeOK' BY <1>1, <1>2, <1>4, <1>6 DEF TypeOK
  <2>2. \A o \in Reqs : req'[o] # Idle => o # r /\ req'[o] = req[o]
    BY <1>1, <1>6
  <2>3. Idle.at # "insert" /\ Idle.at # "update" BY DEF Idle
  <2>4. UpdatesExist'
    <3> SUFFICES ASSUME NEW o \in Reqs, req'[o].at = "update" PROVE project'[req'[o].id] # None
      BY DEF UpdatesExist
    <3>1. req'[o] = req[o] BY <2>2, <2>3
    <3>2. req[o].id \in Ids BY <3>1, Shapes DEF TypeInv, Update
    <3> QED BY <1>2, <3>1, <3>2 DEF RowsStay, TypeInv, UpdatesExist
  <2>5. InsertsFresh'
    <3> SUFFICES ASSUME NEW o \in Reqs, req'[o].at = "insert"
                 PROVE  /\ project'[req'[o].id] = None
                        /\ \A q \in Reqs : q # o /\ req'[q] # Idle => req'[q].id # req'[o].id
      BY DEF InsertsFresh
    <3>1. req'[o] = req[o] /\ o # r BY <2>2, <2>3
    <3>2. req[o].id \in Ids BY <3>1, Shapes DEF TypeInv, Insert
    <3>3. /\ project[req[o].id] = None
          /\ \A q \in Reqs : q # o /\ req[q] # Idle => req[q].id # req[o].id
      BY <3>1 DEF TypeInv, InsertsFresh
    <3>4. project'[req[o].id] = None
      <4>1. CASE CommitCreate(r)
        <5>1. req[r].id # req[o].id BY <2>3, <3>1, <3>3, <4>1 DEF CommitCreate
        <5> QED BY <1>1, <3>2, <3>3, <4>1, <5>1, InsertKeepsRows
      <4>2. CASE CommitUpdate(r) BY <3>2, <3>3, <4>2, WrittenKeepsRows
      <4> QED BY <1>6, <3>3, <4>1, <4>2
    <3> QED BY <2>2, <3>1, <3>3, <3>4
  <2> QED BY <1>4, <2>1, <2>4, <2>5 DEF TypeInv
<1>7. ASSUME NEW r \in Reqs, NEW p \in Ids, StartCreate(r, p) PROVE TypeInv'
  <2> DEFINE q == [at |-> "insert", id |-> p, created_at |-> clock]
  <2>1. q \in Insert /\ q.at = "insert" /\ q.id = p BY <1>1 DEF Insert
  <2>2. req' = [req EXCEPT ![r] = q] /\ clock' = clock + 1 /\ project' = project /\ req[r] = Idle
    BY <1>7 DEF StartCreate
  <2>3. project[p] = None /\ \A o \in Reqs : req[o] # Idle => req[o].id # p
    BY <1>7 DEF StartCreate
  <2> HIDE DEF q
  <2>4. TypeOK' BY <1>1, <1>4, <2>1, <2>2 DEF TypeOK
  <2>5. InsertsFresh' BY <1>1, <2>1, <2>2, <2>3 DEF TypeInv, InsertsFresh, Idle
  <2>6. UpdatesExist' BY <1>1, <2>1, <2>2 DEF TypeInv, UpdatesExist
  <2> QED BY <1>4, <2>4, <2>5, <2>6 DEF TypeInv
<1>8. ASSUME NEW r \in Reqs, NEW p \in Ids, NEW is_archived \in BOOLEAN \cup {Unset},
             StartUpdate(r, p, is_archived)
      PROVE  TypeInv'
  <2> DEFINE q == [at |-> "update", id |-> p, is_archived |-> is_archived, row |-> project[p]]
  <2>1. q \in Update /\ q.at = "update" /\ q.id = p BY <1>1, <1>8 DEF Update, StartUpdate
  <2>2. req' = [req EXCEPT ![r] = q] /\ clock' = clock /\ project' = project /\ project[p] # None
    BY <1>8 DEF StartUpdate
  <2> HIDE DEF q
  <2>4. TypeOK' BY <1>1, <1>4, <2>1, <2>2 DEF TypeOK
  <2>5. InsertsFresh' BY <1>1, <2>1, <2>2 DEF TypeInv, InsertsFresh
  <2>6. UpdatesExist' BY <1>1, <2>1, <2>2 DEF TypeInv, UpdatesExist
  <2> QED BY <1>4, <2>4, <2>5, <2>6 DEF TypeInv
<1> QED
  BY <1>5, <1>6, <1>7, <1>8
     DEF Next, StartWalk, GetPage, EndWalk, CommitCreate, CommitUpdate, Abort, vars

LEMMA TypeInvAlways == Spec => []TypeInv
<1>1. Init => TypeInv
  BY DEF Init, Idle, TypeInv, TypeOK, InsertsFresh, UpdatesExist, PageFromOne
<1> QED BY <1>1, TypeInvInductive, PTL DEF Spec

\* Every variable keeps its type: in particular no PATCH ever works on a row that
\* is not there, and none stores a value that its body does not name.
THEOREM TypeCorrect == Spec => []TypeOK
<1>1. TypeInv => TypeOK BY DEF TypeInv
<1> QED BY <1>1, TypeInvAlways, PTL

-----------------------------------------------------------------------------
(* created_at is unique and never changes, though it is drawn before the row  *)
(* is there.                                                                  *)

LEMMA StampInvInductive ==
  ASSUME TypeInv, StampInv, [Next]_vars
  PROVE  StampInv'
<1>1. /\ project \in [Ids -> Row \cup {None}] /\ clock \in Nat
      /\ req \in [Reqs -> {Idle} \cup Insert \cup Update]
      /\ \A p \in Ids : project[p] # None => project[p].created_at \in Nat
  BY DEF TypeInv, TypeOK, Row
<1>2. Idle.at # "insert" BY DEF Idle
<1>3. ASSUME NEW r \in Reqs, req' = [req EXCEPT ![r] = Idle], clock' = clock,
             project' = project \/ CommitUpdate(r)
      PROVE  StampInv'
  <2>1. \A p \in Ids : project'[p] # None =>
           project[p] # None /\ project'[p].created_at = project[p].created_at
    BY <1>1, <1>3, WrittenKeepsRows DEF RowsStay
  <2>2. \A o \in Reqs : req'[o].at = "insert" => req[o].at = "insert" /\ req'[o] = req[o]
    BY <1>1, <1>2, <1>3
  <2> QED
    BY <1>3, <2>1, <2>2 DEF StampInv, Distinct, RowsPast, InsertsPast, InsertsApart
<1>4. ASSUME NEW r \in Reqs, CommitCreate(r) PROVE StampInv'
  <2>1. /\ req[r] \in Insert /\ req[r].at = "insert" /\ clock' = clock
        /\ req' = [req EXCEPT ![r] = Idle]
    BY <1>4, InsertKeepsRows DEF CommitCreate
  <2>2. PICK p \in Ids, at \in Nat : p = req[r].id /\ at = req[r].created_at
    BY <2>1 DEF Insert
  <2>3. \A i \in Ids : project'[i] # None =>
           \/ i = p /\ project'[i].created_at = at
           \/ i # p /\ project[i] # None /\ project'[i].created_at = project[i].created_at
    <3>1. project' = [project EXCEPT ![p] = [created_at |-> at, is_archived |-> FALSE]]
      BY <1>4, <2>2, InsertKeepsRows
    <3>2. project'[p].created_at = at BY <1>1, <3>1
    <3>3. \A i \in Ids : i # p => project'[i] = project[i] BY <1>1, <3>1
    <3> QED BY <3>2, <3>3
  <2>4. /\ at < clock
        /\ \A i \in Ids : project[i] # None => project[i].created_at # at
        /\ \A o \in Reqs : o # r /\ req[o].at = "insert" => req[o].created_at # at
    BY <2>1, <2>2 DEF StampInv, InsertsPast, InsertsApart
  <2>5. \A o \in Reqs : req'[o].at = "insert" => o # r /\ req[o].at = "insert" /\ req'[o] = req[o]
    BY <1>1, <1>2, <2>1
  <2>6. Distinct(project)' BY <2>3, <2>4 DEF StampInv, Distinct
  <2>7. RowsPast' /\ InsertsPast' BY <2>1, <2>3, <2>4, <2>5 DEF StampInv, RowsPast, InsertsPast
  <2>8. InsertsApart' BY <2>3, <2>4, <2>5 DEF StampInv, InsertsApart
  <2> QED BY <2>6, <2>7, <2>8 DEF StampInv
<1>5. ASSUME NEW r \in Reqs, NEW p \in Ids, StartCreate(r, p) PROVE StampInv'
  <2>1. /\ clock' = clock + 1 /\ project' = project
        /\ req' = [req EXCEPT ![r] = [at |-> "insert", id |-> p, created_at |-> clock]]
    BY <1>5 DEF StartCreate
  <2>2. \A o \in Reqs : req'[o].at = "insert" =>
           \/ o = r /\ req'[o].created_at = clock
           \/ o # r /\ req[o].at = "insert" /\ req'[o] = req[o] /\ req[o].created_at \in Nat
    BY <1>1, <2>1, Shapes DEF TypeInv, Insert
  <2>3. Distinct(project)' /\ RowsPast'
    BY <1>1, <2>1 DEF StampInv, Distinct, RowsPast
  <2>4. InsertsPast' BY <1>1, <2>1, <2>2 DEF StampInv, InsertsPast
  <2>5. InsertsApart' BY <1>1, <2>1, <2>2 DEF StampInv, RowsPast, InsertsPast, InsertsApart
  <2> QED BY <2>3, <2>4, <2>5 DEF StampInv
<1>6. ASSUME NEW r \in Reqs, NEW p \in Ids, NEW is_archived \in BOOLEAN \cup {Unset},
             StartUpdate(r, p, is_archived)
      PROVE  StampInv'
  <2>1. \A o \in Reqs : req'[o].at = "insert" => req[o].at = "insert" /\ req'[o] = req[o]
    BY <1>1, <1>6 DEF StartUpdate
  <2> QED
    BY <1>6, <2>1 DEF StartUpdate, StampInv, Distinct, RowsPast, InsertsPast, InsertsApart
<1>7. ASSUME UNCHANGED <<project, clock, req>> PROVE StampInv'
  BY <1>7 DEF StampInv, Distinct, RowsPast, InsertsPast, InsertsApart
<1> QED
  BY <1>3, <1>4, <1>5, <1>6, <1>7
     DEF Next, StartWalk, GetPage, EndWalk, CommitUpdate, Abort, vars

LEMMA StampInvAlways == Spec => []StampInv
<1>1. Init => StampInv
  BY DEF Init, Idle, StampInv, Distinct, RowsPast, InsertsPast, InsertsApart
<1> QED BY <1>1, StampInvInductive, TypeInvAlways, PTL DEF Spec

-----------------------------------------------------------------------------
(* Ranks.  The rows of a list are numbered without gaps from zero, so a page  *)
(* that is not full is the last one.                                          *)

Table == {t \in [Ids -> Row \cup {None}] : Distinct(t)}

Preceding(t, filter, desc, p) == {q \in Listed(t, filter) : Before(t, desc, q, p)}

LEMMA RankFacts ==
  ASSUME NEW t, NEW filter, NEW desc, NEW p
  PROVE  /\ IsFiniteSet(Listed(t, filter)) /\ IsFiniteSet(Preceding(t, filter, desc, p))
         /\ Rank(t, filter, desc, p) = Cardinality(Preceding(t, filter, desc, p))
         /\ Rank(t, filter, desc, p) \in Nat
<1>1. Listed(t, filter) \in SUBSET Ids BY DEF Listed
<1>2. Preceding(t, filter, desc, p) \in SUBSET Ids BY <1>1 DEF Preceding
<1>3. Rank(t, filter, desc, p) = Cardinality(Preceding(t, filter, desc, p))
  BY DEF Rank, Preceding
<1>4. IsFiniteSet(Listed(t, filter)) /\ IsFiniteSet(Preceding(t, filter, desc, p))
  BY <1>1, <1>2, IdsAssumption, FS_Subset
<1> QED BY <1>3, <1>4, FS_CardinalityType

\* The list is in the order of its ranks.
LEMMA RanksFollowOrder ==
  ASSUME NEW t \in Table, NEW filter, NEW desc \in BOOLEAN,
         NEW p \in Listed(t, filter), NEW q \in Preceding(t, filter, desc, p)
  PROVE  /\ Preceding(t, filter, desc, q) \subseteq Preceding(t, filter, desc, p)
         /\ q \notin Preceding(t, filter, desc, q)
         /\ Rank(t, filter, desc, q) < Rank(t, filter, desc, p)
<1> DEFINE P == Preceding(t, filter, desc, p)
           Q == Preceding(t, filter, desc, q)
<1>1. \A i \in Listed(t, filter) : i \in Ids /\ t[i].created_at \in Nat
  BY DEF Listed, Table, Row
<1>2. Q \subseteq P /\ q \notin Q /\ q \in P
  BY <1>1 DEF Preceding, Before
<1>3. IsFiniteSet(P) /\ IsFiniteSet(Q) BY RankFacts
<1>4. Cardinality(Q) <= Cardinality(P) /\ Cardinality(Q) # Cardinality(P)
  BY <1>2, <1>3, FS_Subset
<1>5. Cardinality(Q) \in Nat /\ Cardinality(P) \in Nat BY <1>3, FS_CardinalityType
<1> HIDE DEF P, Q
<1>6. Cardinality(Q) < Cardinality(P) BY <1>4, <1>5
<1> QED BY <1>2, <1>6, RankFacts DEF P, Q

LEMMA RanksDiffer ==
  ASSUME NEW t \in Table, NEW filter, NEW desc \in BOOLEAN,
         NEW p \in Listed(t, filter), NEW q \in Listed(t, filter), p # q
  PROVE  Rank(t, filter, desc, p) # Rank(t, filter, desc, q)
<1>1. t[p].created_at \in Nat /\ t[q].created_at \in Nat /\ t[p].created_at # t[q].created_at
  BY DEF Listed, Table, Row, Distinct
<1>2. p \in Preceding(t, filter, desc, q) \/ q \in Preceding(t, filter, desc, p)
  BY <1>1 DEF Preceding, Before
<1>3. Rank(t, filter, desc, p) \in Nat /\ Rank(t, filter, desc, q) \in Nat BY RankFacts
<1> QED BY <1>2, <1>3, RanksFollowOrder

\* If a row lies behind a page, the page is full.
LEMMA PagesAreFull ==
  ASSUME NEW t \in Table, NEW filter, NEW desc \in BOOLEAN, NEW offset \in Nat, NEW limit \in Nat,
         NEW last \in Listed(t, filter), offset + limit <= Rank(t, filter, desc, last)
  PROVE  limit <= Cardinality({p \in Listed(t, filter) :
                                 /\ offset <= Rank(t, filter, desc, p)
                                 /\ Rank(t, filter, desc, p) < offset + limit})
<1> DEFINE L == Listed(t, filter)
           R(p) == Rank(t, filter, desc, p)
           P(p) == Preceding(t, filter, desc, p)
           A == {p \in L : R(p) < offset}
           W == {p \in L : offset <= R(p) /\ R(p) < offset + limit}
           H == {p \in L : offset + limit <= R(p)}
<1>1. IsFiniteSet(L) /\ \A p \in L : R(p) \in Nat /\ IsFiniteSet(P(p)) /\ R(p) = Cardinality(P(p))
  BY RankFacts
\* The first row behind the page: no row before it lies behind the page.
<1>2. PICK h \in H : \A q \in P(h) : q \notin H
  <2> DEFINE T == {P(p) : p \in H}
  <2>1. IsWellFoundedOn(StrictSubsetOrdering(Ids), FiniteSubsetsOf(Ids))
    BY FS_StrictSubsetOrderingWellFounded
  <2>2. T \subseteq FiniteSubsetsOf(Ids) /\ T # {}
    BY <1>1 DEF FiniteSubsetsOf, Preceding, Listed
  <2>3. PICK S \in T : \A U \in T : <<U, S>> \notin StrictSubsetOrdering(Ids)
    BY <2>1, <2>2, WFMin
  <2>4. PICK h \in H : S = P(h) BY <2>3
  <2>5. ASSUME NEW q \in P(h), q \in H PROVE FALSE
    <3>1. P(q) \subseteq P(h) /\ q \notin P(q) BY <2>4, <2>5, RanksFollowOrder
    <3>2. P(q) # P(h) /\ P(q) \in T BY <2>5, <3>1
    <3>3. P(q) \subseteq Ids /\ P(h) \subseteq Ids BY DEF Preceding, Listed
    <3>4. <<P(q), P(h)>> \in StrictSubsetOrdering(Ids)
      BY <3>1, <3>2, <3>3 DEF StrictSubsetOrdering
    <3> QED BY <2>3, <2>4, <3>2, <3>4
  <2> QED BY <2>4, <2>5
<1>3. P(h) \subseteq A \cup W
  <2> SUFFICES ASSUME NEW q \in P(h) PROVE q \in A \cup W
    OBVIOUS
  <2>1. q \in L /\ q \notin H BY <1>2 DEF Preceding
  <2>2. R(q) \in Nat BY <1>1, <2>1
  <2> HIDE DEF R, L
  <2> QED BY <2>1, <2>2
<1>4. IsFiniteSet(A) /\ IsFiniteSet(W) BY <1>1, FS_Subset
<1>5. Cardinality(A) <= offset
  <2> DEFINE f == [p \in A |-> R(p)]
  <2>1. \A p \in A : R(p) \in 0..(offset - 1)
    <3> SUFFICES ASSUME NEW p \in A PROVE R(p) \in 0..(offset - 1)
      OBVIOUS
    <3>1. R(p) \in Nat /\ R(p) < offset BY <1>1
    <3> HIDE DEF R
    <3> QED BY <3>1
  <2>2. \A p, q \in A : R(p) = R(q) => p = q BY RanksDiffer
  <2>3. f \in Injection(A, 0..(offset - 1))
    BY <2>1, <2>2 DEF Injection, IsInjective
  <2>4. IsFiniteSet(0..(offset - 1)) /\ Cardinality(0..(offset - 1)) = offset
    <3>1. 0 \in Int /\ offset - 1 \in Int OBVIOUS
    <3>2. /\ IsFiniteSet(0..(offset - 1))
          /\ Cardinality(0..(offset - 1)) = IF 0 > offset - 1 THEN 0 ELSE offset - 1 - 0 + 1
      BY <3>1, FS_Interval
    <3> QED BY <3>2
  <2> QED BY <2>3, <2>4, FS_Injection
<1>6. /\ IsFiniteSet(A \cup W)
      /\ Cardinality(A \cup W) = Cardinality(A) + Cardinality(W) - Cardinality(A \cap W)
      /\ Cardinality(A) \in Nat /\ Cardinality(W) \in Nat /\ Cardinality(A \cap W) \in Nat
  <2>1. IsFiniteSet(A \cap W) BY <1>4, FS_Intersection
  <2> QED BY <1>4, <2>1, FS_Union, FS_CardinalityType
<1>7. Cardinality(P(h)) <= Cardinality(A \cup W) BY <1>3, <1>6, FS_Subset
<1>8. R(h) \in Nat /\ R(h) = Cardinality(P(h)) /\ offset + limit <= R(h) BY <1>1, <1>2
<1> HIDE DEF A, W, P, R
<1>9. limit <= Cardinality(W) BY <1>5, <1>6, <1>7, <1>8
<1> QED BY <1>9 DEF W, R

-----------------------------------------------------------------------------
(* The walk.  While no row leaves, ranks only grow: a row can slide to a later *)
(* page, never behind the client.  While none cuts in, they never grow.        *)

LEMMA OffsetFacts ==
  ASSUME NEW page \in Nat, page >= 1, NEW limit \in Nat
  PROVE  /\ Offset(page, limit) \in Nat
         /\ Offset(page + 1, limit) = Offset(page, limit) + limit
         /\ Offset(1, limit) = 0
<1>1. PICK k \in Nat : page = k + 1
  <2>1. page - 1 \in Nat /\ page = (page - 1) + 1 OBVIOUS
  <2> QED BY <2>1
<1>2. page - 1 = k /\ page + 1 - 1 = k + 1 /\ 1 - 1 = 0 BY <1>1
<1>3. k * limit \in Nat /\ (k + 1) * limit = k * limit + limit /\ 0 * limit = 0 BY <1>1
<1> QED BY <1>2, <1>3 DEF Offset

LEMMA ListedIsTable ==
  ASSUME TypeInv, StampInv, [Next]_vars
  PROVE  project \in Table /\ project' \in Table
<1>1. TypeInv' /\ StampInv' BY TypeInvInductive, StampInvInductive
<1> QED BY <1>1 DEF TypeInv, TypeOK, StampInv, Table, Distinct

LEMMA RanksGrow ==
  ASSUME project \in Table, RowsStay, NEW filter, NEW desc \in BOOLEAN,
         Listed(project, filter) \subseteq Listed(project', filter),
         NEW p \in Listed(project, filter)
  PROVE  Rank(project, filter, desc, p) <= Rank(project', filter, desc, p)
<1> DEFINE Old == Preceding(project, filter, desc, p)
           New == Preceding(project', filter, desc, p)
<1>1. \A q \in Listed(project, filter) : q \in Ids /\ project'[q].created_at = project[q].created_at
  BY DEF Listed, RowsStay
<1>2. Old \subseteq New BY <1>1 DEF Preceding, Before
<1>3. IsFiniteSet(Old) /\ IsFiniteSet(New) BY RankFacts
<1>4. Cardinality(Old) <= Cardinality(New) BY <1>2, <1>3, FS_Subset
<1> QED BY <1>4, RankFacts

LEMMA RanksDoNotGrow ==
  ASSUME project \in Table, RowsStay, NEW filter, NEW desc \in BOOLEAN,
         NEW p \in Listed(project, filter) \cap Listed(project', filter),
         \A q \in Listed(project', filter) \ Listed(project, filter) : ~Before(project', desc, q, p)
  PROVE  Rank(project', filter, desc, p) <= Rank(project, filter, desc, p)
<1> DEFINE Old == Preceding(project, filter, desc, p)
           New == Preceding(project', filter, desc, p)
<1>1. \A q \in Listed(project, filter) : q \in Ids /\ project'[q].created_at = project[q].created_at
  BY DEF Listed, RowsStay
<1>2. New \subseteq Old BY <1>1 DEF Preceding, Before
<1>3. IsFiniteSet(Old) /\ IsFiniteSet(New) BY RankFacts
<1>4. Cardinality(New) <= Cardinality(Old) BY <1>2, <1>3, FS_Subset
<1> QED BY <1>4, RankFacts

\* What a page is, by rank; and the pages passed once it has been given.
LEMMA PageByRank ==
  ASSUME TypeInv, GetPage, NEW p \in Listed(project, walk.filter)
  PROVE  LET rank == Rank(project, walk.filter, walk.desc, p)
             offset == Offset(walk.page, walk.limit)
         IN  /\ rank \in Nat /\ offset \in Nat /\ walk.limit \in Nat
             /\ p \in Passed(walk) <=> rank < offset
             /\ p \in Page(walk) <=> offset <= rank /\ rank < offset + walk.limit
             /\ p \in Passed(walk)' <=> rank < offset + walk.limit
<1>1. walk \in Walk /\ walk # Idle BY PageStep DEF TypeInv
<1>2. walk.page \in Nat /\ walk.page >= 1 /\ walk.limit \in Nat
  BY <1>1, LimitsAssumption DEF Walk, TypeInv, PageFromOne
<1>3. Offset(walk.page, walk.limit) \in Nat
      /\ Offset(walk.page + 1, walk.limit) = Offset(walk.page, walk.limit) + walk.limit
  BY <1>2, OffsetFacts
<1>4. p \in Passed(walk)' <=> Rank(project, walk.filter, walk.desc, p) < Offset(walk.page + 1, walk.limit)
  BY PageStep DEF TypeInv, Passed
<1>5. Rank(project, walk.filter, walk.desc, p) \in Nat BY RankFacts
<1> QED BY <1>2, <1>3, <1>4, <1>5 DEF Passed, Page

LEMMA MissInvInductive ==
  ASSUME TypeInv, StampInv, MissInv, [Next]_vars
  PROVE  MissInv'
<1>1. project \in Table /\ project' \in Table BY ListedIsTable
<1>2. CASE UNCHANGED <<project, walk>>
  BY <1>2 DEF MissInv, InitialSeen, WalkMissesNothing, Passed
<1>3. CASE EndWalk BY <1>3 DEF EndWalk, MissInv, InitialSeen, WalkMissesNothing
<1>4. ASSUME NEW filter \in Filters, NEW desc \in BOOLEAN, NEW limit \in Limits,
             StartWalk(filter, desc, limit)
      PROVE  MissInv'
  <2>1. /\ walk'.at = "walking" /\ walk'.filter = filter /\ walk'.initial = Listed(project, filter)
        /\ walk'.limit = limit /\ walk'.page = 1 /\ project' = project
    BY <1>4 DEF StartWalk
  <2>2. Offset(1, limit) = 0
    BY LimitsAssumption, OffsetFacts
  <2>3. Passed(walk)' = {}
    BY <2>1, <2>2, RankFacts DEF Passed
  <2> QED BY <2>1, <2>3 DEF MissInv, InitialSeen, WalkMissesNothing
<1>5. CASE GetPage
  <2>1. /\ walk \in Walk /\ walk # Idle /\ walk.at = "walking" /\ UNCHANGED project
        /\ walk'.filter = walk.filter /\ walk'.desc = walk.desc /\ walk'.limit = walk.limit
        /\ walk'.initial = walk.initial /\ walk'.left = walk.left
        /\ walk'.seen = walk.seen \cup Page(walk)
        /\ walk'.at = "done" => Cardinality(Page(walk)) < walk.limit
    BY <1>5, PageStep DEF TypeInv
  <2>2. InitialSeen'
    <3> SUFFICES ASSUME ~walk.left, NEW p \in walk.initial
                 PROVE  /\ p \in Listed(project, walk.filter)
                        /\ p \in Passed(walk)' => p \in walk.seen \cup Page(walk)
      BY <2>1 DEF InitialSeen
    <3>1. p \in Listed(project, walk.filter) /\ (p \in Passed(walk) => p \in walk.seen)
      BY <2>1 DEF MissInv, InitialSeen
    <3> QED BY <1>5, <3>1, PageByRank
  <2>3. WalkMissesNothing'
    <3> SUFFICES ASSUME walk'.at = "done", ~walk.left, NEW p \in walk.initial
                 PROVE  p \in walk'.seen
      BY <2>1 DEF WalkMissesNothing
    <3>1. p \in Listed(project, walk.filter) /\ (p \in Passed(walk)' => p \in walk'.seen)
      <4>1. p \in Listed(project, walk.filter) BY <2>1 DEF MissInv, InitialSeen
      <4>2. walk' # Idle /\ ~walk'.left /\ p \in walk'.initial
        BY <1>5, <2>1, PageStep DEF TypeInv
      <4>3. p \in Passed(walk)' => p \in walk'.seen BY <2>2, <4>2 DEF InitialSeen
      <4> QED BY <4>1, <4>3
    <3> DEFINE rank == Rank(project, walk.filter, walk.desc, p)
               offset == Offset(walk.page, walk.limit)
    <3>2. rank \in Nat /\ offset \in Nat /\ walk.limit \in Nat
      BY <1>5, <3>1, PageByRank
    <3>3. ~(offset + walk.limit <= rank)
      <4>1. ASSUME offset + walk.limit <= rank PROVE walk.limit <= Cardinality(Page(walk))
        BY <1>1, <2>1, <3>1, <3>2, <4>1, PagesAreFull DEF Page, Walk
      <4>2. Cardinality(Page(walk)) \in Nat
        BY RankFacts, FS_Subset, FS_CardinalityType DEF Page
      <4> QED BY <2>1, <3>2, <4>1, <4>2
    <3>4. rank < offset + walk.limit BY <3>2, <3>3
    <3> QED BY <1>5, <3>1, <3>4, PageByRank
  <2> QED BY <2>2, <2>3 DEF MissInv
<1>6. CASE RowsStay /\ walk' = Watched(project')
  <2>1. CASE walk = Idle
    BY <1>6, <2>1 DEF Watched, MissInv, InitialSeen, WalkMissesNothing
  <2>2. CASE walk # Idle
    <3>1. /\ walk \in Walk /\ walk' # Idle /\ walk'.at = walk.at /\ walk'.filter = walk.filter
          /\ walk'.desc = walk.desc /\ walk'.limit = walk.limit /\ walk'.page = walk.page
          /\ walk'.seen = walk.seen /\ walk'.initial = walk.initial
          /\ ~walk'.left => /\ ~walk.left
                            /\ Listed(project, walk.filter) \subseteq Listed(project', walk.filter)
      BY <1>6, <2>2, WatchedWalk DEF TypeInv
    <3>2. WalkMissesNothing' BY <2>2, <3>1 DEF MissInv, WalkMissesNothing
    <3>3. InitialSeen'
      <4> SUFFICES ASSUME ~walk'.left, NEW p \in walk.initial
                   PROVE  /\ p \in Listed(project', walk.filter)
                          /\ p \in Passed(walk)' => p \in walk.seen
        BY <3>1 DEF InitialSeen
      <4>1. /\ p \in Listed(project, walk.filter) /\ p \in Listed(project', walk.filter)
            /\ (p \in Passed(walk) => p \in walk.seen)
        BY <2>2, <3>1 DEF MissInv, InitialSeen
      <4>2. Rank(project, walk.filter, walk.desc, p) <= Rank(project', walk.filter, walk.desc, p)
        BY <1>1, <1>6, <3>1, <4>1, RanksGrow DEF Walk
      <4>3. p \in Passed(walk)' => p \in Passed(walk)
        <5> DEFINE offset == Offset(walk.page, walk.limit)
        <5>1. walk.page \in Nat /\ walk.page >= 1 /\ walk.limit \in Nat
          BY <2>2, <3>1, LimitsAssumption DEF Walk, TypeInv, PageFromOne
        <5>2. offset \in Nat BY <5>1, OffsetFacts
        <5>3. /\ p \in Passed(walk)' => Rank(project', walk.filter, walk.desc, p) < offset
              /\ Rank(project, walk.filter, walk.desc, p) < offset => p \in Passed(walk)
          BY <3>1, <4>1 DEF Passed
        <5>4. /\ Rank(project, walk.filter, walk.desc, p) \in Nat
              /\ Rank(project', walk.filter, walk.desc, p) \in Nat
          BY RankFacts
        <5> HIDE DEF offset
        <5> QED BY <4>2, <5>2, <5>3, <5>4
      <4> QED BY <4>1, <4>3
    <3> QED BY <3>2, <3>3 DEF MissInv
  <2> QED BY <2>1, <2>2
<1> QED BY <1>2, <1>3, <1>4, <1>5, <1>6, StepKinds

\* A walk through pages of any size misses nothing that was listed when it began
\* and that no write took out of the list: inserts, late commits and restored rows
\* only push rows to later pages, and a page that is not full is the last.
THEOREM WalksMissNothing == Spec => []WalkMissesNothing
<1>1. Init => MissInv BY DEF Init, MissInv, InitialSeen, WalkMissesNothing
<1>2. TypeInv /\ StampInv /\ MissInv /\ [Next]_vars => MissInv' BY MissInvInductive
<1>3. MissInv => WalkMissesNothing BY DEF MissInv
<1> QED BY <1>1, <1>2, <1>3, TypeInvAlways, StampInvAlways, PTL DEF Spec

LEMMA TwiceInvInductive ==
  ASSUME TypeInv, StampInv, TwiceInv, [Next]_vars
  PROVE  TwiceInv'
<1>1. project \in Table /\ project' \in Table BY ListedIsTable
<1>2. CASE UNCHANGED <<project, walk>>
  BY <1>2 DEF TwiceInv, SeenPassed, TwiceOnlyIfCutIn, Passed
<1>3. CASE EndWalk BY <1>3 DEF EndWalk, TwiceInv, SeenPassed, TwiceOnlyIfCutIn
<1>4. ASSUME NEW filter \in Filters, NEW desc \in BOOLEAN, NEW limit \in Limits,
             StartWalk(filter, desc, limit)
      PROVE  TwiceInv'
  BY <1>4 DEF StartWalk, TwiceInv, SeenPassed, TwiceOnlyIfCutIn
<1>5. CASE GetPage
  <2>1. /\ walk \in Walk /\ walk # Idle /\ UNCHANGED project
        /\ Page(walk) \subseteq Listed(project, walk.filter)
        /\ walk'.filter = walk.filter /\ walk'.cutIn = walk.cutIn
        /\ walk'.seen = walk.seen \cup Page(walk)
        /\ walk'.twice = walk.twice \cup (walk.seen \cap Page(walk))
    BY <1>5, PageStep DEF TypeInv
  <2>2. \A p \in Listed(project, walk.filter) :
          /\ p \in Passed(walk) \cup Page(walk) => p \in Passed(walk)'
          /\ ~(p \in Passed(walk) /\ p \in Page(walk))
    BY <1>5, PageByRank
  <2> QED BY <2>1, <2>2 DEF TwiceInv, SeenPassed, TwiceOnlyIfCutIn
<1>6. CASE RowsStay /\ walk' = Watched(project')
  <2>1. CASE walk = Idle
    BY <1>6, <2>1 DEF Watched, TwiceInv, SeenPassed, TwiceOnlyIfCutIn
  <2>2. CASE walk # Idle
    <3>1. /\ walk \in Walk /\ walk' # Idle /\ walk'.filter = walk.filter
          /\ walk'.desc = walk.desc /\ walk'.limit = walk.limit /\ walk'.page = walk.page
          /\ walk'.seen = walk.seen /\ walk'.twice = walk.twice
          /\ ~walk'.cutIn =>
               /\ ~walk.cutIn
               /\ \A p \in Listed(project', walk.filter) \ Listed(project, walk.filter) :
                    /\ p \notin walk.seen
                    /\ \A q \in Listed(project, walk.filter) : ~Before(project', walk.desc, p, q)
      BY <1>6, <2>2, WatchedWalk DEF TypeInv
    <3>2. TwiceOnlyIfCutIn' BY <2>2, <3>1 DEF TwiceInv, TwiceOnlyIfCutIn
    <3>3. SeenPassed'
      <4> SUFFICES ASSUME ~walk'.cutIn, NEW p \in walk.seen \cap Listed(project', walk.filter)
                   PROVE  p \in Passed(walk)'
        BY <3>1 DEF SeenPassed
      <4>1. p \in Listed(project, walk.filter) /\ p \in Passed(walk)
        BY <2>2, <3>1 DEF TwiceInv, SeenPassed
      <4>2. Rank(project', walk.filter, walk.desc, p) <= Rank(project, walk.filter, walk.desc, p)
        BY <1>1, <1>6, <3>1, <4>1, RanksDoNotGrow DEF Walk
      <4> DEFINE offset == Offset(walk.page, walk.limit)
      <4>3. walk.page \in Nat /\ walk.page >= 1 /\ walk.limit \in Nat
        BY <2>2, <3>1, LimitsAssumption DEF Walk, TypeInv, PageFromOne
      <4>4. offset \in Nat BY <4>3, OffsetFacts
      <4>5. /\ Rank(project, walk.filter, walk.desc, p) < offset
            /\ Rank(project', walk.filter, walk.desc, p) < offset => p \in Passed(walk)'
        BY <3>1, <4>1 DEF Passed
      <4>6. /\ Rank(project, walk.filter, walk.desc, p) \in Nat
            /\ Rank(project', walk.filter, walk.desc, p) \in Nat
        BY RankFacts
      <4> HIDE DEF offset
      <4> QED BY <4>2, <4>4, <4>5, <4>6
    <3> QED BY <3>2, <3>3 DEF TwiceInv
  <2> QED BY <2>1, <2>2
<1> QED BY <1>2, <1>3, <1>4, <1>5, <1>6, StepKinds

\* A walk is given no row twice unless one cut in before another, or left the list
\* and came back: whatever else is created, archived or restored meanwhile.
THEOREM WalksRepeatNothing == Spec => []TwiceOnlyIfCutIn
<1>1. Init => TwiceInv BY DEF Init, TwiceInv, SeenPassed, TwiceOnlyIfCutIn
<1>2. TypeInv /\ StampInv /\ TwiceInv /\ [Next]_vars => TwiceInv' BY TwiceInvInductive
<1>3. TwiceInv => TwiceOnlyIfCutIn BY DEF TwiceInv
<1> QED BY <1>1, <1>2, <1>3, TypeInvAlways, StampInvAlways, PTL DEF Spec

=============================================================================
