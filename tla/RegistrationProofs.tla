-------------------------- MODULE RegistrationProofs --------------------------
(***************************************************************************)
(* Proofs about Registration, for any number of requests.  The rows that   *)
(* are committed or inserted never clash, so neither do the committed; and *)
(* a row that a request is told of by the table was not there to be seen.  *)
(***************************************************************************)
EXTENDS Registration, TLAPS

Fits == {u \in Row : u.name \notin TooLong}

\* Rows are inserted by a client that is about to commit, and what it inserts is
\* an account for a developer or what the script brings.
PendingOK ==
  /\ \A c \in Clients : pending[c] # {} => at[c] = "commit"
  /\ at[Seeder] # "query"
  /\ \A c \in Reqs : at[c] \in {"query", "insert"} => row[c] \in Row
  /\ \A c \in Reqs : row[c] # None => row[c].role = "developer"
  /\ \A c \in Reqs : pending[c] \subseteq {u \in Fits : u.role = "developer"}
  /\ pending[Seeder] \in {{}, SeedRows}

\* A row that is in the table, visible or not.
There(u) == u \in users \/ \E c \in Clients : u \in pending[c]

NoClash == \A a, b \in Row : There(a) /\ There(b) /\ Clash(a, b) => a = b

IInv == TypeOK /\ PendingOK /\ NoClash /\ SeedAllOrNothing

-----------------------------------------------------------------------------
LEMMA SeedRowsFit == SeedRows \subseteq Fits
BY SeedAssumption DEF Fits

LEMMA InitInv == Init => IInv
<1> SUFFICES ASSUME Init PROVE IInv
  OBVIOUS
<1>1. TypeOK
  BY DEF Init, TypeOK
<1>2. PendingOK
  BY NamesAssumption DEF Init, PendingOK, Clients
<1>3. NoClash /\ SeedAllOrNothing
  BY DEF Init, NoClash, There, SeedAllOrNothing
<1> QED
  BY <1>1, <1>2, <1>3 DEF IInv

\* The end of a transaction that leaves the table as it is.
LEMMA EndsInv ==
  ASSUME IInv, NEW c \in Clients, NEW with \in {"taken", "conflict", "error"},
         Ends(c, with), UNCHANGED <<users, strong>>
  PROVE  IInv'
<1> USE DEF IInv
<1>1. TypeOK'
  BY DEF Ends, TypeOK
<1>2. /\ \A d \in Clients : pending'[d] = IF d = c THEN {} ELSE pending[d]
      /\ \A d \in Clients : at'[d] = IF d = c THEN "done" ELSE at[d]
      /\ \A d \in Clients : row'[d] = IF d = c THEN None ELSE row[d]
  BY DEF Ends, TypeOK
<1>3. PendingOK'
  BY <1>2 DEF PendingOK, Clients
<1>4. \A u : There(u)' => There(u)
  BY <1>2 DEF There
<1>5. NoClash'
  BY <1>4 DEF NoClash, Clash
<1>6. SeedAllOrNothing'
  BY DEF SeedAllOrNothing
<1> QED
  BY <1>1, <1>3, <1>5, <1>6

\* What register and the script ask for, before they touch the table.
LEMMA RegisterInv ==
  ASSUME IInv, NEW c \in Reqs, NEW n \in Names, NEW m \in Mails, NEW good \in BOOLEAN,
         Register(c, n, m, good)
  PROVE  IInv'
<1> USE DEF IInv
<1> DEFINE new == [name |-> n, hash |-> MailHash[m], role |-> "developer"]
<1>1. new \in Row /\ new.role = "developer"
  BY DEF Row, Hashes
<1>2. TypeOK'
  BY <1>1 DEF Register, TypeOK, Clients
<1>3. /\ \A d \in Clients : at'[d] = IF d = c THEN "query" ELSE at[d]
      /\ \A d \in Clients : row'[d] = IF d = c THEN new ELSE row[d]
      /\ at[c] = "new" /\ UNCHANGED <<users, pending>>
  BY DEF Register, TypeOK, Clients
<1> HIDE DEF new
<1>4. PendingOK'
  BY <1>1, <1>3, NamesAssumption DEF PendingOK, Clients
<1>5. NoClash' /\ SeedAllOrNothing'
  BY <1>3 DEF NoClash, There, Clash, SeedAllOrNothing
<1> QED
  BY <1>2, <1>4, <1>5

LEMMA SeedInv == ASSUME IInv, Seed PROVE IInv'
<1> USE DEF IInv
<1>1. TypeOK'
  BY DEF Seed, TypeOK
<1>2. /\ \A d \in Clients : at'[d] = IF d = Seeder THEN "insert" ELSE at[d]
      /\ at[Seeder] = "new" /\ UNCHANGED <<users, pending, row>>
  BY DEF Seed, TypeOK, Clients
<1>3. PendingOK'
  BY <1>2, NamesAssumption DEF PendingOK, Clients
<1>4. NoClash' /\ SeedAllOrNothing'
  BY <1>2 DEF NoClash, There, Clash, SeedAllOrNothing
<1> QED
  BY <1>1, <1>3, <1>4

LEMMA QueryInv ==
  ASSUME IInv, NEW c \in Clients, Query(c)
  PROVE  IInv'
<1> USE DEF IInv
<1>0. c \in Reqs
  BY DEF Query, PendingOK, Clients
<1>1. CASE Taken(row[c]) \/ ~strong[c]
  <2>1. UNCHANGED <<users, strong>> /\ (Ends(c, "taken") \/ Ends(c, "error"))
    BY <1>1 DEF Query
  <2> QED
    BY <2>1, EndsInv
<1>2. CASE ~Taken(row[c]) /\ strong[c]
  <2>1. /\ at[c] = "query" /\ at' = [at EXCEPT ![c] = "insert"]
        /\ before' = [before EXCEPT ![c] = users]
        /\ UNCHANGED <<users, strong, pending, row, answer>>
    BY <1>2 DEF Query
  <2>2. users \subseteq Row
    BY DEF TypeOK
  <2>3. TypeOK'
    BY <2>1, <2>2 DEF TypeOK
  <2>4. \A d \in Clients : at'[d] = IF d = c THEN "insert" ELSE at[d]
    BY <2>1 DEF TypeOK
  <2>5. PendingOK'
    BY <1>0, <2>1, <2>4, NamesAssumption DEF PendingOK, Clients
  <2>6. NoClash' /\ SeedAllOrNothing'
    BY <2>1 DEF NoClash, There, Clash, SeedAllOrNothing
  <2> QED
    BY <2>3, <2>5, <2>6
<1> QED
  BY <1>1, <1>2

\* What c inserts fits the columns that are not looked at, and does not clash
\* with itself.
LEMMA InsertedRows ==
  ASSUME IInv, NEW c \in Clients, at[c] = "insert"
  PROVE  /\ Inserted(c) \subseteq Row
         /\ \A a, b \in Inserted(c) : Clash(a, b) => a = b
         /\ c \in Reqs => \A u \in Inserted(c) : u.role = "developer"
<1>1. CASE c = Seeder
  BY <1>1, SeedRowsFit, SeedAssumption, NamesAssumption DEF Inserted, Fits, Clash
<1>2. CASE c # Seeder
  <2>1. c \in Reqs /\ Inserted(c) = {row[c]}
    BY <1>2 DEF Inserted, Clients
  <2>2. row[c] \in Row /\ row[c] # None
    BY <2>1, NamesAssumption DEF IInv, PendingOK
  <2> QED
    BY <2>1, <2>2 DEF IInv, PendingOK
<1> QED
  BY <1>1, <1>2

LEMMA InsertInv ==
  ASSUME IInv, NEW c \in Clients, Insert(c)
  PROVE  IInv'
<1> USE DEF IInv
<1>1. CASE Ends(c, "error") \/ Ends(c, "conflict")
  BY <1>1, EndsInv DEF Insert
<1>2. CASE ~(Ends(c, "error") \/ Ends(c, "conflict"))
  <2>1. /\ at[c] = "insert" /\ ~TooWide(c) /\ ~Blocked(c)
        /\ \A a \in users, b \in Inserted(c) : ~Clash(a, b)
        /\ pending' = [pending EXCEPT ![c] = Inserted(c)]
        /\ at' = [at EXCEPT ![c] = "commit"]
        /\ UNCHANGED <<users, strong, row, answer, before>>
    BY <1>2 DEF Insert
  <2>2. /\ Inserted(c) \subseteq Fits
        /\ \A a, b \in Inserted(c) : Clash(a, b) => a = b
        /\ c \in Reqs => \A u \in Inserted(c) : u.role = "developer"
    BY <2>1, InsertedRows DEF TooWide, Fits
  <2>3. /\ \A d \in Clients : pending'[d] = IF d = c THEN Inserted(c) ELSE pending[d]
        /\ \A d \in Clients : at'[d] = IF d = c THEN "commit" ELSE at[d]
    BY <2>1 DEF TypeOK
  <2>4. TypeOK'
    BY <2>1, <2>2 DEF TypeOK, Fits
  <2>5. PendingOK'
    <3>1. c = Seeder => Inserted(c) = SeedRows
      BY DEF Inserted
    <3> QED
      BY <2>1, <2>2, <2>3, <3>1, NamesAssumption DEF PendingOK, Clients
  <2>6. NoClash'
    <3> SUFFICES ASSUME NEW a \in Row, NEW b \in Row, There(a)', There(b)', Clash(a, b)
                 PROVE  a = b
      BY DEF NoClash, Clash
    <3>1. pending[c] = {}
      BY <2>1 DEF PendingOK
    <3>2. \A u : There(u)' <=> There(u) \/ u \in Inserted(c)
      BY <2>1, <2>3, <3>1 DEF There
    <3>3. \A u, v : There(u) /\ v \in Inserted(c) => ~Clash(u, v) /\ ~Clash(v, u)
      BY <2>1, <3>1 DEF There, Blocked, Clash
    <3> QED
      BY <2>2, <3>2, <3>3 DEF NoClash
  <2>7. SeedAllOrNothing'
    BY <2>1 DEF SeedAllOrNothing
  <2> QED
    BY <2>4, <2>5, <2>6, <2>7
<1> QED
  BY <1>1, <1>2

LEMMA CommitInv ==
  ASSUME IInv, NEW c \in Clients, Commit(c)
  PROVE  IInv'
<1> USE DEF IInv
<1>1. PICK with \in {"created", "error"} : Ends(c, with)
  BY DEF Commit
<1>2. users' = users \cup pending[c] /\ strong' = strong /\ at[c] = "commit"
  BY DEF Commit
<1>3. /\ \A d \in Clients : pending'[d] = IF d = c THEN {} ELSE pending[d]
      /\ \A d \in Clients : at'[d] = IF d = c THEN "done" ELSE at[d]
      /\ \A d \in Clients : row'[d] = IF d = c THEN None ELSE row[d]
  BY <1>1 DEF Ends, TypeOK
<1>4. pending[c] \subseteq Fits
  BY SeedRowsFit DEF PendingOK, Clients
<1>5. TypeOK'
  <2>1. /\ at' \in [Clients -> {"new", "query", "insert", "commit", "done"}]
        /\ row' \in [Clients -> Row \cup {None}]
        /\ answer' \in [Clients -> {"none", "created", "taken", "conflict", "error"}]
    BY <1>1 DEF Ends, TypeOK
  <2>2. pending' \in [Clients -> SUBSET Row]
    BY <1>1 DEF Ends, TypeOK
  <2>3. before' \in [Clients -> SUBSET Row]
    BY <1>1 DEF Ends, TypeOK
  <2>4. users' \subseteq {u \in Row : u.name \notin TooLong}
    BY <1>2, <1>4 DEF TypeOK, Fits
  <2> QED
    BY <1>2, <2>1, <2>2, <2>3, <2>4 DEF TypeOK
<1>6. PendingOK'
  BY <1>3 DEF PendingOK, Clients
<1>7. NoClash'
  <2>1. \A u : There(u)' => There(u)
    BY <1>2, <1>3 DEF There
  <2> QED
    BY <2>1 DEF NoClash, Clash
<1>8. SeedAllOrNothing'
  <2>1. CASE c = Seeder
    BY <1>2, <2>1 DEF PendingOK, SeedAllOrNothing
  <2>2. CASE c # Seeder
    <3>1. \A u \in pending[c] : u.role = "developer"
      BY <2>2 DEF PendingOK, Clients
    <3> QED
      BY <1>2, <3>1 DEF SeedAllOrNothing
  <2> QED
    BY <2>1, <2>2
<1> QED
  BY <1>5, <1>6, <1>7, <1>8

-----------------------------------------------------------------------------
LEMMA StepInv == IInv /\ [Next]_vars => IInv'
<1> SUFFICES ASSUME IInv, [Next]_vars PROVE IInv'
  OBVIOUS
<1>1. ASSUME NEW c \in Reqs, NEW n \in Names, NEW m \in Mails, NEW good \in BOOLEAN,
             Register(c, n, m, good)
      PROVE  IInv'
  BY <1>1, RegisterInv
<1>2. CASE Seed
  BY <1>2, SeedInv
<1>3. ASSUME NEW c \in Clients, Work(c) \/ Abort(c) PROVE IInv'
  <2>1. CASE Work(c)
    BY <2>1, QueryInv, InsertInv, CommitInv DEF Work
  <2>2. CASE Abort(c)
    BY <2>2, EndsInv DEF Abort
  <2> QED
    BY <1>3, <2>1, <2>2
<1>4. CASE UNCHANGED vars
  <2>1. TypeOK'
    BY <1>4 DEF IInv, vars, TypeOK
  <2>2. PendingOK' /\ NoClash' /\ SeedAllOrNothing'
    BY <1>4 DEF IInv, vars, PendingOK, NoClash, There, Clash, SeedAllOrNothing
  <2> QED
    BY <2>1, <2>2 DEF IInv
<1> QED
  BY <1>1, <1>2, <1>3, <1>4 DEF Next

LEMMA InvHolds == Spec => []IInv
BY InitInv, StepInv, PTL DEF Spec

\* No row in the table is wider than its columns, whoever inserts.
THEOREM TypeCorrect == Spec => []TypeOK
<1>1. IInv => TypeOK
  BY DEF IInv
<1> QED
  BY <1>1, InvHolds, PTL

\* However registrations and the seed script overlap, accounts stay unique.
THEOREM AccountsAreUnique == Spec => []UniqueAccounts
<1>1. IInv => UniqueAccounts
  BY DEF IInv, NoClash, There, Clash, UniqueAccounts, TypeOK
<1> QED
  BY <1>1, InvHolds, PTL

\* The seed script never leaves half of its accounts.
THEOREM SeedIsAtomic == Spec => []SeedAllOrNothing
<1>1. IInv => SeedAllOrNothing
  BY DEF IInv
<1> QED
  BY <1>1, InvHolds, PTL

-----------------------------------------------------------------------------
(* What a request that is about to insert has seen *)

\* Nothing that was there when it looked clashes with its row.
Looked == \A c \in Reqs : at[c] = "insert" => \A u \in before[c] : ~Clash(u, row[c])

LEMMA LookedStep == TypeOK /\ Looked /\ [Next]_vars => Looked'
<1> SUFFICES ASSUME TypeOK, Looked, [Next]_vars, NEW c \in Reqs, at'[c] = "insert",
                    NEW u \in before'[c]
             PROVE  ~Clash(u, row'[c])
  BY DEF Looked, Clash
<1>1. ASSUME at[c] = "insert", before'[c] = before[c], row'[c] = row[c]
      PROVE  ~Clash(u, row'[c])
  BY <1>1 DEF Looked, Clash
<1>2. ASSUME NEW d \in Clients, NEW with, Ends(d, with)
      PROVE  ~Clash(u, row'[c])
  <2>1. d # c /\ at'[c] = at[c] /\ before'[c] = before[c] /\ row'[c] = row[c]
    BY <1>2 DEF Ends, TypeOK, Clients
  <2> QED
    BY <2>1, <1>1
<1>3. ASSUME NEW d \in Reqs, NEW n \in Names, NEW m \in Mails, NEW good \in BOOLEAN,
             Register(d, n, m, good)
      PROVE  ~Clash(u, row'[c])
  <2>1. d # c /\ at'[c] = at[c] /\ before'[c] = before[c] /\ row'[c] = row[c]
    BY <1>3 DEF Register, TypeOK, Clients
  <2> QED
    BY <2>1, <1>1
<1>4. CASE Seed
  <2>1. at'[c] = at[c] /\ before'[c] = before[c] /\ row'[c] = row[c]
    BY <1>4, NamesAssumption DEF Seed, TypeOK, Clients
  <2> QED
    BY <2>1, <1>1
<1>5. ASSUME NEW d \in Clients, Query(d) PROVE ~Clash(u, row'[c])
  <2>1. CASE Taken(row[d]) \/ ~strong[d]
    BY <1>5, <2>1, <1>2 DEF Query
  <2>2. CASE ~(Taken(row[d]) \/ ~strong[d])
    <3>1. /\ at' = [at EXCEPT ![d] = "insert"] /\ before' = [before EXCEPT ![d] = users]
          /\ row' = row
      BY <1>5, <2>2 DEF Query
    <3>2. CASE d = c
      BY <2>2, <3>1, <3>2 DEF Taken, Clash, TypeOK, Clients
    <3>3. CASE d # c
      BY <3>1, <3>3, <1>1 DEF TypeOK, Clients
    <3> QED
      BY <3>2, <3>3
  <2> QED
    BY <2>1, <2>2
<1>6. ASSUME NEW d \in Clients, Insert(d) PROVE ~Clash(u, row'[c])
  <2>1. CASE Ends(d, "error") \/ Ends(d, "conflict")
    BY <2>1, <1>2
  <2>2. CASE ~(Ends(d, "error") \/ Ends(d, "conflict"))
    <3>1. at' = [at EXCEPT ![d] = "commit"] /\ UNCHANGED <<row, before>>
      BY <1>6, <2>2 DEF Insert
    <3>2. d # c /\ at'[c] = at[c]
      BY <3>1 DEF TypeOK, Clients
    <3> QED
      BY <3>1, <3>2, <1>1
  <2> QED
    BY <2>1, <2>2
<1>7. ASSUME NEW d \in Clients, Commit(d) PROVE ~Clash(u, row'[c])
  BY <1>7, <1>2 DEF Commit
<1>8. ASSUME NEW d \in Clients, Abort(d) PROVE ~Clash(u, row'[c])
  BY <1>8, <1>2 DEF Abort
<1>9. CASE UNCHANGED vars
  BY <1>9, <1>1 DEF vars
<1> QED
  BY <1>3, <1>4, <1>5, <1>6, <1>7, <1>8, <1>9 DEF Next, Work

\* The table ends a registration with a conflict only over rows that were
\* committed after it had looked.
THEOREM ConflictsAreOvertakings == Spec => ConflictOnlyIfOvertaken
<1>1. Init => Looked
  BY DEF Init, Looked, Clients
<1>2. Looked => \A c \in Reqs : at[c] = "insert" /\ answer'[c] = "conflict" =>
                  \A u \in users : Clash(u, row[c]) => u \notin before[c]
  BY DEF Looked
<1> QED
  BY <1>1, <1>2, TypeCorrect, LookedStep, PTL DEF Spec, ConflictOnlyIfOvertaken

=============================================================================
