----------------------------- MODULE Registration -----------------------------
(***************************************************************************)
(* How accounts come to be: POST /auth/register (app/api/routes/auth.py),  *)
(* which looks for the username and the e-mail, then inserts, and the seed *)
(* script (scripts/seed.py), which inserts two accounts in one             *)
(* transaction.  What decides between two of them are the UNIQUE columns   *)
(* of the users table.                                                     *)
(*                                                                         *)
(* A step is a round trip to PostgreSQL.  A row that another transaction   *)
(* has inserted and not yet committed makes an INSERT that clashes with it *)
(* wait; a committed one makes it fail.                                    *)
(***************************************************************************)
EXTENDS Integers, FiniteSets

CONSTANTS
  Reqs,      \* requests to register
  Seeder,    \* a run of the seed script
  Names, Mails,
  TooLong,   \* the names of more than 50 characters, which no schema refuses
  MailHash,  \* hash_pii: spellings that differ in case have one hash
  SeedRows,  \* the accounts of the seed script
  None

Clients == Reqs \cup {Seeder}
Hashes == {MailHash[m] : m \in Mails}
Row == [name : Names, hash : Hashes, role : {"developer", "admin"}]

ASSUME NamesAssumption == TooLong \subseteq Names /\ Seeder \notin Reqs /\ None \notin Row
ASSUME HashAssumption == MailHash \in [Mails -> Hashes]
ASSUME SeedAssumption ==
  /\ SeedRows \subseteq {u \in Row : u.name \notin TooLong}
  /\ \A a, b \in SeedRows : a.name = b.name \/ a.hash = b.hash => a = b

VARIABLES
  users,    \* committed rows
  pending,  \* client -> the rows its open transaction has inserted
  at,       \* client -> the round trip it does next
  row,      \* client -> the row it means to insert
  strong,   \* client -> does hash_password take its password?
  answer,   \* client -> its answer
  before    \* history: the rows there were when register looked

vars == <<users, pending, at, row, strong, answer, before>>

TypeOK ==
  /\ users \subseteq {u \in Row : u.name \notin TooLong}
  /\ pending \in [Clients -> SUBSET Row]
  /\ at \in [Clients -> {"new", "query", "insert", "commit", "done"}]
  /\ row \in [Clients -> Row \cup {None}]
  /\ strong \in [Clients -> BOOLEAN]
  /\ answer \in [Clients -> {"none", "created", "taken", "conflict", "error"}]
  /\ before \in [Clients -> SUBSET Row]

Init ==
  /\ users = {}
  /\ pending = [c \in Clients |-> {}]
  /\ at = [c \in Clients |-> "new"]
  /\ row = [c \in Clients |-> None]
  /\ strong = [c \in Clients |-> TRUE]
  /\ answer = [c \in Clients |-> "none"]
  /\ before = [c \in Clients |-> {}]

-----------------------------------------------------------------------------
\* Mutant of Clash: the column email_hash is not UNIQUE.
ClashByName(a, b) == a.name = b.name

\* The two UNIQUE columns.
Clash(a, b) == a.name = b.name \/ a.hash = b.hash

\* Mutant of Taken: only the username is looked for.
NameTaken(new) == \E u \in users : u.name = new.name

\* The query of register.
Taken(new) == \E u \in users : u.name = new.name \/ u.hash = new.hash

\* What c inserts: one account, or those of the seed script.
Inserted(c) == IF c = Seeder THEN SeedRows ELSE {row[c]}

InFlight(c) == at[c] \in {"query", "insert", "commit"}

\* The transaction of c is over; get_db (or the script) closes its session.
Ends(c, with) ==
  /\ at' = [at EXCEPT ![c] = "done"]
  /\ row' = [row EXCEPT ![c] = None]
  /\ before' = [before EXCEPT ![c] = {}]
  /\ pending' = [pending EXCEPT ![c] = {}]
  /\ answer' = [answer EXCEPT ![c] = with]

\* register: everybody becomes a developer.
Register(c, name, mail, good) ==
  /\ at[c] = "new"
  /\ at' = [at EXCEPT ![c] = "query"]
  /\ row' = [row EXCEPT ![c] = [name |-> name, hash |-> MailHash[mail], role |-> "developer"]]
  /\ strong' = [strong EXCEPT ![c] = good]
  /\ UNCHANGED <<users, pending, answer, before>>

\* The query, and hash_password, whose ValueError nobody catches.
Query(c) ==
  /\ at[c] = "query"
  /\ UNCHANGED <<users, strong>>
  /\ IF Taken(row[c]) THEN Ends(c, "taken")
     ELSE IF ~strong[c] THEN Ends(c, "error")
     ELSE /\ at' = [at EXCEPT ![c] = "insert"]
          /\ before' = [before EXCEPT ![c] = users]
          /\ UNCHANGED <<pending, row, answer>>

\* The script does not look first.
Seed ==
  /\ at[Seeder] = "new"
  /\ at' = [at EXCEPT ![Seeder] = "insert"]
  /\ UNCHANGED <<users, pending, row, strong, answer, before>>

Blocked(c) ==
  \E d \in Clients \ {c} : \E a \in pending[d], b \in Inserted(c) : Clash(a, b)

\* Mutant of TooWide: SQLite, on which the tests run, takes a name of any length.
NeverTooWide(c) == FALSE

\* String(50) of the column, which is looked at before the indexes are.
TooWide(c) == \E b \in Inserted(c) : b.name \in TooLong

\* INSERT, in the script the first flush.  Two that wait for each other are a
\* deadlock, which PostgreSQL ends with the Abort of one of them.
Insert(c) ==
  /\ at[c] = "insert"
  /\ UNCHANGED <<users, strong>>
  /\ \/ TooWide(c) /\ Ends(c, "error")
     \/ /\ ~TooWide(c) /\ ~Blocked(c)
        /\ IF \E a \in users, b \in Inserted(c) : Clash(a, b) THEN Ends(c, "conflict")
           ELSE /\ pending' = [pending EXCEPT ![c] = Inserted(c)]
                /\ at' = [at EXCEPT ![c] = "commit"]
                /\ UNCHANGED <<row, answer, before>>

\* Mutant of Commit: the script commits its accounts one by one.
CommitOne(c) ==
  /\ at[c] = "commit"
  /\ \E b \in pending[c] : users' = users \cup {b}
  /\ \E with \in {"created", "error"} : Ends(c, with)
  /\ UNCHANGED strong

\* The answer to a commit, or what db.refresh reads after it, may get lost.
Commit(c) ==
  /\ at[c] = "commit"
  /\ users' = users \cup pending[c]
  /\ \E with \in {"created", "error"} : Ends(c, with)
  /\ UNCHANGED strong

\* Mutant of Abort: the session stays open, and its transaction with it.
AbortOpen(c) ==
  /\ InFlight(c)
  /\ at' = [at EXCEPT ![c] = "done"]
  /\ answer' = [answer EXCEPT ![c] = "error"]
  /\ UNCHANGED <<users, pending, row, strong, before>>

\* Any round trip fails, or the process dies, before the commit.
Abort(c) == InFlight(c) /\ Ends(c, "error") /\ UNCHANGED <<users, strong>>

Work(c) == Query(c) \/ Insert(c) \/ Commit(c)

Next ==
  \/ \E c \in Reqs, n \in Names, m \in Mails, good \in BOOLEAN : Register(c, n, m, good)
  \/ Seed
  \/ \E c \in Clients : Work(c) \/ Abort(c)

\* PostgreSQL answers each round trip that waits for no other transaction.
Spec == Init /\ [][Next]_vars /\ \A c \in Clients : WF_vars(Work(c))

-----------------------------------------------------------------------------
(* Properties *)

\* No two accounts share a username or an e-mail address, whatever overlaps.
UniqueAccounts == \A a, b \in users : a.name = b.name \/ a.hash = b.hash => a = b

\* A registration that the UNIQUE columns end with a 500, where the query would
\* have answered 400, was overtaken: the row it clashes with was not there when
\* it looked.
ConflictOnlyIfOvertaken ==
  [][\A c \in Reqs : at[c] = "insert" /\ answer'[c] = "conflict" =>
       \A u \in users : Clash(u, row[c]) => u \notin before[c]]_vars

\* The accounts of the seed script come together or not at all, whatever fails
\* and whoever registers one of their names.
SeedAllOrNothing ==
  \A a, b \in SeedRows : a.role = "admin" /\ a \in users => b \in users

\* A registration that waits for the transaction of another is answered.
EveryoneAnswered == \A c \in Clients : InFlight(c) ~> at[c] = "done"

=============================================================================
