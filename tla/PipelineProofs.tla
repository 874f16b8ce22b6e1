---------------------------- MODULE PipelineProofs ----------------------------
(***************************************************************************)
(* Proofs about Pipeline, for any number of requests, threads and          *)
(* connections.  PoolInv says who may own a thread or a connection;        *)
(* MetricsInv what the lock of MetricsStore protects.                      *)
(***************************************************************************)
EXTENDS Pipeline, FiniteSetTheorems, TLAPS

\* Only a request in flight owns something, and it waits in one place at most.
PoolInv ==
  /\ \A r \in running : at[r] \in Stage
  /\ \A r \in holds : at[r] \in Stage \cup {"sent"}
  /\ \A i \in DOMAIN queue : at[queue[i]] \in Stage /\ queue[i] \notin running
  /\ \A i, j \in DOMAIN queue : queue[i] = queue[j] => i = j

Marked == {r \in Reqs : response[r] # None /\ response[r].marked}

Recorded == {"sent", "preflight", "refused", "limited"}

\* The holder of the lock is between its two steps.
Recording(r) == at[r] \in Recorded /\ response[r] = None /\ total = Sum(byStatus) + 1
                /\ total = Cardinality(Marked) + 1
Scraping(r) == at[r] = "scrape" /\ r \in running /\ total = Sum(byStatus)
               /\ total = Cardinality(Marked)

LockInv ==
  /\ \A r \in Reqs : lock = r => Recording(r) \/ Scraping(r)
  /\ lock = None => total = Sum(byStatus) /\ total = Cardinality(Marked)

\* A scrape with a snapshot is between its two steps; later the snapshot is whole.
SnapshotInv ==
  \A r \in Reqs : snapshot[r] # None =>
    \/ at[r] = "scrape" /\ lock = r /\ snapshot[r].sum = None /\ snapshot[r].total = total
    \/ at[r] \notin {"scrape", "idle"} /\ snapshot[r].sum # None

AnsweredInv == \A r \in Reqs : response[r] # None => at[r] \in Recorded \cup {"closed"}

IInv ==
  /\ TypeOK /\ PoolInv /\ LockInv /\ SnapshotInv /\ AnsweredInv
  /\ SnapshotConsistent

-----------------------------------------------------------------------------
(* The pool *)

LEMMA RunningFinite == ASSUME PoolTypeOK PROVE IsFiniteSet(running) /\ IsFiniteSet(holds)
BY PoolAssumption, FS_Subset DEF PoolTypeOK

\* What is left of the thread's owners and of the queue when r gives back.
LEMMA GivenBack ==
  ASSUME PoolTypeOK, PoolInv, NEW r \in Reqs, r \notin Waiting, GiveBack(r)
  PROVE  /\ running' \subseteq Reqs /\ Cardinality(running') <= Threads
         /\ queue' \in Seq(Reqs)
         /\ r \notin running'
         /\ \A x \in running : x # r => x \in running'
         /\ \A x \in running' : x \in running \/ at[x] \in Stage
         /\ \A i \in DOMAIN queue' : at[queue'[i]] \in Stage /\ queue'[i] \notin running' /\ queue'[i] # r
         /\ \A i, j \in DOMAIN queue' : queue'[i] = queue'[j] => i = j
<1>0. IsFiniteSet(running) /\ Cardinality(running) \in Nat /\ Threads \in Nat
  BY RunningFinite, FS_CardinalityType, PoolAssumption
<1>1. CASE r \notin running
  <2>1. running' = running /\ queue' = queue
    BY <1>1 DEF GiveBack
  <2>2. \A i \in DOMAIN queue : queue[i] # r
    BY DEF Waiting
  <2> QED
    BY <1>1, <2>1, <2>2 DEF PoolTypeOK, PoolInv
<1>2. CASE r \in running /\ queue = <<>>
  <2>1. running' = running \ {r} /\ queue' = <<>>
    BY <1>2 DEF GiveBack
  <2>2. Cardinality(running \ {r}) <= Threads
    <3>1. Cardinality(running \ {r}) = Cardinality(running) - 1
      BY <1>0, <1>2, FS_RemoveElement
    <3> QED
      BY <1>0, <3>1 DEF PoolTypeOK
  <2>3. \A i \in DOMAIN queue' : FALSE
    BY <2>1
  <2> QED
    BY <2>1, <2>2, <2>3 DEF PoolTypeOK
<1>3. CASE r \in running /\ queue # <<>>
  <2> DEFINE h == Head(queue)
  <2>1. running' = (running \ {r}) \cup {h} /\ queue' = Tail(queue)
    BY <1>3 DEF GiveBack
  <2>2. /\ queue \in Seq(Reqs) /\ Len(queue) \in Nat /\ Len(queue) > 0
        /\ h = queue[1] /\ 1 \in DOMAIN queue /\ DOMAIN queue = 1..Len(queue)
    BY <1>3 DEF PoolTypeOK
  <2>3. /\ queue' \in Seq(Reqs)
        /\ \A i \in DOMAIN queue' : i + 1 \in DOMAIN queue /\ queue'[i] = queue[i + 1] /\ i \in Nat \ {0}
    BY <2>1, <2>2
  <2>4. h \in Reqs /\ at[h] \in Stage /\ h \notin running
    BY <2>2 DEF PoolInv
  <2>5. Cardinality(running') <= Threads
    <3>1. IsFiniteSet(running \ {r}) /\ Cardinality(running \ {r}) = Cardinality(running) - 1
      BY <1>0, <1>3, FS_RemoveElement
    <3>2. Cardinality(running') = Cardinality(running \ {r}) + 1
      BY <2>1, <2>4, <3>1, FS_AddElement
    <3> QED
      BY <1>0, <3>1, <3>2 DEF PoolTypeOK
  <2>6. \A i \in DOMAIN queue' : at[queue'[i]] \in Stage /\ queue'[i] \notin running' /\ queue'[i] # r
    <3> SUFFICES ASSUME NEW i \in DOMAIN queue'
                 PROVE  at[queue'[i]] \in Stage /\ queue'[i] \notin running' /\ queue'[i] # r
      OBVIOUS
    <3>1. i + 1 \in DOMAIN queue /\ queue'[i] = queue[i + 1] /\ i + 1 # 1
      BY <2>3
    <3>2. queue[i + 1] # h
      BY <2>2, <3>1 DEF PoolInv
    <3>3. at[queue[i + 1]] \in Stage /\ queue[i + 1] \notin running
      BY <3>1 DEF PoolInv
    <3> QED
      BY <1>3, <2>1, <3>1, <3>2, <3>3
  <2>7. \A i, j \in DOMAIN queue' : queue'[i] = queue'[j] => i = j
    <3> SUFFICES ASSUME NEW i \in DOMAIN queue', NEW j \in DOMAIN queue', queue'[i] = queue'[j]
                 PROVE  i = j
      OBVIOUS
    <3>1. i + 1 = j + 1
      BY <2>3 DEF PoolInv
    <3> QED
      BY <2>3, <3>1
  <2>8. running' \subseteq Reqs
    BY <2>1, <2>4 DEF PoolTypeOK
  <2>9. r \notin running'
    BY <1>3, <2>1, <2>4
  <2> QED
    BY <2>1, <2>3, <2>4, <2>5, <2>6, <2>7, <2>8, <2>9
<1> QED
  BY <1>1, <1>2, <1>3

\* A request moves on and gives its thread back.
LEMMA MovedOn ==
  ASSUME PoolTypeOK, PoolInv, NEW r \in Reqs, r \notin Waiting, GiveBack(r),
         NEW next \in Place, at' = [at EXCEPT ![r] = next],
         holds' \subseteq holds, r \in holds' => next \in Stage \cup {"sent"}
  PROVE  PoolTypeOK' /\ PoolInv' /\ \A x \in running : x # r => x \in running'
<1>1. /\ running' \subseteq Reqs /\ Cardinality(running') <= Threads
      /\ queue' \in Seq(Reqs)
      /\ r \notin running'
      /\ \A x \in running : x # r => x \in running'
      /\ \A x \in running' : x \in running \/ at[x] \in Stage
      /\ \A i \in DOMAIN queue' : at[queue'[i]] \in Stage /\ queue'[i] \notin running' /\ queue'[i] # r
      /\ \A i, j \in DOMAIN queue' : queue'[i] = queue'[j] => i = j
  BY GivenBack
<1>2. at' \in [Reqs -> Place] /\ \A x \in Reqs : at'[x] = IF x = r THEN next ELSE at[x]
  BY DEF PoolTypeOK
<1>3. Cardinality(holds') <= Conns
  <2>1. IsFiniteSet(holds) /\ IsFiniteSet(holds') /\ Cardinality(holds') <= Cardinality(holds)
    BY RunningFinite, FS_Subset
  <2>2. Cardinality(holds) \in Nat /\ Cardinality(holds') \in Nat /\ Conns \in Nat
    BY <2>1, FS_CardinalityType, PoolAssumption
  <2> QED
    BY <2>1, <2>2 DEF PoolTypeOK
<1>4. PoolTypeOK'
  BY <1>1, <1>2, <1>3 DEF PoolTypeOK
<1>5. PoolInv'
  <2>1. \A x \in running' : at'[x] \in Stage
    BY <1>1, <1>2 DEF PoolInv
  <2>2. \A x \in holds' : at'[x] \in Stage \cup {"sent"}
    BY <1>2 DEF PoolInv, PoolTypeOK
  <2>3. \A i \in DOMAIN queue' : queue'[i] \in Reqs /\ at'[queue'[i]] \in Stage
    BY <1>1, <1>2
  <2> QED
    BY <1>1, <2>1, <2>2, <2>3 DEF PoolInv
<1> QED
  BY <1>1, <1>4, <1>5

LEMMA AskThreadInv ==
  ASSUME PoolTypeOK, PoolInv, NEW r \in Reqs, AskThread(r)
  PROVE  PoolTypeOK' /\ PoolInv' /\ at' = at /\ running \subseteq running'
<1>0. /\ IsFiniteSet(running) /\ Cardinality(running) \in Nat /\ Threads \in Nat
      /\ at' = at /\ holds' = holds /\ at[r] \in Stage /\ r \notin running /\ r \notin Waiting
  BY RunningFinite, FS_CardinalityType, PoolAssumption DEF AskThread
<1>1. CASE Cardinality(running) < Threads
  <2>1. running' = running \cup {r} /\ queue' = queue
    BY <1>1 DEF AskThread
  <2>2. Cardinality(running') <= Threads
    <3>1. Cardinality(running') = Cardinality(running) + 1
      BY <1>0, <2>1, FS_AddElement
    <3> QED
      BY <1>0, <1>1, <3>1
  <2>3. PoolTypeOK'
    BY <1>0, <2>1, <2>2 DEF PoolTypeOK
  <2>4. PoolInv'
    BY <1>0, <2>1 DEF PoolInv, Waiting
  <2> QED
    BY <1>0, <2>1, <2>3, <2>4
<1>2. CASE ~(Cardinality(running) < Threads)
  <2>1. running' = running /\ queue' = Append(queue, r)
    BY <1>2 DEF AskThread
  <2>2. queue \in Seq(Reqs) /\ Len(queue) \in Nat /\ DOMAIN queue = 1..Len(queue)
    BY DEF PoolTypeOK
  <2>3. /\ queue' \in Seq(Reqs) /\ DOMAIN queue' = 1..Len(queue) + 1
        /\ \A i \in DOMAIN queue : queue'[i] = queue[i]
        /\ queue'[Len(queue) + 1] = r
    BY <2>1, <2>2
  <2>4. PoolTypeOK'
    BY <1>0, <2>1, <2>3 DEF PoolTypeOK
  <2>5. \A i \in DOMAIN queue : queue[i] # r
    BY <1>0 DEF Waiting
  <2>6. \A i \in DOMAIN queue' : i \in DOMAIN queue \/ i = Len(queue) + 1
    BY <2>2, <2>3
  <2>7. PoolInv'
    <3>1. \A i \in DOMAIN queue' : at[queue'[i]] \in Stage /\ queue'[i] \notin running
      BY <1>0, <2>3, <2>6 DEF PoolInv
    <3>2. \A i, j \in DOMAIN queue' : queue'[i] = queue'[j] => i = j
      BY <2>3, <2>5, <2>6 DEF PoolInv
    <3> QED
      BY <1>0, <2>1, <3>1, <3>2 DEF PoolInv
  <2> QED
    BY <1>0, <2>1, <2>4, <2>7
<1> QED
  BY <1>1, <1>2

LEMMA CheckoutInv ==
  ASSUME PoolTypeOK, PoolInv, NEW r \in Reqs, Checkout(r)
  PROVE  PoolTypeOK' /\ PoolInv' /\ at' = at /\ running' = running
<1>1. /\ holds' = holds \cup {r} /\ Cardinality(holds) < Conns /\ r \notin holds
      /\ at[r] \in Stage /\ UNCHANGED <<at, running, queue>>
  BY DEF Checkout, NeedsConn, Stage
<1>2. Cardinality(holds') <= Conns
  <2>1. IsFiniteSet(holds) /\ Cardinality(holds) \in Nat /\ Conns \in Nat
    BY RunningFinite, FS_CardinalityType, PoolAssumption
  <2> QED
    BY <1>1, <2>1, FS_AddElement
<1> QED
  BY <1>1, <1>2 DEF PoolTypeOK, PoolInv

LEMMA CommitInv ==
  ASSUME PoolTypeOK, PoolInv, NEW r \in Reqs, Commit(r)
  PROVE  /\ PoolTypeOK' /\ PoolInv' /\ running' = running
         /\ at[r] = "handler" /\ at' = [at EXCEPT ![r] = "refresh"]
<1>1. /\ holds' = holds \ {r} /\ UNCHANGED <<running, queue>>
      /\ at[r] = "handler" /\ at' = [at EXCEPT ![r] = "refresh"]
  BY DEF Commit
<1>2. Cardinality(holds') <= Conns
  <2>1. /\ IsFiniteSet(holds) /\ IsFiniteSet(holds') /\ Cardinality(holds') <= Cardinality(holds)
    BY <1>1, RunningFinite, FS_Subset
  <2>2. Cardinality(holds) \in Nat /\ Cardinality(holds') \in Nat /\ Conns \in Nat
    BY <2>1, FS_CardinalityType, PoolAssumption
  <2> QED
    BY <2>1, <2>2 DEF PoolTypeOK
<1>3. \A x \in Reqs : at'[x] = IF x = r THEN "refresh" ELSE at[x]
  BY <1>1 DEF PoolTypeOK
<1>4. PoolTypeOK'
  BY <1>1, <1>2 DEF PoolTypeOK, Place, Stage
<1>5. \A i \in DOMAIN queue : queue[i] \in Reqs
  BY DEF PoolTypeOK
<1>6. PoolInv'
  BY <1>1, <1>3, <1>5 DEF PoolInv, PoolTypeOK, Stage
<1> QED
  BY <1>1, <1>4, <1>6

\* A step inside the handler: the pool stays sound, nobody but r moves, and a
\* scrape moves by none of them.
SoundStep(r) ==
  /\ PoolTypeOK' /\ PoolInv'
  /\ \A x \in Reqs : x # r => at'[x] = at[x]
  /\ \A x \in running : x # r \/ at[r] = "scrape" => x \in running'
  /\ \/ at' = at
     \/ at[r] \in Stage \ {"scrape"} /\ at'[r] \notin {"scrape", "idle", "closed"}
     \/ at[r] = "sent" /\ at'[r] = "closed"

LEMMA FinishIsSound ==
  ASSUME PoolTypeOK, PoolInv, NEW r \in Reqs, NEW next \in (Stage \ {"scrape"}) \cup {"sent"},
         Finish(r, next), at[r] \in Stage \ {"scrape"}
  PROVE  SoundStep(r)
<1>1. /\ r \notin Waiting /\ GiveBack(r) /\ at' = [at EXCEPT ![r] = next] /\ holds' = holds
      /\ next \in Place /\ next \notin {"scrape", "idle", "closed"}
  BY DEF Finish, PoolInv, Waiting, Place, Stage
<1>2. PoolTypeOK' /\ PoolInv' /\ \A x \in running : x # r => x \in running'
  BY <1>1, MovedOn
<1>3. \A x \in Reqs : at'[x] = IF x = r THEN next ELSE at[x]
  BY <1>1 DEF PoolTypeOK
<1> QED
  BY <1>1, <1>2, <1>3 DEF SoundStep

LEMMA UnwindIsSound ==
  ASSUME PoolTypeOK, PoolInv, NEW r \in Reqs, NEW end \in {"refused", "raised", "closed"},
         Unwind(r, end), r \notin Waiting,
         IF end = "closed" THEN at[r] = "sent" ELSE at[r] \in Stage \ {"scrape"}
  PROVE  SoundStep(r)
<1>1. GiveBack(r) /\ at' = [at EXCEPT ![r] = end] /\ holds' = holds \ {r} /\ end \in Place
  BY DEF Unwind, Place
<1>2. PoolTypeOK' /\ PoolInv' /\ \A x \in running : x # r => x \in running'
  BY <1>1, MovedOn
<1>3. \A x \in Reqs : at'[x] = IF x = r THEN end ELSE at[x]
  BY <1>1 DEF PoolTypeOK
<1>4. at[r] # "scrape"
  BY DEF Stage
<1> QED
  BY <1>2, <1>3, <1>4 DEF SoundStep

LEMMA InsideIsSound ==
  ASSUME PoolTypeOK, PoolInv, NEW r \in Reqs, PoolStep(r) \/ Close(r)
  PROVE  SoundStep(r)
<1>1. r \in running => r \notin Waiting
  BY DEF PoolInv, Waiting
<1>2. CASE AskThread(r)
  BY <1>2, AskThreadInv DEF SoundStep
<1>3. CASE Checkout(r)
  BY <1>3, CheckoutInv DEF SoundStep
<1>4. CASE Commit(r)
  <2>1. /\ PoolTypeOK' /\ PoolInv' /\ running' = running
        /\ at[r] = "handler" /\ at' = [at EXCEPT ![r] = "refresh"]
    BY <1>4, CommitInv
  <2>2. \A x \in Reqs : at'[x] = IF x = r THEN "refresh" ELSE at[x]
    BY <2>1 DEF PoolTypeOK
  <2> QED
    BY <2>1, <2>2 DEF SoundStep, Stage
<1>5. CASE \/ OpenSession(r) \/ LookedUp(r) \/ Authenticated(r) \/ Permitted(r)
           \/ Return(r) \/ StoreOnly(r) \/ Serialize(r) \/ Probe(r)
  <2>1. PICK next \in (Stage \ {"scrape"}) \cup {"sent"} : Finish(r, next)
    BY <1>5 DEF OpenSession, LookedUp, Authenticated, Permitted, Return, StoreOnly, Serialize, Probe, Stage
  <2>2. at[r] \in Stage \ {"scrape"}
    BY <1>5 DEF OpenSession, LookedUp, Authenticated, Permitted, Return, StoreOnly, Serialize, Probe, Stage
  <2> QED
    BY <2>1, <2>2, FinishIsSound
<1>6. CASE PoolTimeout(r) \/ Raise(r)
  <2>1. Unwind(r, "raised") /\ r \in running /\ at[r] \in Stage \ {"scrape"}
    BY <1>6 DEF PoolTimeout, Raise, NeedsConn, Stage
  <2> QED
    BY <1>1, <2>1, UnwindIsSound
<1>7. CASE Refuse(r)
  <2>1. Unwind(r, "refused") /\ r \notin Waiting /\ at[r] \in Stage \ {"scrape"}
    BY <1>7 DEF Refuse
  <2> QED
    BY <2>1, UnwindIsSound
<1>8. CASE Close(r)
  <2>1. Unwind(r, "closed") /\ at[r] = "sent" /\ r \notin Waiting
    BY <1>8 DEF Close, PoolInv, Waiting, Stage
  <2> QED
    BY <2>1, UnwindIsSound
<1> QED
  BY <1>2, <1>3, <1>4, <1>5, <1>6, <1>7, <1>8 DEF PoolStep, Progress

\* A stall owns every thread and every connection, by requests that differ.
LEMMA StallOwnsAll == PoolTypeOK /\ PoolInv => StallNeedsOverload
<1> SUFFICES ASSUME PoolTypeOK, PoolInv, Stalled
             PROVE  Cardinality(InFlight) >= Threads + Conns
  BY DEF StallNeedsOverload
<1>1. IsFiniteSet(running) /\ IsFiniteSet(holds) /\ running \cap holds = {}
  BY RunningFinite DEF Stalled, NeedsConn
<1>2. IsFiniteSet(running \cup holds) /\ Cardinality(running \cup holds) = Threads + Conns
  <2>1. /\ IsFiniteSet(running \cup holds)
        /\ Cardinality(running \cup holds)
             = Cardinality(running) + Cardinality(holds) - Cardinality(running \cap holds)
    BY <1>1, FS_Union
  <2>2. Cardinality(running \cap holds) = 0
    BY <1>1, FS_EmptySet
  <2> QED
    BY <2>1, <2>2, PoolAssumption DEF Stalled
<1>3. running \cup holds \subseteq InFlight /\ InFlight \subseteq Reqs
  BY DEF PoolTypeOK, PoolInv, InFlight
<1>4. IsFiniteSet(InFlight) /\ Cardinality(running \cup holds) <= Cardinality(InFlight)
  BY <1>3, PoolAssumption, FS_Subset
<1> QED
  BY <1>2, <1>4

-----------------------------------------------------------------------------
(* The counters *)

LEMMA MarkedFinite == IsFiniteSet(Marked) /\ Cardinality(Marked) \in Nat
BY PoolAssumption, FS_Subset, FS_CardinalityType DEF Marked

LEMMA SumIsNat == ASSUME NEW by \in [Status -> Nat] PROVE Sum(by) \in Nat
BY DEF Sum, Status

LEMMA SumOfOneMore ==
  ASSUME NEW by \in [Status -> Nat], NEW s \in Status
  PROVE  Sum([by EXCEPT ![s] = @ + 1]) = Sum(by) + 1
<1>1. \A x \in Status : by[x] \in Nat
  OBVIOUS
<1>2. \A x \in Status : [by EXCEPT ![s] = @ + 1][x] = IF x = s THEN by[x] + 1 ELSE by[x]
  OBVIOUS
<1> QED
  BY <1>1, <1>2 DEF Sum, Status

\* An answer of the outer layers is not marked and changes no mark.
LEMMA AnswerUnmarked ==
  ASSUME TypeOK, NEW r \in Reqs, NEW s \in Status, response[r] = None, Answer(r, s, FALSE)
  PROVE  Marked' = Marked /\ response' \in [Reqs -> {None} \cup Response]
         /\ \A x \in Reqs : x # r => response'[x] = response[x]
<1> DEFINE a == [status |-> s, marked |-> FALSE]
<1>1. a \in Response /\ a.marked = FALSE
  BY DEF Response
<1>2. \A x \in Reqs : response'[x] = IF x = r THEN a ELSE response[x]
  BY DEF Answer, TypeOK
<1>3. response' \in [Reqs -> {None} \cup Response]
  BY <1>1 DEF Answer, TypeOK
<1> HIDE DEF a
<1> QED
  BY <1>1, <1>2, <1>3 DEF Marked

LEMMA AnswerMarked ==
  ASSUME TypeOK, NEW r \in Reqs, NEW s \in Status, response[r] = None, Answer(r, s, TRUE)
  PROVE  Cardinality(Marked') = Cardinality(Marked) + 1
         /\ response' \in [Reqs -> {None} \cup Response]
         /\ \A x \in Reqs : x # r => response'[x] = response[x]
<1> DEFINE a == [status |-> s, marked |-> TRUE]
<1>0. a \in Response /\ a.marked = TRUE
  BY DEF Response
<1>1. a \in Response /\ a.marked = TRUE /\ a # None
  BY <1>0, NoneAssumption
<1>2. \A x \in Reqs : response'[x] = IF x = r THEN a ELSE response[x]
  BY DEF Answer, TypeOK
<1>3. response' \in [Reqs -> {None} \cup Response]
  BY <1>1 DEF Answer, TypeOK
<1> HIDE DEF a
<1>4. Marked' = Marked \cup {r} /\ r \notin Marked
  BY <1>1, <1>2 DEF Marked
<1>5. Cardinality(Marked') = Cardinality(Marked) + 1
  BY <1>4, MarkedFinite, FS_AddElement
<1> QED
  BY <1>2, <1>3, <1>5

\* A step that leaves the counters, the lock and the snapshots alone, does not
\* move the holder of the lock and marks no answer.
LEMMA Apart ==
  ASSUME LockInv, SnapshotInv, SnapshotConsistent, TypeOK,
         UNCHANGED <<metrics, lock, snapshot>>, Marked' = Marked,
         \A x \in Reqs : lock = x => at'[x] = at[x] /\ response'[x] = response[x]
                                      /\ (at[x] = "scrape" /\ x \in running => x \in running'),
         \A x \in Reqs : at'[x] = at[x] \/ at[x] = "idle" \/ at'[x] \notin {"scrape", "idle"}
  PROVE  LockInv' /\ SnapshotInv' /\ SnapshotConsistent'
<1>1. /\ total' = total /\ byStatus' = byStatus /\ errors' = errors
      /\ lock' = lock /\ snapshot' = snapshot
  BY DEF metrics
<1>2. \A x \in Reqs : lock = x => (Recording(x) => Recording(x)') /\ (Scraping(x) => Scraping(x)')
  BY <1>1 DEF Recording, Scraping, Sum
<1>3. LockInv'
  <2>1. \A x \in Reqs : lock' = x => Recording(x)' \/ Scraping(x)'
    BY <1>1, <1>2 DEF LockInv
  <2>2. lock' = None => total' = Sum(byStatus') /\ total' = Cardinality(Marked')
    BY <1>1 DEF LockInv
  <2> QED
    BY <2>1, <2>2 DEF LockInv, Sum
<1>4. SnapshotInv'
  BY <1>1 DEF SnapshotInv
<1> QED
  BY <1>1, <1>3, <1>4 DEF SnapshotConsistent

\* A request that owns nothing moves.
LEMMA FreeMove ==
  ASSUME PoolTypeOK, PoolInv, NEW r \in Reqs, at[r] \notin Stage \cup {"sent"},
         NEW next \in Place, at' = [at EXCEPT ![r] = next], UNCHANGED <<running, queue, holds>>
  PROVE  PoolTypeOK' /\ PoolInv' /\ \A x \in Reqs : at'[x] = IF x = r THEN next ELSE at[x]
<1>1. \A x \in Reqs : at'[x] = IF x = r THEN next ELSE at[x]
  BY DEF PoolTypeOK
<1>2. PoolTypeOK'
  BY DEF PoolTypeOK
<1>3. r \notin running /\ r \notin holds /\ \A i \in DOMAIN queue : queue[i] \in Reqs /\ queue[i] # r
  BY DEF PoolInv, PoolTypeOK
<1> QED
  BY <1>1, <1>2, <1>3 DEF PoolInv, PoolTypeOK

LEMMA InitInv == Init => IInv
<1> SUFFICES ASSUME Init PROVE IInv
  OBVIOUS
<1>1. \A r \in Reqs : response[r] = None /\ snapshot[r] = None /\ at[r] = "idle"
  BY DEF Init, PoolInit
<1>2. Marked = {} /\ Cardinality(Marked) = 0
  BY <1>1, FS_EmptySet DEF Marked
<1>3. PoolTypeOK
  <2>1. Cardinality({}) = 0
    BY FS_EmptySet
  <2> QED
    BY <2>1, PoolAssumption DEF Init, PoolInit, PoolTypeOK, Place
<1>4. total = 0 /\ errors = 0 /\ lock = None /\ Sum(byStatus) = 0 /\ byStatus \in [Status -> Nat]
  BY DEF Init, Sum, Status
<1>5. TypeOK
  <2>1. response \in [Reqs -> {None} \cup Response] /\ snapshot \in [Reqs -> {None} \cup Snapshot]
    BY DEF Init
  <2> QED
    BY <1>3, <1>4, <2>1 DEF TypeOK
<1>6. PoolInv
  BY DEF Init, PoolInit, PoolInv
<1>7. LockInv /\ SnapshotInv /\ AnsweredInv
  BY <1>1, <1>2, <1>4, NoneAssumption DEF LockInv, SnapshotInv, AnsweredInv
<1>8. SnapshotConsistent
  BY <1>1, <1>4 DEF SnapshotConsistent
<1> QED
  BY <1>5, <1>6, <1>7, <1>8 DEF IInv

\* The outer layers: nobody who owns something, or the lock, is at their doors.
LEMMA OutsideInv ==
  ASSUME IInv, NEW r \in Reqs, NEW s \in Status, NEW next \in Place,
         \/ at[r] = "idle"
         \/ at[r] = "raised" /\ next = "closed",
         at' = [at EXCEPT ![r] = next],
         \/ response' = response /\ next \notin {"closed", "idle"}
         \/ Answer(r, s, FALSE) /\ next = "closed",
         UNCHANGED <<running, queue, holds, metrics, lock, snapshot>>
  PROVE  IInv'
<1> USE DEF IInv
<1>1. at[r] \notin Recorded \cup Stage \cup {"closed"} /\ response[r] = None
  BY DEF AnsweredInv, Recorded, Stage
<1>2. PoolTypeOK' /\ PoolInv' /\ \A x \in Reqs : at'[x] = IF x = r THEN next ELSE at[x]
  BY <1>1, FreeMove DEF TypeOK, Recorded
<1>3. /\ Marked' = Marked /\ response' \in [Reqs -> {None} \cup Response]
      /\ \A x \in Reqs : x # r => response'[x] = response[x]
  BY <1>1, AnswerUnmarked DEF TypeOK, Marked
<1>4. TypeOK'
  BY <1>2, <1>3 DEF TypeOK, metrics
<1>5. lock # r
  BY <1>1 DEF LockInv, Recording, Scraping, Stage
<1>6. LockInv' /\ SnapshotInv' /\ SnapshotConsistent'
  <2>1. \A x \in Reqs : lock = x => at'[x] = at[x] /\ response'[x] = response[x]
                                     /\ (at[x] = "scrape" /\ x \in running => x \in running')
    BY <1>2, <1>3, <1>5
  <2>2. \A x \in Reqs : at'[x] = at[x] \/ at[x] = "idle" \/ at'[x] \notin {"scrape", "idle"}
    BY <1>2
  <2> QED
    BY <1>3, <2>1, <2>2, Apart
<1>7. AnsweredInv'
  BY <1>1, <1>2, <1>3 DEF AnsweredInv
<1> QED
  BY <1>2, <1>4, <1>6, <1>7

LEMMA InboundInv == ASSUME IInv, NEW r \in Reqs, Inbound(r) PROVE IInv'
<1>1. CASE \E s \in Status : RejectOutside(r, s)
  <2>1. PICK s \in Status : RejectOutside(r, s)
    BY <1>1
  <2>2. "closed" \in Place
    BY DEF Place
  <2> QED
    <3>1. /\ at[r] = "idle" /\ at' = [at EXCEPT ![r] = "closed"] /\ Answer(r, s, FALSE)
          /\ UNCHANGED <<running, queue, holds, metrics, lock, snapshot>>
      BY <2>1 DEF RejectOutside
    <3> QED
      BY <2>2, <3>1, OutsideInv
<1>2. CASE \E where \in Place \ {"closed", "idle"} : Enter(r, where)
  <2>1. PICK where \in Place \ {"closed", "idle"} : Enter(r, where)
    BY <1>2
  <2>2. 200 \in Status
    BY DEF Status
  <2> QED
    <3>1. /\ at[r] = "idle" /\ at' = [at EXCEPT ![r] = where] /\ where \in Place
          /\ response' = response /\ where \notin {"closed", "idle"}
          /\ UNCHANGED <<running, queue, holds, metrics, lock, snapshot>>
      BY <2>1 DEF Enter
    <3> QED
      BY <2>2, <3>1, OutsideInv
<1>3. (\E s \in Status : RejectOutside(r, s)) \/ \E where \in Place \ {"closed", "idle"} : Enter(r, where)
  BY DEF Inbound, EnforceJsonContentType, LimitBodySize, Preflight, RateLimit, Dispatch,
         Status, Place, Stage
<1> QED
  BY <1>1, <1>2, <1>3

LEMMA UnhandledInv == ASSUME IInv, NEW r \in Reqs, Unhandled(r) PROVE IInv'
<1>1. 500 \in Status /\ "closed" \in Place
  BY DEF Status, Place
<1> QED
  BY <1>1, OutsideInv DEF Unhandled

LEMMA InsideInv == ASSUME IInv, NEW r \in Reqs, Inside(r) PROVE IInv'
<1> USE DEF IInv
<1>1. UNCHANGED <<response, metrics, lock, snapshot>>
  BY DEF Inside
<1>2. SoundStep(r) /\ (at[r] = "sent" /\ at' # at => response[r] # None)
  <2>1. PoolStep(r) \/ (response[r] # None /\ Close(r))
    BY DEF Inside
  <2>2. PoolStep(r) => at[r] \in Stage
    BY DEF PoolStep, Progress, AskThread, OpenSession, Checkout, PoolTimeout, NeedsConn,
           LookedUp, Authenticated, Permitted, Commit, Return, StoreOnly, Serialize, Probe,
           Refuse, Raise, Stage
  <2>3. "sent" \notin Stage
    BY DEF Stage
  <2> QED
    BY <2>1, <2>2, <2>3, InsideIsSound DEF TypeOK
<1>3. PoolTypeOK' /\ PoolInv'
  BY <1>2 DEF SoundStep
<1>4. TypeOK'
  BY <1>1, <1>3 DEF TypeOK, metrics
<1>5. Marked' = Marked
  BY <1>1 DEF Marked
<1>6. lock = r => at' = at
  BY <1>2 DEF LockInv, Recording, Scraping, Recorded, Stage, SoundStep
<1>7. LockInv' /\ SnapshotInv' /\ SnapshotConsistent'
  <2>1. \A x \in Reqs : lock = x => at'[x] = at[x] /\ response'[x] = response[x]
                                     /\ (at[x] = "scrape" /\ x \in running => x \in running')
    BY <1>1, <1>2, <1>6 DEF SoundStep
  <2>2. \A x \in Reqs : at'[x] = at[x] \/ at[x] = "idle" \/ at'[x] \notin {"scrape", "idle"}
    BY <1>2 DEF SoundStep
  <2> QED
    BY <1>1, <1>5, <2>1, <2>2, Apart
<1>8. AnsweredInv'
  <2>1. at[r] \in Stage => response[r] = None
    BY DEF AnsweredInv, Recorded, Stage
  <2> QED
    BY <1>1, <1>2, <2>1 DEF SoundStep, AnsweredInv
<1> QED
  BY <1>3, <1>4, <1>7, <1>8

-----------------------------------------------------------------------------
(* The steps under the lock *)

LEMMA RecordBeginInv == ASSUME IInv, NEW r \in Reqs, RecordBegin(r) PROVE IInv'
<1> USE DEF IInv
<1>1. /\ at[r] \in Recorded /\ response[r] = None /\ lock = None /\ lock' = r
      /\ total' = total + 1 /\ UNCHANGED <<at, running, queue, holds, response, byStatus, errors, snapshot>>
  BY DEF RecordBegin, InnerStatus, Recorded, poolVars
<1>2. TypeOK' /\ PoolInv'
  <2>1. PoolTypeOK' /\ PoolInv'
    BY <1>1 DEF TypeOK, PoolTypeOK, PoolInv
  <2> QED
    BY <1>1, <2>1 DEF TypeOK
<1>3. Marked' = Marked
  BY <1>1 DEF Marked
<1>4. total = Sum(byStatus) /\ total = Cardinality(Marked)
  BY <1>1 DEF LockInv
<1>5. LockInv'
  BY <1>1, <1>3, <1>4, NoneAssumption DEF LockInv, Recording, Scraping, Sum
<1>6. SnapshotInv'
  BY <1>1, NoneAssumption DEF SnapshotInv
<1>7. AnsweredInv' /\ SnapshotConsistent'
  BY <1>1 DEF AnsweredInv, SnapshotConsistent
<1> QED
  BY <1>2, <1>5, <1>6, <1>7

LEMMA RecordEndInv == ASSUME IInv, NEW r \in Reqs, RecordEnd(r) PROVE IInv'
<1> USE DEF IInv
<1> DEFINE s == InnerStatus[at[r]]
<1>1. s \in Status /\ s < 500 /\ at[r] \in Recorded
  BY DEF RecordEnd, InnerStatus, Status, Recorded
<1>2. /\ lock = r /\ lock' = None /\ byStatus' = [byStatus EXCEPT ![s] = @ + 1]
      /\ errors' = errors + (IF s >= 500 THEN 1 ELSE 0) /\ Answer(r, s, TRUE)
      /\ UNCHANGED <<at, running, queue, holds, total, snapshot>>
  BY DEF RecordEnd, poolVars
<1> HIDE DEF s
<1>3. response[r] = None /\ total = Sum(byStatus) + 1 /\ total = Cardinality(Marked) + 1
  BY <1>1, <1>2 DEF LockInv, Recording, Scraping, Recorded
<1>4. /\ Cardinality(Marked') = Cardinality(Marked) + 1
      /\ response' \in [Reqs -> {None} \cup Response]
      /\ \A x \in Reqs : x # r => response'[x] = response[x]
  BY <1>1, <1>2, <1>3, AnswerMarked
<1>5. byStatus' \in [Status -> Nat] /\ Sum(byStatus') = Sum(byStatus) + 1
  <2>1. byStatus \in [Status -> Nat]
    BY DEF TypeOK
  <2>2. byStatus[s] + 1 \in Nat /\ byStatus' = [byStatus EXCEPT ![s] = byStatus[s] + 1]
    BY <1>1, <1>2, <2>1
  <2>3. Sum([byStatus EXCEPT ![s] = byStatus[s] + 1]) = Sum(byStatus) + 1
    BY <1>1, <2>1, SumOfOneMore
  <2> QED
    BY <2>1, <2>2, <2>3
<1>6. errors' \in Nat
  BY <1>2 DEF TypeOK
<1>7. TypeOK' /\ PoolInv'
  <2>1. PoolTypeOK' /\ PoolInv'
    BY <1>2 DEF TypeOK, PoolTypeOK, PoolInv
  <2> QED
    BY <1>2, <1>4, <1>5, <1>6, <2>1 DEF TypeOK
<1>8. LockInv'
  <2>1. total' = Sum(byStatus') /\ total' = Cardinality(Marked')
    BY <1>2, <1>3, <1>4, <1>5
  <2> QED
    BY <1>2, <2>1, NoneAssumption DEF LockInv, Sum
<1>9. SnapshotInv'
  BY <1>1, <1>2 DEF SnapshotInv, Recorded
<1>10. AnsweredInv'
  BY <1>1, <1>2, <1>4 DEF AnsweredInv
<1>11. SnapshotConsistent'
  BY <1>2 DEF SnapshotConsistent
<1> QED
  BY <1>7, <1>8, <1>9, <1>10, <1>11

LEMMA SnapshotBeginInv == ASSUME IInv, NEW r \in Reqs, SnapshotBegin(r) PROVE IInv'
<1> USE DEF IInv
<1> DEFINE new == [total |-> total, sum |-> None]
<1>1. /\ at[r] = "scrape" /\ r \in running /\ lock = None /\ lock' = r
      /\ snapshot' = [snapshot EXCEPT ![r] = new]
      /\ UNCHANGED <<at, running, queue, holds, response, total, byStatus, errors>>
  BY DEF SnapshotBegin, poolVars, metrics
<1>2. new \in Snapshot /\ new.sum = None /\ new.total = total
  BY DEF Snapshot, TypeOK
<1>3. \A x \in Reqs : snapshot'[x] = IF x = r THEN new ELSE snapshot[x]
  BY <1>1 DEF TypeOK
<1>4. TypeOK' /\ PoolInv'
  <2>1. PoolTypeOK' /\ PoolInv'
    BY <1>1 DEF TypeOK, PoolTypeOK, PoolInv
  <2>2. snapshot' \in [Reqs -> {None} \cup Snapshot]
    BY <1>1, <1>2 DEF TypeOK
  <2> QED
    BY <1>1, <2>1, <2>2 DEF TypeOK
<1> HIDE DEF new
<1>5. Marked' = Marked
  BY <1>1 DEF Marked
<1>6. LockInv'
  BY <1>1, <1>5, NoneAssumption DEF LockInv, Recording, Scraping, Sum
<1>7. SnapshotInv'
  BY <1>1, <1>2, <1>3, NoneAssumption DEF SnapshotInv
<1>8. AnsweredInv' /\ SnapshotConsistent'
  BY <1>1, <1>2, <1>3 DEF AnsweredInv, SnapshotConsistent
<1> QED
  BY <1>4, <1>6, <1>7, <1>8

LEMMA SnapshotEndInv == ASSUME IInv, NEW r \in Reqs, SnapshotEnd(r) PROVE IInv'
<1> USE DEF IInv
<1>1. /\ at[r] = "scrape" /\ snapshot[r] # None /\ Finish(r, "sent")
      /\ snapshot' = [snapshot EXCEPT ![r].sum = Sum(byStatus)]
      /\ lock' = IF lock = r THEN None ELSE lock
      /\ UNCHANGED <<response, total, byStatus, errors>>
  BY DEF SnapshotEnd, metrics
<1>2. lock = r /\ snapshot[r].total = total /\ snapshot[r] \in Snapshot
  BY <1>1 DEF SnapshotInv, TypeOK
<1>3. total = Sum(byStatus) /\ total = Cardinality(Marked) /\ Sum(byStatus) \in Nat
  BY <1>1, <1>2, SumIsNat DEF LockInv, Recording, Scraping, Recorded, TypeOK
<1>4. PoolTypeOK' /\ PoolInv' /\ \A x \in Reqs : at'[x] = IF x = r THEN "sent" ELSE at[x]
  <2>1. /\ r \notin Waiting /\ GiveBack(r) /\ at' = [at EXCEPT ![r] = "sent"] /\ holds' = holds
        /\ "sent" \in Place
    BY <1>1 DEF Finish, PoolInv, Waiting, Place
  <2>2. PoolTypeOK' /\ PoolInv'
    BY <2>1, MovedOn DEF TypeOK
  <2> QED
    BY <2>1, <2>2 DEF TypeOK, PoolTypeOK
<1>5. /\ snapshot'[r].sum = Sum(byStatus) /\ snapshot'[r].total = total
      /\ snapshot'[r] \in Snapshot
      /\ \A x \in Reqs : x # r => snapshot'[x] = snapshot[x]
      /\ snapshot' \in [Reqs -> {None} \cup Snapshot]
  BY <1>1, <1>2, <1>3 DEF Snapshot, TypeOK
<1>6. TypeOK'
  BY <1>1, <1>2, <1>4, <1>5 DEF TypeOK
<1>7. LockInv'
  <2>1. Marked' = Marked
    BY <1>1 DEF Marked
  <2> QED
    BY <1>1, <1>2, <1>3, <2>1, NoneAssumption DEF LockInv, Sum
<1>8. SnapshotInv'
  <2>1. snapshot'[r].sum # None
    BY <1>3, <1>5, NoneAssumption
  <2> QED
    BY <1>2, <1>4, <1>5, <2>1, NoneAssumption DEF SnapshotInv
<1>9. AnsweredInv' /\ SnapshotConsistent'
  BY <1>1, <1>3, <1>4, <1>5 DEF AnsweredInv, Recorded, SnapshotConsistent
<1> QED
  BY <1>4, <1>6, <1>7, <1>8, <1>9

-----------------------------------------------------------------------------
LEMMA StepInv == IInv /\ [Next]_vars => IInv'
<1> SUFFICES ASSUME IInv, [Next]_vars PROVE IInv'
  OBVIOUS
<1>1. ASSUME NEW r \in Reqs, Inbound(r) \/ Inside(r) PROVE IInv'
  BY <1>1, InboundInv, InsideInv
<1>2. ASSUME NEW r \in Reqs, Outbound(r) PROVE IInv'
  BY <1>2, RecordBeginInv, RecordEndInv, SnapshotBeginInv, SnapshotEndInv, UnhandledInv DEF Outbound
<1>3. CASE UNCHANGED vars
  <2>1. /\ UNCHANGED <<at, running, queue, holds, response, total, byStatus, errors, lock, snapshot>>
    BY <1>3 DEF vars, poolVars, metrics
  <2>2. TypeOK' /\ PoolInv'
    BY <2>1 DEF IInv, TypeOK, PoolTypeOK, PoolInv
  <2>3. LockInv'
    BY <2>1 DEF IInv, LockInv, Recording, Scraping, Sum, Marked
  <2>4. SnapshotInv' /\ AnsweredInv' /\ SnapshotConsistent'
    BY <2>1 DEF IInv, SnapshotInv, AnsweredInv, SnapshotConsistent
  <2> QED
    BY <2>2, <2>3, <2>4 DEF IInv
<1> QED
  BY <1>1, <1>2, <1>3 DEF Next

LEMMA InvHolds == Spec => []IInv
BY InitInv, StepInv, PTL DEF Spec

\* No more threads and connections are in use than there are.
THEOREM TypeCorrect == Spec => []TypeOK
<1>1. IInv => TypeOK
  BY DEF IInv
<1> QED
  BY <1>1, InvHolds, PTL

\* However many requests, threads and connections: a stall takes one request for
\* each of the threads and each of the connections.
THEOREM StallTakesOverload == Spec => []StallNeedsOverload
<1>1. IInv => StallNeedsOverload
  BY StallOwnsAll DEF IInv, TypeOK
<1> QED
  BY <1>1, InvHolds, PTL

\* What is counted is what goes out with a request id, one by one.
THEOREM CountIsOfMarked == Spec => []CountedAreMarked
<1>1. IInv => CountedAreMarked
  <2> SUFFICES ASSUME IInv PROVE CountedAreMarked
    OBVIOUS
  <2>1. Marked = {r \in Reqs : response[r] # None /\ response[r].marked} /\ Cardinality(Marked) \in Nat
    BY MarkedFinite DEF Marked
  <2>2. CASE \E r \in Reqs : lock = r /\ at[r] # "scrape"
    BY <2>1, <2>2 DEF IInv, LockInv, Recording, Scraping, CountedAreMarked
  <2>3. CASE ~\E r \in Reqs : lock = r /\ at[r] # "scrape"
    <3>1. total = Cardinality(Marked)
      BY <2>3 DEF IInv, LockInv, Recording, Scraping, TypeOK, Recorded
    <3> QED
      BY <2>1, <2>3, <3>1 DEF IInv, CountedAreMarked
  <2> QED
    BY <2>2, <2>3
<1> QED
  BY <1>1, InvHolds, PTL

\* Every snapshot adds up, however scrapes and requests overlap.
THEOREM SnapshotsAddUp == Spec => []SnapshotConsistent
<1>1. IInv => SnapshotConsistent
  BY DEF IInv
<1> QED
  BY <1>1, InvHolds, PTL

=============================================================================
