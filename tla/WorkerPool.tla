------------------------------ MODULE WorkerPool ------------------------------
(***************************************************************************)
(* What a request needs inside one replica: all handlers and dependencies  *)
(* are plain functions, so each of its stages borrows a thread of the one  *)
(* pool that FastAPI has, and gives it back before the next stage; its     *)
(* session borrows a connection at the first query and keeps it between    *)
(* stages, until a commit or until get_db closes it.                       *)
(*                                                                         *)
(* A thread goes to the request that has waited longest.  A stage that     *)
(* finds no free connection blocks, with its thread, until it gets one or  *)
(* the pool's timeout raises.                                              *)
(***************************************************************************)
EXTENDS Integers, Sequences, FiniteSets

CONSTANTS
  Reqs,     \* the requests of a run
  Threads,  \* 40: the thread pool
  Conns     \* 15: pool_size and max_overflow of the engine

ASSUME PoolAssumption ==
  IsFiniteSet(Reqs) /\ Threads \in Nat \ {0} /\ Conns \in Nat \ {0}

VARIABLES
  at,       \* the stage of each request
  running,  \* the requests that have a thread
  queue,    \* those that wait for one
  holds     \* those whose session has a connection

poolVars == <<at, running, queue, holds>>

\* Without a session: "probe" and "scrape" are the handlers of health and metrics,
\* "store" those of /auth/refresh and /auth/logout.  "lookup" is the dependency that
\* loads the project, issue or comment of a path, ahead of get_current_user.
Stage == {"probe", "scrape", "store", "session", "lookup", "auth", "permission",
          "handler", "refresh", "serialize"}
Place == Stage \cup {"idle", "preflight", "limited", "sent", "refused", "raised", "closed"}

Waiting == {queue[i] : i \in DOMAIN queue}
InFlight == {r \in Reqs : at[r] \in Stage \cup {"sent"}}

PoolTypeOK ==
  /\ at \in [Reqs -> Place]
  /\ running \subseteq Reqs /\ Cardinality(running) <= Threads
  /\ queue \in Seq(Reqs)
  /\ holds \subseteq Reqs /\ Cardinality(holds) <= Conns

PoolInit ==
  /\ at = [r \in Reqs |-> "idle"]
  /\ running = {}
  /\ queue = <<>>
  /\ holds = {}

-----------------------------------------------------------------------------
\* The thread of r, if it has one, goes to the head of the queue.
GiveBack(r) ==
  IF r \in running
  THEN /\ running' = (running \ {r}) \cup (IF queue = <<>> THEN {} ELSE {Head(queue)})
       /\ queue' = IF queue = <<>> THEN <<>> ELSE Tail(queue)
  ELSE UNCHANGED <<running, queue>>

Finish(r, next) ==
  /\ r \in running
  /\ at' = [at EXCEPT ![r] = next]
  /\ GiveBack(r)
  /\ UNCHANGED holds

\* Mutant of Unwind: get_db closes the session only after success.
UnwindOpen(r, end) ==
  /\ at' = [at EXCEPT ![r] = end]
  /\ GiveBack(r)
  /\ UNCHANGED holds

\* The exit stack of the request closes its session, whatever ended it.
Unwind(r, end) ==
  /\ at' = [at EXCEPT ![r] = end]
  /\ holds' = holds \ {r}
  /\ GiveBack(r)

AskThread(r) ==
  /\ at[r] \in Stage
  /\ r \notin running \cup Waiting
  /\ IF Cardinality(running) < Threads
     THEN running' = running \cup {r} /\ UNCHANGED queue
     ELSE queue' = Append(queue, r) /\ UNCHANGED running
  /\ UNCHANGED <<at, holds>>

\* get_db opens a session, which borrows nothing yet; some endpoints are public.
OpenSession(r) ==
  at[r] = "session" /\ \E next \in {"lookup", "auth", "handler"} : Finish(r, next)

NeedsConn(r) == r \in running \ holds /\ at[r] \in {"lookup", "auth", "handler", "refresh"}

\* Mutant of Checkout: one connection more than the pool may open.
CheckoutOver(r) ==
  /\ NeedsConn(r)
  /\ Cardinality(holds) <= Conns
  /\ holds' = holds \cup {r}
  /\ UNCHANGED <<at, running, queue>>

Checkout(r) ==
  /\ NeedsConn(r)
  /\ Cardinality(holds) < Conns
  /\ holds' = holds \cup {r}
  /\ UNCHANGED <<at, running, queue>>

\* Mutant of PoolTimeout: the pool waits for ever.
NoTimeout(r) == FALSE /\ UNCHANGED poolVars

PoolTimeout(r) ==
  /\ NeedsConn(r)
  /\ Cardinality(holds) = Conns
  /\ Unwind(r, "raised")

\* get_project, get_issue or get_comment.
LookedUp(r) == at[r] = "lookup" /\ r \in holds /\ Finish(r, "auth")

\* get_current_user; a permission check is a stage of its own.
Authenticated(r) ==
  /\ at[r] = "auth"
  /\ r \in holds
  /\ \E next \in {"permission", "handler"} : Finish(r, next)

\* Its session has a connection already.
Permitted(r) == at[r] = "permission" /\ Finish(r, "handler")

\* db.commit() gives the connection back and db.refresh borrows one again.
Commit(r) ==
  /\ at[r] = "handler"
  /\ r \in running \cap holds
  /\ at' = [at EXCEPT ![r] = "refresh"]
  /\ holds' = holds \ {r}
  /\ UNCHANGED <<running, queue>>

\* The handler returns; a 204 has nothing to serialise.
Return(r) ==
  /\ at[r] \in {"handler", "refresh"}
  /\ r \in holds
  /\ \E next \in {"serialize", "sent"} : Finish(r, next)

\* A handler that works on the token store alone.
StoreOnly(r) == at[r] = "store" /\ \E next \in {"serialize", "sent"} : Finish(r, next)

Serialize(r) == at[r] = "serialize" /\ Finish(r, "sent")

Probe(r) == at[r] = "probe" /\ Finish(r, "sent")

\* An HTTPException, or a body that does not validate.
Refuse(r) ==
  /\ at[r] \in Stage \ {"probe", "scrape", "serialize"}
  /\ r \notin Waiting
  /\ Unwind(r, "refused")

\* Any other exception.
Raise(r) == r \in running /\ at[r] \in Stage \ {"probe", "scrape"} /\ Unwind(r, "raised")

\* The stack of a request that succeeded unwinds after the answer is sent.
Close(r) == at[r] = "sent" /\ Unwind(r, "closed")

Progress(r) ==
  \/ AskThread(r) \/ OpenSession(r) \/ Checkout(r) \/ PoolTimeout(r) \/ LookedUp(r)
  \/ Authenticated(r) \/ Permitted(r) \/ Commit(r) \/ Return(r) \/ StoreOnly(r)
  \/ Serialize(r) \/ Probe(r)

PoolStep(r) == Progress(r) \/ Refuse(r) \/ Raise(r)

-----------------------------------------------------------------------------
(* Property *)

\* Every thread is blocked on a connection, and those who have one wait for a thread.
Stalled ==
  /\ Cardinality(running) = Threads
  /\ Cardinality(holds) = Conns
  /\ \A r \in running : NeedsConn(r)

\* The replica stalls until the pool's timeout only under more requests than it
\* has threads and connections together: what ended owns neither.
StallNeedsOverload == Stalled => Cardinality(InFlight) >= Threads + Conns

=============================================================================
