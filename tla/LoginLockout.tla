----------------------------- MODULE LoginLockout -----------------------------
(***************************************************************************)
(* authenticate_user (app/services/auth.py) for one existing username: the *)
(* failure counter with its window, in either store of token_store.py.     *)
(*                                                                         *)
(* Redis runs INCR and EXPIRE as one pipeline and renews the window at     *)
(* every attempt.  The in-memory store reads the entry and writes it back  *)
(* in two steps that the worker threads interleave, and sets the window    *)
(* once.  A step is a round trip, a read or a write of the shared entry.   *)
(***************************************************************************)
EXTENDS Integers

CONSTANTS
  Reqs,     \* worker slots: as many logins overlap
  Backends, \* what get_store may settle for at start-up: "redis", "memory"
  Limit,    \* 10: the attempts of a window that reach the password check
  Window    \* 900 s, in ticks

ASSUME BackendAssumption == Backends \subseteq {"redis", "memory"}
ASSUME BoundsAssumption == Limit \in Nat \ {0} /\ Window \in Nat \ {0}

VARIABLES
  backend,   \* the store of this process, chosen once by get_store
  count,     \* failures of the entry
  left,      \* ticks until it expires (0: no entry, or an expired one)
  req,       \* the login each worker is serving
  admitted   \* history: attempts let through since the entry was last new

vars == <<backend, count, left, req, admitted>>

Idle == [at |-> "idle"]
Reading == [at : {"count"}, right : BOOLEAN]
Writing == [at : {"write"}, right : BOOLEAN, count : 0..Limit + 1, left : 0..Window]
Checking == [at : {"check", "clear"}, right : BOOLEAN]

\* Bound: all counts above Limit lock alike, so one stands for the rest.
Capped(n) == IF n > Limit + 1 THEN Limit + 1 ELSE n

TypeOK ==
  /\ backend \in Backends
  /\ count \in 0..Limit + 1
  /\ left \in 0..Window
  /\ req \in [Reqs -> {Idle} \cup Reading \cup Writing \cup Checking]
  /\ admitted \in 0..Limit + 1

Init ==
  /\ backend \in Backends
  /\ count = 0
  /\ left = 0
  /\ req = [r \in Reqs |-> Idle]
  /\ admitted = 0

-----------------------------------------------------------------------------
\* Mutant of Locks: one attempt too many.
LocksLate(n) == n > Limit + 1

Locks(n) == n > Limit

\* What inc_failure finds: an entry whose window is over counts from zero.
Current == IF left > 0 THEN count ELSE 0

\* Mutant of WindowLeft: the in-memory window slides as well.
WindowRenewed == Window

\* inc_failure of the in-memory store keeps the expiry it found.
WindowLeft == IF left > 0 THEN left ELSE Window

\* The answer of inc_failure decides: 423, or on to the password.
Admit(r, n) ==
  /\ req' = [req EXCEPT ![r] = IF Locks(n) THEN Idle ELSE [at |-> "check", right |-> @.right]]
  /\ admitted' = IF Locks(n) THEN admitted ELSE Capped(IF left > 0 THEN admitted + 1 ELSE 1)

Start(r, right) ==
  /\ req[r] = Idle
  /\ req' = [req EXCEPT ![r] = [at |-> "count", right |-> right]]
  /\ UNCHANGED <<backend, count, left, admitted>>

\* RedisStore.inc_failure
RedisCount(r) ==
  /\ backend = "redis"
  /\ req[r].at = "count"
  /\ count' = Capped(Current + 1)
  /\ left' = Window
  /\ Admit(r, Current + 1)
  /\ UNCHANGED backend

\* InMemoryStore.inc_failure, up to the assignment.
MemoryRead(r) ==
  /\ backend = "memory"
  /\ req[r].at = "count"
  /\ req' = [req EXCEPT ![r] = [at |-> "write", right |-> @.right,
                                count |-> Current, left |-> WindowLeft]]
  /\ UNCHANGED <<backend, count, left, admitted>>

\* ... and from the assignment on, of the count and expiry that were read.
MemoryWrite(r) ==
  /\ backend = "memory"
  /\ req[r].at = "write"
  /\ count' = Capped(req[r].count + 1)
  /\ left' = req[r].left
  /\ Admit(r, req[r].count + 1)
  /\ UNCHANGED backend

\* verify_password: a wrong one is a 401.
CheckPassword(r) ==
  /\ req[r].at = "check"
  /\ req' = [req EXCEPT ![r] = IF @.right THEN [@ EXCEPT !.at = "clear"] ELSE Idle]
  /\ UNCHANGED <<backend, count, left, admitted>>

\* Mutant of Clear: one failure is forgiven, not all.
ClearOne(r) ==
  /\ req[r].at = "clear"
  /\ count' = count - 1
  /\ req' = [req EXCEPT ![r] = Idle]
  /\ UNCHANGED <<backend, left, admitted>>

\* clear_failure; the rest of the login is in AuthFlows.
Clear(r) ==
  /\ req[r].at = "clear"
  /\ count' = 0
  /\ left' = 0
  /\ admitted' = 0
  /\ req' = [req EXCEPT ![r] = Idle]
  /\ UNCHANGED backend

\* A round trip to Redis times out, or the process dies.
Fail(r) ==
  /\ req[r] # Idle
  /\ req' = [req EXCEPT ![r] = Idle]
  /\ UNCHANGED <<backend, count, left, admitted>>

Less(n) == IF n > 0 THEN n - 1 ELSE 0

\* A tick passes; an expiry that a thread has read comes closer too.
Tick ==
  /\ left' = Less(left)
  /\ req' = [r \in Reqs |->
               IF req[r].at = "write" THEN [req[r] EXCEPT !.left = Less(@)] ELSE req[r]]
  /\ UNCHANGED <<backend, count, admitted>>

Work(r) == RedisCount(r) \/ MemoryRead(r) \/ MemoryWrite(r) \/ CheckPassword(r) \/ Clear(r)

Next ==
  \/ Tick
  \/ \E r \in Reqs : (\E right \in BOOLEAN : Start(r, right)) \/ Work(r) \/ Fail(r)

\* Time passes, and a worker that serves a request goes on with it.
Spec == Init /\ [][Next]_vars /\ WF_vars(Tick) /\ \A r \in Reqs : WF_vars(Work(r))

-----------------------------------------------------------------------------
(* Properties *)

\* With Redis, however the logins overlap, at most Limit attempts of a window
\* reach the password check between two successes (README, "lockout after
\* repeated failures").
AttemptsLimited == backend = "redis" => admitted <= Limit

Locked == left > 0 /\ Locks(count + 1)

\* In memory the window is set once: a lockout ends whatever clients do.
MemoryLockoutEnds == (backend = "memory" /\ Locked) ~> ~Locked

\* A lockout is temporary in either store ("Account temporarily locked").
LockoutEnds == Locked ~> ~Locked

=============================================================================
