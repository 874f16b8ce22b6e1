------------------------------- MODULE Pipeline -------------------------------
(***************************************************************************)
(* The path of a request through one replica (app/main.py): the            *)
(* middlewares, from the last one declared to the first, the handler with  *)
(* its threads and connections (WorkerPool), the exception handlers, and   *)
(* the counters of /metrics (app/core/metrics.py).                         *)
(*                                                                         *)
(*   errors > json type > body size > headers > request id > CORS > limits *)
(*                                                                         *)
(* The middlewares run on the event loop, one at a time.  Only             *)
(* MetricsStore.snapshot runs beside them, on a thread, so record and      *)
(* snapshot are the operations whose single steps can interleave.          *)
(***************************************************************************)
EXTENDS WorkerPool

CONSTANTS None

VARIABLES
  response,   \* what the client got
  total,      \* MetricsStore._total_requests
  byStatus,   \* MetricsStore._by_status
  errors,     \* MetricsStore._total_errors
  lock,       \* who holds MetricsStore._lock
  snapshot    \* what a scrape has read so far

metrics == <<total, byStatus, errors>>
vars == <<poolVars, response, metrics, lock, snapshot>>

\* 400 stands for every HTTPException and validation error: none is above 499.
Status == {200, 400, 413, 415, 429, 500}
Response == [status : Status, marked : BOOLEAN]
Snapshot == [total : Nat, sum : {None} \cup Nat]

ASSUME NoneAssumption == None \notin Reqs \cup Response \cup Nat \cup Snapshot

\* The status that reaches add_request_id from the inside.
InnerStatus == [sent |-> 200, preflight |-> 200, refused |-> 400, limited |-> 429]

Sum(by) == by[200] + by[400] + by[413] + by[415] + by[429] + by[500]

TypeOK ==
  /\ PoolTypeOK
  /\ response \in [Reqs -> {None} \cup Response]
  /\ total \in Nat /\ errors \in Nat
  /\ byStatus \in [Status -> Nat]
  /\ lock \in {None} \cup Reqs
  /\ snapshot \in [Reqs -> {None} \cup Snapshot]

Init ==
  /\ PoolInit
  /\ response = [r \in Reqs |-> None]
  /\ total = 0
  /\ byStatus = [s \in Status |-> 0]
  /\ errors = 0
  /\ lock = None
  /\ snapshot = [r \in Reqs |-> None]

-----------------------------------------------------------------------------
Answer(r, s, marked) ==
  response' = [response EXCEPT ![r] = [status |-> s, marked |-> marked]]

\* enforce_json_content_type and limit_body_size answer by themselves, outside
\* the middlewares that mark a response with a request id and security headers.
RejectOutside(r, s) ==
  /\ at[r] = "idle"
  /\ at' = [at EXCEPT ![r] = "closed"]
  /\ Answer(r, s, FALSE)
  /\ UNCHANGED <<running, queue, holds, metrics, lock, snapshot>>

\* The request gets through to where.
Enter(r, where) ==
  /\ at[r] = "idle"
  /\ at' = [at EXCEPT ![r] = where]
  /\ UNCHANGED <<running, queue, holds, response, metrics, lock, snapshot>>

EnforceJsonContentType(r) == RejectOutside(r, 415)

\* int raises if the length is not a number.
LimitBodySize(r) == RejectOutside(r, 413) \/ Enter(r, "raised")

\* The CORS middleware or the rate limiter answers, or the router finds the
\* handler, or none (404).
Preflight(r) == Enter(r, "preflight")
RateLimit(r) == Enter(r, "limited")
Dispatch(r) == \E where \in {"session", "store", "probe", "scrape", "refused"} : Enter(r, where)

\* add_request_id after call_next: MetricsStore.record, up to the first counter.
RecordBegin(r) ==
  /\ at[r] \in DOMAIN InnerStatus
  /\ response[r] = None
  /\ lock = None
  /\ lock' = r
  /\ total' = total + 1
  /\ UNCHANGED <<poolVars, response, byStatus, errors, snapshot>>

\* ... the others, and the response goes out through security_headers.
RecordEnd(r) ==
  LET s == InnerStatus[at[r]]
  IN  /\ lock = r
      /\ at[r] \in DOMAIN InnerStatus
      /\ lock' = None
      /\ byStatus' = [byStatus EXCEPT ![s] = @ + 1]
      /\ errors' = errors + (IF s >= 500 THEN 1 ELSE 0)
      /\ Answer(r, s, TRUE)
      /\ UNCHANGED <<poolVars, total, snapshot>>

\* Mutant of SnapshotBegin: snapshot takes no lock.
SnapshotUnlocked(r) ==
  /\ at[r] = "scrape"
  /\ r \in running
  /\ snapshot[r] = None
  /\ snapshot' = [snapshot EXCEPT ![r] = [total |-> total, sum |-> None]]
  /\ UNCHANGED <<poolVars, response, metrics, lock>>

\* metrics_endpoint: snapshot takes the lock and reads the counters one by one.
SnapshotBegin(r) ==
  /\ at[r] = "scrape"
  /\ r \in running
  /\ snapshot[r] = None
  /\ lock = None
  /\ lock' = r
  /\ snapshot' = [snapshot EXCEPT ![r] = [total |-> total, sum |-> None]]
  /\ UNCHANGED <<poolVars, response, metrics>>

SnapshotEnd(r) ==
  /\ at[r] = "scrape"
  /\ snapshot[r] # None
  /\ snapshot' = [snapshot EXCEPT ![r].sum = Sum(byStatus)]
  /\ lock' = IF lock = r THEN None ELSE lock
  /\ Finish(r, "sent")
  /\ UNCHANGED <<response, metrics>>

\* Mutant of Unhandled: add_request_id records in a finally clause.
UnhandledCounted(r) ==
  /\ at[r] = "raised"
  /\ lock = None
  /\ at' = [at EXCEPT ![r] = "closed"]
  /\ Answer(r, 500, FALSE)
  /\ total' = total + 1
  /\ byStatus' = [byStatus EXCEPT ![500] = @ + 1]
  /\ errors' = errors + 1
  /\ UNCHANGED <<running, queue, holds, lock, snapshot>>

\* An exception passes every middleware on its way to generic_exception_handler,
\* which is outside them all: nothing after their call_next is done.
Unhandled(r) ==
  /\ at[r] = "raised"
  /\ at' = [at EXCEPT ![r] = "closed"]
  /\ Answer(r, 500, FALSE)
  /\ UNCHANGED <<running, queue, holds, metrics, lock, snapshot>>

Inbound(r) ==
  \/ EnforceJsonContentType(r) \/ LimitBodySize(r) \/ Preflight(r) \/ RateLimit(r) \/ Dispatch(r)

Inside(r) ==
  /\ PoolStep(r) \/ (response[r] # None /\ Close(r))
  /\ UNCHANGED <<response, metrics, lock, snapshot>>

Outbound(r) ==
  RecordBegin(r) \/ RecordEnd(r) \/ SnapshotBegin(r) \/ SnapshotEnd(r) \/ Unhandled(r)

Next == \E r \in Reqs : Inbound(r) \/ Inside(r) \/ Outbound(r)

\* The event loop and the threads go on with what they can, and a stage that needs
\* a connection gets one or times out.  Nothing has to fail, and nobody has to call.
Fairness == \A r \in Reqs :
  WF_vars((Progress(r) /\ UNCHANGED <<response, metrics, lock, snapshot>>) \/ Outbound(r))

Spec == Init /\ [][Next]_vars /\ Fairness

-----------------------------------------------------------------------------
(* Properties *)

\* The requests counted are those whose answer carries a request id and the
\* security headers, and one that record is at work on: none is counted and
\* then lost, none is answered with an id and not counted.
CountedAreMarked ==
  total = Cardinality({r \in Reqs : response[r] # None /\ response[r].marked})
          + (IF \E r \in Reqs : lock = r /\ at[r] # "scrape" THEN 1 ELSE 0)

\* total_errors is the number of answers above 499, which is what record means it
\* to be.  Not so: generic_exception_handler answers outside the middleware that
\* counts (PipelineErrors.cfg).
ErrorsCounted ==
  errors = Cardinality({r \in Reqs : response[r] # None /\ response[r].status >= 500})

\* What /metrics answers adds up: no snapshot falls between the counters of a record.
SnapshotConsistent ==
  \A r \in Reqs : snapshot[r] # None /\ snapshot[r].sum # None => snapshot[r].sum = snapshot[r].total

\* Every request that comes in is answered: threads blocked on connections and
\* connections held by requests without a thread do not wait on each other for ever.
EveryRequestAnswered == \A r \in Reqs : at[r] # "idle" ~> response[r] # None

=============================================================================
