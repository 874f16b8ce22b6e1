# A verification project for the AI4B Bug Reporting API

TLA+ modules of the parts of the service in which order, overlap, failure and
time decide whether it is right; TLC configurations that check them on small
instances; and proofs, checked by TLAPS, of the properties that hold for every
value of the constants. Paths are relative to the repository (`src/` here).

Run everything from this directory:

    tlc -workers 2 -config AuthSessions.cfg MCAuthFlows.tla
    tlapm AuthFlowsProofs.tla

`PROJECT.json` ties each definition to the lines it models, each property to a
mutant of the code that breaks it, and each hazard to the properties about it.

## 1. Inventory

The service is one FastAPI application (`app/main.py`), started as several
replicas (`infra/k8s/deployment.yaml`) behind nginx. All route handlers are plain
`def` functions, so each replica runs them on a pool of threads: requests overlap
inside a replica as well as between replicas. They share PostgreSQL, Redis and,
inside one replica, module-level objects.

| Component | Source | State | Operations |
|---|---|---|---|
| Token store, Redis | `app/services/token_store.py:114-198` | keys `blacklist:*`, `refresh:u:j`, `refreshset:u`, `accessrevoked:u`, `loginfail:name`, each with a TTL | one command or one MULTI/EXEC pipeline per method; `revoke_all_refresh` and `rotate_refresh_session` take two round trips |
| Token store, in memory | `token_store.py:32-111` | four dictionaries per process, no lock | the same methods, plain dictionary operations |
| Choice of the store | `token_store.py:200-209` | the module global `store` | once per process, at import |
| Session endpoints | `app/api/routes/auth.py`, `app/services/auth.py` | none of their own: tokens at clients, the store, `users` | register, login, refresh, logout, logout-all, change-password, me |
| Bearer check | `app/api/deps.py` | none | blacklist, signature and expiry, user row, revocation stamp, in this order |
| Login lockout | `authenticate_user`, `inc_failure`, `clear_failure` | the failure counter and its window | count first, then check the password, then clear |
| Issues | `app/api/routes/issues.py`, `app/api/permissions.py` | table `issues` | create, list, read, PATCH with a state machine |
| Comments | `app/api/routes/comments.py` | table `comments` | add (two routes), list, PATCH of the text |
| Projects | `app/api/routes/projects.py` | table `projects` | create, list, read, PATCH, archive, issues of a project |
| Listing and paging | `app/api/query.py` | none | ORDER BY one whitelisted column, OFFSET and LIMIT |
| Tokens and keys | `app/services/security.py` | two process-wide key caches | sign, decode, hash, sanitise |
| PII encryption | `app/services/pii.py`, `app/models/user.py:32-39` | none | encrypt, decrypt, keyed hash |
| Request pipeline | `app/main.py`, `app/core/metrics.py` | counters under a lock | six middlewares, four error handlers, `/metrics`, `/health/*` |
| Rate limiter | `app/core/limiter.py` | slowapi's, in the process | declared per route |
| Database session | `app/db/session.py`, `app/db/types.py`, `migrations/` | a connection pool per process; UNIQUE columns | one session per request, closed when the request's stack unwinds |
| Seed script and deployment | `scripts/seed.py`, `infra/k8s/deployment.yaml` | two replicas, a Redis without a volume | two accounts, a project and an issue in one transaction; restarts |
| Audit, logging, configuration | `app/services/audit.py`, `app/core/` | none that a request reads | output and settings |

How they interact. A guarded endpoint first runs the bearer check (Redis, then the
database, then Redis), then its own handler, which may commit to the database and
then write to Redis: there is no transaction over the two. A refresh token is
honoured if its key is in the store and it is not on the blacklist; an access token
if it is not on the blacklist, not expired, and newer than its user's revocation
stamp. An unhandled exception, the one-second Redis timeout included, becomes a 500
in `generic_exception_handler`, and what was written before it stays.

What makes each part correct, and hard:

* **Sessions.** What a logout, a refresh or a logout-all has answered for must stay
  dead, whatever other requests were between their round trips, whatever failed
  half way and whatever the client repeats, until the token expires by itself; one
  refresh token is good for one successor; the set that `revoke_all_refresh` reads
  must list every live session.
* **Lockout.** Overlapping guesses must not exceed the limit; a lockout must end.
* **Issues and comments.** A PATCH decides on a row it read and commits later,
  without a lock or a version: the state machine, the rule about critical issues and
  the rule about assignees must hold for what is committed.
* **In-memory store.** Threads share dictionaries while others iterate over them or
  drop them by key: what was revoked must not come back, and what was added should
  stay. Each replica has its own store, and loses it at a restart.
* **Lists.** A page is an OFFSET into a table that changes between two requests: a
  walk through the pages should not miss a row that was there all the time.
* **Registration.** A query, then an insert: two requests can both pass the query, and
  the UNIQUE columns arbitrate. Accounts must stay unique whatever overlaps, the seed
  script must be atomic, and who waits for another's transaction must be answered.
* **Replicas.** A replica settles for a store when it starts and keeps it for life; Redis
  loses its data with its pod. What was retired must stay retired across all of them.
* **Pipeline.** Which responses carry the security headers and a request id and are
  counted depends on the order of middlewares and error handlers; a scrape must not read
  half of an update; threads that wait for connections and requests that keep a
  connection while they wait for a thread must not wait on each other for ever.

## 2. Modules

| Module | What it is |
|---|---|
| `RedisStore` | The Redis keys, one operator per command or pipeline, and the clock |
| `AuthFlows` | Extends `RedisStore`: the session endpoints and the bearer check as concurrent workers |
| `SessionLifecycle` | The abstract specification of refresh sessions that `AuthFlows` implements |
| `LoginLockout` | `authenticate_user` with the failure counter of either store |
| `IssueTracker` | PATCH and POST of issues, and comments, with the permission checks |
| `MemoryStore` | The session dictionaries and the revocation marker of `InMemoryStore`, operation by operation; it too implements `SessionLifecycle` |
| `Projects` | Creating, changing and archiving projects beside a client that walks the pages of their list |
| `WorkerPool` | What a request needs inside a replica: threads, a connection, the stages between which it gives the thread back |
| `Pipeline` | Extends `WorkerPool`: middlewares, error handlers and `MetricsStore` around it |
| `Registration` | `register` and the seed script as overlapping transactions on `users` |
| `Replicas` | Several replicas, the store each settled for, overlapping requests on them, crashes and restarts |
| `MCAuthFlows`, `MCIssueTracker`, `MCMemoryStore`, `MCProjects`, `MCRegistration`, `MCReplicas` | Instances for TLC: who owns which id, who has which role, symmetry |
| `AuthFlowsProofs`, `LoginLockoutProofs`, `IssueTrackerProofs`, `MemoryStoreProofs`, `ProjectsProofs`, `PipelineProofs`, `RegistrationProofs`, `ReplicasProofs` | The theorems, one module for each component |

### RedisStore and AuthFlows

A **step** is one round trip to Redis or to the database with the computation next
to it. A worker (`req[r]`) is a thread serving one request; `req[r].at` names the
round trip it will do next and the other fields hold the locals that later lines of
the handler use: the row read during the bearer check (`hash`), the members that
SMEMBERS returned (`jtis`), the id that the rotation stored (`new`), the time read
before it is stored (`stamp`). An early return or an HTTPException is the step that
makes the worker idle.

* `StartLogin`, `LoginAuthenticate`, `LoginIssue`: `login`, `authenticate_user`,
  `create_token_pair`.
* `StartRefresh`, `RefreshCheckActive`, `RefreshCheckBlacklist`, `RefreshRemove`,
  `RefreshAdd`, `RefreshMint`: `refresh`; the rotation is two pipelines and hence two
  steps, and the old token is blacklisted after both.
* `StartLogout`, `LogoutBlacklistAccess`, `LogoutCheckBlacklist`, `LogoutVerify`,
  `LogoutBlacklist`, `LogoutRemove`: `logout`.
* `StartGuarded`, `GuardBlacklist`, `GuardDecode`, `GuardMarker`: `get_current_user`;
  then `MeAnswer`, or `ChangeCommit` and/or `RevokeRead`, `RevokeDelete`, `RevokeMark`.
* `Fail`: any round trip raises, or the process dies. Nothing is undone.

Data. A key with a TTL is the second at which it expires (0: absent). A refresh token
is its jti. An access token has no jti and an RS256 signature is deterministic, so it
*is* its subject and its second of issue (`AccessToken`): two logins of a user in one
second get the same access token, which the model keeps. Times are whole seconds and
all processes share a clock. `held` is what clients were sent: a request can present
nothing else, except for strings that `decode_token` refuses, which are `None`.
`parent`, `under`, `retired`, `revoked`, `cutoff` and `owed` are history: no guard
reads them.

Every user is active, as no code deactivates one. The failure counter of `login` has
keys of its own and can only refuse, so it is `LoginLockout`'s. `list_refresh_sessions`
is called by no endpoint and left out.

### LoginLockout

The attempts on one username against the store that `get_store` settled for
(`backend`, chosen in `Init`, as it is once per process). Redis counts in one atomic step and renews
the window each time; the in-memory store reads (`MemoryRead`) and writes
(`MemoryWrite`) the entry in two steps, between which other threads run, and keeps
the expiry it found. `left` is the time to the expiry; a tick brings closer also an
expiry that a thread has read and not yet written. `admitted` is history. The limit and the
window are constants; counts above the limit all lock, so `Capped` lets one stand for
the rest.

### IssueTracker

A row has the columns some rule reads. `StartUpdate` is the read of the row with the
permission checks and the transition table; `CountComments` the query that a critical
issue needs; `Commit` the UPDATE. SQLAlchemy writes only the columns whose value
changed against the row *read*, so `Updated` overwrites only those of the row *now in
the table*. No row is locked and PostgreSQL runs at READ COMMITTED. A refused request
changes nothing and is the absence of a step.

### MemoryStore

The other end of the scale: a step is one operation on a shared dictionary, since the
interpreter may switch threads between any two of them and the store takes no lock.
`_refresh[user]` is an object that a thread may hold (`call[t].dict`) while another
detaches it, so dictionaries have identities (`Dicts`), `table` is the one the user's
key refers to, and a dictionary that nothing refers to may be handed out again as a
new one. `add_refresh_session` is `AddLookup` (the `setdefault`, its expiry already
computed) and `AddAssign`; `remove_refresh_session` is `RemoveGet`, `RemovePop`,
`RemoveTest` and `Detach`, after which a rotation goes on to add (`Removed`);
`is_refresh_active` is `ActiveGet` to `ActiveAnswer`, and its scan may raise while
another thread is at work (`ScanRaises`). `revoke_all_refresh` and
`set_access_revoked_at` are one operation each.

Two of the code's `pop(user_id, None)` drop by key what another thread may have just
put there: `Detach` a dictionary with a session in it, `DropMarker` a fresh marker.
What is claimed is therefore split: no overlap revives a session or reports a dead
one, and an entry whose write overlapped no other call (history `alone`, `kept`,
`marked`) is there until its end, whatever overlaps *afterwards*. An entry written
while another call is at work may be lost.

### Projects

`created_at` is a Python default, taken when the INSERT is prepared (`StartCreate`)
and visible when it commits (`CommitCreate`), so rows can appear out of order.
`StartUpdate` reads the row for `require_project_manage`; `CommitUpdate` writes
`is_archived` only if the body names it and it differs from the row read. `Page` is
the query of `list_projects`: the rows of the filter whose `Rank` by `created_at`
lies in the window of OFFSET and LIMIT. The client (`StartWalk`, `GetPage`) asks for
page after page until one is not full, which is how any user of the API must do it;
its parameters include the default filter (`is_archived` false) and none.

### WorkerPool and Pipeline

A step is one stage of a request on a thread, or one turn of the event loop. Every
dependency and handler is a plain function, so FastAPI runs each as a job of its own on
a thread of one pool (AnyIO's limiter: 40, first come first served) and the request gives the
thread back in between (`AskThread`, `GiveBack`); so does the serialisation of an answer.
The stages are those of the routes: the session, the lookup of what the path names
(`LookedUp`, ahead of `get_current_user` where `permissions.py:44-47` declares it so), the
bearer check, the permission, the handler. `/auth/refresh` and `/auth/logout` have no
session and are a stage of their own (`StoreOnly`).
`get_db` opens a session (`OpenSession`), which borrows a connection of SQLAlchemy's
pool (5 and 10 overflow, the defaults `create_engine` is left at) at its first query
(`Checkout`), keeps it between stages, gives it back at a commit and borrows it again for
`db.refresh` (`Commit`). A thread that finds none blocks, up to the pool's 30 seconds
(`PoolTimeout`). The stack that closes the session unwinds before the answer of a request
that failed, and after the answer of one that succeeded (`Unwind`, `Close`).

`add_middleware` puts each middleware outside the earlier ones, so a request meets, from
the outside: the 500 handler, JSON type, body size, headers, request id and metrics, CORS,
SlowAPI, router. `RejectOutside` is hence an answer that nothing has marked or counted;
`Enter` lets the request in to whoever answers further in (a Content-Length that is no
number raises in `limit_body_size`, outside the counter); `RecordBegin`/`RecordEnd` are `add_request_id`
after `call_next`, with `MetricsStore.record` in two halves, as a scrape on a thread
(`SnapshotBegin`/`SnapshotEnd`) may run beside it; `Unhandled` is
`generic_exception_handler`, outside them all. A router 404 uses no thread. The probes
`/health/*` have handlers and so wait for a thread like everybody.

### Registration

A step is a round trip to PostgreSQL. `Query` is the look for the username and the
e-mail hash together with `hash_password`, whose `ValueError` nobody catches (a 500).
`Insert` waits while a row that clashes is in another open transaction (`Blocked`),
raises if one is committed or a name is wider than `String(50)` (no schema limits it),
and leaves an open row otherwise; `Commit` makes it visible, and its answer may be lost
though the row stays. `Abort` is any failure before the commit, PostgreSQL's choice
of a victim when two inserts wait for each other included. The seed script does not look
first and inserts its two accounts in one flush; its project and issue clash with nothing
and appear only as the further places where `Abort` strikes. `hash_pii` is the function `MailHash`,
under which spellings that differ in case are one.

### Replicas

`Boot` is `get_store` at import: one ping decides between Redis and a store in the
process, for the life of the process. `Stop` ends a replica with its memory and the
requests it was serving (`Killed`), `RestartRedis` is a new Redis pod, which is empty.
`keys[p]`, `listed[p]` and `blacklist[p]` are what is kept at place p, Redis or a replica.

A request is served by one replica and is a step for each round trip to that replica's
store, with the names and the order of `AuthFlows`: two refreshes of one token overlap, a
login can add a session between the two round trips of `revoke_all_refresh`, a logout that
failed half way is repeated. `Fail` is a round trip that raises, an outage of Redis for one
replica or for all included. A replica on its own store pops the user's dictionary in one
operation, so `RevokeRead` goes straight to `RevokeMark`.

`raced` and `missed` are history: the tokens that two refreshes found active in one store
before either was done, and the sessions that a logout-all left alive without a place in
the list. Both defects of the code are thus in the model, and the properties say that they
are the only way to lose what is claimed.

## 3. What the runs show

Passing runs:

| Run | Instance | Shows |
|---|---|---|
| `auth_serial` | 1 worker, any round trip may fail; login, refresh, logout-all, change-password; 3 ids, 2 passwords, clock 0..3 | `RevokedStayDead`: nothing that clients held survives an answered logout-all. `SingleSuccessor`: one token, one successor, also when a refresh fails and is repeated. `AccessCutHolds`: access tokens up to the stamp are refused until they expire. `PasswordChangeRevokes`: no session of an old password is alive, unless the change failed between the commit and the revocation and nothing has been answered since (`owed`) |
| `auth_logout` | 2 workers; login, refresh, logout, me; 2 ids, clock 0..2 | `RetiredStaysBlacklisted`: blacklist TTLs are long enough. `RetiredNeverHonoured`: the separate checks of `/refresh` and of the bearer check never let through a token retired before the request began |
| `auth_sessions` | 2 workers, any round trip may fail; login, refresh, logout-all; 3 ids, clock 0..2 | `IndexOutlivesSessions`: the set never expires before a session it lists. `SessionsFollowLifecycle`: `AuthFlows` implements `SessionLifecycle`: a session that is over stays over, a successor lives only after its predecessor |
| `lockout` | 2 workers, either store, limit 2, window 3 | `AttemptsLimited` (Redis); `MemoryLockoutEnds` (in memory, liveness) |
| `issues_overlap` | 2 overlapping PATCHes, a manager and a developer, critical issues | `CountedBeforeClosing`: the comment count is stale, but never too high. `ReassignedByManagerOrReporter`: an assignee's PATCH that names itself does not undo a reassignment made after its read. `OffTableOnlyIfOvertaken`: a status leaves the table only if another commit came between the read and the write |
| `memory_store` | 2 threads, 2 ids, 2 dictionaries, clock 0..1 | `SessionsFollowLifecycle`, `DeadNeverReported`: overlapping threads neither revive a session nor report a dead one. `AddedAloneIsKept`, `MarkerSetAloneIsKept`: only an overlapping call can lose a session or a marker |
| `projects_paged` | 3 projects, 2 writers, pages of one row, with and without the filter, both directions | `WalkMissesNothing`: unless a row left the list meanwhile, every row that was listed at the start is given. `TwiceOnlyIfCutIn`: a row is given twice only if one cut in before another or came back |
| `pipeline` | 3 requests, 2 threads, 1 connection; any stage may be refused or raise | `EveryRequestAnswered` (liveness): no request waits for ever, though every thread may wait for a connection while its holder waits for a thread. `StallNeedsOverload`: that takes as many requests in flight as threads and connections together, so nothing leaks. `CountedAreMarked`: exactly the answers with a request id are counted, no other is half counted. `SnapshotConsistent`: a scrape adds up |
| `registration` | 3 registrations over 3 names (one too long) and 3 spellings of 2 addresses, and the seed script; any round trip may fail | `UniqueAccounts`; `ConflictOnlyIfOvertaken`: the 500 of a UNIQUE column, where the query would have said 400, goes only to a request that another committed past. `SeedAllOrNothing`. `EveryoneAnswered` (liveness): who waits for another's open row is answered |
| `replicas` | 2 replicas, 2 overlapping requests, 2 tokens; crashes, failures at any round trip, a Redis that loses its data; login, refresh, logout, logout-all | `RetiredEverywhere`: what a refresh or a logout retired is exchanged by no replica, whatever store it has. `EndedForGood`: a logout-all answered while no replica kept its own store ends for good what clients held when it began, save a session it missed between its two round trips, which is what `auth_orphan` shows |

Each module's `TypeOK` is checked in one of them.

Runs in which TLC refutes what the repository says of itself (`findings` quotes it):

| Run | Shows |
|---|---|
| `auth_orphan` | A login between the two round trips of `revoke_all_refresh` adds its jti to a set that is then deleted whole. That session still works and no set lists it: the next logout-all answers 204 and it *survives*, though the client held it before |
| `issues_combined` | One body with `priority: critical` and `status: closed` closes an issue that ends critical with no comment: the check reads the priority before the body is applied |

Seven further ones are kept as configurations that anyone can run, and are not
among the listed runs. In five TLC finds what the code does against its word or its purpose:

| Configuration | Shows |
|---|---|
| `AuthDoubleRefresh.cfg` (`MCAuthFlows`, `SingleSuccessor`) | Two overlapping refreshes of one token pass the check before either removes the key: two successors, where `tests/test_auth_refresh_rotation.py:33` says "old refresh now invalid" |
| `LockoutSliding.cfg` (`LoginLockout`, `LockoutEnds`) | With Redis every attempt, refused ones too, renews the window (`token_store.py:134`): attempts that keep coming keep the account locked for ever, where `app/services/auth.py:16` says "Account temporarily locked" |
| `AuthStamps.cfg` (`MCAuthFlows`, `AccessCutHolds`) | `revoke_all_access` reads the clock before it stores the stamp (`app/services/auth.py:106`): of two overlapping logout-alls the older stamp can be stored last. An access token issued in the second of the newer stamp, before its logout-all or after, is then accepted though that logout-all was answered |
| `IssuesStale.cfg` (`MCIssueTracker`, `StatusFollowsTable`) | A PATCH decided on a stale row commits a transition the table forbids, where `issues.py:162` says "Invalid status transition" |
| `PipelineErrors.cfg` (`Pipeline`, `ErrorsCounted`) | An unhandled exception becomes a 500 outside `add_request_id`, so no 500 is ever recorded and `total_errors` of `/metrics` stays 0 whatever fails, though `metrics.py:16-17` and `tests/test_services_utilities.py:62-65` count them |

Two pass:

| Configuration | Shows |
|---|---|
| `ReplicasRefresh.cfg` (`MCReplicas`, `ExchangedOnceUnlessRaced`, `RetiredEverywhere`) | Refreshes alone, with three tokens: a second store, a crash or a repetition never gives a refresh token a second successor; only two refreshes of it that overlap in one store do |
| `AuthLogoutFail.cfg` (`MCAuthFlows`) | The properties of `auth_logout` when any round trip may fail: 3.8 million states, a few minutes |

And three that the models take as they are, without a property of their own: a refresh that
is past its checks when a logout-all begins opens a session that outlives it; a logout-all
served by a replica on one store does not reach sessions on another (`README.md:24` says it
invalidates existing refresh tokens; `EndedForGood` is claimed only while there is one
store), and the rate limiter counts in each process (`README.md:41` says in Redis).

`RevokedStayDead`, `SingleSuccessor`, `PasswordChangeRevokes` and
`AccessCutHolds` are therefore run for one worker, or for operations that do not disturb
them; section 4 names for each the one overlap that breaks it, and proves that it holds
whenever that one is absent. `StatusFollowsTable` holds where nothing overtakes a PATCH,
which is what `OffTableOnlyIfOvertaken` says for all behaviours.

### Bounds, and why they are enough

* *One user* in `AuthFlows`: every key and every guard carries one user id, so
  sessions of different users share nothing but the clock.
* *Workers.* Every race listed in `hazards` is between two requests. Three are left
  out for size.
* *Ids* (`Jtis`): an id is drawn once. Two are a session and its successor or two
  sessions; three add a second generation. `IdLeft` keeps a request from starting
  when no id is left for it, which bounds behaviours and disables nothing within them.
* *Clock*: `MaxTime` reaches the expiry of the first tokens. `AccessTTL` 1 or 2 and
  `RefreshTTL` one more keep the order of the code's 15 minutes and 7 days, so that
  entries expire before, with and after tokens.
* *Lockout*: limit 2 and window 3 let an attempt come in before, at and after the
  limit, and the window expire between a read and a write.
* *Memory store*: two threads are the least that race; two ids and two dictionaries
  give a thread one to hold while another takes its place; a clock that ticks once
  lets entries of lifetime 1 expire inside any method.
* *Projects*: with three rows and pages of one row a walk has pages behind it, at it
  and before it, and both ends of the list; two writers let a row be committed after a
  younger one. `MayCreate` takes as many stamps as there are ids.
* *Issues*: one issue, as no rule relates two; `MaxComments` 1, as the count is
  compared with zero.
* *Pipeline*: two threads and one connection are the least with which a stall needs a
  holder without a thread and more than one blocked thread; three requests are
  threads and connections together, so that the stall is reached (`NoTimeout` shows
  that the timeout is what ends it).
* *Registration*: three requests and the script give two that clash with a third on
  different columns, and chains of waiting; each asks once, which excludes endless
  clashing clients.
* *Replicas*: two is the deployment's number and the least that disagree; two requests are
  the least that race; two tokens are a session and its successor, or two sessions. A crash,
  a failure and a Redis restart may each happen any number of times. Three tokens with all
  four endpoints are beyond a run of minutes; `ReplicasRefresh.cfg` has them for refreshes,
  and the theorems hold for any number.

### Fairness

* `LoginLockout`: weak fairness of `Tick` (time passes) and of each worker's `Work` (a
  thread that serves a request goes on: its steps wait for no other request, and each
  call to Redis ends, if only by its timeout).
* `Pipeline`: weak fairness, per request, of its steps forward and of its answer. The
  event loop runs what is ready, AnyIO hands a free thread to the request that waited
  longest (the queue is in the model, not in the fairness), and a checkout either finds a
  connection or times out after 30 seconds. No failure and no new request is required.
* `Registration`: weak fairness of `Work` of each client: PostgreSQL answers a round trip
  that waits for no other transaction. Failures are not required. An INSERT is one
  step, so that one that waits holds nothing; two that wait for each other with part of
  their rows in (the script's two accounts can) are a deadlock, which PostgreSQL's
  detector ends with an error for one of them, an `Abort` here.

Clients need not do anything, and `Fail` is never required. The other modules make
safety claims only. `CHECK_DEADLOCK` is off only where each request is made once and all
may be done (`pipeline`, `registration`).

### Mutants

Beside the definitions stand mutants ("Mutant of ..."), plausible bugs that no
specification uses: a missing EXPIRE, a DEL that forgets the key, a blacklist TTL of
the wrong token kind, an off-by-one in the limit, a dropped check, a body dumped with
its unset fields. Put in the place of the definition, each makes the run of its
property fail.

## 4. What is proved

For any number of users, ids, workers, passwords, TTLs, limits, issues, comments,
requests, threads, connections, accounts, replicas, tokens, dictionaries, projects and
page sizes; from the assumptions the modules name (an id belongs to one user, TTLs are
positive, `None` is none of the values it stands beside, no JWT is a uuid4, the ids of
projects are finitely many).

| Theorem | Says | Argument |
|---|---|---|
| `AuthFlowsProofs!TypeCorrect` | `[]TypeOK` | Inductive with `GoodReqs`: the fields that a request's step will use are present. `TypeOK` allows `None` in each, and `refreshExp[None]` has no type |
| `AuthFlowsProofs!IndexNeverExpiresEarly` | `[]IndexOutlivesSessions` | `IndexInv` adds that no set expires later than a full TTL from now, so that the EXPIRE of a new session never shortens it |
| `AuthFlowsProofs!ImplementsLifecycle` | `Spec => SessionsFollowLifecycle` | The refinement. `LifeInv` says that an id not drawn has no key, and that the session a refresh is replacing is over from its `RefreshRemove` on: with it each step is a `Login`, a `Replace`, an `End` (a tick may end many sessions) or a stutter |
| `AuthFlowsProofs!RetiredTokensStayBlacklisted` | `[]RetiredStaysBlacklisted` | `EntryInv`: a blacklist entry outlasts its token, as an exp claim is at most a TTL away when the entry is made and never moves afterwards: a token is signed before a client holds it (`MintUnheld`, `MintDistinct`), and only held tokens are presented. `RetireInv`: what a request is about to retire is on the blacklist already, or expired |
| `AuthFlowsProofs!RetiredTokensNeverHonoured` | `RetiredNeverHonoured` | `StaleInv`: a request that began with a retired token is stopped by its blacklist check, or its token has expired |
| `AuthFlowsProofs!RotationIsUnique` | `Spec /\ []RefreshesApart => []SingleSuccessor` | `SuccessorInv`: a token with a successor has no session (`ParentsRemoved`, kept because an id is added once), so no refresh passes the check with it again (`NoSuccessorYet`) |
| `AuthFlowsProofs!RevocationKills` | `Spec /\ []AddsApart => []RevokedStayDead` | `RevokeInv`: every live session is in the set of its user, which by `IndexInv` has not expired, so SMEMBERS returns all of them (`MembersCover`) and the delete covers them (`DeleteCovers`); what clients held is drawn, so it never comes back |
| `AuthFlowsProofs!PasswordChangeIsFinal` | `Spec /\ []RevocationsApart => []PasswordChangeRevokes` | `PasswordInv`: whatever may still lead to a session (a login past the password check, a rotating refresh, a live session) has the user's password, or the user's revocation is owed; between delete and marker the user has no session |
| `AuthFlowsProofs!CutIsFinal` | `Spec /\ []MarksApart => []AccessCutHolds` | `CutInv`: the marker is at the latest answered stamp and outlives every token it covers; a stamp not stored yet is at least that |
| `LoginLockoutProofs!LockoutTypeCorrect` | `[]TypeOK`, for either store | Inductive as it stands |
| `LoginLockoutProofs!RedisLimitsAttempts` | `[]AttemptsLimited` | `AllCounted` adds that within a window no more attempts were let through than are counted |
| `IssueTrackerProofs!IssueTypeCorrect` | `[]TypeOK` | Inductive as it stands; the changed columns of a body are fields of a row |
| `IssueTrackerProofs!CommentCountedBeforeClosing` | `[]CountedBeforeClosing` | Comments are never deleted |
| `IssueTrackerProofs!AssigneeGuarded` | `ReassignedByManagerOrReporter` | The invariant ties a request's row to the table by the reporter, the one column that never changes, and records that a body that changes the assignee passed the check |
| `IssueTrackerProofs!OnlyOvertakenLeavesTable` | `OffTableOnlyIfOvertaken` | A status that is written was allowed from the status read (`ValidTransition`), and an UPDATE that is not overtaken finds the row it read |
| `PipelineProofs!TypeCorrect` | `[]TypeOK`: no more threads and connections are in use than there are | Inductive with `PoolInv`: a thread or a place in the queue belongs to a request at a stage, and to each only once |
| `PipelineProofs!StallTakesOverload` | `[]StallNeedsOverload`, for any numbers of threads and connections | `PoolInv` also says that whoever has a connection is in flight; at a stall the holders are none of those that run, so both sets are counted in full |
| `PipelineProofs!CountIsOfMarked`, `SnapshotsAddUp` | `[]CountedAreMarked`, `[]SnapshotConsistent` | `LockInv` says whose half of an update or a scrape is done and what the counters then differ by; `AnsweredInv` that an answer, once marked, is not given again; the sum over the statuses moves with the lock |
| `RegistrationProofs!TypeCorrect`, `AccountsAreUnique` | `[]TypeOK`, `[]UniqueAccounts` | Open rows clash neither with each other nor with a committed row: an INSERT looks at both and a commit moves a row from one to the other |
| `RegistrationProofs!SeedIsAtomic` | `[]SeedAllOrNothing` | A registration's row is never an admin's, and the script's open rows are all of its rows or none |
| `RegistrationProofs!ConflictsAreOvertakings` | `ConflictOnlyIfOvertaken` | `Looked`: nothing that was in the table when a request looked clashes with the row it is about to insert |
| `ReplicasProofs!TypeCorrect` | `[]TypeOK` | Inductive: every round trip changes the one place its replica uses, and a replica takes its requests and its own store with it |
| `ReplicasProofs!RetirementIsGlobal` | `[]RetiredEverywhere`, for any number of replicas, requests and tokens | Every step adds only fresh ids to any place (`Kept`), so what a request read of a session between two of its round trips can only have become less. `OneHome`: a session is in one place at most. `Refused`: a retired token has a session, if at all, where it is blacklisted, which is what a logout that failed between its two writes leaves |
| `ReplicasProofs!LogoutAllIsForGood` | `[]EndedForGood` | `Indexed`: a session that its user's list lacks was missed by a logout-all. `Left`: what clients held when the logout-all began, and is still there, is among the ids SMEMBERS returned until the pipeline has run, and missed after it |
| `ReplicasProofs!SecondExchangeIsRaced` | `[]ExchangedOnceUnlessRaced` | `Successors`: a token with a successor has no session anywhere, so a refresh that is still to add a second one had found it before, beside the first |
| `MemoryStoreProofs!TypeCorrect` | `[]TypeOK` | `TypeInv` adds which locals a call has at which point (`CallsShaped`), and that the id a call is about to add is drawn, not given to anyone yet, and no other call's (`NewIsOwn`) |
| `MemoryStoreProofs!ImplementsLifecycle` | `Spec => SessionsFollowLifecycle`, for any number of threads | `LiveInv`: whatever lives in the dictionary a user's key refers to was opened, and whatever was opened was given to its client. Every step is then a `LiveMove`: one add opens one id, which was never live before, or nothing new lives. The refinement of `SessionLifecycle` by a store without a lock |
| `MemoryStoreProofs!NeverReportsDead` | `DeadNeverReported` | `DeadStaysDead`: what was over when a call of `is_refresh_active` began is not in the dictionary it took, or there with an expiry that has passed |
| `MemoryStoreProofs!SessionsAddedAloneStay` | `[]AddedAloneIsKept` | `KeptInv`: the entry of a session added alone is in the dictionary the user's key refers to, every thread that holds a dictionary holds that one, none has the id among the expired ones and none is about to detach the dictionary |
| `MemoryStoreProofs!MarkersSetAloneStay` | `[]MarkerSetAloneIsKept` | `MarkerInv`: until its end the marker set alone is there, and a reader about to drop a marker has read this very one, which it drops only once expired |
| `ProjectsProofs!TypeCorrect` | `[]TypeOK` | `TypeInv` adds that an UPDATE has its row and an INSERT has its id to itself |
| `ProjectsProofs!WalksMissNothing` | `[]WalkMissesNothing`, for any page size and number of projects | `StampInv`: no two rows, written or about to be, have one `created_at`. `MissInv`: a row listed at the start whose rank is below the next offset has been given; while no row leaves, ranks only grow (`RanksGrow`). That a page which is not full is the last is `PagesAreFull`: ranks are numbered without gaps, counted with the library's facts about cardinality and a minimal set of predecessors instead of an induction |
| `ProjectsProofs!WalksRepeatNothing` | `[]TwiceOnlyIfCutIn` | `TwiceInv`: every row given that is still listed has a rank below the next offset, and ranks do not grow unless a row cuts in (`RanksDoNotGrow`) |

The overlaps. Four promises of the session endpoints do not hold under every overlap:
`auth_orphan` shows one that breaks `RevokedStayDead`; TLC finds one for each of the
others (`SingleSuccessor`, `PasswordChangeRevokes`, `AccessCutHolds`), within two minutes, when `AuthSerial.cfg` is given a second worker and that one
property. The theorems say which overlap has to be
absent, as a condition on states; everything else may overlap, fail half way, be retried
and expire:

* `RefreshesApart`: no two refreshes of one token are both between `enforce_refresh_active`
  and the second pipeline of `rotate_refresh_session`.
* `AddsApart`: no login or refresh of the user has an id to add while `revoke_all_refresh`
  is between SMEMBERS and its delete.
* `RevocationsApart`: no login of the user is past the password check, and no refresh past
  the session check, from the SMEMBERS to the marker of a revocation. It implies `AddsApart`.
  `PasswordChangeIsFinal` needs all of it: a login that has checked the old password opens a
  session of the old password.
* `MarksApart`: no two revocations of the user have read the clock and not yet stored it.

The condition of a theorem is required of all states, `[]RefreshesApart` and so on, not
built into the model: the invariants are inductive for steps from a state in which it holds.
The code enforces none of the four; a team that adds a lock or a Lua script knows from them
what it has to enclose.

Model-checked only: `MemoryLockoutEnds`, `EveryRequestAnswered` and `EveryoneAnswered`
(temporal reasoning under fairness is outside the prover's reach). `CriticalClosedWithComment`
and `RevokedStayDead` without its condition are refuted by the two runs that expect a
violation. Every other property of a run has its theorem. `ExchangedOnceUnlessRaced` has one, and a
configuration in place of a run.

## 5. Not modelled

* The rate limiter's windows and counters, which are slowapi's; `RateLimit` may refuse
  any request.
* The cipher of PII, password hashing, sanitising, configuration, audit and access logs:
  pure functions of a library, or output that no code reads back. One consequence of the
  thread pool is hence not shown: `user_id_ctx.set` (`app/api/deps.py:50`) runs in the
  context copy of its own thread job, so the handler's log records do not see it.
* Migrations beyond the columns some module names; the load test; nginx.
* Key files: cached for the life of a process; rotation has no code.
* In `Replicas`: the clock and the access tokens, which are `AuthFlows`' with one store (of
  the set's expiry `Replicas` takes over that it outlives the sessions in it,
  `IndexOutlivesSessions`); the single operations within a method of a replica's own store,
  which are `MemoryStore`'s and can at most lose a session (`Expire`). And a Redis that comes
  back with older data, from a dump: then a retired session's key could be back. The
  deployment's has no volume, so it comes back empty or not at all.
* Clocks of replicas and Redis that differ.
* The in-memory blacklist: an entry is set once and goes only when expired; the scan
  for expired ones may raise beside another thread, as `ScanRaises` does, which is a 500.
* Lists sorted by a column with ties or one that changes, and lists without `sort`,
  whose order is the database's own: nothing can be claimed for them.

## 6. Plan

Done, the most important behaviour first: `RedisStore`, `AuthFlows`,
`SessionLifecycle`, `LoginLockout`, `IssueTracker`, `MemoryStore`, `Projects`, `Replicas`,
`Registration`, `WorkerPool` and `Pipeline`, and the theorems above.

Next, in order:

1. The access tokens and the clock in `Replicas`: which cut holds where, after the stamp
   is lost with Redis.
2. A theorem that relates the two stores beyond the lifecycle they share.
