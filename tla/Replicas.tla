------------------------------- MODULE Replicas -------------------------------
(***************************************************************************)
(* Where the sessions live: get_store of app/services/token_store.py and   *)
(* the replicas of infra/k8s/deployment.yaml.  A replica that finds Redis  *)
(* when it starts keeps sessions there for life; one that does not keeps   *)
(* them in memory of its own for life, and passes its health probes.  So   *)
(* replicas with different stores serve the same clients.                  *)
(*                                                                         *)
(* A request is a step for each round trip to the store of its replica, as *)
(* in AuthFlows, and dies with its replica.  Any round trip may raise, the *)
(* first ping of a replica included, for one replica or for all.  One      *)
(* account.  Left out: the access tokens and the clock (AuthFlows), and    *)
(* the single operations of a method of the in-memory store (MemoryStore), *)
(* which can do no more than lose a session.                               *)
(***************************************************************************)
EXTENDS FiniteSets

CONSTANTS
  Replicas,
  Redis,
  Reqs,     \* worker slots: as many requests overlap
  Tokens,   \* the refresh tokens there will ever be, by jti
  Ops,      \* the endpoints the clients of this instance call, beside login
  None

Places == Replicas \cup {Redis}

ASSUME PlacesAssumption == Redis \notin Replicas /\ None \notin Places
ASSUME TokensAssumption == None \notin Tokens
ASSUME OpsAssumption == Ops \subseteq {"refresh", "logout", "logout_all"}

VARIABLES
  uses,       \* replica -> where it keeps sessions (None: it does not run)
  keys,       \* place -> refresh:{user}:{jti}
  listed,     \* place -> refreshset:{user}; in memory the sessions and their
              \* list are one dictionary
  blacklist,  \* place -> blacklist:{refresh token}
  drawn,      \* the ids uuid4 has drawn
  held,       \* the tokens that were sent to clients
  req,        \* the request each worker is serving
  \* History, read by properties only:
  parent,     \* token -> the one whose refresh added its session
  retired,    \* tokens a refresh or a logout answered with success retired
  ended,      \* tokens clients held at the start of a logout-all that was
              \* answered on Redis while no replica kept its own store
  raced,      \* tokens that two overlapping refreshes found active in one store
  missed      \* sessions added between the two round trips of a logout-all

store == <<keys, listed, blacklist>>
tokens == <<drawn, held>>
history == <<parent, retired, ended, raced, missed>>
vars == <<uses, store, tokens, req, history>>

Step == {"idle", "unrevoked", "remove", "add", "mint", "verify", "retire", "drop",
         "delete", "mark"}

Request == [at : Step, on : Replicas \cup {None}, token : Tokens \cup {None},
            new : Tokens \cup {None}, jtis : SUBSET Tokens, existing : SUBSET Tokens]

Idle == [at |-> "idle", on |-> None, token |-> None, new |-> None,
         jtis |-> {}, existing |-> {}]

TypeOK ==
  /\ uses \in [Replicas -> Places \cup {None}]
  /\ \A i \in Replicas : uses[i] \in {i, Redis, None}
  /\ keys \in [Places -> SUBSET Tokens]
  /\ listed \in [Places -> SUBSET Tokens]
  /\ blacklist \in [Places -> SUBSET Tokens]
  /\ \A i \in Replicas : uses[i] # i => keys[i] = {} /\ listed[i] = {} /\ blacklist[i] = {}
  /\ drawn \subseteq Tokens /\ held \subseteq drawn
  /\ req \in [Reqs -> Request]
  /\ \A r \in Reqs : req[r].at # "idle" => req[r].on # None /\ uses[req[r].on] # None
  /\ parent \in [Tokens -> Tokens \cup {None}]
  /\ retired \subseteq Tokens /\ ended \subseteq Tokens
  /\ raced \subseteq Tokens /\ missed \subseteq Tokens

Empty == [p \in Places |-> {}]

Init ==
  /\ uses = [i \in Replicas |-> None]
  /\ keys = Empty /\ listed = Empty /\ blacklist = Empty
  /\ drawn = {} /\ held = {}
  /\ req = [r \in Reqs |-> Idle]
  /\ parent = [t \in Tokens |-> None]
  /\ retired = {} /\ ended = {} /\ raced = {} /\ missed = {}

-----------------------------------------------------------------------------
(* Processes *)

\* Mutant of Boot: get_store is called for each request.
BootPerCall(i) ==
  /\ \E p \in {Redis, i} : uses' = [uses EXCEPT ![i] = p]
  /\ UNCHANGED <<store, tokens, req, history>>

\* get_store, once per process: one ping decides.
Boot(i) ==
  /\ uses[i] = None
  /\ \E p \in {Redis, i} : uses' = [uses EXCEPT ![i] = p]
  /\ UNCHANGED <<store, tokens, req, history>>

\* The requests of replica i go with it.
Killed(i) == req' = [r \in Reqs |-> IF req[r].on = i THEN Idle ELSE req[r]]

Wipe(p) ==
  /\ keys' = [keys EXCEPT ![p] = {}]
  /\ listed' = [listed EXCEPT ![p] = {}]
  /\ blacklist' = [blacklist EXCEPT ![p] = {}]

\* Mutant of Stop: the store is kept on disk.
StopKeeping(i) ==
  /\ uses[i] # None
  /\ uses' = [uses EXCEPT ![i] = None]
  /\ Killed(i)
  /\ UNCHANGED <<store, tokens, history>>

\* A crash, a rollout or a scale-down; memory goes with the process.
Stop(i) ==
  /\ uses[i] # None
  /\ uses' = [uses EXCEPT ![i] = None]
  /\ Killed(i)
  /\ Wipe(i)
  /\ UNCHANGED <<tokens, history>>

\* A new Redis pod: it has no volume.
RestartRedis ==
  /\ Wipe(Redis)
  /\ UNCHANGED <<uses, tokens, req, history>>

-----------------------------------------------------------------------------
(* The store of a replica *)

Runs(i) == uses[i] # None

\* The module variable token_store.store of replica i, which runs.
Store(i) == uses[i]

\* is_refresh_active
Active(i, t) == t \in keys[Store(i)]

AddRefreshSession(i, t) ==
  /\ keys' = [keys EXCEPT ![Store(i)] = @ \cup {t}]
  /\ listed' = [listed EXCEPT ![Store(i)] = @ \cup {t}]
  /\ UNCHANGED blacklist

RemoveRefreshSession(i, t) ==
  /\ keys' = [keys EXCEPT ![Store(i)] = @ \ {t}]
  /\ listed' = [listed EXCEPT ![Store(i)] = @ \ {t}]
  /\ UNCHANGED blacklist

Blacklist(i, t) ==
  /\ blacklist' = [blacklist EXCEPT ![Store(i)] = @ \cup {t}]
  /\ UNCHANGED <<keys, listed>>

\* A session's TTL is over, or threads of a replica's own store lost it.
Expire(p, t) ==
  /\ t \in keys[p]
  /\ keys' = [keys EXCEPT ![p] = @ \ {t}]
  /\ UNCHANGED <<uses, listed, blacklist, tokens, req, history>>

-----------------------------------------------------------------------------
(* Requests *)

At(r, step) == req[r].at = step
Goto(r, step) == req' = [req EXCEPT ![r].at = step]
Answer(r) == req' = [req EXCEPT ![r] = Idle]

\* create_token_pair, the one round trip of a login that concerns sessions.
Login(i, new) ==
  /\ Runs(i)
  /\ new \notin drawn
  /\ AddRefreshSession(i, new)
  /\ drawn' = drawn \cup {new} /\ held' = held \cup {new}
  /\ UNCHANGED <<uses, req, history>>

\* Requests that exchange t and have yet to remove its session.
Exchanging(t) == {r \in Reqs : req[r].at \in {"unrevoked", "remove"} /\ req[r].token = t}

\* enforce_refresh_active; the 401 of a session that is not here changes nothing.
RefreshCheckActive(r, i, t) ==
  /\ "refresh" \in Ops
  /\ req[r] = Idle /\ Runs(i)
  /\ t \in held /\ Active(i, t)
  /\ req' = [req EXCEPT ![r] = [Idle EXCEPT !.at = "unrevoked", !.on = i, !.token = t]]
  /\ raced' = IF \E o \in Exchanging(t) : uses[req[o].on] = uses[i] THEN raced \cup {t} ELSE raced
  /\ UNCHANGED <<uses, store, tokens, parent, retired, ended, missed>>

RefreshCheckBlacklist(r) ==
  /\ At(r, "unrevoked")
  /\ IF req[r].token \in blacklist[Store(req[r].on)] THEN Answer(r) ELSE Goto(r, "remove")
  /\ UNCHANGED <<uses, store, tokens, history>>

\* rotate_refresh_session: two pipelines.
RefreshRemove(r) ==
  /\ At(r, "remove")
  /\ RemoveRefreshSession(req[r].on, req[r].token)
  /\ Goto(r, "add")
  /\ UNCHANGED <<uses, tokens, history>>

RefreshAdd(r) ==
  /\ At(r, "add")
  /\ \E new \in Tokens \ drawn :
       /\ AddRefreshSession(req[r].on, new)
       /\ drawn' = drawn \cup {new}
       /\ parent' = [parent EXCEPT ![new] = req[r].token]
       /\ req' = [req EXCEPT ![r].at = "mint", ![r].new = new]
  /\ UNCHANGED <<uses, held, retired, ended, raced, missed>>

\* blacklist_refresh, and the answer.
RefreshMint(r) ==
  /\ At(r, "mint")
  /\ Blacklist(req[r].on, req[r].token)
  /\ held' = held \cup {req[r].new}
  /\ retired' = retired \cup {req[r].token}
  /\ Answer(r)
  /\ UNCHANGED <<uses, drawn, parent, ended, raced, missed>>

\* is_blacklisted: a token that is has been logged out already, 204.
LogoutCheckBlacklist(r, i, t) ==
  /\ "logout" \in Ops
  /\ req[r] = Idle /\ Runs(i)
  /\ t \in held
  /\ IF t \in blacklist[Store(i)]
       THEN retired' = retired \cup {t} /\ UNCHANGED req
       ELSE /\ req' = [req EXCEPT ![r] = [Idle EXCEPT !.at = "verify", !.on = i, !.token = t]]
            /\ UNCHANGED retired
  /\ UNCHANGED <<uses, store, tokens, parent, ended, raced, missed>>

\* Mutant of LogoutVerify: no enforce_refresh_active.
LogoutUnverified(r) ==
  /\ At(r, "verify")
  /\ Goto(r, "retire")
  /\ UNCHANGED <<uses, store, tokens, history>>

LogoutVerify(r) ==
  /\ At(r, "verify")
  /\ IF Active(req[r].on, req[r].token) THEN Goto(r, "retire") ELSE Answer(r)
  /\ UNCHANGED <<uses, store, tokens, history>>

LogoutBlacklist(r) ==
  /\ At(r, "retire")
  /\ Blacklist(req[r].on, req[r].token)
  /\ Goto(r, "drop")
  /\ UNCHANGED <<uses, tokens, history>>

LogoutRemove(r) ==
  /\ At(r, "drop")
  /\ RemoveRefreshSession(req[r].on, req[r].token)
  /\ retired' = retired \cup {req[r].token}
  /\ Answer(r)
  /\ UNCHANGED <<uses, tokens, parent, ended, raced, missed>>

\* A logout-all or a change of the password, from revoke_all_refresh on: SMEMBERS
\* on Redis; a replica's own store pops the user's dictionary.
RevokeRead(r, i) ==
  /\ "logout_all" \in Ops
  /\ req[r] = Idle /\ Runs(i)
  /\ held # {}
  /\ LET jtis == IF Store(i) = Redis THEN listed[Redis] ELSE {}
     IN  req' = [req EXCEPT ![r] =
                   [Idle EXCEPT !.at = IF jtis = {} THEN "mark" ELSE "delete",
                                !.on = i, !.jtis = jtis, !.existing = held]]
  /\ IF Store(i) = Redis
       THEN UNCHANGED store
       ELSE /\ keys' = [keys EXCEPT ![i] = {}]
            /\ listed' = [listed EXCEPT ![i] = {}]
            /\ UNCHANGED blacklist
  /\ UNCHANGED <<uses, tokens, history>>

\* The pipeline: DEL of the keys SMEMBERS listed, and of the whole set.
RevokeDelete(r) ==
  /\ At(r, "delete")
  /\ LET p == Store(req[r].on)
     IN  /\ keys' = [keys EXCEPT ![p] = @ \ req[r].jtis]
         /\ listed' = [listed EXCEPT ![p] = {}]
         /\ missed' = missed \cup (keys[p] \ req[r].jtis)
  /\ Goto(r, "mark")
  /\ UNCHANGED <<uses, blacklist, tokens, parent, retired, ended, raced>>

\* revoke_all_access, and the answer.
RevokeMark(r) ==
  /\ At(r, "mark")
  /\ ended' = IF \A j \in Replicas : uses[j] \in {Redis, None}
                THEN ended \cup req[r].existing ELSE ended
  /\ Answer(r)
  /\ UNCHANGED <<uses, store, tokens, parent, retired, raced, missed>>

\* A round trip raises: a 500, and nothing is undone.
Fail(r) ==
  /\ req[r] # Idle
  /\ Answer(r)
  /\ UNCHANGED <<uses, store, tokens, history>>

Process(i) == Boot(i) \/ Stop(i)
Refresh(r) == RefreshCheckBlacklist(r) \/ RefreshRemove(r) \/ RefreshAdd(r) \/ RefreshMint(r)
Logout(r) == LogoutVerify(r) \/ LogoutBlacklist(r) \/ LogoutRemove(r)
LogoutAll(r) == RevokeDelete(r) \/ RevokeMark(r)

Next ==
  \/ RestartRedis
  \/ \E i \in Replicas : Process(i) \/ \E t \in Tokens : Login(i, t)
  \/ \E p \in Places, t \in Tokens : Expire(p, t)
  \/ \E r \in Reqs, i \in Replicas :
       RevokeRead(r, i) \/ \E t \in Tokens : RefreshCheckActive(r, i, t) \/ LogoutCheckBlacklist(r, i, t)
  \/ \E r \in Reqs : Refresh(r) \/ Logout(r) \/ LogoutAll(r) \/ Fail(r)

Spec == Init /\ [][Next]_vars

-----------------------------------------------------------------------------
(* Properties *)

\* Would replica i exchange t?
Exchanges(i, t) ==
  Runs(i) /\ t \in held /\ Active(i, t) /\ t \notin blacklist[Store(i)]

\* However many stores there are, whatever was lost with them, failed half way or
\* was repeated, a refresh token gets a second successor only if two refreshes of
\* it overlap in one store, both past enforce_refresh_active.
ExchangedOnceUnlessRaced ==
  \A m, n \in Tokens : parent[m] = parent[n] /\ parent[m] # None => m = n \/ parent[m] \in raced

\* A refresh token that a refresh or a logout has retired is refused by every
\* replica for good, the ones with another store included.
RetiredEverywhere == \A t \in retired, i \in Replicas : ~Exchanges(i, t)

\* A logout-all answered while no replica kept its own store ends every session
\* clients held when it began, for good: no restart, outage or fallback brings one
\* back.  The exception are sessions a logout-all had missed.
EndedForGood == \A t \in ended \ missed, i \in Replicas : ~Exchanges(i, t)

=============================================================================
