------------------------------ MODULE AuthFlows ------------------------------
(***************************************************************************)
(* The session endpoints of app/api/routes/auth.py and the bearer check of *)
(* app/api/deps.py, run by concurrent workers (the threads and replicas    *)
(* that serve requests) over one RedisStore and one users table.           *)
(*                                                                         *)
(* A step of a worker is one round trip to Redis or to the database with   *)
(* the local computation that precedes it, so every order in which the     *)
(* round trips of different requests can interleave is a behaviour.  The   *)
(* exception is the time stamp of logout-all, read a step before it is     *)
(* stored.  An answer ends the request: the worker is idle again.          *)
(*                                                                         *)
(* Left to LoginLockout: the failure counter that authenticate_user bumps. *)
(* It lives under keys of its own and can only refuse a login, which here  *)
(* is the request ending early.                                            *)
(***************************************************************************)
EXTENDS RedisStore, FiniteSets

CONSTANTS
  Reqs,          \* worker slots: as many requests overlap
  Passwords,
  Ops,           \* the endpoints the clients of this instance call
  AccessTTL,     \* settings.access_token_expire_minutes, in seconds
  RefreshTTL,    \* settings.refresh_token_expire_days, in seconds
  StoreMayFail,  \* Redis or the database may fail a request half way
  None

ASSUME OpsAssumption ==
  Ops \subseteq {"login", "refresh", "logout", "logout_all", "change_password", "me"}
ASSUME TTLAssumption == AccessTTL \in Nat \ {0} /\ RefreshTTL \in Nat \ {0}
ASSUME FailAssumption == StoreMayFail \in BOOLEAN
ASSUME NoneAssumption == None \notin Token \cup Users \cup Passwords

VARIABLES
  password,    \* users.password_hash
  drawn,       \* the ids uuid4 has drawn
  refreshExp,  \* the exp claim of the refresh token with id j (0: none signed)
  held,        \* the tokens that were sent to clients
  req,         \* the request each worker is serving
  \* History, read by properties only:
  parent,      \* parent[j]: the token whose refresh added session j
  under,       \* under[j]: the password that opened the login j descends from
  retired,     \* tokens a refresh or a logout answered with success retired
  revoked,     \* refresh tokens clients held when a logout-all or password
               \* change began that has since been answered with success
  cutoff,      \* the latest stamp such a request answered for
  owed         \* users whose password was changed and for whom no logout-all
               \* or password change has been answered with success since

control == <<password, drawn, refreshExp, held, req>>
history == <<parent, under, retired, revoked, cutoff, owed>>
vars == <<storeVars, control, history>>

Step == {"idle", "lookup", "issue", "active", "unrevoked", "remove", "add", "mint",
         "access", "seen", "verify", "blacklist", "drop",
         "bearer", "decode", "marker", "authorised", "revoke", "delete", "mark"}

Request == [op : Ops \cup {"none"}, at : Step, sub : Users \cup {None},
            acc : AccessToken \cup {None}, jti : Jtis \cup {None},
            pw : Passwords \cup {None}, newPw : Passwords \cup {None},
            hash : Passwords \cup {None}, new : Jtis \cup {None},
            jtis : SUBSET Jtis, stamp : Nat, existing : SUBSET Jtis, stale : SUBSET Token]

Idle == [op |-> "none", at |-> "idle", sub |-> None, acc |-> None, jti |-> None,
         pw |-> None, newPw |-> None, hash |-> None, new |-> None,
         jtis |-> {}, stamp |-> 0, existing |-> {}, stale |-> {}]

TypeOK ==
  /\ StoreTypeOK
  /\ password \in [Users -> Passwords]
  /\ drawn \subseteq Jtis
  /\ refreshExp \in [Jtis -> Nat]
  /\ held \subseteq Token
  /\ req \in [Reqs -> Request]
  /\ parent \in [Jtis -> Jtis \cup {None}]
  /\ under \in [Jtis -> Passwords \cup {None}]
  /\ retired \subseteq Token
  /\ revoked \subseteq Jtis
  /\ cutoff \in [Users -> Int]
  /\ owed \subseteq Users

Init ==
  /\ StoreInit
  /\ password \in [Users -> Passwords]
  /\ drawn = {}
  /\ refreshExp = [j \in Jtis |-> 0]
  /\ held = {}
  /\ req = [r \in Reqs |-> Idle]
  /\ parent = [j \in Jtis |-> None]
  /\ under = [j \in Jtis |-> None]
  /\ retired = {}
  /\ revoked = {}
  /\ cutoff = [u \in Users |-> -1]
  /\ owed = {}

-----------------------------------------------------------------------------
(* Helpers *)

At(r, op, step) == req[r].op = op /\ req[r].at = step

Begin(r, request) ==
  /\ req[r] = Idle
  /\ request.op \in Ops
  /\ req' = [req EXCEPT ![r] = request]

Goto(r, step) == req' = [req EXCEPT ![r].at = step]

Answer(r) == req' = [req EXCEPT ![r] = Idle]

\* Ids uuid4 may still draw for u.
Fresh(u) == {j \in Jtis \ drawn : Sub[j] = u}

\* Bound: a request that will draw an id starts only if one is left for it.
IdLeft(u) == Cardinality({r \in Reqs : req[r].op \in {"login", "refresh"}})
               < Cardinality(Fresh(u))

\* create_token(type="access")
Access(u) == [sub |-> u, iat |-> now]

AccessExp(a) == a.iat + AccessTTL

\* Mutant of TokenTTL: the operands of the subtraction swapped.
NegatedTTL(a) == now - AccessExp(a)

\* _token_ttl_seconds
TokenTTL(a) == AccessExp(a) - now

-----------------------------------------------------------------------------
(* POST /auth/login *)

StartLogin(r, u, p) ==
  /\ IdLeft(u)
  /\ Begin(r, [Idle EXCEPT !.op = "login", !.at = "lookup", !.sub = u, !.pw = p])
  /\ UNCHANGED <<storeVars, password, drawn, refreshExp, held, history>>

\* authenticate_user: load the row, compare the password, commit last_login.
LoginAuthenticate(r) ==
  /\ At(r, "login", "lookup")
  /\ IF req[r].pw = password[req[r].sub] THEN Goto(r, "issue") ELSE Answer(r)
  /\ UNCHANGED <<storeVars, password, drawn, refreshExp, held, history>>

\* create_token_pair: sign both tokens, store the session, answer with them.
LoginIssue(r) ==
  /\ At(r, "login", "issue")
  /\ \E j \in Fresh(req[r].sub) :
       /\ drawn' = drawn \cup {j}
       /\ refreshExp' = [refreshExp EXCEPT ![j] = now + RefreshTTL]
       /\ AddRefreshSession(j, RefreshTTL)
       /\ held' = held \cup {j, Access(req[r].sub)}
       /\ under' = [under EXCEPT ![j] = req[r].pw]
  /\ Answer(r)
  /\ UNCHANGED <<password, parent, retired, revoked, cutoff, owed>>

-----------------------------------------------------------------------------
(* POST /auth/refresh *)

\* A token that decode_token refuses is answered 401 at once and changes nothing.
StartRefresh(r, j) ==
  /\ now < refreshExp[j]
  /\ IdLeft(Sub[j])
  /\ Begin(r, [Idle EXCEPT !.op = "refresh", !.at = "active", !.sub = Sub[j],
                           !.jti = j, !.stale = {j} \cap retired])
  /\ UNCHANGED <<storeVars, password, drawn, refreshExp, held, history>>

\* enforce_refresh_active
RefreshCheckActive(r) ==
  /\ At(r, "refresh", "active")
  /\ IF IsRefreshActive(req[r].jti) THEN Goto(r, "unrevoked") ELSE Answer(r)
  /\ UNCHANGED <<storeVars, password, drawn, refreshExp, held, history>>

\* is_blacklisted
RefreshCheckBlacklist(r) ==
  /\ At(r, "refresh", "unrevoked")
  /\ IF Exists(req[r].jti) THEN Answer(r) ELSE Goto(r, "remove")
  /\ UNCHANGED <<storeVars, password, drawn, refreshExp, held, history>>

\* Mutant of RefreshRemove: the old session is left for the blacklist to stop.
RefreshKeep(r) ==
  /\ At(r, "refresh", "remove")
  /\ Goto(r, "add")
  /\ UNCHANGED <<storeVars, password, drawn, refreshExp, held, history>>

\* rotate_refresh_session, first pipeline.
RefreshRemove(r) ==
  /\ At(r, "refresh", "remove")
  /\ RemoveRefreshSession(req[r].jti)
  /\ Goto(r, "add")
  /\ UNCHANGED <<password, drawn, refreshExp, held, history>>

\* rotate_refresh_session, second pipeline.
RefreshAdd(r) ==
  /\ At(r, "refresh", "add")
  /\ \E j \in Fresh(req[r].sub) :
       /\ drawn' = drawn \cup {j}
       /\ AddRefreshSession(j, RefreshTTL)
       /\ parent' = [parent EXCEPT ![j] = req[r].jti]
       /\ under' = [under EXCEPT ![j] = under[req[r].jti]]
       /\ req' = [req EXCEPT ![r].at = "mint", ![r].new = j]
  /\ UNCHANGED <<password, refreshExp, held, retired, revoked, cutoff, owed>>

\* Mutant of BlacklistTTL: the lifetime of the wrong kind of token.
AccessLifetime == AccessTTL

\* The TTL with which a refresh token is blacklisted.
BlacklistTTL == RefreshTTL

\* create_token twice, then blacklist_refresh, then the answer.
RefreshMint(r) ==
  /\ At(r, "refresh", "mint")
  /\ refreshExp' = [refreshExp EXCEPT ![req[r].new] = now + RefreshTTL]
  /\ Add(req[r].jti, BlacklistTTL)
  /\ held' = held \cup {req[r].new, Access(req[r].sub)}
  /\ retired' = retired \cup {req[r].jti}
  /\ Answer(r)
  /\ UNCHANGED <<password, drawn, parent, under, revoked, cutoff, owed>>

-----------------------------------------------------------------------------
(* POST /auth/logout: the body is a refresh token j, or None for any other    *)
(* string; the header an access token a, or None for one decode_token refuses.*)

StartLogout(r, a, j) ==
  /\ Begin(r, [Idle EXCEPT !.op = "logout", !.at = "access", !.acc = a, !.jti = j])
  /\ UNCHANGED <<storeVars, password, drawn, refreshExp, held, history>>

\* blacklist_access, for the seconds the token has left.
LogoutBlacklistAccess(r) ==
  /\ At(r, "logout", "access")
  /\ IF req[r].acc # None /\ now < AccessExp(req[r].acc)
       THEN Add(req[r].acc, TokenTTL(req[r].acc))
       ELSE UNCHANGED storeVars
  /\ Goto(r, "seen")
  /\ UNCHANGED <<password, drawn, refreshExp, held, history>>

\* Success: what the request presented is retired.
Retire(r) == retired' = retired \cup ({req[r].acc, req[r].jti} \cap Token)

\* An already blacklisted token is answered 204 at once; a body that is no refresh
\* token may be an access token that is, the one in the header included.
LogoutCheckBlacklist(r) ==
  /\ At(r, "logout", "seen")
  /\ \/ /\ \E t \in IF req[r].jti # None THEN {req[r].jti} ELSE AccessToken : Exists(t)
        /\ Retire(r)
        /\ Answer(r)
     \/ /\ req[r].jti # None => ~Exists(req[r].jti)
        /\ UNCHANGED retired
        /\ Goto(r, "verify")
  /\ UNCHANGED <<storeVars, password, drawn, refreshExp, held,
                 parent, under, revoked, cutoff, owed>>

\* decode_token and enforce_refresh_active
LogoutVerify(r) ==
  /\ At(r, "logout", "verify")
  /\ IF req[r].jti # None /\ now < refreshExp[req[r].jti] /\ IsRefreshActive(req[r].jti)
       THEN Goto(r, "blacklist")
       ELSE Answer(r)
  /\ UNCHANGED <<storeVars, password, drawn, refreshExp, held, history>>

LogoutBlacklist(r) ==
  /\ At(r, "logout", "blacklist")
  /\ Add(req[r].jti, BlacklistTTL)
  /\ Goto(r, "drop")
  /\ UNCHANGED <<password, drawn, refreshExp, held, history>>

LogoutRemove(r) ==
  /\ At(r, "logout", "drop")
  /\ RemoveRefreshSession(req[r].jti)
  /\ Retire(r)
  /\ Answer(r)
  /\ UNCHANGED <<password, drawn, refreshExp, held, parent, under, revoked, cutoff, owed>>

-----------------------------------------------------------------------------
(* get_current_user, which /me, /logout-all and /change-password depend on.   *)

HeldJtis(u) == {j \in held \cap Jtis : Sub[j] = u}

StartGuarded(r, op, a, p, q) ==
  /\ Begin(r, [Idle EXCEPT !.op = op, !.at = "bearer", !.sub = a.sub, !.acc = a,
                           !.pw = p, !.newPw = q, !.stale = {a} \cap retired,
                           !.existing = IF op = "me" THEN {} ELSE HeldJtis(a.sub)])
  /\ UNCHANGED <<storeVars, password, drawn, refreshExp, held, history>>

\* Mutant of GuardBlacklist: the check is dropped.
GuardUnchecked(r) ==
  /\ req[r].at = "bearer"
  /\ Goto(r, "decode")
  /\ UNCHANGED <<storeVars, password, drawn, refreshExp, held, history>>

\* is_access_blacklisted
GuardBlacklist(r) ==
  /\ req[r].at = "bearer"
  /\ IF Exists(req[r].acc) THEN Answer(r) ELSE Goto(r, "decode")
  /\ UNCHANGED <<storeVars, password, drawn, refreshExp, held, history>>

\* decode_token, then db.get(User): the request keeps the row it read.
GuardDecode(r) ==
  /\ req[r].at = "decode"
  /\ IF now < AccessExp(req[r].acc)
       THEN req' = [req EXCEPT ![r].at = "marker", ![r].hash = password[req[r].sub]]
       ELSE Answer(r)
  /\ UNCHANGED <<storeVars, password, drawn, refreshExp, held, history>>

\* get_access_revoked_at against the iat claim
GuardMarker(r) ==
  /\ req[r].at = "marker"
  /\ IF RevokedSince(req[r].sub, req[r].acc.iat) THEN Answer(r) ELSE Goto(r, "authorised")
  /\ UNCHANGED <<storeVars, password, drawn, refreshExp, held, history>>

\* GET /auth/me, and any other endpoint behind the bearer check.
MeAnswer(r) ==
  /\ At(r, "me", "authorised")
  /\ Answer(r)
  /\ UNCHANGED <<storeVars, password, drawn, refreshExp, held, history>>

-----------------------------------------------------------------------------
(* POST /auth/change-password and POST /auth/logout-all                       *)

\* Compare with the row read during the bearer check; commit the new password.
ChangeCommit(r) ==
  /\ At(r, "change_password", "authorised")
  /\ \/ /\ req[r].pw # req[r].hash
        /\ Answer(r)
        /\ UNCHANGED <<password, owed>>
     \/ /\ req[r].pw = req[r].hash
        /\ password' = [password EXCEPT ![req[r].sub] = req[r].newPw]
        /\ owed' = owed \cup {req[r].sub}
        /\ Goto(r, "revoke")
  /\ UNCHANGED <<storeVars, drawn, refreshExp, held, parent, under, retired, revoked, cutoff>>

\* revoke_all_refresh, SMEMBERS; with no members it returns early and
\* revoke_all_access reads the clock.
RevokeRead(r) ==
  /\ At(r, "logout_all", "authorised") \/ At(r, "change_password", "revoke")
  /\ LET members == Members(req[r].sub)
     IN  IF members = {}
           THEN req' = [req EXCEPT ![r].at = "mark", ![r].stamp = now]
           ELSE req' = [req EXCEPT ![r].at = "delete", ![r].jtis = members]
  /\ UNCHANGED <<storeVars, password, drawn, refreshExp, held, history>>

\* revoke_all_refresh, the pipeline; then revoke_all_access reads the clock.
RevokeDelete(r) ==
  /\ req[r].at = "delete"
  /\ DeleteSessions(req[r].sub, req[r].jtis)
  /\ req' = [req EXCEPT ![r].at = "mark", ![r].stamp = now]
  /\ UNCHANGED <<password, drawn, refreshExp, held, history>>

\* revoke_all_access, SETEX, and the answer.
RevokeMark(r) ==
  /\ req[r].at = "mark"
  /\ SetAccessRevokedAt(req[r].sub, req[r].stamp, AccessTTL)
  /\ revoked' = revoked \cup req[r].existing
  /\ cutoff' = [cutoff EXCEPT ![req[r].sub] = IF req[r].stamp > @ THEN req[r].stamp ELSE @]
  /\ owed' = owed \ {req[r].sub}
  /\ Answer(r)
  /\ UNCHANGED <<password, drawn, refreshExp, held, parent, under, retired>>

-----------------------------------------------------------------------------
\* A round trip raises (a one-second Redis timeout, a lost connection) or the
\* process dies: the generic handler answers 500 and nothing is undone.
Fail(r) ==
  /\ StoreMayFail
  /\ req[r] # Idle
  /\ Answer(r)
  /\ UNCHANGED <<storeVars, password, drawn, refreshExp, held, history>>

ClockTick == Tick /\ UNCHANGED <<control, history>>

\* Requests clients can send: with any password, and with tokens they were given.
StartRequest(r) ==
  \/ \E u \in Users, p \in Passwords : StartLogin(r, u, p)
  \/ \E j \in held \cap Jtis : StartRefresh(r, j)
  \/ \E a \in (held \cap AccessToken) \cup {None}, j \in (held \cap Jtis) \cup {None} :
       StartLogout(r, a, j)
  \/ \E a \in held \cap AccessToken, op \in {"me", "logout_all"} :
       StartGuarded(r, op, a, None, None)
  \/ \E a \in held \cap AccessToken, p, q \in Passwords :
       StartGuarded(r, "change_password", a, p, q)

Login(r)   == LoginAuthenticate(r) \/ LoginIssue(r)
Refresh(r) == \/ RefreshCheckActive(r) \/ RefreshCheckBlacklist(r) \/ RefreshRemove(r)
              \/ RefreshAdd(r) \/ RefreshMint(r)
Logout(r)  == \/ LogoutBlacklistAccess(r) \/ LogoutCheckBlacklist(r) \/ LogoutVerify(r)
              \/ LogoutBlacklist(r) \/ LogoutRemove(r)
Guarded(r) == \/ GuardBlacklist(r) \/ GuardDecode(r) \/ GuardMarker(r) \/ MeAnswer(r)
              \/ ChangeCommit(r) \/ RevokeRead(r) \/ RevokeDelete(r) \/ RevokeMark(r)

Next ==
  \/ ClockTick
  \/ \E r \in Reqs :
       StartRequest(r) \/ Login(r) \/ Refresh(r) \/ Logout(r) \/ Guarded(r) \/ Fail(r)

Spec == Init /\ [][Next]_vars

-----------------------------------------------------------------------------
(* Properties *)

TokenExp(t) == IF t \in Jtis THEN refreshExp[t] ELSE AccessExp(t)

\* A token that a refresh or a logout has answered for stays on the blacklist
\* for as long as decode_token would accept it: the TTLs are long enough,
\* whichever requests overlapped and whichever round trips failed.
RetiredStaysBlacklisted == \A t \in retired : now < TokenExp(t) => Exists(t)

\* Worker r passes the last check of its credential in this step.
Honoured(r) == \/ req[r].at = "unrevoked" /\ req'[r].at = "remove"
               \/ req[r].at = "marker" /\ req'[r].at = "authorised"
Credential(r) == IF req[r].op = "refresh" THEN req[r].jti ELSE req[r].acc

\* A request that began after its token was retired is never let through
\* while the token is unexpired, though the checks of /refresh and of
\* get_current_user are separate round trips.
RetiredNeverHonoured ==
  [][\A r \in Reqs : Honoured(r) /\ req[r].stale # {} => now >= TokenExp(Credential(r))]_vars

\* The set that revoke_all_refresh reads never expires before a session it lists.
IndexOutlivesSessions ==
  \A u \in Users : \A j \in refreshSet[u] : refreshKey[j] <= refreshSetExp[u]

\* Sessions a client held when a logout-all or a password change began are
\* dead once it has been answered (README, Security & Sessions).
RevokedStayDead == \A j \in revoked : ~IsRefreshActive(j)

\* Rotation: one refresh token is exchanged for at most one successor, also
\* when a refresh fails half way and the client retries.
SingleSuccessor ==
  \A i, j \in Jtis : parent[i] # None /\ parent[i] = parent[j] => i = j

\* Once a logout-all or a password change is answered, every unexpired access
\* token issued up to its stamp is refused, until it expires.
AccessCutHolds ==
  \A a \in held \cap AccessToken :
    a.iat <= cutoff[a.sub] /\ now < AccessExp(a) => RevokedSince(a.sub, a.iat)

\* No session opened with a password outlives its change, except while the
\* revocation is owed: until the change, or after a failure a later logout-all
\* or password change, has been answered.
PasswordChangeRevokes ==
  \A j \in drawn :
    IsRefreshActive(j) => under[j] = password[Sub[j]] \/ Sub[j] \in owed

\* What clients may rely on (module SessionLifecycle): a refresh session is
\* opened once, never comes back once it is over, and a session that replaces
\* another lives only after the one it replaces is over.
Phase(j) == IF j \notin drawn THEN "fresh" ELSE IF IsRefreshActive(j) THEN "live" ELSE "over"

Lifecycle == INSTANCE SessionLifecycle
               WITH Sessions <- Jtis, phase <- [j \in Jtis |-> Phase(j)], parent <- parent

\* Sessions keep their lifecycle whatever overlaps, fails or expires.
SessionsFollowLifecycle == Lifecycle!Spec

=============================================================================
