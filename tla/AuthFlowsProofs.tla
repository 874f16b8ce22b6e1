--------------------------- MODULE AuthFlowsProofs ---------------------------
(* Theorems of AuthFlows, for any number of users, ids, workers and ticks. *)
EXTENDS AuthFlows, TLAPS

-----------------------------------------------------------------------------
(* What the commands of RedisStore preserve                                   *)

LEMMA StoreInitTyped == StoreInit => StoreTypeOK
  BY MaxTimeAssumption DEF StoreInit, StoreTypeOK

LEMMA AddTyped ==
  ASSUME StoreTypeOK, NEW t \in Token, NEW ttl \in Nat, Add(t, ttl)
  PROVE  StoreTypeOK'
  BY MaxTimeAssumption DEF StoreTypeOK, Add, Token

LEMMA AddRefreshSessionTyped ==
  ASSUME StoreTypeOK, NEW j \in Jtis, NEW ttl \in Nat, AddRefreshSession(j, ttl)
  PROVE  StoreTypeOK'
<1> DEFINE members == Members(Sub[j])
<1>1. Sub[j] \in Users /\ members \in SUBSET Jtis /\ now + ttl \in Nat
  BY MaxTimeAssumption, SubAssumption DEF StoreTypeOK, Members
<1>2. refreshSet' = [refreshSet EXCEPT ![Sub[j]] = members \cup {j}]
  BY DEF AddRefreshSession
<1> HIDE DEF members
<1>3. QED
  BY <1>1, <1>2 DEF StoreTypeOK, AddRefreshSession

LEMMA RemoveRefreshSessionTyped ==
  ASSUME StoreTypeOK, NEW j \in Jtis, RemoveRefreshSession(j)
  PROVE  StoreTypeOK'
  BY MaxTimeAssumption, SubAssumption DEF StoreTypeOK, RemoveRefreshSession, Members

LEMMA DeleteSessionsTyped ==
  ASSUME StoreTypeOK, NEW u \in Users, NEW jtis \in SUBSET Jtis, DeleteSessions(u, jtis)
  PROVE  StoreTypeOK'
  BY MaxTimeAssumption DEF StoreTypeOK, DeleteSessions

LEMMA SetAccessRevokedAtTyped ==
  ASSUME StoreTypeOK, NEW u \in Users, NEW s \in Nat, NEW ttl \in Nat,
         SetAccessRevokedAt(u, s, ttl)
  PROVE  StoreTypeOK'
  BY MaxTimeAssumption DEF StoreTypeOK, SetAccessRevokedAt

LEMMA TickTyped ==
  ASSUME StoreTypeOK, Tick
  PROVE  StoreTypeOK'
  BY MaxTimeAssumption DEF StoreTypeOK, Tick, Token, AccessToken

LEMMA StoreUnchangedTyped ==
  ASSUME StoreTypeOK, UNCHANGED storeVars
  PROVE  StoreTypeOK'
  BY DEF StoreTypeOK, storeVars

-----------------------------------------------------------------------------
(* Requests.  TypeOK alone is not inductive: a step may rely on a field that  *)
(* an earlier step of the same request has filled in.                         *)

SessionSteps == {"active", "unrevoked", "remove", "add", "mint"}
LogoutSteps  == {"access", "seen", "verify", "blacklist", "drop"}
GuardedSteps == {"bearer", "decode", "marker", "authorised", "revoke", "delete", "mark"}

WellFormed(q) ==
  /\ q.at \in {"lookup", "issue"} => q.op = "login" /\ q.sub \in Users /\ q.pw \in Passwords
  /\ q.at \in SessionSteps => q.op = "refresh" /\ q.jti \in Jtis /\ q.sub = Sub[q.jti]
  /\ q.at = "mint" => q.new \in Jtis
  /\ q.at \in LogoutSteps => q.op = "logout"
  /\ q.at \in {"blacklist", "drop"} => q.jti \in Jtis
  /\ q.at \in GuardedSteps =>
       /\ q.op \in {"me", "logout_all", "change_password"}
       /\ q.sub \in Users /\ q.acc \in AccessToken
       /\ q.op = "change_password" => q.newPw \in Passwords

GoodRequest == {q \in Request : WellFormed(q)}

GoodReqs == req \in [Reqs -> GoodRequest]

TypeInv == TypeOK /\ GoodReqs

LEMMA IdleGood == Idle \in GoodRequest
  BY DEF Idle, GoodRequest, WellFormed, SessionSteps, LogoutSteps, GuardedSteps, Request, Step

LEMMA AnswerGood ==
  ASSUME GoodReqs, NEW r \in Reqs, Answer(r)
  PROVE  GoodReqs'
  BY IdleGood DEF GoodReqs, Answer

LEMMA GotoGood ==
  ASSUME GoodReqs, NEW r \in Reqs, NEW step \in Step, Goto(r, step),
         WellFormed([req[r] EXCEPT !.at = step])
  PROVE  GoodReqs'
<1>1. req[r] \in Request BY DEF GoodReqs, GoodRequest
<1>2. [req[r] EXCEPT !.at = step] \in GoodRequest
  BY <1>1 DEF GoodRequest, Request
<1>3. QED BY <1>2 DEF GoodReqs, Goto

LEMMA BeginGood ==
  ASSUME GoodReqs, NEW r \in Reqs, NEW request \in GoodRequest, Begin(r, request)
  PROVE  GoodReqs'
  BY DEF GoodReqs, Begin

\* What holds of the request of worker r.
LEMMA RequestFacts ==
  ASSUME GoodReqs, NEW r \in Reqs
  PROVE  req[r] \in Request /\ WellFormed(req[r])
  BY DEF GoodReqs, GoodRequest

\* A step that touches nothing but the request it serves.
LEMMA QuietTyped ==
  ASSUME TypeInv, GoodReqs',
         UNCHANGED <<storeVars, password, drawn, refreshExp, held, history>>
  PROVE  TypeInv'
<1>1. StoreTypeOK' BY StoreUnchangedTyped DEF TypeInv, TypeOK
<1>2. req' \in [Reqs -> Request] BY DEF GoodReqs, GoodRequest
<1>3. QED BY <1>1, <1>2 DEF TypeInv, TypeOK, history

LEMMA StartTyped ==
  ASSUME TypeInv, NEW r \in Reqs, StartRequest(r)
  PROVE  TypeInv'
<1>1. GoodReqs BY DEF TypeInv
<1>login. ASSUME NEW u \in Users, NEW p \in Passwords,
                 StartLogin(r, u, p)
          PROVE  TypeInv'
  <2> DEFINE request == [Idle EXCEPT !.op = "login", !.at = "lookup", !.sub = u, !.pw = p]
  <2>1. Begin(r, request) BY <1>login DEF StartLogin
  <2>2. request \in Request
    BY <1>login, <2>1 DEF Begin, Request, Step, Idle
  <2>3. WellFormed(request)
    BY <1>login DEF Idle, WellFormed, SessionSteps, LogoutSteps, GuardedSteps
  <2>4. GoodReqs' BY <1>1, <2>1, <2>2, <2>3, BeginGood DEF GoodRequest
  <2>5. QED BY <1>login, <2>4, QuietTyped DEF StartLogin
<1>refresh. ASSUME NEW j \in Jtis,
                 StartRefresh(r, j)
          PROVE  TypeInv'
  <2> DEFINE request == [Idle EXCEPT !.op = "refresh", !.at = "active", !.sub = Sub[j],
                                     !.jti = j, !.stale = {j} \cap retired]
  <2>1. Begin(r, request) BY <1>refresh DEF StartRefresh
  <2>2. request \in Request
    BY <1>refresh, <2>1, SubAssumption DEF Begin, Request, Step, Idle, Token
  <2>3. WellFormed(request)
    BY <1>refresh, SubAssumption DEF Idle, WellFormed, SessionSteps, LogoutSteps, GuardedSteps
  <2>4. GoodReqs' BY <1>1, <2>1, <2>2, <2>3, BeginGood DEF GoodRequest
  <2>5. QED BY <1>refresh, <2>4, QuietTyped DEF StartRefresh
<1>logout. ASSUME NEW a \in AccessToken \cup {None}, NEW j \in Jtis \cup {None},
                 StartLogout(r, a, j)
          PROVE  TypeInv'
  <2> DEFINE request == [Idle EXCEPT !.op = "logout", !.at = "access", !.acc = a, !.jti = j]
  <2>1. Begin(r, request) BY <1>logout DEF StartLogout
  <2>2. request \in Request
    BY <1>logout, <2>1 DEF Begin, Request, Step, Idle
  <2>3. WellFormed(request)
    BY <1>logout DEF Idle, WellFormed, SessionSteps, LogoutSteps, GuardedSteps
  <2>4. GoodReqs' BY <1>1, <2>1, <2>2, <2>3, BeginGood DEF GoodRequest
  <2>5. QED BY <1>logout, <2>4, QuietTyped DEF StartLogout
<1>2. \A a \in AccessToken : a.sub \in Users /\ HeldJtis(a.sub) \in SUBSET Jtis
  BY DEF AccessToken, HeldJtis
<1>guarded. ASSUME NEW a \in AccessToken, NEW op \in {"me", "logout_all", "change_password"},
                 NEW p \in Passwords \cup {None}, NEW q \in Passwords \cup {None},
                 op = "change_password" => q \in Passwords,
                 StartGuarded(r, op, a, p, q)
          PROVE  TypeInv'
  <2> DEFINE request == [Idle EXCEPT !.op = op, !.at = "bearer", !.sub = a.sub, !.acc = a,
                           !.pw = p, !.newPw = q, !.stale = {a} \cap retired,
                           !.existing = IF op = "me" THEN {} ELSE HeldJtis(a.sub)]
  <2>1. Begin(r, request) BY <1>guarded DEF StartGuarded
  <2>2. request \in Request
    BY <1>guarded, <2>1, <1>2 DEF Begin, Request, Step, Idle, Token
  <2>3. WellFormed(request)
    BY <1>guarded, <1>2 DEF Idle, WellFormed, SessionSteps, LogoutSteps, GuardedSteps
  <2>4. GoodReqs' BY <1>1, <2>1, <2>2, <2>3, BeginGood DEF GoodRequest
  <2>5. QED BY <1>guarded, <2>4, QuietTyped DEF StartGuarded
<1>3. QED
  BY <1>login, <1>refresh, <1>logout, <1>guarded DEF StartRequest

LEMMA LoginTyped ==
  ASSUME TypeInv, NEW r \in Reqs, Login(r)
  PROVE  TypeInv'
<1>1. GoodReqs /\ StoreTypeOK BY DEF TypeInv, TypeOK
<1>2. req[r] \in Request /\ WellFormed(req[r]) BY <1>1, RequestFacts
<1>LoginAuthenticate. ASSUME LoginAuthenticate(r) PROVE TypeInv'
  <2>1. GoodReqs'
    BY <1>LoginAuthenticate, <1>1, <1>2, GotoGood, AnswerGood DEF LoginAuthenticate, At, WellFormed, SessionSteps, LogoutSteps, GuardedSteps, Request, Step
  <2>2. QED BY <1>LoginAuthenticate, <2>1, QuietTyped DEF LoginAuthenticate
<1>LoginIssue. ASSUME LoginIssue(r) PROVE TypeInv'
  <2>1. PICK j \in Fresh(req[r].sub) :
          /\ drawn' = drawn \cup {j}
          /\ refreshExp' = [refreshExp EXCEPT ![j] = now + RefreshTTL]
          /\ AddRefreshSession(j, RefreshTTL)
          /\ held' = held \cup {j, Access(req[r].sub)}
          /\ under' = [under EXCEPT ![j] = req[r].pw]
    BY <1>LoginIssue DEF LoginIssue
  <2>2. j \in Jtis /\ Sub[j] = req[r].sub BY DEF Fresh
  <2>3. now \in 0..MaxTime /\ now + RefreshTTL \in Nat /\ RefreshTTL \in Nat
    BY <1>1, MaxTimeAssumption, TTLAssumption DEF StoreTypeOK
  <2>4. {j, Access(req[r].sub)} \subseteq Token
    BY <2>2, <2>3, SubAssumption DEF Access, Token, AccessToken
  <2>5. req[r].pw \in Passwords \cup {None} BY <1>2 DEF Request
  <2>6. StoreTypeOK' BY <1>1, <2>1, <2>2, <2>3, AddRefreshSessionTyped
  <2>7. GoodReqs' BY <1>LoginIssue, <1>1, AnswerGood DEF LoginIssue
  <2>8. req' \in [Reqs -> Request] BY <2>7 DEF GoodReqs, GoodRequest
  <2>9. QED
    BY <1>LoginIssue, <2>1, <2>2, <2>3, <2>4, <2>5, <2>6, <2>7, <2>8
       DEF LoginIssue, TypeInv, TypeOK
<1>3. QED BY <1>LoginAuthenticate, <1>LoginIssue DEF Login

LEMMA RefreshTyped ==
  ASSUME TypeInv, NEW r \in Reqs, Refresh(r)
  PROVE  TypeInv'
<1>1. GoodReqs /\ StoreTypeOK BY DEF TypeInv, TypeOK
<1>2. req[r] \in Request /\ WellFormed(req[r]) BY <1>1, RequestFacts
<1>3. now + RefreshTTL \in Nat /\ RefreshTTL \in Nat /\ now \in 0..MaxTime
  BY <1>1, MaxTimeAssumption, TTLAssumption DEF StoreTypeOK
<1>RefreshCheckActive. ASSUME RefreshCheckActive(r) PROVE TypeInv'
  <2>1. GoodReqs'
    BY <1>RefreshCheckActive, <1>1, <1>2, GotoGood, AnswerGood DEF RefreshCheckActive, At, WellFormed, SessionSteps, LogoutSteps, GuardedSteps, Request, Step
  <2>2. QED BY <1>RefreshCheckActive, <2>1, QuietTyped DEF RefreshCheckActive
<1>RefreshCheckBlacklist. ASSUME RefreshCheckBlacklist(r) PROVE TypeInv'
  <2>1. GoodReqs'
    BY <1>RefreshCheckBlacklist, <1>1, <1>2, GotoGood, AnswerGood DEF RefreshCheckBlacklist, At, WellFormed, SessionSteps, LogoutSteps, GuardedSteps, Request, Step
  <2>2. QED BY <1>RefreshCheckBlacklist, <2>1, QuietTyped DEF RefreshCheckBlacklist
<1>RefreshRemove. ASSUME RefreshRemove(r) PROVE TypeInv'
  <2>1. req[r].jti \in Jtis BY <1>RefreshRemove, <1>2 DEF RefreshRemove, At, WellFormed, SessionSteps
  <2>2. StoreTypeOK' BY <1>1, <1>RefreshRemove, <2>1, RemoveRefreshSessionTyped DEF RefreshRemove
  <2>3. GoodReqs' BY <1>1, <1>2, <1>RefreshRemove, GotoGood DEF RefreshRemove, At, WellFormed, SessionSteps, LogoutSteps, GuardedSteps, Request, Step
  <2>4. req' \in [Reqs -> Request] BY <2>3 DEF GoodReqs, GoodRequest
  <2>5. QED BY <1>RefreshRemove, <2>2, <2>3, <2>4 DEF RefreshRemove, TypeInv, TypeOK, history
<1>RefreshAdd. ASSUME RefreshAdd(r) PROVE TypeInv'
  <2>1. PICK j \in Fresh(req[r].sub) :
          /\ drawn' = drawn \cup {j}
          /\ AddRefreshSession(j, RefreshTTL)
          /\ parent' = [parent EXCEPT ![j] = req[r].jti]
          /\ under' = [under EXCEPT ![j] = under[req[r].jti]]
          /\ req' = [req EXCEPT ![r].at = "mint", ![r].new = j]
    BY <1>RefreshAdd DEF RefreshAdd
  <2>2. j \in Jtis BY DEF Fresh
  <2>3. req[r].jti \in Jtis BY <1>RefreshAdd, <1>2 DEF RefreshAdd, At, WellFormed, SessionSteps
  <2>4. StoreTypeOK' BY <1>1, <1>3, <2>1, <2>2, AddRefreshSessionTyped
  <2>5. [req[r] EXCEPT !.at = "mint", !.new = j] \in GoodRequest
    BY <1>RefreshAdd, <1>2, <2>2, <2>3
       DEF RefreshAdd, At, GoodRequest, WellFormed, SessionSteps, LogoutSteps, GuardedSteps, Request, Step
  <2>6. GoodReqs' BY <1>1, <2>1, <2>5 DEF GoodReqs
  <2>7. req' \in [Reqs -> Request] BY <2>6 DEF GoodReqs, GoodRequest
  <2>8. QED
    BY <1>RefreshAdd, <2>1, <2>2, <2>3, <2>4, <2>6, <2>7 DEF RefreshAdd, TypeInv, TypeOK
<1>RefreshMint. ASSUME RefreshMint(r) PROVE TypeInv'
  <2>1. req[r].jti \in Jtis /\ req[r].new \in Jtis /\ req[r].sub \in Users
    BY <1>RefreshMint, <1>2, SubAssumption DEF RefreshMint, At, WellFormed, SessionSteps
  <2>2. StoreTypeOK' BY <1>1, <1>3, <1>RefreshMint, <2>1, AddTyped DEF RefreshMint, BlacklistTTL, Token
  <2>3. GoodReqs' BY <1>RefreshMint, <1>1, AnswerGood DEF RefreshMint
  <2>4. req' \in [Reqs -> Request] BY <2>3 DEF GoodReqs, GoodRequest
  <2>5. {req[r].new, Access(req[r].sub), req[r].jti} \subseteq Token
    BY <2>1, <1>3 DEF Access, Token, AccessToken
  <2>6. QED
    BY <1>RefreshMint, <1>3, <2>1, <2>2, <2>3, <2>4, <2>5 DEF RefreshMint, TypeInv, TypeOK
<1>4. QED
  BY <1>RefreshCheckActive, <1>RefreshCheckBlacklist, <1>RefreshRemove, <1>RefreshAdd,
     <1>RefreshMint DEF Refresh

LEMMA LogoutTyped ==
  ASSUME TypeInv, NEW r \in Reqs, Logout(r)
  PROVE  TypeInv'
<1>1. GoodReqs /\ StoreTypeOK BY DEF TypeInv, TypeOK
<1>2. req[r] \in Request /\ WellFormed(req[r]) BY <1>1, RequestFacts
<1>3. RefreshTTL \in Nat /\ now \in Int /\ AccessTTL \in Nat
  BY <1>1, MaxTimeAssumption, TTLAssumption DEF StoreTypeOK
<1>LogoutBlacklistAccess. ASSUME LogoutBlacklistAccess(r) PROVE TypeInv'
  <2>1. StoreTypeOK'
    <3>1. CASE req[r].acc # None /\ now < AccessExp(req[r].acc)
      <4>1. req[r].acc \in AccessToken BY <1>2, <3>1 DEF Request
      <4>2. TokenTTL(req[r].acc) \in Nat
        BY <1>3, <3>1, <4>1, MaxTimeAssumption DEF TokenTTL, AccessExp, AccessToken
      <4>3. Add(req[r].acc, TokenTTL(req[r].acc))
        BY <1>LogoutBlacklistAccess, <3>1 DEF LogoutBlacklistAccess
      <4>4. QED BY <1>1, <4>1, <4>2, <4>3, AddTyped DEF Token
    <3>2. CASE ~(req[r].acc # None /\ now < AccessExp(req[r].acc))
      BY <1>1, <1>LogoutBlacklistAccess, <3>2, StoreUnchangedTyped DEF LogoutBlacklistAccess
    <3>3. QED BY <3>1, <3>2
  <2>2. GoodReqs' BY <1>1, <1>2, <1>LogoutBlacklistAccess, GotoGood
    DEF LogoutBlacklistAccess, At, WellFormed, SessionSteps, LogoutSteps, GuardedSteps, Request, Step
  <2>3. req' \in [Reqs -> Request] BY <2>2 DEF GoodReqs, GoodRequest
  <2>4. QED
    BY <1>LogoutBlacklistAccess, <2>1, <2>2, <2>3
       DEF LogoutBlacklistAccess, TypeInv, TypeOK, history
<1>LogoutCheckBlacklist. ASSUME LogoutCheckBlacklist(r) PROVE TypeInv'
  <2>1. StoreTypeOK' BY <1>1, <1>LogoutCheckBlacklist, StoreUnchangedTyped DEF LogoutCheckBlacklist
  <2>2. GoodReqs' BY <1>1, <1>2, <1>LogoutCheckBlacklist, GotoGood, AnswerGood
    DEF LogoutCheckBlacklist, At, WellFormed, SessionSteps, LogoutSteps, GuardedSteps, Request, Step
  <2>3. req' \in [Reqs -> Request] BY <2>2 DEF GoodReqs, GoodRequest
  <2>4. QED
    BY <1>LogoutCheckBlacklist, <2>1, <2>2, <2>3
       DEF LogoutCheckBlacklist, Retire, TypeInv, TypeOK
<1>LogoutVerify. ASSUME LogoutVerify(r) PROVE TypeInv'
  <2>1. GoodReqs'
    BY <1>LogoutVerify, <1>1, <1>2, GotoGood, AnswerGood DEF LogoutVerify, At, WellFormed, SessionSteps, LogoutSteps, GuardedSteps, Request, Step
  <2>2. QED BY <1>LogoutVerify, <2>1, QuietTyped DEF LogoutVerify
<1>LogoutBlacklist. ASSUME LogoutBlacklist(r) PROVE TypeInv'
  <2>1. req[r].jti \in Jtis BY <1>LogoutBlacklist, <1>2 DEF LogoutBlacklist, At, WellFormed
  <2>2. StoreTypeOK' BY <1>1, <1>3, <1>LogoutBlacklist, <2>1, AddTyped DEF LogoutBlacklist, BlacklistTTL, Token
  <2>3. GoodReqs' BY <1>1, <1>2, <1>LogoutBlacklist, GotoGood DEF LogoutBlacklist, At, WellFormed, SessionSteps, LogoutSteps, GuardedSteps, Request, Step
  <2>4. req' \in [Reqs -> Request] BY <2>3 DEF GoodReqs, GoodRequest
  <2>5. QED BY <1>LogoutBlacklist, <2>2, <2>3, <2>4 DEF LogoutBlacklist, TypeInv, TypeOK, history
<1>LogoutRemove. ASSUME LogoutRemove(r) PROVE TypeInv'
  <2>1. req[r].jti \in Jtis BY <1>LogoutRemove, <1>2 DEF LogoutRemove, At, WellFormed
  <2>2. StoreTypeOK' BY <1>1, <1>LogoutRemove, <2>1, RemoveRefreshSessionTyped DEF LogoutRemove
  <2>3. GoodReqs' BY <1>1, <1>LogoutRemove, AnswerGood DEF LogoutRemove
  <2>4. req' \in [Reqs -> Request] BY <2>3 DEF GoodReqs, GoodRequest
  <2>5. QED BY <1>LogoutRemove, <2>2, <2>3, <2>4 DEF LogoutRemove, Retire, TypeInv, TypeOK
<1>4. QED
  BY <1>LogoutBlacklistAccess, <1>LogoutCheckBlacklist, <1>LogoutVerify, <1>LogoutBlacklist,
     <1>LogoutRemove DEF Logout

LEMMA MarkGood ==
  ASSUME NEW q \in Request, WellFormed(q), q.at \in GuardedSteps, NEW n \in Nat
  PROVE  [q EXCEPT !.at = "mark", !.stamp = n] \in GoodRequest
<1> DEFINE marked == [q EXCEPT !.at = "mark", !.stamp = n]
<1>1. marked \in Request BY DEF Request, Step
<1>2. /\ marked.at = "mark" /\ marked.op = q.op /\ marked.sub = q.sub
      /\ marked.acc = q.acc /\ marked.newPw = q.newPw
  BY DEF Request
<1>3. QED BY <1>1, <1>2 DEF GoodRequest, WellFormed, SessionSteps, LogoutSteps, GuardedSteps

LEMMA GuardedTyped ==
  ASSUME TypeInv, NEW r \in Reqs, Guarded(r)
  PROVE  TypeInv'
<1>1. GoodReqs /\ StoreTypeOK BY DEF TypeInv, TypeOK
<1>2. req[r] \in Request /\ WellFormed(req[r]) BY <1>1, RequestFacts
<1>3. AccessTTL \in Nat /\ now \in Nat
  BY <1>1, MaxTimeAssumption, TTLAssumption DEF StoreTypeOK
<1>4. password \in [Users -> Passwords] BY DEF TypeInv, TypeOK
<1>GuardBlacklist. ASSUME GuardBlacklist(r) PROVE TypeInv'
  <2>1. GoodReqs'
    BY <1>GuardBlacklist, <1>1, <1>2, GotoGood, AnswerGood DEF GuardBlacklist, WellFormed, SessionSteps, LogoutSteps, GuardedSteps, Request, Step
  <2>2. QED BY <1>GuardBlacklist, <2>1, QuietTyped DEF GuardBlacklist
<1>GuardDecode. ASSUME GuardDecode(r) PROVE TypeInv'
  <2>1. [req[r] EXCEPT !.at = "marker", !.hash = password[req[r].sub]] \in GoodRequest
    BY <1>GuardDecode, <1>2, <1>4 DEF GuardDecode, GoodRequest, WellFormed, SessionSteps, LogoutSteps, GuardedSteps, Request, Step
  <2>2. GoodReqs' BY <1>1, <1>GuardDecode, <2>1, AnswerGood DEF GuardDecode, GoodReqs
  <2>3. QED BY <1>GuardDecode, <2>2, QuietTyped DEF GuardDecode
<1>GuardMarker. ASSUME GuardMarker(r) PROVE TypeInv'
  <2>1. GoodReqs'
    BY <1>GuardMarker, <1>1, <1>2, GotoGood, AnswerGood DEF GuardMarker, WellFormed, SessionSteps, LogoutSteps, GuardedSteps, Request, Step
  <2>2. QED BY <1>GuardMarker, <2>1, QuietTyped DEF GuardMarker
<1>MeAnswer. ASSUME MeAnswer(r) PROVE TypeInv'
  <2>1. GoodReqs'
    BY <1>MeAnswer, <1>1, <1>2, GotoGood, AnswerGood DEF MeAnswer, At, WellFormed, SessionSteps, LogoutSteps, GuardedSteps, Request, Step
  <2>2. QED BY <1>MeAnswer, <2>1, QuietTyped DEF MeAnswer
<1>ChangeCommit. ASSUME ChangeCommit(r) PROVE TypeInv'
  <2>1. StoreTypeOK' BY <1>1, <1>ChangeCommit, StoreUnchangedTyped DEF ChangeCommit
  <2>2. GoodReqs' BY <1>1, <1>2, <1>ChangeCommit, GotoGood, AnswerGood DEF ChangeCommit, At, WellFormed, SessionSteps, LogoutSteps, GuardedSteps, Request, Step
  <2>3. req' \in [Reqs -> Request] BY <2>2 DEF GoodReqs, GoodRequest
  <2>4. password' \in [Users -> Passwords]
    BY <1>2, <1>4, <1>ChangeCommit DEF ChangeCommit, At, WellFormed, GuardedSteps
  <2>5. owed' \subseteq Users
    <3>1. req[r].sub \in Users BY <1>2, <1>ChangeCommit DEF ChangeCommit, At, WellFormed, GuardedSteps
    <3>2. owed \subseteq Users BY DEF TypeInv, TypeOK
    <3>3. QED BY <3>1, <3>2, <1>ChangeCommit DEF ChangeCommit
  <2>6. QED BY <1>ChangeCommit, <2>1, <2>2, <2>3, <2>4, <2>5 DEF ChangeCommit, TypeInv, TypeOK
<1>RevokeRead. ASSUME RevokeRead(r) PROVE TypeInv'
  <2> DEFINE members == Members(req[r].sub)
  <2>1. req[r].at \in GuardedSteps /\ req[r].sub \in Users
    BY <1>2, <1>RevokeRead DEF RevokeRead, At, WellFormed, GuardedSteps
  <2>2. members \in SUBSET Jtis BY <1>1, <2>1 DEF Members, StoreTypeOK
  <2>3. [req[r] EXCEPT !.at = "mark", !.stamp = now] \in GoodRequest
    BY <1>2, <1>3, <2>1, MarkGood
  <2>4. [req[r] EXCEPT !.at = "delete", !.jtis = members] \in GoodRequest
    BY <1>2, <2>1, <2>2 DEF GoodRequest, WellFormed, SessionSteps, LogoutSteps, GuardedSteps, Request, Step
  <2>5. GoodReqs' BY <1>1, <1>RevokeRead, <2>3, <2>4 DEF RevokeRead, GoodReqs
  <2>6. QED BY <1>RevokeRead, <2>5, QuietTyped DEF RevokeRead
<1>RevokeDelete. ASSUME RevokeDelete(r) PROVE TypeInv'
  <2>1. req[r].at \in GuardedSteps /\ req[r].sub \in Users /\ req[r].jtis \in SUBSET Jtis
    BY <1>2, <1>RevokeDelete DEF RevokeDelete, WellFormed, GuardedSteps, Request
  <2>2. StoreTypeOK' BY <1>1, <1>RevokeDelete, <2>1, DeleteSessionsTyped DEF RevokeDelete
  <2>3. [req[r] EXCEPT !.at = "mark", !.stamp = now] \in GoodRequest
    BY <1>2, <1>3, <2>1, MarkGood
  <2>4. GoodReqs' BY <1>1, <1>RevokeDelete, <2>3 DEF RevokeDelete, GoodReqs
  <2>5. req' \in [Reqs -> Request] BY <2>4 DEF GoodReqs, GoodRequest
  <2>6. QED BY <1>RevokeDelete, <2>2, <2>4, <2>5 DEF RevokeDelete, TypeInv, TypeOK, history
<1>RevokeMark. ASSUME RevokeMark(r) PROVE TypeInv'
  <2>1. /\ req[r].sub \in Users /\ req[r].stamp \in Nat /\ req[r].existing \in SUBSET Jtis
    BY <1>2, <1>RevokeMark DEF RevokeMark, WellFormed, GuardedSteps, Request
  <2>2. StoreTypeOK' BY <1>1, <1>3, <1>RevokeMark, <2>1, SetAccessRevokedAtTyped DEF RevokeMark
  <2>3. GoodReqs' BY <1>1, <1>RevokeMark, AnswerGood DEF RevokeMark
  <2>4. req' \in [Reqs -> Request] BY <2>3 DEF GoodReqs, GoodRequest
  <2>5. QED BY <1>RevokeMark, <2>1, <2>2, <2>3, <2>4 DEF RevokeMark, TypeInv, TypeOK
<1>5. QED
  BY <1>GuardBlacklist, <1>GuardDecode, <1>GuardMarker, <1>MeAnswer, <1>ChangeCommit,
     <1>RevokeRead, <1>RevokeDelete, <1>RevokeMark DEF Guarded

LEMMA TypeInvInductive == TypeInv /\ [Next]_vars => TypeInv'
<1> SUFFICES ASSUME TypeInv, [Next]_vars PROVE TypeInv'
  OBVIOUS
<1>1. GoodReqs BY DEF TypeInv
<1>2. CASE ClockTick
  <2>1. StoreTypeOK' BY <1>2, TickTyped DEF ClockTick, TypeInv, TypeOK
  <2>2. QED BY <1>2, <2>1 DEF ClockTick, control, history, TypeInv, TypeOK, GoodReqs
<1>3. ASSUME NEW r \in Reqs, Fail(r) PROVE TypeInv'
  <2>1. GoodReqs' BY <1>1, <1>3, AnswerGood DEF Fail
  <2>2. QED BY <1>3, <2>1, QuietTyped DEF Fail
<1>4. CASE UNCHANGED vars
  <2>1. GoodReqs' BY <1>1, <1>4 DEF vars, control, GoodReqs
  <2>2. QED BY <1>4, <2>1, QuietTyped DEF vars, control
<1>5. QED
  BY <1>2, <1>3, <1>4, StartTyped, LoginTyped, RefreshTyped, LogoutTyped, GuardedTyped DEF Next

LEMMA TypeInvInitially == Init => TypeInv
<1> SUFFICES ASSUME Init PROVE TypeInv
  OBVIOUS
<1>1. GoodReqs BY IdleGood DEF Init, GoodReqs
<1>2. req \in [Reqs -> Request] BY <1>1 DEF GoodReqs, GoodRequest
<1>3. StoreTypeOK BY StoreInitTyped DEF Init
<1>4. QED BY <1>1, <1>2, <1>3 DEF Init, TypeInv, TypeOK

LEMMA TypeInvAlways == Spec => []TypeInv
  BY TypeInvInitially, TypeInvInductive, PTL DEF Spec

\* Every variable keeps its type: in particular no key is ever given a negative
\* TTL, no endpoint uses a claim its token does not carry, and no request
\* reaches a step with a field that an earlier step should have filled unset.
THEOREM TypeCorrect == Spec => []TypeOK
<1>1. TypeInv => TypeOK BY DEF TypeInv
<1>2. QED BY <1>1, TypeInvAlways, PTL

-----------------------------------------------------------------------------
(* The index of a user's sessions outlives them.  An older key could outlive  *)
(* a set that a newer session has renewed, were the TTL not the same for all: *)
(* hence the bound on every key, and the owner of every entry.                *)

KeysBounded == \A j \in Jtis : refreshKey[j] <= now + RefreshTTL
SetsOwned == \A u \in Users : \A j \in refreshSet[u] : Sub[j] = u
IndexInv == KeysBounded /\ SetsOwned /\ IndexOutlivesSessions

sessionKeys == <<refreshKey, refreshSet, refreshSetExp>>

\* All that a step can do to the session keys.
SessionMove ==
  \/ \E j \in Jtis \ drawn : AddRefreshSession(j, RefreshTTL) /\ drawn' = drawn \cup {j}
  \/ \E j \in Jtis : RemoveRefreshSession(j) /\ UNCHANGED drawn
  \/ \E u \in Users, jtis \in SUBSET Jtis : DeleteSessions(u, jtis) /\ UNCHANGED drawn
  \/ now' \in Nat /\ now <= now' /\ UNCHANGED <<sessionKeys, drawn>>

LEMMA StepIsSessionMove ==
  ASSUME TypeInv, [Next]_vars
  PROVE  SessionMove
<1>1. GoodReqs /\ now \in Nat
  BY MaxTimeAssumption DEF TypeInv, TypeOK, StoreTypeOK
<1>2. ASSUME UNCHANGED <<storeVars, drawn>> PROVE SessionMove
  BY <1>1, <1>2 DEF SessionMove, storeVars, sessionKeys
<1>3. ASSUME NEW t, NEW ttl, Add(t, ttl), UNCHANGED drawn PROVE SessionMove
  BY <1>1, <1>3 DEF SessionMove, Add, sessionKeys
<1>tick. CASE ClockTick
  BY <1>1, <1>tick DEF SessionMove, ClockTick, Tick, control, sessionKeys
<1>start. ASSUME NEW r \in Reqs, StartRequest(r) PROVE SessionMove
  BY <1>2, <1>start DEF StartRequest, StartLogin, StartRefresh, StartLogout, StartGuarded
<1>fail. ASSUME NEW r \in Reqs, Fail(r) PROVE SessionMove
  BY <1>2, <1>fail DEF Fail
<1>login. ASSUME NEW r \in Reqs, Login(r) PROVE SessionMove
  <2>1. CASE LoginAuthenticate(r) BY <1>2, <2>1 DEF LoginAuthenticate
  <2>2. CASE LoginIssue(r) BY <2>2 DEF LoginIssue, Fresh, SessionMove
  <2>3. QED BY <1>login, <2>1, <2>2 DEF Login
<1>refresh. ASSUME NEW r \in Reqs, Refresh(r) PROVE SessionMove
  <2>1. CASE RefreshCheckActive(r) BY <1>2, <2>1 DEF RefreshCheckActive
  <2>2. CASE RefreshCheckBlacklist(r) BY <1>2, <2>2 DEF RefreshCheckBlacklist
  <2>3. CASE RefreshRemove(r)
    BY <1>1, <2>3, RequestFacts
       DEF RefreshRemove, At, WellFormed, SessionSteps, SessionMove
  <2>4. CASE RefreshAdd(r) BY <2>4 DEF RefreshAdd, Fresh, SessionMove
  <2>5. CASE RefreshMint(r) BY <1>3, <2>5 DEF RefreshMint
  <2>6. QED BY <1>refresh, <2>1, <2>2, <2>3, <2>4, <2>5 DEF Refresh
<1>logout. ASSUME NEW r \in Reqs, Logout(r) PROVE SessionMove
  <2>1. CASE LogoutBlacklistAccess(r) BY <1>2, <1>3, <2>1 DEF LogoutBlacklistAccess
  <2>2. CASE LogoutCheckBlacklist(r) BY <1>2, <2>2 DEF LogoutCheckBlacklist
  <2>3. CASE LogoutVerify(r) BY <1>2, <2>3 DEF LogoutVerify
  <2>4. CASE LogoutBlacklist(r) BY <1>3, <2>4 DEF LogoutBlacklist
  <2>5. CASE LogoutRemove(r)
    BY <1>1, <2>5, RequestFacts DEF LogoutRemove, At, WellFormed, SessionMove
  <2>6. QED BY <1>logout, <2>1, <2>2, <2>3, <2>4, <2>5 DEF Logout
<1>guarded. ASSUME NEW r \in Reqs, Guarded(r) PROVE SessionMove
  <2>1. CASE GuardBlacklist(r) BY <1>2, <2>1 DEF GuardBlacklist
  <2>2. CASE GuardDecode(r) BY <1>2, <2>2 DEF GuardDecode
  <2>3. CASE GuardMarker(r) BY <1>2, <2>3 DEF GuardMarker
  <2>4. CASE MeAnswer(r) BY <1>2, <2>4 DEF MeAnswer
  <2>5. CASE ChangeCommit(r) BY <1>2, <2>5 DEF ChangeCommit
  <2>6. CASE RevokeRead(r) BY <1>2, <2>6 DEF RevokeRead
  <2>7. CASE RevokeDelete(r)
    BY <1>1, <2>7, RequestFacts
       DEF RevokeDelete, WellFormed, GuardedSteps, Request, SessionMove
  <2>8. CASE RevokeMark(r)
    BY <1>1, <2>8 DEF RevokeMark, SetAccessRevokedAt, SessionMove, sessionKeys
  <2>9. QED BY <1>guarded, <2>1, <2>2, <2>3, <2>4, <2>5, <2>6, <2>7, <2>8 DEF Guarded
<1>stutter. CASE UNCHANGED vars BY <1>2, <1>stutter DEF vars, control
<1>4. QED
  BY <1>tick, <1>start, <1>fail, <1>login, <1>refresh, <1>logout, <1>guarded, <1>stutter
     DEF Next

LEMMA IndexInvInductive ==
  ASSUME TypeInv, IndexInv, [Next]_vars
  PROVE  IndexInv'
<1>1. /\ now \in Nat /\ RefreshTTL \in Nat
      /\ refreshKey \in [Jtis -> Nat] /\ refreshSet \in [Users -> SUBSET Jtis]
      /\ refreshSetExp \in [Users -> Nat]
  BY MaxTimeAssumption, TTLAssumption DEF TypeInv, TypeOK, StoreTypeOK
<1>2. ASSUME NEW j \in Jtis, AddRefreshSession(j, RefreshTTL) PROVE IndexInv'
  <2>1. Sub[j] \in Users /\ Members(Sub[j]) \subseteq refreshSet[Sub[j]]
    BY <1>1, SubAssumption DEF Members
  <2>2. /\ \A i \in Jtis : refreshKey'[i] = IF i = j THEN now + RefreshTTL ELSE refreshKey[i]
        /\ \A u \in Users : refreshSetExp'[u] = IF u = Sub[j] THEN now + RefreshTTL
                                                             ELSE refreshSetExp[u]
        /\ \A u \in Users : refreshSet'[u] = IF u = Sub[j] THEN Members(Sub[j]) \cup {j}
                                                          ELSE refreshSet[u]
        /\ now' = now
    BY <1>1, <1>2, <2>1 DEF AddRefreshSession
  <2>3. KeysBounded' BY <1>1, <2>2 DEF IndexInv, KeysBounded
  <2>4. SetsOwned' BY <2>1, <2>2 DEF IndexInv, SetsOwned
  <2>5. IndexOutlivesSessions'
    BY <1>1, <2>1, <2>2 DEF IndexInv, KeysBounded, SetsOwned, IndexOutlivesSessions
  <2>6. QED BY <2>3, <2>4, <2>5 DEF IndexInv
<1>3. ASSUME NEW j \in Jtis, RemoveRefreshSession(j) PROVE IndexInv'
  <2>1. Sub[j] \in Users /\ Members(Sub[j]) \subseteq refreshSet[Sub[j]]
    BY <1>1, SubAssumption DEF Members
  <2>2. /\ \A i \in Jtis : refreshKey'[i] = IF i = j THEN 0 ELSE refreshKey[i]
        /\ \A u \in Users : refreshSet'[u] \subseteq refreshSet[u]
        /\ refreshSetExp' = refreshSetExp /\ now' = now
    BY <1>1, <1>3, <2>1 DEF RemoveRefreshSession
  <2>3. QED BY <1>1, <2>2 DEF IndexInv, KeysBounded, SetsOwned, IndexOutlivesSessions
<1>4. ASSUME NEW u \in Users, NEW jtis \in SUBSET Jtis, DeleteSessions(u, jtis)
      PROVE  IndexInv'
  <2>1. /\ \A i \in Jtis : refreshKey'[i] = IF i \in jtis THEN 0 ELSE refreshKey[i]
        /\ \A v \in Users : refreshSet'[v] = IF v = u THEN {} ELSE refreshSet[v]
        /\ \A v \in Users : v # u => refreshSetExp'[v] = refreshSetExp[v]
        /\ now' = now
    BY <1>1, <1>4 DEF DeleteSessions
  <2>2. QED BY <1>1, <2>1 DEF IndexInv, KeysBounded, SetsOwned, IndexOutlivesSessions
<1>5. ASSUME now' \in Nat, now <= now', UNCHANGED sessionKeys PROVE IndexInv'
  BY <1>1, <1>5 DEF sessionKeys, IndexInv, KeysBounded, SetsOwned, IndexOutlivesSessions
<1>6. QED BY <1>2, <1>3, <1>4, <1>5, StepIsSessionMove DEF SessionMove

LEMMA IndexInvAlways == Spec => []IndexInv
<1>1. Init => IndexInv
  BY MaxTimeAssumption, TTLAssumption
     DEF Init, StoreInit, IndexInv, KeysBounded, SetsOwned, IndexOutlivesSessions
<1>2. TypeInv /\ IndexInv /\ [Next]_vars => IndexInv'
  BY IndexInvInductive
<1> QED BY <1>1, <1>2, TypeInvAlways, PTL DEF Spec

\* revoke_all_refresh always finds, through the set, every session the set was
\* ever told of that is still alive: EXPIRE on the set is never too short.
THEOREM IndexNeverExpiresEarly == Spec => []IndexOutlivesSessions
<1>1. IndexInv => IndexOutlivesSessions BY DEF IndexInv
<1> QED BY <1>1, IndexInvAlways, PTL

-----------------------------------------------------------------------------
(* Sessions follow the lifecycle of SessionLifecycle.  The heart of it: a     *)
(* refresh comes to its second pipeline only with the old session deleted,    *)
(* and nothing another request does brings that session back.                 *)

Presented == \A r \in Reqs : req[r].jti # None => req[r].jti \in drawn
HeldDrawn == held \cap Jtis \subseteq drawn
NeverDrawn == \A j \in Jtis \ drawn : refreshKey[j] = 0 /\ parent[j] = None
RemovedFirst == \A r \in Reqs : req[r].at = "add" => refreshKey[req[r].jti] = 0

MintDrawn == \A r \in Reqs : req[r].at = "mint" => req[r].new \in drawn

LifeInv == Presented /\ HeldDrawn /\ NeverDrawn /\ RemovedFirst /\ MintDrawn

\* What a step can do to the token a request presented and to the id drawn for it,
\* and how it arrives at "add" and at "mint".
RequestMove(r) ==
  /\ \/ req'[r].jti = None /\ req'[r].at # "add"
     \/ req'[r].jti \in held \cap Jtis /\ req'[r].at # "add"
     \/ req'[r].jti = req[r].jti /\ (req'[r].at = "add" => req[r].at = "add" \/ RefreshRemove(r))
  /\ req'[r].at = "mint" =>
       (req[r].at = "mint" /\ req'[r].new = req[r].new) \/ req'[r].new \in drawn'

LEMMA RequestMoves ==
  ASSUME TypeInv, [Next]_vars, NEW q \in Reqs
  PROVE  RequestMove(q)
<1>1. GoodReqs /\ req \in [Reqs -> Request] BY DEF TypeInv, GoodReqs, GoodRequest
<1>2. req[q] \in Request BY <1>1
<1>keep. ASSUME req' = req PROVE RequestMove(q)
  BY <1>keep DEF RequestMove
<1>answer. ASSUME NEW r \in Reqs, Answer(r) PROVE RequestMove(q)
  BY <1>1, <1>answer DEF RequestMove, Answer, Idle
<1>goto. ASSUME NEW r \in Reqs, NEW step \in Step \ {"add", "mint"}, Goto(r, step)
         PROVE  RequestMove(q)
  BY <1>1, <1>2, <1>goto DEF RequestMove, Goto, Request
<1>tick. CASE ClockTick BY <1>tick, <1>keep DEF ClockTick, control
<1>start. ASSUME NEW r \in Reqs, StartRequest(r) PROVE RequestMove(q)
  <2>1. ASSUME NEW request, Begin(r, request), request.at \notin {"add", "mint"},
               request.jti \in (held \cap Jtis) \cup {None}
        PROVE  RequestMove(q)
    BY <1>1, <2>1 DEF RequestMove, Begin
  <2>2. ASSUME NEW u \in Users, NEW p \in Passwords, StartLogin(r, u, p) PROVE RequestMove(q)
    BY <2>1, <2>2 DEF StartLogin, Idle
  <2>3. ASSUME NEW j \in held \cap Jtis, StartRefresh(r, j) PROVE RequestMove(q)
    BY <2>1, <2>3 DEF StartRefresh, Idle
  <2>4. ASSUME NEW a, NEW j \in (held \cap Jtis) \cup {None}, StartLogout(r, a, j)
        PROVE  RequestMove(q)
    BY <2>1, <2>4 DEF StartLogout, Idle
  <2>5. ASSUME NEW op, NEW a, NEW p, NEW n, StartGuarded(r, op, a, p, n) PROVE RequestMove(q)
    BY <2>1, <2>5 DEF StartGuarded, Idle
  <2>6. QED BY <1>start, <2>2, <2>3, <2>4, <2>5 DEF StartRequest
<1>fail. ASSUME NEW r \in Reqs, Fail(r) PROVE RequestMove(q)
  BY <1>answer, <1>fail DEF Fail
<1>login. ASSUME NEW r \in Reqs, Login(r) PROVE RequestMove(q)
  BY <1>answer, <1>goto, <1>login DEF Login, LoginAuthenticate, LoginIssue, Step
<1>refresh. ASSUME NEW r \in Reqs, Refresh(r) PROVE RequestMove(q)
  <2>1. CASE RefreshRemove(r)
    BY <1>1, <1>2, <2>1 DEF RefreshRemove, Goto, RequestMove, Request, Step
  <2>2. CASE RefreshAdd(r)
    BY <1>1, <1>2, <2>2 DEF RefreshAdd, RequestMove, Request
  <2>3. CASE ~RefreshRemove(r) /\ ~RefreshAdd(r)
    BY <1>answer, <1>goto, <1>refresh, <2>3
       DEF Refresh, RefreshCheckActive, RefreshCheckBlacklist, RefreshMint, Step
  <2>4. QED BY <2>1, <2>2, <2>3
<1>logout. ASSUME NEW r \in Reqs, Logout(r) PROVE RequestMove(q)
  BY <1>answer, <1>goto, <1>logout
     DEF Logout, LogoutBlacklistAccess, LogoutCheckBlacklist, LogoutVerify,
         LogoutBlacklist, LogoutRemove, Step
<1>guarded. ASSUME NEW r \in Reqs, Guarded(r) PROVE RequestMove(q)
  <2>1. CASE GuardDecode(r)
    BY <1>1, <1>2, <1>answer, <2>1 DEF GuardDecode, RequestMove, Request
  <2>2. CASE RevokeRead(r)
    BY <1>1, <1>2, <2>2 DEF RevokeRead, RequestMove, Request
  <2>3. CASE RevokeDelete(r)
    BY <1>1, <1>2, <2>3 DEF RevokeDelete, RequestMove, Request
  <2>4. CASE GuardBlacklist(r) \/ GuardMarker(r) \/ MeAnswer(r) \/ ChangeCommit(r) \/ RevokeMark(r)
    BY <1>answer, <1>goto, <2>4
       DEF GuardBlacklist, GuardMarker, MeAnswer, ChangeCommit, RevokeMark, Step
  <2>5. QED BY <1>guarded, <2>1, <2>2, <2>3, <2>4 DEF Guarded
<1>stutter. CASE UNCHANGED vars BY <1>keep, <1>stutter DEF vars, control
<1>3. QED
  BY <1>tick, <1>start, <1>fail, <1>login, <1>refresh, <1>logout, <1>guarded, <1>stutter
     DEF Next

\* Tokens reach clients, and sessions get parents, only where they should.
LEMMA OnlyIssuesAreHeld ==
  ASSUME [Next]_vars
  PROVE  UNCHANGED held \/ \E r \in Reqs : LoginIssue(r) \/ RefreshMint(r)
<1>1. ASSUME NEW r \in Reqs, StartRequest(r) \/ Fail(r) PROVE UNCHANGED held
  BY <1>1 DEF StartRequest, StartLogin, StartRefresh, StartLogout, StartGuarded, Fail
<1>2. ASSUME NEW r \in Reqs, Login(r), ~LoginIssue(r) PROVE UNCHANGED held
  BY <1>2 DEF Login, LoginAuthenticate
<1>3. ASSUME NEW r \in Reqs, Refresh(r), ~RefreshMint(r) PROVE UNCHANGED held
  BY <1>3 DEF Refresh, RefreshCheckActive, RefreshCheckBlacklist, RefreshRemove, RefreshAdd
<1>4. ASSUME NEW r \in Reqs, Logout(r) PROVE UNCHANGED held
  BY <1>4 DEF Logout, LogoutBlacklistAccess, LogoutCheckBlacklist, LogoutVerify,
     LogoutBlacklist, LogoutRemove
<1>5. ASSUME NEW r \in Reqs, Guarded(r) PROVE UNCHANGED held
  BY <1>5 DEF Guarded, GuardBlacklist, GuardDecode, GuardMarker, MeAnswer, ChangeCommit,
     RevokeRead, RevokeDelete, RevokeMark
<1>6. CASE ClockTick \/ UNCHANGED vars BY <1>6 DEF ClockTick, vars, control
<1>7. QED BY <1>1, <1>2, <1>3, <1>4, <1>5, <1>6 DEF Next

LEMMA OnlyRefreshesHaveParents ==
  ASSUME [Next]_vars
  PROVE  UNCHANGED parent \/ \E r \in Reqs : RefreshAdd(r)
<1>1. ASSUME NEW r \in Reqs, StartRequest(r) \/ Fail(r) PROVE UNCHANGED parent
  BY <1>1 DEF StartRequest, StartLogin, StartRefresh, StartLogout, StartGuarded, Fail, history
<1>2. ASSUME NEW r \in Reqs, Login(r) PROVE UNCHANGED parent
  BY <1>2 DEF Login, LoginAuthenticate, LoginIssue, history
<1>3. ASSUME NEW r \in Reqs, Refresh(r), ~RefreshAdd(r) PROVE UNCHANGED parent
  BY <1>3 DEF Refresh, RefreshCheckActive, RefreshCheckBlacklist, RefreshRemove, RefreshMint,
     history
<1>4. ASSUME NEW r \in Reqs, Logout(r) PROVE UNCHANGED parent
  BY <1>4 DEF Logout, LogoutBlacklistAccess, LogoutCheckBlacklist, LogoutVerify,
     LogoutBlacklist, LogoutRemove, history
<1>5. ASSUME NEW r \in Reqs, Guarded(r) PROVE UNCHANGED parent
  BY <1>5 DEF Guarded, GuardBlacklist, GuardDecode, GuardMarker, MeAnswer, ChangeCommit,
     RevokeRead, RevokeDelete, RevokeMark, history
<1>6. CASE ClockTick \/ UNCHANGED vars BY <1>6 DEF ClockTick, vars, history
<1>7. QED BY <1>1, <1>2, <1>3, <1>4, <1>5, <1>6 DEF Next

LEMMA LifeInvInductive ==
  ASSUME TypeInv, LifeInv, [Next]_vars
  PROVE  LifeInv'
<1>1. /\ GoodReqs /\ drawn \in SUBSET Jtis
      /\ refreshKey \in [Jtis -> Nat] /\ parent \in [Jtis -> Jtis \cup {None}]
  BY DEF TypeInv, TypeOK, StoreTypeOK
<1>2. SessionMove BY StepIsSessionMove
<1>3. drawn \subseteq drawn' BY <1>2 DEF SessionMove
<1>4. None \notin Jtis BY NoneAssumption DEF Token
<1>5. \A q \in Reqs : RequestMove(q) BY RequestMoves
<1>6. Presented' BY <1>3, <1>5 DEF LifeInv, Presented, HeldDrawn, RequestMove
<1>7. MintDrawn' BY <1>3, <1>5 DEF LifeInv, MintDrawn, RequestMove
<1>8. HeldDrawn'
  <2>1. CASE UNCHANGED held BY <1>3, <2>1 DEF LifeInv, HeldDrawn
  <2>2. ASSUME NEW r \in Reqs, LoginIssue(r) PROVE HeldDrawn'
    <3>1. PICK j \in Fresh(req[r].sub) :
            drawn' = drawn \cup {j} /\ held' = held \cup {j, Access(req[r].sub)}
      BY <2>2 DEF LoginIssue
    <3>2. Access(req[r].sub) \in AccessToken
      BY <1>1, <2>2 DEF LoginIssue, At, GoodReqs, GoodRequest, WellFormed, Access,
                        AccessToken, TypeInv, TypeOK, StoreTypeOK
    <3>3. QED BY <3>1, <3>2, TokenAssumption DEF LifeInv, HeldDrawn
  <2>3. ASSUME NEW r \in Reqs, RefreshMint(r) PROVE HeldDrawn'
    <3>1. Access(req[r].sub) \in AccessToken
      BY <1>1, <2>3, SubAssumption
         DEF RefreshMint, At, GoodReqs, GoodRequest, WellFormed, SessionSteps, Access,
             AccessToken, TypeInv, TypeOK, StoreTypeOK
    <3>2. req[r].new \in drawn BY <2>3 DEF RefreshMint, At, LifeInv, MintDrawn
    <3>3. QED
      BY <1>3, <2>3, <3>1, <3>2, TokenAssumption DEF RefreshMint, LifeInv, HeldDrawn
  <2>4. QED BY <2>1, <2>2, <2>3, OnlyIssuesAreHeld
<1>9. NeverDrawn'
  <2>1. UNCHANGED parent \/ \E r \in Reqs : RefreshAdd(r) BY OnlyRefreshesHaveParents
  <2>2. \A j \in Jtis \ drawn' : parent'[j] = None
    BY <1>1, <1>3, <2>1 DEF RefreshAdd, LifeInv, NeverDrawn
  <2>3. \A j \in Jtis \ drawn' : refreshKey'[j] = 0
    BY <1>1, <1>2, <1>3 DEF SessionMove, AddRefreshSession, RemoveRefreshSession,
       DeleteSessions, sessionKeys, LifeInv, NeverDrawn
  <2>4. QED BY <2>2, <2>3 DEF NeverDrawn
<1>10. RemovedFirst'
  <2> SUFFICES ASSUME NEW q \in Reqs, req'[q].at = "add" PROVE refreshKey'[req'[q].jti] = 0
    BY DEF RemovedFirst
  <2>1. req'[q].jti = req[q].jti /\ (req[q].at = "add" \/ RefreshRemove(q))
    BY <1>5 DEF RequestMove
  <2>2. req[q].jti \in Jtis /\ req[q].jti \in drawn
    BY <1>1, <1>4, <2>1 DEF RefreshRemove, At, GoodReqs, GoodRequest, WellFormed,
       SessionSteps, LifeInv, Presented
  <2>3. CASE RefreshRemove(q)
    BY <1>1, <2>1, <2>2, <2>3 DEF RefreshRemove, RemoveRefreshSession
  <2>4. CASE req[q].at = "add"
    <3>1. refreshKey[req[q].jti] = 0 BY <2>4 DEF LifeInv, RemovedFirst
    <3>2. QED
      BY <1>1, <1>2, <2>1, <2>2, <3>1
         DEF SessionMove, AddRefreshSession, RemoveRefreshSession, DeleteSessions, sessionKeys
  <2>5. QED BY <2>1, <2>3, <2>4
<1>11. QED BY <1>6, <1>7, <1>8, <1>9, <1>10 DEF LifeInv

LEMMA LifeInvAlways == Spec => []LifeInv
<1>1. Init => LifeInv
  BY DEF Init, StoreInit, Idle, LifeInv, Presented, HeldDrawn, NeverDrawn, RemovedFirst, MintDrawn
<1>2. TypeInv /\ LifeInv /\ [Next]_vars => LifeInv' BY LifeInvInductive
<1>3. QED BY <1>1, <1>2, TypeInvAlways, PTL DEF Spec

phases == [j \in Jtis |-> Phase(j)]

\* Steps that do not add a session end some: those alive before and not after.
LEMMA EndingStep ==
  ASSUME TypeInv, now' \in Nat, now <= now', UNCHANGED <<drawn, parent>>,
         refreshKey' \in [Jtis -> Nat], \A j \in Jtis : refreshKey'[j] <= refreshKey[j]
  PROVE  Lifecycle!Next
<1> DEFINE S == {j \in Jtis : Phase(j) = "live" /\ Phase(j)' = "over"}
<1>1. now \in Nat /\ refreshKey \in [Jtis -> Nat]
  BY MaxTimeAssumption DEF TypeInv, TypeOK, StoreTypeOK
<1>2. \A j \in Jtis : Phase(j)' = IF j \in S THEN "over" ELSE Phase(j)
  BY <1>1 DEF Phase, IsRefreshActive, Live
<1>3. \A j \in S : phases[j] = "live" BY DEF phases
<1>4. phases' = [j \in Jtis |-> IF j \in S THEN "over" ELSE phases[j]]
  BY <1>2 DEF phases
<1>5. Lifecycle!End(S) BY <1>3, <1>4 DEF Lifecycle!End, phases
<1>6. QED BY <1>5 DEF Lifecycle!Next

LEMMA AddingStep ==
  ASSUME TypeInv, NEW j \in Jtis \ drawn, AddRefreshSession(j, RefreshTTL),
         drawn' = drawn \cup {j}
  PROVE  phases[j] = "fresh" /\ phases' = [phases EXCEPT ![j] = "live"]
<1>1. now \in Nat /\ refreshKey \in [Jtis -> Nat]
  BY MaxTimeAssumption DEF TypeInv, TypeOK, StoreTypeOK
<1>2. Phase(j) = "fresh" /\ Phase(j)' = "live"
  BY <1>1, TTLAssumption DEF Phase, AddRefreshSession, IsRefreshActive, Live
<1>3. \A i \in Jtis : i # j => Phase(i)' = Phase(i)
  BY <1>1 DEF Phase, AddRefreshSession, IsRefreshActive, Live
<1>4. QED BY <1>2, <1>3 DEF phases

LEMMA StepImplements ==
  ASSUME TypeInv, LifeInv, [Next]_vars
  PROVE  [Lifecycle!Next]_<<phases, parent>>
<1>1. /\ GoodReqs /\ now \in Nat /\ refreshKey \in [Jtis -> Nat]
      /\ parent \in [Jtis -> Jtis \cup {None}]
  BY MaxTimeAssumption DEF TypeInv, TypeOK, StoreTypeOK
<1>2. TypeInv' BY TypeInvInductive
<1>3. refreshKey' \in [Jtis -> Nat] BY <1>2 DEF TypeInv, TypeOK, StoreTypeOK
<1>4. ASSUME NEW r \in Reqs, RefreshAdd(r) PROVE Lifecycle!Next
  <2>1. PICK j \in Fresh(req[r].sub) :
          /\ drawn' = drawn \cup {j}
          /\ AddRefreshSession(j, RefreshTTL)
          /\ parent' = [parent EXCEPT ![j] = req[r].jti]
    BY <1>4 DEF RefreshAdd
  <2>2. req[r].jti \in Jtis /\ req[r].jti \in drawn
    BY <1>1, <1>4, NoneAssumption
       DEF RefreshAdd, At, GoodReqs, GoodRequest, WellFormed, SessionSteps, LifeInv,
           Presented, Token
  <2>3. phases[req[r].jti] = "over"
    BY <1>1, <1>4, <2>2 DEF RefreshAdd, At, LifeInv, RemovedFirst, phases, Phase,
       IsRefreshActive, Live
  <2>4. j \in Jtis \ drawn BY DEF Fresh
  <2>5. phases[j] = "fresh" /\ phases' = [phases EXCEPT ![j] = "live"]
    BY <2>1, <2>4, AddingStep
  <2>6. Lifecycle!Replace(req[r].jti, j)
    BY <2>1, <2>3, <2>5 DEF Lifecycle!Replace, phases
  <2>7. QED BY <2>2, <2>4, <2>6 DEF Lifecycle!Next
<1>5. ASSUME UNCHANGED parent PROVE Lifecycle!Next
  <2>1. ASSUME NEW j \in Jtis \ drawn, AddRefreshSession(j, RefreshTTL),
               drawn' = drawn \cup {j}
        PROVE  Lifecycle!Next
    <3>1. phases[j] = "fresh" /\ phases' = [phases EXCEPT ![j] = "live"]
      BY <2>1, AddingStep
    <3>2. Lifecycle!Login(j) BY <1>5, <3>1 DEF Lifecycle!Login, phases
    <3>3. QED BY <3>2 DEF Lifecycle!Next
  <2>2. ASSUME NEW j \in Jtis, RemoveRefreshSession(j), UNCHANGED drawn PROVE Lifecycle!Next
    BY <1>1, <1>3, <1>5, <2>2, EndingStep DEF RemoveRefreshSession
  <2>3. ASSUME NEW u \in Users, NEW jtis \in SUBSET Jtis, DeleteSessions(u, jtis),
               UNCHANGED drawn
        PROVE  Lifecycle!Next
    BY <1>1, <1>3, <1>5, <2>3, EndingStep DEF DeleteSessions
  <2>4. ASSUME now' \in Nat, now <= now', UNCHANGED <<sessionKeys, drawn>>
        PROVE  Lifecycle!Next
    BY <1>1, <1>3, <1>5, <2>4, EndingStep DEF sessionKeys
  <2>5. QED BY <2>1, <2>2, <2>3, <2>4, StepIsSessionMove DEF SessionMove
<1>6. QED BY <1>4, <1>5, OnlyRefreshesHaveParents

\* Every behaviour of the endpoints is one of the abstract lifecycle: no race,
\* failure or expiry revives a session or starts a successor beside a live parent.
THEOREM ImplementsLifecycle == Spec => SessionsFollowLifecycle
<1>1. Init => Lifecycle!Init
  BY DEF Init, Lifecycle!Init, Phase
<1>2. TypeInv /\ LifeInv /\ [Next]_vars => [Lifecycle!Next]_<<phases, parent>>
  BY StepImplements
<1>3. QED
  BY <1>1, <1>2, TypeInvAlways, LifeInvAlways, PTL
     DEF Spec, SessionsFollowLifecycle, Lifecycle!Spec, phases

-----------------------------------------------------------------------------
(* An entry of the blacklist lasts as long as its token, as the exp claim is  *)
(* at most a TTL away when the entry is made.  For that the claim of a token  *)
(* that may be blacklisted must never move: a token is signed before it is    *)
(* held, and only held tokens are presented.                                  *)

ExpBounded == \A j \in Jtis : refreshExp[j] <= now + RefreshTTL
PresentedHeld == \A r \in Reqs : req[r].jti # None => req[r].jti \in held
MintUnheld == \A r \in Reqs : req[r].at = "mint" => req[r].new \notin held
MintDistinct ==
  \A r, q \in Reqs :
    r # q /\ req[r].at = "mint" /\ req[q].at = "mint" => req[r].new # req[q].new
BlacklistedHeld == \A j \in Jtis : blacklist[j] # 0 => j \in held
LongEnough == \A t \in Token : blacklist[t] # 0 => TokenExp(t) <= blacklist[t]

EntryInv == /\ ExpBounded /\ PresentedHeld /\ MintUnheld /\ MintDistinct
            /\ BlacklistedHeld /\ LongEnough

(* A token that is retired, or about to be, is on the blacklist or expired.   *)

Barred(t) == blacklist[t] # 0 \/ TokenExp(t) <= now

AccessDone == {"seen", "verify", "blacklist", "drop"}
AccessBarred ==
  \A r \in Reqs : req[r].at \in AccessDone /\ req[r].acc # None => Barred(req[r].acc)
RefreshBarred == \A r \in Reqs : req[r].at = "drop" => blacklist[req[r].jti] # 0
RetiredBarred == \A t \in retired : Barred(t)
RetiredHeld == retired \cap Jtis \subseteq held

RetireInv == AccessBarred /\ RefreshBarred /\ RetiredBarred /\ RetiredHeld

(* A request that began with a retired token has not passed its blacklist     *)
(* check, unless the token has expired since.                                 *)

StaleRefresh ==
  \A r \in Reqs : req[r].at \in {"active", "unrevoked"} =>
                    req[r].stale \subseteq {req[r].jti} \cap retired
StaleAccess ==
  \A r \in Reqs : req[r].at = "bearer" => req[r].stale \subseteq {req[r].acc} \cap retired
StaleExpired ==
  \A r \in Reqs : req[r].at \in {"decode", "marker"} /\ req[r].stale # {} =>
                    AccessExp(req[r].acc) <= now

StaleInv == StaleRefresh /\ StaleAccess /\ StaleExpired

-----------------------------------------------------------------------------
(* What a step does to tokens: their entries, claims and holders.             *)

tokenState == <<blacklist, refreshExp, held, retired>>

TokenMove ==
  \/ now' \in Nat /\ now <= now' /\ UNCHANGED tokenState
  \/ \E r \in Reqs :
       \/ LoginIssue(r) \/ RefreshMint(r)
       \/ LogoutBlacklistAccess(r) \/ LogoutBlacklist(r)
       \/ LogoutCheckBlacklist(r) \/ LogoutRemove(r)

LEMMA StepIsTokenMove ==
  ASSUME TypeInv, [Next]_vars
  PROVE  TokenMove
<1>1. now \in Nat BY MaxTimeAssumption DEF TypeInv, TypeOK, StoreTypeOK
<1>2. ASSUME UNCHANGED <<now, tokenState>> PROVE TokenMove
  BY <1>1, <1>2 DEF TokenMove
<1>tick. CASE ClockTick
  BY <1>1, <1>tick DEF ClockTick, Tick, control, history, tokenState, TokenMove
<1>start. ASSUME NEW r \in Reqs, StartRequest(r) \/ Fail(r) PROVE TokenMove
  BY <1>2, <1>start
     DEF StartRequest, StartLogin, StartRefresh, StartLogout, StartGuarded, Fail,
         storeVars, history, tokenState
<1>login. ASSUME NEW r \in Reqs, Login(r) PROVE TokenMove
  BY <1>2, <1>login DEF Login, LoginAuthenticate, storeVars, history, tokenState, TokenMove
<1>refresh. ASSUME NEW r \in Reqs, Refresh(r), ~RefreshMint(r) PROVE TokenMove
  BY <1>2, <1>refresh
     DEF Refresh, RefreshCheckActive, RefreshCheckBlacklist, RefreshRemove, RefreshAdd,
         RemoveRefreshSession, AddRefreshSession, storeVars, history, tokenState
<1>logout. ASSUME NEW r \in Reqs, Logout(r) PROVE TokenMove
  BY <1>2, <1>logout DEF Logout, LogoutVerify, storeVars, history, tokenState, TokenMove
<1>guarded. ASSUME NEW r \in Reqs, Guarded(r) PROVE TokenMove
  BY <1>2, <1>guarded
     DEF Guarded, GuardBlacklist, GuardDecode, GuardMarker, MeAnswer, ChangeCommit,
         RevokeRead, RevokeDelete, RevokeMark, DeleteSessions, SetAccessRevokedAt,
         storeVars, history, tokenState
<1>stutter. CASE UNCHANGED vars
  BY <1>2, <1>stutter DEF vars, storeVars, control, history, tokenState
<1>3. QED
  BY <1>tick, <1>start, <1>login, <1>refresh, <1>logout, <1>guarded, <1>stutter
     DEF Next, TokenMove

\* What a step does to the entries of tokens that may be presented.
EntryMove ==
  /\ now' \in Nat /\ now <= now' /\ held \subseteq held' /\ retired \subseteq retired'
  /\ \A t \in Token : blacklist[t] # 0 => blacklist'[t] # 0
  /\ \A j \in held \cap Jtis : refreshExp'[j] = refreshExp[j]

LEMMA Positive ==
  ASSUME TypeInv
  PROVE  /\ now \in Nat /\ RefreshTTL \in Nat \ {0} /\ AccessTTL \in Nat \ {0}
         /\ blacklist \in [Token -> Nat] /\ refreshExp \in [Jtis -> Nat]
         /\ \A a \in AccessToken : a \in Token /\ a \notin Jtis /\ AccessExp(a) \in Nat
                                   /\ TokenExp(a) = AccessExp(a)
         /\ \A j \in Jtis : j \in Token /\ TokenExp(j) = refreshExp[j]
<1>1. \A a \in AccessToken : a.iat \in Nat BY MaxTimeAssumption DEF AccessToken
<1>2. QED
  BY <1>1, MaxTimeAssumption, TTLAssumption, TokenAssumption
     DEF TypeInv, TypeOK, StoreTypeOK, Token, TokenExp, AccessExp

\* The blacklist after an entry was made.
LEMMA AddEntry ==
  ASSUME TypeInv, NEW t \in Token, NEW ttl \in Nat, Add(t, ttl)
  PROVE  /\ blacklist'[t] = now + ttl /\ now' = now
         /\ \A s \in Token : s # t => blacklist'[s] = blacklist[s]
  BY Positive DEF Add

\* The entry that a logout makes for the access token of its header.
LEMMA AccessEntry ==
  ASSUME TypeInv, NEW r \in Reqs, LogoutBlacklistAccess(r), req[r].acc # None
  PROVE  /\ req[r].acc \in AccessToken
         /\ \/ AccessExp(req[r].acc) <= now /\ UNCHANGED storeVars
            \/ /\ now < AccessExp(req[r].acc)
               /\ TokenTTL(req[r].acc) \in Nat \ {0}
               /\ now + TokenTTL(req[r].acc) = AccessExp(req[r].acc)
               /\ Add(req[r].acc, TokenTTL(req[r].acc))
<1>1. req[r].acc \in AccessToken
  BY RequestFacts DEF TypeInv, Request
<1>2. now \in Nat /\ AccessExp(req[r].acc) \in Nat BY <1>1, Positive
<1>3. CASE now < AccessExp(req[r].acc)
  BY <1>1, <1>2, <1>3 DEF LogoutBlacklistAccess, TokenTTL
<1>4. CASE ~(now < AccessExp(req[r].acc))
  BY <1>1, <1>2, <1>4 DEF LogoutBlacklistAccess
<1>5. QED BY <1>3, <1>4

LEMMA StepIsEntryMove ==
  ASSUME TypeInv, LifeInv, EntryInv, [Next]_vars
  PROVE  EntryMove
<1>1. /\ now \in Nat /\ RefreshTTL \in Nat \ {0} /\ blacklist \in [Token -> Nat]
      /\ refreshExp \in [Jtis -> Nat]
  BY Positive
<1>2. CASE now' \in Nat /\ now <= now' /\ UNCHANGED tokenState
  BY <1>2 DEF tokenState, EntryMove
<1>3. ASSUME NEW r \in Reqs, LoginIssue(r) PROVE EntryMove
  <2>1. PICK j \in Fresh(req[r].sub) :
          /\ refreshExp' = [refreshExp EXCEPT ![j] = now + RefreshTTL]
          /\ AddRefreshSession(j, RefreshTTL)
          /\ held' = held \cup {j, Access(req[r].sub)}
    BY <1>3 DEF LoginIssue
  <2>2. j \in Jtis /\ j \notin held BY DEF Fresh, LifeInv, HeldDrawn
  <2>3. QED BY <1>1, <1>3, <2>1, <2>2 DEF LoginIssue, AddRefreshSession, EntryMove
<1>4. ASSUME NEW r \in Reqs, RefreshMint(r) PROVE EntryMove
  <2>1. req[r].jti \in Token /\ req[r].new \notin held
    BY <1>4, RequestFacts
       DEF RefreshMint, At, TypeInv, WellFormed, SessionSteps, Token, EntryInv, MintUnheld
  <2>2. Add(req[r].jti, RefreshTTL) BY <1>4 DEF RefreshMint, BlacklistTTL
  <2>3. /\ now' = now /\ blacklist'[req[r].jti] = now + RefreshTTL
        /\ \A s \in Token : s # req[r].jti => blacklist'[s] = blacklist[s]
    BY <1>1, <2>1, <2>2, AddEntry
  <2>4. \A t \in Token : blacklist[t] # 0 => blacklist'[t] # 0 BY <1>1, <2>3
  <2>5. QED BY <1>1, <1>4, <2>1, <2>3, <2>4 DEF RefreshMint, EntryMove
<1>5. ASSUME NEW r \in Reqs, LogoutBlacklistAccess(r) PROVE EntryMove
  <2>1. UNCHANGED <<held, refreshExp, retired>> BY <1>5 DEF LogoutBlacklistAccess, history
  <2>2. CASE UNCHANGED storeVars BY <1>1, <2>1, <2>2 DEF storeVars, EntryMove
  <2>3. CASE ~UNCHANGED storeVars
    <3>1. /\ req[r].acc \in AccessToken /\ TokenTTL(req[r].acc) \in Nat \ {0}
          /\ Add(req[r].acc, TokenTTL(req[r].acc))
      BY <1>5, <2>3, AccessEntry DEF LogoutBlacklistAccess
    <3>2. /\ now' = now /\ blacklist'[req[r].acc] = now + TokenTTL(req[r].acc)
          /\ \A s \in Token : s # req[r].acc => blacklist'[s] = blacklist[s]
      BY <3>1, AddEntry DEF Token
    <3>3. \A t \in Token : blacklist[t] # 0 => blacklist'[t] # 0 BY <1>1, <3>1, <3>2
    <3>4. QED BY <1>1, <2>1, <3>2, <3>3 DEF EntryMove
  <2>4. QED BY <2>2, <2>3
<1>6. ASSUME NEW r \in Reqs, LogoutBlacklist(r) PROVE EntryMove
  <2>1. req[r].jti \in Token
    BY <1>6, RequestFacts DEF LogoutBlacklist, At, TypeInv, WellFormed, Token
  <2>2. Add(req[r].jti, RefreshTTL) BY <1>6 DEF LogoutBlacklist, BlacklistTTL
  <2>3. /\ now' = now /\ blacklist'[req[r].jti] = now + RefreshTTL
        /\ \A s \in Token : s # req[r].jti => blacklist'[s] = blacklist[s]
    BY <1>1, <2>1, <2>2, AddEntry
  <2>4. \A t \in Token : blacklist[t] # 0 => blacklist'[t] # 0 BY <1>1, <2>3
  <2>5. QED BY <1>1, <1>6, <2>3, <2>4 DEF LogoutBlacklist, history, EntryMove
<1>7. ASSUME NEW r \in Reqs, LogoutCheckBlacklist(r) \/ LogoutRemove(r) PROVE EntryMove
  BY <1>1, <1>7
     DEF LogoutCheckBlacklist, LogoutRemove, Retire, RemoveRefreshSession, storeVars, EntryMove
<1>8. QED BY <1>2, <1>3, <1>4, <1>5, <1>6, <1>7, StepIsTokenMove DEF TokenMove

-----------------------------------------------------------------------------
(* What a step does to the requests.                                          *)

SameFields(q) ==
  /\ req'[q].jti = req[q].jti /\ req'[q].acc = req[q].acc
  /\ req'[q].stale = req[q].stale /\ req'[q].new = req[q].new

\* Request q stays as it is, ends, begins, or takes one of its steps: those
\* whose order the invariants are about are named.
Places == AccessDone \cup {"active", "unrevoked", "mint", "bearer", "decode", "marker"}

Began(q) ==
  \/ req'[q].at \notin Places
  \/ req'[q].at = "active" /\ req'[q].stale = {req'[q].jti} \cap retired
  \/ req'[q].at = "bearer" /\ req'[q].stale = {req'[q].acc} \cap retired

Advanced(q) ==
  \/ req'[q].at = req[q].at
  \/ req[q].at = "active" /\ req'[q].at = "unrevoked"
  \/ req[q].at = "bearer" /\ req'[q].at = "decode" /\ ~Exists(req[q].acc)
  \/ req[q].at = "decode" /\ req'[q].at = "marker"
  \/ req'[q].at = "seen" /\ LogoutBlacklistAccess(q)
  \/ req'[q].at \in {"verify", "blacklist"} /\ req[q].at \in AccessDone
  \/ req'[q].at = "drop" /\ LogoutBlacklist(q)

Progress(q) ==
  /\ \/ Began(q)
     \/ SameFields(q) /\ Advanced(q)
     \/ req'[q].at = "mint" /\ RefreshAdd(q)
  /\ req[q].at = "unrevoked" /\ req'[q].at = "remove" => ~Exists(req[q].jti)

LEMMA EveryProgress ==
  ASSUME TypeInv, [Next]_vars, NEW q \in Reqs
  PROVE  Progress(q)
<1>1. GoodReqs /\ req \in [Reqs -> Request] BY DEF TypeInv, GoodReqs, GoodRequest
<1>2. req[q] \in Request BY <1>1
<1>keep. ASSUME req'[q] = req[q] PROVE Progress(q)
  BY <1>keep DEF Progress, SameFields, Advanced
<1>answer. ASSUME NEW r \in Reqs, Answer(r) PROVE Progress(q)
  BY <1>1, <1>answer, <1>keep DEF Progress, Began, Places, AccessDone, Answer, Idle
<1>goto. ASSUME NEW r \in Reqs, NEW step, Goto(r, step)
         PROVE  (r # q /\ req'[q] = req[q]) \/ (r = q /\ req'[q].at = step /\ SameFields(q))
  BY <1>1, <1>2, <1>goto DEF Goto, SameFields, Request
<1>tick. CASE ClockTick BY <1>tick, <1>keep DEF ClockTick, control
<1>start. ASSUME NEW r \in Reqs, StartRequest(r) PROVE Progress(q)
  <2>1. ASSUME NEW request, Begin(r, request),
               \/ request.at \notin Places
               \/ request.at = "active" /\ request.stale = {request.jti} \cap retired
               \/ request.at = "bearer" /\ request.stale = {request.acc} \cap retired
        PROVE  Progress(q)
    <3>1. CASE r # q BY <1>1, <2>1, <3>1, <1>keep DEF Begin
    <3>2. CASE r = q
      <4>1. req'[q] = request /\ req[q].at = "idle" BY <1>1, <2>1, <3>2 DEF Begin, Idle
      <4>2. QED BY <2>1, <4>1 DEF Progress, Began
    <3>3. QED BY <3>1, <3>2
  <2>2. ASSUME NEW u \in Users, NEW p \in Passwords, StartLogin(r, u, p) PROVE Progress(q)
    BY <2>1, <2>2 DEF StartLogin, Idle, Places, AccessDone
  <2>3. ASSUME NEW j \in held \cap Jtis, StartRefresh(r, j) PROVE Progress(q)
    BY <2>1, <2>3 DEF StartRefresh, Idle
  <2>4. ASSUME NEW a, NEW j, StartLogout(r, a, j) PROVE Progress(q)
    BY <2>1, <2>4 DEF StartLogout, Idle, Places, AccessDone
  <2>5. ASSUME NEW op, NEW a, NEW p, NEW n, StartGuarded(r, op, a, p, n) PROVE Progress(q)
    BY <2>1, <2>5 DEF StartGuarded, Idle
  <2>6. QED BY <1>start, <2>2, <2>3, <2>4, <2>5 DEF StartRequest
<1>fail. ASSUME NEW r \in Reqs, Fail(r) PROVE Progress(q)
  BY <1>answer, <1>fail DEF Fail
<1>login. ASSUME NEW r \in Reqs, Login(r) PROVE Progress(q)
  <2>1. CASE LoginAuthenticate(r)
    BY <1>answer, <1>keep, <1>goto, <2>1
       DEF LoginAuthenticate, At, Progress, Began, Places, AccessDone
  <2>2. CASE LoginIssue(r) BY <1>answer, <2>2 DEF LoginIssue
  <2>3. QED BY <1>login, <2>1, <2>2 DEF Login
<1>refresh. ASSUME NEW r \in Reqs, Refresh(r) PROVE Progress(q)
  <2>1. CASE RefreshCheckActive(r)
    BY <1>answer, <1>keep, <1>goto, <2>1 DEF RefreshCheckActive, At, Progress, Advanced
  <2>2. CASE RefreshCheckBlacklist(r)
    BY <1>answer, <1>keep, <1>goto, <2>2
       DEF RefreshCheckBlacklist, At, Progress, Began, Places, AccessDone
  <2>3. CASE RefreshRemove(r)
    BY <1>keep, <1>goto, <2>3 DEF RefreshRemove, At, Progress, Began, Places, AccessDone
  <2>4. CASE RefreshAdd(r)
    <3>1. PICK j \in Jtis : req' = [req EXCEPT ![r].at = "mint", ![r].new = j]
      BY <2>4 DEF RefreshAdd, Fresh
    <3>2. CASE r # q BY <1>1, <1>keep, <3>1, <3>2
    <3>3. CASE r = q
      <4>1. req[q].at = "add" BY <2>4, <3>3 DEF RefreshAdd, At
      <4>2. req'[q].at = "mint" BY <1>1, <1>2, <3>1, <3>3 DEF Request
      <4>3. QED BY <2>4, <3>3, <4>1, <4>2 DEF Progress
    <3>4. QED BY <3>2, <3>3
  <2>5. CASE RefreshMint(r) BY <1>answer, <2>5 DEF RefreshMint
  <2>6. QED BY <1>refresh, <2>1, <2>2, <2>3, <2>4, <2>5 DEF Refresh
<1>logout. ASSUME NEW r \in Reqs, Logout(r) PROVE Progress(q)
  <2>1. CASE LogoutBlacklistAccess(r)
    BY <1>keep, <1>goto, <2>1 DEF LogoutBlacklistAccess, At, Progress, Advanced
  <2>2. CASE LogoutCheckBlacklist(r)
    BY <1>answer, <1>keep, <1>goto, <2>2
       DEF LogoutCheckBlacklist, At, Progress, Advanced, AccessDone
  <2>3. CASE LogoutVerify(r)
    BY <1>answer, <1>keep, <1>goto, <2>3 DEF LogoutVerify, At, Progress, Advanced, AccessDone
  <2>4. CASE LogoutBlacklist(r)
    BY <1>keep, <1>goto, <2>4 DEF LogoutBlacklist, At, Progress, Advanced
  <2>5. CASE LogoutRemove(r) BY <1>answer, <2>5 DEF LogoutRemove
  <2>6. QED BY <1>logout, <2>1, <2>2, <2>3, <2>4, <2>5 DEF Logout
<1>guarded. ASSUME NEW r \in Reqs, Guarded(r) PROVE Progress(q)
  <2>1. CASE GuardBlacklist(r)
    BY <1>answer, <1>keep, <1>goto, <2>1 DEF GuardBlacklist, Progress, Advanced
  <2>2. CASE GuardDecode(r)
    BY <1>1, <1>2, <1>keep, <1>answer, <2>2
       DEF GuardDecode, Progress, SameFields, Advanced, Request
  <2>3. CASE GuardMarker(r)
    BY <1>answer, <1>keep, <1>goto, <2>3
       DEF GuardMarker, Progress, Began, Places, AccessDone
  <2>4. CASE MeAnswer(r) BY <1>answer, <2>4 DEF MeAnswer
  <2>5. CASE ChangeCommit(r)
    BY <1>answer, <1>keep, <1>goto, <2>5
       DEF ChangeCommit, At, Progress, Began, Places, AccessDone
  <2>6. CASE RevokeRead(r)
    BY <1>1, <1>2, <1>keep, <2>6
       DEF RevokeRead, Progress, Began, Places, AccessDone, Request
  <2>7. CASE RevokeDelete(r)
    BY <1>1, <1>2, <1>keep, <2>7
       DEF RevokeDelete, Progress, Began, Places, AccessDone, Request
  <2>8. CASE RevokeMark(r) BY <1>answer, <2>8 DEF RevokeMark
  <2>9. QED
    BY <1>guarded, <2>1, <2>2, <2>3, <2>4, <2>5, <2>6, <2>7, <2>8 DEF Guarded
<1>stutter. CASE UNCHANGED vars BY <1>keep, <1>stutter DEF vars, control
<1>3. QED
  BY <1>tick, <1>start, <1>fail, <1>login, <1>refresh, <1>logout, <1>guarded, <1>stutter
     DEF Next

-----------------------------------------------------------------------------
(* The invariants about retired tokens are inductive.                         *)

\* An id is minted only once, by the refresh that drew it.
LEMMA MintInvInductive ==
  ASSUME TypeInv, LifeInv, EntryInv, [Next]_vars
  PROVE  MintUnheld' /\ MintDistinct'
<1>1. /\ GoodReqs /\ req \in [Reqs -> Request] /\ held \cap Jtis \subseteq drawn
      /\ \A r \in Reqs : req[r].at = "mint" =>
           req[r].new \in Jtis /\ req[r].new \in drawn /\ req[r].new \notin held
  BY DEF TypeInv, GoodReqs, GoodRequest, WellFormed, LifeInv, HeldDrawn, MintDrawn,
         EntryInv, MintUnheld
<1>2. ASSUME NEW q \in Reqs, req'[q].at = "mint"
      PROVE  (req[q].at = "mint" /\ req'[q].new = req[q].new) \/ RefreshAdd(q)
  BY <1>2, EveryProgress DEF Progress, Began, Places, SameFields, Advanced, AccessDone
<1>3. ASSUME NEW q \in Reqs, RefreshAdd(q)
      PROVE  /\ req'[q].new \notin drawn /\ req'[q].new \in Jtis
             /\ held' = held /\ \A r \in Reqs : r # q => req'[r] = req[r]
  <2>1. PICK j \in Fresh(req[q].sub) : req' = [req EXCEPT ![q].at = "mint", ![q].new = j]
    BY <1>3 DEF RefreshAdd
  <2>2. req'[q].new = j BY <1>1, <2>1 DEF Request
  <2>3. QED BY <1>1, <1>3, <2>1, <2>2 DEF RefreshAdd, Fresh
<1>4. MintUnheld'
  <2> SUFFICES ASSUME NEW q \in Reqs, req'[q].at = "mint" PROVE req'[q].new \notin held'
    BY DEF MintUnheld
  <2>1. CASE RefreshAdd(q) BY <1>1, <1>3, <2>1
  <2>2. CASE req[q].at = "mint" /\ req'[q].new = req[q].new
    <3>1. CASE UNCHANGED held BY <1>1, <2>2, <3>1
    <3>2. ASSUME NEW r \in Reqs, LoginIssue(r) PROVE req'[q].new \notin held'
      <4>1. PICK j \in Fresh(req[r].sub) : held' = held \cup {j, Access(req[r].sub)}
        BY <3>2 DEF LoginIssue
      <4>2. Access(req[r].sub) \in AccessToken
        BY <1>1, <3>2 DEF LoginIssue, At, GoodReqs, GoodRequest, WellFormed, Access,
                          AccessToken, TypeInv, TypeOK, StoreTypeOK
      <4>3. QED BY <1>1, <2>2, <4>1, <4>2, TokenAssumption DEF Fresh
    <3>3. ASSUME NEW r \in Reqs, RefreshMint(r) PROVE req'[q].new \notin held'
      <4>1. Access(req[r].sub) \in AccessToken
        BY <1>1, <3>3, SubAssumption
           DEF RefreshMint, At, GoodReqs, GoodRequest, WellFormed, SessionSteps, Access,
               AccessToken, TypeInv, TypeOK, StoreTypeOK
      <4>2. r # q /\ req[r].at = "mint"
        BY <1>1, <3>3 DEF RefreshMint, At, Answer, Idle
      <4>3. req[r].new # req[q].new BY <2>2, <4>2 DEF EntryInv, MintDistinct
      <4>4. QED BY <1>1, <2>2, <3>3, <4>1, <4>3, TokenAssumption DEF RefreshMint
    <3>4. QED BY <3>1, <3>2, <3>3, OnlyIssuesAreHeld
  <2>3. QED BY <1>2, <2>1, <2>2
<1>5. MintDistinct'
  <2> SUFFICES ASSUME NEW q \in Reqs, NEW r \in Reqs, r # q,
                      req'[q].at = "mint", req'[r].at = "mint"
               PROVE  req'[r].new # req'[q].new
    BY DEF MintDistinct
  <2>1. CASE RefreshAdd(q) BY <1>1, <1>3, <2>1
  <2>2. CASE RefreshAdd(r) BY <1>1, <1>3, <2>2
  <2>3. CASE ~RefreshAdd(q) /\ ~RefreshAdd(r)
    BY <1>2, <2>3 DEF EntryInv, MintDistinct
  <2>4. QED BY <2>1, <2>2, <2>3
<1>6. QED BY <1>4, <1>5

LEMMA LongEnoughInductive ==
  ASSUME TypeInv, LifeInv, EntryInv, [Next]_vars
  PROVE  ExpBounded' /\ BlacklistedHeld' /\ LongEnough'
<1>1. /\ now \in Nat /\ RefreshTTL \in Nat \ {0} /\ blacklist \in [Token -> Nat]
      /\ refreshExp \in [Jtis -> Nat]
      /\ \A a \in AccessToken : a \in Token /\ a \notin Jtis /\ AccessExp(a) \in Nat
                                /\ TokenExp(a) = AccessExp(a)
      /\ \A j \in Jtis : j \in Token /\ TokenExp(j) = refreshExp[j]
  BY Positive
<1>2. /\ \A j \in Jtis : blacklist[j] # 0 => j \in held
      /\ \A j \in Jtis : refreshExp[j] <= now + RefreshTTL
      /\ \A t \in Token : blacklist[t] # 0 => TokenExp(t) <= blacklist[t]
  BY DEF EntryInv, BlacklistedHeld, ExpBounded, LongEnough
\* The claims after a token was signed for id j, and the rest alike.
<1>sign. ASSUME NEW j \in Jtis, j \notin held, now' = now,
                refreshExp' = [refreshExp EXCEPT ![j] = now + RefreshTTL]
         PROVE  /\ ExpBounded'
                /\ \A t \in Token : blacklist[t] # 0 => TokenExp(t)' = TokenExp(t)
  <2>1. \A i \in Jtis : refreshExp'[i] = IF i = j THEN now + RefreshTTL ELSE refreshExp[i]
    BY <1>1, <1>sign
  <2>2. ExpBounded' BY <1>1, <1>2, <1>sign, <2>1 DEF ExpBounded
  <2>3. \A t \in Token : blacklist[t] # 0 => TokenExp(t)' = TokenExp(t)
    BY <1>1, <1>2, <1>sign, <2>1 DEF TokenExp
  <2>4. QED BY <2>2, <2>3
<1>3. held \subseteq held' BY StepIsEntryMove DEF EntryMove
<1>4. CASE now' \in Nat /\ now <= now' /\ UNCHANGED tokenState
  BY <1>1, <1>2, <1>4
     DEF tokenState, ExpBounded, BlacklistedHeld, LongEnough, TokenExp
<1>5. ASSUME NEW r \in Reqs, LoginIssue(r)
      PROVE  ExpBounded' /\ BlacklistedHeld' /\ LongEnough'
  <2>1. PICK j \in Fresh(req[r].sub) :
          /\ refreshExp' = [refreshExp EXCEPT ![j] = now + RefreshTTL]
          /\ AddRefreshSession(j, RefreshTTL)
    BY <1>5 DEF LoginIssue
  <2>2. j \in Jtis /\ j \notin held BY DEF Fresh, LifeInv, HeldDrawn
  <2>3. now' = now /\ blacklist' = blacklist BY <2>1 DEF AddRefreshSession
  <2>4. QED
    BY <1>2, <1>3, <1>sign, <2>1, <2>2, <2>3 DEF BlacklistedHeld, LongEnough
<1>6. ASSUME NEW r \in Reqs, NEW t \in Token, Add(t, RefreshTTL), t \in held \cap Jtis
      PROVE  /\ now' = now /\ BlacklistedHeld'
             /\ \A s \in Token : blacklist'[s] = IF s = t THEN now + RefreshTTL ELSE blacklist[s]
             /\ TokenExp(t) <= now + RefreshTTL
  <2>1. /\ now' = now
        /\ \A s \in Token : blacklist'[s] = IF s = t THEN now + RefreshTTL ELSE blacklist[s]
    BY <1>1, <1>6, AddEntry
  <2>2. QED BY <1>1, <1>2, <1>3, <1>6, <2>1 DEF BlacklistedHeld
<1>7. ASSUME NEW r \in Reqs, RefreshMint(r)
      PROVE  ExpBounded' /\ BlacklistedHeld' /\ LongEnough'
  <2>1. /\ req[r].jti \in Jtis /\ req[r].new \in Jtis /\ req[r].new \notin held
        /\ req[r].jti \in held
    BY <1>7, RequestFacts, NoneAssumption
       DEF RefreshMint, At, TypeInv, WellFormed, SessionSteps, EntryInv, MintUnheld,
           PresentedHeld, Token
  <2>2. /\ Add(req[r].jti, RefreshTTL)
        /\ refreshExp' = [refreshExp EXCEPT ![req[r].new] = now + RefreshTTL]
    BY <1>7 DEF RefreshMint, BlacklistTTL
  <2>3. /\ now' = now /\ BlacklistedHeld'
        /\ \A s \in Token : blacklist'[s] = IF s = req[r].jti THEN now + RefreshTTL
                                                              ELSE blacklist[s]
        /\ TokenExp(req[r].jti) <= now + RefreshTTL
    BY <1>1, <1>6, <2>1, <2>2
  <2>4. /\ ExpBounded'
        /\ \A t \in Token : blacklist[t] # 0 => TokenExp(t)' = TokenExp(t)
    BY <1>sign, <2>1, <2>2, <2>3
  <2>5. \A t \in Token : t = req[r].jti => TokenExp(t)' = TokenExp(t)
    BY <1>1, <2>1, <2>2 DEF TokenExp
  <2>6. LongEnough' BY <1>2, <2>3, <2>4, <2>5 DEF LongEnough
  <2>7. QED BY <2>3, <2>4, <2>6
<1>8. ASSUME NEW r \in Reqs, LogoutBlacklist(r)
      PROVE  ExpBounded' /\ BlacklistedHeld' /\ LongEnough'
  <2>1. req[r].jti \in Jtis /\ req[r].jti \in held
    BY <1>8, RequestFacts, NoneAssumption
       DEF LogoutBlacklist, At, TypeInv, WellFormed, EntryInv, PresentedHeld, Token
  <2>2. Add(req[r].jti, RefreshTTL) /\ refreshExp' = refreshExp
    BY <1>8 DEF LogoutBlacklist, BlacklistTTL
  <2>3. /\ now' = now /\ BlacklistedHeld'
        /\ \A s \in Token : blacklist'[s] = IF s = req[r].jti THEN now + RefreshTTL
                                                              ELSE blacklist[s]
        /\ TokenExp(req[r].jti) <= now + RefreshTTL
    BY <1>1, <1>6, <2>1, <2>2
  <2>4. \A t \in Token : TokenExp(t)' = TokenExp(t) BY <2>2 DEF TokenExp
  <2>5. LongEnough' BY <1>2, <2>3, <2>4 DEF LongEnough
  <2>6. ExpBounded' BY <1>2, <2>2, <2>3 DEF ExpBounded
  <2>7. QED BY <2>3, <2>5, <2>6
<1>9. ASSUME NEW r \in Reqs, LogoutBlacklistAccess(r)
      PROVE  ExpBounded' /\ BlacklistedHeld' /\ LongEnough'
  <2>1. UNCHANGED <<held, refreshExp>> BY <1>9 DEF LogoutBlacklistAccess
  <2>2. CASE UNCHANGED storeVars
    BY <1>2, <2>1, <2>2 DEF storeVars, ExpBounded, BlacklistedHeld, LongEnough, TokenExp
  <2>3. CASE ~UNCHANGED storeVars
    <3> DEFINE a == req[r].acc
    <3>1. /\ a \in AccessToken /\ TokenTTL(a) \in Nat \ {0}
          /\ now + TokenTTL(a) = AccessExp(a) /\ Add(a, TokenTTL(a))
      BY <1>9, <2>3, AccessEntry DEF LogoutBlacklistAccess
    <3>2. /\ now' = now /\ blacklist'[a] = now + TokenTTL(a)
          /\ \A s \in Token : s # a => blacklist'[s] = blacklist[s]
      BY <1>1, <3>1, AddEntry
    <3>3. \A t \in Token : TokenExp(t)' = TokenExp(t) BY <2>1 DEF TokenExp
    <3>4. ExpBounded' BY <1>2, <2>1, <3>2 DEF ExpBounded
    <3>5. BlacklistedHeld' BY <1>1, <1>2, <2>1, <3>1, <3>2 DEF BlacklistedHeld
    <3>6. LongEnough'
      <4>1. TokenExp(a) <= blacklist'[a] BY <1>1, <3>1, <3>2
      <4>2. \A s \in Token : s # a /\ blacklist'[s] # 0 => TokenExp(s) <= blacklist'[s]
        BY <1>2, <3>2
      <4>3. QED BY <3>3, <4>1, <4>2 DEF LongEnough
    <3>7. QED BY <3>4, <3>5, <3>6
  <2>4. QED BY <2>2, <2>3
<1>10. ASSUME NEW r \in Reqs, LogoutCheckBlacklist(r) \/ LogoutRemove(r)
       PROVE  ExpBounded' /\ BlacklistedHeld' /\ LongEnough'
  <2>1. UNCHANGED <<now, blacklist, refreshExp, held>>
    BY <1>10 DEF LogoutCheckBlacklist, LogoutRemove, RemoveRefreshSession, storeVars
  <2>2. QED BY <1>2, <2>1 DEF ExpBounded, BlacklistedHeld, LongEnough, TokenExp
<1>11. QED
  BY <1>4, <1>5, <1>7, <1>8, <1>9, <1>10, StepIsTokenMove DEF TokenMove

LEMMA EntryInvInductive ==
  ASSUME TypeInv, LifeInv, EntryInv, [Next]_vars
  PROVE  EntryInv'
<1>1. held \subseteq held' BY StepIsEntryMove DEF EntryMove
<1>2. \A q \in Reqs : RequestMove(q) BY RequestMoves
<1>3. PresentedHeld' BY <1>1, <1>2 DEF EntryInv, PresentedHeld, RequestMove
<1>4. QED BY <1>3, MintInvInductive, LongEnoughInductive DEF EntryInv

LEMMA BarredStays ==
  ASSUME TypeInv, EntryMove, NEW t \in AccessToken \cup (held \cap Jtis), Barred(t)
  PROVE  Barred(t)'
<1>1. now \in Nat /\ now' \in Nat /\ now <= now' /\ t \in Token
  BY Positive DEF EntryMove, Token
<1>2. TokenExp(t)' = TokenExp(t) /\ TokenExp(t) \in Nat
  BY <1>1, Positive DEF EntryMove, TokenExp
<1>3. QED BY <1>1, <1>2 DEF EntryMove, Barred

LEMMA RetireInvInductive ==
  ASSUME TypeInv, LifeInv, EntryInv, RetireInv, [Next]_vars
  PROVE  RetireInv'
<1>1. EntryMove BY StepIsEntryMove
<1>2. /\ \A r \in Reqs : /\ req[r].acc # None => req[r].acc \in AccessToken
                         /\ req[r].jti # None => req[r].jti \in held \cap Jtis
                         /\ req[r].at \in {"blacklist", "drop"} => req[r].jti \in Jtis
      /\ None \notin Jtis
  BY RequestFacts, NoneAssumption DEF TypeInv, Request, WellFormed, EntryInv, PresentedHeld, Token
<1>3. \A t \in AccessToken \cup (held \cap Jtis) : Barred(t) => Barred(t)'
  BY <1>1, BarredStays
<1>4. /\ now \in Nat /\ RefreshTTL \in Nat \ {0}
      /\ \A a \in AccessToken : a \in Token /\ TokenExp(a) = AccessExp(a) /\ AccessExp(a) \in Nat
  BY Positive
<1>mint. ASSUME NEW r \in Reqs, RefreshMint(r) \/ LogoutBlacklist(r)
         PROVE  req[r].jti \in held \cap Jtis /\ blacklist'[req[r].jti] # 0
  <2>1. req[r].jti \in held \cap Jtis
    BY <1>2, <1>mint, RequestFacts
       DEF RefreshMint, LogoutBlacklist, At, TypeInv, WellFormed, SessionSteps
  <2>2. Add(req[r].jti, RefreshTTL)
    BY <1>mint DEF RefreshMint, LogoutBlacklist, BlacklistTTL
  <2>3. blacklist'[req[r].jti] = now + RefreshTTL
    BY <1>4, <2>1, <2>2, AddEntry DEF Token
  <2>4. QED BY <1>4, <2>1, <2>3
<1>access. \A q \in Reqs : req'[q].acc # None => req'[q].acc \in AccessToken
  <2>1. GoodReqs' BY TypeInvInductive DEF TypeInv
  <2>2. QED BY <2>1 DEF GoodReqs, GoodRequest, Request
<1>5. AccessBarred'
  <2> SUFFICES ASSUME NEW q \in Reqs, req'[q].at \in AccessDone, req'[q].acc # None
               PROVE  \A t \in AccessToken : t = req'[q].acc => Barred(t)'
    BY <1>access DEF AccessBarred
  <2>1. /\ req'[q].acc = req[q].acc
        /\ \/ req[q].at \in AccessDone
           \/ LogoutBlacklistAccess(q)
    BY EveryProgress
       DEF Progress, Began, Places, AccessDone, SameFields, Advanced, LogoutBlacklist, At
  <2>2. CASE req[q].at \in AccessDone
    BY <1>2, <1>3, <2>1, <2>2 DEF RetireInv, AccessBarred
  <2>3. CASE LogoutBlacklistAccess(q)
    <3>1. CASE AccessExp(req[q].acc) <= now
      BY <1>2, <1>3, <1>4, <2>1, <3>1 DEF Barred
    <3>2. CASE ~(AccessExp(req[q].acc) <= now)
      <4> DEFINE a == req[q].acc
      <4>1. a \in AccessToken /\ TokenTTL(a) \in Nat \ {0} /\ Add(a, TokenTTL(a))
        BY <2>1, <2>3, <3>2, AccessEntry
      <4>2. blacklist'[a] = now + TokenTTL(a) BY <1>4, <4>1, AddEntry
      <4>3. blacklist'[a] # 0 BY <1>4, <4>1, <4>2
      <4>4. QED BY <2>1, <4>3 DEF Barred
    <3>3. QED BY <3>1, <3>2
  <2>4. QED BY <2>1, <2>2, <2>3
<1>6. RefreshBarred'
  <2> SUFFICES ASSUME NEW q \in Reqs, req'[q].at = "drop" PROVE blacklist'[req'[q].jti] # 0
    BY DEF RefreshBarred
  <2>1. req'[q].jti = req[q].jti /\ (req[q].at = "drop" \/ LogoutBlacklist(q))
    BY EveryProgress DEF Progress, Began, Places, AccessDone, SameFields, Advanced
  <2>2. CASE req[q].at = "drop"
    BY <1>1, <1>2, <2>1, <2>2 DEF RetireInv, RefreshBarred, EntryMove, Token
  <2>3. CASE LogoutBlacklist(q) BY <1>mint, <2>1, <2>3
  <2>4. QED BY <2>1, <2>2, <2>3
\* What a step retires is barred, and was held.
<1>7. ASSUME NEW t \in retired' \ retired
      PROVE  t \in AccessToken \cup (held \cap Jtis) /\ Barred(t)'
  <2>1. CASE UNCHANGED retired BY <1>7, <2>1
  <2>2. ASSUME NEW r \in Reqs, RefreshMint(r)
        PROVE  t \in AccessToken \cup (held \cap Jtis) /\ Barred(t)'
    <3>1. t = req[r].jti BY <1>7, <2>2 DEF RefreshMint
    <3>2. QED BY <1>mint, <2>2, <3>1 DEF Barred
  <2>3. ASSUME NEW r \in Reqs, LogoutCheckBlacklist(r)
        PROVE  t \in AccessToken \cup (held \cap Jtis) /\ Barred(t)'
    <3>1. /\ req[r].at = "seen" /\ t \in {req[r].acc, req[r].jti} \cap Token
          /\ req[r].jti # None => Exists(req[r].jti)
      BY <1>7, <2>3 DEF LogoutCheckBlacklist, At, Retire
    <3>0. t # None
      BY <3>1, NoneAssumption
    <3>2. CASE t = req[r].acc
      <4>1. req[r].acc # None BY <3>1, <3>2, NoneAssumption
      <4>2. Barred(t) BY <3>1, <3>2, <4>1 DEF RetireInv, AccessBarred, AccessDone
      <4>3. QED BY <1>2, <1>3, <3>2, <4>1, <4>2
    <3>3. CASE t = req[r].jti
      <4>1. t \in held \cap Jtis BY <1>2, <3>0, <3>1, <3>3
      <4>2. Barred(t) BY <1>4, <3>0, <3>1, <3>3 DEF Exists, Live, Barred
      <4>3. QED BY <1>3, <4>1, <4>2
    <3>4. QED BY <3>1, <3>2, <3>3
  <2>4. ASSUME NEW r \in Reqs, LogoutRemove(r)
        PROVE  t \in AccessToken \cup (held \cap Jtis) /\ Barred(t)'
    <3>1. req[r].at = "drop" /\ t \in {req[r].acc, req[r].jti} \cap Token
      BY <1>7, <2>4 DEF LogoutRemove, At, Retire
    <3>2. CASE t = req[r].acc
      <4>1. req[r].acc # None BY <3>1, <3>2, NoneAssumption
      <4>2. Barred(t) BY <3>1, <3>2, <4>1 DEF RetireInv, AccessBarred, AccessDone
      <4>3. QED BY <1>2, <1>3, <3>2, <4>1, <4>2
    <3>3. CASE t = req[r].jti
      <4>1. t \in held \cap Jtis BY <1>2, <3>1, <3>3
      <4>2. Barred(t) BY <3>1, <3>3 DEF RetireInv, RefreshBarred, Barred
      <4>3. QED BY <1>3, <4>1, <4>2
    <3>4. QED BY <3>1, <3>2, <3>3
  <2>5. ASSUME NEW r \in Reqs, LoginIssue(r) \/ LogoutBlacklistAccess(r) \/ LogoutBlacklist(r)
        PROVE  UNCHANGED retired
    BY <2>5 DEF LoginIssue, LogoutBlacklistAccess, LogoutBlacklist, history
  <2>6. QED
    BY <2>1, <2>2, <2>3, <2>4, <2>5, StepIsTokenMove DEF TokenMove, tokenState
<1>8. \A t \in retired : t \in AccessToken \cup (held \cap Jtis)
  BY DEF TypeInv, TypeOK, Token, RetireInv, RetiredHeld
<1>9. RetiredBarred' BY <1>3, <1>7, <1>8 DEF RetireInv, RetiredBarred
<1>10. RetiredHeld'
  BY <1>1, <1>7, <1>8, TokenAssumption DEF RetiredHeld, EntryMove
<1>11. QED BY <1>5, <1>6, <1>9, <1>10 DEF RetireInv

-----------------------------------------------------------------------------
(* What follows for the tokens that were retired.                             *)

LEMMA BarredRefused ==
  ASSUME TypeInv, EntryInv, RetireInv, NEW t \in retired, now < TokenExp(t)
  PROVE  Exists(t)
<1>1. t \in Token /\ Barred(t) BY DEF TypeInv, TypeOK, RetireInv, RetiredBarred
<1>2. now \in Nat /\ TokenExp(t) \in Nat /\ blacklist[t] \in Nat
  BY <1>1, Positive DEF Token
<1>3. blacklist[t] # 0 BY <1>1, <1>2 DEF Barred
<1>4. TokenExp(t) <= blacklist[t] BY <1>1, <1>3 DEF EntryInv, LongEnough
<1>5. QED BY <1>2, <1>4 DEF Exists, Live

LEMMA StaleInvInductive ==
  ASSUME TypeInv, LifeInv, EntryInv, RetireInv, StaleInv, [Next]_vars
  PROVE  StaleInv'
<1>1. now \in Nat /\ now' \in Nat /\ now <= now' /\ retired \subseteq retired'
  BY StepIsEntryMove, Positive DEF EntryMove
<1>2. StaleRefresh'
  <2> SUFFICES ASSUME NEW q \in Reqs, req'[q].at \in {"active", "unrevoked"}
               PROVE  req'[q].stale \subseteq {req'[q].jti} \cap retired'
    BY DEF StaleRefresh
  <2>1. \/ req'[q].stale = {req'[q].jti} \cap retired
        \/ SameFields(q) /\ req[q].at \in {"active", "unrevoked"}
    BY EveryProgress DEF Progress, Began, Places, AccessDone, Advanced
  <2>2. QED BY <1>1, <2>1 DEF SameFields, StaleInv, StaleRefresh
<1>3. StaleAccess'
  <2> SUFFICES ASSUME NEW q \in Reqs, req'[q].at = "bearer"
               PROVE  req'[q].stale \subseteq {req'[q].acc} \cap retired'
    BY DEF StaleAccess
  <2>1. \/ req'[q].stale = {req'[q].acc} \cap retired
        \/ SameFields(q) /\ req[q].at = "bearer"
    BY EveryProgress DEF Progress, Began, Places, AccessDone, Advanced
  <2>2. QED BY <1>1, <2>1 DEF SameFields, StaleInv, StaleAccess
<1>4. StaleExpired'
  <2> SUFFICES ASSUME NEW q \in Reqs, req'[q].at \in {"decode", "marker"}, req'[q].stale # {}
               PROVE  AccessExp(req'[q].acc) <= now'
    BY DEF StaleExpired, AccessExp
  <2>1. /\ SameFields(q)
        /\ \/ req[q].at \in {"decode", "marker"}
           \/ req[q].at = "bearer" /\ ~Exists(req[q].acc)
    BY EveryProgress DEF Progress, Began, Places, AccessDone, Advanced
  <2>2. req[q].acc \in AccessToken
    BY <2>1, RequestFacts DEF TypeInv, WellFormed, GuardedSteps
  <2>3. AccessExp(req[q].acc) <= now
    <3>1. CASE req[q].at \in {"decode", "marker"}
      BY <2>1, <3>1 DEF SameFields, StaleInv, StaleExpired
    <3>2. CASE req[q].at = "bearer" /\ ~Exists(req[q].acc)
      <4>1. req[q].acc \in retired
        BY <2>1, <3>2 DEF SameFields, StaleInv, StaleAccess
      <4>2. ~(now < TokenExp(req[q].acc)) BY <3>2, <4>1, BarredRefused
      <4>3. QED BY <2>2, <4>2, Positive
    <3>3. QED BY <2>1, <3>1, <3>2
  <2>4. QED BY <1>1, <2>1, <2>2, <2>3, Positive DEF SameFields
<1>5. QED BY <1>2, <1>3, <1>4 DEF StaleInv

LEMMA RetirementInvariant == Spec => [](EntryInv /\ RetireInv /\ StaleInv)
<1>1. Init => EntryInv /\ RetireInv /\ StaleInv
  <2> SUFFICES ASSUME Init PROVE EntryInv /\ RetireInv /\ StaleInv
    OBVIOUS
  <2>1. EntryInv
    BY MaxTimeAssumption, TTLAssumption
       DEF Init, StoreInit, Idle, EntryInv, ExpBounded, PresentedHeld, MintUnheld,
           MintDistinct, BlacklistedHeld, LongEnough, Token
  <2>2. RetireInv /\ StaleInv
    BY DEF Init, StoreInit, Idle, RetireInv, AccessBarred, AccessDone, RefreshBarred,
           RetiredBarred, RetiredHeld, StaleInv, StaleRefresh, StaleAccess, StaleExpired
  <2>3. QED BY <2>1, <2>2
<1>2. TypeInv /\ LifeInv /\ (EntryInv /\ RetireInv /\ StaleInv) /\ [Next]_vars
        => (EntryInv /\ RetireInv /\ StaleInv)'
  BY EntryInvInductive, RetireInvInductive, StaleInvInductive
<1>3. QED BY <1>1, <1>2, TypeInvAlways, LifeInvAlways, PTL DEF Spec

\* The blacklist TTLs that refresh and logout choose are long enough: an entry
\* for a retired token is there until decode_token refuses the token by itself.
THEOREM RetiredTokensStayBlacklisted == Spec => []RetiredStaysBlacklisted
<1>1. TypeInv /\ EntryInv /\ RetireInv => RetiredStaysBlacklisted
  BY BarredRefused DEF RetiredStaysBlacklisted
<1>2. QED BY <1>1, TypeInvAlways, RetirementInvariant, PTL

\* No race between the separate checks of a request lets a token through that
\* was retired before the request began.
THEOREM RetiredTokensNeverHonoured == Spec => RetiredNeverHonoured
<1> DEFINE Refused == \A r \in Reqs :
      Honoured(r) /\ req[r].stale # {} => now >= TokenExp(Credential(r))
<1>1. ASSUME TypeInv, EntryInv, RetireInv, StaleInv, [Next]_vars PROVE Refused
  <2> SUFFICES ASSUME NEW r \in Reqs, Honoured(r), req[r].stale # {}
               PROVE  now >= TokenExp(Credential(r))
    OBVIOUS
  <2>1. req[r] \in Request /\ WellFormed(req[r]) BY <1>1, RequestFacts DEF TypeInv
  <2>2. CASE req[r].at = "unrevoked" /\ req'[r].at = "remove"
    <3>1. ~Exists(req[r].jti) BY <1>1, <2>2, EveryProgress DEF Progress
    <3>2. req[r].jti \in retired BY <1>1, <2>2 DEF StaleInv, StaleRefresh
    <3>3. ~(now < TokenExp(req[r].jti)) BY <1>1, <3>1, <3>2, BarredRefused
    <3>4. req[r].jti \in Jtis /\ Credential(r) = req[r].jti
      BY <2>1, <2>2 DEF WellFormed, SessionSteps, Credential
    <3>5. QED BY <1>1, <3>3, <3>4, Positive
  <2>3. CASE req[r].at = "marker" /\ req'[r].at = "authorised"
    <3>1. AccessExp(req[r].acc) <= now BY <1>1, <2>3 DEF StaleInv, StaleExpired
    <3>2. req[r].acc \in AccessToken /\ Credential(r) = req[r].acc
      BY <2>1, <2>3 DEF WellFormed, GuardedSteps, Credential
    <3>3. QED BY <1>1, <3>1, <3>2, Positive
  <2>4. QED BY <2>2, <2>3 DEF Honoured
<1>2. QED BY <1>1, TypeInvAlways, RetirementInvariant, PTL DEF Spec, RetiredNeverHonoured

-----------------------------------------------------------------------------
(* Which requests must not overlap.  Some promises are kept only while the     *)
(* requests of one user stay out of each other's way.  Each theorem below      *)
(* names the one overlap that would break it; everything else may interleave,  *)
(* fail half way and be retried.                                               *)

\* A refresh that has passed the session check, and has not added the new session.
Rotating == {"unrevoked", "remove", "add"}

\* Two refreshes of one token are never both past the session check.
RefreshesApart ==
  \A r, q \in Reqs : r # q /\ req[r].at \in Rotating /\ req[q].at \in Rotating =>
                       req[r].jti # req[q].jti

\* No session is about to be added between a revoke_all_refresh's two round trips.
AddsApart ==
  \A r, q \in Reqs : req[r].at = "delete" /\ req[q].at \in {"issue", "add"} =>
                       req[r].sub # req[q].sub

\* No login is past its password check, and no refresh past its session check,
\* while a revocation of the same user deletes the sessions and sets the marker.
RevocationsApart ==
  \A r, q \in Reqs :
    req[r].at \in {"delete", "mark"} /\ req[q].at \in {"issue"} \cup Rotating =>
      req[r].sub # req[q].sub

\* No two revocations of a user have read the clock and not yet set the marker.
MarksApart ==
  \A r, q \in Reqs : r # q /\ req[r].at = "mark" /\ req[q].at = "mark" =>
                       req[r].sub # req[q].sub

-----------------------------------------------------------------------------
(* The inductive invariants of the theorems about overlap                     *)

\* A token with a successor has lost its session, so only a refresh that checked
\* before could give it another.
ParentsRemoved ==
  \A j \in Jtis : parent[j] # None => parent[j] \in drawn /\ refreshKey[parent[j]] = 0
NoSuccessorYet ==
  \A r \in Reqs : req[r].at \in Rotating => \A j \in Jtis : parent[j] # req[r].jti

SuccessorInv == SingleSuccessor /\ ParentsRemoved /\ NoSuccessorYet

\* Every active session is in the set of its user, and what SMEMBERS returned
\* covers them until the delete.
Indexed == \A j \in Jtis : IsRefreshActive(j) => j \in refreshSet[Sub[j]]
DeleteCovers ==
  \A r \in Reqs : req[r].at = "delete" =>
    \A j \in Jtis : Sub[j] = req[r].sub /\ IsRefreshActive(j) => j \in req[r].jtis
ExistingOwn ==
  \A r \in Reqs : req[r].existing \subseteq {j \in drawn : Sub[j] = req[r].sub}
MarkClean ==
  \A r \in Reqs : req[r].at = "mark" => \A j \in req[r].existing : ~IsRefreshActive(j)
RevokedDrawn == revoked \subseteq drawn

RevokeInv == Indexed /\ DeleteCovers /\ ExistingOwn /\ MarkClean /\ RevokedDrawn
             /\ RevokedStayDead

\* Whatever still leads to a session has the user's password, or the revocation
\* of a change is owed.
Current(u, p) == p = password[u] \/ u \in owed
MarkEmpty ==
  \A r \in Reqs : req[r].at = "mark" =>
    \A j \in Jtis : Sub[j] = req[r].sub => ~IsRefreshActive(j)
LoginCurrent == \A r \in Reqs : req[r].at = "issue" => Current(req[r].sub, req[r].pw)
RefreshCurrent ==
  \A r \in Reqs : req[r].at \in Rotating => Current(req[r].sub, under[req[r].jti])

PasswordInv == MarkEmpty /\ LoginCurrent /\ RefreshCurrent /\ PasswordChangeRevokes

\* The marker is the latest answered stamp, and outlives the tokens it covers.
CutMarked ==
  \A u \in Users : /\ cutoff[u] <= now
                   /\ 0 <= cutoff[u] => /\ cutoff[u] <= accessRevoked[u].at
                                        /\ cutoff[u] + AccessTTL <= accessRevoked[u].exp
StampsLater ==
  \A r \in Reqs : req[r].at = "mark" => cutoff[req[r].sub] <= req[r].stamp /\ req[r].stamp <= now

CutInv == CutMarked /\ StampsLater

-----------------------------------------------------------------------------
(* How a request comes to a step that matters here, and what a step may do.    *)

Delicate == {"issue", "delete", "mark"} \cup Rotating

\* The request keeps its user, its token and the sessions it found.
SameRequest(q) ==
  /\ req'[q].sub = req[q].sub /\ req'[q].jti = req[q].jti /\ req'[q].pw = req[q].pw
  /\ req'[q].existing = req[q].existing

Arrival(q) ==
  \/ req'[q] = req[q]
  \/ /\ req'[q].at \notin Delicate
     /\ req'[q].existing \subseteq HeldJtis(req'[q].sub) \/ SameRequest(q)
  \/ /\ LoginAuthenticate(q) /\ SameRequest(q)
     /\ req'[q].at = "issue" /\ req[q].pw = password[req[q].sub]
  \/ /\ SameRequest(q) /\ req'[q].at \in Rotating
     /\ req[q].at \in Rotating \/ (RefreshCheckActive(q) /\ IsRefreshActive(req[q].jti))
  \/ /\ RevokeRead(q) \/ RevokeDelete(q)
     /\ req'[q].at \in {"delete", "mark"} /\ SameRequest(q)

LEMMA Arrivals ==
  ASSUME TypeInv, [Next]_vars, NEW q \in Reqs
  PROVE  Arrival(q)
<1>1. req \in [Reqs -> Request] /\ req[q] \in Request
  BY DEF TypeInv, TypeOK
<1>keep. ASSUME req' = req PROVE Arrival(q)
  BY <1>keep DEF Arrival
<1>answer. ASSUME NEW r \in Reqs, Answer(r) PROVE Arrival(q)
  BY <1>1, <1>answer DEF Arrival, Answer, Idle, Delicate, Rotating
<1>goto. ASSUME NEW r \in Reqs, NEW step \in Step \ Delicate, Goto(r, step)
         PROVE  Arrival(q)
  BY <1>1, <1>goto DEF Arrival, Goto, Request, SameRequest
<1>start. ASSUME NEW r \in Reqs, StartRequest(r) PROVE Arrival(q)
  <2>1. ASSUME NEW request, Begin(r, request), request.at \notin Delicate,
               request.existing \subseteq HeldJtis(request.sub)
        PROVE  Arrival(q)
    BY <1>1, <2>1 DEF Arrival, Begin
  <2>2. ASSUME NEW u \in Users, NEW p \in Passwords, StartLogin(r, u, p) PROVE Arrival(q)
    BY <2>1, <2>2 DEF StartLogin, Idle, Delicate, Rotating
  <2>3. ASSUME NEW j \in held \cap Jtis, StartRefresh(r, j) PROVE Arrival(q)
    BY <2>1, <2>3 DEF StartRefresh, Idle, Delicate, Rotating
  <2>4. ASSUME NEW a, NEW j, StartLogout(r, a, j) PROVE Arrival(q)
    BY <2>1, <2>4 DEF StartLogout, Idle, Delicate, Rotating
  <2>5. ASSUME NEW op, NEW a, NEW p, NEW n, StartGuarded(r, op, a, p, n) PROVE Arrival(q)
    BY <2>1, <2>5 DEF StartGuarded, Idle, Delicate, Rotating
  <2>6. QED BY <1>start, <2>2, <2>3, <2>4, <2>5 DEF StartRequest
<1>other. ASSUME NEW r \in Reqs, r # q,
                 Login(r) \/ Refresh(r) \/ Logout(r) \/ Guarded(r) \/ Fail(r)
          PROVE  Arrival(q)
  <2>1. req'[q] = req[q]
    BY <1>1, <1>other
       DEF Login, LoginAuthenticate, LoginIssue, Refresh, RefreshCheckActive,
           RefreshCheckBlacklist, RefreshRemove, RefreshAdd, RefreshMint, Logout,
           LogoutBlacklistAccess, LogoutCheckBlacklist, LogoutVerify, LogoutBlacklist,
           LogoutRemove, Guarded, GuardBlacklist, GuardDecode, GuardMarker, MeAnswer,
           ChangeCommit, RevokeRead, RevokeDelete, RevokeMark, Fail, Goto, Answer
  <2> QED BY <2>1 DEF Arrival
<1>fail. CASE Fail(q) BY <1>answer, <1>fail DEF Fail
<1>login. CASE Login(q)
  <2>1. CASE LoginAuthenticate(q) /\ req[q].pw = password[req[q].sub]
    BY <1>1, <2>1 DEF LoginAuthenticate, Goto, Arrival, SameRequest, Request
  <2>2. CASE LoginIssue(q) \/ (LoginAuthenticate(q) /\ req[q].pw # password[req[q].sub])
    BY <1>answer, <2>2 DEF LoginIssue, LoginAuthenticate
  <2> QED BY <1>login, <2>1, <2>2 DEF Login
<1>refresh. CASE Refresh(q)
  <2>1. ASSUME NEW step \in Rotating, Goto(q, step),
               \/ req[q].at \in Rotating
               \/ RefreshCheckActive(q) /\ IsRefreshActive(req[q].jti)
        PROVE  Arrival(q)
    BY <1>1, <2>1 DEF Goto, Arrival, SameRequest, Request
  <2>2. CASE RefreshCheckActive(q)
    BY <1>answer, <2>1, <2>2 DEF RefreshCheckActive, Rotating
  <2>3. CASE RefreshCheckBlacklist(q)
    BY <1>answer, <2>1, <2>3 DEF RefreshCheckBlacklist, At, Rotating
  <2>4. CASE RefreshRemove(q)
    BY <2>1, <2>4 DEF RefreshRemove, At, Rotating
  <2>5. CASE RefreshAdd(q)
    BY <1>1, <2>5 DEF RefreshAdd, Arrival, SameRequest, Request, Delicate, Rotating
  <2>6. CASE RefreshMint(q)
    BY <1>answer, <2>6 DEF RefreshMint
  <2> QED BY <1>refresh, <2>2, <2>3, <2>4, <2>5, <2>6 DEF Refresh
<1>logout. CASE Logout(q)
  BY <1>answer, <1>goto, <1>logout
     DEF Logout, LogoutBlacklistAccess, LogoutCheckBlacklist, LogoutVerify,
         LogoutBlacklist, LogoutRemove, Step, Delicate, Rotating
<1>guarded. CASE Guarded(q)
  <2>1. CASE GuardDecode(q) /\ now < AccessExp(req[q].acc)
    BY <1>1, <2>1 DEF GuardDecode, Arrival, SameRequest, Request, Delicate, Rotating
  <2>2. CASE RevokeRead(q) \/ RevokeDelete(q)
    BY <1>1, <2>2 DEF RevokeRead, RevokeDelete, Arrival, SameRequest, Request
  <2>3. CASE \/ GuardBlacklist(q) \/ GuardMarker(q) \/ MeAnswer(q) \/ ChangeCommit(q)
             \/ RevokeMark(q) \/ (GuardDecode(q) /\ ~(now < AccessExp(req[q].acc)))
    BY <1>answer, <1>goto, <2>3
       DEF GuardBlacklist, GuardDecode, GuardMarker, MeAnswer, ChangeCommit, RevokeMark,
           Step, Delicate, Rotating
  <2> QED BY <1>guarded, <2>1, <2>2, <2>3 DEF Guarded
<1>quiet. CASE ClockTick \/ UNCHANGED vars
  BY <1>keep, <1>quiet DEF ClockTick, vars, control
<1>3. QED
  BY <1>start, <1>other, <1>fail, <1>login, <1>refresh, <1>logout, <1>guarded, <1>quiet
     DEF Next

\* A step that opens no session, revokes nothing and changes no password.
Calm ==
  /\ UNCHANGED <<drawn, password, parent, under, revoked, cutoff, owed, accessRevoked>>
  /\ \/ \E j \in Jtis : RemoveRefreshSession(j)
     \/ now' \in Nat /\ now <= now' /\ UNCHANGED sessionKeys

LEMMA StepKinds ==
  ASSUME TypeInv, [Next]_vars
  PROVE  \/ Calm
         \/ \E r \in Reqs : \/ LoginIssue(r) \/ RefreshAdd(r)
                          \/ ChangeCommit(r) \/ RevokeDelete(r) \/ RevokeMark(r)
<1>1. GoodReqs /\ now \in Nat
  BY MaxTimeAssumption DEF TypeInv, TypeOK, StoreTypeOK
<1>2. ASSUME UNCHANGED <<storeVars, password, drawn, parent, under, revoked, cutoff, owed>>
      PROVE  Calm
  BY <1>1, <1>2 DEF Calm, storeVars, sessionKeys
<1>3. ASSUME NEW t, NEW ttl, Add(t, ttl),
             UNCHANGED <<password, drawn, parent, under, revoked, cutoff, owed>>
      PROVE  Calm
  BY <1>1, <1>3 DEF Calm, Add, sessionKeys
<1>4. ASSUME NEW j \in Jtis, RemoveRefreshSession(j),
             UNCHANGED <<password, drawn, parent, under, revoked, cutoff, owed>>
      PROVE  Calm
  BY <1>4 DEF Calm, RemoveRefreshSession
<1> USE DEF history
<1>tick. CASE ClockTick
  BY <1>1, <1>tick DEF Calm, ClockTick, Tick, control, sessionKeys
<1>start. ASSUME NEW r \in Reqs, StartRequest(r) \/ Fail(r) PROVE Calm
  BY <1>2, <1>start DEF StartRequest, StartLogin, StartRefresh, StartLogout, StartGuarded, Fail
<1>login. ASSUME NEW r \in Reqs, Login(r), ~LoginIssue(r) PROVE Calm
  BY <1>2, <1>login DEF Login, LoginAuthenticate
<1>refresh. ASSUME NEW r \in Reqs, Refresh(r), ~RefreshAdd(r) PROVE Calm
  <2>1. CASE RefreshCheckActive(r) \/ RefreshCheckBlacklist(r)
    BY <1>2, <2>1 DEF RefreshCheckActive, RefreshCheckBlacklist
  <2>2. CASE RefreshRemove(r)
    BY <1>1, <1>4, <2>2, RequestFacts DEF RefreshRemove, At, WellFormed, SessionSteps
  <2>3. CASE RefreshMint(r) BY <1>3, <2>3 DEF RefreshMint
  <2> QED BY <1>refresh, <2>1, <2>2, <2>3 DEF Refresh
<1>logout. ASSUME NEW r \in Reqs, Logout(r) PROVE Calm
  <2>1. CASE LogoutBlacklistAccess(r) BY <1>2, <1>3, <2>1 DEF LogoutBlacklistAccess
  <2>2. CASE LogoutCheckBlacklist(r) \/ LogoutVerify(r)
    BY <1>2, <2>2 DEF LogoutCheckBlacklist, LogoutVerify
  <2>3. CASE LogoutBlacklist(r) BY <1>3, <2>3 DEF LogoutBlacklist
  <2>4. CASE LogoutRemove(r)
    BY <1>1, <1>4, <2>4, RequestFacts DEF LogoutRemove, At, WellFormed
  <2> QED BY <1>logout, <2>1, <2>2, <2>3, <2>4 DEF Logout
<1>guarded. ASSUME NEW r \in Reqs, Guarded(r),
                   ~ChangeCommit(r) /\ ~RevokeDelete(r) /\ ~RevokeMark(r)
            PROVE  Calm
  BY <1>2, <1>guarded DEF Guarded, GuardBlacklist, GuardDecode, GuardMarker, MeAnswer, RevokeRead
<1>stutter. CASE UNCHANGED vars BY <1>2, <1>stutter DEF vars, control
<1>5. QED
  BY <1>tick, <1>start, <1>login, <1>refresh, <1>logout, <1>guarded, <1>stutter DEF Next

\* What adding the session j by request r is, at a login and at a refresh.
Adds(r, j) ==
  /\ j \in Jtis \ drawn /\ Sub[j] = req[r].sub /\ drawn' = drawn \cup {j}
  /\ AddRefreshSession(j, RefreshTTL)
  /\ UNCHANGED <<password, revoked, cutoff, owed>>
  /\ \/ /\ req[r].at = "issue" /\ UNCHANGED parent
        /\ under' = [under EXCEPT ![j] = req[r].pw]
     \/ /\ req[r].at = "add" /\ parent' = [parent EXCEPT ![j] = req[r].jti]
        /\ under' = [under EXCEPT ![j] = under[req[r].jti]]

LEMMA AddSteps ==
  ASSUME TypeInv, NEW r \in Reqs, LoginIssue(r) \/ RefreshAdd(r)
  PROVE  (\E j \in Jtis : Adds(r, j)) /\ req'[r].at \notin Delicate
<1>1. req \in [Reqs -> Request]
  BY DEF TypeInv, TypeOK
<1>2. req'[r].at \notin Delicate
  BY <1>1 DEF LoginIssue, RefreshAdd, Answer, Idle, Delicate, Rotating, Request
<1>3. \E j \in Jtis : Adds(r, j)
  BY DEF LoginIssue, RefreshAdd, At, Fresh, Adds
<1> QED BY <1>2, <1>3

\* A session that has begun does not come back.
LEMMA DeadStays ==
  ASSUME TypeInv, [Next]_vars, NEW j \in drawn
  PROVE  /\ j \in drawn' /\ (refreshKey[j] = 0 => refreshKey'[j] = 0)
         /\ IsRefreshActive(j)' => IsRefreshActive(j)
<1>1. now \in Nat /\ j \in Jtis /\ refreshKey \in [Jtis -> Nat]
  BY MaxTimeAssumption DEF TypeInv, TypeOK, StoreTypeOK
<1>2. SessionMove BY StepIsSessionMove
<1>3. QED
  BY <1>1, <1>2 DEF SessionMove, AddRefreshSession, RemoveRefreshSession, DeleteSessions,
     sessionKeys, IsRefreshActive, Live

\* A session that lives after a step lived before, or is the one added.
LEMMA Awakenings ==
  ASSUME TypeInv, LifeInv, [Next]_vars, NEW j \in Jtis, IsRefreshActive(j)'
  PROVE  (j \in drawn /\ IsRefreshActive(j)) \/ \E r \in Reqs : Adds(r, j)
<1>1. /\ now \in Nat /\ refreshKey \in [Jtis -> Nat] /\ drawn \in SUBSET Jtis
  BY MaxTimeAssumption DEF TypeInv, TypeOK, StoreTypeOK
<1>2. CASE j \in drawn BY <1>2, DeadStays
<1>3. CASE j \notin drawn
  <2>1. refreshKey[j] = 0 BY <1>3 DEF LifeInv, NeverDrawn
  <2>2. SessionMove BY StepIsSessionMove
  <2>3. j \in drawn'
    BY <1>1, <1>3, <2>1, <2>2
       DEF SessionMove, AddRefreshSession, RemoveRefreshSession, DeleteSessions, sessionKeys,
           IsRefreshActive, Live
  <2>4. \E r \in Reqs : LoginIssue(r) \/ RefreshAdd(r)
    BY <1>3, <2>3, StepKinds DEF Calm, ChangeCommit, RevokeDelete, RevokeMark
  <2> QED BY <1>3, <2>3, <2>4, AddSteps DEF Adds
<1> QED BY <1>2, <1>3

-----------------------------------------------------------------------------
(* Rotation gives a token one successor.                                       *)

LEMMA SuccessorInvInductive ==
  ASSUME TypeInv, LifeInv, SuccessorInv, RefreshesApart, [Next]_vars
  PROVE  SuccessorInv'
<1>1. /\ GoodReqs /\ req \in [Reqs -> Request] /\ drawn \in SUBSET Jtis
      /\ refreshKey \in [Jtis -> Nat] /\ parent \in [Jtis -> Jtis \cup {None}]
      /\ None \notin Jtis /\ now \in Nat
  BY MaxTimeAssumption, NoneAssumption
     DEF TypeInv, TypeOK, StoreTypeOK, GoodReqs, GoodRequest, Token
<1>2. CASE UNCHANGED parent
  <2>1. SingleSuccessor' BY <1>2 DEF SuccessorInv, SingleSuccessor
  <2>2. ParentsRemoved' BY <1>1, <1>2, DeadStays DEF SuccessorInv, ParentsRemoved
  <2>3. NoSuccessorYet'
    <3> SUFFICES ASSUME NEW q \in Reqs, req'[q].at \in Rotating, NEW j \in Jtis
                 PROVE  parent[j] # req'[q].jti
      BY <1>2 DEF NoSuccessorYet
    <3>1. Arrival(q) BY Arrivals
    <3>2. CASE req[q].at \in Rotating /\ req'[q].jti = req[q].jti
      BY <3>2 DEF SuccessorInv, NoSuccessorYet
    <3>3. CASE RefreshCheckActive(q) /\ IsRefreshActive(req[q].jti) /\ req'[q].jti = req[q].jti
      <4>1. req[q].jti \in Jtis
        BY <1>1, <3>3, RequestFacts DEF RefreshCheckActive, At, WellFormed, SessionSteps
      <4>2. refreshKey[req[q].jti] # 0
        BY <1>1, <3>3, <4>1 DEF IsRefreshActive, Live
      <4> QED BY <1>1, <3>3, <4>1, <4>2 DEF SuccessorInv, ParentsRemoved
    <3> QED
      BY <3>1, <3>2, <3>3
         DEF Arrival, SameRequest, Delicate, Rotating
  <2> QED BY <2>1, <2>2, <2>3 DEF SuccessorInv
<1>3. ASSUME NEW r \in Reqs, RefreshAdd(r) PROVE SuccessorInv'
  <2>1. req[r].at = "add" /\ req[r].jti \in Jtis /\ req[r].jti \in drawn
    BY <1>1, <1>3, RequestFacts
       DEF RefreshAdd, At, WellFormed, SessionSteps, LifeInv, Presented
  <2>2. PICK j \in Jtis : Adds(r, j) BY <1>3, AddSteps
  <2>3. j \notin drawn /\ parent' = [parent EXCEPT ![j] = req[r].jti]
    BY <2>1, <2>2 DEF Adds
  <2>4. refreshKey[req[r].jti] = 0 BY <2>1 DEF LifeInv, RemovedFirst
  <2>5. \A i \in Jtis : parent[i] # req[r].jti
    BY <2>1 DEF SuccessorInv, NoSuccessorYet, Rotating
  <2>6. SingleSuccessor' BY <1>1, <2>1, <2>3, <2>5 DEF SuccessorInv, SingleSuccessor
  <2>7. ParentsRemoved'
    BY <1>1, <2>1, <2>3, <2>4, DeadStays DEF SuccessorInv, ParentsRemoved
  <2>8. NoSuccessorYet'
    <3> SUFFICES ASSUME NEW q \in Reqs, req'[q].at \in Rotating, NEW i \in Jtis
                 PROVE  parent'[i] # req'[q].jti
      BY DEF NoSuccessorYet
    <3>1. q # r BY <1>3, AddSteps DEF Delicate
    <3>2. req'[q] = req[q] BY <1>1, <1>3, <3>1 DEF RefreshAdd
    <3>3. req[q].jti # req[r].jti
      BY <2>1, <3>1, <3>2 DEF RefreshesApart, Rotating
    <3> QED BY <1>1, <2>1, <2>3, <3>2, <3>3 DEF SuccessorInv, NoSuccessorYet
  <2> QED BY <2>6, <2>7, <2>8 DEF SuccessorInv
<1> QED BY <1>2, <1>3, OnlyRefreshesHaveParents

\* One refresh token is exchanged for at most one successor, whatever else
\* overlaps, fails half way or is retried, unless two refreshes that present it
\* are both past enforce_refresh_active, which nothing in the code prevents.
THEOREM RotationIsUnique == Spec /\ []RefreshesApart => []SingleSuccessor
<1>1. Init => SuccessorInv
  BY DEF Init, Idle, Rotating, SuccessorInv, SingleSuccessor, ParentsRemoved, NoSuccessorYet
<1>2. TypeInv /\ LifeInv /\ SuccessorInv /\ RefreshesApart /\ [Next]_vars => SuccessorInv'
  BY SuccessorInvInductive
<1>3. SuccessorInv => SingleSuccessor BY DEF SuccessorInv
<1> QED BY <1>1, <1>2, <1>3, TypeInvAlways, LifeInvAlways, PTL DEF Spec

-----------------------------------------------------------------------------
(* A revocation kills the sessions it was asked to.  The delete covers what     *)
(* SMEMBERS returned a round trip before, and the set listed every session.     *)

LEMMA MembersCover ==
  ASSUME TypeInv, IndexInv, Indexed, NEW j \in Jtis, IsRefreshActive(j)
  PROVE  j \in Members(Sub[j])
<1>1. /\ now \in Nat /\ Sub[j] \in Users
      /\ refreshKey \in [Jtis -> Nat] /\ refreshSetExp \in [Users -> Nat]
  BY MaxTimeAssumption, SubAssumption DEF TypeInv, TypeOK, StoreTypeOK
<1>2. j \in refreshSet[Sub[j]] BY DEF Indexed
<1>3. now < refreshSetExp[Sub[j]]
  BY <1>1, <1>2 DEF IsRefreshActive, Live, IndexInv, IndexOutlivesSessions
<1> QED BY <1>2, <1>3 DEF Members, Live

LEMMA IndexedInductive ==
  ASSUME TypeInv, IndexInv, Indexed, DeleteCovers, [Next]_vars
  PROVE  Indexed'
<1> SUFFICES ASSUME NEW j \in Jtis, IsRefreshActive(j)' PROVE j \in refreshSet'[Sub[j]]
  BY DEF Indexed
<1>1. /\ GoodReqs /\ now \in Nat /\ Sub \in [Jtis -> Users]
      /\ refreshKey \in [Jtis -> Nat] /\ refreshSet \in [Users -> SUBSET Jtis]
  BY MaxTimeAssumption, SubAssumption DEF TypeInv, TypeOK, StoreTypeOK
<1>2. ASSUME NEW r \in Reqs, LoginIssue(r) \/ RefreshAdd(r) PROVE j \in refreshSet'[Sub[j]]
  <2>1. PICK i \in Jtis : AddRefreshSession(i, RefreshTTL) BY <1>2, AddSteps DEF Adds
  <2>2. Sub[i] \in Users BY <1>1
  <2>3. refreshSet'[Sub[i]] = Members(Sub[i]) \cup {i}
    BY <1>1, <2>1, <2>2 DEF AddRefreshSession
  <2>4. CASE j = i BY <2>3, <2>4
  <2>5. CASE j # i
    <3>1. IsRefreshActive(j)
      BY <1>1, <2>1, <2>5 DEF AddRefreshSession, IsRefreshActive, Live
    <3>2. j \in refreshSet[Sub[j]] /\ j \in Members(Sub[j])
      BY <3>1, MembersCover DEF Indexed
    <3> QED BY <1>1, <2>1, <2>2, <2>3, <3>2 DEF AddRefreshSession
  <2> QED BY <2>4, <2>5
<1>3. ASSUME NEW i \in Jtis, RemoveRefreshSession(i) PROVE j \in refreshSet'[Sub[j]]
  <2>1. Sub[i] \in Users BY <1>1
  <2>2. refreshSet'[Sub[i]] = Members(Sub[i]) \ {i}
    BY <1>1, <1>3, <2>1 DEF RemoveRefreshSession
  <2>3. j # i /\ IsRefreshActive(j)
    BY <1>1, <1>3 DEF RemoveRefreshSession, IsRefreshActive, Live
  <2>4. j \in refreshSet[Sub[j]] /\ j \in Members(Sub[j])
    BY <2>3, MembersCover DEF Indexed
  <2> QED BY <1>1, <1>3, <2>1, <2>2, <2>3, <2>4 DEF RemoveRefreshSession
<1>4. ASSUME now' \in Nat, now <= now', UNCHANGED sessionKeys PROVE j \in refreshSet'[Sub[j]]
  BY <1>1, <1>4 DEF sessionKeys, IsRefreshActive, Live, Indexed
<1>5. ASSUME NEW r \in Reqs, RevokeDelete(r) PROVE j \in refreshSet'[Sub[j]]
  <2>1. DeleteSessions(req[r].sub, req[r].jtis) /\ req[r].at = "delete"
    BY <1>5 DEF RevokeDelete
  <2>2. j \notin req[r].jtis /\ IsRefreshActive(j)
    BY <1>1, <2>1 DEF DeleteSessions, IsRefreshActive, Live
  <2>3. Sub[j] # req[r].sub BY <2>1, <2>2 DEF DeleteCovers
  <2> QED BY <1>1, <2>1, <2>2, <2>3 DEF DeleteSessions, Indexed
<1>6. ASSUME NEW r \in Reqs, ChangeCommit(r) \/ RevokeMark(r) PROVE j \in refreshSet'[Sub[j]]
  BY <1>1, <1>4, <1>6 DEF ChangeCommit, RevokeMark, SetAccessRevokedAt, storeVars, sessionKeys
<1> QED BY <1>2, <1>3, <1>4, <1>5, <1>6, StepKinds DEF Calm

\* After SMEMBERS found nothing, or after the delete, the user has no session.
LEMMA RevokeEmpties ==
  ASSUME TypeInv, IndexInv, Indexed, DeleteCovers, NEW r \in Reqs,
         RevokeRead(r) \/ RevokeDelete(r), req'[r].at = "mark",
         NEW j \in Jtis, Sub[j] = req[r].sub
  PROVE  ~IsRefreshActive(j)'
<1>1. /\ req \in [Reqs -> Request] /\ now \in Nat /\ refreshKey \in [Jtis -> Nat]
  BY MaxTimeAssumption DEF TypeInv, TypeOK, StoreTypeOK
<1>2. CASE RevokeRead(r)
  <2>1. Members(req[r].sub) = {}
    BY <1>1, <1>2 DEF RevokeRead, Request
  <2>2. ~IsRefreshActive(j) BY <2>1, MembersCover
  <2> QED BY <1>2, <2>2 DEF RevokeRead, storeVars, IsRefreshActive, Live
<1>3. CASE RevokeDelete(r)
  BY <1>1, <1>3 DEF RevokeDelete, DeleteSessions, DeleteCovers, IsRefreshActive, Live
<1> QED BY <1>2, <1>3

LEMMA RevokeInvInductive ==
  ASSUME TypeInv, LifeInv, IndexInv, RevokeInv, AddsApart, [Next]_vars
  PROVE  RevokeInv'
<1>1. /\ GoodReqs /\ req \in [Reqs -> Request] /\ drawn \in SUBSET Jtis
      /\ refreshKey \in [Jtis -> Nat] /\ now \in Nat
  BY MaxTimeAssumption DEF TypeInv, TypeOK, StoreTypeOK
<1>2. Indexed' BY IndexedInductive DEF RevokeInv
<1>3. DeleteCovers'
  <2> SUFFICES ASSUME NEW q \in Reqs, req'[q].at = "delete", NEW j \in Jtis,
                      Sub[j] = req'[q].sub, IsRefreshActive(j)'
               PROVE  j \in req'[q].jtis
    BY DEF DeleteCovers
  <2>1. CASE RevokeRead(q) /\ SameRequest(q)
    <3>1. IsRefreshActive(j) BY <2>1 DEF RevokeRead, storeVars, IsRefreshActive, Live
    <3>2. j \in Members(req[q].sub)
      BY <2>1, <3>1, MembersCover DEF SameRequest, RevokeInv
    <3> QED BY <1>1, <2>1, <3>2 DEF RevokeRead, Request
  <2>2. CASE req'[q] = req[q]
    <3>1. CASE j \in drawn /\ IsRefreshActive(j)
      BY <2>2, <3>1 DEF RevokeInv, DeleteCovers
    <3>2. ASSUME NEW r \in Reqs, Adds(r, j) PROVE FALSE
      BY <2>2, <3>2 DEF Adds, AddsApart
    <3> QED BY <3>1, <3>2, Awakenings
  <2>3. ASSUME RevokeDelete(q) PROVE FALSE
    BY <1>1, <2>3 DEF RevokeDelete, Request
  <2> QED BY <2>1, <2>2, <2>3, Arrivals DEF Arrival, Delicate, Rotating
<1>4. ExistingOwn'
  <2> SUFFICES ASSUME NEW q \in Reqs
               PROVE  req'[q].existing \subseteq {j \in drawn' : Sub[j] = req'[q].sub}
    BY DEF ExistingOwn
  <2>1. drawn \subseteq drawn' BY DeadStays
  <2> QED
    BY <2>1, Arrivals
       DEF Arrival, SameRequest, HeldJtis, LifeInv, HeldDrawn, RevokeInv, ExistingOwn
<1>5. MarkClean'
  <2> SUFFICES ASSUME NEW q \in Reqs, req'[q].at = "mark", NEW j \in req'[q].existing
               PROVE  ~IsRefreshActive(j)'
    BY DEF MarkClean
  <2>1. CASE req'[q] = req[q]
    BY <1>1, <2>1, DeadStays DEF RevokeInv, MarkClean, ExistingOwn
  <2>2. CASE (RevokeRead(q) \/ RevokeDelete(q)) /\ SameRequest(q)
    BY <1>1, <2>2, RevokeEmpties DEF SameRequest, RevokeInv, ExistingOwn
  <2> QED BY <2>1, <2>2, Arrivals DEF Arrival, Delicate, Rotating
<1>6. RevokedDrawn' /\ RevokedStayDead'
  <2>1. revoked \subseteq drawn' /\ \A j \in revoked : ~IsRefreshActive(j)'
    BY <1>1, DeadStays DEF RevokeInv, RevokedDrawn, RevokedStayDead
  <2>2. ASSUME NEW r \in Reqs, RevokeMark(r)
        PROVE  \A j \in req[r].existing : j \in drawn' /\ ~IsRefreshActive(j)'
    BY <1>1, <2>2, DeadStays DEF RevokeMark, RevokeInv, ExistingOwn, MarkClean
  <2>3. revoked' = revoked \/ \E r \in Reqs : RevokeMark(r)
    BY StepKinds, AddSteps DEF Calm, Adds, ChangeCommit, RevokeDelete, history
  <2> QED BY <2>1, <2>2, <2>3 DEF RevokeMark, RevokedDrawn, RevokedStayDead
<1> QED BY <1>2, <1>3, <1>4, <1>5, <1>6 DEF RevokeInv

LEMMA RevokeInvAlways == Spec /\ []AddsApart => []RevokeInv
<1>1. Init => RevokeInv
  BY DEF Init, StoreInit, Idle, RevokeInv, Indexed, DeleteCovers, ExistingOwn, MarkClean,
     RevokedDrawn, RevokedStayDead, IsRefreshActive, Live
<1>2. TypeInv /\ LifeInv /\ IndexInv /\ RevokeInv /\ AddsApart /\ [Next]_vars => RevokeInv'
  BY RevokeInvInductive
<1> QED BY <1>1, <1>2, TypeInvAlways, LifeInvAlways, IndexInvAlways, PTL DEF Spec

\* The sessions clients held when a logout-all or a password change began are
\* dead from its answer on, whatever else overlaps and fails: the only harm is a
\* session added between SMEMBERS and the delete, which drops it from the index.
THEOREM RevocationKills == Spec /\ []AddsApart => []RevokedStayDead
<1>1. RevokeInv => RevokedStayDead BY DEF RevokeInv
<1> QED BY <1>1, RevokeInvAlways, PTL

-----------------------------------------------------------------------------
(* A password change ends what the old password opened.  A login or a refresh  *)
(* of the user that is past its checks when the sessions go could still add    *)
(* one of its own.                                                             *)

LEMMA ApartImpliesAddsApart == RevocationsApart => AddsApart
  BY DEF RevocationsApart, AddsApart, Rotating

\* Current, after the step.
StillCurrent(u, p) == p = password'[u] \/ u \in owed'

\* What a step may do to the passwords and to the debts.
LEMMA CurrentStays ==
  ASSUME TypeInv, [Next]_vars, NEW u \in Users, NEW p, Current(u, p),
         ~ \E r \in Reqs : RevokeMark(r) /\ req[r].sub = u
  PROVE  StillCurrent(u, p)
<1>1. password \in [Users -> Passwords] BY DEF TypeInv, TypeOK
<1>2. CASE UNCHANGED <<password, owed>> BY <1>2 DEF Current, StillCurrent
<1>3. ASSUME NEW r \in Reqs, ChangeCommit(r) PROVE StillCurrent(u, p)
  BY <1>1, <1>3 DEF ChangeCommit, Current, StillCurrent
<1>4. ASSUME NEW r \in Reqs, RevokeMark(r) PROVE StillCurrent(u, p)
  BY <1>4 DEF RevokeMark, Current, StillCurrent
<1>5. ASSUME NEW r \in Reqs, LoginIssue(r) \/ RefreshAdd(r) \/ RevokeDelete(r)
      PROVE  UNCHANGED <<password, owed>>
  BY <1>5, AddSteps DEF Adds, RevokeDelete, history
<1> QED
  BY <1>2, <1>3, <1>4, <1>5, StepKinds DEF Calm

LEMMA PasswordInvInductive ==
  ASSUME TypeInv, LifeInv, IndexInv, RevokeInv, PasswordInv, RevocationsApart, [Next]_vars
  PROVE  PasswordInv'
<1>1. /\ GoodReqs /\ req \in [Reqs -> Request] /\ drawn \in SUBSET Jtis
      /\ under \in [Jtis -> Passwords \cup {None}] /\ Sub \in [Jtis -> Users]
  BY SubAssumption DEF TypeInv, TypeOK
<1>under. ASSUME NEW j \in drawn PROVE under'[j] = under[j]
  BY <1>1, StepKinds, AddSteps DEF Calm, Adds, ChangeCommit, RevokeDelete, RevokeMark, history
<1>2. MarkEmpty'
  <2> SUFFICES ASSUME NEW q \in Reqs, req'[q].at = "mark",
                      NEW j \in Jtis, Sub[j] = req'[q].sub, IsRefreshActive(j)'
               PROVE  FALSE
    BY DEF MarkEmpty
  <2>1. CASE req'[q] = req[q]
    <3>1. CASE j \in drawn /\ IsRefreshActive(j) BY <2>1, <3>1 DEF PasswordInv, MarkEmpty
    <3>2. ASSUME NEW r \in Reqs, Adds(r, j) PROVE FALSE
      BY <2>1, <3>2 DEF Adds, RevocationsApart, Rotating
    <3> QED BY <3>1, <3>2, Awakenings
  <2>2. CASE (RevokeRead(q) \/ RevokeDelete(q)) /\ SameRequest(q)
    BY <2>2, RevokeEmpties DEF SameRequest, RevokeInv
  <2> QED BY <2>1, <2>2, Arrivals DEF Arrival, Delicate, Rotating
<1>apart. ASSUME NEW q \in Reqs, req[q].at \in {"issue"} \cup Rotating
          PROVE  ~ \E r \in Reqs : RevokeMark(r) /\ req[r].sub = req[q].sub
  BY <1>apart DEF RevokeMark, RevocationsApart
<1>3. LoginCurrent'
  <2> SUFFICES ASSUME NEW q \in Reqs, req'[q].at = "issue"
               PROVE  StillCurrent(req'[q].sub, req'[q].pw)
    BY DEF LoginCurrent, Current, StillCurrent
  <2>1. CASE req'[q] = req[q]
    <3>1. req[q].sub \in Users BY <1>1, <2>1, RequestFacts DEF WellFormed
    <3>2. Current(req[q].sub, req[q].pw) BY <2>1 DEF PasswordInv, LoginCurrent
    <3>3. PICK u \in Users : u = req[q].sub BY <3>1
    <3>4. PICK p : p = req[q].pw OBVIOUS
    <3>5. StillCurrent(u, p) BY <1>apart, <2>1, <3>2, <3>3, <3>4, CurrentStays
    <3> QED BY <2>1, <3>3, <3>4, <3>5
  <2>2. CASE LoginAuthenticate(q) /\ SameRequest(q) /\ req[q].pw = password[req[q].sub]
    BY <2>2 DEF LoginAuthenticate, SameRequest, StillCurrent
  <2> QED BY <2>1, <2>2, Arrivals DEF Arrival, Delicate, Rotating
<1>4. RefreshCurrent'
  <2> SUFFICES ASSUME NEW q \in Reqs, req'[q].at \in Rotating
               PROVE  StillCurrent(req'[q].sub, under'[req'[q].jti])
    BY DEF RefreshCurrent, Current, StillCurrent
  <2>1. CASE req[q].at \in Rotating /\ req'[q].sub = req[q].sub /\ req'[q].jti = req[q].jti
    <3>1. req[q].sub \in Users /\ req[q].jti \in drawn
      BY <1>1, <2>1, RequestFacts, NoneAssumption
         DEF WellFormed, SessionSteps, Rotating, LifeInv, Presented, Token
    <3>2. PICK u \in Users : u = req[q].sub BY <3>1
    <3>3. PICK p : p = under[req[q].jti] OBVIOUS
    <3>4. Current(u, p) BY <2>1, <3>2, <3>3 DEF PasswordInv, RefreshCurrent
    <3>5. StillCurrent(u, p) BY <1>apart, <2>1, <3>2, <3>4, CurrentStays
    <3> QED BY <1>under, <2>1, <3>1, <3>2, <3>3, <3>5
  <2>2. CASE RefreshCheckActive(q) /\ IsRefreshActive(req[q].jti) /\ SameRequest(q)
    <3>1. req[q].jti \in drawn /\ req[q].sub = Sub[req[q].jti]
      BY <1>1, <2>2, RequestFacts, NoneAssumption
         DEF RefreshCheckActive, At, WellFormed, SessionSteps, LifeInv, Presented, Token
    <3> QED
      BY <2>2, <3>1
         DEF RefreshCheckActive, history, SameRequest, PasswordInv,
                        PasswordChangeRevokes, StillCurrent
  <2> QED BY <2>1, <2>2, Arrivals DEF Arrival, SameRequest, Delicate, Rotating
<1>5. PasswordChangeRevokes'
  <2> SUFFICES ASSUME NEW j \in Jtis, j \in drawn', IsRefreshActive(j)'
               PROVE  StillCurrent(Sub[j], under'[j])
    BY <1>1, DeadStays, TypeInvInductive DEF TypeInv, TypeOK, PasswordChangeRevokes, StillCurrent
  <2>1. CASE j \in drawn /\ IsRefreshActive(j)
    <3>1. PICK u \in Users : u = Sub[j] BY <1>1
    <3>2. PICK p : p = under[j] OBVIOUS
    <3>3. Current(u, p) BY <2>1, <3>1, <3>2 DEF PasswordInv, PasswordChangeRevokes, Current
    <3>4. ASSUME NEW r \in Reqs, RevokeMark(r), req[r].sub = u PROVE FALSE
      BY <2>1, <3>1, <3>4 DEF RevokeMark, PasswordInv, MarkEmpty
    <3>5. StillCurrent(u, p) BY <3>3, <3>4, CurrentStays
    <3> QED BY <1>under, <2>1, <3>1, <3>2, <3>5
  <2>2. ASSUME NEW r \in Reqs, Adds(r, j) PROVE StillCurrent(Sub[j], under'[j])
    <3>1. \/ req[r].at = "issue" /\ under'[j] = req[r].pw
          \/ req[r].at = "add" /\ under'[j] = under[req[r].jti]
      BY <1>1, <2>2 DEF Adds
    <3>2. Current(Sub[j], under'[j])
      BY <2>2, <3>1 DEF Adds, PasswordInv, LoginCurrent, RefreshCurrent, Rotating
    <3> QED BY <2>2, <3>2 DEF Adds, Current, StillCurrent
  <2> QED BY <2>1, <2>2, Awakenings
<1> QED BY <1>2, <1>3, <1>4, <1>5 DEF PasswordInv

\* No session opened with a password outlives the change of that password once
\* the revocation is answered, unless a login or a refresh of the user was past
\* its check while the revocation ran.
THEOREM PasswordChangeIsFinal == Spec /\ []RevocationsApart => []PasswordChangeRevokes
<1>1. Init => PasswordInv
  BY DEF Init, Idle, Rotating, PasswordInv, MarkEmpty, LoginCurrent, RefreshCurrent,
         PasswordChangeRevokes
<1>2. TypeInv /\ LifeInv /\ IndexInv /\ RevokeInv /\ PasswordInv /\ RevocationsApart
        /\ [Next]_vars => PasswordInv'
  BY PasswordInvInductive
<1>3. PasswordInv => PasswordChangeRevokes BY DEF PasswordInv
<1> QED
  BY <1>1, <1>2, <1>3, TypeInvAlways, LifeInvAlways, IndexInvAlways, ApartImpliesAddsApart,
     RevokeInvAlways, PTL DEF Spec

-----------------------------------------------------------------------------
(* The marker.  SETEX overwrites, so an older stamp that arrives late would    *)
(* let tokens through that a later revocation had cut off.                     *)

LEMMA CutInvInductive ==
  ASSUME TypeInv, CutInv, MarksApart, [Next]_vars
  PROVE  CutInv'
<1>1. /\ GoodReqs /\ req \in [Reqs -> Request] /\ now \in Nat /\ AccessTTL \in Nat
      /\ cutoff \in [Users -> Int] /\ accessRevoked \in [Users -> [at : Nat, exp : Nat]]
  BY MaxTimeAssumption, TTLAssumption DEF TypeInv, TypeOK, StoreTypeOK
<1>2. ASSUME NEW r \in Reqs, RevokeMark(r) PROVE CutInv'
  <2> DEFINE u == req[r].sub
             s == req[r].stamp
  <2>1. u \in Users /\ s \in Nat /\ cutoff[u] <= s /\ s <= now
    BY <1>1, <1>2, RequestFacts
       DEF RevokeMark, WellFormed, GuardedSteps, Request, CutInv, StampsLater
  <2>2. /\ \A v \in Users : cutoff'[v] = IF v = u THEN s ELSE cutoff[v]
        /\ \A v \in Users : accessRevoked'[v] = IF v = u THEN [at |-> s, exp |-> now + AccessTTL]
                                                        ELSE accessRevoked[v]
        /\ now' = now
    BY <1>1, <1>2, <2>1 DEF RevokeMark, SetAccessRevokedAt
  <2>3. CutMarked' BY <1>1, <2>1, <2>2 DEF CutInv, CutMarked
  <2>4. StampsLater'
    <3> SUFFICES ASSUME NEW q \in Reqs, req'[q].at = "mark"
                 PROVE  cutoff'[req'[q].sub] <= req'[q].stamp /\ req'[q].stamp <= now
      BY <2>2 DEF StampsLater
    <3>1. q # r /\ req'[q] = req[q] /\ req[r].at = "mark"
      BY <1>1, <1>2 DEF RevokeMark, Answer, Idle
    <3>2. req[q].sub \in Users /\ req[q].sub # u
      BY <1>1, <3>1, RequestFacts DEF MarksApart, WellFormed, GuardedSteps
    <3> QED BY <2>2, <3>1, <3>2 DEF CutInv, StampsLater
  <2> QED BY <2>3, <2>4 DEF CutInv
<1>3. CASE UNCHANGED <<cutoff, accessRevoked>> /\ now' \in Nat /\ now <= now'
  <2>1. CutMarked' BY <1>1, <1>3 DEF CutInv, CutMarked
  <2>2. StampsLater'
    <3> SUFFICES ASSUME NEW q \in Reqs, req'[q].at = "mark"
                 PROVE  cutoff[req'[q].sub] <= req'[q].stamp /\ req'[q].stamp <= now'
      BY <1>3 DEF StampsLater
    <3>1. CASE req'[q] = req[q]
      <4>1. /\ req[q].sub \in Users /\ req[q].stamp \in Nat
            /\ cutoff[req[q].sub] <= req[q].stamp /\ req[q].stamp <= now
        BY <1>1, <3>1, RequestFacts DEF CutInv, StampsLater, WellFormed, GuardedSteps, Request
      <4> QED BY <1>1, <1>3, <3>1, <4>1
    <3>2. CASE RevokeRead(q) \/ RevokeDelete(q)
      <4>1. req'[q].stamp = now /\ req'[q].sub = req[q].sub
        BY <1>1, <3>2 DEF RevokeRead, RevokeDelete, Request
      <4>2. req[q].sub \in Users
        BY <1>1, <3>2, RequestFacts DEF RevokeRead, RevokeDelete, At, WellFormed, GuardedSteps
      <4> QED BY <1>1, <1>3, <4>1, <4>2 DEF CutInv, CutMarked
    <3> QED BY <3>1, <3>2, Arrivals DEF Arrival, Delicate, Rotating
  <2> QED BY <2>1, <2>2 DEF CutInv
<1>4. ASSUME NEW r \in Reqs, LoginIssue(r) \/ RefreshAdd(r) \/ ChangeCommit(r) \/ RevokeDelete(r)
      PROVE  UNCHANGED <<cutoff, accessRevoked, now>>
  BY <1>4 DEF LoginIssue, RefreshAdd, AddRefreshSession, ChangeCommit, storeVars, RevokeDelete,
              DeleteSessions, history
<1>5. Calm => UNCHANGED <<cutoff, accessRevoked>> /\ now' \in Nat /\ now <= now'
  BY <1>1 DEF Calm, RemoveRefreshSession
<1> QED BY <1>1, <1>2, <1>3, <1>4, <1>5, StepKinds

\* Once a logout-all or a password change is answered, every unexpired access
\* token issued up to its stamp is refused, unless two of one user had read the
\* clock before either stored its stamp.
THEOREM CutIsFinal == Spec /\ []MarksApart => []AccessCutHolds
<1>1. Init => CutInv
  BY DEF Init, StoreInit, Idle, CutInv, CutMarked, StampsLater
<1>2. TypeInv /\ CutInv /\ MarksApart /\ [Next]_vars => CutInv'
  BY CutInvInductive
<1>3. TypeInv /\ CutInv => AccessCutHolds
  <2> SUFFICES ASSUME TypeInv, CutInv, NEW a \in AccessToken,
                      a.iat <= cutoff[a.sub], now < AccessExp(a)
               PROVE  RevokedSince(a.sub, a.iat)
    BY DEF AccessCutHolds
  <2>1. a.sub \in Users /\ a.iat \in Nat BY MaxTimeAssumption DEF AccessToken
  <2>2. /\ now \in Nat /\ AccessTTL \in Nat /\ cutoff \in [Users -> Int]
        /\ accessRevoked \in [Users -> [at : Nat, exp : Nat]]
    BY MaxTimeAssumption, TTLAssumption DEF TypeInv, TypeOK, StoreTypeOK
  <2> QED BY <2>1, <2>2 DEF CutInv, CutMarked, AccessExp, RevokedSince, Live
<1> QED BY <1>1, <1>2, <1>3, TypeInvAlways, PTL DEF Spec

=============================================================================
