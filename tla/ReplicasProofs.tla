---------------------------- MODULE ReplicasProofs ----------------------------
(***************************************************************************)
(* Proofs about Replicas, for any number of replicas, overlapping requests *)
(* and tokens.  A session is kept in one place, and no place gets one      *)
(* back: whatever a step does, it adds fresh ids only (Kept below).  What  *)
(* a request has read of a session between two of its round trips can      *)
(* therefore only have become less, which the parts of the invariant about *)
(* requests say step by step.                                              *)
(***************************************************************************)
EXTENDS Replicas, TLAPS

\* Only ids that were drawn are anywhere.
Drawn ==
  /\ \A p \in Places : keys[p] \subseteq drawn /\ blacklist[p] \subseteq drawn
  /\ retired \subseteq drawn /\ ended \subseteq drawn
  /\ \A n \in Tokens : parent[n] # None => n \in drawn /\ parent[n] \in drawn

OneHome == \A p, q \in Places, t \in Tokens : t \in keys[p] /\ t \in keys[q] => p = q

\* A blacklist refuses no session of another place, and a retired token has a
\* session only where it is blacklisted.
Refused ==
  /\ \A p, q \in Places : \A t \in blacklist[p] : t \in keys[q] => p = q
  /\ \A t \in retired, p \in Places : t \in keys[p] => t \in blacklist[p]

\* A session missing from the list of its user is one a logout-all has missed.
Indexed == \A p \in Places : keys[p] \subseteq listed[p] \cup missed

Ended == \A p \in Places, t \in ended : t \in keys[p] => t \in missed

\* The steps at which the session of a request's token was found in its store.
AtHome == {"unrevoked", "remove", "add", "mint", "retire", "drop"}

Carries(r) ==
  /\ req[r].at \in AtHome \cup {"verify"} => req[r].token \in held
  /\ req[r].at = "delete" => Store(req[r].on) = Redis
  /\ req[r].at = "mint" => req[r].new \in drawn
  /\ req[r].existing \subseteq drawn

Home(r) ==
  /\ req[r].at \in AtHome => \A q \in Places : req[r].token \in keys[q] => q = Store(req[r].on)
  /\ req[r].at \in {"add", "mint"} => \A q \in Places : req[r].token \notin keys[q]
  /\ req[r].at = "drop" =>
       (req[r].token \in keys[Store(req[r].on)] => req[r].token \in blacklist[Store(req[r].on)])

\* What a logout-all that has read the list of its user has yet to end.
Left(r) ==
  /\ req[r].at = "delete" =>
       \A t \in req[r].existing : t \in keys[Redis] => t \in req[r].jtis \cup missed
  /\ req[r].at = "mark" /\ Store(req[r].on) = Redis =>
       \A t \in req[r].existing : t \in keys[Redis] => t \in missed

RequestsInv == \A r \in Reqs : Carries(r) /\ Home(r) /\ Left(r)

\* A refresh that found its session and has added no other.
Busy(r, t) == req[r].at \in {"unrevoked", "remove", "add"} /\ req[r].token = t

\* A token with a successor has no session; one that is exchanged twice was raced.
Successors ==
  /\ \A n \in Tokens, p \in Places : parent[n] # None => parent[n] \notin keys[p]
  /\ \A r \in Reqs, n \in Tokens, t \in Tokens : Busy(r, t) /\ parent[n] = t => t \in raced
  /\ \A r, o \in Reqs, t \in Tokens : Busy(r, t) /\ Busy(o, t) => r = o \/ t \in raced
  /\ ExchangedOnceUnlessRaced

StoresInv == Drawn /\ OneHome /\ Refused /\ Indexed /\ Ended

IInv == TypeOK /\ StoresInv /\ RequestsInv /\ Successors

-----------------------------------------------------------------------------
(* Types *)

LEMMA InitInv == Init => IInv
<1> SUFFICES ASSUME Init PROVE IInv
  OBVIOUS
<1>1. Idle \in Request /\ Idle.at = "idle" /\ Idle.existing = {}
  BY DEF Idle, Request, Step
<1>2. \A r \in Reqs : req[r] = Idle
  BY DEF Init
<1>3. \A p \in Places : keys[p] = {} /\ listed[p] = {} /\ blacklist[p] = {}
  BY DEF Init, Empty
<1>4. TypeOK
  BY <1>1, <1>2, <1>3 DEF Init, TypeOK, Empty, Places
<1>5. StoresInv
  BY <1>3 DEF Init, StoresInv, Drawn, OneHome, Refused, Indexed, Ended
<1>6. RequestsInv
  BY <1>1, <1>2 DEF RequestsInv, Carries, Home, Left, AtHome
<1>7. Successors
  BY <1>1, <1>2 DEF Init, Successors, Busy, ExchangedOnceUnlessRaced
<1> QED
  BY <1>4, <1>5, <1>6, <1>7 DEF IInv

\* The place of a replica that runs.
LEMMA Place ==
  ASSUME TypeOK, NEW i \in Replicas, Runs(i)
  PROVE  Store(i) \in Places /\ Store(i) \in {i, Redis} /\ i # Redis /\ i \in Places
BY PlacesAssumption DEF TypeOK, Runs, Store, Places

\* The place and the replica of a request in progress.
LEMMA Serving ==
  ASSUME TypeOK, NEW r \in Reqs, req[r].at # "idle"
  PROVE  req[r].on \in Replicas /\ Runs(req[r].on) /\ Store(req[r].on) \in Places
<1>1. req[r].on \in Replicas /\ uses[req[r].on] # None
  BY DEF TypeOK, Request
<1> QED
  BY <1>1, Place DEF Runs

\* What TypeOK says of the stores, and of the requests.
StoresTyped ==
  /\ keys \in [Places -> SUBSET Tokens]
  /\ listed \in [Places -> SUBSET Tokens]
  /\ blacklist \in [Places -> SUBSET Tokens]
  /\ \A i \in Replicas : uses[i] # i => keys[i] = {} /\ listed[i] = {} /\ blacklist[i] = {}

RequestsTyped ==
  /\ req \in [Reqs -> Request]
  /\ \A r \in Reqs : req[r].at # "idle" => req[r].on # None /\ uses[req[r].on] # None

LEMMA Written ==
  ASSUME TypeOK, NEW i \in Replicas, Runs(i), NEW t \in Tokens, UNCHANGED uses,
         AddRefreshSession(i, t) \/ RemoveRefreshSession(i, t) \/ Blacklist(i, t)
  PROVE  StoresTyped'
<1>1. Store(i) \in Places /\ \A j \in Replicas : uses[j] # j => j # Store(i)
  <2>1. Store(i) \in Places /\ Store(i) \in {i, Redis} /\ Redis \notin Replicas
    BY Place, PlacesAssumption
  <2> QED
    BY <2>1 DEF Store
<1>2. CASE AddRefreshSession(i, t)
  BY <1>1, <1>2 DEF AddRefreshSession, TypeOK, StoresTyped, Places, Store
<1>3. CASE RemoveRefreshSession(i, t)
  BY <1>1, <1>3 DEF RemoveRefreshSession, TypeOK, StoresTyped, Places, Store
<1>4. CASE Blacklist(i, t)
  BY <1>1, <1>4 DEF Blacklist, TypeOK, StoresTyped, Places, Store
<1> QED
  BY <1>2, <1>3, <1>4

\* A request that is answered, or goes on to another step.
LEMMA Moved ==
  ASSUME TypeOK, NEW r \in Reqs, req[r].at # "idle", UNCHANGED uses,
         Answer(r) \/ \E s \in Step : Goto(r, s)
  PROVE  RequestsTyped'
<1>1. Idle \in Request /\ Idle.at = "idle"
  BY DEF Idle, Request, Step
<1>2. CASE Answer(r)
  BY <1>1, <1>2 DEF Answer, TypeOK, RequestsTyped
<1>3. ASSUME NEW s \in Step, Goto(r, s) PROVE RequestsTyped'
  BY <1>3 DEF Goto, TypeOK, RequestsTyped, Request
<1> QED
  BY <1>2, <1>3

\* A request carries a token clients hold.
LEMMA Carried ==
  ASSUME TypeOK, RequestsInv, NEW r \in Reqs, req[r].at \in AtHome \cup {"verify"}
  PROVE  /\ req[r].token \in held /\ req[r].token \in drawn /\ req[r].token \in Tokens
         /\ req[r].on \in Replicas /\ Runs(req[r].on) /\ Store(req[r].on) \in Places
BY Serving DEF TypeOK, RequestsInv, Carries, AtHome

LEMMA TypeStep == ASSUME IInv, [Next]_vars PROVE TypeOK'
<1> USE DEF IInv
<1>0. /\ Idle \in Request /\ Idle.at = "idle"
      /\ TypeOK /\ StoresTyped /\ RequestsTyped
  BY DEF Idle, Request, Step, TypeOK, StoresTyped, RequestsTyped
<1>1. CASE RestartRedis
  <2>1. StoresTyped'
    BY <1>0, <1>1, PlacesAssumption DEF RestartRedis, Wipe, StoresTyped, Places
  <2> QED
    BY <1>1, <2>1 DEF TypeOK, RestartRedis, StoresTyped, tokens, history
<1>2. ASSUME NEW i \in Replicas, Boot(i) PROVE TypeOK'
  <2>1. /\ uses' \in [Replicas -> Places \cup {None}] /\ uses'[i] \in {i, Redis}
        /\ \A j \in Replicas : j # i => uses'[j] = uses[j]
    BY <1>2 DEF TypeOK, Boot, Places
  <2>2. uses[i] # i /\ uses'[i] # None
    BY <1>2, <2>1, PlacesAssumption DEF Boot, Places
  <2>3. StoresTyped'
    BY <1>0, <1>2, <2>1, <2>2 DEF StoresTyped, Boot, store
  <2>4. RequestsTyped'
    BY <1>0, <1>2, <2>1, <2>2, Serving DEF RequestsTyped, Boot
  <2>5. \A j \in Replicas : uses'[j] \in {j, Redis, None}
    BY <2>1 DEF TypeOK
  <2> QED
    BY <1>2, <2>1, <2>3, <2>4, <2>5 DEF TypeOK, Boot, StoresTyped, RequestsTyped, tokens, history
<1>3. ASSUME NEW i \in Replicas, Stop(i) PROVE TypeOK'
  <2>1. req' \in [Reqs -> Request]
    BY <1>0, <1>3 DEF TypeOK, Stop, Killed
  <2>2. \A r \in Reqs : req'[r].at # "idle" => req'[r].on # None /\ uses'[req'[r].on] # None
    <3> SUFFICES ASSUME NEW r \in Reqs, req'[r].at # "idle"
                 PROVE  req'[r].on # None /\ uses'[req'[r].on] # None
      OBVIOUS
    <3>1. req'[r] = req[r] /\ req[r].on # i /\ req[r].on \in Replicas
      BY <1>0, <1>3, Serving DEF TypeOK, Stop, Killed
    <3> QED
      BY <1>3, <3>1 DEF TypeOK, Stop
  <2>3. /\ uses' \in [Replicas -> Places \cup {None}]
        /\ \A j \in Replicas : uses'[j] \in {j, Redis, None}
    BY <1>3 DEF TypeOK, Stop
  <2>4. /\ keys' \in [Places -> SUBSET Tokens] /\ listed' \in [Places -> SUBSET Tokens]
        /\ blacklist' \in [Places -> SUBSET Tokens]
    BY <1>3 DEF TypeOK, Stop, Wipe
  <2>5. \A j \in Replicas : uses'[j] # j => keys'[j] = {} /\ listed'[j] = {} /\ blacklist'[j] = {}
    BY <1>3 DEF TypeOK, Stop, Wipe, Places
  <2> QED
    BY <1>3, <2>1, <2>2, <2>3, <2>4, <2>5 DEF TypeOK, Stop, tokens, history
<1>4. ASSUME NEW i \in Replicas, NEW t \in Tokens, Login(i, t) PROVE TypeOK'
  <2>1. StoresTyped'
    BY <1>4, Written DEF Login
  <2> QED
    BY <1>4, <2>1 DEF TypeOK, StoresTyped, Login, history
<1>5. ASSUME NEW p \in Places, NEW t \in Tokens, Expire(p, t) PROVE TypeOK'
  BY <1>5 DEF TypeOK, Expire, tokens, history, Places
<1>6. ASSUME NEW r \in Reqs, NEW i \in Replicas, RevokeRead(r, i) PROVE TypeOK'
  <2>1. StoresTyped'
    <3>1. CASE Store(i) = Redis
      BY <1>0, <1>6, <3>1 DEF RevokeRead, StoresTyped, store
    <3>2. CASE Store(i) # Redis
      BY <1>6, <3>2 DEF RevokeRead, StoresTyped, TypeOK, Places
    <3> QED
      BY <3>1, <3>2
  <2>2. RequestsTyped'
    <3> DEFINE jtis == IF Store(i) = Redis THEN listed[Redis] ELSE {}
               q == [Idle EXCEPT !.at = IF jtis = {} THEN "mark" ELSE "delete",
                                 !.on = i, !.jtis = jtis, !.existing = held]
    <3>1. jtis \subseteq Tokens /\ held \subseteq Tokens
      BY DEF TypeOK, Places
    <3>2. q \in Request /\ q.on = i
      BY <3>1 DEF Idle, Request, Step
    <3>3. req' = [req EXCEPT ![r] = q]
      BY <1>6 DEF RevokeRead
    <3> HIDE DEF q
    <3> QED
      BY <1>0, <1>6, <3>2, <3>3, PlacesAssumption DEF RevokeRead, RequestsTyped, Runs, Places
  <2> QED
    BY <1>6, <2>1, <2>2 DEF TypeOK, StoresTyped, RequestsTyped, RevokeRead, tokens, history
<1>7. ASSUME NEW r \in Reqs, NEW i \in Replicas, NEW t \in Tokens, RefreshCheckActive(r, i, t)
      PROVE  TypeOK'
  <2> DEFINE q == [Idle EXCEPT !.at = "unrevoked", !.on = i, !.token = t]
  <2>1. q \in Request /\ q.on = i /\ req' = [req EXCEPT ![r] = q]
    BY <1>7 DEF RefreshCheckActive, Idle, Request, Step
  <2> HIDE DEF q
  <2>2. RequestsTyped'
    BY <1>0, <1>7, <2>1, PlacesAssumption DEF RefreshCheckActive, RequestsTyped, Runs, Places
  <2> QED
    BY <1>7, <2>2 DEF TypeOK, RequestsTyped, RefreshCheckActive, store, tokens
<1>8. ASSUME NEW r \in Reqs, NEW i \in Replicas, NEW t \in Tokens, LogoutCheckBlacklist(r, i, t)
      PROVE  TypeOK'
  <2> DEFINE q == [Idle EXCEPT !.at = "verify", !.on = i, !.token = t]
  <2>1. q \in Request /\ q.on = i /\ (req' = req \/ req' = [req EXCEPT ![r] = q])
    BY <1>8 DEF LogoutCheckBlacklist, Idle, Request, Step
  <2> HIDE DEF q
  <2>2. RequestsTyped'
    BY <1>0, <1>8, <2>1, PlacesAssumption DEF LogoutCheckBlacklist, RequestsTyped, Runs, Places
  <2> QED
    BY <1>8, <2>2 DEF TypeOK, RequestsTyped, LogoutCheckBlacklist, store, tokens
<1>9. ASSUME NEW r \in Reqs, Refresh(r) PROVE TypeOK'
  <2>1. CASE RefreshCheckBlacklist(r)
    <3>1. RequestsTyped'
      BY <2>1, Moved DEF RefreshCheckBlacklist, At, Step
    <3> QED
      BY <2>1, <3>1 DEF TypeOK, RefreshCheckBlacklist, RequestsTyped, store, tokens, history
  <2>2. CASE RefreshRemove(r)
    <3>1. RequestsTyped' /\ StoresTyped'
      BY <2>2, Carried, Moved, Written DEF RefreshRemove, At, Step, AtHome
    <3> QED
      BY <2>2, <3>1 DEF TypeOK, RefreshRemove, RequestsTyped, StoresTyped, tokens, history
  <2>3. CASE RefreshAdd(r)
    <3>1. PICK new \in Tokens :
            /\ AddRefreshSession(req[r].on, new)
            /\ drawn' = drawn \cup {new}
            /\ parent' = [parent EXCEPT ![new] = req[r].token]
            /\ req' = [req EXCEPT ![r].at = "mint", ![r].new = new]
      BY <2>3 DEF RefreshAdd
    <3>2. req[r].token \in Tokens /\ req[r].on \in Replicas /\ Runs(req[r].on)
      BY <2>3, Carried DEF RefreshAdd, At, AtHome
    <3>3. StoresTyped'
      BY <2>3, <3>1, <3>2, Written DEF RefreshAdd
    <3>4. RequestsTyped'
      BY <1>0, <2>3, <3>1 DEF RefreshAdd, RequestsTyped, At, Request, Step
    <3> QED
      BY <2>3, <3>1, <3>2, <3>3, <3>4 DEF TypeOK, RefreshAdd, RequestsTyped, StoresTyped
  <2>4. CASE RefreshMint(r)
    <3>1. req[r].token \in Tokens /\ req[r].on \in Replicas /\ Runs(req[r].on) /\ req[r].new \in drawn
      BY <2>4, Carried DEF RefreshMint, At, AtHome, RequestsInv, Carries
    <3>2. RequestsTyped' /\ StoresTyped'
      BY <2>4, <3>1, Moved, Written DEF RefreshMint, At
    <3> QED
      BY <2>4, <3>1, <3>2 DEF TypeOK, RefreshMint, RequestsTyped, StoresTyped
  <2> QED
    BY <1>9, <2>1, <2>2, <2>3, <2>4 DEF Refresh
<1>10. ASSUME NEW r \in Reqs, Logout(r) PROVE TypeOK'
  <2>1. CASE LogoutVerify(r)
    <3>1. RequestsTyped'
      BY <2>1, Moved DEF LogoutVerify, At, Step
    <3> QED
      BY <2>1, <3>1 DEF TypeOK, LogoutVerify, RequestsTyped, store, tokens, history
  <2>2. CASE LogoutBlacklist(r)
    <3>1. RequestsTyped' /\ StoresTyped'
      BY <2>2, Carried, Moved, Written DEF LogoutBlacklist, At, Step, AtHome
    <3> QED
      BY <2>2, <3>1 DEF TypeOK, LogoutBlacklist, RequestsTyped, StoresTyped, tokens, history
  <2>3. CASE LogoutRemove(r)
    <3>1. req[r].token \in Tokens
      BY <2>3, Carried DEF LogoutRemove, At, AtHome
    <3>2. RequestsTyped' /\ StoresTyped'
      BY <2>3, Carried, Moved, Written DEF LogoutRemove, At, AtHome
    <3> QED
      BY <2>3, <3>1, <3>2 DEF TypeOK, LogoutRemove, RequestsTyped, StoresTyped, tokens
  <2> QED
    BY <1>10, <2>1, <2>2, <2>3 DEF Logout
<1>11. ASSUME NEW r \in Reqs, LogoutAll(r) PROVE TypeOK'
  <2>1. CASE RevokeDelete(r)
    <3>1. RequestsTyped'
      BY <2>1, Moved DEF RevokeDelete, At, Step
    <3>2. Store(req[r].on) \in Places
      BY <2>1, Serving DEF RevokeDelete, At
    <3>3. StoresTyped' /\ missed' \subseteq Tokens
      BY <2>1, <3>2 DEF TypeOK, RevokeDelete, StoresTyped, Places
    <3> QED
      BY <2>1, <3>1, <3>3 DEF TypeOK, RevokeDelete, RequestsTyped, StoresTyped, tokens
  <2>2. CASE RevokeMark(r)
    <3>1. RequestsTyped'
      BY <2>2, Moved DEF RevokeMark, At
    <3>2. req[r].existing \subseteq Tokens
      BY DEF TypeOK, Request
    <3> QED
      BY <2>2, <3>1, <3>2 DEF TypeOK, RevokeMark, RequestsTyped, store, tokens
  <2> QED
    BY <1>11, <2>1, <2>2 DEF LogoutAll
<1>12. ASSUME NEW r \in Reqs, Fail(r) PROVE TypeOK'
  BY <1>0, <1>12 DEF TypeOK, Fail, Answer, store, tokens, history
<1>13. CASE UNCHANGED vars
  BY <1>13 DEF TypeOK, vars, store, tokens, history
<1> QED
  BY <1>1, <1>2, <1>3, <1>4, <1>5, <1>6, <1>7, <1>8, <1>9, <1>10, <1>11, <1>12, <1>13
  DEF Next, Process

-----------------------------------------------------------------------------
(* What a step does to the stores *)

Grown == drawn \subseteq drawn' /\ held \subseteq held' /\ raced \subseteq raced' /\ missed \subseteq missed'

\* Only fresh ids get a session, in one place; a blacklist entry is lost with its
\* session, and made in the place of the session.
Kept ==
  /\ Grown
  /\ \A p \in Places : \A t \in keys'[p] :
       /\ t \in drawn' /\ t \in listed'[p] \cup missed'
       /\ t \in drawn => t \in keys[p] /\ (t \in blacklist[p] => t \in blacklist'[p])
  /\ \A p, q \in Places, t \in Tokens : t \notin drawn /\ t \in keys'[p] /\ t \in keys'[q] => p = q
  /\ \A p \in Places : \A t \in blacklist'[p] :
       t \in drawn /\ (t \in blacklist[p] \/ \A q \in Places : t \in keys[q] => p = q)

LEMMA KeptSame == ASSUME IInv, Grown, UNCHANGED store PROVE Kept
BY DEF IInv, StoresInv, Drawn, Indexed, store, Kept, Grown

LEMMA KeptWipe == ASSUME IInv, Grown, NEW p \in Places, Wipe(p) PROVE Kept
BY DEF IInv, TypeOK, StoresInv, Drawn, Indexed, Wipe, Kept, Grown

LEMMA KeptAdd ==
  ASSUME IInv, Grown, NEW i \in Replicas, Runs(i), NEW new \in Tokens,
         new \notin drawn, new \in drawn', AddRefreshSession(i, new)
  PROVE  Kept
<1>1. Store(i) \in Places
  BY Place DEF IInv
<1>2. \A p \in Places : /\ keys'[p] = IF p = Store(i) THEN keys[p] \cup {new} ELSE keys[p]
                        /\ listed'[p] = IF p = Store(i) THEN listed[p] \cup {new} ELSE listed[p]
  BY <1>1 DEF IInv, TypeOK, AddRefreshSession
<1> QED
  BY <1>1, <1>2 DEF IInv, StoresInv, Drawn, Indexed, AddRefreshSession, Kept, Grown

LEMMA KeptRemove ==
  ASSUME IInv, Grown, NEW i \in Replicas, Runs(i), NEW t, RemoveRefreshSession(i, t)
  PROVE  Kept
<1>1. Store(i) \in Places
  BY Place DEF IInv
<1>2. \A p \in Places : /\ keys'[p] = IF p = Store(i) THEN keys[p] \ {t} ELSE keys[p]
                        /\ listed'[p] = IF p = Store(i) THEN listed[p] \ {t} ELSE listed[p]
  BY <1>1 DEF IInv, TypeOK, RemoveRefreshSession
<1> QED
  BY <1>1, <1>2 DEF IInv, StoresInv, Drawn, Indexed, RemoveRefreshSession, Kept, Grown

LEMMA KeptBlacklist ==
  ASSUME IInv, Grown, NEW i \in Replicas, Runs(i), NEW t \in drawn, Blacklist(i, t),
         \A q \in Places : t \in keys[q] => q = Store(i)
  PROVE  Kept
<1>1. Store(i) \in Places
  BY Place DEF IInv
<1>2. \A p \in Places : blacklist'[p] = IF p = Store(i) THEN blacklist[p] \cup {t} ELSE blacklist[p]
  BY <1>1 DEF IInv, TypeOK, Blacklist
<1> QED
  BY <1>1, <1>2 DEF IInv, StoresInv, Drawn, Indexed, Blacklist, Kept, Grown

LEMMA KeptStep == ASSUME IInv, [Next]_vars PROVE Kept
<1> USE DEF IInv
<1>1. CASE RestartRedis
  BY <1>1, KeptWipe DEF RestartRedis, tokens, history, Grown, Places
<1>2. ASSUME NEW i \in Replicas, Process(i) PROVE Kept
  <2>1. CASE Boot(i)
    BY <2>1, KeptSame DEF Boot, tokens, history, Grown
  <2>2. CASE Stop(i)
    BY <2>2, KeptWipe DEF Stop, tokens, history, Grown, Places
  <2> QED
    BY <1>2, <2>1, <2>2 DEF Process
<1>3. ASSUME NEW i \in Replicas, NEW t \in Tokens, Login(i, t) PROVE Kept
  BY <1>3, KeptAdd DEF Login, history, Grown
<1>4. ASSUME NEW p \in Places, NEW t \in Tokens, Expire(p, t) PROVE Kept
  BY <1>4 DEF TypeOK, StoresInv, Drawn, Indexed, Expire, tokens, history, Kept, Grown
<1>5. ASSUME NEW r \in Reqs, NEW i \in Replicas, RevokeRead(r, i) PROVE Kept
  <2>1. CASE Store(i) = Redis
    BY <1>5, <2>1, KeptSame DEF RevokeRead, tokens, history, Grown
  <2>2. CASE Store(i) # Redis
    BY <1>5, <2>2 DEF TypeOK, StoresInv, Drawn, Indexed, RevokeRead, tokens, history, Kept, Grown
  <2> QED
    BY <2>1, <2>2
<1>6. ASSUME NEW r \in Reqs, NEW i \in Replicas, NEW t \in Tokens,
             RefreshCheckActive(r, i, t) \/ LogoutCheckBlacklist(r, i, t)
      PROVE  Kept
  BY <1>6, KeptSame DEF RefreshCheckActive, LogoutCheckBlacklist, tokens, Grown
<1>7. ASSUME NEW r \in Reqs, Refresh(r) PROVE Kept
  <2>1. CASE RefreshCheckBlacklist(r)
    BY <2>1, KeptSame DEF RefreshCheckBlacklist, tokens, history, Grown
  <2>2. CASE RefreshRemove(r)
    BY <2>2, Carried, KeptRemove DEF RefreshRemove, At, AtHome, tokens, history, Grown
  <2>3. CASE RefreshAdd(r)
    BY <2>3, Carried, KeptAdd DEF RefreshAdd, At, AtHome, Grown
  <2>4. CASE RefreshMint(r)
    <3>1. /\ req[r].token \in drawn /\ req[r].on \in Replicas /\ Runs(req[r].on)
          /\ \A q \in Places : req[r].token \notin keys[q]
      BY <2>4, Carried DEF RefreshMint, At, AtHome, RequestsInv, Home
    <3> QED
      BY <2>4, <3>1, KeptBlacklist DEF RefreshMint, Grown
  <2> QED
    BY <1>7, <2>1, <2>2, <2>3, <2>4 DEF Refresh
<1>8. ASSUME NEW r \in Reqs, Logout(r) PROVE Kept
  <2>1. CASE LogoutVerify(r)
    BY <2>1, KeptSame DEF LogoutVerify, tokens, history, Grown
  <2>2. CASE LogoutBlacklist(r)
    <3>1. /\ req[r].token \in drawn /\ req[r].on \in Replicas /\ Runs(req[r].on)
          /\ \A q \in Places : req[r].token \in keys[q] => q = Store(req[r].on)
      BY <2>2, Carried DEF LogoutBlacklist, At, AtHome, RequestsInv, Home
    <3> QED
      BY <2>2, <3>1, KeptBlacklist DEF LogoutBlacklist, tokens, history, Grown
  <2>3. CASE LogoutRemove(r)
    BY <2>3, Carried, KeptRemove DEF LogoutRemove, At, AtHome, tokens, Grown
  <2> QED
    BY <1>8, <2>1, <2>2, <2>3 DEF Logout
<1>9. ASSUME NEW r \in Reqs, LogoutAll(r) PROVE Kept
  <2>1. CASE RevokeDelete(r)
    <3>1. Store(req[r].on) = Redis /\ Redis \in Places
      BY <2>1 DEF RevokeDelete, At, RequestsInv, Carries, Places
    <3>2. \A p \in Places :
             /\ keys'[p] = IF p = Redis THEN keys[p] \ req[r].jtis ELSE keys[p]
             /\ p # Redis => listed'[p] = listed[p]
      BY <2>1, <3>1 DEF RevokeDelete, TypeOK
    <3>3. missed' = missed \cup (keys[Redis] \ req[r].jtis)
      BY <2>1, <3>1 DEF RevokeDelete
    <3> QED
      BY <2>1, <3>2, <3>3 DEF StoresInv, Drawn, Indexed, RevokeDelete, tokens, Kept, Grown
  <2>2. CASE RevokeMark(r)
    BY <2>2, KeptSame DEF RevokeMark, tokens, Grown
  <2> QED
    BY <1>9, <2>1, <2>2 DEF LogoutAll
<1>10. ASSUME NEW r \in Reqs, Fail(r) PROVE Kept
  BY <1>10, KeptSame DEF Fail, tokens, history, Grown
<1>11. CASE UNCHANGED vars
  BY <1>11, KeptSame DEF vars, tokens, history, Grown
<1> QED
  BY <1>1, <1>2, <1>3, <1>4, <1>5, <1>6, <1>7, <1>8, <1>9, <1>10, <1>11 DEF Next

\* The few steps that write the history of the properties.
LEMMA Recorded ==
  ASSUME [Next]_vars
  PROVE  /\ retired' = retired \/ \E r \in Reqs : \/ RefreshMint(r) \/ LogoutRemove(r)
              \/ \E i \in Replicas, t \in Tokens : LogoutCheckBlacklist(r, i, t)
         /\ ended' = ended \/ \E r \in Reqs : RevokeMark(r)
         /\ parent' = parent \/ \E r \in Reqs : RefreshAdd(r)
<1>1. CASE UNCHANGED vars
  BY <1>1 DEF vars, history
<1>2. CASE RestartRedis \/ (\E i \in Replicas : Process(i) \/ \E t \in Tokens : Login(i, t))
           \/ \E p \in Places, t \in Tokens : Expire(p, t)
  BY <1>2 DEF RestartRedis, Process, Boot, Stop, Login, Expire, history
<1>3. ASSUME NEW r \in Reqs, NEW i \in Replicas, RevokeRead(r, i)
      PROVE  UNCHANGED history
  BY <1>3 DEF RevokeRead
<1>4. ASSUME NEW r \in Reqs, NEW i \in Replicas, NEW t \in Tokens,
             RefreshCheckActive(r, i, t) \/ LogoutCheckBlacklist(r, i, t)
      PROVE  UNCHANGED <<ended, parent>> /\ (retired' = retired \/ LogoutCheckBlacklist(r, i, t))
  BY <1>4 DEF RefreshCheckActive, LogoutCheckBlacklist
<1>5. ASSUME NEW r \in Reqs, Refresh(r)
      PROVE  /\ ended' = ended /\ (retired' = retired \/ RefreshMint(r))
             /\ parent' = parent \/ RefreshAdd(r)
  BY <1>5 DEF Refresh, RefreshCheckBlacklist, RefreshRemove, RefreshAdd, RefreshMint, history
<1>6. ASSUME NEW r \in Reqs, Logout(r)
      PROVE  UNCHANGED <<ended, parent>> /\ (retired' = retired \/ LogoutRemove(r))
  BY <1>6 DEF Logout, LogoutVerify, LogoutBlacklist, LogoutRemove, history
<1>7. ASSUME NEW r \in Reqs, LogoutAll(r)
      PROVE  UNCHANGED <<retired, parent>> /\ (ended' = ended \/ RevokeMark(r))
  BY <1>7 DEF LogoutAll, RevokeDelete, RevokeMark
<1>8. ASSUME NEW r \in Reqs, Fail(r)
      PROVE  UNCHANGED history
  BY <1>8 DEF Fail
<1> QED
  BY <1>1, <1>2, <1>3, <1>4, <1>5, <1>6, <1>7, <1>8 DEF Next, history

LEMMA StoresStep == ASSUME IInv, [Next]_vars PROVE StoresInv'
<1> USE DEF IInv, StoresInv
<1>1. Kept
  BY KeptStep
<1>2. OneHome' /\ Indexed'
  BY <1>1 DEF OneHome, Indexed, Kept
<1>3. \A t \in retired' : t \in drawn /\ \A p \in Places : t \in keys'[p] => t \in blacklist'[p]
  <2>1. CASE retired' = retired
    BY <1>1, <2>1 DEF Drawn, Refused, Kept
  <2>2. ASSUME NEW r \in Reqs, RefreshMint(r)
        PROVE  /\ req[r].token \in drawn /\ \A p \in Places : req[r].token \notin keys'[p]
               /\ retired' = retired \cup {req[r].token}
    BY <2>2, Carried DEF RefreshMint, At, AtHome, RequestsInv, Home, Blacklist
  <2>3. ASSUME NEW r \in Reqs, LogoutRemove(r)
        PROVE  /\ req[r].token \in drawn /\ \A p \in Places : req[r].token \notin keys'[p]
               /\ retired' = retired \cup {req[r].token}
    <3>1. /\ req[r].token \in drawn /\ Store(req[r].on) \in Places
          /\ \A p \in Places : req[r].token \in keys[p] => p = Store(req[r].on)
      BY <2>3, Carried DEF LogoutRemove, At, AtHome, RequestsInv, Home
    <3> QED
      BY <2>3, <3>1 DEF LogoutRemove, RemoveRefreshSession, TypeOK
  <2>4. ASSUME NEW r \in Reqs, NEW i \in Replicas, NEW t \in Tokens, LogoutCheckBlacklist(r, i, t)
        PROVE  \A u \in retired' \ retired : /\ u \in drawn
                 /\ \A p \in Places : u \in keys'[p] => u \in blacklist'[p]
    <3>1. Store(i) \in Places
      BY <2>4, Place DEF LogoutCheckBlacklist
    <3> QED
      BY <2>4, <3>1 DEF LogoutCheckBlacklist, Refused, Drawn, store
  <2> QED
    BY <1>1, <2>1, <2>2, <2>3, <2>4, Recorded DEF Drawn, Refused, Kept
<1>4. Refused'
  BY <1>1, <1>3 DEF Refused, Kept
<1>5. \A t \in ended' : t \in drawn /\ \A p \in Places : t \in keys'[p] => t \in missed'
  <2>1. CASE ended' = ended
    BY <1>1, <2>1 DEF Drawn, Ended, Kept, Grown
  <2>2. ASSUME NEW r \in Reqs, RevokeMark(r), ended' # ended
        PROVE  \A t \in req[r].existing : /\ t \in drawn
                 /\ \A p \in Places : t \in keys[p] => t \in missed
    <3>1. /\ \A j \in Replicas : uses[j] \in {Redis, None}
          /\ req[r].on \in Replicas /\ Runs(req[r].on)
      BY <2>2, Serving DEF RevokeMark, At
    <3>2. Store(req[r].on) = Redis
      BY <3>1 DEF Runs, Store
    <3>3. \A j \in Replicas : keys[j] = {}
      BY <3>1, PlacesAssumption DEF TypeOK, Places
    <3> QED
      BY <2>2, <3>2, <3>3 DEF RevokeMark, At, RequestsInv, Left, Carries, Places
  <2>3. ASSUME NEW r \in Reqs, RevokeMark(r), ended' # ended
        PROVE  keys' = keys /\ missed' = missed /\ ended' = ended \cup req[r].existing
    BY <2>3 DEF RevokeMark, store
  <2> QED
    BY <2>1, <2>2, <2>3, Recorded DEF Drawn, Ended
<1>6. \A n \in Tokens : parent'[n] # None => n \in drawn' /\ parent'[n] \in drawn
  <2>1. CASE parent' = parent
    BY <1>1, <2>1 DEF Drawn, Kept, Grown
  <2>2. ASSUME NEW r \in Reqs, RefreshAdd(r)
        PROVE  \A n \in Tokens : parent'[n] # None => n \in drawn' /\ parent'[n] \in drawn
    <3>1. req[r].token \in drawn
      BY <2>2, Carried DEF RefreshAdd, At, AtHome
    <3> QED
      BY <2>2, <3>1 DEF RefreshAdd, Drawn, TypeOK
  <2> QED
    BY <2>1, <2>2, Recorded
<1>7. Drawn'
  BY <1>1, <1>3, <1>5, <1>6 DEF Drawn, Kept, Grown
<1>8. Ended'
  BY <1>5 DEF Ended
<1> QED
  BY <1>2, <1>4, <1>7, <1>8

-----------------------------------------------------------------------------
(* What a step does to the requests *)

Started(r) == \E i \in Replicas : \/ RevokeRead(r, i)
                \/ \E t \in Tokens : RefreshCheckActive(r, i, t) \/ LogoutCheckBlacklist(r, i, t)

MovedOn(r) == Started(r) \/ Refresh(r) \/ Logout(r) \/ LogoutAll(r)

\* A request that the step leaves where it is, at the same place, or that is over.
Stays(o) ==
  \/ req'[o] = Idle
  \/ req'[o] = req[o] /\ (req[o].at # "idle" => uses'[req[o].on] = uses[req[o].on])

LEMMA OthersStay ==
  ASSUME IInv, [Next]_vars, NEW o \in Reqs
  PROVE  Stays(o) \/ MovedOn(o)
<1> USE DEF IInv
<1>1. CASE UNCHANGED vars
  BY <1>1 DEF vars, Stays
<1>2. CASE RestartRedis \/ (\E i \in Replicas, t \in Tokens : Login(i, t))
           \/ \E p \in Places, t \in Tokens : Expire(p, t)
  BY <1>2 DEF RestartRedis, Login, Expire, Stays
<1>3. ASSUME NEW i \in Replicas, Process(i) PROVE Stays(o)
  <2>1. CASE Boot(i)
    BY <2>1, Serving DEF Boot, Runs, TypeOK, Stays
  <2>2. CASE Stop(i)
    <3>1. CASE req[o].on = i
      BY <2>2, <3>1 DEF Stop, Killed, Stays
    <3>2. CASE req[o].on # i
      BY <2>2, <3>2, Serving DEF Stop, Killed, TypeOK, Stays
    <3> QED
      BY <3>1, <3>2
  <2> QED
    BY <1>3, <2>1, <2>2 DEF Process
<1>4. ASSUME NEW r \in Reqs, Started(r) PROVE Stays(o) \/ r = o
  BY <1>4 DEF Started, RevokeRead, RefreshCheckActive, LogoutCheckBlacklist, TypeOK, Stays
<1>5. ASSUME NEW r \in Reqs, Refresh(r) PROVE Stays(o) \/ r = o
  BY <1>5 DEF Refresh, RefreshCheckBlacklist, RefreshRemove, RefreshAdd, RefreshMint, Goto, Answer, TypeOK, Stays
<1>6. ASSUME NEW r \in Reqs, Logout(r) PROVE Stays(o) \/ r = o
  BY <1>6 DEF Logout, LogoutVerify, LogoutBlacklist, LogoutRemove, Goto, Answer, TypeOK, Stays
<1>7. ASSUME NEW r \in Reqs, LogoutAll(r) PROVE Stays(o) \/ r = o
  BY <1>7 DEF LogoutAll, RevokeDelete, RevokeMark, Goto, Answer, TypeOK, Stays
<1>8. ASSUME NEW r \in Reqs, Fail(r) PROVE Stays(o)
  BY <1>8 DEF Fail, Answer, TypeOK, Stays
<1> QED
  BY <1>1, <1>2, <1>3, <1>4, <1>5, <1>6, <1>7, <1>8 DEF Next, Started, MovedOn

LEMMA StaysInv ==
  ASSUME IInv, Kept, NEW o \in Reqs, Stays(o)
  PROVE  Carries(o)' /\ Home(o)' /\ Left(o)'
<1> USE DEF IInv
<1>1. CASE req'[o] = Idle
  BY <1>1 DEF Idle, Carries, Home, Left, AtHome
<1>2. CASE req'[o] = req[o] /\ req[o].at = "idle"
  BY <1>2 DEF RequestsInv, Carries, Home, Left, AtHome, Kept, Grown
<1>3. CASE req'[o] = req[o] /\ req[o].at # "idle" /\ uses'[req[o].on] = uses[req[o].on]
  <2>1. Store(req[o].on) \in Places /\ Redis \in Places
    BY <1>3, Serving DEF Places
  <2>2. Carries(o)'
    BY <1>3 DEF RequestsInv, Carries, Kept, Grown, Store
  <2>3. Left(o)'
    BY <1>3, <2>1 DEF RequestsInv, Carries, Left, Kept, Grown, Store
  <2>4. Home(o)'
    BY <1>3, <2>1, Carried DEF RequestsInv, Home, Kept, Grown, Store, AtHome
  <2> QED
    BY <2>2, <2>3, <2>4
<1> QED
  BY <1>1, <1>2, <1>3 DEF Stays

\* A request that begins, or goes on, by one of its own steps.
LEMMA MovedInv ==
  ASSUME IInv, [Next]_vars, NEW r \in Reqs, MovedOn(r), ~Stays(r)
  PROVE  Carries(r)' /\ Home(r)' /\ Left(r)'
<1> USE DEF IInv
<1>1. Kept
  BY KeptStep
<1>2. ASSUME NEW i \in Replicas, RevokeRead(r, i)
      PROVE  Carries(r)' /\ Home(r)' /\ Left(r)'
  <2>1. uses' = uses /\ drawn' = drawn /\ held' = held /\ missed' = missed
    BY <1>2 DEF RevokeRead, tokens, history
  <2>2. /\ req'[r].existing = held /\ req'[r].on = i
        /\ req'[r].at \in {"mark", "delete"} /\ (req'[r].at = "delete" => Store(i) = Redis)
        /\ Store(i) = Redis => req'[r].jtis = listed[Redis] /\ keys' = keys
        /\ req'[r].at = "mark" => req'[r].jtis = {}
    BY <1>2 DEF RevokeRead, TypeOK, Idle, store
  <2>3. held \subseteq drawn /\ Redis \in Places
    BY DEF TypeOK, Places
  <2>4. Store(i) = Redis => \A t \in keys'[Redis] : t \in req'[r].jtis \cup missed
    BY <2>2, <2>3 DEF StoresInv, Indexed
  <2> QED
    BY <2>1, <2>2, <2>3, <2>4 DEF Carries, Home, Left, AtHome, Store
<1>3. ASSUME NEW i \in Replicas, NEW t \in Tokens, RefreshCheckActive(r, i, t)
      PROVE  Carries(r)' /\ Home(r)' /\ Left(r)'
  <2>1. /\ req'[r].at = "unrevoked" /\ req'[r].on = i /\ req'[r].token = t
        /\ req'[r].existing = {} /\ uses' = uses /\ held' = held /\ keys' = keys
        /\ t \in held /\ t \in keys[Store(i)]
    BY <1>3 DEF RefreshCheckActive, TypeOK, Idle, Active, store, tokens
  <2>2. \A q \in Places : t \in keys[q] => q = Store(i)
    BY <1>3, <2>1, Place DEF RefreshCheckActive, StoresInv, OneHome
  <2> QED
    BY <2>1, <2>2 DEF Carries, Home, Left, AtHome, Store
<1>4. ASSUME NEW i \in Replicas, NEW t \in Tokens, LogoutCheckBlacklist(r, i, t)
      PROVE  Carries(r)' /\ Home(r)' /\ Left(r)'
  <2>1. /\ req'[r].at = "verify" /\ req'[r].on = i /\ req'[r].token = t
        /\ req'[r].existing = {} /\ held' = held /\ t \in held
    <3>1. req' = [req EXCEPT ![r] = [Idle EXCEPT !.at = "verify", !.on = i, !.token = t]]
      BY <1>4 DEF LogoutCheckBlacklist, Stays
    <3> QED
      BY <1>4, <3>1 DEF LogoutCheckBlacklist, TypeOK, Idle, tokens
  <2> QED
    BY <2>1 DEF Carries, Home, Left, AtHome
<1>5. ASSUME Refresh(r) PROVE Carries(r)' /\ Home(r)' /\ Left(r)'
  <2>1. CASE RefreshCheckBlacklist(r)
    BY <2>1 DEF RefreshCheckBlacklist, At, Goto, Answer, Stays, TypeOK, Request, store, tokens,
                RequestsInv, Carries, Home, Left, AtHome, Store
  <2>2. CASE RefreshRemove(r)
    <3>1. /\ req[r].token \in held /\ Store(req[r].on) \in Places
          /\ \A q \in Places : req[r].token \in keys[q] => q = Store(req[r].on)
          /\ req[r].existing \subseteq drawn
      BY <2>2, Carried DEF RefreshRemove, At, AtHome, RequestsInv, Carries, Home
    <3>2. \A q \in Places : req[r].token \notin keys'[q]
      BY <2>2, <3>1 DEF RefreshRemove, RemoveRefreshSession, TypeOK
    <3>3. req'[r].at = "add" /\ req'[r].token = req[r].token /\ req'[r].existing = req[r].existing
      BY <2>2 DEF RefreshRemove, Goto, TypeOK, Request
    <3> QED
      BY <1>1, <3>1, <3>2, <3>3 DEF Carries, Home, Left, AtHome, Kept, Grown
  <2>3. CASE RefreshAdd(r)
    <3>1. PICK new \in Tokens \ drawn :
            drawn' = drawn \cup {new} /\ req' = [req EXCEPT ![r].at = "mint", ![r].new = new]
      BY <2>3 DEF RefreshAdd
    <3>2. /\ req[r].token \in held /\ req[r].token \in drawn
          /\ \A q \in Places : req[r].token \notin keys[q]
          /\ req[r].existing \subseteq drawn
      BY <2>3, Carried DEF RefreshAdd, At, AtHome, RequestsInv, Carries, Home
    <3>3. /\ req'[r].at = "mint" /\ req'[r].new = new
          /\ req'[r].token = req[r].token /\ req'[r].existing = req[r].existing
      BY <3>1 DEF TypeOK, Request
    <3>4. new \in drawn' /\ \A q \in Places : req[r].token \notin keys'[q]
      BY <1>1, <3>1, <3>2 DEF Kept
    <3>5. Carries(r)'
      BY <1>1, <3>2, <3>3, <3>4 DEF Carries, AtHome, Kept, Grown
    <3>6. Home(r)' /\ Left(r)'
      BY <3>3, <3>4 DEF Home, Left, AtHome
    <3> QED
      BY <3>5, <3>6
  <2>4. CASE RefreshMint(r)
    BY <2>4 DEF RefreshMint, Answer, Stays, TypeOK
  <2> QED
    BY <1>5, <2>1, <2>2, <2>3, <2>4 DEF Refresh
<1>6. ASSUME Logout(r) PROVE Carries(r)' /\ Home(r)' /\ Left(r)'
  <2>1. CASE LogoutVerify(r)
    <3>1. /\ req'[r].at = "retire" /\ req'[r].token = req[r].token /\ req'[r].on = req[r].on
          /\ req'[r].existing = req[r].existing /\ req[r].token \in keys[Store(req[r].on)]
          /\ uses' = uses /\ keys' = keys
      BY <2>1 DEF LogoutVerify, At, Goto, Answer, Stays, TypeOK, Request, Active, store
    <3>2. /\ req[r].token \in held /\ req[r].token \in Tokens /\ Store(req[r].on) \in Places
          /\ req[r].existing \subseteq drawn
      BY <2>1, Carried DEF LogoutVerify, At, RequestsInv, Carries
    <3>3. \A q \in Places : req[r].token \in keys[q] => q = Store(req[r].on)
      BY <3>1, <3>2 DEF StoresInv, OneHome
    <3> QED
      BY <1>1, <3>1, <3>2, <3>3 DEF Carries, Home, Left, AtHome, Store, Kept, Grown
  <2>2. CASE LogoutBlacklist(r)
    <3>1. /\ req[r].token \in held /\ Store(req[r].on) \in Places
          /\ \A q \in Places : req[r].token \in keys[q] => q = Store(req[r].on)
          /\ req[r].existing \subseteq drawn
      BY <2>2, Carried DEF LogoutBlacklist, At, AtHome, RequestsInv, Carries, Home
    <3>2. /\ req'[r].at = "drop" /\ req'[r].token = req[r].token /\ req'[r].on = req[r].on
          /\ req'[r].existing = req[r].existing /\ uses' = uses /\ keys' = keys
      BY <2>2 DEF LogoutBlacklist, Blacklist, Goto, TypeOK, Request
    <3>3. req[r].token \in blacklist'[Store(req[r].on)]
      BY <2>2, <3>1 DEF LogoutBlacklist, Blacklist, TypeOK
    <3> QED
      BY <1>1, <3>1, <3>2, <3>3 DEF Carries, Home, Left, AtHome, Store, Kept, Grown
  <2>3. CASE LogoutRemove(r)
    BY <2>3 DEF LogoutRemove, Answer, Stays, TypeOK
  <2> QED
    BY <1>6, <2>1, <2>2, <2>3 DEF Logout
<1>7. ASSUME LogoutAll(r) PROVE Carries(r)' /\ Home(r)' /\ Left(r)'
  <2>1. CASE RevokeDelete(r)
    <3>1. /\ Store(req[r].on) = Redis /\ Redis \in Places /\ req[r].existing \subseteq drawn
      BY <2>1 DEF RevokeDelete, At, RequestsInv, Carries, Places
    <3>2. req'[r].at = "mark" /\ req'[r].existing = req[r].existing
      BY <2>1 DEF RevokeDelete, Goto, TypeOK, Request
    <3>3. \A t \in keys'[Redis] : t \in missed'
      BY <2>1, <3>1 DEF RevokeDelete, TypeOK
    <3> QED
      BY <1>1, <3>1, <3>2, <3>3 DEF Carries, Home, Left, AtHome, Kept, Grown
  <2>2. CASE RevokeMark(r)
    BY <2>2 DEF RevokeMark, Answer, Stays, TypeOK
  <2> QED
    BY <1>7, <2>1, <2>2 DEF LogoutAll
<1> QED
  BY <1>2, <1>3, <1>4, <1>5, <1>6, <1>7 DEF MovedOn, Started

LEMMA RequestsStep == ASSUME IInv, [Next]_vars PROVE RequestsInv'
<1>1. \A r \in Reqs : Carries(r)' /\ Home(r)' /\ Left(r)'
  BY KeptStep, OthersStay, StaysInv, MovedInv
<1> QED
  BY <1>1 DEF RequestsInv

-----------------------------------------------------------------------------
(* Who exchanges a token, and how often *)

\* A refresh becomes busy with a token by finding its session.
LEMMA BusyStep ==
  ASSUME IInv, [Next]_vars, NEW r \in Reqs, NEW t \in Tokens, Busy(r, t)'
  PROVE  Busy(r, t) \/ \E i \in Replicas : RefreshCheckActive(r, i, t)
<1> USE DEF IInv
<1>1. CASE Stays(r)
  BY <1>1 DEF Stays, Busy, Idle
<1>2. ASSUME NEW i \in Replicas, NEW u \in Tokens, RefreshCheckActive(r, i, u) PROVE u = t
  BY <1>2 DEF RefreshCheckActive, Busy, Idle, TypeOK
<1>3. ASSUME NEW i \in Replicas,
             RevokeRead(r, i) \/ \E u \in Tokens : LogoutCheckBlacklist(r, i, u)
      PROVE  Stays(r)
  <2>0. req'[r].at \notin {"mark", "delete", "verify"}
    BY DEF Busy
  <2>1. ASSUME RevokeRead(r, i) PROVE FALSE
    <3>1. req'[r].at \in {"mark", "delete"}
      BY <2>1 DEF RevokeRead, TypeOK, Idle
    <3> QED
      BY <2>0, <3>1
  <2>2. ASSUME NEW u \in Tokens, LogoutCheckBlacklist(r, i, u) PROVE req' = req
    <3> DEFINE new == [req EXCEPT ![r] = [Idle EXCEPT !.at = "verify", !.on = i, !.token = u]]
    <3>1. req' = req \/ req' = new
      BY <2>2 DEF LogoutCheckBlacklist
    <3>2. new[r].at = "verify"
      BY DEF TypeOK, Idle
    <3> HIDE DEF new
    <3> QED
      BY <2>0, <3>1, <3>2
  <2> QED
    BY <1>3, <2>1, <2>2 DEF LogoutCheckBlacklist, Stays
<1>4. CASE Refresh(r)
  <2>1. CASE RefreshCheckBlacklist(r) \/ RefreshRemove(r)
    BY <2>1 DEF RefreshCheckBlacklist, RefreshRemove, At, Goto, Answer, Busy, Idle, TypeOK, Request
  <2>2. ASSUME RefreshAdd(r) PROVE FALSE
    BY <2>2 DEF RefreshAdd, Busy, TypeOK, Request
  <2>3. ASSUME RefreshMint(r) PROVE FALSE
    BY <2>3 DEF RefreshMint, Answer, Busy, Idle, TypeOK
  <2> QED
    BY <1>4, <2>1, <2>2, <2>3 DEF Refresh
<1>5. ASSUME Logout(r) \/ LogoutAll(r) PROVE FALSE
  BY <1>5 DEF Logout, LogoutVerify, LogoutBlacklist, LogoutRemove, LogoutAll, RevokeDelete, RevokeMark,
              Goto, Answer, Busy, Idle, TypeOK, Request
<1> QED
  BY <1>1, <1>2, <1>3, <1>4, <1>5, OthersStay DEF MovedOn, Started

\* No refresh that has yet to exchange the token of another begins while that other
\* has its session, unless it is recorded as raced; none begins after an exchange.
LEMMA BusyNew ==
  ASSUME IInv, NEW r \in Reqs, NEW i \in Replicas, NEW t \in Tokens, RefreshCheckActive(r, i, t)
  PROVE  /\ \A n \in Tokens : parent[n] # t
         /\ \A o \in Reqs : Busy(o, t) => t \in raced'
<1> USE DEF IInv
<1>1. t \in keys[Store(i)] /\ Store(i) \in Places /\ t # None
  BY Place, TokensAssumption DEF RefreshCheckActive, Active
<1>2. \A n \in Tokens : parent[n] # t
  BY <1>1 DEF Successors
<1>3. ASSUME NEW o \in Reqs, Busy(o, t) PROVE t \in raced'
  <2>1. req[o].at # "add"
    BY <1>1, <1>3 DEF RequestsInv, Home, Busy
  <2>2. Store(req[o].on) = Store(i)
    BY <1>1, <1>3 DEF RequestsInv, Home, Busy, AtHome
  <2>3. o \in Exchanging(t) /\ uses[req[o].on] = uses[i]
    BY <1>3, <2>1, <2>2 DEF Busy, Exchanging, Store
  <2> QED
    BY <2>3 DEF RefreshCheckActive
<1> QED
  BY <1>2, <1>3

LEMMA SuccessorsStep == ASSUME IInv, [Next]_vars PROVE Successors'
<1> USE DEF IInv, Successors
<1>1. Kept
  BY KeptStep
<1>2. CASE parent' = parent
  <2>1. \A n \in Tokens, p \in Places : parent'[n] # None => parent'[n] \notin keys'[p]
    BY <1>1, <1>2 DEF StoresInv, Drawn, Kept
  <2>2. ASSUME NEW r \in Reqs, NEW n \in Tokens, NEW t \in Tokens, Busy(r, t)', parent'[n] = t
        PROVE  t \in raced'
    <3>1. Busy(r, t)
      BY <1>2, <2>2, BusyStep, BusyNew
    <3> QED
      BY <1>1, <1>2, <2>2, <3>1 DEF Kept, Grown
  <2>3. ASSUME NEW r \in Reqs, NEW o \in Reqs, NEW t \in Tokens, Busy(r, t)', Busy(o, t)', r # o
        PROVE  t \in raced'
    <3>1. CASE Busy(r, t) /\ Busy(o, t)
      BY <1>1, <2>3, <3>1 DEF Kept, Grown
    <3>2. CASE Busy(o, t) /\ \E i \in Replicas : RefreshCheckActive(r, i, t)
      BY <3>2, BusyNew
    <3>3. CASE Busy(r, t) /\ \E i \in Replicas : RefreshCheckActive(o, i, t)
      BY <3>3, BusyNew
    <3>4. ASSUME NEW i \in Replicas, NEW j \in Replicas,
                 RefreshCheckActive(r, i, t), RefreshCheckActive(o, j, t)
          PROVE  FALSE
      <4>1. req[o] = Idle /\ req'[o] = req[o]
        BY <2>3, <3>4 DEF RefreshCheckActive, TypeOK
      <4> QED
        BY <2>3, <4>1 DEF Busy, Idle
    <3> QED
      BY <2>3, <3>1, <3>2, <3>3, <3>4, BusyStep
  <2>4. ExchangedOnceUnlessRaced'
    BY <1>1, <1>2 DEF ExchangedOnceUnlessRaced, Kept, Grown
  <2> QED
    BY <2>1, <2>2, <2>3, <2>4
<1>3. ASSUME NEW r \in Reqs, RefreshAdd(r) PROVE Successors'
  <2>1. PICK new \in Tokens \ drawn :
          /\ AddRefreshSession(req[r].on, new)
          /\ parent' = [parent EXCEPT ![new] = req[r].token]
          /\ req' = [req EXCEPT ![r].at = "mint", ![r].new = new]
    BY <1>3 DEF RefreshAdd
  <2> DEFINE u == req[r].token
  <2>2. /\ u \in drawn /\ u \in Tokens /\ u # None
        /\ \A q \in Places : u \notin keys[q]
        /\ Busy(r, u) /\ raced' = raced
    BY <1>3, Carried, TokensAssumption DEF RefreshAdd, At, AtHome, RequestsInv, Home, Busy
  <2>3. /\ \A n \in Tokens : parent'[n] = IF n = new THEN u ELSE parent[n]
        /\ parent[new] = None
    BY <2>1 DEF TypeOK, StoresInv, Drawn
  <2>4. \A o \in Reqs, t \in Tokens : Busy(o, t)' => o # r /\ Busy(o, t)
    BY <2>1 DEF TypeOK, Request, Busy
  <2> HIDE DEF u
  <2>5. \A n \in Tokens, p \in Places : parent'[n] # None => parent'[n] \notin keys'[p]
    BY <1>1, <2>2, <2>3 DEF StoresInv, Drawn, Kept
  <2>6. \A o \in Reqs, n \in Tokens, t \in Tokens : Busy(o, t)' /\ parent'[n] = t => t \in raced'
    BY <2>2, <2>3, <2>4
  <2>7. \A o, q \in Reqs, t \in Tokens : Busy(o, t)' /\ Busy(q, t)' => o = q \/ t \in raced'
    BY <2>2, <2>4
  <2>8. ExchangedOnceUnlessRaced'
    BY <2>2, <2>3 DEF ExchangedOnceUnlessRaced
  <2> QED
    BY <2>5, <2>6, <2>7, <2>8
<1> QED
  BY <1>2, <1>3, Recorded

-----------------------------------------------------------------------------
(* Theorems *)

THEOREM Invariant == Spec => []IInv
<1>1. IInv /\ [Next]_vars => IInv'
  BY TypeStep, StoresStep, RequestsStep, SuccessorsStep DEF IInv
<1> QED
  BY InitInv, <1>1, PTL DEF Spec

\* The state of every replica, store and request is of its type: what a replica keeps
\* of its own dies with it (Stop), and a request is served by a replica that runs.
THEOREM TypeCorrect == Spec => []TypeOK
BY Invariant, PTL DEF IInv

\* RetiredEverywhere: what a refresh (routes/auth.py:99) or a logout (routes/auth.py:138)
\* retired stays retired whichever store a replica has, through every crash of a replica
\* or of Redis and every failed round trip, for any number of overlapping requests.
THEOREM RetirementIsGlobal == Spec => []RetiredEverywhere
<1>1. IInv => RetiredEverywhere
  <2> SUFFICES ASSUME IInv, NEW t \in retired, NEW i \in Replicas, Exchanges(i, t)
               PROVE  FALSE
    BY DEF RetiredEverywhere
  <2>1. Store(i) \in Places
    BY Place DEF IInv, Exchanges
  <2> QED
    BY <2>1 DEF IInv, StoresInv, Refused, Exchanges, Active
<1> QED
  BY Invariant, <1>1, PTL

\* EndedForGood: a session that clients held when a logout-all of Redis began
\* (token_store.py:168) is not found again after its answer, unless a logout-all has
\* removed its key from the user's list without deleting it (token_store.py:170-177).
THEOREM LogoutAllIsForGood == Spec => []EndedForGood
<1>1. IInv => EndedForGood
  <2> SUFFICES ASSUME IInv, NEW t \in ended \ missed, NEW i \in Replicas, Exchanges(i, t)
               PROVE  FALSE
    BY DEF EndedForGood
  <2>1. Store(i) \in Places
    BY Place DEF IInv, Exchanges
  <2> QED
    BY <2>1 DEF IInv, StoresInv, Ended, Exchanges, Active
<1> QED
  BY Invariant, <1>1, PTL

\* ExchangedOnceUnlessRaced: the only way to a second successor of a refresh token is
\* two refreshes of it that are both past enforce_refresh_active (services/auth.py:76-81)
\* in one store before either has removed the session (token_store.py:150-153); no crash,
\* second store, failed round trip or repeat of a failed refresh gives another.
THEOREM SecondExchangeIsRaced == Spec => []ExchangedOnceUnlessRaced
<1>1. IInv => ExchangedOnceUnlessRaced
  BY DEF IInv, Successors
<1> QED
  BY Invariant, <1>1, PTL

=============================================================================
