----------------------------- MODULE RedisStore -----------------------------
(***************************************************************************)
(* app/services/token_store.py, class RedisStore: the keys every replica   *)
(* of the API shares.  One action per method, each the single command or   *)
(* MULTI/EXEC pipeline the method sends, so Redis runs it atomically;      *)
(* revoke_all_refresh is two round trips and hence two operators.          *)
(*                                                                         *)
(* A key set with a TTL is represented by the second at which it expires   *)
(* (0: no such key).  One clock, in whole seconds, serves the replicas and *)
(* Redis.  The login-failure keys are the subject of LoginLockout.         *)
(***************************************************************************)
EXTENDS Integers

CONSTANTS
  Users,     \* user ids
  Jtis,      \* every refresh-token id uuid4 will ever draw
  Sub,       \* Sub[j]: the user for whom j is drawn (an id is drawn once)
  MaxTime    \* bound: the clock stops there

ASSUME SubAssumption     == Sub \in [Jtis -> Users]
ASSUME MaxTimeAssumption == MaxTime \in Nat

VARIABLES
  now,            \* the clock
  refreshKey,     \* refresh:{user}:{jti}    jti -> expiry
  refreshSet,     \* refreshset:{user}       user -> jtis
  refreshSetExp,  \*   its expiry            user -> expiry
  blacklist,      \* blacklist:{token}       token -> expiry
  accessRevoked   \* accessrevoked:{user}    user -> [at, exp]

storeVars == <<now, refreshKey, refreshSet, refreshSetExp, blacklist, accessRevoked>>

\* An access token has no jti: its payload is sub, type, iat and exp, and the
\* signature is deterministic, so sub and iat determine the string.
AccessToken == [sub : Users, iat : 0..MaxTime]
Token == Jtis \cup AccessToken

\* No JWT is a uuid4.
ASSUME TokenAssumption == Jtis \cap AccessToken = {}

StoreTypeOK ==
  /\ now \in 0..MaxTime
  /\ refreshKey \in [Jtis -> Nat]
  /\ refreshSet \in [Users -> SUBSET Jtis]
  /\ refreshSetExp \in [Users -> Nat]
  /\ blacklist \in [Token -> Nat]
  /\ accessRevoked \in [Users -> [at : Nat, exp : Nat]]

StoreInit ==
  /\ now = 0
  /\ refreshKey = [j \in Jtis |-> 0]
  /\ refreshSet = [u \in Users |-> {}]
  /\ refreshSetExp = [u \in Users |-> 0]
  /\ blacklist = [t \in Token |-> 0]
  /\ accessRevoked = [u \in Users |-> [at |-> 0, exp |-> 0]]

-----------------------------------------------------------------------------
(* Reads *)

\* A key is there until the second it expires.
Live(expiry) == now < expiry

Exists(t) == Live(blacklist[t])

IsRefreshActive(j) == Live(refreshKey[j])

\* SMEMBERS: an expired set is an empty one.
Members(u) == IF Live(refreshSetExp[u]) THEN refreshSet[u] ELSE {}

\* Mutant of RevokedSince: a token of the very second of the marker passes.
RevokedBefore(u, iat) == Live(accessRevoked[u].exp) /\ iat < accessRevoked[u].at

\* The marker is present and an access token issued at iat is not newer.
RevokedSince(u, iat) == Live(accessRevoked[u].exp) /\ iat <= accessRevoked[u].at

(* Writes *)

Add(t, ttl) ==
  /\ blacklist' = [blacklist EXCEPT ![t] = now + ttl]
  /\ UNCHANGED <<now, refreshKey, refreshSet, refreshSetExp, accessRevoked>>

\* Mutant of AddRefreshSession: EXPIRE only when the set is new.
AddKeepingExpiry(j, ttl) ==
  /\ refreshKey' = [refreshKey EXCEPT ![j] = now + ttl]
  /\ refreshSet' = [refreshSet EXCEPT ![Sub[j]] = Members(Sub[j]) \cup {j}]
  /\ refreshSetExp' = [refreshSetExp EXCEPT ![Sub[j]] = IF Live(@) THEN @ ELSE now + ttl]
  /\ UNCHANGED <<now, blacklist, accessRevoked>>

\* SETEX, SADD and EXPIRE of the set, in one pipeline.
AddRefreshSession(j, ttl) ==
  /\ refreshKey' = [refreshKey EXCEPT ![j] = now + ttl]
  /\ refreshSet' = [refreshSet EXCEPT ![Sub[j]] = Members(Sub[j]) \cup {j}]
  /\ refreshSetExp' = [refreshSetExp EXCEPT ![Sub[j]] = now + ttl]
  /\ UNCHANGED <<now, blacklist, accessRevoked>>

\* Mutant of RemoveRefreshSession: SREM without DEL.
RemoveFromSetOnly(j) ==
  /\ refreshSet' = [refreshSet EXCEPT ![Sub[j]] = Members(Sub[j]) \ {j}]
  /\ UNCHANGED <<now, refreshKey, refreshSetExp, blacklist, accessRevoked>>

\* DEL of the key and SREM, in one pipeline.
RemoveRefreshSession(j) ==
  /\ refreshKey' = [refreshKey EXCEPT ![j] = 0]
  /\ refreshSet' = [refreshSet EXCEPT ![Sub[j]] = Members(Sub[j]) \ {j}]
  /\ UNCHANGED <<now, refreshSetExp, blacklist, accessRevoked>>

\* Mutant of DeleteSessions: the set goes, the keys it lists stay.
DeleteSetOnly(u, jtis) ==
  /\ refreshSet' = [refreshSet EXCEPT ![u] = {}]
  /\ refreshSetExp' = [refreshSetExp EXCEPT ![u] = 0]
  /\ UNCHANGED <<now, refreshKey, blacklist, accessRevoked>>

\* The second half of revoke_all_refresh: DEL of the keys of the jtis that
\* SMEMBERS returned a round trip earlier, and of the whole set.
DeleteSessions(u, jtis) ==
  /\ refreshKey' = [j \in Jtis |-> IF j \in jtis THEN 0 ELSE refreshKey[j]]
  /\ refreshSet' = [refreshSet EXCEPT ![u] = {}]
  /\ refreshSetExp' = [refreshSetExp EXCEPT ![u] = 0]
  /\ UNCHANGED <<now, blacklist, accessRevoked>>

SetAccessRevokedAt(u, revokedAt, ttl) ==
  /\ accessRevoked' = [accessRevoked EXCEPT ![u] = [at |-> revokedAt, exp |-> now + ttl]]
  /\ UNCHANGED <<now, refreshKey, refreshSet, refreshSetExp, blacklist>>

\* A second passes; keys whose expiry is reached are gone.
Tick ==
  /\ now < MaxTime
  /\ now' = now + 1
  /\ UNCHANGED <<refreshKey, refreshSet, refreshSetExp, blacklist, accessRevoked>>

=============================================================================
