----------------------------- MODULE MemoryStore -----------------------------
(***************************************************************************)
(* app/services/token_store.py, class InMemoryStore: the refresh sessions  *)
(* and the access-revocation marker of one user, in the dictionaries of a  *)
(* process whose worker threads take no lock.  Other users have entries of *)
(* their own.  A step is one operation on a shared dictionary, which the   *)
(* interpreter runs atomically, with the computation up to the next one.   *)
(*                                                                         *)
(* _refresh[user] is an object that threads hold on to while others detach *)
(* it, so dictionaries have identities.  The failure counter is the        *)
(* subject of LoginLockout; a blacklist entry is set once and only expires.*)
(***************************************************************************)
EXTENDS Naturals

CONSTANTS
  Threads,
  Jtis,      \* every refresh-token id uuid4 will ever draw
  Dicts,     \* identities of session dictionaries; unreachable ones are reused
  TTL,       \* the lifetime of a session
  MarkTTL,   \* the lifetime of the marker
  MaxTime,   \* bound: the clock stops there
  None

ASSUME TimesAssumption == TTL \in Nat \ {0} /\ MarkTTL \in Nat \ {0} /\ MaxTime \in Nat
ASSUME NoneAssumption == None \notin Dicts \cup Jtis

VARIABLES
  now,
  table,     \* _refresh[user]: a dictionary, or None
  entries,   \* entries[d]: jti -> expiry (0: no such key)
  marker,    \* the expiry in _access_revoked[user] (0: no entry)
  call,      \* the method each thread is in
  drawn,     \* ids uuid4 has drawn
  \* History, read by properties only:
  given,     \* ids whose add has returned
  opened,    \* ids that were ever in _refresh[user] and unexpired
  ended,     \* ids a remove or a revoke_all has been called for
  alone,     \* threads whose call has overlapped no other so far
  kept,      \* kept[j]: the expiry j was added with by a call that overlapped none
  marked     \* the same of the last marker

store == <<table, entries, marker>>
vars == <<now, store, call, drawn, given, opened, ended, alone, kept, marked>>

Step == {"idle", "setdefault", "assign", "get", "pop", "test", "detach",
         "lookup", "nonempty", "scan", "prune", "still", "in", "expired"}

\* `op` tells who detaches; the rest are the methods' locals: `old` is the jti passed
\* (`jti`, `old_jti`), `dict` is `sessions`, `asOf` is `now`; `seen` is the expiry in
\* `data`.  `dead` is history.
Call == [op : {"none", "remove", "active"}, at : Step, old : Jtis \cup {None},
         new : Jtis \cup {None}, dict : Dicts \cup {None}, expiry : Nat, asOf : Nat,
         expired : SUBSET Jtis, seen : Nat, dead : BOOLEAN]

Idle == [op |-> "none", at |-> "idle", old |-> None, new |-> None, dict |-> None,
         expiry |-> 0, asOf |-> 0, expired |-> {}, seen |-> 0, dead |-> FALSE]

\* Steps that use the dictionary the thread holds: it must hold one.
Holding == {"assign", "pop", "test", "nonempty", "scan", "prune", "still", "in"}

TypeOK ==
  /\ now \in 0..MaxTime
  /\ table \in Dicts \cup {None}
  /\ entries \in [Dicts -> [Jtis -> Nat]]
  /\ marker \in Nat
  /\ call \in [Threads -> Call]
  /\ \A t \in Threads : call[t].at \in Holding => call[t].dict \in Dicts
  /\ drawn \subseteq Jtis /\ given \subseteq drawn /\ opened \subseteq drawn
  /\ ended \subseteq drawn /\ alone \subseteq Threads
  /\ kept \in [Jtis -> Nat] /\ marked \in Nat

Empty == [j \in Jtis |-> 0]

Init ==
  /\ now = 0
  /\ table = None
  /\ entries = [d \in Dicts |-> Empty]
  /\ marker = 0
  /\ call = [t \in Threads |-> Idle]
  /\ drawn = {} /\ given = {} /\ opened = {} /\ ended = {} /\ alone = {}
  /\ kept = [j \in Jtis |-> 0] /\ marked = 0

-----------------------------------------------------------------------------
(* Helpers *)

Live(j) == table # None /\ now < entries[table][j]

Phase(j) == IF j \notin opened THEN "fresh" ELSE IF Live(j) THEN "live" ELSE "over"

Others(t) == {o \in Threads \ {t} : call[o] # Idle}

Begin(t, c) ==
  /\ call[t] = Idle
  /\ call' = [call EXCEPT ![t] = c]
  /\ alone' = IF Others(t) = {} THEN {t} ELSE {}

Goto(t, step) == call' = [call EXCEPT ![t].at = step]

Return(t) == call' = [call EXCEPT ![t] = Idle]

\* remove_refresh_session returns; in rotate_refresh_session the add follows.
Removed(t) == IF call[t].new = None THEN Return(t) ELSE Goto(t, "setdefault")

Falsy(d) == entries[d] = Empty

-----------------------------------------------------------------------------
(* add_refresh_session: _refresh.setdefault(user_id, {})[jti] = expiry        *)

StartAdd(t, j) ==
  /\ j \notin drawn
  /\ drawn' = drawn \cup {j}
  /\ Begin(t, [Idle EXCEPT !.at = "setdefault", !.new = j])
  /\ UNCHANGED <<now, store, given, opened, ended, kept, marked>>

\* The expiry is computed first; a dictionary nothing refers to is a new one.
AddLookup(t) ==
  /\ call[t].at = "setdefault"
  /\ \E d \in Dicts :
       /\ IF table # None
            THEN d = table /\ UNCHANGED entries
            ELSE /\ \A o \in Threads \ {t} : call[o].dict # d
                 /\ entries' = [entries EXCEPT ![d] = Empty]
       /\ table' = d
       /\ call' = [call EXCEPT ![t].at = "assign", ![t].dict = d, ![t].expiry = now + TTL]
  /\ UNCHANGED <<now, marker, drawn, given, opened, ended, alone, kept, marked>>

AddAssign(t) ==
  /\ call[t].at = "assign"
  /\ LET j == call[t].new
         expiry == call[t].expiry
     IN  /\ entries' = [entries EXCEPT ![call[t].dict][j] = expiry]
         /\ given' = given \cup {j}
         /\ opened' = IF call[t].dict = table /\ now < expiry THEN opened \cup {j} ELSE opened
         /\ kept' = IF t \in alone THEN [kept EXCEPT ![j] = expiry] ELSE kept
  /\ Return(t)
  /\ UNCHANGED <<now, table, marker, drawn, ended, alone, marked>>

-----------------------------------------------------------------------------
(* remove_refresh_session, alone or at the start of rotate_refresh_session    *)

StartRemove(t, j) ==
  /\ Begin(t, [Idle EXCEPT !.op = "remove", !.at = "get", !.old = j])
  /\ ended' = ended \cup {j}
  /\ UNCHANGED <<now, store, drawn, given, opened, kept, marked>>

StartRotate(t, j, new) ==
  /\ new \notin drawn
  /\ drawn' = drawn \cup {new}
  /\ Begin(t, [Idle EXCEPT !.op = "remove", !.at = "get", !.old = j, !.new = new])
  /\ ended' = ended \cup {j}
  /\ UNCHANGED <<now, store, given, opened, kept, marked>>

\* Mutant of RemoveGet: get without a default.
GetOrNone(t) ==
  /\ call[t].at = "get"
  /\ call' = [call EXCEPT ![t].dict = table, ![t].at = "pop"]
  /\ UNCHANGED <<now, store, drawn, given, opened, ended, alone, kept, marked>>

\* The default of get is a dictionary of the thread's own, and falsy.
RemoveGet(t) ==
  /\ call[t].at = "get"
  /\ call' = [call EXCEPT ![t].dict = table,
                          ![t].at = IF table = None THEN "detach" ELSE "pop"]
  /\ UNCHANGED <<now, store, drawn, given, opened, ended, alone, kept, marked>>

RemovePop(t) ==
  /\ call[t].at = "pop"
  /\ entries' = [entries EXCEPT ![call[t].dict][call[t].old] = 0]
  /\ Goto(t, "test")
  /\ UNCHANGED <<now, table, marker, drawn, given, opened, ended, alone, kept, marked>>

\* Mutant of RemoveTest: the user's dictionary is dropped unseen.
RemoveAlways(t) ==
  /\ call[t].at = "test"
  /\ Goto(t, "detach")
  /\ UNCHANGED <<now, store, drawn, given, opened, ended, alone, kept, marked>>

RemoveTest(t) ==
  /\ call[t].at = "test"
  /\ IF Falsy(call[t].dict) THEN Goto(t, "detach") ELSE Removed(t)
  /\ UNCHANGED <<now, store, drawn, given, opened, ended, alone, kept, marked>>

\* _refresh.pop(user_id, None), which drops whatever is there by now; also the
\* last write of is_refresh_active, which still has to answer.
Detach(t) ==
  /\ call[t].at = "detach"
  /\ table' = None
  /\ IF call[t].op = "remove" THEN Removed(t) ELSE Goto(t, "in")
  /\ UNCHANGED <<now, entries, marker, drawn, given, opened, ended, alone, kept, marked>>

-----------------------------------------------------------------------------
(* is_refresh_active                                                          *)

StartIsActive(t, j) ==
  /\ Begin(t, [Idle EXCEPT !.op = "active", !.at = "lookup", !.old = j, !.asOf = now,
                           !.dead = (Phase(j) = "over")])
  /\ UNCHANGED <<now, store, drawn, given, opened, ended, kept, marked>>

ActiveGet(t) ==
  /\ call[t].at = "lookup"
  /\ IF table = None
       THEN Return(t)
       ELSE call' = [call EXCEPT ![t].dict = table, ![t].at = "nonempty"]
  /\ UNCHANGED <<now, store, drawn, given, opened, ended, alone, kept, marked>>

ActiveNonempty(t) ==
  /\ call[t].at = "nonempty"
  /\ IF Falsy(call[t].dict) THEN Return(t) ELSE Goto(t, "scan")
  /\ UNCHANGED <<now, store, drawn, given, opened, ended, alone, kept, marked>>

\* Mutant of Expired: a session is good in the second it expires.
ExpiredLate(d, asOf) == {k \in Jtis : entries[d][k] # 0 /\ entries[d][k] < asOf}

Expired(d, asOf) == {k \in Jtis : entries[d][k] # 0 /\ entries[d][k] <= asOf}

ActiveScan(t) ==
  /\ call[t].at = "scan"
  /\ call' = [call EXCEPT ![t].expired = Expired(call[t].dict, call[t].asOf), ![t].at = "prune"]
  /\ UNCHANGED <<now, store, drawn, given, opened, ended, alone, kept, marked>>

\* The iteration raises when another thread adds or removes a key meanwhile.
ScanRaises(t) ==
  /\ call[t].at = "scan"
  /\ Others(t) # {}
  /\ Return(t)
  /\ UNCHANGED <<now, store, drawn, given, opened, ended, alone, kept, marked>>

Pruned(t) == [j \in Jtis |-> IF j \in call[t].expired THEN 0 ELSE entries[call[t].dict][j]]

\* Mutant of ActivePrune: the pruned dictionary is stored again under the user,
\* as list_refresh_sessions does.
PruneAndStore(t) ==
  /\ call[t].at = "prune"
  /\ entries' = [entries EXCEPT ![call[t].dict] = Pruned(t)]
  /\ table' = call[t].dict
  /\ Goto(t, "still")
  /\ UNCHANGED <<now, marker, drawn, given, opened, ended, alone, kept, marked>>

\* The pops of the loop in one step: an id is never added twice.
ActivePrune(t) ==
  /\ call[t].at = "prune"
  /\ entries' = [entries EXCEPT ![call[t].dict] = Pruned(t)]
  /\ Goto(t, "still")
  /\ UNCHANGED <<now, table, marker, drawn, given, opened, ended, alone, kept, marked>>

ActiveStill(t) ==
  /\ call[t].at = "still"
  /\ IF Falsy(call[t].dict) THEN Goto(t, "detach") ELSE Goto(t, "in")
  /\ UNCHANGED <<now, store, drawn, given, opened, ended, alone, kept, marked>>

Answer(t) == entries[call[t].dict][call[t].old] # 0

ActiveAnswer(t) ==
  /\ call[t].at = "in"
  /\ Return(t)
  /\ UNCHANGED <<now, store, drawn, given, opened, ended, alone, kept, marked>>

-----------------------------------------------------------------------------
(* revoke_all_refresh and set_access_revoked_at are one operation each.       *)

RevokeAll(t) ==
  /\ call[t] = Idle
  /\ table' = None
  /\ ended' = drawn
  /\ alone' = {}
  /\ UNCHANGED <<now, entries, marker, call, drawn, given, opened, kept, marked>>

SetMarker(t) ==
  /\ call[t] = Idle
  /\ marker' = now + MarkTTL
  /\ marked' = IF Others(t) = {} THEN now + MarkTTL ELSE 0
  /\ alone' = {}
  /\ UNCHANGED <<now, table, entries, call, drawn, given, opened, ended, kept>>

\* get_access_revoked_at: an absent entry is answered at once, a present one
\* compared with the clock, and dropped by key when the one READ is expired.
StartGetMarker(t) ==
  /\ marker # 0
  /\ Begin(t, [Idle EXCEPT !.at = "expired", !.seen = marker])
  /\ UNCHANGED <<now, store, drawn, given, opened, ended, kept, marked>>

\* Mutant of DropMarker: the comparison is the wrong way round.
DropLiveMarker(t) ==
  /\ call[t].at = "expired"
  /\ marker' = IF call[t].seen >= now THEN 0 ELSE marker
  /\ Return(t)
  /\ UNCHANGED <<now, table, entries, drawn, given, opened, ended, alone, kept, marked>>

DropMarker(t) ==
  /\ call[t].at = "expired"
  /\ marker' = IF call[t].seen <= now THEN 0 ELSE marker
  /\ Return(t)
  /\ UNCHANGED <<now, table, entries, drawn, given, opened, ended, alone, kept, marked>>

Tick ==
  /\ now < MaxTime
  /\ now' = now + 1
  /\ UNCHANGED <<store, call, drawn, given, opened, ended, alone, kept, marked>>

\* Clients present ids they were given; login and refresh draw new ones.
Start(t) ==
  \/ \E j \in Jtis : StartAdd(t, j)
  \/ \E j \in given : StartRemove(t, j) \/ StartIsActive(t, j)
  \/ \E j \in given, new \in Jtis : StartRotate(t, j, new)
  \/ RevokeAll(t) \/ SetMarker(t) \/ StartGetMarker(t)

Add(t) == AddLookup(t) \/ AddAssign(t)
Remove(t) == RemoveGet(t) \/ RemovePop(t) \/ RemoveTest(t) \/ Detach(t)
IsActive(t) == \/ ActiveGet(t) \/ ActiveNonempty(t) \/ ActiveScan(t) \/ ScanRaises(t)
               \/ ActivePrune(t) \/ ActiveStill(t) \/ ActiveAnswer(t)

Next ==
  \/ Tick
  \/ \E t \in Threads : Start(t) \/ Add(t) \/ Remove(t) \/ IsActive(t) \/ DropMarker(t)

Spec == Init /\ [][Next]_vars

-----------------------------------------------------------------------------
(* Properties *)

Lifecycle == INSTANCE SessionLifecycle
               WITH Sessions <- Jtis, phase <- [j \in Jtis |-> Phase(j)],
                    parent <- [j \in Jtis |-> None]

\* However the threads overlap, a session that was removed, revoked or expired
\* never comes back: a dictionary that a thread still writes to is not put back.
\* (The store does not know which session replaces which.)
SessionsFollowLifecycle == Lifecycle!Spec

\* A session that was over when is_refresh_active was called is never reported
\* active, though the answer comes from a dictionary read several steps earlier.
DeadNeverReported ==
  [][\A t \in Threads : call[t].at = "in" /\ call'[t] = Idle /\ call[t].dead => ~Answer(t)]_vars

\* A session whose add overlapped no other call stays until it is removed or
\* revoked or it expires, whatever overlaps later.  (A session added while
\* another call is at work may be lost: Detach.)
AddedAloneIsKept == \A j \in given \ ended : now < kept[j] => Live(j)

\* The same of the revocation marker: it is there until it expires.
MarkerSetAloneIsKept == now < marked => now < marker

=============================================================================
