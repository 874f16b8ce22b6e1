-------------------------- MODULE LoginLockoutProofs --------------------------
(* Theorems of LoginLockout, for any number of workers, limit and window.      *)
EXTENDS LoginLockout, TLAPS

LEMMA TypeInductive == TypeOK /\ [Next]_vars => TypeOK'
<1> SUFFICES ASSUME TypeOK, [Next]_vars PROVE TypeOK'
  OBVIOUS
<1> USE BoundsAssumption
<1> DEFINE Requests == {Idle} \cup Reading \cup Writing \cup Checking
<1>1. \A n \in Nat : Capped(n) \in 0..Limit + 1 BY DEF Capped
<1>2. Current \in Nat /\ Current <= Limit + 1 BY DEF TypeOK, Current
<1>3. WindowLeft \in 0..Window BY DEF TypeOK, WindowLeft
<1>4. \A n \in 0..Window : Less(n) \in 0..Window BY DEF Less
<1>5. \A right \in BOOLEAN, step \in {"check", "clear"} :
        [at |-> step, right |-> right] \in Requests
  BY DEF Checking
<1>admit. ASSUME NEW r \in Reqs, NEW n \in Nat, Admit(r, n), req[r].right \in BOOLEAN
          PROVE  req' \in [Reqs -> Requests] /\ admitted' \in 0..Limit + 1
  <2>1. [at |-> "check", right |-> req[r].right] \in Requests BY <1>5, <1>admit
  <2>2. req' \in [Reqs -> Requests] BY <1>admit, <2>1 DEF Admit, TypeOK
  <2>3. admitted' \in 0..Limit + 1 BY <1>admit, <1>1 DEF Admit, TypeOK
  <2>4. QED BY <2>2, <2>3
<1>tick. CASE Tick
  <2>1. ASSUME NEW r \in Reqs, req[r].at = "write"
        PROVE  [req[r] EXCEPT !.left = Less(@)] \in Writing
    BY <1>4, <2>1 DEF TypeOK, Idle, Reading, Writing, Checking
  <2>2. req' \in [Reqs -> Requests] BY <1>tick, <2>1 DEF Tick, TypeOK
  <2>3. QED BY <1>tick, <1>4, <2>2 DEF Tick, TypeOK
<1>start. ASSUME NEW r \in Reqs, NEW right \in BOOLEAN, Start(r, right) PROVE TypeOK'
  <2>1. [at |-> "count", right |-> right] \in Requests BY DEF Reading
  <2>2. QED BY <1>start, <2>1 DEF Start, TypeOK
<1>redis. ASSUME NEW r \in Reqs, RedisCount(r) PROVE TypeOK'
  <2>1. req[r].right \in BOOLEAN
    BY <1>redis DEF RedisCount, TypeOK, Idle, Reading, Writing, Checking
  <2>2. Capped(Current + 1) \in 0..Limit + 1 BY <1>1, <1>2
  <2>3. QED BY <1>redis, <1>admit, <1>2, <2>1, <2>2 DEF RedisCount, TypeOK
<1>read. ASSUME NEW r \in Reqs, MemoryRead(r) PROVE TypeOK'
  <2>1. [at |-> "write", right |-> req[r].right, count |-> Current, left |-> WindowLeft] \in Writing
    BY <1>read, <1>2, <1>3 DEF MemoryRead, TypeOK, Idle, Reading, Writing, Checking
  <2>2. QED BY <1>read, <2>1 DEF MemoryRead, TypeOK
<1>write. ASSUME NEW r \in Reqs, MemoryWrite(r) PROVE TypeOK'
  <2>1. req[r].right \in BOOLEAN /\ req[r].count \in 0..Limit + 1 /\ req[r].left \in 0..Window
    BY <1>write DEF MemoryWrite, TypeOK, Idle, Reading, Writing, Checking
  <2>2. Capped(req[r].count + 1) \in 0..Limit + 1 BY <1>1, <2>1
  <2>3. QED BY <1>write, <1>admit, <2>1, <2>2 DEF MemoryWrite, TypeOK
<1>check. ASSUME NEW r \in Reqs, CheckPassword(r) PROVE TypeOK'
  <2>1. [req[r] EXCEPT !.at = "clear"] \in Checking
    BY <1>check DEF CheckPassword, TypeOK, Idle, Reading, Writing, Checking
  <2>2. QED BY <1>check, <2>1 DEF CheckPassword, TypeOK
<1>clear. ASSUME NEW r \in Reqs, Clear(r) PROVE TypeOK'
  BY <1>clear DEF Clear, TypeOK
<1>fail. ASSUME NEW r \in Reqs, Fail(r) PROVE TypeOK'
  BY <1>fail DEF Fail, TypeOK
<1>stutter. CASE UNCHANGED vars BY <1>stutter DEF vars, TypeOK
<1>6. QED
  BY <1>tick, <1>start, <1>redis, <1>read, <1>write, <1>check, <1>clear, <1>fail, <1>stutter
     DEF Next, Work

\* The counter, its window and what the workers hold of them keep their ranges,
\* the values that a thread read before others wrote included.
THEOREM LockoutTypeCorrect == Spec => []TypeOK
<1>1. Init => TypeOK BY BoundsAssumption DEF Init, TypeOK
<1>2. QED BY <1>1, TypeInductive, PTL DEF Spec

\* Every attempt let through in the current window is counted in the entry.
Counted == admitted <= Limit /\ (left > 0 => admitted <= count)
AllCounted == backend = "redis" => Counted

LEMMA AllCountedInductive ==
  ASSUME TypeOK, AllCounted, [Next]_vars
  PROVE  AllCounted'
<1> USE BoundsAssumption
<1>1. backend' = backend
  BY DEF Next, Work, Tick, Start, RedisCount, MemoryRead, MemoryWrite, CheckPassword,
         Clear, Fail, vars
<1> SUFFICES ASSUME backend = "redis" PROVE Counted'
  BY <1>1 DEF AllCounted
<1>2. Counted /\ count \in Nat /\ left \in Nat /\ admitted \in Nat
  BY DEF TypeOK, AllCounted
<1>tick. CASE Tick BY <1>2, <1>tick DEF Tick, Less, Counted
<1>redis. ASSUME NEW r \in Reqs, RedisCount(r) PROVE Counted'
  <2>1. CASE Locks(Current + 1)
    <3>1. admitted' = admitted BY <1>redis, <2>1 DEF RedisCount, Admit
    <3>2. count' = Limit + 1 BY <1>2, <1>redis, <2>1 DEF RedisCount, Locks, Capped, Current, TypeOK
    <3>3. QED BY <1>2, <3>1, <3>2 DEF Counted
  <2>2. CASE ~Locks(Current + 1)
    <3>1. admitted' = Capped(IF left > 0 THEN admitted + 1 ELSE 1)
      BY <1>redis, <2>2 DEF RedisCount, Admit
    <3>2. Current + 1 <= Limit /\ count' = Current + 1
      BY <1>2, <1>redis, <2>2 DEF RedisCount, Locks, Capped, Current
    <3>3. QED BY <1>2, <3>1, <3>2 DEF Counted, Capped, Current
  <2>3. QED BY <2>1, <2>2
<1>clear. ASSUME NEW r \in Reqs, Clear(r) PROVE Counted'
  BY <1>clear DEF Clear, Counted
<1>quiet. ASSUME UNCHANGED <<count, left, admitted>> PROVE Counted'
  BY <1>2, <1>quiet DEF Counted
<1>3. QED
  BY <1>tick, <1>redis, <1>clear, <1>quiet
     DEF Next, Work, Start, MemoryRead, MemoryWrite, CheckPassword, Fail, vars

\* With Redis no overlap of logins gets a guess in beyond the limit.
THEOREM RedisLimitsAttempts == Spec => []AttemptsLimited
<1>1. Init => AllCounted BY BoundsAssumption DEF Init, AllCounted, Counted
<1>2. TypeOK /\ AllCounted /\ [Next]_vars => AllCounted' BY AllCountedInductive
<1>3. AllCounted => AttemptsLimited BY DEF AllCounted, Counted, AttemptsLimited
<1>4. QED BY <1>1, <1>2, <1>3, LockoutTypeCorrect, PTL DEF Spec

=============================================================================
