-------------------------- MODULE MemoryStoreProofs --------------------------
(* Theorems of MemoryStore, for any number of threads, ids and dictionaries.   *)
EXTENDS MemoryStore, TLAPS

-----------------------------------------------------------------------------
(* Which locals a method has at each of its steps, and whose id it adds: the   *)
(* id is drawn by this call, and given to nobody before the call returns.      *)

RemoveSteps == {"get", "pop", "test"}
ActiveSteps == {"lookup", "nonempty", "scan", "prune", "still", "in"}

\* What is true of the locals c of any call.
Shaped(c) ==
  /\ c.at \in RemoveSteps => c.op = "remove"
  /\ c.at \in ActiveSteps => c.op = "active"
  /\ c.at = "detach" => c.op = "remove" \/ (c.op = "active" /\ c.dict \in Dicts)
  /\ c.at \in Holding => c.dict \in Dicts
  /\ c.at \in {"setdefault", "assign"} => c.op # "active" /\ c.new # None
  /\ c.op # "none" => c.old \in given
  /\ c.op = "remove" => c.old \in ended

CallsShaped == \A t \in Threads : Shaped(call[t])

NewIsOwn ==
  \A t \in Threads :
    call[t].new # None => /\ call[t].new \in drawn \ given
                          /\ \A o \in Threads \ {t} : call[o].new # call[t].new

TypeInv == TypeOK /\ CallsShaped /\ NewIsOwn

-----------------------------------------------------------------------------
(* What was ever live was opened by its add, which gave it.                    *)

OpenedIsGiven == opened \subseteq given
LiveIsOpened == \A j \in Jtis : Live(j) => j \in opened

LiveInv == OpenedIsGiven /\ LiveIsOpened

\* The expiry that a call for a session that was over reads, then drops.
DeadTo(t) ==
  LET old == call[t].old
      dict == call[t].dict
  IN  /\ call[t].at = "lookup" => table = None \/ entries[table][old] <= call[t].asOf
      /\ call[t].at \in {"nonempty", "scan"} => entries[dict][old] <= call[t].asOf
      /\ call[t].at = "prune" => old \in call[t].expired \/ entries[dict][old] = 0
      /\ call[t].at \in {"still", "detach", "in"} => entries[dict][old] = 0

DeadStaysDead ==
  \A t \in Threads : call[t].op = "active" /\ call[t].dead => DeadTo(t)

-----------------------------------------------------------------------------
(* Nobody works beside a call that is alone; a session that such a call added  *)
(* keeps its dictionary in place, as every thread that came later holds that   *)
(* one, and finds it neither empty nor the session expired.                    *)

AloneIsAlone ==
  \A t \in alone : /\ \A o \in Threads \ {t} : call[o] = Idle
                   /\ call[t].at = "assign" => call[t].dict = table

AsOfIsPast == \A t \in Threads : call[t].asOf <= now

OnlyGivenIsKept == \A j \in Jtis \ given : kept[j] = 0

\* The sessions that have to be there.
Kept == {j \in given \ ended : now < kept[j]}

ReadyFor(t, j) ==
  /\ call[t].at # "detach"
  /\ call[t].at \in Holding => call[t].dict = table
  /\ call[t].at = "prune" => j \notin call[t].expired

KeptStays ==
  \A j \in Kept : /\ table # None /\ entries[table][j] = kept[j]
                 /\ \A t \in Threads : ReadyFor(t, j)

KeptInv == AloneIsAlone /\ AsOfIsPast /\ OnlyGivenIsKept /\ KeptStays

\* A thread that may drop the marker has read this one.
MarkerInv ==
  now < marked => /\ marker = marked
                  /\ \A t \in Threads : call[t].at = "expired" => call[t].seen = marked

-----------------------------------------------------------------------------
(* Types and the shape of a call                                               *)

LEMMA InitTyped == Init => TypeInv
  BY NoneAssumption, TimesAssumption
     DEF Init, TypeInv, TypeOK, CallsShaped, Shaped, NewIsOwn, Call, Idle, Step,
         Holding, Empty, RemoveSteps, ActiveSteps

\* A call that goes on to c, or returns, leaves the ids alone.
LEMMA MovedTyped ==
  ASSUME TypeInv, NEW t \in Threads, NEW c \in Call,
         call' = [call EXCEPT ![t] = c],
         \/ c = Idle
         \/ Shaped(c) /\ c.new \in {None, call[t].new},
         now' \in 0 .. MaxTime, table' \in Dicts \cup {None},
         entries' \in [Dicts -> [Jtis -> Nat]], marker' \in Nat,
         UNCHANGED <<drawn, given, opened, ended, alone, kept, marked>>
  PROVE  TypeInv'
<1>1. Shaped(c)
  BY DEF Shaped, Idle, RemoveSteps, ActiveSteps, Holding
<1>2. c.new \in {None, call[t].new}
  BY DEF Idle
<1>3. /\ call' \in [Threads -> Call] /\ call'[t] = c
      /\ \A o \in Threads \ {t} : call'[o] = call[o]
  BY DEF TypeInv, TypeOK
<1>4. CallsShaped'
  BY <1>1, <1>3 DEF CallsShaped, Shaped, TypeInv
<1>5. NewIsOwn'
  BY <1>2, <1>3 DEF NewIsOwn, TypeInv
<1>6. TypeOK'
  BY <1>1, <1>3, <1>4 DEF TypeInv, TypeOK, CallsShaped, Shaped
<1> QED BY <1>4, <1>5, <1>6 DEF TypeInv

\* The locals of a call.
LEMMA LocalsTyped ==
  ASSUME TypeInv, NEW t \in Threads
  PROVE  call[t] \in Call /\ Shaped(call[t])
  BY DEF TypeInv, TypeOK, CallsShaped

\* A thread that goes on to a step whose locals it has.
LEMMA GotoTyped ==
  ASSUME TypeInv, NEW t \in Threads, NEW step \in Step, Goto(t, step),
         Shaped([call[t] EXCEPT !.at = step]),
         now' \in 0 .. MaxTime, table' \in Dicts \cup {None},
         entries' \in [Dicts -> [Jtis -> Nat]], marker' \in Nat,
         UNCHANGED <<drawn, given, opened, ended, alone, kept, marked>>
  PROVE  TypeInv'
<1> DEFINE c == [call[t] EXCEPT !.at = step]
<1>1. c \in Call /\ c.new = call[t].new
  BY LocalsTyped DEF Call
<1>2. call' = [call EXCEPT ![t] = c]
  BY DEF Goto
<1> HIDE DEF c
<1> QED BY <1>1, <1>2, MovedTyped DEF c

LEMMA ReturnTyped ==
  ASSUME TypeInv, NEW t \in Threads, Return(t),
         now' \in 0 .. MaxTime, table' \in Dicts \cup {None},
         entries' \in [Dicts -> [Jtis -> Nat]], marker' \in Nat,
         UNCHANGED <<drawn, given, opened, ended, alone, kept, marked>>
  PROVE  TypeInv'
<1>1. Idle \in Call
  BY DEF Idle, Call, Step
<1> QED BY <1>1, MovedTyped DEF Return

\* A thread that begins a call with an id clients hold, or one drawn for it.
LEMMA BegunTyped ==
  ASSUME TypeInv, NEW t \in Threads, NEW c \in Call, Begin(t, c),
         drawn \subseteq drawn', drawn' \subseteq Jtis,
         ended \subseteq ended', ended' \subseteq drawn',
         Shaped(c)', c.new # None => c.new \in drawn' \ drawn,
         UNCHANGED <<now, store, given, opened, kept, marked>>
  PROVE  TypeInv'
<1> USE DEF store
<1>1. /\ call' \in [Threads -> Call] /\ call'[t] = c
      /\ \A o \in Threads \ {t} : call'[o] = call[o]
  BY DEF TypeInv, TypeOK, Begin
<1>2. CallsShaped'
  BY <1>1 DEF CallsShaped, Shaped, TypeInv
<1>3. NewIsOwn'
  BY <1>1 DEF NewIsOwn, TypeInv, TypeOK
<1>4. alone' \subseteq Threads
  BY DEF Begin
<1>5. TypeOK'
  BY <1>1, <1>2, <1>4 DEF TypeInv, TypeOK, CallsShaped, Shaped
<1> QED BY <1>2, <1>3, <1>5 DEF TypeInv

LEMMA StartTyped ==
  ASSUME TypeInv, NEW t \in Threads, Start(t)
  PROVE  TypeInv'
<1>0. /\ now \in 0 .. MaxTime /\ now \in Nat /\ table \in Dicts \cup {None}
      /\ entries \in [Dicts -> [Jtis -> Nat]] /\ marker \in Nat
      /\ drawn \subseteq Jtis /\ given \subseteq drawn /\ ended \subseteq drawn
  BY TimesAssumption DEF TypeInv, TypeOK
<1>1. ASSUME NEW j \in Jtis, StartAdd(t, j) PROVE TypeInv'
  <2> DEFINE c == [Idle EXCEPT !.at = "setdefault", !.new = j]
  <2>1. /\ c \in Call /\ c.new = j /\ Shaped(c)'
    BY NoneAssumption
       DEF Call, Idle, Step, Shaped, RemoveSteps, ActiveSteps, Holding
  <2>2. /\ Begin(t, c) /\ drawn' = drawn \cup {j} /\ j \notin drawn
        /\ UNCHANGED <<now, store, given, opened, ended, kept, marked>>
    BY <1>1 DEF StartAdd
  <2> HIDE DEF c
  <2> QED BY <1>0, <2>1, <2>2, BegunTyped
<1>2. ASSUME NEW j \in given, StartRemove(t, j) PROVE TypeInv'
  <2> DEFINE c == [Idle EXCEPT !.op = "remove", !.at = "get", !.old = j]
  <2>1. /\ ended' = ended \cup {j} /\ Begin(t, c)
        /\ UNCHANGED <<now, store, drawn, given, opened, kept, marked>>
    BY <1>2 DEF StartRemove
  <2>2. /\ c \in Call /\ c.new = None /\ Shaped(c)'
    BY <1>0, <2>1
       DEF Call, Idle, Step, Shaped, RemoveSteps, ActiveSteps, Holding
  <2> HIDE DEF c
  <2> QED BY <1>0, <2>1, <2>2, BegunTyped
<1>3. ASSUME NEW j \in given, StartIsActive(t, j) PROVE TypeInv'
  <2> DEFINE c == [Idle EXCEPT !.op = "active", !.at = "lookup", !.old = j, !.asOf = now,
                               !.dead = (Phase(j) = "over")]
  <2>1. /\ Begin(t, c)
        /\ UNCHANGED <<now, store, drawn, given, opened, ended, kept, marked>>
    BY <1>3 DEF StartIsActive
  <2>2. /\ c \in Call /\ c.new = None
        /\ c.at = "lookup" /\ c.op = "active" /\ c.old = j
    BY <1>0 DEF Call, Idle, Step
  <2> HIDE DEF c
  <2>3. \A x : x = c => Shaped(x)'
    BY <2>1, <2>2 DEF Shaped, RemoveSteps, ActiveSteps, Holding
  <2> QED BY <1>0, <2>1, <2>2, <2>3, BegunTyped
<1>4. ASSUME NEW j \in given, NEW new \in Jtis, StartRotate(t, j, new) PROVE TypeInv'
  <2> DEFINE c == [Idle EXCEPT !.op = "remove", !.at = "get", !.old = j, !.new = new]
  <2>1. /\ drawn' = drawn \cup {new} /\ new \notin drawn
        /\ ended' = ended \cup {j} /\ Begin(t, c)
        /\ UNCHANGED <<now, store, given, opened, kept, marked>>
    BY <1>4 DEF StartRotate
  <2>2. /\ c \in Call /\ c.new = new /\ Shaped(c)'
    BY <1>0, <2>1
       DEF Call, Idle, Step, Shaped, RemoveSteps, ActiveSteps, Holding
  <2> HIDE DEF c
  <2> QED BY <1>0, <2>1, <2>2, BegunTyped
<1>5. CASE RevokeAll(t)
  BY <1>5 DEF RevokeAll, TypeInv, TypeOK, CallsShaped, Shaped, NewIsOwn
<1>6. CASE SetMarker(t)
  BY <1>0, <1>6, TimesAssumption
     DEF SetMarker, TypeInv, TypeOK, CallsShaped, Shaped, NewIsOwn
<1>7. CASE StartGetMarker(t)
  <2> DEFINE c == [Idle EXCEPT !.at = "expired", !.seen = marker]
  <2>1. /\ Begin(t, c)
        /\ UNCHANGED <<now, store, drawn, given, opened, ended, kept, marked>>
    BY <1>7 DEF StartGetMarker
  <2>2. c \in Call /\ c.new = None /\ c.at = "expired" /\ c.op = "none"
    BY <1>0 DEF Call, Idle, Step
  <2> HIDE DEF c
  <2>3. \A x : x = c => Shaped(x)'
    BY <2>1, <2>2 DEF Shaped, RemoveSteps, ActiveSteps, Holding
  <2> QED BY <1>0, <2>1, <2>2, <2>3, BegunTyped
<1> QED BY <1>1, <1>2, <1>3, <1>4, <1>5, <1>6, <1>7, Start(t) DEF Start

LEMMA AddTyped ==
  ASSUME TypeInv, NEW t \in Threads, Add(t)
  PROVE  TypeInv'
<1>0. /\ now \in 0 .. MaxTime /\ now + TTL \in Nat /\ marker \in Nat
      /\ table \in Dicts \cup {None} /\ entries \in [Dicts -> [Jtis -> Nat]]
  BY TimesAssumption DEF TypeInv, TypeOK
<1>1. CASE AddLookup(t)
  <2>1. PICK d \in Dicts :
          /\ entries' = entries \/ entries' = [entries EXCEPT ![d] = Empty]
          /\ table' = d
          /\ call' = [call EXCEPT ![t].at = "assign", ![t].dict = d, ![t].expiry = now + TTL]
    BY <1>0, <1>1 DEF AddLookup
  <2> DEFINE c == [call[t] EXCEPT !.at = "assign", !.dict = d, !.expiry = now + TTL]
  <2>2. c \in Call /\ Shaped(c) /\ c.new = call[t].new
    BY <1>0, <1>1, LocalsTyped
       DEF AddLookup, Call, Step, Shaped, RemoveSteps, ActiveSteps, Holding
  <2>3. call' = [call EXCEPT ![t] = c]
    BY <2>1
  <2>4. entries' \in [Dicts -> [Jtis -> Nat]]
    BY <1>0, <2>1 DEF Empty
  <2> HIDE DEF c
  <2> QED BY <1>0, <1>1, <2>1, <2>2, <2>3, <2>4, MovedTyped DEF AddLookup
<1>2. CASE AddAssign(t)
  <2>1. /\ call[t].new \in drawn /\ call[t].new \in Jtis /\ call[t].dict \in Dicts
        /\ call[t].expiry \in Nat
    BY <1>2, LocalsTyped
       DEF AddAssign, Shaped, Holding, NewIsOwn, TypeInv, TypeOK, Call
  <2>2. /\ call' \in [Threads -> Call] /\ call'[t] = Idle
        /\ \A o \in Threads \ {t} : call'[o] = call[o]
        /\ given' = given \cup {call[t].new}
        /\ UNCHANGED <<now, table, marker, drawn, ended, alone, marked>>
    BY <1>2 DEF AddAssign, Return, Idle, Call, Step, TypeInv, TypeOK
  <2>3. CallsShaped'
    BY <2>2 DEF CallsShaped, Shaped, TypeInv, Idle, RemoveSteps, ActiveSteps, Holding
  <2>4. NewIsOwn'
    BY <2>2 DEF NewIsOwn, TypeInv, Idle
  <2>5. /\ entries' \in [Dicts -> [Jtis -> Nat]] /\ kept' \in [Jtis -> Nat]
        /\ given' \subseteq drawn' /\ opened' \subseteq drawn'
    BY <1>0, <1>2, <2>1 DEF AddAssign, TypeInv, TypeOK
  <2>6. TypeOK'
    BY <2>2, <2>3, <2>5 DEF TypeInv, TypeOK, CallsShaped, Shaped
  <2> QED BY <2>3, <2>4, <2>6 DEF TypeInv
<1> QED BY <1>1, <1>2, Add(t) DEF Add

LEMMA RemoveTyped ==
  ASSUME TypeInv, NEW t \in Threads, Remove(t)
  PROVE  TypeInv'
<1> USE DEF Shaped, RemoveSteps, ActiveSteps, Holding, Step, store
<1>0. /\ now \in 0 .. MaxTime /\ marker \in Nat /\ table \in Dicts \cup {None}
      /\ entries \in [Dicts -> [Jtis -> Nat]]
      /\ call[t] \in Call /\ Shaped(call[t])
  BY LocalsTyped DEF TypeInv, TypeOK
<1>1. CASE RemoveGet(t)
  <2> DEFINE c == [call[t] EXCEPT !.dict = table,
                                  !.at = IF table = None THEN "detach" ELSE "pop"]
  <2>1. c \in Call /\ Shaped(c) /\ c.new = call[t].new
    BY <1>0, <1>1 DEF RemoveGet, Call
  <2>2. call' = [call EXCEPT ![t] = c]
    BY <1>1 DEF RemoveGet
  <2> HIDE DEF c, Shaped
  <2> QED BY <1>0, <1>1, <2>1, <2>2, MovedTyped DEF RemoveGet
<1>2. CASE RemovePop(t)
  <2>1. Shaped([call[t] EXCEPT !.at = "test"])
    BY <1>0, <1>2 DEF RemovePop, Call
  <2>2. entries' \in [Dicts -> [Jtis -> Nat]]
    BY <1>0, <1>2 DEF RemovePop
  <2> HIDE DEF Shaped
  <2> QED BY <1>0, <1>2, <2>1, <2>2, GotoTyped DEF RemovePop
\* The removal is over: the call returns, or goes on to the add.
<1>removed. ASSUME Removed(t), call[t].op = "remove",
                   table' \in Dicts \cup {None},
                   UNCHANGED <<now, entries, marker, drawn, given, opened, ended, alone,
                               kept, marked>>
            PROVE  TypeInv'
  <2>1. CASE call[t].new = None
    BY <1>0, <1>removed, <2>1, ReturnTyped DEF Removed
  <2>2. CASE call[t].new # None
    <3>1. Shaped([call[t] EXCEPT !.at = "setdefault"])
      BY <1>0, <1>removed, <2>2 DEF Call
    <3> HIDE DEF Shaped
    <3> QED BY <1>0, <1>removed, <2>2, <3>1, GotoTyped DEF Removed
  <2> QED BY <2>1, <2>2
<1>3. CASE RemoveTest(t)
  <2>1. call[t].op = "remove"
    BY <1>0, <1>3 DEF RemoveTest
  <2>2. CASE Falsy(call[t].dict)
    <3>1. Shaped([call[t] EXCEPT !.at = "detach"])
      BY <1>0, <1>3, <2>1 DEF RemoveTest, Call
    <3> HIDE DEF Shaped
    <3> QED BY <1>0, <1>3, <2>2, <3>1, GotoTyped DEF RemoveTest
  <2>3. CASE ~Falsy(call[t].dict)
    BY <1>0, <1>3, <1>removed, <2>1, <2>3 DEF RemoveTest
  <2> QED BY <2>2, <2>3
<1>4. CASE Detach(t)
  <2>1. CASE call[t].op = "remove"
    BY <1>4, <1>removed, <2>1 DEF Detach
  <2>2. CASE call[t].op # "remove"
    <3>1. Shaped([call[t] EXCEPT !.at = "in"])
      BY <1>0, <1>4, <2>2 DEF Detach, Call
    <3> HIDE DEF Shaped
    <3> QED BY <1>0, <1>4, <2>2, <3>1, GotoTyped DEF Detach
  <2> QED BY <2>1, <2>2
<1> QED BY <1>1, <1>2, <1>3, <1>4, Remove(t) DEF Remove

LEMMA IsActiveTyped ==
  ASSUME TypeInv, NEW t \in Threads, IsActive(t) \/ DropMarker(t)
  PROVE  TypeInv'
<1> USE DEF Shaped, RemoveSteps, ActiveSteps, Holding, Step, store
<1>0. /\ now \in 0 .. MaxTime /\ marker \in Nat /\ table \in Dicts \cup {None}
      /\ entries \in [Dicts -> [Jtis -> Nat]]
      /\ call[t] \in Call /\ Shaped(call[t])
  BY LocalsTyped DEF TypeInv, TypeOK
\* The steps that only go on.
<1>goto. ASSUME NEW step \in {"scan", "still", "detach", "in"}, Goto(t, step),
                call[t].at \in ActiveSteps \ {"lookup"},
                entries' \in [Dicts -> [Jtis -> Nat]],
                UNCHANGED <<now, table, marker, drawn, given, opened, ended, alone, kept,
                            marked>>
         PROVE  TypeInv'
  <2>1. Shaped([call[t] EXCEPT !.at = step])
    BY <1>0, <1>goto DEF Call
  <2> HIDE DEF Shaped
  <2> QED BY <1>0, <1>goto, <2>1, GotoTyped
<1>1. CASE ActiveGet(t)
  <2>1. CASE table = None
    BY <1>0, <1>1, <2>1, ReturnTyped DEF ActiveGet
  <2>2. CASE table # None
    <3> DEFINE c == [call[t] EXCEPT !.dict = table, !.at = "nonempty"]
    <3>1. c \in Call /\ Shaped(c) /\ c.new = call[t].new
      BY <1>0, <1>1, <2>2 DEF ActiveGet, Call
    <3>2. call' = [call EXCEPT ![t] = c]
      BY <1>1, <2>2 DEF ActiveGet
    <3> HIDE DEF c, Shaped
    <3> QED BY <1>0, <1>1, <3>1, <3>2, MovedTyped DEF ActiveGet
  <2> QED BY <2>1, <2>2
<1>2. CASE ActiveNonempty(t)
  BY <1>0, <1>2, <1>goto, ReturnTyped DEF ActiveNonempty
<1>3. CASE ActiveScan(t)
  <2> DEFINE c == [call[t] EXCEPT !.expired = Expired(call[t].dict, call[t].asOf),
                                  !.at = "prune"]
  <2>1. c \in Call /\ Shaped(c) /\ c.new = call[t].new
    BY <1>0, <1>3 DEF ActiveScan, Call, Expired
  <2>2. call' = [call EXCEPT ![t] = c]
    BY <1>3 DEF ActiveScan
  <2> HIDE DEF c, Shaped
  <2> QED BY <1>0, <1>3, <2>1, <2>2, MovedTyped DEF ActiveScan
<1>4. CASE ScanRaises(t)
  BY <1>0, <1>4, ReturnTyped DEF ScanRaises
<1>5. CASE ActivePrune(t)
  <2>1. Pruned(t) \in [Jtis -> Nat]
    BY <1>0, <1>5 DEF ActivePrune, Pruned
  <2> QED BY <1>0, <1>5, <1>goto, <2>1 DEF ActivePrune
<1>6. CASE ActiveStill(t)
  BY <1>0, <1>6, <1>goto DEF ActiveStill
<1>7. CASE ActiveAnswer(t)
  BY <1>0, <1>7, ReturnTyped DEF ActiveAnswer
<1>8. CASE DropMarker(t)
  BY <1>0, <1>8, ReturnTyped DEF DropMarker
<1> QED BY <1>1, <1>2, <1>3, <1>4, <1>5, <1>6, <1>7, <1>8, IsActive(t) \/ DropMarker(t)
        DEF IsActive

LEMMA TickTyped == TypeInv /\ Tick => TypeInv'
  BY TimesAssumption
     DEF Tick, TypeInv, TypeOK, CallsShaped, Shaped, NewIsOwn, store

LEMMA StepTyped == TypeInv /\ [Next]_vars => TypeInv'
<1> SUFFICES ASSUME TypeInv, [Next]_vars PROVE TypeInv'
  OBVIOUS
<1>1. CASE UNCHANGED vars
  BY <1>1 DEF vars, store, TypeInv, TypeOK, CallsShaped, Shaped, NewIsOwn
<1> QED
  BY <1>1, StartTyped, AddTyped, RemoveTyped, IsActiveTyped, TickTyped DEF Next

LEMMA TypeInvAlways == Spec => []TypeInv
  BY InitTyped, StepTyped, PTL DEF Spec

\* Every dictionary a thread uses is one it holds, and the store's values keep
\* their types, whatever the threads interleave.
THEOREM TypeCorrect == Spec => []TypeOK
<1>1. TypeInv => TypeOK
  BY DEF TypeInv
<1> QED BY <1>1, TypeInvAlways, PTL

-----------------------------------------------------------------------------
(* The lifecycle of sessions                                                   *)

\* What a step does to the sessions that can be seen: one add makes its own live,
\* and nothing else makes any live.
LiveMove ==
  \/ opened' = opened /\ \A j \in Jtis : Live(j)' => Live(j)
  \/ \E s \in Jtis \ given :
       /\ opened' = opened \cup {s} /\ s \in given' /\ Live(s)'
       /\ \A j \in Jtis \ {s} : Live(j)' <=> Live(j)

LEMMA AddIsLiveMove ==
  ASSUME TypeInv, NEW t \in Threads, Add(t)
  PROVE  LiveMove /\ given \subseteq given'
<1>0. entries \in [Dicts -> [Jtis -> Nat]] /\ now \in Nat /\ table \in Dicts \cup {None}
  BY TimesAssumption DEF TypeInv, TypeOK
<1>1. CASE AddLookup(t)
  BY <1>0, <1>1 DEF AddLookup, LiveMove, Live, Empty
<1>2. CASE AddAssign(t)
  <2>1. PICK s \in Jtis \ given, d \in Dicts, expiry \in Nat :
          s = call[t].new /\ d = call[t].dict /\ expiry = call[t].expiry
    BY <1>2, LocalsTyped
       DEF AddAssign, Shaped, Holding, NewIsOwn, TypeInv, TypeOK, Call
  <2>2. /\ entries' = [entries EXCEPT ![d][s] = expiry] /\ UNCHANGED <<now, table>>
        /\ given' = given \cup {s}
        /\ opened' = IF d = table /\ now < expiry THEN opened \cup {s} ELSE opened
    BY <1>2, <2>1 DEF AddAssign
  <2>3. \A j \in Jtis \ {s} : entries'[table][j] = entries[table][j]
    BY <1>0, <2>1, <2>2
  <2>4. \A j \in Jtis \ {s} : Live(j)' <=> Live(j)
    BY <2>2, <2>3 DEF Live
  <2>5. CASE d = table /\ now < expiry
    <3>1. Live(s)'
      BY <1>0, <2>1, <2>2, <2>5, NoneAssumption DEF Live
    <3> QED BY <2>1, <2>2, <2>4, <2>5, <3>1 DEF LiveMove
  <2>6. CASE ~(d = table /\ now < expiry)
    <3>1. Live(s)' => Live(s)
      BY <1>0, <2>1, <2>2, <2>6 DEF Live
    <3> QED BY <2>2, <2>4, <2>6, <3>1 DEF LiveMove
  <2> QED BY <2>5, <2>6
<1> QED BY <1>1, <1>2, Add(t) DEF Add

LEMMA StepIsLiveMove ==
  ASSUME TypeInv, [Next]_vars
  PROVE  LiveMove /\ given \subseteq given'
<1>0. entries \in [Dicts -> [Jtis -> Nat]] /\ now \in Nat /\ table \in Dicts \cup {None}
  BY TimesAssumption DEF TypeInv, TypeOK
<1>1. ASSUME UNCHANGED <<now, table, entries, opened, given>>
      PROVE  LiveMove /\ given \subseteq given'
  BY <1>1 DEF LiveMove, Live
<1>2. ASSUME table' = None, UNCHANGED <<opened, given>>
      PROVE  LiveMove /\ given \subseteq given'
  BY <1>2 DEF LiveMove, Live
<1>3. CASE Tick
  BY <1>0, <1>3 DEF Tick, store, LiveMove, Live
<1>4. ASSUME NEW t \in Threads, Start(t) PROVE LiveMove /\ given \subseteq given'
  BY <1>1, <1>2, <1>4
     DEF Start, StartAdd, StartRemove, StartRotate, StartIsActive, RevokeAll, SetMarker,
         StartGetMarker, store
<1>5. ASSUME NEW t \in Threads, RemovePop(t) PROVE LiveMove /\ given \subseteq given'
  BY <1>0, <1>5, LocalsTyped DEF RemovePop, LiveMove, Live
<1>6. ASSUME NEW t \in Threads, Remove(t) PROVE LiveMove /\ given \subseteq given'
  BY <1>1, <1>2, <1>5, <1>6 DEF Remove, RemoveGet, RemoveTest, Detach, store
<1>7. ASSUME NEW t \in Threads, ActivePrune(t) PROVE LiveMove /\ given \subseteq given'
  BY <1>0, <1>7, LocalsTyped DEF ActivePrune, Pruned, LiveMove, Live
<1>8. ASSUME NEW t \in Threads, IsActive(t) \/ DropMarker(t)
      PROVE  LiveMove /\ given \subseteq given'
  BY <1>1, <1>7, <1>8
     DEF IsActive, ActiveGet, ActiveNonempty, ActiveScan, ScanRaises, ActiveStill,
         ActiveAnswer, DropMarker, store
<1>9. CASE UNCHANGED vars
  BY <1>1, <1>9 DEF vars, store
<1> QED BY <1>3, <1>4, <1>6, <1>8, <1>9, AddIsLiveMove DEF Next

LEMMA InitLive == Init => LiveInv
  BY DEF Init, LiveInv, OpenedIsGiven, LiveIsOpened, Live

LEMMA StepLive ==
  ASSUME TypeInv, LiveInv, [Next]_vars
  PROVE  LiveInv'
  BY StepIsLiveMove DEF LiveMove, LiveInv, OpenedIsGiven, LiveIsOpened

LEMMA LiveInvAlways == Spec => []LiveInv
  BY InitLive, StepLive, TypeInvAlways, PTL DEF Spec

LEMMA StepFollowsLifecycle ==
  ASSUME TypeInv, LiveInv, [Next]_vars
  PROVE  Lifecycle!Next
<1> DEFINE phases == [j \in Jtis |-> Phase(j)]
           parents == [j \in Jtis |-> None]
<1>1. LiveMove
  BY StepIsLiveMove
<1>2. CASE opened' = opened /\ \A j \in Jtis : Live(j)' => Live(j)
  <2> DEFINE S == {j \in Jtis : Phase(j) = "live" /\ ~Live(j)'}
  <2>1. \A j \in Jtis : Phase(j)' = IF j \in S THEN "over" ELSE Phase(j)
    BY <1>2 DEF Phase
  <2>2. /\ \A j \in S : phases[j] = "live"
        /\ phases' = [j \in Jtis |-> IF j \in S THEN "over" ELSE phases[j]]
    BY <2>1
  <2>3. Lifecycle!End(S)
    BY <2>2 DEF Lifecycle!End
  <2> QED BY <2>3 DEF Lifecycle!Next
<1>3. ASSUME NEW s \in Jtis \ given, opened' = opened \cup {s}, Live(s)',
             \A j \in Jtis \ {s} : Live(j)' <=> Live(j)
      PROVE  Lifecycle!Next
  <2>1. Phase(s) = "fresh"
    BY <1>3 DEF LiveInv, OpenedIsGiven, Phase
  <2>2. Phase(s)' = "live" /\ \A j \in Jtis \ {s} : Phase(j)' = Phase(j)
    BY <1>3 DEF Phase
  <2>3. Lifecycle!Login(s)
    BY <2>1, <2>2 DEF Lifecycle!Login
  <2> QED BY <2>3 DEF Lifecycle!Next
<1> QED BY <1>1, <1>2, <1>3 DEF LiveMove

\* The fallback store keeps the promise of SessionLifecycle: no interleaving of
\* the threads brings a removed, revoked or expired session back.
THEOREM ImplementsLifecycle == Spec => SessionsFollowLifecycle
<1>1. Init => Lifecycle!Init
  BY DEF Init, Lifecycle!Init, Phase
<1> QED
  BY <1>1, StepFollowsLifecycle, TypeInvAlways, LiveInvAlways, PTL
     DEF Spec, SessionsFollowLifecycle, Lifecycle!Spec

-----------------------------------------------------------------------------
(* What a step does to the entry of an id that clients hold                    *)

\* No step raises it, and a dictionary that becomes the user's is an empty one.
EntriesFall ==
  /\ \A d \in Dicts, j \in given : entries'[d][j] \in {0, entries[d][j]}
  /\ \/ table' \in {table, None}
     \/ table = None /\ table' \in Dicts /\ \A j \in Jtis : entries'[table'][j] = 0

LEMMA StepLowers ==
  ASSUME TypeInv, [Next]_vars
  PROVE  EntriesFall
<1>0. entries \in [Dicts -> [Jtis -> Nat]] /\ table \in Dicts \cup {None} /\ given \subseteq Jtis
  BY DEF TypeInv, TypeOK
<1>1. ASSUME table' \in {table, None}, entries' = entries PROVE EntriesFall
  BY <1>1 DEF EntriesFall
<1>2. ASSUME NEW t \in Threads, AddLookup(t) PROVE EntriesFall
  BY <1>0, <1>2 DEF AddLookup, Empty, EntriesFall
<1>3. ASSUME NEW t \in Threads, AddAssign(t) PROVE EntriesFall
  <2>1. call[t].new \notin given
    BY <1>3, LocalsTyped DEF AddAssign, Shaped, NewIsOwn, TypeInv
  <2> QED BY <1>0, <1>3, <2>1 DEF AddAssign, EntriesFall
<1>4. ASSUME NEW t \in Threads, RemovePop(t) PROVE EntriesFall
  BY <1>0, <1>4 DEF RemovePop, EntriesFall
<1>5. ASSUME NEW t \in Threads, ActivePrune(t) PROVE EntriesFall
  BY <1>0, <1>5 DEF ActivePrune, Pruned, EntriesFall
<1>6. CASE Tick \/ UNCHANGED vars
  BY <1>1, <1>6 DEF Tick, vars, store
<1>7. ASSUME NEW t \in Threads, Start(t) PROVE EntriesFall
  BY <1>1, <1>7
     DEF Start, StartAdd, StartRemove, StartRotate, StartIsActive, RevokeAll, SetMarker,
         StartGetMarker, store
<1>8. ASSUME NEW t \in Threads, Remove(t) PROVE EntriesFall
  BY <1>1, <1>4, <1>8 DEF Remove, RemoveGet, RemoveTest, Detach, store
<1>9. ASSUME NEW t \in Threads, IsActive(t) \/ DropMarker(t) PROVE EntriesFall
  BY <1>1, <1>5, <1>9
     DEF IsActive, ActiveGet, ActiveNonempty, ActiveScan, ScanRaises, ActiveStill,
         ActiveAnswer, DropMarker, store
<1> QED BY <1>2, <1>3, <1>6, <1>7, <1>8, <1>9 DEF Next, Add

-----------------------------------------------------------------------------
(* A session that was over is not reported                                     *)

LEMMA InitDead == Init => DeadStaysDead
  BY DEF Init, DeadStaysDead, Idle

\* A call that goes on without a read of its own, while other threads work.
LEMMA DeadUnmoved ==
  ASSUME TypeInv, DeadStaysDead, [Next]_vars, NEW t \in Threads, call'[t] = call[t],
         call[t].op = "active", call[t].dead
  PROVE  DeadTo(t)'
<1>1. /\ call[t].old \in given /\ given \subseteq Jtis /\ call[t].asOf \in Nat
      /\ call[t].at \in Holding \cup {"detach"} => call[t].dict \in Dicts
      /\ entries \in [Dicts -> [Jtis -> Nat]] /\ table \in Dicts \cup {None}
  BY LocalsTyped DEF Shaped, Call, TypeInv, TypeOK
<1>2. DeadTo(t)
  BY DEF DeadStaysDead
<1>3. EntriesFall
  BY StepLowers
<1> USE DEF DeadTo, EntriesFall
<1>4. CASE call[t].at = "lookup"
  BY <1>1, <1>2, <1>3, <1>4
<1>5. CASE call[t].at \in Holding \cup {"detach"}
  <2>1. entries'[call[t].dict][call[t].old] \in {0, entries[call[t].dict][call[t].old]}
    BY <1>1, <1>3, <1>5
  <2>2. entries[call[t].dict][call[t].old] \in Nat
    BY <1>1, <1>5
  <2> QED BY <1>1, <1>2, <1>5, <2>1, <2>2 DEF Holding
<1> QED BY <1>4, <1>5 DEF Holding

\* A call that is made for a session that is over.
LEMMA DeadStarted ==
  ASSUME TypeInv, LiveInv, NEW t \in Threads, NEW j \in given, StartIsActive(t, j),
         call'[t].dead
  PROVE  DeadTo(t)'
<1>1. call'[t] = [Idle EXCEPT !.op = "active", !.at = "lookup", !.old = j, !.asOf = now,
                              !.dead = (Phase(j) = "over")]
  BY DEF StartIsActive, Begin, TypeInv, TypeOK
<1>2. Phase(j) = "over"
  BY <1>1 DEF Idle
<1>3. table = None \/ entries[table][j] <= now
  BY <1>2, TimesAssumption DEF Phase, Live, TypeInv, TypeOK
<1>4. /\ call'[t].at = "lookup" /\ call'[t].old = j /\ call'[t].asOf = now
      /\ UNCHANGED <<table, entries>>
  BY <1>1 DEF Idle, StartIsActive, store
<1> QED BY <1>3, <1>4 DEF DeadTo

\* A step of the call itself.
LEMMA DeadMoved ==
  ASSUME TypeInv, DeadStaysDead, NEW t \in Threads, IsActive(t), call[t].op = "active",
         call[t].dead, call'[t] # Idle
  PROVE  DeadTo(t)'
<1>1. /\ call[t] \in Call /\ call[t].old \in given /\ given \subseteq Jtis
      /\ call[t].at \in Holding \cup {"detach"} => call[t].dict \in Dicts
      /\ entries \in [Dicts -> [Jtis -> Nat]] /\ table \in Dicts \cup {None}
      /\ call \in [Threads -> Call]
  BY LocalsTyped DEF Shaped, TypeInv, TypeOK
<1>2. DeadTo(t)
  BY DEF DeadStaysDead
<1> USE DEF DeadTo, Goto, Return, store, Call, Holding
<1>3. CASE ActiveGet(t)
  BY <1>1, <1>2, <1>3 DEF ActiveGet
<1>4. CASE ActiveNonempty(t)
  BY <1>1, <1>2, <1>4 DEF ActiveNonempty
<1>5. CASE ActiveScan(t)
  <2>1. \/ entries[call[t].dict][call[t].old] = 0
        \/ call[t].old \in Expired(call[t].dict, call[t].asOf)
    BY <1>1, <1>2, <1>5 DEF ActiveScan, Expired
  <2> QED BY <1>1, <1>5, <2>1 DEF ActiveScan
<1>6. CASE ActivePrune(t)
  <2>1. Pruned(t)[call[t].old] = 0
    BY <1>1, <1>2, <1>6 DEF ActivePrune, Pruned
  <2>2. entries'[call[t].dict] = Pruned(t)
    BY <1>1, <1>6 DEF ActivePrune
  <2>3. call'[t] = [call[t] EXCEPT !.at = "still"]
    BY <1>1, <1>6 DEF ActivePrune
  <2>4. call'[t].at = "still" /\ call'[t].dict = call[t].dict /\ call'[t].old = call[t].old
    BY <1>1, <2>3
  <2> QED BY <2>1, <2>2, <2>4
<1>7. CASE ActiveStill(t)
  <2>1. entries[call[t].dict][call[t].old] = 0
    BY <1>2, <1>7 DEF ActiveStill
  <2>2. /\ call'[t].dict = call[t].dict /\ call'[t].old = call[t].old
        /\ call'[t].at \in {"detach", "in"}
    BY <1>1, <1>7 DEF ActiveStill
  <2> QED BY <1>7, <2>1, <2>2 DEF ActiveStill
<1>8. CASE ScanRaises(t) \/ ActiveAnswer(t)
  BY <1>1, <1>8 DEF ScanRaises, ActiveAnswer
<1> QED BY <1>3, <1>4, <1>5, <1>6, <1>7, <1>8, IsActive(t) DEF IsActive

LEMMA DeadDetached ==
  ASSUME TypeInv, DeadStaysDead, NEW t \in Threads, Detach(t), call[t].op = "active",
         call[t].dead
  PROVE  DeadTo(t)'
<1>1. /\ call[t] \in Call /\ call \in [Threads -> Call] /\ entries[call[t].dict][call[t].old] = 0
  BY LocalsTyped DEF TypeInv, TypeOK, DeadStaysDead, DeadTo, Detach
<1> QED BY <1>1 DEF Detach, Goto, DeadTo, Call

\* What a step does to a call that will answer: it is left as it is, it ends, or it
\* makes a step of its own.
LEMMA StepCalls ==
  ASSUME TypeInv, [Next]_vars, NEW t \in Threads
  PROVE  \/ call'[t] = call[t]
         \/ call'[t].op # "active"
         \/ \E j \in given : StartIsActive(t, j)
         \/ call[t].op = "active" /\ call'[t].dead = call[t].dead /\ (IsActive(t) \/ Detach(t))
<1>0. call[t] \in Call /\ call \in [Threads -> Call] /\ Shaped(call[t])
  BY LocalsTyped DEF TypeInv, TypeOK
<1> DEFINE Goal == \/ call'[t] = call[t]
                   \/ call'[t].op # "active"
                   \/ \E j \in given : StartIsActive(t, j)
                   \/ /\ call[t].op = "active" /\ call'[t].dead = call[t].dead
                      /\ IsActive(t) \/ Detach(t)
<1>1. ASSUME NEW o \in Threads, o # t, Start(o) \/ Add(o) \/ Remove(o) \/ IsActive(o) \/ DropMarker(o)
      PROVE  Goal
  BY <1>0, <1>1
     DEF Start, StartAdd, StartRemove, StartRotate, StartIsActive, RevokeAll, SetMarker,
         StartGetMarker, Begin, Add, AddLookup, AddAssign, Remove, RemoveGet, RemovePop,
         RemoveTest, Detach, Removed, IsActive, ActiveGet, ActiveNonempty, ActiveScan,
         ScanRaises, ActivePrune, ActiveStill, ActiveAnswer, DropMarker, Goto, Return
<1>2. CASE Start(t)
  <2>1. ASSUME NEW j \in Jtis, StartAdd(t, j) PROVE Goal
    BY <1>0, <2>1 DEF StartAdd, Begin, Idle
  <2>2. ASSUME NEW j \in given, StartRemove(t, j) PROVE Goal
    BY <1>0, <2>2 DEF StartRemove, Begin, Idle
  <2>3. ASSUME NEW j \in given, NEW new \in Jtis, StartRotate(t, j, new) PROVE Goal
    BY <1>0, <2>3 DEF StartRotate, Begin, Idle
  <2>4. CASE StartGetMarker(t)
    BY <1>0, <2>4 DEF StartGetMarker, Begin, Idle
  <2> QED BY <1>2, <2>1, <2>2, <2>3, <2>4 DEF Start, RevokeAll, SetMarker
<1>3. CASE AddLookup(t) \/ AddAssign(t) \/ DropMarker(t)
  <2>1. CASE AddLookup(t)
    <3>1. call'[t].op = call[t].op /\ call[t].op # "active"
      BY <1>0, <2>1 DEF AddLookup, Call, Shaped
    <3> QED BY <3>1
  <2>2. CASE AddAssign(t) \/ DropMarker(t)
    BY <1>0, <2>2 DEF AddAssign, DropMarker, Return, Idle
  <2> QED BY <1>3, <2>1, <2>2
<1>4. CASE RemoveGet(t) \/ RemovePop(t) \/ RemoveTest(t)
  <2>1. call[t].op = "remove"
    BY <1>0, <1>4 DEF RemoveGet, RemovePop, RemoveTest, Shaped, RemoveSteps
  <2>2. call'[t] = Idle \/ call'[t].op = call[t].op
    BY <1>0, <1>4 DEF RemoveGet, RemovePop, RemoveTest, Removed, Goto, Return, Call
  <2> QED BY <2>1, <2>2 DEF Idle
<1>5. CASE Detach(t)
  <2>1. \/ call'[t] = Idle
        \/ call'[t].op = call[t].op /\ call'[t].dead = call[t].dead
    BY <1>0, <1>5 DEF Detach, Removed, Goto, Return, Call
  <2> QED BY <1>5, <2>1 DEF Idle
<1>6. CASE IsActive(t)
  <2>1. call[t].op = "active"
    BY <1>0, <1>6
       DEF IsActive, ActiveGet, ActiveNonempty, ActiveScan, ScanRaises, ActivePrune,
           ActiveStill, ActiveAnswer, Shaped, ActiveSteps
  <2>2. call'[t].op # "active" \/ call'[t].dead = call[t].dead
    BY <1>0, <1>6
       DEF IsActive, ActiveGet, ActiveNonempty, ActiveScan, ScanRaises, ActivePrune,
           ActiveStill, ActiveAnswer, Goto, Return, Idle, Call
  <2> QED BY <1>6, <2>1, <2>2
<1>7. CASE Tick \/ UNCHANGED vars
  BY <1>7 DEF Tick, vars
<1> QED BY <1>1, <1>2, <1>3, <1>4, <1>5, <1>6, <1>7 DEF Next, Add, Remove

LEMMA StepDead ==
  ASSUME TypeInv, LiveInv, DeadStaysDead, [Next]_vars
  PROVE  DeadStaysDead'
<1> SUFFICES ASSUME NEW t \in Threads, call'[t].op = "active", call'[t].dead
             PROVE  DeadTo(t)'
  BY DEF DeadStaysDead
<1>1. CASE call'[t] = call[t]
  BY <1>1, DeadUnmoved
<1>2. ASSUME NEW j \in given, StartIsActive(t, j) PROVE DeadTo(t)'
  BY <1>2, DeadStarted
<1>3. CASE call[t].op = "active" /\ call[t].dead /\ (IsActive(t) \/ Detach(t))
  <2>1. call'[t] # Idle
    BY DEF Idle
  <2> QED BY <1>3, <2>1, DeadMoved, DeadDetached
<1> QED BY <1>1, <1>2, <1>3, StepCalls

LEMMA DeadAlways == Spec => []DeadStaysDead
  BY InitDead, StepDead, TypeInvAlways, LiveInvAlways, PTL DEF Spec

\* is_refresh_active answers from a dictionary it took several steps earlier, and
\* still never reports a session that was over when it was called.
THEOREM NeverReportsDead == Spec => DeadNeverReported
<1>1. ASSUME TypeInv, DeadStaysDead, NEW t \in Threads, call[t].at = "in", call[t].dead
      PROVE  ~Answer(t)
  <2>1. call[t].op = "active"
    BY <1>1, LocalsTyped DEF Shaped, ActiveSteps
  <2> QED BY <1>1, <2>1 DEF DeadStaysDead, DeadTo, Answer
<1>2. TypeInv /\ DeadStaysDead =>
        \A t \in Threads : call[t].at = "in" /\ call'[t] = Idle /\ call[t].dead => ~Answer(t)
  BY <1>1
<1> QED BY <1>2, TypeInvAlways, DeadAlways, PTL DEF DeadNeverReported

-----------------------------------------------------------------------------
(* Sessions that were added by a call that overlapped no other                 *)

Work(t) == Add(t) \/ Remove(t) \/ IsActive(t) \/ DropMarker(t)

\* A step within a call: it belongs to a thread that is in one, and to no other.
LEMMA WorkMoves ==
  ASSUME TypeInv, NEW t \in Threads, Work(t)
  PROVE  /\ call[t] # Idle /\ UNCHANGED <<alone, now, ended>>
         /\ \A o \in Threads \ {t} : call'[o] = call[o]
         /\ call'[t].asOf \in {0, call[t].asOf}
         /\ call'[t].at = "assign" => call'[t].dict = table'
         /\ call'[t].at # "expired"
<1>0. call[t] \in Call /\ call \in [Threads -> Call]
  BY LocalsTyped DEF TypeInv, TypeOK
<1> USE DEF Goto, Return, store
<1>1. CASE AddLookup(t)
  BY <1>0, <1>1 DEF AddLookup, Idle, Call
<1>2. CASE AddAssign(t) \/ DropMarker(t) \/ ScanRaises(t) \/ ActiveAnswer(t)
  BY <1>0, <1>2 DEF AddAssign, DropMarker, ScanRaises, ActiveAnswer, Idle
<1>3. CASE RemoveGet(t) \/ RemovePop(t)
  BY <1>0, <1>3 DEF RemoveGet, RemovePop, Idle, Call
<1>4. CASE RemoveTest(t)
  <2>1. call[t] # Idle /\ UNCHANGED <<alone, now, ended>>
    BY <1>4 DEF RemoveTest, Idle
  <2>2. \/ call' = [call EXCEPT ![t] = Idle]
        \/ \E step \in {"detach", "setdefault"} : call' = [call EXCEPT ![t].at = step]
    BY <1>4 DEF RemoveTest, Removed
  <2> QED BY <1>0, <2>1, <2>2 DEF Idle, Call
<1>5. CASE Detach(t)
  <2>1. call[t] # Idle /\ UNCHANGED <<alone, now, ended>>
    BY <1>5 DEF Detach, Idle
  <2>2. \/ call' = [call EXCEPT ![t] = Idle]
        \/ \E step \in {"in", "setdefault"} : call' = [call EXCEPT ![t].at = step]
    BY <1>5 DEF Detach, Removed
  <2> QED BY <1>0, <2>1, <2>2 DEF Idle, Call
<1>6. CASE ActiveGet(t) \/ ActiveScan(t)
  BY <1>0, <1>6 DEF ActiveGet, ActiveScan, Idle, Call
<1>7. CASE ActiveNonempty(t) \/ ActivePrune(t) \/ ActiveStill(t)
  BY <1>0, <1>7 DEF ActiveNonempty, ActivePrune, ActiveStill, Idle, Call
<1> QED BY <1>1, <1>2, <1>3, <1>4, <1>5, <1>6, <1>7, Work(t) DEF Work, Add, Remove, IsActive

\* The first step of a call, and the methods that are one step.
LEMMA StartMoves ==
  ASSUME TypeInv, NEW t \in Threads, Start(t)
  PROVE  /\ UNCHANGED <<entries, now, given, kept>> /\ ended \subseteq ended'
         /\ \A o \in Threads \ {t} : call'[o] = call[o]
         /\ \/ alone' = {}
            \/ alone' = {t} /\ Others(t) = {}
         /\ \/ RevokeAll(t)
            \/ SetMarker(t)
            \/ /\ UNCHANGED <<table, marker, marked>>
               /\ call'[t].at \in {"setdefault", "get", "lookup", "expired"}
               /\ call'[t].asOf \in {0, now}
               /\ call'[t].at = "expired" => call'[t].seen = marker
<1>0. call \in [Threads -> Call] /\ given \subseteq Jtis /\ ended \subseteq drawn
  BY DEF TypeInv, TypeOK
<1> USE DEF Begin, store
<1> DEFINE Begun(c) == /\ UNCHANGED <<entries, now, given, kept, table, marker, marked>>
                       /\ ended \subseteq ended' /\ call'[t] = c
                       /\ \A o \in Threads \ {t} : call'[o] = call[o]
                       /\ alone' = {} \/ (alone' = {t} /\ Others(t) = {})
<1> DEFINE Fresh == Begun(call'[t]) /\ call'[t].at \in {"setdefault", "get", "lookup"}
                    /\ call'[t].asOf \in {0, now}
<1>1. ASSUME NEW j \in Jtis, StartAdd(t, j) PROVE Fresh
  <2>1. Begun([Idle EXCEPT !.at = "setdefault", !.new = j])
    BY <1>0, <1>1 DEF StartAdd
  <2> QED BY <2>1 DEF Idle
<1>2. ASSUME NEW j \in given, StartRemove(t, j) PROVE Fresh
  <2>1. Begun([Idle EXCEPT !.op = "remove", !.at = "get", !.old = j])
    BY <1>0, <1>2 DEF StartRemove
  <2> QED BY <2>1 DEF Idle
<1>3. ASSUME NEW j \in given, NEW new \in Jtis, StartRotate(t, j, new) PROVE Fresh
  <2>1. Begun([Idle EXCEPT !.op = "remove", !.at = "get", !.old = j, !.new = new])
    BY <1>0, <1>3 DEF StartRotate
  <2> QED BY <2>1 DEF Idle
<1>4. ASSUME NEW j \in given, StartIsActive(t, j) PROVE Fresh
  <2>1. Begun([Idle EXCEPT !.op = "active", !.at = "lookup", !.old = j,
                           !.asOf = now, !.dead = (Phase(j) = "over")])
    BY <1>0, <1>4 DEF StartIsActive
  <2> QED BY <2>1 DEF Idle
<1>5. CASE StartGetMarker(t)
  <2>1. Begun([Idle EXCEPT !.at = "expired", !.seen = marker])
    BY <1>0, <1>5 DEF StartGetMarker
  <2> QED BY <2>1 DEF Idle
<1>6. CASE RevokeAll(t) \/ SetMarker(t)
  BY <1>0, <1>6 DEF RevokeAll, SetMarker
<1>7. ASSUME Fresh
      PROVE  /\ UNCHANGED <<entries, now, given, kept>> /\ ended \subseteq ended'
             /\ \A o \in Threads \ {t} : call'[o] = call[o]
             /\ alone' = {} \/ (alone' = {t} /\ Others(t) = {})
             /\ UNCHANGED <<table, marker, marked>>
             /\ call'[t].at \in {"setdefault", "get", "lookup"} /\ call'[t].asOf \in {0, now}
  BY <1>7
<1> HIDE DEF Begun, Fresh
<1> QED BY <1>1, <1>2, <1>3, <1>4, <1>5, <1>6, <1>7, Start(t) DEF Start

\* The steps of no thread.
LEMMA Quiet ==
  ASSUME TypeInv, Tick \/ UNCHANGED vars
  PROVE  /\ UNCHANGED <<table, entries, marker, call, drawn, given, opened, ended, alone,
                        kept, marked>>
         /\ now' \in Nat /\ now <= now'
  BY TimesAssumption DEF Tick, vars, store, TypeInv, TypeOK

LEMMA StepCases ==
  ASSUME [Next]_vars
  PROVE  \/ Tick \/ UNCHANGED vars
         \/ \E t \in Threads : Start(t) \/ Work(t)
  BY DEF Next, Work

LEMMA StepAlone ==
  ASSUME TypeInv, AloneIsAlone, [Next]_vars
  PROVE  AloneIsAlone'
<1>0. alone \subseteq Threads
  BY DEF TypeInv, TypeOK
<1>1. CASE Tick \/ UNCHANGED vars
  BY <1>1, Quiet DEF AloneIsAlone
<1>2. ASSUME NEW t \in Threads, Start(t) PROVE AloneIsAlone'
  <2>1. CASE RevokeAll(t) \/ SetMarker(t)
    BY <2>1 DEF RevokeAll, SetMarker, AloneIsAlone
  <2>2. CASE ~(RevokeAll(t) \/ SetMarker(t))
    <3>1. \A a \in alone' : a = t /\ (\A o \in Threads \ {t} : call'[o] = Idle)
      BY <1>2, <2>2, StartMoves DEF Others
    <3>2. call'[t].at # "assign"
      BY <1>2, <2>2, StartMoves
    <3>3. Idle' = Idle
      BY DEF Idle
    <3> QED BY <3>1, <3>2, <3>3 DEF AloneIsAlone
  <2> QED BY <2>1, <2>2
<1>3. ASSUME NEW t \in Threads, Work(t) PROVE AloneIsAlone'
  <2>1. \A a \in alone : a = t
    BY <1>0, <1>3, WorkMoves DEF AloneIsAlone
  <2>2. Idle' = Idle
    BY DEF Idle
  <2> QED BY <1>0, <1>3, <2>1, <2>2, WorkMoves DEF AloneIsAlone
<1> QED BY <1>1, <1>2, <1>3, StepCases

LEMMA StepAsOf ==
  ASSUME TypeInv, AsOfIsPast, [Next]_vars
  PROVE  AsOfIsPast'
<1>0. now \in Nat /\ \A t \in Threads : call[t].asOf \in Nat /\ call[t].asOf <= now
  BY TimesAssumption DEF TypeInv, TypeOK, Call, AsOfIsPast
<1>1. CASE Tick \/ UNCHANGED vars
  BY <1>0, <1>1, Quiet DEF AsOfIsPast
<1>2. ASSUME NEW t \in Threads, Start(t) PROVE AsOfIsPast'
  <2>1. CASE RevokeAll(t) \/ SetMarker(t)
    BY <1>0, <2>1 DEF RevokeAll, SetMarker, AsOfIsPast
  <2> QED BY <1>0, <1>2, <2>1, StartMoves DEF AsOfIsPast
<1>3. ASSUME NEW t \in Threads, Work(t) PROVE AsOfIsPast'
  BY <1>0, <1>3, WorkMoves DEF AsOfIsPast
<1> QED BY <1>1, <1>2, <1>3, StepCases

\* Only an add gives an id, and only one that is alone promises to keep it.
LEMMA WorkKeeps ==
  ASSUME TypeInv, NEW t \in Threads, Work(t)
  PROVE  \/ AddAssign(t)
         \/ UNCHANGED <<given, kept>>
  BY DEF Work, Add, AddLookup, Remove, RemoveGet, RemovePop, RemoveTest, Detach, IsActive,
         ActiveGet, ActiveNonempty, ActiveScan, ScanRaises, ActivePrune, ActiveStill,
         ActiveAnswer, DropMarker

LEMMA AssignKeeps ==
  ASSUME TypeInv, OnlyGivenIsKept, NEW t \in Threads, AddAssign(t)
  PROVE  \E s \in Jtis \ given, d \in Dicts, expiry \in Nat :
           /\ call[t].at = "assign" /\ d = call[t].dict
           /\ given' = given \cup {s} /\ kept[s] = 0
           /\ kept' = IF t \in alone THEN [kept EXCEPT ![s] = expiry] ELSE kept
           /\ entries' = [entries EXCEPT ![d][s] = expiry]
           /\ call' = [call EXCEPT ![t] = Idle]
           /\ UNCHANGED <<now, table, ended, alone>>
<1>1. /\ call[t].new \in Jtis \ given /\ call[t].dict \in Dicts /\ call[t].expiry \in Nat
  BY LocalsTyped DEF AddAssign, Shaped, Holding, NewIsOwn, TypeInv, TypeOK, Call
<1> QED BY <1>1 DEF AddAssign, Return, OnlyGivenIsKept

LEMMA StepOnlyGiven ==
  ASSUME TypeInv, OnlyGivenIsKept, [Next]_vars
  PROVE  OnlyGivenIsKept'
<1>0. kept \in [Jtis -> Nat]
  BY DEF TypeInv, TypeOK
<1>1. CASE Tick \/ UNCHANGED vars
  BY <1>1, Quiet DEF OnlyGivenIsKept
<1>2. ASSUME NEW t \in Threads, Start(t) PROVE OnlyGivenIsKept'
  BY <1>2, StartMoves DEF OnlyGivenIsKept
<1>3. ASSUME NEW t \in Threads, AddAssign(t) PROVE OnlyGivenIsKept'
  BY <1>0, <1>3, AssignKeeps DEF OnlyGivenIsKept
<1>4. ASSUME NEW t \in Threads, Work(t) PROVE OnlyGivenIsKept'
  BY <1>3, <1>4, WorkKeeps DEF OnlyGivenIsKept
<1> QED BY <1>1, <1>2, <1>4, StepCases

\* What is known of the store and of every thread while a session has to be there.
KeptHere(j) == /\ table # None /\ entries[table][j] = kept[j]
               /\ \A t \in Threads : ReadyFor(t, j)

LEMMA WhileKept ==
  ASSUME TypeInv, KeptInv, NEW j \in Kept
  PROVE  /\ KeptHere(j) /\ table \in Dicts /\ j \in given /\ j \notin ended
         /\ j \in Jtis /\ now < kept[j] /\ entries[table][j] # 0
         /\ ~Falsy(table)
<1>1. /\ KeptHere(j) /\ table \in Dicts /\ j \in given /\ j \notin ended
      /\ j \in Jtis /\ now < kept[j] /\ now \in Nat /\ kept[j] \in Nat
  BY TimesAssumption DEF Kept, KeptInv, KeptStays, KeptHere, TypeInv, TypeOK
<1>2. entries[table][j] # 0
  BY <1>1 DEF KeptHere
<1> QED BY <1>1, <1>2 DEF Falsy, Empty

\* The other threads are as they were.
LEMMA KeptByOne ==
  ASSUME TypeInv, NEW t \in Threads, NEW j, KeptHere(j), table' = table, kept'[j] = kept[j],
         entries'[table][j] = entries[table][j],
         \A o \in Threads \ {t} : call'[o] = call[o],
         ReadyFor(t, j)'
  PROVE  KeptHere(j)'
<1>1. \A o \in Threads \ {t} : ReadyFor(o, j)'
  BY DEF KeptHere, ReadyFor
<1> QED BY <1>1 DEF KeptHere

LEMMA IdleReady ==
  ASSUME TypeInv, NEW t \in Threads, NEW j, call'[t] = Idle
  PROVE  ReadyFor(t, j)'
  BY DEF ReadyFor, Idle, Holding

LEMMA AddKeeps ==
  ASSUME TypeInv, KeptInv, NEW t \in Threads, Add(t), NEW j \in Kept
  PROVE  KeptHere(j)'
<1>0. /\ entries \in [Dicts -> [Jtis -> Nat]] /\ call \in [Threads -> Call] /\ call[t] \in Call
  BY DEF TypeInv, TypeOK
<1>1. CASE AddLookup(t)
  <2>1. /\ table' = table /\ UNCHANGED <<entries, kept>>
        /\ call' = [call EXCEPT ![t].at = "assign", ![t].dict = table, ![t].expiry = now + TTL]
    BY <1>1, WhileKept DEF AddLookup, KeptHere
  <2>2. ReadyFor(t, j)'
    BY <1>0, <2>1 DEF ReadyFor, Call
  <2>3. \A o \in Threads \ {t} : call'[o] = call[o]
    BY <1>0, <2>1
  <2> QED BY <2>1, <2>2, <2>3, WhileKept, KeptByOne
<1>2. CASE AddAssign(t)
  <2>1. PICK s \in Jtis \ given, d \in Dicts, expiry \in Nat :
          /\ kept' = IF t \in alone THEN [kept EXCEPT ![s] = expiry] ELSE kept
          /\ entries' = [entries EXCEPT ![d][s] = expiry]
          /\ call' = [call EXCEPT ![t] = Idle]
          /\ table' = table
    BY <1>2, AssignKeeps DEF KeptInv
  <2>2. s # j /\ kept'[j] = kept[j] /\ entries'[table][j] = entries[table][j]
    BY <1>0, <2>1, WhileKept DEF TypeInv, TypeOK
  <2>3. call'[t] = Idle /\ \A o \in Threads \ {t} : call'[o] = call[o]
    BY <1>0, <2>1
  <2> QED BY <2>1, <2>2, <2>3, WhileKept, KeptByOne, IdleReady
<1> QED BY <1>1, <1>2, Add(t) DEF Add

LEMMA RemoveKeeps ==
  ASSUME TypeInv, KeptInv, NEW t \in Threads, Remove(t), NEW j \in Kept
  PROVE  KeptHere(j)'
<1>0. /\ entries \in [Dicts -> [Jtis -> Nat]] /\ call \in [Threads -> Call] /\ call[t] \in Call
      /\ Shaped(call[t]) /\ given \subseteq Jtis
  BY LocalsTyped DEF TypeInv, TypeOK
<1>1. KeptHere(j) /\ table \in Dicts /\ ReadyFor(t, j)
  BY WhileKept DEF KeptHere
<1>2. /\ \A o \in Threads \ {t} : call'[o] = call[o]
  BY WorkMoves DEF Work
<1>3. CASE RemoveGet(t)
  <2>1. call'[t] = [call[t] EXCEPT !.dict = table, !.at = "pop"] /\ UNCHANGED <<store, kept>>
    BY <1>0, <1>1, <1>3 DEF RemoveGet, KeptHere
  <2>2. ReadyFor(t, j)'
    BY <1>0, <2>1 DEF ReadyFor, Call, store
  <2> QED BY <1>1, <1>2, <2>1, <2>2, KeptByOne DEF store
<1>4. CASE RemovePop(t)
  <2>1. call[t].old # j /\ call[t].dict = table
    BY <1>0, <1>1, <1>4, WhileKept DEF RemovePop, Shaped, RemoveSteps, ReadyFor, Holding
  <2>2. /\ entries'[table][j] = entries[table][j] /\ table' = table /\ kept' = kept
        /\ call'[t] = [call[t] EXCEPT !.at = "test"]
    BY <1>0, <1>1, <1>4, <2>1, WhileKept DEF RemovePop, Goto
  <2>3. ReadyFor(t, j)'
    BY <1>0, <2>1, <2>2 DEF ReadyFor, Call
  <2> QED BY <1>1, <1>2, <2>2, <2>3, KeptByOne
<1>5. CASE RemoveTest(t)
  <2>1. ~Falsy(call[t].dict)
    BY <1>1, <1>5, WhileKept DEF RemoveTest, ReadyFor, Holding
  <2>2. /\ UNCHANGED <<store, kept>>
        /\ call'[t] = Idle \/ call'[t] = [call[t] EXCEPT !.at = "setdefault"]
    BY <1>0, <1>5, <2>1 DEF RemoveTest, Removed, Return, Goto
  <2>3. ReadyFor(t, j)'
    BY <1>0, <2>2, IdleReady DEF ReadyFor, Call, Holding
  <2> QED BY <1>1, <1>2, <2>2, <2>3, KeptByOne DEF store
<1>6. CASE Detach(t)
  BY <1>1, <1>6 DEF Detach, ReadyFor
<1> QED BY <1>3, <1>4, <1>5, <1>6, Remove(t) DEF Remove

LEMMA IsActiveKeeps ==
  ASSUME TypeInv, KeptInv, NEW t \in Threads, IsActive(t) \/ DropMarker(t), NEW j \in Kept
  PROVE  KeptHere(j)'
<1>0. /\ entries \in [Dicts -> [Jtis -> Nat]] /\ call \in [Threads -> Call] /\ call[t] \in Call
      /\ now \in Nat /\ kept \in [Jtis -> Nat]
  BY TimesAssumption DEF TypeInv, TypeOK
<1>1. KeptHere(j) /\ table \in Dicts /\ ReadyFor(t, j)
  BY WhileKept DEF KeptHere
<1>2. /\ \A o \in Threads \ {t} : call'[o] = call[o]
  BY WorkMoves DEF Work
<1>3. CASE ActiveGet(t)
  <2>1. call'[t] = [call[t] EXCEPT !.dict = table, !.at = "nonempty"] /\ UNCHANGED <<store, kept>>
    BY <1>0, <1>1, <1>3 DEF ActiveGet, KeptHere
  <2>2. ReadyFor(t, j)'
    BY <1>0, <2>1 DEF ReadyFor, Call, store
  <2> QED BY <1>1, <1>2, <2>1, <2>2, KeptByOne DEF store
<1>4. CASE ActiveNonempty(t)
  <2>1. call'[t] = [call[t] EXCEPT !.at = "scan"] \/ call'[t] = Idle
    BY <1>0, <1>4 DEF ActiveNonempty, Goto, Return
  <2>2. UNCHANGED <<store, kept>> /\ call[t].dict = table
    BY <1>1, <1>4 DEF ActiveNonempty, ReadyFor, Holding
  <2>3. ReadyFor(t, j)'
    BY <1>0, <2>1, <2>2, IdleReady DEF ReadyFor, Call, store
  <2> QED BY <1>1, <1>2, <2>2, <2>3, KeptByOne DEF store
<1>5. CASE ActiveScan(t)
  <2>1. call[t].dict = table /\ call[t].asOf \in Nat /\ call[t].asOf <= now
    BY <1>0, <1>1, <1>5 DEF ActiveScan, ReadyFor, Holding, Call, KeptInv, AsOfIsPast
  <2>2. j \notin Expired(call[t].dict, call[t].asOf)
    BY <1>0, <1>1, <2>1, WhileKept DEF Expired, KeptHere
  <2>3. /\ UNCHANGED <<store, kept>>
        /\ call'[t] = [call[t] EXCEPT !.expired = Expired(call[t].dict, call[t].asOf),
                                      !.at = "prune"]
    BY <1>0, <1>5 DEF ActiveScan
  <2>4. /\ call'[t].at = "prune" /\ call'[t].dict = call[t].dict
        /\ call'[t].expired = Expired(call[t].dict, call[t].asOf)
    BY <1>0, <2>3 DEF Call
  <2>5. ReadyFor(t, j)'
    BY <2>1, <2>2, <2>3, <2>4 DEF ReadyFor, store
  <2> QED BY <1>1, <1>2, <2>3, <2>5, KeptByOne DEF store
<1>6. CASE ActivePrune(t)
  <2>1. call[t].dict = table /\ j \notin call[t].expired
    BY <1>1, <1>6 DEF ActivePrune, ReadyFor, Holding
  <2>2. /\ entries'[table] = Pruned(t) /\ Pruned(t)[j] = entries[table][j]
    BY <1>0, <1>1, <1>6, <2>1, WhileKept DEF ActivePrune, Pruned
  <2>3. table' = table /\ kept' = kept /\ call'[t] = [call[t] EXCEPT !.at = "still"]
    BY <1>0, <1>6 DEF ActivePrune, Goto
  <2>4. ReadyFor(t, j)'
    BY <1>0, <2>1, <2>3 DEF ReadyFor, Call
  <2> QED BY <1>1, <1>2, <2>2, <2>3, <2>4, KeptByOne
<1>7. CASE ActiveStill(t)
  <2>1. ~Falsy(call[t].dict) /\ call[t].dict = table
    BY <1>1, <1>7, WhileKept DEF ActiveStill, ReadyFor, Holding
  <2>2. UNCHANGED <<store, kept>> /\ call'[t] = [call[t] EXCEPT !.at = "in"]
    BY <1>0, <1>7, <2>1 DEF ActiveStill, Goto
  <2>3. ReadyFor(t, j)'
    BY <1>0, <2>1, <2>2 DEF ReadyFor, Call, store
  <2> QED BY <1>1, <1>2, <2>2, <2>3, KeptByOne DEF store
<1>8. CASE ScanRaises(t) \/ ActiveAnswer(t) \/ DropMarker(t)
  <2>1. call'[t] = Idle /\ UNCHANGED <<table, entries, kept>>
    BY <1>0, <1>8 DEF ScanRaises, ActiveAnswer, DropMarker, Return, store
  <2> QED BY <1>1, <1>2, <2>1, KeptByOne, IdleReady
<1> QED BY <1>3, <1>4, <1>5, <1>6, <1>7, <1>8, IsActive(t) \/ DropMarker(t) DEF IsActive

LEMMA StartKeeps ==
  ASSUME TypeInv, KeptInv, NEW t \in Threads, Start(t), NEW j \in Kept, j \in Kept'
  PROVE  KeptHere(j)'
<1>1. KeptHere(j)
  BY WhileKept
<1>2. CASE RevokeAll(t)
  BY <1>2 DEF RevokeAll, Kept, TypeInv, TypeOK
<1>3. CASE SetMarker(t)
  BY <1>1, <1>3 DEF SetMarker, KeptHere, ReadyFor
<1>4. CASE ~RevokeAll(t) /\ ~SetMarker(t)
  <2>1. ReadyFor(t, j)'
    BY <1>4, StartMoves DEF ReadyFor, Holding
  <2> QED BY <1>1, <1>4, <2>1, StartMoves, KeptByOne
<1> QED BY <1>2, <1>3, <1>4

\* The session a call that is alone has just added.
LEMMA NewlyKept ==
  ASSUME TypeInv, KeptInv, NEW t \in alone, AddAssign(t), NEW j, j \in Kept', j \notin Kept
  PROVE  KeptHere(j)'
<1>0. /\ entries \in [Dicts -> [Jtis -> Nat]] /\ call \in [Threads -> Call] /\ t \in Threads
      /\ kept \in [Jtis -> Nat]
  BY DEF TypeInv, TypeOK
<1>1. PICK s \in Jtis \ given, d \in Dicts, expiry \in Nat :
        /\ call[t].at = "assign" /\ d = call[t].dict
        /\ given' = given \cup {s}
        /\ kept' = IF t \in alone THEN [kept EXCEPT ![s] = expiry] ELSE kept
        /\ entries' = [entries EXCEPT ![d][s] = expiry]
        /\ call' = [call EXCEPT ![t] = Idle]
        /\ UNCHANGED <<now, table, ended, alone>>
  <2>1. t \in Threads /\ OnlyGivenIsKept
    BY <1>0 DEF KeptInv
  <2> QED BY <2>1, AssignKeeps
<1>2. j = s
  BY <1>0, <1>1 DEF Kept
<1>3. d = table /\ \A o \in Threads \ {t} : call[o] = Idle
  BY <1>1 DEF KeptInv, AloneIsAlone
<1>4. \A o \in Threads : call'[o] = Idle
  BY <1>0, <1>1, <1>3
<1>5. table' # None /\ entries'[table'][j] = kept'[j]
  BY <1>0, <1>1, <1>2, <1>3, NoneAssumption
<1> QED BY <1>4, <1>5, IdleReady DEF KeptHere

LEMMA StepKeeps ==
  ASSUME TypeInv, KeptInv, [Next]_vars
  PROVE  KeptStays'
<1> SUFFICES ASSUME NEW j, j \in Kept' PROVE KeptHere(j)'
  BY DEF KeptStays, KeptHere
<1>0. /\ kept \in [Jtis -> Nat] /\ now \in Nat /\ given \subseteq Jtis
  BY TimesAssumption DEF TypeInv, TypeOK
<1>1. CASE Tick \/ UNCHANGED vars
  <2>1. j \in Kept
    BY <1>0, <1>1, Quiet DEF Kept
  <2> QED BY <1>1, <2>1, WhileKept, Quiet DEF KeptHere, ReadyFor
<1>2. ASSUME NEW t \in Threads, Start(t) PROVE KeptHere(j)'
  <2>1. j \in Kept
    BY <1>0, <1>2, StartMoves DEF Kept
  <2> QED BY <1>2, <2>1, StartKeeps
<1>3. ASSUME NEW t \in Threads, Work(t) PROVE KeptHere(j)'
  <2>1. CASE j \in Kept
    BY <1>3, <2>1, AddKeeps, RemoveKeeps, IsActiveKeeps DEF Work
  <2>2. CASE j \notin Kept
    <3>1. UNCHANGED <<now, ended>>
      BY <1>3, WorkMoves
    <3>2. AddAssign(t)
      BY <1>3, <2>2, <3>1, WorkKeeps DEF Kept
    <3>3. t \in alone
      <4> SUFFICES ASSUME t \notin alone PROVE FALSE
        OBVIOUS
      <4>1. PICK s \in Jtis \ given : given' = given \cup {s} /\ kept' = kept /\ kept[s] = 0
        BY <3>2, AssignKeeps DEF KeptInv
      <4> QED BY <1>0, <2>2, <3>1, <4>1 DEF Kept
    <3> QED BY <2>2, <3>2, <3>3, NewlyKept
  <2> QED BY <2>1, <2>2
<1> QED BY <1>1, <1>2, <1>3, StepCases

LEMMA InitKept == Init => KeptInv
  BY DEF Init, KeptInv, AloneIsAlone, AsOfIsPast, OnlyGivenIsKept, KeptStays, Kept, Idle

LEMMA StepKept == TypeInv /\ KeptInv /\ [Next]_vars => KeptInv'
  BY StepAlone, StepAsOf, StepOnlyGiven, StepKeeps DEF KeptInv

LEMMA KeptInvAlways == Spec => []KeptInv
  BY InitKept, StepKept, TypeInvAlways, PTL DEF Spec

\* A session whose add overlapped no other call is there until it is removed,
\* revoked or expired: the dictionaries that later threads detach, prune and pop
\* from are never taken from under it.
THEOREM SessionsAddedAloneStay == Spec => []AddedAloneIsKept
<1>1. KeptInv => AddedAloneIsKept
  BY DEF KeptInv, KeptStays, Kept, AddedAloneIsKept, Live
<1> QED BY <1>1, KeptInvAlways, PTL

-----------------------------------------------------------------------------
(* The marker                                                                  *)

LEMMA InitMarker == Init => MarkerInv
  BY DEF Init, MarkerInv

LEMMA StepMarker ==
  ASSUME TypeInv, MarkerInv, [Next]_vars
  PROVE  MarkerInv'
<1>0. /\ now \in Nat /\ marked \in Nat /\ marker \in Nat /\ MarkTTL \in Nat
      /\ call \in [Threads -> Call]
  BY TimesAssumption DEF TypeInv, TypeOK
<1>1. CASE Tick \/ UNCHANGED vars
  BY <1>0, <1>1, Quiet DEF MarkerInv
<1>2. ASSUME NEW t \in Threads, Start(t) PROVE MarkerInv'
  <2>1. CASE RevokeAll(t)
    BY <2>1 DEF RevokeAll, MarkerInv
  <2>2. CASE SetMarker(t)
    <3>1. CASE Others(t) = {}
      <4>1. \A o \in Threads : call'[o] = Idle
        BY <2>2, <3>1 DEF SetMarker, Others
      <4>2. marker' = marked'
        BY <2>2, <3>1 DEF SetMarker
      <4> QED BY <4>1, <4>2 DEF MarkerInv, Idle
    <3>2. CASE Others(t) # {}
      BY <1>0, <2>2, <3>2 DEF SetMarker, MarkerInv
    <3> QED BY <3>1, <3>2
  <2>3. CASE ~RevokeAll(t) /\ ~SetMarker(t)
    BY <1>2, <2>3, StartMoves DEF MarkerInv
  <2> QED BY <2>1, <2>2, <2>3
<1>3. ASSUME NEW t \in Threads, Work(t) PROVE MarkerInv'
  <2>1. CASE DropMarker(t)
    <3>1. /\ call'[t] = Idle /\ \A o \in Threads \ {t} : call'[o] = call[o]
          /\ UNCHANGED <<now, marked>>
      BY <1>0, <2>1 DEF DropMarker, Return
    <3>2. now < marked => marker' = marker
      BY <1>0, <2>1 DEF DropMarker, MarkerInv
    <3> QED BY <3>1, <3>2 DEF MarkerInv, Idle
  <2>2. CASE ~DropMarker(t)
    <3>1. UNCHANGED <<marker, marked>>
      BY <1>3, <2>2
         DEF Work, Add, AddLookup, AddAssign, Remove, RemoveGet, RemovePop, RemoveTest,
             Detach, IsActive, ActiveGet, ActiveNonempty, ActiveScan, ScanRaises,
             ActivePrune, ActiveStill, ActiveAnswer, store
    <3> QED BY <1>3, <3>1, WorkMoves DEF MarkerInv
  <2> QED BY <2>1, <2>2
<1> QED BY <1>1, <1>2, <1>3, StepCases

LEMMA MarkerAlways == Spec => []MarkerInv
  BY InitMarker, StepMarker, TypeInvAlways, PTL DEF Spec

\* A revocation marker that was set while no other call was at work is there until
\* it expires: a reader drops only an entry it has found expired.
THEOREM MarkersSetAloneStay == Spec => []MarkerSetAloneIsKept
<1>1. MarkerInv => MarkerSetAloneIsKept
  BY DEF MarkerInv, MarkerSetAloneIsKept
<1> QED BY <1>1, MarkerAlways, PTL

=============================================================================
