--------------------------- MODULE SessionLifecycle ---------------------------
(***************************************************************************)
(* What the session endpoints promise about refresh sessions, with no      *)
(* store, no tokens and no requests: a session is opened by a login or as  *)
(* the replacement of one that is already over, and once over (rotated,    *)
(* logged out, revoked or expired) it stays over.                          *)
(***************************************************************************)
CONSTANTS
  Sessions,
  None      \* no session: the parent of one that a login opened

VARIABLES
  phase,    \* session -> "fresh", "live" or "over"
  parent    \* session -> the session it replaced

Init ==
  /\ phase = [s \in Sessions |-> "fresh"]
  /\ parent = [s \in Sessions |-> None]

Login(s) ==
  /\ phase[s] = "fresh"
  /\ phase' = [phase EXCEPT ![s] = "live"]
  /\ UNCHANGED parent

Replace(old, s) ==
  /\ phase[old] = "over"
  /\ phase[s] = "fresh"
  /\ phase' = [phase EXCEPT ![s] = "live"]
  /\ parent' = [parent EXCEPT ![s] = old]

\* One by a rotation or a logout; any number at once by a logout-all or by time.
End(S) ==
  /\ \A s \in S : phase[s] = "live"
  /\ phase' = [s \in Sessions |-> IF s \in S THEN "over" ELSE phase[s]]
  /\ UNCHANGED parent

Next ==
  \/ \E s \in Sessions : Login(s)
  \/ \E old, s \in Sessions : Replace(old, s)
  \/ \E S \in SUBSET Sessions : End(S)

Spec == Init /\ [][Next]_<<phase, parent>>

=============================================================================
