----------------------------- MODULE MCAuthFlows -----------------------------
(* Small instances of AuthFlows: one user, a few ids, a clock of a few ticks. *)
EXTENDS AuthFlows, TLC

CONSTANTS u1

MCSub == [j \in Jtis |-> u1]

Symmetry == Permutations(Jtis) \cup Permutations(Reqs) \cup Permutations(Passwords)

=============================================================================
