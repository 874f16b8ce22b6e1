----------------------------- MODULE MCReplicas -----------------------------
(* A small instance of Replicas: which replica, worker or token is immaterial. *)
EXTENDS Replicas, TLC

Symmetry == Permutations(Replicas) \cup Permutations(Reqs) \cup Permutations(Tokens)

=============================================================================
