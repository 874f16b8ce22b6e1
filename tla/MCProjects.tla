------------------------------ MODULE MCProjects ------------------------------
(* Small instances of Projects.                                               *)
EXTENDS Projects, TLC

Symmetry == Permutations(Ids) \cup Permutations(Reqs)

=============================================================================
