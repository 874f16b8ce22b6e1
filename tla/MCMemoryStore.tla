---------------------------- MODULE MCMemoryStore ----------------------------
(* Small instances of MemoryStore.                                            *)
EXTENDS MemoryStore, TLC

Symmetry == Permutations(Threads) \cup Permutations(Jtis) \cup Permutations(Dicts)

=============================================================================
