---------------------------- MODULE MCSharedFiles ----------------------------
(* Stores differ in nothing but what they send: they are symmetric.          *)
EXTENDS SharedFiles, TLC

Symmetry == Permutations(Stores) \cup Permutations(Reads)
=============================================================================
