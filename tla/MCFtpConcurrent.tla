-------------------------- MODULE MCFtpConcurrent --------------------------
(* Finite instances of FtpConcurrent for TLC. *)
EXTENDS FtpConcurrent, TLC

Symmetry == Permutations(Clients) \cup Permutations(Children)
=============================================================================
