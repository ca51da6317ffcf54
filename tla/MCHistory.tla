------------------------------ MODULE MCHistory ------------------------------
(* Instances of History small enough for TLC. *)
EXTENDS History, TLC

Symmetric == Permutations(Procs) \cup Permutations(Paths)
=============================================================================
