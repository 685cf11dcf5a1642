------------------------------ MODULE MCProcs -------------------------------
(* Small instances of Procs for TLC. *)
EXTENDS Procs, TLC

Symmetry == Permutations(Child) \cup Permutations(ProcId) \cup Permutations(Starter)
=============================================================================
