------------------------------ MODULE MCSystem ------------------------------
(* System.tla on a few processes and websockets. *)
EXTENDS System, TLC

Agents == {"agent"}
Symmetry == Permutations(Ws)
=============================================================================
