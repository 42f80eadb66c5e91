------------------------------ MODULE MCRwSem ------------------------------
(* Small instances of RwSem for TLC. *)
EXTENDS RwSem, TLC

Symmetry == Permutations(Task)
=============================================================================
