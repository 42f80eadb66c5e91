-------------------------- MODULE MCRwSemSpinlock --------------------------
(* Small instances of RwSemSpinlock for TLC. *)
EXTENDS RwSemSpinlock, TLC

Symmetry == Permutations(Task)
=============================================================================
