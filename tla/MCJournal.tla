------------------------------ MODULE MCJournal ------------------------------
(* Instances of Journal for TLC. *)
EXTENDS Journal, TLC

BlockSymmetry == Permutations(Block)
=============================================================================
