---------------------------- MODULE MCGlobalIrq ----------------------------
(* Instances of GlobalIrq for TLC. *)
EXTENDS GlobalIrq, TLC

CONSTANTS c1, c2, c3

=============================================================================
