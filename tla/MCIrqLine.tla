----------------------------- MODULE MCIrqLine -----------------------------
(* Instances of IrqLine for TLC. *)
EXTENDS IrqLine, TLC

CONSTANTS c1, c2, d1, d2, d3
=============================================================================
