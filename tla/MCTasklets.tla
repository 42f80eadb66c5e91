----------------------------- MODULE MCTasklets -----------------------------
(* Instances of Tasklets for TLC. *)
EXTENDS Tasklets, TLC

CONSTANTS c1, c2, t1, t2

\* t1 is a bottom half, on HI_SOFTIRQ; t2 a plain tasklet.
Numbers == {0, 3}
VectorOf(t) == IF t = t1 THEN 0 ELSE 3
=============================================================================
