------------------------------ MODULE MCTimers ------------------------------
(* Instances of Timers for TLC. *)
EXTENDS Timers, TLC

CONSTANTS t1, t2, c1

Perms == Permutations({t1, t2})

\* A time already past, the end of tv1's range and the start of tv3's.
Edges == {-1, Span(1) - 1, Span(2)}
=============================================================================
