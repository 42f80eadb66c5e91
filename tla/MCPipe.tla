------------------------------- MODULE MCPipe -------------------------------
(* Instances of Pipe for TLC. *)
EXTENDS Pipe, TLC

CONSTANTS t1, t2, t3
MCTask == {t1, t2, t3}

Sym == Permutations(MCTask)
=============================================================================
