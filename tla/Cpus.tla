-------------------------------- MODULE Cpus --------------------------------
(* The CPUs that take interrupts: those of an interrupt line and those under *)
(* the global interrupt lock are the same.                                   *)
CONSTANT Cpu
=============================================================================
