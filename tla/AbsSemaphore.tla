---------------------------- MODULE AbsSemaphore ----------------------------
(***************************************************************************)
(* What a semaphore promises its callers (<asm-i386/semaphore.h>), with no *)
(* sleepers and no queue: Count units are shared, a caller of down() gets  *)
(* out only with one of them, and a caller of down_interruptible()         *)
(* or down_trylock() may also be turned away.                              *)
(***************************************************************************)
EXTENDS Naturals

CONSTANTS Task, Count

VARIABLES
  free,     \* the units nobody holds
  holders,  \* the tasks that hold a unit
  asking    \* [p |-> the operation p is inside, "none" when in none]

absvars == <<free, holders, asking>>

Init ==
  /\ free = Count
  /\ holders = {}
  /\ asking = [p \in Task |-> "none"]

\* The caller has to wait, or to find out that it may not have the semaphore.
Block(p, o) ==
  /\ p \notin holders /\ asking[p] = "none"
  /\ asking' = [asking EXCEPT ![p] = o]
  /\ UNCHANGED <<free, holders>>

\* The semaphore is granted, at once or to a caller that has been waiting.
Acquire(p) ==
  /\ p \notin holders
  /\ free > 0
  /\ free' = free - 1
  /\ holders' = holders \cup {p}
  /\ asking' = [asking EXCEPT ![p] = "none"]

TurnAway(p) ==
  /\ asking[p] \in {"down_interruptible", "down_trylock"}
  /\ asking' = [asking EXCEPT ![p] = "none"]
  /\ UNCHANGED <<free, holders>>

Release(p) ==
  /\ p \in holders
  /\ free' = free + 1
  /\ holders' = holders \ {p}
  /\ UNCHANGED asking

Next ==
  \E p \in Task :
    \/ \E o \in {"down", "down_interruptible", "down_trylock"} : Block(p, o)
    \/ Acquire(p) \/ TurnAway(p) \/ Release(p)

Spec == Init /\ [][Next]_absvars
=============================================================================
