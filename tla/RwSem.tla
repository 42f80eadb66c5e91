-------------------------------- MODULE RwSem --------------------------------
(***************************************************************************)
(* The i486+ read/write semaphore: the XADD/CMPXCHG fast paths of          *)
(* <asm-i386/rwsem.h> and the contention routines of lib/rwsem.c.          *)
(*                                                                         *)
(* sem->count packs two numbers: the low half counts active lockers, the   *)
(* high half, negated, active writers and waiters.  The half-word boundary *)
(* is at WAITING_UNIT (0x10000 in the code).  Each locked instruction, and *)
(* each access to a waiter's flags outside wait_lock, is one step; what is *)
(* only touched under wait_lock joins the step next to it.                 *)
(***************************************************************************)
EXTENDS RwWaiters

CONSTANT WAITING_UNIT    \* bound: more than the tasks, as 0x10000 is

ASSUME UnitAssumption == WAITING_UNIT \in Nat /\ WAITING_UNIT > Cardinality(Task)

VARIABLE count           \* sem->count

vars == <<schedvars, waitervars, pc, count>>

ACTIVE_BIAS  == 1
WAITING_BIAS == -WAITING_UNIT
WRITE_BIAS   == WAITING_BIAS + ACTIVE_BIAS
Active(c)    == c % WAITING_UNIT          \* c & RWSEM_ACTIVE_MASK

PCs == {"idle", "set", "enqueue", "wake", "try", "undo", "addreaders",
        "grant", "ttwu", "check", "schedule", "resume"}

\* The halves of count do not run into each other.
TypeOK ==
  /\ WaitersTypeOK
  /\ pc \in [Task -> PCs]
  /\ count \in (WAITING_BIAS * Cardinality(Task))..Cardinality(Task)

Init == WaitersInit /\ count = 0

-----------------------------------------------------------------------------
(* The fast paths. *)

\* lock incl; js
__down_read(p) ==
  /\ Idle(p)
  /\ count' = count + ACTIVE_BIAS
  /\ \/ /\ count' >= 0
        /\ readers' = readers \cup {p}
        /\ UNCHANGED <<pc, want>>
     \/ /\ count' < 0
        /\ Goto(p, "idle", "set")
        /\ want' = [want EXCEPT ![p] = "read"]
        /\ UNCHANGED readers
  /\ UNCHANGED <<schedvars, wait_lock, wait_list, flags, todo, writers>>

\* lock xadd; jump unless the old count was 0
__down_write(p) ==
  /\ Idle(p)
  /\ count' = count + WRITE_BIAS
  /\ \/ /\ count = 0
        /\ writers' = writers \cup {p}
        /\ UNCHANGED <<pc, want>>
     \/ /\ count # 0
        /\ Goto(p, "idle", "set")
        /\ want' = [want EXCEPT ![p] = "write"]
        /\ UNCHANGED writers
  /\ UNCHANGED <<schedvars, wait_lock, wait_list, flags, todo, readers>>

\* The trylocks, when they succeed; when they fail nothing has changed.
__down_read_trylock(p) ==
  /\ Idle(p)
  /\ count + ACTIVE_BIAS > 0
  /\ count' = count + ACTIVE_BIAS
  /\ readers' = readers \cup {p}
  /\ UNCHANGED <<schedvars, wait_lock, wait_list, flags, pc, want, todo, writers>>

__down_write_trylock(p) ==
  /\ Idle(p)
  /\ count = 0
  /\ count' = WRITE_BIAS
  /\ writers' = writers \cup {p}
  /\ UNCHANGED <<schedvars, wait_lock, wait_list, flags, pc, want, todo, readers>>

\* lock xadd; js; decw: the last active locker calls rwsem_wake if the new
\* count says that somebody waits.
__up_read(p) ==
  /\ p \in readers
  /\ readers' = readers \ {p}
  /\ count' = count - ACTIVE_BIAS
  /\ Goto(p, "idle", IF count' < 0 /\ Active(count) = 1 THEN "wake" ELSE "idle")
  /\ UNCHANGED <<schedvars, wait_lock, wait_list, flags, want, todo, writers>>

__up_write(p) ==
  /\ p \in writers
  /\ writers' = writers \ {p}
  /\ count' = count - WRITE_BIAS
  /\ Goto(p, "idle", IF count' # 0 /\ Active(count) = 1 THEN "wake" ELSE "idle")
  /\ UNCHANGED <<schedvars, wait_lock, wait_list, flags, want, todo, readers>>

-----------------------------------------------------------------------------
(* rwsem_down_read_failed, rwsem_down_write_failed: flags are set on the   *)
(* caller's own waiter before rwsem_down_failed_common publishes it.       *)

SetState(p) ==
  /\ Goto(p, "set", "enqueue")
  /\ flags' = [flags EXCEPT ![p] = want[p]]
  /\ set_task_state(p, "UNINTERRUPTIBLE")
  /\ UNCHANGED <<count, wait_lock, wait_list, want, todo, readers, writers>>

\* Mutant: a failed writer gives its write bias back although it now waits.
AdjustmentSwapped(p) ==
  IF want[p] = "read" THEN WAITING_BIAS - ACTIVE_BIAS ELSE -WRITE_BIAS

Adjustment(p) ==
  IF want[p] = "read" THEN WAITING_BIAS - ACTIVE_BIAS ELSE -ACTIVE_BIAS

\* The critical section up to the test of the active part.
Enqueue(p) ==
  /\ wait_lock = NoTask
  /\ wait_list' = Append(wait_list, p)
  /\ count' = count + Adjustment(p)
  /\ \/ /\ Active(count') = 0
        /\ wait_lock' = p
        /\ Goto(p, "enqueue", "try")
     \/ /\ Active(count') # 0
        /\ UNCHANGED wait_lock
        /\ Goto(p, "enqueue", "check")
  /\ UNCHANGED <<schedvars, flags, want, todo, readers, writers>>

-----------------------------------------------------------------------------
(* rwsem_wake, and __rwsem_do_wake with wait_lock held. *)

rwsem_wake(p) ==
  /\ wait_lock = NoTask
  /\ \/ wait_list = <<>> /\ Goto(p, "wake", "idle") /\ UNCHANGED wait_lock
     \/ wait_list # <<>> /\ Goto(p, "wake", "try") /\ wait_lock' = p
  /\ UNCHANGED <<schedvars, count, wait_list, flags, want, todo, readers, writers>>

\* Mutant: the waiter is released although the lock has been taken meanwhile.
TryAgainBlindly(p) ==
  /\ pc[p] = "try"
  /\ count' = count + ACTIVE_BIAS
  /\ Dequeue(Front)
  /\ Goto(p, "try", IF flags[Head(wait_list)] = "write"
                    THEN "grant" ELSE "addreaders")
  /\ UNCHANGED <<schedvars, wait_lock, flags, want, readers, writers>>

\* try_again: only wake someone if the active part goes from 0 to 1.
TryAgain(p) ==
  /\ pc[p] = "try"
  /\ count' = count + ACTIVE_BIAS
  /\ \/ /\ Active(count) # 0
        /\ Goto(p, "try", "undo")
        /\ UNCHANGED <<wait_list, todo>>
     \/ /\ Active(count) = 0
        /\ Dequeue(Front)
        /\ Goto(p, "try", IF flags[Head(wait_list)] = "write"
                          THEN "grant" ELSE "addreaders")
  /\ UNCHANGED <<schedvars, wait_lock, flags, want, readers, writers>>

\* Mutant: the unit taken in try_again is not taken back.
AddReadersTwice(p) ==
  /\ Goto(p, "addreaders", "grant")
  /\ count' = count + Len(todo) * (ACTIVE_BIAS - WAITING_BIAS)
  /\ UNCHANGED <<schedvars, wait_lock, wait_list, flags, want, todo, readers, writers>>

\* readers_only: each released reader turns from waiting to active.
AddReaders(p) ==
  /\ Goto(p, "addreaders", "grant")
  /\ count' = count + Len(todo) * (ACTIVE_BIAS - WAITING_BIAS) - ACTIVE_BIAS
  /\ UNCHANGED <<schedvars, wait_lock, wait_list, flags, want, todo, readers, writers>>

\* undo the change to count, but check for a transition 1->0
Undo(p) ==
  /\ count' = count - ACTIVE_BIAS
  /\ IF count' # 0 THEN Unlock(p, "undo")
     ELSE Goto(p, "undo", "try") /\ UNCHANGED wait_lock
  /\ UNCHANGED <<schedvars, wait_list, flags, want, todo, readers, writers>>

-----------------------------------------------------------------------------
Lock(p) ==
  \/ __down_read(p) \/ __down_write(p)
  \/ __down_read_trylock(p) \/ __down_write_trylock(p)

\* The steps of a task inside lib/rwsem.c.
Step(p) ==
  \/ SetState(p) \/ Enqueue(p) \/ rwsem_wake(p) \/ TryAgain(p)
  \/ AddReaders(p) \/ Undo(p)
  \/ WaiterStep(p) /\ UNCHANGED count

Next == \E p \in Task : Lock(p) \/ __up_read(p) \/ __up_write(p) \/ Step(p)

Spec == Init /\ [][Next]_vars

-----------------------------------------------------------------------------
\* "The MSW of the count is the negated number of active writers and waiting
\* lockers, and the LSW is the total number of active locks" (rwsem.h), where
\* an attempt that failed but is not queued yet counts as active, and so does
\* a waker until it has taken its own unit back.
Queued ==
  Range(wait_list) \cup
  (IF \E q \in Task : pc[q] = "addreaders" THEN Range(todo) ELSE {})

CountInv ==
  LET slow == {p \in Task : want[p] # "none"}
      lsw  == Cardinality((readers \cup writers \cup slow) \ Queued)
              + Cardinality({q \in Task : pc[q] \in {"undo", "addreaders"}})
      msw  == Cardinality(writers \cup Queued
                           \cup {p \in Task : want[p] = "write"})
  IN  count = lsw * ACTIVE_BIAS + msw * WAITING_BIAS
=============================================================================
