---------------------------- MODULE RwSemSpinlock ----------------------------
(***************************************************************************)
(* The generic read/write semaphore of lib/rwsem-spinlock.c: activity and  *)
(* the queue are only touched under wait_lock, so a critical section is    *)
(* one step up to the release of the chosen waiters (RwWaiters), which     *)
(* keeps wait_lock.                                                        *)
(***************************************************************************)
EXTENDS RwWaiters

VARIABLE activity   \* sem->activity: readers, or -1 for a writer

vars == <<schedvars, waitervars, pc, activity>>

Init == WaitersInit /\ activity = 0

-----------------------------------------------------------------------------
(* Acquiring. *)

\* Mutant: readers pass the queue.
MayReadPastQueue == activity >= 0

\* The condition of the fast paths and of the trylocks.
MayRead  == activity >= 0 /\ wait_list = <<>>
MayWrite == activity = 0 /\ wait_list = <<>>

\* Granted at once; also the trylocks when they succeed.
Take(p, mode) ==
  /\ Idle(p) /\ wait_lock = NoTask
  /\ IF mode = "read" THEN MayRead ELSE MayWrite
  /\ activity' = IF mode = "read" THEN activity + 1 ELSE -1
  /\ Hold(p, mode)
  /\ UNCHANGED <<schedvars, wait_lock, wait_list, flags, want, todo, pc>>

\* The rest of the critical section: become a waiter.
Join(p, mode) ==
  /\ Idle(p) /\ wait_lock = NoTask
  /\ ~(IF mode = "read" THEN MayRead ELSE MayWrite)
  /\ set_task_state(p, "UNINTERRUPTIBLE")
  /\ flags' = [flags EXCEPT ![p] = mode]
  /\ want' = [want EXCEPT ![p] = mode]
  /\ wait_list' = Append(wait_list, p)
  /\ Goto(p, "idle", "check")
  /\ UNCHANGED <<wait_lock, todo, readers, writers, activity>>

-----------------------------------------------------------------------------
(* Releasing. *)

\* __rwsem_wake_one_writer: it takes the first waiter for a writer.
__rwsem_wake_one_writer(p) ==
  /\ activity' = -1
  /\ Dequeue(1)

\* Mutant: activity counts one reader for the whole bunch.
DoWakeOne(p) ==
  /\ activity' = IF flags[Head(wait_list)] = "write" THEN -1 ELSE 1
  /\ Dequeue(Front)

\* __rwsem_do_wake
__rwsem_do_wake(p) ==
  /\ activity' = IF flags[Head(wait_list)] = "write" THEN -1 ELSE Front
  /\ Dequeue(Front)

NothingToWake(p) ==
  /\ Goto(p, "idle", "idle")
  /\ UNCHANGED <<wait_lock, wait_list, todo>>

__up_read(p) ==
  /\ p \in readers /\ wait_lock = NoTask
  /\ readers' = readers \ {p}
  /\ \/ /\ activity - 1 = 0 /\ wait_list # <<>>
        /\ __rwsem_wake_one_writer(p)
        /\ Goto(p, "idle", "grant") /\ wait_lock' = p
     \/ /\ ~(activity - 1 = 0 /\ wait_list # <<>>)
        /\ activity' = activity - 1
        /\ NothingToWake(p)
  /\ UNCHANGED <<schedvars, flags, want, writers>>

__up_write(p) ==
  /\ p \in writers /\ wait_lock = NoTask
  /\ writers' = writers \ {p}
  /\ \/ /\ wait_list # <<>>
        /\ __rwsem_do_wake(p)
        /\ Goto(p, "idle", "grant") /\ wait_lock' = p
     \/ /\ wait_list = <<>>
        /\ activity' = 0
        /\ NothingToWake(p)
  /\ UNCHANGED <<schedvars, flags, want, readers>>

-----------------------------------------------------------------------------
Up(p) == __up_read(p) \/ __up_write(p)

Next ==
  \E p \in Task :
    \/ \E mode \in {"read", "write"} : Take(p, mode) \/ Join(p, mode)
    \/ Up(p)
    \/ WaiterStep(p) /\ UNCHANGED activity

Spec == Init /\ [][Next]_vars

(***************************************************************************)
(* Fairness: tasks on the run queue run, holders call up, a CPU spinning   *)
(* on wait_lock gets it when it is free again and again.                   *)
(***************************************************************************)
Fairness ==
  \A p \in Task :
    /\ SF_vars(Up(p))
    /\ WF_vars(WaiterStep(p) /\ UNCHANGED activity)

FairSpec == Spec /\ Fairness

-----------------------------------------------------------------------------
\* activity counts the granted readers, or is -1 for the granted writer (the
\* comment of <linux/rwsem-spinlock.h>).
ActivityInv ==
  activity = IF Holders("write", writers) # {} THEN -1
             ELSE Cardinality(Holders("read", readers))

\* While readers are active the first waiter is a writer: what __up_read
\* relies on when it wakes "one writer" without looking at its flags.
WriterIsFirst ==
  activity > 0 /\ wait_list # <<>> => flags[Head(wait_list)] = "write"

\* Everybody who queues gets the lock, readers and writers alike.
NoStarvation ==
  \A p \in Task : want[p] # "none" ~> want[p] = "none"
=============================================================================
