------------------------------ MODULE WaitQueue ------------------------------
(***************************************************************************)
(* One wait queue (kernel/fork.c, kernel/sched.c, <linux/wait.h>).         *)
(*                                                                         *)
(* One step is one critical section of the queue's lock, except __wake_up: *)
(* it keeps the queue locked over its whole scan, reads each waiter's      *)
(* state without the run queue lock and only then calls try_to_wake_up, so *)
(* it is one step per such access.                                         *)
(***************************************************************************)
EXTENDS Tasks

VARIABLES
  task_list,   \* the wait queue, as the sequence of the waiting tasks
  exclusive,   \* the waiting tasks whose entry has WQ_FLAG_EXCLUSIVE
  qlock,       \* owner of the wait queue's lock
  cursor       \* __wake_up_common's place in task_list, 0 outside a scan

wqvars == <<task_list, exclusive, qlock, cursor>>

\* The modes of wake_up and of wake_up_interruptible.
AnySleep  == {"INTERRUPTIBLE", "UNINTERRUPTIBLE"}
IntrSleep == {"INTERRUPTIBLE"}

WQTypeOK ==
  /\ TasksTypeOK
  /\ task_list \in Seq(Task)
  /\ exclusive \subseteq Task
  /\ qlock \in Task \cup {NoTask}
  /\ cursor \in Nat

WQInit ==
  /\ TasksInit
  /\ task_list = <<>>
  /\ exclusive = {}
  /\ qlock = NoTask
  /\ cursor = 0

add_wait_queue(p) ==
  /\ qlock = NoTask
  /\ task_list' = <<p>> \o task_list
  /\ exclusive' = exclusive \ {p}
  /\ UNCHANGED <<qlock, cursor>>

add_wait_queue_exclusive(p) ==
  /\ qlock = NoTask
  /\ task_list' = Append(task_list, p)
  /\ exclusive' = exclusive \cup {p}
  /\ UNCHANGED <<qlock, cursor>>

\* list_del of the i-th entry.
list_del(s, i) == SubSeq(s, 1, i - 1) \o SubSeq(s, i + 1, Len(s))

remove_wait_queue(p) ==
  /\ qlock = NoTask
  /\ \E i \in DOMAIN task_list :
       task_list[i] = p /\ task_list' = list_del(task_list, i)
  /\ exclusive' = exclusive \ {p}
  /\ UNCHANGED <<qlock, cursor>>

(***************************************************************************)
(* __wake_up(q, mode, 1): WakeLock, then for each waiter either WakeSkip,  *)
(* or WakeSee (its state, read without the run queue lock, is one the mode *)
(* wakes) followed by WakeTry.  The scan is over when the list is at its   *)
(* end or when an exclusive waiter was really put on the run queue.        *)
(***************************************************************************)
WakeLock(w) ==
  /\ qlock = NoTask
  /\ qlock' = w
  /\ cursor' = 1
  /\ UNCHANGED <<task_list, exclusive>>

ScanAtEnd == cursor > Len(task_list)
Scanned   == task_list[cursor]

WakeUnlock ==
  /\ qlock' = NoTask
  /\ cursor' = 0
  /\ UNCHANGED <<task_list, exclusive>>

WakeAdvance ==
  /\ cursor' = cursor + 1
  /\ UNCHANGED <<task_list, exclusive, qlock>>

WakeEnd ==
  /\ ScanAtEnd
  /\ WakeUnlock
  /\ UNCHANGED schedvars

WakeSkip(mode) ==
  /\ ~ScanAtEnd
  /\ state[Scanned] \notin mode
  /\ WakeAdvance
  /\ UNCHANGED schedvars

WakeSee(mode) ==
  /\ ~ScanAtEnd
  /\ state[Scanned] \in mode
  /\ UNCHANGED <<schedvars, wqvars>>

LastWoken == WakesUp(Scanned) /\ Scanned \in exclusive

WakeTry ==
  /\ try_to_wake_up(Scanned)
  /\ IF LastWoken THEN WakeUnlock ELSE WakeAdvance
=============================================================================
