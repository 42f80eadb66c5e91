------------------------------ MODULE RwWaiters ------------------------------
(***************************************************************************)
(* What the two read/write semaphores share (lib/rwsem.c and               *)
(* lib/rwsem-spinlock.c): the queue of struct rwsem_waiter, the loop in    *)
(* which a task waits for its flags to be cleared, and the loop that       *)
(* clears the flags and wakes the tasks.  Each waiter lives on the stack   *)
(* of its task; its flags are read without wait_lock, so each access to    *)
(* flags is a step.  Everything else is only touched under wait_lock.      *)
(***************************************************************************)
EXTENDS Tasks, Functions

VARIABLES
  wait_lock,    \* owner of sem->wait_lock
  wait_list,    \* the queued tasks, in order
  flags,        \* [p |-> flags of p's waiter: "none" for 0, "read", "write"]
  want,         \* [p |-> what p is waiting for, "none" outside the slow path]
  todo,         \* the waiters __rwsem_do_wake has chosen and not yet released
  readers, writers,  \* the tasks whose down returned and that have not called up
  pc

waitervars == <<wait_lock, wait_list, flags, want, todo, readers, writers>>

Modes == {"none", "read", "write"}

WaitersTypeOK ==
  /\ TasksTypeOK
  /\ wait_lock \in Task \cup {NoTask}
  /\ wait_list \in Seq(Task)
  /\ flags \in [Task -> Modes]
  /\ want \in [Task -> Modes]
  /\ todo \in Seq(Task)
  /\ readers \subseteq Task /\ writers \subseteq Task

WaitersInit ==
  /\ TasksInit
  /\ wait_lock = NoTask
  /\ wait_list = <<>>
  /\ flags = [p \in Task |-> "none"]
  /\ want = [p \in Task |-> "none"]
  /\ todo = <<>>
  /\ readers = {} /\ writers = {}
  /\ pc = [p \in Task |-> "idle"]

Goto(p, from, to) ==
  /\ pc[p] = from
  /\ pc' = [pc EXCEPT ![p] = to]

\* Nobody who holds the lock asks for it again.
Idle(p) == pc[p] = "idle" /\ p \notin readers \cup writers

Hold(p, mode) ==
  /\ readers' = IF mode = "read" THEN readers \cup {p} ELSE readers
  /\ writers' = IF mode = "write" THEN writers \cup {p} ELSE writers

\* Mutant: only the first reader is released.
FrontOne == 1

\* How many waiters at the front may be released together: one writer, or
\* the readers before the first writer.
Front ==
  IF flags[Head(wait_list)] = "write" THEN 1
  ELSE CHOOSE n \in DOMAIN wait_list :
         /\ \A i \in 1..n : flags[wait_list[i]] = "read"
         /\ n = Len(wait_list) \/ flags[wait_list[n + 1]] # "read"

Dequeue(n) ==
  /\ todo' = SubSeq(wait_list, 1, n)
  /\ wait_list' = SubSeq(wait_list, n + 1, Len(wait_list))

-----------------------------------------------------------------------------
(* wait to be given the lock *)

Granted(p) ==
  /\ flags[p] = "none"
  /\ Goto(p, "check", "idle")
  /\ set_task_state(p, "RUNNING")
  /\ Hold(p, want[p])
  /\ want' = [want EXCEPT ![p] = "none"]
  /\ UNCHANGED <<wait_lock, wait_list, flags, todo>>

NotGranted(p) ==
  /\ flags[p] # "none"
  /\ Goto(p, "check", "schedule")
  /\ UNCHANGED <<schedvars, waitervars>>

\* Mutant: the state set after the test of flags, right before schedule().
ScheduleSetsState(p) ==
  /\ Goto(p, "schedule", "resume")
  /\ state' = [state EXCEPT ![p] = "UNINTERRUPTIBLE"]
  /\ runqueue' = runqueue \ {p}
  /\ UNCHANGED <<sigpending, waitervars>>

Schedule(p) ==
  /\ Goto(p, "schedule", "resume")
  /\ schedule(p)
  /\ UNCHANGED waitervars

Resume(p) ==
  /\ p \in runqueue
  /\ Goto(p, "resume", "check")
  /\ set_task_state(p, "UNINTERRUPTIBLE")
  /\ UNCHANGED waitervars

-----------------------------------------------------------------------------
(* Release the chosen waiters one by one: flags = 0, then wake_up_process. *)

\* spin_unlock, at the end of up or inside down.
Unlock(p, from) ==
  /\ wait_lock' = NoTask
  /\ Goto(p, from, IF want[p] = "none" THEN "idle" ELSE "check")

Grant(p) ==
  /\ Goto(p, "grant", "ttwu")
  /\ flags' = [flags EXCEPT ![Head(todo)] = "none"]
  /\ UNCHANGED <<schedvars, wait_lock, wait_list, want, todo, readers, writers>>

WakeUp(p) ==
  /\ pc[p] = "ttwu"
  /\ try_to_wake_up(Head(todo))
  /\ todo' = Tail(todo)
  /\ \/ todo' # <<>> /\ Goto(p, "ttwu", "grant") /\ UNCHANGED wait_lock
     \/ todo' = <<>> /\ Unlock(p, "ttwu")
  /\ UNCHANGED <<wait_list, flags, want, readers, writers>>

WaiterStep(p) ==
  \/ Granted(p) \/ NotGranted(p) \/ Schedule(p) \/ Resume(p)
  \/ Grant(p) \/ WakeUp(p)

-----------------------------------------------------------------------------
Asleep(p) == pc[p] = "resume" /\ p \notin runqueue

\* A granted waiter is never left asleep: between flags = 0 and its wakeup
\* somebody in __rwsem_do_wake still has it on its list.
GrantedIsWoken ==
  \A p \in Task : Asleep(p) /\ flags[p] = "none" => p \in Range(todo)

\* The queue is never left with nobody holding the lock and nobody awake in
\* the semaphore code to release its waiters.
QueueIsServed ==
  wait_list # <<>> =>
    \E p \in Task : p \in readers \cup writers \/ (pc[p] # "idle" /\ ~Asleep(p))

-----------------------------------------------------------------------------
\* The promise, on the lock as it is granted rather than as down() returns.
Holders(mode, returned) ==
  returned \cup {p \in Task : /\ want[p] = mode /\ pc[p] \notin {"set", "enqueue"}
                              /\ p \notin Range(wait_list)}

Abs == INSTANCE AbsRwSem WITH
         readers <- Holders("read", readers),
         writers <- Holders("write", writers),
         queue   <- [i \in DOMAIN wait_list |->
                       <<wait_list[i], want[wait_list[i]]>>]

\* Readers share, writers are alone, and the queue is served in order: a
\* writer at the front alone, readers at the front all together, and nobody
\* gets the lock past a queued task.
ImplementsAbstract == Abs!Spec
=============================================================================
