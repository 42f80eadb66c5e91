-------------------------------- MODULE Tasks --------------------------------
(***************************************************************************)
(* What every sleeper of the kernel rests on: task states and the run      *)
(* queue (kernel/sched.c).  One step is one critical section of            *)
(* runqueue_lock, or one store to tsk->state.  Which runnable task a CPU   *)
(* picks is left open: a task may step whenever it is on the run queue.    *)
(***************************************************************************)
EXTENDS Integers, Sequences, FiniteSets

CONSTANTS Task,    \* the tasks that may sleep and wake each other
          NoTask   \* the owner of a free lock

ASSUME TaskAssumption == NoTask \notin Task /\ IsFiniteSet(Task)

VARIABLES
  state,       \* tsk->state
  runqueue,    \* the tasks with run_list.next # NULL
  sigpending   \* the tasks with tsk->sigpending set

schedvars == <<state, runqueue, sigpending>>

TaskStates == {"RUNNING", "INTERRUPTIBLE", "UNINTERRUPTIBLE"}

TasksTypeOK ==
  /\ state \in [Task -> TaskStates]
  /\ runqueue \subseteq Task
  /\ sigpending \subseteq Task

TasksInit ==
  /\ state = [p \in Task |-> "RUNNING"]
  /\ runqueue = Task
  /\ sigpending = {}

set_task_state(p, s) ==
  /\ state' = [state EXCEPT ![p] = s]
  /\ UNCHANGED <<runqueue, sigpending>>

\* The first half of schedule(): whether prev stays on the run queue.
schedule(p) ==
  /\ UNCHANGED sigpending
  /\ \/ /\ state[p] = "INTERRUPTIBLE" /\ p \in sigpending
        /\ state' = [state EXCEPT ![p] = "RUNNING"]
        /\ UNCHANGED runqueue
     \/ /\ state[p] # "RUNNING"
        /\ ~(state[p] = "INTERRUPTIBLE" /\ p \in sigpending)
        /\ runqueue' = runqueue \ {p}
        /\ UNCHANGED state
     \/ /\ state[p] = "RUNNING"
        /\ UNCHANGED <<state, runqueue>>

\* Puts q on the run queue; returns success iff it was not there.
try_to_wake_up(q) ==
  /\ state' = [state EXCEPT ![q] = "RUNNING"]
  /\ runqueue' = runqueue \cup {q}
  /\ UNCHANGED sigpending

WakesUp(q) == q \notin runqueue
=============================================================================
