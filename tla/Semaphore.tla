------------------------------ MODULE Semaphore ------------------------------
(***************************************************************************)
(* The i386 counting semaphore: the inlined fast paths of                  *)
(* <asm-i386/semaphore.h> and the contention routines of                   *)
(* arch/i386/kernel/semaphore.c, on one semaphore initialised to Count.    *)
(*                                                                         *)
(* Each locked instruction on sem->count is one step.  sem->sleepers is    *)
(* only touched under semaphore_lock, so a step may join it to the one     *)
(* locked instruction next to it.  Callers use the semaphore as a lock:    *)
(* who got it calls up() later, and nobody who has it asks again.          *)
(***************************************************************************)
EXTENDS WaitQueue

CONSTANTS
  Count,           \* the value given to sema_init
  MaxSignals       \* bound: tasks with a signal pending at one time

ASSUME CountAssumption == Count \in Nat /\ MaxSignals \in Nat

VARIABLES
  count,           \* sem->count
  sleepers,        \* sem->sleepers
  lock,            \* owner of semaphore_lock
  sempc,           \* where each task is in the semaphore code
  op,              \* the operation it executes, "none" outside
  holders,         \* the tasks that got the semaphore and have not called up
  sender           \* progress of signal_wake_up: [at, to]

semvars == <<count, sleepers, lock, holders>>
semaphorevars == <<schedvars, wqvars, semvars, sempc, op, sender>>

Downs == {"down", "down_interruptible", "down_trylock"}

PCs == {"idle", "set", "enqueue", "lock", "relock", "crit", "schedule",
        "resume", "got", "release", "try", "tryunlock",
        "wake", "scan", "ttwu"}

NoSignal == [at |-> "none", to |-> NoTask]

TypeOK ==
  /\ WQTypeOK
  /\ count \in Int
  /\ sleepers \in 0..2
  /\ lock \in Task \cup {NoTask}
  /\ holders \subseteq Task
  /\ sempc \in [Task -> PCs]
  /\ op \in [Task -> Downs \cup {"up", "none"}]
  /\ sender \in [at : {"none", "read", "wake"}, to : Task \cup {NoTask}]

SemInit ==
  /\ WQInit
  /\ count = Count
  /\ sleepers = 0
  /\ lock = NoTask
  /\ sempc = [p \in Task |-> "idle"]
  /\ op = [p \in Task |-> "none"]
  /\ holders = {}
  /\ sender = NoSignal

SemGoto(p, from, to) ==
  /\ sempc[p] = from
  /\ sempc' = [sempc EXCEPT ![p] = to]
  /\ op' = IF to = "idle" THEN [op EXCEPT ![p] = "none"] ELSE op

\* Enter operation o at "to", or complete it at once if that is "idle".
Call(p, o, to) ==
  /\ sempc[p] = "idle"
  /\ sempc' = [sempc EXCEPT ![p] = to]
  /\ op' = IF to = "idle" THEN op ELSE [op EXCEPT ![p] = o]

\* The state a task of each operation sleeps in.
SleepState(p) ==
  IF op[p] = "down" THEN "UNINTERRUPTIBLE" ELSE "INTERRUPTIBLE"

-----------------------------------------------------------------------------
(* The inlined fast paths: one locked decl or incl and a conditional jump. *)

DownFast(p, o) ==
  /\ sempc[p] = "idle" /\ p \notin holders
  /\ count' = count - 1
  /\ \/ /\ count' >= 0
        /\ holders' = holders \cup {p}
        /\ Call(p, o, "idle")
     \/ /\ count' < 0
        /\ Call(p, o, IF o = "down_trylock" THEN "try" ELSE "set")
        /\ UNCHANGED holders
  /\ UNCHANGED <<schedvars, wqvars, sleepers, lock, sender>>

\* Mutant: the jump after incl taken on "negative" instead of "not positive".
UpFastOffByOne(p) ==
  /\ p \in holders
  /\ count' = count + 1
  /\ holders' = holders \ {p}
  /\ Call(p, "up", IF count' < 0 THEN "wake" ELSE "idle")
  /\ UNCHANGED <<schedvars, wqvars, sleepers, lock, sender>>

UpFast(p) ==
  /\ p \in holders
  /\ count' = count + 1
  /\ holders' = holders \ {p}
  /\ Call(p, "up", IF count' <= 0 THEN "wake" ELSE "idle")
  /\ UNCHANGED <<schedvars, wqvars, sleepers, lock, sender>>

-----------------------------------------------------------------------------
(* __down and __down_interruptible. *)

SetState(p) ==
  /\ SemGoto(p, "set", "enqueue")
  /\ set_task_state(p, SleepState(p))
  /\ UNCHANGED <<wqvars, semvars, sender>>

Enqueue(p) ==
  /\ SemGoto(p, "enqueue", "lock")
  /\ add_wait_queue_exclusive(p)
  /\ UNCHANGED <<schedvars, semvars, sender>>

\* spin_lock_irq(&semaphore_lock); sem->sleepers++
Lock(p) ==
  /\ SemGoto(p, "lock", "crit")
  /\ lock = NoTask
  /\ lock' = p
  /\ sleepers' = sleepers + 1
  /\ UNCHANGED <<schedvars, wqvars, count, holders, sender>>

\* Mutant: the count corrected for the others only, not for the caller.
CritSignalOthers(p) ==
  /\ op[p] = "down_interruptible" /\ p \in sigpending
  /\ SemGoto(p, "crit", "got")
  /\ count' = count + (sleepers - 1)
  /\ sleepers' = 0
  /\ lock' = NoTask
  /\ UNCHANGED <<schedvars, wqvars, holders, sender>>

\* Mutant: the signal test of __down_interruptible copied into __down.
CritSignalDown(p) ==
  /\ p \in sigpending
  /\ SemGoto(p, "crit", "got")
  /\ count' = count + sleepers
  /\ sleepers' = 0
  /\ lock' = NoTask
  /\ UNCHANGED <<schedvars, wqvars, holders, sender>>

\* The loop's body up to spin_unlock_irq, when a signal is pending ...
CritSignal(p) ==
  /\ op[p] = "down_interruptible" /\ p \in sigpending
  /\ SemGoto(p, "crit", "got")
  /\ count' = count + sleepers
  /\ sleepers' = 0
  /\ lock' = NoTask
  /\ UNCHANGED <<schedvars, wqvars, holders, sender>>

\* Mutants: atomic_add_negative(sleepers, ...) without the "- 1", and
\* sem->sleepers = 1 forgotten before sleeping.
CritAddsSelf(p) ==
  /\ ~(op[p] = "down_interruptible" /\ p \in sigpending)
  /\ count' = count + sleepers
  /\ \/ /\ count' >= 0
        /\ SemGoto(p, "crit", "got")
        /\ sleepers' = 0
        /\ holders' = holders \cup {p}
     \/ /\ count' < 0
        /\ SemGoto(p, "crit", "schedule")
        /\ sleepers' = 1
        /\ UNCHANGED holders
  /\ lock' = NoTask
  /\ UNCHANGED <<schedvars, wqvars, sender>>

CritCountsAgain(p) ==
  /\ ~(op[p] = "down_interruptible" /\ p \in sigpending)
  /\ count' = count + (sleepers - 1)
  /\ \/ /\ count' >= 0
        /\ SemGoto(p, "crit", "got")
        /\ sleepers' = 0
        /\ holders' = holders \cup {p}
     \/ /\ count' < 0
        /\ SemGoto(p, "crit", "schedule")
        /\ sleepers' = sleepers + 1
        /\ UNCHANGED holders
  /\ lock' = NoTask
  /\ UNCHANGED <<schedvars, wqvars, sender>>

\* ... and when none is: atomic_add_negative decides.
Crit(p) ==
  /\ ~(op[p] = "down_interruptible" /\ p \in sigpending)
  /\ count' = count + (sleepers - 1)
  /\ \/ /\ count' >= 0
        /\ SemGoto(p, "crit", "got")
        /\ sleepers' = 0
        /\ holders' = holders \cup {p}
     \/ /\ count' < 0
        /\ SemGoto(p, "crit", "schedule")
        /\ sleepers' = 1
        /\ UNCHANGED holders
  /\ lock' = NoTask
  /\ UNCHANGED <<schedvars, wqvars, sender>>

SemSchedule(p) ==
  /\ SemGoto(p, "schedule", "resume")
  /\ schedule(p)
  /\ UNCHANGED <<wqvars, semvars, sender>>

\* Back from schedule(): the state is set again before the lock is taken.
SemResume(p) ==
  /\ p \in runqueue
  /\ SemGoto(p, "resume", "relock")
  /\ set_task_state(p, SleepState(p))
  /\ UNCHANGED <<wqvars, semvars, sender>>

Relock(p) ==
  /\ SemGoto(p, "relock", "crit")
  /\ lock = NoTask
  /\ lock' = p
  /\ UNCHANGED <<schedvars, wqvars, count, sleepers, holders, sender>>

\* Leaving: __down leaves the queue and then becomes TASK_RUNNING,
\* __down_interruptible the other way round; both end with a wake_up.
LeaveQueue(p) ==
  /\ remove_wait_queue(p)
  /\ \/ op[p] = "down" /\ SemGoto(p, "got", "release")
     \/ op[p] = "down_interruptible" /\ SemGoto(p, "release", "wake")
  /\ UNCHANGED <<schedvars, semvars, sender>>

LeaveState(p) ==
  /\ set_task_state(p, "RUNNING")
  /\ \/ op[p] = "down" /\ SemGoto(p, "release", "wake")
     \/ op[p] = "down_interruptible" /\ SemGoto(p, "got", "release")
  /\ UNCHANGED <<wqvars, semvars, sender>>

-----------------------------------------------------------------------------
(* __down_trylock: it wakes, if it must, with semaphore_lock held. *)

\* Mutant: the failed trylock does not pass the semaphore on to a sleeper.
TryLockNoWake(p) ==
  /\ lock = NoTask
  /\ count' = count + (sleepers + 1)
  /\ sleepers' = 0
  /\ UNCHANGED lock
  /\ SemGoto(p, "try", "idle")
  /\ UNCHANGED <<schedvars, wqvars, holders, sender>>

TryLock(p) ==
  /\ lock = NoTask
  /\ count' = count + (sleepers + 1)
  /\ sleepers' = 0
  /\ \/ /\ count' >= 0
        /\ lock' = p
        /\ SemGoto(p, "try", "wake")
     \/ /\ count' < 0
        /\ UNCHANGED lock
        /\ SemGoto(p, "try", "idle")
  /\ UNCHANGED <<schedvars, wqvars, holders, sender>>

TryUnlock(p) ==
  /\ SemGoto(p, "tryunlock", "idle")
  /\ lock' = NoTask
  /\ UNCHANGED <<schedvars, wqvars, count, sleepers, holders, sender>>

-----------------------------------------------------------------------------
(* wake_up(&sem->wait), called by every path that may leave a sleeper. *)

AfterWake(p) == IF op[p] = "down_trylock" THEN "tryunlock" ELSE "idle"

Wake(p) ==
  /\ SemGoto(p, "wake", "scan")
  /\ WakeLock(p)
  /\ UNCHANGED <<schedvars, semvars, sender>>

Scan(p) ==
  /\ \/ SemGoto(p, "scan", AfterWake(p)) /\ WakeEnd
     \/ SemGoto(p, "scan", "scan") /\ WakeSkip(AnySleep)
     \/ SemGoto(p, "scan", "ttwu") /\ WakeSee(AnySleep)
  /\ UNCHANGED <<semvars, sender>>

Ttwu(p) ==
  /\ sempc[p] = "ttwu"
  /\ SemGoto(p, "ttwu", IF LastWoken THEN AfterWake(p) ELSE "scan")
  /\ WakeTry
  /\ UNCHANGED <<semvars, sender>>

-----------------------------------------------------------------------------
(* Signals: deliver_signal sets sigpending, then signal_wake_up looks at   *)
(* the state and wakes an interruptible sleeper.  One sender at a time.    *)

Signal(p) ==
  /\ sender.at = "none" /\ p \notin sigpending
  /\ Cardinality(sigpending) < MaxSignals
  /\ sigpending' = sigpending \cup {p}
  /\ sender' = [at |-> "read", to |-> p]
  /\ UNCHANGED <<state, runqueue, wqvars, semvars, sempc, op>>

SignalRead ==
  /\ sender.at = "read"
  /\ sender' = IF state[sender.to] = "INTERRUPTIBLE"
               THEN [sender EXCEPT !.at = "wake"] ELSE NoSignal
  /\ UNCHANGED <<schedvars, wqvars, semvars, sempc, op>>

SignalWake ==
  /\ sender.at = "wake"
  /\ try_to_wake_up(sender.to)
  /\ sender' = NoSignal
  /\ UNCHANGED <<wqvars, semvars, sempc, op>>

\* Outside the semaphore code a task handles its signal.
HandleSignal(p) ==
  /\ sempc[p] = "idle" /\ p \in sigpending
  /\ sigpending' = sigpending \ {p}
  /\ UNCHANGED <<state, runqueue, wqvars, semvars, sempc, op, sender>>

-----------------------------------------------------------------------------
\* The steps of a task inside the semaphore code.
Step(p) ==
  \/ SetState(p) \/ Enqueue(p) \/ Lock(p) \/ CritSignal(p) \/ Crit(p)
  \/ SemSchedule(p) \/ SemResume(p) \/ Relock(p) \/ LeaveQueue(p) \/ LeaveState(p)
  \/ TryLock(p) \/ TryUnlock(p) \/ Wake(p) \/ Scan(p) \/ Ttwu(p)

SemNext ==
  \/ \E p \in Task :
       \/ \E o \in Downs : DownFast(p, o)
       \/ UpFast(p) \/ Step(p) \/ Signal(p) \/ HandleSignal(p)
  \/ SignalRead \/ SignalWake

SemSpec == SemInit /\ [][SemNext]_semaphorevars

(***************************************************************************)
(* Fairness.  A task on the run queue is eventually run and its code takes *)
(* the next step; semaphore_lock and the queue's lock are held for a       *)
(* bounded time and a CPU spinning on one that is free again and again     *)
(* gets it.  A signal that is being sent is delivered.  Holders call up(). *)
(* Nobody has to call down().                                              *)
(***************************************************************************)
SemFairness ==
  /\ \A p \in Task : SF_semaphorevars(Step(p)) /\ WF_semaphorevars(UpFast(p))
  /\ WF_semaphorevars(SignalRead \/ SignalWake)

SemFairSpec == SemSpec /\ SemFairness

-----------------------------------------------------------------------------
\* The tasks that have decremented count, failed, and are not yet in sleepers.
PendingAt == {"set", "enqueue", "lock", "try"}
Pending   == {p \in Task : sempc[p] \in PendingAt}

\* The tasks on which a call of the down family has not yet been decided.
Undecided == {"set", "enqueue", "lock", "relock", "crit", "schedule",
              "resume", "try"}
Waiting   == {p \in Task : sempc[p] \in Undecided}

SemAsleep(p) == sempc[p] = "resume" /\ p \notin runqueue

\* sem->count, the count of sleepers and the tasks between the two always add
\* up: the accounting behind "add everybody else into it" in __down.
CountInv ==
  count = Count - Cardinality(holders) - Cardinality(Pending) - sleepers

\* At most Count tasks hold the semaphore, whatever mix of down,
\* down_interruptible, down_trylock, up and signals is under way.
MutualExclusion == Cardinality(holders) <= Count

\* No wakeup is lost (the comment at the top of semaphore.c): if the semaphore
\* is available while a task sleeps on it, some task is awake inside the
\* semaphore code, so the system is not at rest with the sleeper forgotten.
NoLostWakeup ==
  (Cardinality(holders) < Count /\ \E p \in Task : SemAsleep(p))
    => \E q \in runqueue : sempc[q] # "idle"

\* Unless new callers keep arriving (each failing attempt lowers count for a
\* while and may turn a waiter back to sleep), every waiter leaves: it has got
\* the semaphore, or its interruptible call was interrupted.
Arrival == \E p \in Task, o \in Downs : DownFast(p, o)
AllServed == []<><<Arrival>>_semaphorevars \/ <>[](Waiting = {})

\* down() returns only with the semaphore, and the semaphore is granted to at
\* most Count tasks: the routines implement the abstract semaphore.
Asking == [p \in Task |-> IF sempc[p] \in Undecided THEN op[p] ELSE "none"]

Free   == Count - Cardinality(holders)

AbsSem == INSTANCE AbsSemaphore WITH free <- Free, asking <- Asking

ImplementsSemaphore == AbsSem!Spec
=============================================================================
