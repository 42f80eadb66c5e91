------------------------------ MODULE Tasklets ------------------------------
(***************************************************************************)
(* Softirqs, tasklets, bottom halves and ksoftirqd (kernel/softirq.c,      *)
(* <linux/interrupt.h>, SMP build).                                        *)
(*                                                                         *)
(* Each CPU has four contexts: an interrupt handler, which runs on top of  *)
(* the others; the softirq in do_softirq; ksoftirqd; and a process that    *)
(* calls the tasklet interface.  The last two run only when the CPU is in  *)
(* neither of the first, as the kernel is not preemptible.  A locked       *)
(* instruction is one step and so is a stretch of code with the local      *)
(* interrupts disabled.                                                    *)
(***************************************************************************)
EXTENDS Integers, Sequences, FiniteSets

CONSTANTS
  Cpu,
  Tasklet,
  NoTasklet,
  Nr,            \* the softirqs that run tasklets: HI_SOFTIRQ, TASKLET_SOFTIRQ
  Vector(_),     \* the softirq of a tasklet
  BH,            \* the tasklets that stand for old style bottom halves
  NoCpu,
  Restarters,    \* the tasklets whose function may schedule them again
  IrqCpu         \* the CPUs whose interrupt handlers schedule tasklets

ASSUME TaskletAssumption ==
  /\ NoTasklet \notin Tasklet /\ NoCpu \notin Cpu /\ IsFiniteSet(Cpu)
  /\ Nr \subseteq Nat
  /\ \A t \in Tasklet : Vector(t) \in Nr
  /\ BH \subseteq Tasklet /\ Restarters \subseteq Tasklet
  /\ IrqCpu \subseteq Cpu

VARIABLES
  sched, run,        \* the tasklets with TASKLET_STATE_SCHED, _RUN set
  count,             \* t->count
  vec,               \* tasklet_vec[cpu], tasklet_hi_vec[cpu]
  pending,           \* softirq_pending(cpu)
  irq,               \* the interrupt handler on a CPU
  soft,              \* do_softirq on a CPU
  kpc, kstate,       \* ksoftirqd of a CPU
  proc,              \* the process on a CPU
  global_bh_lock

bits == <<sched, run, count>>
vars == <<bits, vec, pending, irq, soft, kpc, kstate, proc, global_bh_lock>>

\* at: where the context is; t: the tasklet it works on.
NoIrq  == [at |-> "none", t |-> NoTasklet]
NoSoft == [at |-> "none", todo |-> {}, mask |-> {}, nr |-> 0, list |-> <<>>,
           t |-> NoTasklet]
NoProc == [at |-> "idle", t |-> NoTasklet]

Tasklets0 == Tasklet \cup {NoTasklet}

SoftAt ==
  {"none", "loop", "tasklets", "count", "clear", "func", "bh", "bhmark", "enqueue",
   "return", "requeue"}
ProcAt ==
  {"idle", "enqueue", "wait", "disabled", "kill", "yield", "killwait", "killclear", "killed"}

\* Every variable keeps its type; a context has a tasklet whenever it works on one.
TypeOK ==
  /\ sched \subseteq Tasklet /\ run \subseteq Tasklet
  /\ count \in [Tasklet -> Nat]
  /\ vec \in [Cpu -> [Nr -> Seq(Tasklet)]]
  /\ pending \in [Cpu -> SUBSET Nr]
  /\ irq \in [Cpu -> [at : {"none", "enqueue", "exit"}, t : Tasklets0]]
  /\ soft \in [Cpu -> [at : SoftAt, todo : SUBSET Nr, mask : SUBSET Nr, nr : Nat,
                       list : Seq(Tasklet), t : Tasklets0]]
  /\ kpc \in [Cpu -> {"test", "schedule", "asleep", "while"}]
  /\ kstate \in [Cpu -> {"RUNNING", "INTERRUPTIBLE"}]
  /\ proc \in [Cpu -> [at : ProcAt, t : Tasklets0]]
  /\ global_bh_lock \in Cpu \cup {NoCpu}
  /\ \A c \in Cpu :
       /\ irq[c].at = "enqueue" => irq[c].t \in Tasklet
       /\ proc[c].at # "idle" => proc[c].t \in Tasklet
       /\ soft[c].at \notin {"none", "loop"} => soft[c].nr \in Nr
       /\ soft[c].at \notin {"none", "loop", "tasklets"} => soft[c].t \in Tasklet

Init ==
  /\ sched = {} /\ run = {}
  /\ count = [t \in Tasklet |-> 0]
  /\ vec = [c \in Cpu |-> [nr \in Nr |-> <<>>]]
  /\ pending = [c \in Cpu |-> {}]
  /\ irq = [c \in Cpu |-> NoIrq]
  /\ soft = [c \in Cpu |-> NoSoft]
  /\ kpc = [c \in Cpu |-> "test"]
  /\ kstate = [c \in Cpu |-> "INTERRUPTIBLE"]
  /\ proc = [c \in Cpu |-> NoProc]
  /\ global_bh_lock = NoCpu

-----------------------------------------------------------------------------
\* Which context of the CPU can run.
SoftRuns(c) == irq[c].at = "none" /\ soft[c].at # "none"
BaseRuns(c) == irq[c].at = "none" /\ soft[c].at = "none"

wakeup_softirqd(c) ==
  /\ kstate' = [kstate EXCEPT ![c] = "RUNNING"]
  /\ kpc' = [kpc EXCEPT ![c] = IF @ = "asleep" THEN "while" ELSE @]

\* __tasklet_schedule and __tasklet_hi_schedule: the list, and the softirq.
Enlist(c, t) ==
  /\ vec' = [vec EXCEPT ![c][Vector(t)] = <<t>> \o @]
  /\ pending' = [pending EXCEPT ![c] = @ \cup {Vector(t)}]

\* Whoever kills a tasklet has stopped all that schedule it, but its function.
KillStages == {"kill", "yield", "killwait", "killclear", "killed"}
NotKilled(t) == \A c \in Cpu : proc[c].t = t => proc[c].at \notin KillStages

-----------------------------------------------------------------------------
(* do_softirq: entered with interrupts disabled and not in_interrupt(). *)

do_softirq(c) ==
  /\ soft[c].at = "none" /\ pending[c] # {}
  /\ soft' = [soft EXCEPT ![c] = [NoSoft EXCEPT !.at = "loop",
                !.todo = pending[c], !.mask = Nr \ pending[c]]]
  /\ pending' = [pending EXCEPT ![c] = {}]

\* h->action(h) of the lowest pending softirq: tasklet_action takes the list.
ActionBegin(c) ==
  /\ SoftRuns(c) /\ soft[c].at = "loop"
  /\ \E nr \in soft[c].todo :
       /\ \A m \in soft[c].todo : nr <= m
       /\ soft' = [soft EXCEPT ![c].at = "tasklets", ![c].todo = @ \ {nr},
                               ![c].nr = nr, ![c].list = vec[c][nr]]
       /\ vec' = [vec EXCEPT ![c][nr] = <<>>]
  /\ UNCHANGED <<bits, pending, irq, kpc, kstate, proc, global_bh_lock>>

\* Mutant: what is left over is not handed to ksoftirqd.
LoopEndNoWake(c) ==
  /\ SoftRuns(c) /\ soft[c].at = "loop" /\ soft[c].todo = {}
  /\ IF pending[c] \cap soft[c].mask # {}
     THEN /\ soft' = [soft EXCEPT ![c].mask = @ \ pending[c],
                                  ![c].todo = pending[c]]
          /\ pending' = [pending EXCEPT ![c] = {}]
     ELSE /\ soft' = [soft EXCEPT ![c] = NoSoft]
          /\ UNCHANGED pending
  /\ UNCHANGED <<bits, vec, irq, kpc, kstate, proc, global_bh_lock>>

\* The end of the loop over the actions: once more, or leave the rest, which
\* this call has already served once, to ksoftirqd.
LoopEnd(c) ==
  /\ SoftRuns(c) /\ soft[c].at = "loop" /\ soft[c].todo = {}
  /\ IF pending[c] \cap soft[c].mask # {}
     THEN /\ soft' = [soft EXCEPT ![c].mask = @ \ pending[c],
                                  ![c].todo = pending[c]]
          /\ pending' = [pending EXCEPT ![c] = {}]
          /\ UNCHANGED <<kpc, kstate>>
     ELSE /\ soft' = [soft EXCEPT ![c] = NoSoft]
          /\ UNCHANGED pending
          /\ IF pending[c] # {} THEN wakeup_softirqd(c) ELSE UNCHANGED <<kpc, kstate>>
  /\ UNCHANGED <<bits, vec, irq, proc, global_bh_lock>>

(* tasklet_action and tasklet_hi_action *)

\* Mutants: a tasklet that runs elsewhere is dropped, or run all the same.
TryLockDrops(c) ==
  /\ SoftRuns(c) /\ soft[c].at = "tasklets" /\ soft[c].list # <<>>
  /\ LET t == Head(soft[c].list)
     IN /\ soft' = IF t \in run THEN [soft EXCEPT ![c].list = Tail(@)]
                   ELSE [soft EXCEPT ![c].t = t, ![c].list = Tail(@), ![c].at = "count"]
        /\ run' = run \cup {t}
  /\ UNCHANGED <<sched, count, vec, pending, irq, kpc, kstate, proc, global_bh_lock>>

TryLockAlways(c) ==
  /\ SoftRuns(c) /\ soft[c].at = "tasklets" /\ soft[c].list # <<>>
  /\ soft' = [soft EXCEPT ![c].t = Head(soft[c].list), ![c].list = Tail(@),
                          ![c].at = "count"]
  /\ run' = run \cup {Head(soft[c].list)}
  /\ UNCHANGED <<sched, count, vec, pending, irq, kpc, kstate, proc, global_bh_lock>>

\* tasklet_trylock
TryLock(c) ==
  /\ SoftRuns(c) /\ soft[c].at = "tasklets" /\ soft[c].list # <<>>
  /\ LET t == Head(soft[c].list)
     IN /\ soft' = [soft EXCEPT ![c].t = t, ![c].list = Tail(@),
                                ![c].at = IF t \in run THEN "requeue" ELSE "count"]
        /\ run' = run \cup {t}
  /\ UNCHANGED <<sched, count, vec, pending, irq, kpc, kstate, proc, global_bh_lock>>

\* atomic_read(&t->count), and tasklet_unlock if it is disabled.
ReadCount(c) ==
  /\ SoftRuns(c) /\ soft[c].at = "count"
  /\ IF count[soft[c].t] = 0
     THEN soft' = [soft EXCEPT ![c].at = "clear"] /\ UNCHANGED run
     ELSE soft' = [soft EXCEPT ![c].at = "requeue"] /\ run' = run \ {soft[c].t}
  /\ UNCHANGED <<sched, count, vec, pending, irq, kpc, kstate, proc, global_bh_lock>>

\* test_and_clear_bit(TASKLET_STATE_SCHED), then t->func.
ClearSched(c) ==
  /\ SoftRuns(c) /\ soft[c].at = "clear"
  /\ sched' = sched \ {soft[c].t}
  /\ soft' = [soft EXCEPT ![c].at = "func"]
  /\ UNCHANGED <<run, count, vec, pending, irq, kpc, kstate, proc, global_bh_lock>>

\* The function schedules its own tasklet again.
FuncSchedule(c) ==
  /\ SoftRuns(c) /\ soft[c].at \in {"func", "bhmark"}
  /\ soft[c].at = "func" => soft[c].t \in Restarters \ BH
  /\ soft[c].t \notin sched
  /\ sched' = sched \cup {soft[c].t}
  /\ soft' = [soft EXCEPT ![c].at = "enqueue"]
  /\ UNCHANGED <<run, count, vec, pending, irq, kpc, kstate, proc, global_bh_lock>>

\* bh_action: the bottom half runs under global_bh_lock, or is marked again
\* because another one runs or another CPU has disabled all interrupts.
BhAction(c) ==
  /\ SoftRuns(c) /\ soft[c].at = "func" /\ soft[c].t \in BH
  /\ \/ /\ global_bh_lock = NoCpu
        /\ global_bh_lock' = c
        /\ soft' = [soft EXCEPT ![c].at = "bh"]
     \/ /\ soft' = [soft EXCEPT ![c].at = "bhmark"]
        /\ UNCHANGED global_bh_lock
  /\ UNCHANGED <<bits, vec, pending, irq, kpc, kstate, proc>>

\* In do_softirq local_bh_count is not 0, so ksoftirqd is not woken.
FuncEnqueue(c) ==
  /\ SoftRuns(c) /\ soft[c].at = "enqueue"
  /\ Enlist(c, soft[c].t)
  /\ soft' = [soft EXCEPT ![c].at = "return"]
  /\ UNCHANGED <<bits, irq, kpc, kstate, proc, global_bh_lock>>

\* The function returns: tasklet_unlock.  A bottom half first gives up its lock;
\* one that could not get it, and finds itself marked, just returns.
FuncReturn(c) ==
  /\ SoftRuns(c)
  /\ \/ soft[c].at = "func" /\ soft[c].t \notin BH /\ UNCHANGED global_bh_lock
     \/ soft[c].at = "bh" /\ global_bh_lock' = NoCpu
     \/ soft[c].at = "bhmark" /\ soft[c].t \in sched /\ UNCHANGED global_bh_lock
     \/ soft[c].at = "return" /\ UNCHANGED global_bh_lock
  /\ run' = run \ {soft[c].t}
  /\ soft' = [soft EXCEPT ![c].at = "tasklets", ![c].t = NoTasklet]
  /\ UNCHANGED <<sched, count, vec, pending, irq, kpc, kstate, proc>>

\* Not run this time: back on this CPU's list, and the softirq raised.
Requeue(c) ==
  /\ SoftRuns(c) /\ soft[c].at = "requeue"
  /\ vec' = [vec EXCEPT ![c][soft[c].nr] = <<soft[c].t>> \o @]
  /\ pending' = [pending EXCEPT ![c] = @ \cup {soft[c].nr}]
  /\ soft' = [soft EXCEPT ![c].at = "tasklets", ![c].t = NoTasklet]
  /\ UNCHANGED <<bits, irq, kpc, kstate, proc, global_bh_lock>>

ActionEnd(c) ==
  /\ SoftRuns(c) /\ soft[c].at = "tasklets" /\ soft[c].list = <<>>
  /\ soft' = [soft EXCEPT ![c].at = "loop"]
  /\ UNCHANGED <<bits, vec, pending, irq, kpc, kstate, proc, global_bh_lock>>

-----------------------------------------------------------------------------
(* ksoftirqd *)

KTest(c) ==
  /\ BaseRuns(c) /\ kpc[c] = "test"
  /\ kpc' = [kpc EXCEPT ![c] = IF pending[c] = {} THEN "schedule" ELSE "while"]
  /\ kstate' = [kstate EXCEPT ![c] = IF pending[c] = {} THEN @ ELSE "RUNNING"]
  /\ UNCHANGED <<bits, vec, pending, irq, soft, proc, global_bh_lock>>

\* schedule(), and __set_current_state(TASK_RUNNING) when it comes back.
KSchedule(c) ==
  /\ BaseRuns(c) /\ kpc[c] = "schedule"
  /\ kpc' = [kpc EXCEPT ![c] = IF kstate[c] = "RUNNING" THEN "while" ELSE "asleep"]
  /\ UNCHANGED <<bits, vec, pending, irq, soft, kstate, proc, global_bh_lock>>

KLoop(c) ==
  /\ BaseRuns(c) /\ kpc[c] = "while"
  /\ \/ do_softirq(c) /\ UNCHANGED <<kpc, kstate>>
     \/ /\ pending[c] = {}
        /\ kpc' = [kpc EXCEPT ![c] = "test"]
        /\ kstate' = [kstate EXCEPT ![c] = "INTERRUPTIBLE"]
        /\ UNCHANGED <<pending, soft>>
  /\ UNCHANGED <<bits, vec, irq, proc, global_bh_lock>>

-----------------------------------------------------------------------------
(* An interrupt handler that schedules one tasklet; then do_IRQ calls       *)
(* do_softirq, which returns at once if it interrupted a softirq.           *)

IrqSchedule(c, t) ==
  /\ irq[c].at = "none" /\ NotKilled(t)
  /\ irq' = [irq EXCEPT ![c] = IF t \in sched THEN [at |-> "exit", t |-> NoTasklet]
                               ELSE [at |-> "enqueue", t |-> t]]
  /\ sched' = sched \cup {t}
  /\ UNCHANGED <<run, count, vec, pending, soft, kpc, kstate, proc, global_bh_lock>>

IrqEnqueue(c) ==
  /\ irq[c].at = "enqueue"
  /\ Enlist(c, irq[c].t)
  /\ irq' = [irq EXCEPT ![c] = [at |-> "exit", t |-> NoTasklet]]
  /\ UNCHANGED <<bits, soft, kpc, kstate, proc, global_bh_lock>>

IrqExit(c) ==
  /\ irq[c].at = "exit"
  /\ irq' = [irq EXCEPT ![c] = NoIrq]
  /\ IF soft[c].at = "none" /\ pending[c] # {} THEN do_softirq(c)
     ELSE UNCHANGED <<soft, pending>>
  /\ UNCHANGED <<bits, vec, kpc, kstate, proc, global_bh_lock>>

-----------------------------------------------------------------------------
(* The process on a CPU. *)

Goto(c, at, t) == proc' = [proc EXCEPT ![c] = [at |-> at, t |-> t]]
NotSoft == <<vec, pending, irq, soft, kpc, kstate, global_bh_lock>>

tasklet_schedule(c, t) ==
  /\ BaseRuns(c) /\ proc[c].at = "idle" /\ NotKilled(t)
  /\ t \notin sched
  /\ sched' = sched \cup {t}
  /\ Goto(c, "enqueue", t)
  /\ UNCHANGED <<run, count, NotSoft>>

\* In process context cpu_raise_softirq wakes ksoftirqd.
ProcEnqueue(c) ==
  /\ BaseRuns(c) /\ proc[c].at = "enqueue"
  /\ Enlist(c, proc[c].t)
  /\ wakeup_softirqd(c)
  /\ proc' = [proc EXCEPT ![c] = NoProc]
  /\ UNCHANGED <<bits, irq, soft, global_bh_lock>>

tasklet_disable_nosync(c, t) ==
  /\ BaseRuns(c) /\ proc[c].at = "idle"
  /\ count' = [count EXCEPT ![t] = @ + 1]
  /\ Goto(c, "wait", t)
  /\ UNCHANGED <<sched, run, NotSoft>>

\* Mutant: tasklet_disable does not wait for a running function.
DisableNoWait(c) ==
  /\ BaseRuns(c) /\ proc[c].at = "wait"
  /\ Goto(c, "disabled", proc[c].t)
  /\ UNCHANGED <<bits, NotSoft>>

\* tasklet_unlock_wait, the second half of tasklet_disable.
DisableWait(c) ==
  /\ BaseRuns(c) /\ proc[c].at = "wait" /\ proc[c].t \notin run
  /\ Goto(c, "disabled", proc[c].t)
  /\ UNCHANGED <<bits, NotSoft>>

tasklet_enable(c) ==
  /\ BaseRuns(c) /\ proc[c].at = "disabled"
  /\ count' = [count EXCEPT ![proc[c].t] = @ - 1]
  /\ proc' = [proc EXCEPT ![c] = NoProc]
  /\ UNCHANGED <<sched, run, NotSoft>>

KillCall(c, t) ==
  /\ BaseRuns(c) /\ proc[c].at = "idle" /\ NotKilled(t)
  /\ Goto(c, "kill", t)
  /\ UNCHANGED <<bits, NotSoft>>

\* test_and_set_bit(TASKLET_STATE_SCHED)
KillSet(c) ==
  /\ BaseRuns(c) /\ proc[c].at = "kill"
  /\ Goto(c, IF proc[c].t \in sched THEN "yield" ELSE "killwait", proc[c].t)
  /\ sched' = sched \cup {proc[c].t}
  /\ UNCHANGED <<run, count, NotSoft>>

KillYield(c) ==
  /\ BaseRuns(c) /\ proc[c].at = "yield" /\ proc[c].t \notin sched
  /\ Goto(c, "kill", proc[c].t)
  /\ UNCHANGED <<bits, NotSoft>>

KillWait(c) ==
  /\ BaseRuns(c) /\ proc[c].at = "killwait" /\ proc[c].t \notin run
  /\ Goto(c, "killclear", proc[c].t)
  /\ UNCHANGED <<bits, NotSoft>>

KillClear(c) ==
  /\ BaseRuns(c) /\ proc[c].at = "killclear"
  /\ sched' = sched \ {proc[c].t}
  /\ Goto(c, "killed", proc[c].t)
  /\ UNCHANGED <<run, count, NotSoft>>

\* The owner sets the tasklet up again.
Reuse(c) ==
  /\ BaseRuns(c) /\ proc[c].at = "killed"
  /\ proc' = [proc EXCEPT ![c] = NoProc]
  /\ UNCHANGED <<bits, NotSoft>>

-----------------------------------------------------------------------------
SoftStep(c) ==
  \/ ActionBegin(c) \/ LoopEnd(c) \/ TryLock(c) \/ ReadCount(c) \/ ClearSched(c)
  \/ FuncSchedule(c) \/ BhAction(c) \/ FuncEnqueue(c) \/ FuncReturn(c)
  \/ Requeue(c) \/ ActionEnd(c)

KStep(c) == KTest(c) \/ KSchedule(c) \/ KLoop(c)

IrqStep(c) == IrqEnqueue(c) \/ IrqExit(c)

ProcStep(c) ==
  \/ ProcEnqueue(c) \/ DisableWait(c) \/ tasklet_enable(c) \/ KillSet(c)
  \/ KillYield(c) \/ KillWait(c) \/ KillClear(c) \/ Reuse(c)

Next ==
  \E c \in Cpu :
    \/ SoftStep(c) \/ KStep(c) \/ IrqStep(c) \/ ProcStep(c)
    \/ \E t \in Tasklet :
         \/ c \in IrqCpu /\ IrqSchedule(c, t)
         \/ tasklet_schedule(c, t) \/ tasklet_disable_nosync(c, t) \/ KillCall(c, t)

Spec == Init /\ [][Next]_vars

-----------------------------------------------------------------------------
\* The contexts that have set t's SCHED bit and will put it on a list, those
\* that have it in their hands, and those that kill it.
Enqueuers(t) ==
  {<<"irq", c>> : c \in {d \in Cpu : irq[d] = [at |-> "enqueue", t |-> t]}}
  \cup {<<"proc", c>> : c \in {d \in Cpu : proc[d] = [at |-> "enqueue", t |-> t]}}
  \cup {<<"soft", c>> : c \in {d \in Cpu : soft[d].t = t
              /\ soft[d].at \in {"count", "clear", "enqueue", "requeue"}}}
  \cup {<<"kill", c>> : c \in {d \in Cpu : proc[d].t = t
              /\ proc[d].at \in {"killwait", "killclear"}}}
  \cup (UNION {UNION {{<<"vec", c, nr, i>> : i \in {j \in DOMAIN vec[c][nr] : vec[c][nr][j] = t}} :
                        nr \in Nr} : c \in Cpu})
  \cup (UNION {{<<"list", c, i>> : i \in {j \in DOMAIN soft[c].list : soft[c].list[j] = t}} :
                 c \in Cpu})

\* "If the tasklet is already scheduled, but its execution is still not started,
\* it will be executed only once" (<linux/interrupt.h>): the SCHED bit stands for
\* exactly one place on all lists of all CPUs, or one context that has it in
\* hand.  So the BUG() of tasklet_action is never reached.
ScheduledOnce ==
  \A t \in Tasklet :
    Cardinality(Enqueuers(t)) = IF t \in sched THEN 1 ELSE 0

InFunc(c) == soft[c].at \in {"func", "bh", "bhmark", "enqueue", "return"}

\* "Tasklet is strictly serialized wrt itself": no tasklet's function runs on two
\* CPUs at a time, and no two bottom halves run at a time.
Serialized ==
  \A c, d \in Cpu : c # d =>
    /\ InFunc(c) /\ InFunc(d) => soft[c].t # soft[d].t
    /\ ~(soft[c].at = "bh" /\ soft[d].at = "bh")

\* Once tasklet_disable has returned, the function does not run until
\* tasklet_enable.
Disabled ==
  \A c, d \in Cpu :
    proc[c].at = "disabled" => ~(InFunc(d) /\ soft[d].t = proc[c].t)

\* And once tasklet_kill has returned, the tasklet is on no list and does not
\* run, although the function may schedule it again each time.
DisabledOrKilled ==
  /\ Disabled
  /\ \A c, d \in Cpu : proc[c].at = "killed" =>
       Enqueuers(proc[c].t) = {} /\ soft[d].t # proc[c].t

\* A raised softirq is never forgotten: whenever one is pending, do_softirq is
\* running on that CPU, or an interrupt handler will call it, or ksoftirqd is
\* awake and, whatever it is about to do, will look at softirq_pending again.
SoftirqWillRun ==
  \A c \in Cpu : pending[c] # {} =>
    \/ soft[c].at # "none" \/ irq[c].at # "none"
    \/ kpc[c] \in {"test", "while"} \/ kstate[c] = "RUNNING"

=============================================================================
