----------------------------- MODULE GlobalIrq -----------------------------
(***************************************************************************)
(* The global interrupt lock of an SMP kernel: cli() and sti() as          *)
(* __global_cli and __global_sti (arch/i386/kernel/irq.c), irq_enter and   *)
(* irq_exit around interrupt handlers (include/asm-i386/hardirq.h), and    *)
(* bh_action around bottom halves (kernel/softirq.c).                      *)
(*                                                                         *)
(* A CPU runs process code, on top of it at most one bottom half, and on   *)
(* top of both interrupt handlers, nested.  Process code and bottom halves *)
(* may call cli.  local_irq_count is a plain variable: other CPUs see a    *)
(* change of it by a CPU of Reorder only when it leaves that CPU's store   *)
(* buffer, which a locked instruction forces.                              *)
(***************************************************************************)
EXTENDS Cpus, Integers, Sequences

CONSTANTS
  NoCpu,
  Reorder,         \* the CPUs whose loads may overtake their earlier stores
  Nest             \* handlers that may be nested on one CPU (bound)

ASSUME GlobalIrqAssumption ==
  /\ NoCpu \notin Cpu /\ Reorder \subseteq Cpu /\ Nest \in Nat

VARIABLES
  global_irq_lock, global_irq_holder,
  global_bh_lock,      \* the CPU that has it, or NoCpu
  IF_,                 \* the interrupt flag of each CPU
  irq,                 \* the handlers active on each CPU, each "enter" or "run"
  local_irq_count,     \* of each CPU, as other CPUs see it
  pc                   \* of process code and of the bottom half of each CPU

lockvars == <<global_irq_lock, global_irq_holder>>
clivars == <<lockvars, global_bh_lock, IF_, irq, local_irq_count, pc>>

Level == {"process", "bh"}
CliPc == {"spin", "wait", "waitbh", "window", "tas", "held"}

\* Every variable keeps its type, and no count exceeds the nesting of handlers.
CliTypeOK ==
  /\ global_irq_lock \in BOOLEAN
  /\ global_irq_holder \in Cpu \cup {NoCpu}
  /\ global_bh_lock \in Cpu \cup {NoCpu}
  /\ IF_ \in [Cpu -> BOOLEAN]
  /\ irq \in [Cpu -> Seq({"enter", "run"})] /\ \A c \in Cpu : Len(irq[c]) <= Nest
  /\ local_irq_count \in [Cpu -> 0 .. Nest]
  /\ pc \in [Cpu -> [Level -> {"none", "trylock", "run"} \cup CliPc]]

\* Process code runs, and nothing on top of it.
JustProcess == [l \in Level |-> IF l = "process" THEN "run" ELSE "none"]

CliInit ==
  /\ global_irq_lock = FALSE /\ global_irq_holder = NoCpu /\ global_bh_lock = NoCpu
  /\ IF_ = [c \in Cpu |-> TRUE]
  /\ irq = [c \in Cpu |-> << >>]
  /\ local_irq_count = [c \in Cpu |-> 0]
  /\ pc = [c \in Cpu |-> JustProcess]

-----------------------------------------------------------------------------
(* The store buffer. *)

\* A store of n to c's local_irq_count.
Stored(c, n) ==
  local_irq_count' = IF c \in Reorder THEN local_irq_count
                     ELSE [local_irq_count EXCEPT ![c] = n]

\* A locked instruction of c.
Locked(c) == local_irq_count' = [local_irq_count EXCEPT ![c] = Len(irq[c])]

Drain(c) ==
  /\ local_irq_count[c] # Len(irq[c])
  /\ Locked(c)
  /\ UNCHANGED <<lockvars, global_bh_lock, IF_, irq, pc>>

-----------------------------------------------------------------------------
(* Interrupt handlers: handle_IRQ_event on c. *)

Top(c) == irq[c][Len(irq[c])]

\* The increment of irq_enter, after the interrupt gate has cleared the flag.
Interrupt(c) ==
  /\ IF_[c] /\ Len(irq[c]) < Nest
  /\ irq' = [irq EXCEPT ![c] = Append(@, "enter")]
  /\ IF_' = [IF_ EXCEPT ![c] = FALSE]
  /\ Stored(c, Len(irq'[c]))
  /\ UNCHANGED <<lockvars, global_bh_lock, pc>>

irq_enterNoSpin(c) ==
  /\ irq[c] # << >> /\ Top(c) = "enter"
  /\ irq' = [irq EXCEPT ![c][Len(irq[c])] = "run"]
  /\ \E on \in BOOLEAN : IF_' = [IF_ EXCEPT ![c] = on]
  /\ UNCHANGED <<lockvars, global_bh_lock, local_irq_count, pc>>

\* irq_enter finds the lock free; the handler runs with interrupts enabled, or,
\* with SA_INTERRUPT, disabled.
irq_enter(c) ==
  /\ irq[c] # << >> /\ Top(c) = "enter"
  /\ ~global_irq_lock
  /\ irq' = [irq EXCEPT ![c][Len(irq[c])] = "run"]
  /\ \E on \in BOOLEAN : IF_' = [IF_ EXCEPT ![c] = on]
  /\ UNCHANGED <<lockvars, global_bh_lock, local_irq_count, pc>>

\* The interrupted code had interrupts enabled.
irq_exit(c) ==
  /\ irq[c] # << >> /\ Top(c) = "run"
  /\ irq' = [irq EXCEPT ![c] = SubSeq(@, 1, Len(@) - 1)]
  /\ IF_' = [IF_ EXCEPT ![c] = TRUE]
  /\ Stored(c, Len(irq'[c]))
  /\ UNCHANGED <<lockvars, global_bh_lock, pc>>

-----------------------------------------------------------------------------
(* cli and sti. *)

\* The code of c that runs when no handler does.
Active(c, l) ==
  /\ irq[c] = << >>
  /\ l = IF pc[c]["bh"] # "none" THEN "bh" ELSE "process"

At(c, l, p)   == Active(c, l) /\ pc[c][l] = p
CliGoto(c, l, p) == pc' = [pc EXCEPT ![c][l] = p]

\* As c sees it: its own count is read from its store buffer.
irqs_running(c) == irq[c] # << >> \/ \E d \in Cpu \ {c} : local_irq_count[d] # 0

BhRunningAlways(l) == global_bh_lock # NoCpu

\* Bottom halves that code of level l waits for.
BhRunning(l) == l = "process" /\ global_bh_lock # NoCpu

\* __global_cli, up to the first test_and_set_bit of get_irqlock.
cli(c, l) ==
  /\ At(c, l, "run") /\ IF_[c]
  /\ IF_' = [IF_ EXCEPT ![c] = FALSE]
  /\ global_irq_lock' = TRUE
  /\ CliGoto(c, l, IF global_irq_lock THEN "spin" ELSE "wait")
  /\ Locked(c)
  /\ UNCHANGED <<global_irq_holder, global_bh_lock, irq>>

GetIrqlockSpin(c, l) ==
  /\ At(c, l, "spin")
  /\ ~global_irq_lock
  /\ global_irq_lock' = TRUE
  /\ CliGoto(c, l, "wait")
  /\ Locked(c)
  /\ UNCHANGED <<global_irq_holder, global_bh_lock, IF_, irq>>

\* Give the lock back, and let interrupts in.
Release(c, l) ==
  /\ global_irq_lock' = FALSE
  /\ IF_' = [IF_ EXCEPT ![c] = TRUE]
  /\ CliGoto(c, l, "window")
  /\ Locked(c)

\* wait_on_irq, with the lock: wait for handlers to leave.
WaitIrqs(c, l) ==
  /\ At(c, l, "wait")
  /\ IF irqs_running(c)
     THEN Release(c, l)
     ELSE CliGoto(c, l, "waitbh") /\ UNCHANGED <<global_irq_lock, IF_, local_irq_count>>
  /\ UNCHANGED <<global_irq_holder, global_bh_lock, irq>>

\* Wait for a bottom half too, unless already executing in one.
WaitBh(c, l) ==
  /\ At(c, l, "waitbh")
  /\ IF BhRunning(l)
     THEN Release(c, l) /\ UNCHANGED global_irq_holder
     ELSE /\ CliGoto(c, l, "held")
          /\ global_irq_holder' = c
          /\ UNCHANGED <<global_irq_lock, IF_, local_irq_count>>
  /\ UNCHANGED <<global_bh_lock, irq>>

\* The inner loop of wait_on_irq, when all its tests find the way free.
WindowClose(c, l) ==
  /\ At(c, l, "window")
  /\ ~irqs_running(c) /\ ~global_irq_lock /\ ~BhRunning(l)
  /\ IF_' = [IF_ EXCEPT ![c] = FALSE]
  /\ CliGoto(c, l, "tas")
  /\ UNCHANGED <<lockvars, global_bh_lock, irq, local_irq_count>>

WindowTas(c, l) ==
  /\ At(c, l, "tas")
  /\ global_irq_lock' = TRUE
  /\ CliGoto(c, l, IF global_irq_lock THEN "window" ELSE "wait")
  /\ IF_' = [IF_ EXCEPT ![c] = global_irq_lock]
  /\ Locked(c)
  /\ UNCHANGED <<global_irq_holder, global_bh_lock, irq>>

stiKeepsHolder(c, l) ==
  /\ At(c, l, "held")
  /\ global_irq_lock' = FALSE
  /\ IF_' = [IF_ EXCEPT ![c] = TRUE]
  /\ CliGoto(c, l, "run")
  /\ Locked(c)
  /\ UNCHANGED <<global_irq_holder, global_bh_lock, irq>>

\* __global_sti, with release_irqlock.
sti(c, l) ==
  /\ At(c, l, "held")
  /\ global_irq_holder' = NoCpu
  /\ global_irq_lock' = FALSE
  /\ IF_' = [IF_ EXCEPT ![c] = TRUE]
  /\ CliGoto(c, l, "run")
  /\ Locked(c)
  /\ UNCHANGED <<global_bh_lock, irq>>

-----------------------------------------------------------------------------
(* bh_action. *)

\* do_softirq starts a bottom half on top of process code, if it gets
\* global_bh_lock; if not, the bottom half stays marked.
BhLock(c) ==
  /\ Active(c, "process") /\ IF_[c]
  /\ global_bh_lock = NoCpu
  /\ global_bh_lock' = c
  /\ CliGoto(c, "bh", "trylock")
  /\ Locked(c)
  /\ UNCHANGED <<lockvars, IF_, irq>>

BhUnlock(c) ==
  /\ global_bh_lock' = NoCpu
  /\ CliGoto(c, "bh", "none")

\* hardirq_trylock: the bottom half is put off while the lock is held.
hardirq_trylock(c) ==
  /\ At(c, "bh", "trylock")
  /\ IF global_irq_lock
     THEN BhUnlock(c)
     ELSE CliGoto(c, "bh", "run") /\ UNCHANGED global_bh_lock
  /\ UNCHANGED <<lockvars, IF_, irq, local_irq_count>>

BhDone(c) ==
  /\ At(c, "bh", "run")
  /\ BhUnlock(c)
  /\ UNCHANGED <<lockvars, IF_, irq, local_irq_count>>

-----------------------------------------------------------------------------
GetCli(c, l) ==
  GetIrqlockSpin(c, l) \/ WaitIrqs(c, l) \/ WaitBh(c, l) \/ WindowClose(c, l) \/ WindowTas(c, l)

\* What a CPU does without being asked to.
Run(c) ==
  \/ irq_enter(c) \/ irq_exit(c) \/ hardirq_trylock(c) \/ BhDone(c)
  \/ \E l \in Level : GetCli(c, l) \/ sti(c, l)

Arrival(c) == Interrupt(c) \/ BhLock(c) \/ \E l \in Level : cli(c, l)

CliNext == \E c \in Cpu : Run(c) \/ Drain(c) \/ Arrival(c)

CliSpec == CliInit /\ [][CliNext]_clivars

(***************************************************************************)
(* Fairness: every CPU runs, and its stores become visible.  No interrupt, *)
(* bottom half or cli need ever come.                                      *)
(***************************************************************************)
CliFairSpec == CliSpec /\ \A c \in Cpu : WF_clivars(Run(c)) /\ WF_clivars(Drain(c))

-----------------------------------------------------------------------------
HandlerRuns(c) == \E i \in DOMAIN irq[c] : irq[c][i] = "run"
BhRuns(c)      == pc[c]["bh"] \notin {"none", "trylock"}

\* While a cli is in force no interrupt handler runs on any CPU, and if process
\* code has called it no bottom half either: this holds for CPUs whose stores are
\* visible at once.
GlobalCli ==
  \A c \in Cpu, l \in Level : pc[c][l] = "held" =>
    /\ \A d \in Cpu \ Reorder : ~HandlerRuns(d)
    /\ l = "process" => \A d \in Cpu : ~BhRuns(d)

\* "We also to make sure that nobody else is running in an interrupt context"
\* (get_irqlock), whatever the CPU.
NobodyInInterrupt ==
  \A c \in Cpu, l \in Level : pc[c][l] = "held" => \A d \in Cpu : ~HandlerRuns(d)

\* The lock has one owner, also among CPUs that wait for handlers to leave,
\* global_irq_holder names one whose cli has returned, and bottom halves run on one
\* CPU at a time.
Owns(c, l) == pc[c][l] \in {"wait", "waitbh", "held"}
OneOwner ==
  /\ \A c, d \in Cpu, l, m \in Level : Owns(c, l) /\ Owns(d, m) => c = d /\ l = m
  /\ global_irq_lock <=> \E c \in Cpu, l \in Level : Owns(c, l)
  /\ \A c \in Cpu : global_irq_holder = c <=> \E l \in Level : pc[c][l] = "held"
  /\ \A c, d \in Cpu : BhRuns(c) /\ BhRuns(d) => c = d

\* Nobody waits for ever for anybody: wait_on_irq releases the lock "to avoid
\* deadlocks" with handlers that spin in irq_enter and bottom halves that call
\* cli.  Once no more work arrives, every cli is granted, every interrupt handled.
AllIsServed ==
  <>[][\A c \in Cpu : ~Arrival(c)]_clivars =>
    <>[](\A c \in Cpu : irq[c] = << >> /\ pc[c] = JustProcess)
=============================================================================
