------------------------------ MODULE IrqLine ------------------------------
(***************************************************************************)
(* One interrupt line (arch/i386/kernel/irq.c, SMP build): do_IRQ on       *)
(* several CPUs, and the drivers that share the line and request, disable, *)
(* enable and free it.  The controller is an edge triggered IO-APIC pin    *)
(* (arch/i386/kernel/io_apic.c).                                           *)
(*                                                                         *)
(* One step is one critical section of desc->lock, or one call of a        *)
(* driver's handler, which runs unlocked.  Drivers balance disable_irq and *)
(* enable_irq, from process context, while they have the line.             *)
(***************************************************************************)
EXTENDS Cpus, Integers, FiniteSets

CONSTANTS
  Driver,      \* a driver, its device, and its struct irqaction
  Shirq,       \* the drivers that request the line with SA_SHIRQ
  Null         \* the end of the list of actions

ASSUME IrqAssumption ==
  /\ Driver # {} /\ IsFiniteSet(Driver) /\ Null \notin Driver
  /\ Shirq \subseteq Driver

VARIABLES
  status,      \* desc->status
  depth,       \* desc->depth
  action,      \* desc->action
  next,        \* action->next
  masked,      \* the pin is masked in the IO-APIC
  irr,         \* the CPUs to which an interrupt message is on its way
  first, cur,  \* on each CPU do_IRQ's action, and handle_IRQ_event's
  dpc,         \* where each driver is
  owed,        \* the devices that have raised an edge since their handler started
  disturbed    \* the line has been requested or disabled amid its handlers

desc == <<status, depth, action, next>>
vars == <<desc, masked, irr, first, cur, dpc, owed, disturbed>>

Flags   == {"INPROGRESS", "DISABLED", "PENDING", "REPLAY"}
Actions == Driver \cup {Null}

TypeOK ==
  /\ status \subseteq Flags
  /\ depth \in 0 .. Cardinality(Driver)
  /\ action \in Actions
  /\ next \in [Driver -> Actions]
  /\ masked \in BOOLEAN
  /\ irr \subseteq Cpu
  /\ first \in [Cpu -> Actions] /\ cur \in [Cpu -> Actions]
  /\ dpc \in [Driver -> {"out", "in", "disabling", "disabled", "freeing"}]
  /\ owed \subseteq Driver
  /\ disturbed \in BOOLEAN

\* The line is unused: depth is 1 only until it is first set up.
Init ==
  /\ status = {"DISABLED"} /\ depth = 1
  /\ action = Null
  /\ next = [d \in Driver |-> Null]
  /\ masked = TRUE
  /\ irr = {}
  /\ first = [c \in Cpu |-> Null] /\ cur = [c \in Cpu |-> Null]
  /\ dpc = [d \in Driver |-> "out"]
  /\ owed = {}
  /\ disturbed = FALSE

-----------------------------------------------------------------------------
(* The device and the interrupt controller. *)

\* The driver's action is in the list.
Listed(d) == dpc[d] \in {"in", "disabling", "disabled"}

\* An edge is delivered to one CPU, unless the pin is masked.
Edge(d, c) ==
  /\ Listed(d)
  /\ owed' = owed \cup {d}
  /\ irr' = IF masked THEN irr ELSE irr \cup {c}
  /\ UNCHANGED <<desc, masked, first, cur, dpc, disturbed>>

\* ack_edge_ioapic_irq masks a pin that is disabled and has its event recorded.
Acked == masked \/ {"PENDING", "DISABLED"} \subseteq status

-----------------------------------------------------------------------------
(* do_IRQ *)

\* handle_IRQ_event on c comes to action a, whose handler it calls if there is one.
CallHandler(c, a) ==
  /\ cur' = [cur EXCEPT ![c] = a]
  /\ owed' = owed \ {a}

do_IRQReenters(c) ==
  /\ c \in irr
  /\ irr' = irr \ {c}
  /\ masked' = Acked
  /\ IF "DISABLED" \notin status
     THEN /\ status' = (status \ {"REPLAY", "PENDING"}) \cup {"INPROGRESS"}
          /\ first' = [first EXCEPT ![c] = action]
          /\ CallHandler(c, action)
     ELSE /\ status' = (status \ {"REPLAY"}) \cup {"PENDING"}
          /\ UNCHANGED <<first, cur, owed>>
  /\ UNCHANGED <<depth, action, next, dpc, disturbed>>

\* Handle the interrupt, or only record it if the line is disabled or being
\* handled, be it on this CPU.
do_IRQ(c) ==
  /\ c \in irr
  /\ irr' = irr \ {c}
  /\ masked' = Acked
  /\ IF status \cap {"DISABLED", "INPROGRESS"} = {}
     THEN /\ status' = (status \ {"REPLAY", "PENDING"}) \cup {"INPROGRESS"}
          /\ first' = [first EXCEPT ![c] = action]
          /\ CallHandler(c, action)
     ELSE /\ status' = (status \ {"REPLAY"}) \cup {"PENDING"}
          /\ UNCHANGED <<first, cur, owed>>
  /\ UNCHANGED <<depth, action, next, dpc, disturbed>>

\* A handler returns, and handle_IRQ_event goes on to the next.
HandlerReturn(c) ==
  /\ cur[c] # Null
  /\ CallHandler(c, next[cur[c]])
  /\ UNCHANGED <<desc, masked, irr, first, dpc, disturbed>>

HandlersDoneOnce(c) ==
  /\ first[c] # Null /\ cur[c] = Null
  /\ status' = status \ {"PENDING", "INPROGRESS"}
  /\ first' = [first EXCEPT ![c] = Null]
  /\ UNCHANGED <<depth, action, next, masked, irr, cur, dpc, owed, disturbed>>

\* All handlers have been called: again if another interrupt was recorded.
HandlersDone(c) ==
  /\ first[c] # Null /\ cur[c] = Null
  /\ IF "PENDING" \in status
     THEN /\ status' = status \ {"PENDING"}
          /\ CallHandler(c, first[c])
          /\ UNCHANGED first
     ELSE /\ status' = status \ {"INPROGRESS"}
          /\ first' = [first EXCEPT ![c] = Null]
          /\ UNCHANGED <<cur, owed>>
  /\ UNCHANGED <<depth, action, next, masked, irr, dpc, disturbed>>

-----------------------------------------------------------------------------
(* The drivers. *)

Goto(d, from, to) == dpc[d] = from /\ dpc' = [dpc EXCEPT ![d] = to]

\* The last action of the list.
Last(d) == Listed(d) /\ next[d] = Null

\* Never so on one processor, where handlers run on top of the driver's code.
Disturb == disturbed' = (disturbed \/ "INPROGRESS" \in status)

setup_irqKeepsDepth(d) ==
  /\ Goto(d, "out", "in")
  /\ Disturb
  /\ action # Null => {action, d} \subseteq Shirq
  /\ IF action = Null
     THEN /\ action' = d /\ next' = [next EXCEPT ![d] = Null]
          /\ status' = status \ {"DISABLED"}
          /\ masked' = FALSE
     ELSE /\ \E l \in Driver : Last(l) /\ next' = [next EXCEPT ![l] = d, ![d] = Null]
          /\ UNCHANGED <<action, status, masked>>
  /\ UNCHANGED <<depth, irr, first, cur, owed>>

\* A request that fails, with EBUSY, changes nothing.
setup_irq(d) ==
  /\ Goto(d, "out", "in")
  /\ Disturb
  /\ action # Null => {action, d} \subseteq Shirq
  /\ IF action = Null
     THEN /\ action' = d /\ next' = [next EXCEPT ![d] = Null]
          /\ depth' = 0
          /\ status' = status \ {"DISABLED"}
          /\ masked' = FALSE
     ELSE /\ \E l \in Driver : Last(l) /\ next' = [next EXCEPT ![l] = d, ![d] = Null]
          /\ UNCHANGED <<action, depth, status, masked>>
  /\ UNCHANGED <<irr, first, cur, owed>>

disable_irq_nosync(d) ==
  /\ Goto(d, "in", "disabling")
  /\ Disturb
  /\ depth' = depth + 1
  /\ status' = IF depth = 0 THEN status \cup {"DISABLED"} ELSE status
  /\ UNCHANGED <<action, next, masked, irr, first, cur, owed>>

DisableNoWait(d) ==
  /\ Goto(d, "disabling", "disabled")
  /\ UNCHANGED <<desc, masked, irr, first, cur, owed, disturbed>>

\* The rest of disable_irq: the handler is not, or no longer, in progress.
DisableWait(d) ==
  /\ Goto(d, "disabling", "disabled")
  /\ "INPROGRESS" \notin status
  /\ UNCHANGED <<desc, masked, irr, first, cur, owed, disturbed>>

enable_irqNoReplay(d, c) ==
  /\ Goto(d, "disabled", "in")
  /\ depth' = depth - 1
  /\ IF depth = 1
     THEN status' = status \ {"DISABLED"} /\ masked' = FALSE
     ELSE UNCHANGED <<status, masked>>
  /\ UNCHANGED <<action, next, irr, first, cur, owed, disturbed>>

\* The last enable_irq replays, once, an interrupt recorded meanwhile, by an
\* interprocessor interrupt to the CPU it runs on.
enable_irq(d, c) ==
  /\ Goto(d, "disabled", "in")
  /\ depth' = depth - 1
  /\ IF depth = 1
     THEN LET replay == status \cap {"PENDING", "REPLAY"} = {"PENDING"}
          IN /\ status' = (status \ {"DISABLED"}) \cup IF replay THEN {"REPLAY"} ELSE {}
             /\ irr' = IF replay THEN irr \cup {c} ELSE irr
             /\ masked' = FALSE
     ELSE UNCHANGED <<status, irr, masked>>
  /\ UNCHANGED <<action, next, first, cur, owed, disturbed>>

\* Where the pointer to d is: desc->action, or the next of another action.
Unlink(d) ==
  /\ action' = IF action = d THEN next[d] ELSE action
  /\ next' = [e \in Driver |->
                IF e # d /\ next[e] = d /\ Listed(e)
                THEN next[d] ELSE next[e]]

free_irq(d) ==
  /\ Goto(d, "in", "freeing")
  /\ Unlink(d)
  /\ status' = IF action' = Null THEN status \cup {"DISABLED"} ELSE status
  /\ owed' = owed \ {d}
  /\ UNCHANGED <<depth, masked, irr, first, cur, disturbed>>

FreeNoWait(d) ==
  /\ Goto(d, "freeing", "out")
  /\ UNCHANGED <<desc, masked, irr, first, cur, owed, disturbed>>

\* The action is freed when no handler is in progress.
FreeWait(d) ==
  /\ Goto(d, "freeing", "out")
  /\ "INPROGRESS" \notin status
  /\ UNCHANGED <<desc, masked, irr, first, cur, owed, disturbed>>

-----------------------------------------------------------------------------
CpuStep(c) == do_IRQ(c) \/ HandlerReturn(c) \/ HandlersDone(c)

DriverStep(d) ==
  \/ DisableWait(d) \/ FreeWait(d) \/ \E c \in Cpu : enable_irq(d, c)

Next ==
  \/ \E c \in Cpu : CpuStep(c)
  \/ \E d \in Driver :
       \/ DriverStep(d) \/ setup_irq(d) \/ disable_irq_nosync(d) \/ free_irq(d)
       \/ \E c \in Cpu : Edge(d, c)

Spec == Init /\ [][Next]_vars

(***************************************************************************)
(* Fairness: messages arrive, handlers return.  Drivers may wait for ever  *)
(* for a line that is always in progress, and need not enable it again.    *)
(***************************************************************************)
FairSpec == Spec /\ \A c \in Cpu : WF_vars(do_IRQ(c)) /\ WF_vars(HandlerReturn(c) \/ HandlersDone(c))

-----------------------------------------------------------------------------
\* Handlers of the line run on one CPU at a time, and IRQ_INPROGRESS says so:
\* drivers rely on it for not locking against their own handler.
OneCpuAtATime ==
  /\ \A c, d \in Cpu : first[c] # Null /\ first[d] # Null => c = d
  /\ "INPROGRESS" \in status <=> \E c \in Cpu : first[c] # Null

\* "This function waits for any pending IRQ handlers for this interrupt to
\* complete before returning" (disable_irq): while a driver has the line
\* disabled, no handler of it runs.
DisabledIsQuiet ==
  (\E d \in Driver : dpc[d] = "disabled") =>
    /\ "DISABLED" \in status
    /\ \A c \in Cpu : first[c] = Null

\* The actions to be met from a on: those in every set that has a and the next
\* of each of its members.
Closed(S) == \A b \in S : next[b] \in S \cup {Null}
Reach(a) == {b \in Driver : \A S \in SUBSET Driver : a \in S \cup {Null} /\ Closed(S) => b \in S}

\* "The function does not return until any executing interrupts for this IRQ have
\* completed" (free_irq): no CPU can reach a freed action from where it is in
\* the list, nor can the descriptor.
FreedIsUnused ==
  \A d \in Driver : dpc[d] = "out" =>
    d \notin Reach(action) \cup UNION {Reach(first[c]) \cup Reach(cur[c]) : c \in Cpu}

\* "If another processor is handling a different instance of this same irq, the
\* other processor will take care of it" (do_IRQ): no edge is lost.  The handler
\* of a device that has raised one will be called, because a message is on its
\* way, the event is recorded in IRQ_PENDING, or a CPU has it still before it.
\* So long as drivers leave the line alone while its handlers run: do_IRQ goes on
\* with the list of actions it has read first.
Coming(d) ==
  \/ irr # {} \/ "PENDING" \in status
  \/ \E c \in Cpu : cur[c] # Null /\ d \in Reach(next[cur[c]])
EdgeIsRemembered == ~disturbed => \A d \in owed : Coming(d)

\* "Once we have recorded IRQ_PENDING already, we can mask the interrupt for
\* real" (ack_edge_ioapic_irq): while the pin of a line in use is masked, the
\* event that enable_irq is to replay is recorded.
MaskedIsRecorded == masked /\ action # Null => "PENDING" \in status

\* A handler whose device has raised an edge is called, unless the line is
\* disabled again and again, or has been disturbed.
EdgeIsServed ==
  \A d \in Driver : <>[](d \in owed /\ ~disturbed) => []<>(depth > 0)
=============================================================================
