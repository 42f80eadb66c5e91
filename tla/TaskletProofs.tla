---------------------------- MODULE TaskletProofs ----------------------------
(***************************************************************************)
(* Proofs about Tasklets, for any CPUs, tasklets and bottom halves: a      *)
(* tasklet is serialized with itself and bottom halves with one another    *)
(* (Serialized), a raised softirq is never forgotten (SoftirqWillRun), a   *)
(* scheduled tasklet is in exactly one place (ScheduledOnce), and one that *)
(* is disabled or killed does not run (DisabledOrKilled).                  *)
(*                                                                         *)
(* IInv says who may have a RUN bit and global_bh_lock, that a tasklet's   *)
(* count is the number of those who have disabled it, and that nobody who  *)
(* has seen that count at 0 is still at work once one of them has waited.  *)
(* OInv adds that a SCHED bit stands for one place, and that whoever kills *)
(* a tasklet ends up with that place: then nobody else can run it or       *)
(* schedule it again.                                                      *)
(***************************************************************************)
EXTENDS Tasklets, FiniteSetTheorems, TLAPS

\* Where tasklet_action has the RUN bit of its tasklet.
Holding == {"count", "clear", "func", "bh", "bhmark", "enqueue", "return"}

\* The RUN bit is set while somebody holds it, and somebody alone.
RunOwned ==
  \A c \in Cpu : soft[c].at \in Holding =>
    /\ soft[c].t \in run
    /\ \A d \in Cpu : soft[d].at \in Holding /\ soft[d].t = soft[c].t => d = c

BhOwned == \A c \in Cpu : soft[c].at = "bh" => global_bh_lock = c

Disablers(t) == {c \in Cpu : proc[c].at \in {"wait", "disabled"} /\ proc[c].t = t}
Counted == \A t \in Tasklet : count[t] = Cardinality(Disablers(t))

\* Whoever has seen the count of a disabled tasklet at 0 has finished with it.
Settled ==
  \A c, d \in Cpu : proc[c].at = "disabled" /\ soft[d].t = proc[c].t =>
    soft[d].at \notin Holding \ {"count"}

IInv == TypeOK /\ RunOwned /\ BhOwned /\ SoftirqWillRun /\ Counted /\ Settled

-----------------------------------------------------------------------------
(* Types *)


\* The parts of TypeOK.
BitsOK == sched \subseteq Tasklet /\ run \subseteq Tasklet /\ count \in [Tasklet -> Nat]
ListsOK == vec \in [Cpu -> [Nr -> Seq(Tasklet)]] /\ pending \in [Cpu -> SUBSET Nr]
IrqOK ==
  /\ irq \in [Cpu -> [at : {"none", "enqueue", "exit"}, t : Tasklets0]]
  /\ \A c \in Cpu : irq[c].at = "enqueue" => irq[c].t \in Tasklet
SoftRec == [at : SoftAt, todo : SUBSET Nr, mask : SUBSET Nr, nr : Nat, list : Seq(Tasklet),
            t : Tasklets0]
Fits(r) ==
  /\ r \in SoftRec
  /\ r.at \notin {"none", "loop"} => r.nr \in Nr
  /\ r.at \notin {"none", "loop", "tasklets"} => r.t \in Tasklet
SoftOK == soft \in [Cpu -> SoftRec] /\ \A c \in Cpu : Fits(soft[c])
DaemonOK ==
  /\ kpc \in [Cpu -> {"test", "schedule", "asleep", "while"}]
  /\ kstate \in [Cpu -> {"RUNNING", "INTERRUPTIBLE"}]
ProcOK ==
  /\ proc \in [Cpu -> [at : ProcAt, t : Tasklets0]]
  /\ \A c \in Cpu : proc[c].at # "idle" => proc[c].t \in Tasklet
LockOK == global_bh_lock \in Cpu \cup {NoCpu}

\* TypeOK is its parts, before a step and after it.
LEMMA TypeParts ==
  TypeOK <=> BitsOK /\ ListsOK /\ IrqOK /\ SoftOK /\ DaemonOK /\ ProcOK /\ LockOK
  BY Zenon DEF TypeOK, BitsOK, ListsOK, IrqOK, SoftOK, SoftRec, Fits, DaemonOK, ProcOK, LockOK

\* The parts of TypeOK, after a step.
LEMMA TypePartsPrime ==
  BitsOK' /\ ListsOK' /\ IrqOK' /\ SoftOK' /\ DaemonOK' /\ ProcOK' /\ LockOK' => TypeOK'
  BY Zenon DEF TypeOK, BitsOK, ListsOK, IrqOK, SoftOK, SoftRec, Fits, DaemonOK, ProcOK, LockOK

\* What an assignment to the state of do_softirq on c does.
LEMMA SoftUpdate ==
  ASSUME SoftOK, NEW c \in Cpu, NEW r, Fits(r), soft' = [soft EXCEPT ![c] = r]
  PROVE  SoftOK' /\ soft'[c] = r /\ \A d \in Cpu \ {c} : soft'[d] = soft[d]
<1>1. r \in SoftRec /\ soft \in [Cpu -> SoftRec] /\ \A d \in Cpu : Fits(soft[d])
  BY DEF SoftOK, Fits
<1>2. soft' \in [Cpu -> SoftRec] /\ soft'[c] = r /\ \A d \in Cpu \ {c} : soft'[d] = soft[d]
  BY <1>1
<1>3. \A d \in Cpu : Fits(soft'[d])
  BY <1>1, <1>2
<1> QED BY <1>2, <1>3 DEF SoftOK, Fits

\* Putting a tasklet on a list keeps the types of the lists.
LEMMA ListType ==
  ASSUME ListsOK, NEW c \in Cpu, NEW n \in Nr, NEW t \in Tasklet,
         vec' = [vec EXCEPT ![c][n] = <<t>> \o @],
         pending' = [pending EXCEPT ![c] = @ \cup {n}]
  PROVE  ListsOK'
<1> DEFINE s == <<t>> \o vec[c][n]
<1>1. vec[c][n] \in Seq(Tasklet)
  BY DEF ListsOK
<1>2. s \in Seq(Tasklet)
  BY <1>1
<1>3. vec' = [vec EXCEPT ![c][n] = s]
  OBVIOUS
<1> HIDE DEF s
<1>4. vec' \in [Cpu -> [Nr -> Seq(Tasklet)]]
  BY <1>2, <1>3 DEF ListsOK
<1> QED BY <1>4 DEF ListsOK

\* __tasklet_schedule keeps the types of the lists.
LEMMA EnlistType ==
  ASSUME ListsOK, NEW c \in Cpu, NEW t \in Tasklet, Enlist(c, t)
  PROVE  ListsOK'
  BY TaskletAssumption, ListType, Zenon DEF Enlist

\* Waking ksoftirqd keeps its types.
LEMMA WakeType ==
  ASSUME DaemonOK, NEW c \in Cpu, wakeup_softirqd(c)
  PROVE  DaemonOK'
  BY DEF DaemonOK, wakeup_softirqd

\* do_softirq takes the pending softirqs.
LEMMA EnterType ==
  ASSUME SoftOK, ListsOK, NEW c \in Cpu, do_softirq(c), UNCHANGED vec
  PROVE  /\ SoftOK' /\ ListsOK' /\ soft'[c].at = "loop"
         /\ \A d \in Cpu \ {c} : soft'[d] = soft[d]
<1> DEFINE r == [NoSoft EXCEPT !.at = "loop", !.todo = pending[c], !.mask = Nr \ pending[c]]
<1>1. soft' = [soft EXCEPT ![c] = r] /\ pending' = [pending EXCEPT ![c] = {}]
  BY DEF do_softirq
<1>0. NoSoft \in SoftRec /\ pending[c] \in SUBSET Nr /\ "loop" \in SoftAt
  BY DEF SoftRec, SoftAt, NoSoft, Tasklets0, ListsOK
<1>a. r \in SoftRec /\ r.at = "loop"
  BY <1>0, Zenon DEF SoftRec
<1>2. Fits(r) /\ r.at = "loop"
  BY <1>a DEF Fits
<1>3. ListsOK'
  BY <1>1 DEF ListsOK
<1> HIDE DEF r
<1> QED
  BY <1>1, <1>2, <1>3, SoftUpdate, Zenon

\* A step that only moves on, with the same tasklet.
LEMMA MoveType ==
  ASSUME SoftOK, NEW c \in Cpu, NEW a \in SoftAt, soft' = [soft EXCEPT ![c].at = a],
         a \in {"none", "loop"} \/ soft[c].at \notin {"none", "loop"},
         a \in {"none", "loop", "tasklets"} \/ soft[c].at \notin {"none", "loop", "tasklets"}
  PROVE  /\ SoftOK' /\ \A d \in Cpu \ {c} : soft'[d] = soft[d]
         /\ soft'[c].at = a /\ soft'[c].t = soft[c].t
<1> DEFINE r == [soft[c] EXCEPT !.at = a]
<1>1. soft[c] \in SoftRec /\ Fits(soft[c])
  BY DEF SoftOK
<1>2. soft' = [soft EXCEPT ![c] = r]
  BY DEF SoftOK
<1>3. Fits(r) /\ r.at = a /\ r.t = soft[c].t
  BY <1>1 DEF Fits, SoftRec
<1> HIDE DEF r
<1> QED BY <1>2, <1>3, SoftUpdate, Zenon

\* tasklet_action is done with a tasklet.
LEMMA DoneType ==
  ASSUME SoftOK, NEW c \in Cpu, soft[c].at \notin {"none", "loop"},
         soft' = [soft EXCEPT ![c].at = "tasklets", ![c].t = NoTasklet]
  PROVE  /\ SoftOK' /\ \A d \in Cpu \ {c} : soft'[d] = soft[d]
         /\ soft'[c].at = "tasklets"
<1> DEFINE r == [soft[c] EXCEPT !.at = "tasklets", !.t = NoTasklet]
<1>1. soft[c] \in SoftRec /\ Fits(soft[c])
  BY DEF SoftOK
<1>2. soft' = [soft EXCEPT ![c] = r]
  BY Zenon DEF SoftOK
<1>3. Fits(r) /\ r.at = "tasklets"
  BY <1>1, Zenon DEF Fits, SoftRec, SoftAt, Tasklets0
<1> HIDE DEF r
<1> QED BY <1>2, <1>3, SoftUpdate, Zenon
-----------------------------------------------------------------------------
(* What a step of do_softirq on c does to the RUN bits and global_bh_lock. *)

Takes(c) ==
  /\ soft[c].at \notin Holding /\ soft'[c].at = "count"
  /\ soft'[c].t \notin run /\ run' = run \cup {soft'[c].t}
  /\ UNCHANGED global_bh_lock
Keeps(c) ==
  /\ soft[c].at \in Holding /\ soft'[c].at \in Holding /\ soft'[c].t = soft[c].t
  /\ UNCHANGED run
  /\ soft[c].at = "count" => count[soft[c].t] = 0
  /\ \/ UNCHANGED global_bh_lock /\ soft'[c].at # "bh"
     \/ global_bh_lock = NoCpu /\ global_bh_lock' = c
Gives(c) ==
  /\ soft[c].at \in Holding /\ soft'[c].at \notin Holding
  /\ run' = run \ {soft[c].t}
  /\ UNCHANGED global_bh_lock \/ soft[c].at = "bh"
Passes(c) == UNCHANGED <<run, global_bh_lock>> /\ soft'[c].at \notin Holding

Effect(c) ==
  /\ \A d \in Cpu \ {c} : soft'[d] = soft[d]
  /\ Takes(c) \/ Keeps(c) \/ Gives(c) \/ Passes(c)

\* Whatever the step, a RUN bit keeps its one holder, and global_bh_lock its owner.
LEMMA EffectSafe ==
  ASSUME RunOwned, BhOwned, NEW c \in Cpu, Effect(c)
  PROVE  RunOwned' /\ BhOwned'
<1> USE TaskletAssumption
<1>1. \A d \in Cpu \ {c} : soft'[d] = soft[d]
  BY DEF Effect
<1>2. CASE Takes(c)
  BY <1>1, <1>2 DEF Takes, RunOwned, BhOwned, Holding
<1>3. CASE Keeps(c)
  <2>1. RunOwned'
    BY <1>1, <1>3 DEF Keeps, RunOwned
  <2>2. BhOwned'
    BY <1>1, <1>3 DEF Keeps, BhOwned
  <2> QED BY <2>1, <2>2
<1>4. CASE Gives(c)
  <2>1. RunOwned'
    BY <1>1, <1>4 DEF Gives, RunOwned
  <2>2. BhOwned'
    BY <1>1, <1>4 DEF Gives, BhOwned, Holding
  <2> QED BY <2>1, <2>2
<1>5. CASE Passes(c)
  BY <1>1, <1>5 DEF Passes, RunOwned, BhOwned, Holding
<1> QED BY <1>2, <1>3, <1>4, <1>5 DEF Effect

\* The steps of do_softirq and tasklet_action.
LEMMA SoftStepEffect ==
  ASSUME BitsOK, ListsOK, SoftOK, DaemonOK, LockOK, NEW c \in Cpu, SoftStep(c)
  PROVE  BitsOK' /\ ListsOK' /\ SoftOK' /\ DaemonOK' /\ LockOK' /\ Effect(c)
<1>s. soft[c] \in SoftRec /\ Fits(soft[c])
  BY DEF SoftOK
<1>1. CASE ActionBegin(c)
  <2> DEFINE Begun(n) == [soft[c] EXCEPT !.at = "tasklets", !.todo = @ \ {n},
                                         !.nr = n, !.list = vec[c][n]]
  <2>1. PICK n \in soft[c].todo : /\ vec' = [vec EXCEPT ![c][n] = << >>]
                                  /\ soft' = [soft EXCEPT ![c].at = "tasklets", ![c].todo = @ \ {n},
                                                          ![c].nr = n, ![c].list = vec[c][n]]
    BY <1>1, Zenon DEF ActionBegin
  <2>2. n \in Nr /\ n \in Nat /\ vec[c][n] \in Seq(Tasklet)
    BY <1>s, TaskletAssumption, Zenon DEF SoftRec, ListsOK
  <2>3. soft' = [soft EXCEPT ![c] = Begun(n)]
    BY <2>1, Zenon DEF SoftOK
  <2>4. Fits(Begun(n)) /\ Begun(n).at = "tasklets"
    BY <1>s, <2>2, Zenon DEF Fits, SoftRec, SoftAt
  <2> HIDE DEF Begun
  <2>5. /\ SoftOK' /\ \A d \in Cpu \ {c} : soft'[d] = soft[d]
        /\ soft'[c].at = "tasklets"
    BY <2>3, <2>4, SoftUpdate, Zenon
  <2>6. ListsOK'
    <3>1. << >> \in Seq(Tasklet) /\ vec \in [Cpu -> [Nr -> Seq(Tasklet)]]
      BY DEF ListsOK
    <3>2. vec' \in [Cpu -> [Nr -> Seq(Tasklet)]]
      BY <2>1, <2>2, <3>1
    <3> QED BY <1>1, <3>2 DEF ActionBegin, ListsOK
  <2> QED BY <1>1, <2>5, <2>6, Zenon DEF ActionBegin, bits, BitsOK, DaemonOK, LockOK, Effect, Passes, Holding
<1>2. CASE LoopEnd(c)
  <2>1. CASE pending[c] \cap soft[c].mask # {}
    <3> DEFINE r == [soft[c] EXCEPT !.mask = @ \ pending[c], !.todo = pending[c]]
    <3>1. soft' = [soft EXCEPT ![c] = r]
      BY <1>2, <2>1, Zenon DEF LoopEnd, SoftOK
    <3>2. Fits(r) /\ r.at = "loop"
      BY <1>2, <1>s, Zenon DEF LoopEnd, Fits, SoftRec, ListsOK
    <3> HIDE DEF r
    <3>3. SoftOK' /\ soft'[c].at = "loop" /\ \A d \in Cpu \ {c} : soft'[d] = soft[d]
      BY <3>1, <3>2, SoftUpdate, Zenon
    <3>4. ListsOK' /\ UNCHANGED <<bits, kpc, kstate, global_bh_lock>>
      BY <1>2, <2>1, Zenon DEF LoopEnd, ListsOK
    <3> QED BY <3>3, <3>4 DEF bits, BitsOK, DaemonOK, LockOK, Effect, Passes, Holding
  <2>2. CASE ~(pending[c] \cap soft[c].mask # {})
    <3>1. soft' = [soft EXCEPT ![c] = NoSoft] /\ UNCHANGED <<bits, vec, pending, global_bh_lock>>
      BY <1>2, <2>2 DEF LoopEnd
    <3>2. Fits(NoSoft) /\ NoSoft.at = "none"
      BY DEF Fits, SoftRec, NoSoft, SoftAt, Tasklets0
    <3>3. SoftOK' /\ soft'[c].at = "none" /\ \A d \in Cpu \ {c} : soft'[d] = soft[d]
      BY <3>1, <3>2, SoftUpdate, Zenon
    <3>4. DaemonOK'
      BY <1>2, <2>2, WakeType DEF LoopEnd, DaemonOK
    <3> QED BY <3>1, <3>3, <3>4 DEF bits, BitsOK, ListsOK, LockOK, Effect, Passes, Holding
  <2> QED BY <2>1, <2>2
<1>3. CASE TryLock(c)
  <2> DEFINE t == Head(soft[c].list)
  <2> DEFINE a == IF t \in run THEN "requeue" ELSE "count"
  <2> DEFINE r == [soft[c] EXCEPT !.t = t, !.list = Tail(@), !.at = a]
  <2>1. soft[c].list \in Seq(Tasklet) /\ soft[c].list # << >>
    BY <1>3, <1>s DEF TryLock, SoftRec
  <2>2. t \in Tasklet /\ Tail(soft[c].list) \in Seq(Tasklet)
    BY <2>1
  <2>3. soft' = [soft EXCEPT ![c] = r]
    BY <1>3, Zenon DEF TryLock, SoftOK
  <2>4. Fits(r) /\ r.at = a /\ r.t = t
    BY <1>3, <1>s, <2>2, Zenon DEF TryLock, Fits, SoftRec, SoftAt, Tasklets0
  <2> HIDE DEF r
  <2>5. SoftOK' /\ soft'[c].at = a /\ soft'[c].t = t /\ \A d \in Cpu \ {c} : soft'[d] = soft[d]
    BY <2>3, <2>4, SoftUpdate, Zenon
  <2>6. soft[c].at = "tasklets" /\ run' = run \cup {t}
    BY <1>3 DEF TryLock
  <2>7. Effect(c)
    <3>1. CASE t \in run
      <4>1. run' = run /\ soft'[c].at = "requeue"
        BY <2>5, <2>6, <3>1
      <4> QED BY <1>3, <2>5, <4>1, Zenon DEF TryLock, Effect, Passes, Holding
    <3>2. CASE t \notin run
      <4>1. soft'[c].at = "count" /\ soft'[c].t = t
        BY <2>5, <3>2
      <4> QED BY <1>3, <2>5, <2>6, <3>2, <4>1, Zenon DEF TryLock, Effect, Takes, Holding
    <3> QED BY <3>1, <3>2
  <2> QED BY <1>3, <2>2, <2>5, <2>6, <2>7 DEF TryLock, BitsOK, ListsOK, DaemonOK, LockOK
<1>4. CASE ReadCount(c)
  <2>1. soft[c].at = "count" /\ soft[c].t \in Tasklet
    BY <1>4, <1>s DEF ReadCount, Fits
  <2>2. CASE count[soft[c].t] = 0
    <3>1. soft' = [soft EXCEPT ![c].at = "clear"] /\ run' = run
      BY <1>4, <2>2 DEF ReadCount
    <3>2. /\ SoftOK' /\ \A d \in Cpu \ {c} : soft'[d] = soft[d]
          /\ soft'[c].at = "clear" /\ soft'[c].t = soft[c].t
      BY <2>1, <3>1, MoveType, Zenon DEF SoftAt
    <3> QED BY <1>4, <2>1, <2>2, <3>1, <3>2
            DEF ReadCount, BitsOK, ListsOK, DaemonOK, LockOK, Effect, Keeps, Holding
  <2>3. CASE count[soft[c].t] # 0
    <3>1. soft' = [soft EXCEPT ![c].at = "requeue"] /\ run' = run \ {soft[c].t}
      BY <1>4, <2>3 DEF ReadCount
    <3>2. /\ SoftOK' /\ \A d \in Cpu \ {c} : soft'[d] = soft[d]
          /\ soft'[c].at = "requeue" /\ soft'[c].t = soft[c].t
      BY <2>1, <3>1, MoveType, Zenon DEF SoftAt
    <3> QED BY <1>4, <2>1, <3>1, <3>2
            DEF ReadCount, BitsOK, ListsOK, DaemonOK, LockOK, Effect, Gives, Holding
  <2> QED BY <2>2, <2>3
<1>5. CASE ClearSched(c)
  <2>1. /\ SoftOK' /\ \A d \in Cpu \ {c} : soft'[d] = soft[d]
        /\ soft'[c].at = "func" /\ soft'[c].t = soft[c].t
    BY <1>5, MoveType, Zenon DEF ClearSched, SoftAt
  <2> QED BY <1>5, <2>1 DEF ClearSched, BitsOK, ListsOK, DaemonOK, LockOK, Effect, Keeps, Holding
<1>6. CASE FuncSchedule(c)
  <2>1. /\ SoftOK' /\ \A d \in Cpu \ {c} : soft'[d] = soft[d]
        /\ soft'[c].at = "enqueue" /\ soft'[c].t = soft[c].t
    BY <1>6, MoveType, Zenon DEF FuncSchedule, SoftAt
  <2>2. soft[c].t \in Tasklet
    BY <1>6, <1>s DEF FuncSchedule, Fits
  <2> QED BY <1>6, <2>1, <2>2 DEF FuncSchedule, BitsOK, ListsOK, DaemonOK, LockOK, Effect, Keeps, Holding
<1>7. CASE BhAction(c)
  <2>1. PICK a \in {"bh", "bhmark"} :
          soft' = [soft EXCEPT ![c].at = a] /\ (IF a = "bh" THEN global_bh_lock = NoCpu /\ global_bh_lock' = c
                                                ELSE UNCHANGED global_bh_lock)
    BY <1>7 DEF BhAction
  <2>2. /\ SoftOK' /\ \A d \in Cpu \ {c} : soft'[d] = soft[d]
        /\ soft'[c].at = a /\ soft'[c].t = soft[c].t
    BY <1>7, <2>1, MoveType, Zenon DEF BhAction, SoftAt
  <2>3. Effect(c)
    BY <1>7, <2>1, <2>2 DEF BhAction, bits, Effect, Keeps, Holding
  <2> QED BY <1>7, <2>1, <2>2, <2>3 DEF BhAction, bits, BitsOK, ListsOK, DaemonOK, LockOK
<1>8. CASE FuncEnqueue(c)
  <2>1. /\ SoftOK' /\ \A d \in Cpu \ {c} : soft'[d] = soft[d]
        /\ soft'[c].at = "return" /\ soft'[c].t = soft[c].t
    BY <1>8, MoveType, Zenon DEF FuncEnqueue, SoftAt
  <2>2. ListsOK'
    BY <1>8, <1>s, EnlistType DEF FuncEnqueue, Fits
  <2> QED BY <1>8, <2>1, <2>2 DEF FuncEnqueue, bits, BitsOK, DaemonOK, LockOK, Effect, Keeps, Holding
<1>9. CASE FuncReturn(c)
  <2>1. /\ soft[c].at \in Holding /\ run' = run \ {soft[c].t}
        /\ soft' = [soft EXCEPT ![c].at = "tasklets", ![c].t = NoTasklet]
        /\ UNCHANGED global_bh_lock \/ (soft[c].at = "bh" /\ global_bh_lock' = NoCpu)
    BY <1>9 DEF FuncReturn, Holding
  <2>2. SoftOK' /\ soft'[c].at = "tasklets" /\ \A d \in Cpu \ {c} : soft'[d] = soft[d]
    BY <2>1, DoneType, Zenon DEF Holding
  <2>3. Effect(c)
    BY <2>1, <2>2, Zenon DEF Effect, Gives, Holding
  <2> QED BY <1>9, <2>1, <2>2, <2>3 DEF FuncReturn, BitsOK, ListsOK, DaemonOK, LockOK
<1>10. CASE Requeue(c)
  <2>1. SoftOK' /\ soft'[c].at = "tasklets" /\ \A d \in Cpu \ {c} : soft'[d] = soft[d]
    BY <1>10, DoneType, Zenon DEF Requeue
  <2>2. ListsOK'
    BY <1>10, <1>s, ListType, Zenon DEF Requeue, Fits
  <2> QED BY <1>10, <2>1, <2>2, Zenon DEF Requeue, bits, BitsOK, DaemonOK, LockOK, Effect, Passes, Holding
<1>11. CASE ActionEnd(c)
  <2>1. SoftOK' /\ soft'[c].at = "loop" /\ \A d \in Cpu \ {c} : soft'[d] = soft[d]
    BY <1>11, MoveType, Zenon DEF ActionEnd, SoftAt
  <2> QED BY <1>11, <2>1 DEF ActionEnd, bits, BitsOK, ListsOK, DaemonOK, LockOK, Effect, Passes, Holding
<1> QED
  BY <1>1, <1>2, <1>3, <1>4, <1>5, <1>6, <1>7, <1>8, <1>9, <1>10, <1>11 DEF SoftStep
-----------------------------------------------------------------------------
(* A raised softirq. *)

\* What the other contexts of c, and do_softirq, do to the state of c.
Local(c) ==
  \A d \in Cpu \ {c} :
    /\ pending'[d] = pending[d] /\ soft'[d] = soft[d] /\ irq'[d] = irq[d]
    /\ kpc'[d] = kpc[d] /\ kstate'[d] = kstate[d]
WillRun(c) ==
  pending[c] # {} =>
    \/ soft[c].at # "none" \/ irq[c].at # "none"
    \/ kpc[c] \in {"test", "while"} \/ kstate[c] = "RUNNING"

\* Only what c does can make c forget.
LEMMA LocalWillRun ==
  ASSUME SoftirqWillRun, NEW c \in Cpu, Local(c), WillRun(c)'
  PROVE  SoftirqWillRun'
  BY DEF SoftirqWillRun, WillRun, Local

\* do_softirq leaves nothing raised behind but to ksoftirqd.
LEMMA SoftWillRun ==
  ASSUME TypeOK, SoftirqWillRun, NEW c \in Cpu, SoftStep(c)
  PROVE  SoftirqWillRun'
<1>t. BitsOK /\ ListsOK /\ SoftOK /\ DaemonOK /\ LockOK
  BY TypeParts
<1>1. Effect(c)
  BY <1>t, SoftStepEffect
<1>2. Local(c)
  <2>1. irq' = irq /\ \A d \in Cpu \ {c} : soft'[d] = soft[d]
    BY <1>1, Zenon DEF Effect, SoftStep, ActionBegin, LoopEnd, TryLock, ReadCount, ClearSched, FuncSchedule,
       BhAction, FuncEnqueue, FuncReturn, Requeue, ActionEnd
  <2>2. pending' = pending \/ \E x : pending' = [pending EXCEPT ![c] = x]
    BY Zenon DEF SoftStep, ActionBegin, LoopEnd, TryLock, ReadCount, ClearSched, FuncSchedule,
       BhAction, FuncEnqueue, FuncReturn, Requeue, ActionEnd, Enlist
  <2>3. UNCHANGED <<kpc, kstate>> \/ wakeup_softirqd(c)
    BY Zenon DEF SoftStep, ActionBegin, LoopEnd, TryLock, ReadCount, ClearSched, FuncSchedule,
       BhAction, FuncEnqueue, FuncReturn, Requeue, ActionEnd
  <2>4. \A d \in Cpu \ {c} : pending'[d] = pending[d]
    BY <1>t, <2>2 DEF ListsOK
  <2>5. \A d \in Cpu \ {c} : kpc'[d] = kpc[d] /\ kstate'[d] = kstate[d]
    BY <1>t, <2>3 DEF DaemonOK, wakeup_softirqd
  <2> QED BY <2>1, <2>4, <2>5 DEF Local
<1>3. WillRun(c)'
  <2>1. CASE LoopEnd(c)
    <3>1. CASE pending[c] \cap soft[c].mask # {}
      <4>1. pending' = [pending EXCEPT ![c] = {}]
        BY <2>1, <3>1 DEF LoopEnd
      <4> QED BY <1>t, <4>1 DEF WillRun, ListsOK
    <3>2. CASE ~(pending[c] \cap soft[c].mask # {})
      <4>1. pending' = pending /\ (pending[c] # {} => wakeup_softirqd(c))
        BY <2>1, <3>2 DEF LoopEnd
      <4>2. pending[c] # {} => kstate'[c] = "RUNNING"
        BY <1>t, <4>1 DEF wakeup_softirqd, DaemonOK
      <4> QED BY <4>1, <4>2 DEF WillRun
    <3> QED BY <3>1, <3>2
  <2>2. CASE ~LoopEnd(c)
    <3>1. soft'[c].at # "none"
      <4>1. CASE ActionBegin(c)
        <5>1. PICK n : soft' = [soft EXCEPT ![c].at = "tasklets", ![c].todo = @ \ {n},
                                            ![c].nr = n, ![c].list = vec[c][n]]
          BY <4>1, Zenon DEF ActionBegin
        <5> QED BY <1>t, <5>1 DEF SoftOK, SoftRec
      <4>2. CASE TryLock(c)
        BY <1>t, <4>2 DEF TryLock, SoftOK, SoftRec
      <4>3. CASE \E a \in SoftAt \ {"none"} : soft' = [soft EXCEPT ![c].at = a]
        BY <1>t, <4>3 DEF SoftOK, SoftRec
      <4>4. CASE FuncReturn(c) \/ Requeue(c)
        BY <1>t, <4>4 DEF FuncReturn, Requeue, SoftOK, SoftRec
      <4>5. ReadCount(c) \/ ClearSched(c) \/ FuncSchedule(c) \/ BhAction(c) \/ FuncEnqueue(c) \/ ActionEnd(c)
            => \E a \in SoftAt \ {"none"} : soft' = [soft EXCEPT ![c].at = a]
        BY Zenon DEF ReadCount, ClearSched, FuncSchedule, BhAction, FuncEnqueue, ActionEnd, SoftAt
      <4> QED BY <2>2, <4>1, <4>2, <4>3, <4>4, <4>5 DEF SoftStep
    <3> QED BY <3>1 DEF WillRun
  <2> QED BY <2>1, <2>2
<1> QED
  BY <1>2, <1>3, LocalWillRun
-----------------------------------------------------------------------------
(* ksoftirqd and interrupt handlers. *)

\* The loop of ksoftirqd.
LEMMA KStepInv ==
  ASSUME TypeOK, SoftirqWillRun, NEW c \in Cpu, KStep(c)
  PROVE  /\ TypeOK' /\ SoftirqWillRun'
         /\ UNCHANGED <<bits, proc, global_bh_lock>>
         /\ UNCHANGED soft \/ Effect(c)
<1>t. BitsOK /\ ListsOK /\ IrqOK /\ SoftOK /\ DaemonOK /\ ProcOK /\ LockOK
  BY TypeParts
<1>u. UNCHANGED <<bits, proc, global_bh_lock, irq>>
  BY Zenon DEF KStep, KTest, KSchedule, KLoop
<1>v. BitsOK' /\ IrqOK' /\ ProcOK' /\ LockOK'
  BY <1>t, <1>u DEF bits, BitsOK, IrqOK, ProcOK, LockOK
<1>1. CASE KLoop(c) /\ do_softirq(c)
  <2>1. vec' = vec /\ kpc' = kpc /\ kstate' = kstate
    BY <1>1 DEF KLoop, do_softirq
  <2>2. /\ SoftOK' /\ ListsOK' /\ soft'[c].at = "loop"
        /\ \A d \in Cpu \ {c} : soft'[d] = soft[d]
    BY <1>t, <1>1, <2>1, EnterType
  <2>3. Effect(c)
    BY <1>u, <2>2 DEF bits, Effect, Passes, Holding
  <2>4. Local(c) /\ WillRun(c)'
    BY <1>1, <1>t, <1>u, <2>1, <2>2 DEF do_softirq, Local, WillRun, ListsOK
  <2>5. DaemonOK'
    BY <1>t, <2>1 DEF DaemonOK
  <2> QED BY <1>u, <1>v, <2>2, <2>3, <2>4, <2>5, LocalWillRun, TypePartsPrime
<1>2. CASE KTest(c) \/ KSchedule(c) \/ (KLoop(c) /\ ~do_softirq(c))
  <2>1. UNCHANGED <<vec, pending, soft>>
    BY <1>2, Zenon DEF KTest, KSchedule, KLoop
  <2>2. DaemonOK'
    BY <1>t, <1>2 DEF KTest, KSchedule, KLoop, DaemonOK
  <2>3. \A d \in Cpu \ {c} : kpc'[d] = kpc[d] /\ kstate'[d] = kstate[d]
    BY <1>t, <1>2 DEF KTest, KSchedule, KLoop, DaemonOK
  <2>4. WillRun(c)'
    BY <1>t, <1>2, <2>1 DEF KTest, KSchedule, KLoop, DaemonOK, BaseRuns, SoftirqWillRun, WillRun
  <2>5. SoftOK' /\ ListsOK'
    BY <1>t, <2>1 DEF SoftOK, ListsOK, Fits
  <2>6. Local(c)
    BY <1>u, <2>1, <2>3 DEF Local
  <2> QED BY <1>u, <1>v, <2>1, <2>2, <2>4, <2>5, <2>6, LocalWillRun, TypePartsPrime
<1> QED
  BY <1>1, <1>2 DEF KStep

\* An interrupt handler, which calls do_softirq when it is done.
LEMMA IrqInv ==
  ASSUME TypeOK, SoftirqWillRun, NEW c \in Cpu,
         IrqStep(c) \/ \E t \in Tasklet : IrqSchedule(c, t)
  PROVE  /\ TypeOK' /\ SoftirqWillRun'
         /\ UNCHANGED <<run, count, proc, global_bh_lock>>
         /\ UNCHANGED soft \/ Effect(c)
<1>t. BitsOK /\ ListsOK /\ IrqOK /\ SoftOK /\ DaemonOK /\ ProcOK /\ LockOK
  BY TypeParts
<1>u. UNCHANGED <<run, count, proc, global_bh_lock, kpc, kstate>>
  BY Zenon DEF IrqStep, IrqSchedule, IrqEnqueue, IrqExit, bits
<1>v. DaemonOK' /\ ProcOK' /\ LockOK'
  BY <1>t, <1>u DEF DaemonOK, ProcOK, LockOK
<1>1. ASSUME NEW t \in Tasklet, IrqSchedule(c, t)
      PROVE  TypeOK' /\ SoftirqWillRun' /\ UNCHANGED soft
  <2>1. UNCHANGED <<vec, pending, soft>> /\ sched' = sched \cup {t}
    BY <1>1 DEF IrqSchedule
  <2>2. \E r \in {[at |-> "exit", t |-> NoTasklet], [at |-> "enqueue", t |-> t]} :
          irq' = [irq EXCEPT ![c] = r]
    BY <1>1, Zenon DEF IrqSchedule
  <2>3. IrqOK' /\ irq'[c].at # "none" /\ \A d \in Cpu \ {c} : irq'[d] = irq[d]
    BY <1>t, <2>2 DEF IrqOK, Tasklets0
  <2>4. BitsOK' /\ ListsOK' /\ SoftOK'
    BY <1>t, <1>u, <2>1 DEF BitsOK, ListsOK, SoftOK, Fits
  <2>5. Local(c) /\ WillRun(c)'
    BY <1>u, <2>1, <2>3 DEF Local, WillRun
  <2> QED BY <1>v, <2>1, <2>3, <2>4, <2>5, LocalWillRun, TypePartsPrime
<1>2. CASE IrqEnqueue(c)
  <2>1. UNCHANGED <<sched, soft>> /\ Enlist(c, irq[c].t) /\ irq[c].t \in Tasklet
    BY <1>t, <1>2 DEF IrqEnqueue, bits, IrqOK
  <2>2. irq' = [irq EXCEPT ![c] = [at |-> "exit", t |-> NoTasklet]]
    BY <1>2 DEF IrqEnqueue
  <2>3. IrqOK' /\ irq'[c].at # "none" /\ \A d \in Cpu \ {c} : irq'[d] = irq[d]
    BY <1>t, <2>2 DEF IrqOK, Tasklets0
  <2>4. BitsOK' /\ ListsOK' /\ SoftOK'
    BY <1>t, <1>u, <2>1, EnlistType DEF BitsOK, SoftOK, Fits
  <2>5. Local(c) /\ WillRun(c)'
    BY <1>t, <1>u, <2>1, <2>3 DEF Local, WillRun, Enlist, ListsOK
  <2> QED BY <1>u, <1>v, <2>1, <2>3, <2>4, <2>5, LocalWillRun, TypePartsPrime
<1>3. CASE IrqExit(c)
  <2>1. irq' = [irq EXCEPT ![c] = NoIrq] /\ UNCHANGED <<sched, vec>>
    BY <1>3 DEF IrqExit, bits
  <2>2. IrqOK' /\ \A d \in Cpu \ {c} : irq'[d] = irq[d]
    BY <1>t, <2>1 DEF IrqOK, NoIrq, Tasklets0
  <2>3. BitsOK'
    BY <1>t, <1>u, <2>1 DEF BitsOK
  <2>4. CASE do_softirq(c)
    <3>1. /\ SoftOK' /\ ListsOK' /\ soft'[c].at = "loop"
          /\ \A d \in Cpu \ {c} : soft'[d] = soft[d]
      BY <1>t, <2>1, <2>4, EnterType
    <3>2. Effect(c)
      BY <1>u, <3>1 DEF Effect, Passes, Holding
    <3>3. Local(c) /\ WillRun(c)'
      BY <1>t, <1>u, <2>2, <2>4, <3>1 DEF do_softirq, Local, WillRun, ListsOK
    <3> QED BY <1>u, <1>v, <2>2, <2>3, <3>1, <3>2, <3>3, LocalWillRun, TypePartsPrime
  <2>5. CASE ~do_softirq(c)
    <3>1. UNCHANGED <<soft, pending>> /\ (soft[c].at # "none" \/ pending[c] = {})
      BY <1>3, <2>5 DEF IrqExit
    <3>2. SoftOK' /\ ListsOK'
      BY <1>t, <2>1, <3>1 DEF SoftOK, ListsOK, Fits
    <3>3. Local(c) /\ WillRun(c)'
      BY <1>u, <2>2, <3>1 DEF Local, WillRun
    <3> QED BY <1>u, <1>v, <2>2, <2>3, <3>1, <3>2, <3>3, LocalWillRun, TypePartsPrime
  <2> QED BY <2>4, <2>5
<1> QED
  BY <1>u, <1>1, <1>2, <1>3 DEF IrqStep
-----------------------------------------------------------------------------
(* The process on a CPU. *)

\* What the process does: a call, or a step of one.
ProcAny(c) ==
  \/ ProcStep(c)
  \/ \E t \in Tasklet :
       tasklet_schedule(c, t) \/ tasklet_disable_nosync(c, t) \/ KillCall(c, t)

\* The process moves on to at, with t.
Moves(c, at, t) ==
  /\ proc' = [proc EXCEPT ![c] = [at |-> at, t |-> t]]
  /\ at \in ProcAt /\ t \in Tasklets0 /\ (at # "idle" => t \in Tasklet)

\* A step of that shape keeps the types.
LEMMA MovesType ==
  ASSUME ProcOK, NEW c \in Cpu, NEW at, NEW t, Moves(c, at, t)
  PROVE  /\ ProcOK' /\ proc'[c].at = at /\ proc'[c].t = t
         /\ \A d \in Cpu \ {c} : proc'[d] = proc[d]
<1> DEFINE r == [at |-> at, t |-> t]
<1>1. r \in [at : ProcAt, t : Tasklets0] /\ r.at = at /\ r.t = t
  BY DEF Moves
<1>2. proc' = [proc EXCEPT ![c] = r]
  BY DEF Moves
<1> HIDE DEF r
<1> QED BY <1>1, <1>2 DEF ProcOK, Moves

\* What a step of the process does to the count of a tasklet.
Same(c, at, t) ==
  /\ count' = count
  /\ at \notin {"wait", "disabled"} /\ proc[c].at \notin {"wait", "disabled"}
Waited(c, at, t) ==
  /\ count' = count
  /\ proc[c].at = "wait" /\ at = "disabled" /\ t = proc[c].t /\ t \notin run
Disables(c, at, t) ==
  /\ count' = [count EXCEPT ![t] = @ + 1]
  /\ proc[c].at = "idle" /\ at = "wait"
Enables(c, at, t) ==
  /\ count' = [count EXCEPT ![proc[c].t] = @ - 1]
  /\ proc[c].at = "disabled" /\ at = "idle"
Counting(c, at, t) ==
  Same(c, at, t) \/ Waited(c, at, t) \/ Disables(c, at, t) \/ Enables(c, at, t)

\* Every step of the process is one of these.
LEMMA ProcMoves ==
  ASSUME TypeOK, NEW c \in Cpu, ProcAny(c)
  PROVE  /\ \E at \in ProcAt, t \in Tasklets0 : Moves(c, at, t) /\ Counting(c, at, t)
         /\ sched' \subseteq Tasklet
         /\ UNCHANGED <<run, soft, irq, global_bh_lock>>
         /\ \/ UNCHANGED <<vec, pending, kpc, kstate>>
            \/ \E t \in Tasklet : Enlist(c, t) /\ wakeup_softirqd(c)
<1>t. BitsOK /\ ProcOK
  BY TypeParts
<1> DEFINE Goes(at, t) == Moves(c, at, t) /\ Counting(c, at, t) /\ sched' \subseteq Tasklet
           Rest == UNCHANGED <<run, soft, irq, global_bh_lock, vec, pending, kpc, kstate>>
<1>1. ASSUME NEW t \in Tasklet, tasklet_schedule(c, t) PROVE Goes("enqueue", t) /\ Rest
  BY <1>t, <1>1 DEF tasklet_schedule, Goto, NotSoft, BitsOK, Moves, ProcAt, Tasklets0, Counting, Same
<1>2. ASSUME NEW t \in Tasklet, tasklet_disable_nosync(c, t) PROVE Goes("wait", t) /\ Rest
  BY <1>t, <1>2 DEF tasklet_disable_nosync, Goto, NotSoft, BitsOK, Moves, ProcAt, Tasklets0, Counting, Disables
<1>3. ASSUME NEW t \in Tasklet, KillCall(c, t) PROVE Goes("kill", t) /\ Rest
  BY <1>t, <1>3 DEF KillCall, Goto, NotSoft, bits, BitsOK, Moves, ProcAt, Tasklets0, Counting, Same
<1>4. ASSUME ProcEnqueue(c)
      PROVE  /\ Goes("idle", NoTasklet) /\ UNCHANGED <<run, soft, irq, global_bh_lock>>
             /\ \E t \in Tasklet : Enlist(c, t) /\ wakeup_softirqd(c)
  <2>1. proc[c].t \in Tasklet
    BY <1>t, <1>4 DEF ProcEnqueue, ProcOK
  <2> QED BY <1>t, <1>4, <2>1 DEF ProcEnqueue, NoProc, bits, BitsOK, Moves, ProcAt, Tasklets0, Counting, Same
<1>5. ASSUME DisableWait(c) PROVE Goes("disabled", proc[c].t) /\ Rest
  <2>1. proc[c].t \in Tasklet
    BY <1>t, <1>5 DEF DisableWait, ProcOK
  <2> QED BY <1>t, <1>5, <2>1
          DEF DisableWait, Goto, NotSoft, bits, BitsOK, Moves, ProcAt, Tasklets0, Counting, Waited
<1>6. ASSUME tasklet_enable(c) PROVE Goes("idle", NoTasklet) /\ Rest
  BY <1>t, <1>6 DEF tasklet_enable, NoProc, NotSoft, BitsOK, Moves, ProcAt, Tasklets0, Counting, Enables
<1>7. ASSUME KillSet(c) \/ KillYield(c) \/ KillWait(c) \/ KillClear(c)
      PROVE  (\E at \in ProcAt : Goes(at, proc[c].t)) /\ Rest /\ proc[c].t \in Tasklets0
  <2>1. proc[c].t \in Tasklet
    BY <1>t, <1>7 DEF KillSet, KillYield, KillWait, KillClear, ProcOK
  <2>2. \E at \in {"kill", "yield", "killwait", "killclear", "killed"} : Goto(c, at, proc[c].t)
    BY <1>7, Zenon DEF KillSet, KillYield, KillWait, KillClear
  <2>3. PICK at \in {"kill", "yield", "killwait", "killclear", "killed"} : Goto(c, at, proc[c].t)
    BY <2>2
  <2>4. Moves(c, at, proc[c].t) /\ proc[c].t \in Tasklets0
    BY <2>1, <2>3 DEF Goto, Moves, ProcAt, Tasklets0
  <2>5. Counting(c, at, proc[c].t)
    BY <1>7 DEF KillSet, KillYield, KillWait, KillClear, bits, Counting, Same
  <2>6. sched' \subseteq Tasklet /\ Rest
    BY <1>t, <1>7, <2>1 DEF KillSet, KillYield, KillWait, KillClear, NotSoft, bits, BitsOK
  <2> QED BY <2>4, <2>5, <2>6 DEF ProcAt
<1>8. ASSUME Reuse(c) PROVE Goes("idle", NoTasklet) /\ Rest
  BY <1>t, <1>8 DEF Reuse, NoProc, NotSoft, bits, BitsOK, Moves, ProcAt, Tasklets0, Counting, Same
<1>9. {"enqueue", "wait", "kill", "idle", "disabled"} \subseteq ProcAt /\ NoTasklet \in Tasklets0
      /\ Tasklet \subseteq Tasklets0
  BY DEF ProcAt, Tasklets0
<1>10. (\E at \in ProcAt, t \in Tasklets0 : Goes(at, t))
       /\ (Rest \/ (UNCHANGED <<run, soft, irq, global_bh_lock>>
                    /\ \E t \in Tasklet : Enlist(c, t) /\ wakeup_softirqd(c)))
  <2> HIDE DEF Goes, Rest
  <2>1. ASSUME DisableWait(c) PROVE proc[c].t \in Tasklets0
    BY <1>t, <2>1 DEF ProcOK
  <2> QED BY <1>1, <1>2, <1>3, <1>4, <1>5, <1>6, <1>7, <1>8, <1>9, <2>1 DEF ProcAny, ProcStep
<1> QED BY <1>10
\* The sets of CPUs that have disabled a tasklet are finite.
LEMMA DisablersFinite ==
  ASSUME NEW t
  PROVE  IsFiniteSet(Disablers(t)) /\ Cardinality(Disablers(t)) \in Nat
<1>1. Disablers(t) \subseteq Cpu /\ IsFiniteSet(Cpu)
  BY TaskletAssumption DEF Disablers
<1>2. IsFiniteSet(Disablers(t))
  BY <1>1, FS_Subset
<1> QED BY <1>2, FS_CardinalityType

\* The count of a tasklet remains the number of those who have disabled it.
LEMMA CountStep ==
  ASSUME TypeOK, Counted, NEW c \in Cpu, NEW at \in ProcAt, NEW t \in Tasklets0,
         Moves(c, at, t), Counting(c, at, t)
  PROVE  Counted' /\ count' \in [Tasklet -> Nat]
<1>t. BitsOK /\ ProcOK
  BY TypeParts
<1>m. /\ ProcOK' /\ proc'[c].at = at /\ proc'[c].t = t
      /\ \A d \in Cpu \ {c} : proc'[d] = proc[d]
  BY <1>t, MovesType
<1>1. CASE Same(c, at, t) \/ Waited(c, at, t)
  <2>1. \A u : Disablers(u)' = Disablers(u)
    BY <1>1, <1>m DEF Same, Waited, Disablers
  <2>2. count' = count
    BY <1>1 DEF Same, Waited
  <2> QED BY <1>t, <2>1, <2>2 DEF Counted, BitsOK
<1>2. CASE Disables(c, at, t)
  <2>1. t \in Tasklet /\ c \notin Disablers(t)
    BY <1>2, <1>m DEF Disables, Moves, Disablers
  <2>2. Disablers(t)' = Disablers(t) \cup {c} /\ \A u \in Tasklet \ {t} : Disablers(u)' = Disablers(u)
    BY <1>2, <1>m DEF Disables, Disablers
  <2>3. Cardinality(Disablers(t) \cup {c}) = Cardinality(Disablers(t)) + 1
    BY <2>1, DisablersFinite, FS_AddElement, Zenon
  <2>4. count' = [count EXCEPT ![t] = count[t] + 1] /\ count[t] \in Nat /\ count[t] + 1 \in Nat
    BY <1>2, <1>t, <2>1 DEF Disables, BitsOK
  <2>5. count' \in [Tasklet -> Nat]
    BY <1>t, <2>1, <2>4 DEF BitsOK
  <2>6. count'[t] = Cardinality(Disablers(t)') /\ \A u \in Tasklet \ {t} : count'[u] = count[u]
    BY <1>t, <2>1, <2>2, <2>3, <2>4 DEF BitsOK, Counted
  <2> QED BY <2>2, <2>5, <2>6 DEF Counted
<1>3. CASE Enables(c, at, t)
  <2>0. PICK w \in Tasklet : w = proc[c].t
    BY <1>3, <1>t DEF Enables, ProcOK
  <2>1. c \in Disablers(w)
    BY <1>3, <2>0 DEF Enables, Disablers
  <2>2. Disablers(w)' = Disablers(w) \ {c} /\ \A u \in Tasklet \ {w} : Disablers(u)' = Disablers(u)
    BY <1>3, <1>m, <2>0 DEF Enables, Disablers
  <2>3. Cardinality(Disablers(w) \ {c}) = Cardinality(Disablers(w)) - 1
    BY <2>1, DisablersFinite, FS_RemoveElement, Zenon
  <2>4. Cardinality(Disablers(w) \ {c}) \in Nat
    BY <2>2, DisablersFinite, FS_Subset, FS_CardinalityType
  <2>5. count' = [count EXCEPT ![w] = count[w] - 1]
    BY <1>3, <1>t, <2>0 DEF Enables, BitsOK
  <2>6. count[w] - 1 = Cardinality(Disablers(w) \ {c})
    BY <2>1, <2>3 DEF Counted
  <2>7. count' \in [Tasklet -> Nat]
    BY <1>t, <2>4, <2>5, <2>6 DEF BitsOK
  <2>8. count'[w] = Cardinality(Disablers(w)') /\ \A u \in Tasklet \ {w} : count'[u] = count[u]
    BY <1>t, <2>1, <2>2, <2>5, <2>6 DEF BitsOK
  <2> QED BY <2>2, <2>7, <2>8 DEF Counted
<1> QED BY <1>1, <1>2, <1>3 DEF Counting

\* The steps of the process keep the invariant.
LEMMA ProcInv ==
  ASSUME IInv, NEW c \in Cpu, ProcAny(c)
  PROVE  IInv'
<1>t. /\ BitsOK /\ ListsOK /\ IrqOK /\ SoftOK /\ DaemonOK /\ ProcOK /\ LockOK
      /\ TypeOK /\ Counted /\ RunOwned /\ Settled /\ SoftirqWillRun /\ BhOwned
  BY TypeParts DEF IInv
<1>1. PICK at \in ProcAt, t \in Tasklets0 : Moves(c, at, t) /\ Counting(c, at, t)
  BY <1>t, ProcMoves
<1>2. /\ sched' \subseteq Tasklet
      /\ UNCHANGED <<run, soft, irq, global_bh_lock>>
      /\ \/ UNCHANGED <<vec, pending, kpc, kstate>>
         \/ \E u \in Tasklet : Enlist(c, u) /\ wakeup_softirqd(c)
  BY <1>t, ProcMoves
<1>3. Counted' /\ count' \in [Tasklet -> Nat]
  BY <1>t, <1>1, CountStep
<1>m. /\ ProcOK' /\ proc'[c].at = at /\ proc'[c].t = t
      /\ \A d \in Cpu \ {c} : proc'[d] = proc[d]
  BY <1>t, <1>1, MovesType
<1>4. BitsOK' /\ IrqOK' /\ SoftOK' /\ LockOK'
  BY <1>t, <1>2, <1>3 DEF BitsOK, IrqOK, SoftOK, LockOK, Fits
<1>5. RunOwned' /\ BhOwned'
  BY <1>t, <1>2 DEF RunOwned, BhOwned
<1>6. Settled'
  <2>1. CASE Waited(c, at, t)
    <3>1. \A d \in Cpu : soft[d].at \in Holding => soft[d].t # t
      BY <1>t, <2>1 DEF Waited, RunOwned
    <3> QED BY <1>t, <1>2, <1>m, <3>1 DEF Settled
  <2>2. CASE at # "disabled"
    BY <1>t, <1>2, <1>m, <2>2 DEF Settled
  <2> QED BY <1>1, <2>1, <2>2 DEF Counting, Same, Disables, Enables
<1>7. ListsOK' /\ DaemonOK' /\ SoftirqWillRun'
  <2>1. CASE UNCHANGED <<vec, pending, kpc, kstate>>
    BY <1>t, <1>2, <2>1 DEF ListsOK, DaemonOK, SoftirqWillRun
  <2>2. ASSUME NEW u \in Tasklet, Enlist(c, u), wakeup_softirqd(c)
        PROVE  ListsOK' /\ DaemonOK' /\ SoftirqWillRun'
    <3>1. ListsOK' /\ DaemonOK'
      BY <1>t, <2>2, EnlistType, WakeType
    <3>2. Local(c) /\ WillRun(c)'
      BY <1>t, <1>2, <2>2, Zenon DEF Enlist, wakeup_softirqd, Local, WillRun, ListsOK, DaemonOK
    <3> QED BY <1>t, <3>1, <3>2, LocalWillRun
  <2> QED BY <1>2, <2>1, <2>2
<1> QED
  BY <1>3, <1>4, <1>5, <1>6, <1>7, <1>m, TypePartsPrime DEF IInv
-----------------------------------------------------------------------------
\* A step of do_softirq leaves a disabled tasklet alone: its count is not 0.
LEMMA EffectSettled ==
  ASSUME IInv, NEW c \in Cpu, Effect(c), UNCHANGED proc
  PROVE  Settled'
<1> SUFFICES ASSUME NEW e \in Cpu, NEW d \in Cpu, proc[e].at = "disabled", soft'[d].t = proc[e].t,
                    soft'[d].at \in Holding \ {"count"}
             PROVE  FALSE
  BY DEF Settled
<1>1. CASE d # c
  BY <1>1 DEF Effect, IInv, Settled
<1>2. CASE d = c
  <2>1. Keeps(c) /\ soft[c].t = proc[e].t
    BY <1>2 DEF Effect, Takes, Keeps, Gives, Passes
  <2>2. soft[c].at = "count"
    BY <2>1 DEF IInv, Settled, Keeps
  <2>3. count[proc[e].t] = 0
    BY <2>1, <2>2 DEF Keeps
  <2>4. proc[e].t \in Tasklet /\ e \in Disablers(proc[e].t)
    BY TypeParts DEF IInv, ProcOK, Disablers
  <2>5. Disablers(proc[e].t) = {}
    BY <2>3, <2>4, DisablersFinite, FS_EmptySet, Zenon DEF IInv, Counted
  <2> QED BY <2>4, <2>5
<1> QED BY <1>1, <1>2

\* The invariant holds when the kernel starts, and every step keeps it.
THEOREM Invariant == Spec => []IInv
<1>1. Init => IInv
  <2> SUFFICES ASSUME Init PROVE IInv
    OBVIOUS
  <2>1. BitsOK /\ ListsOK /\ DaemonOK /\ LockOK
    BY DEF Init, BitsOK, ListsOK, DaemonOK, LockOK
  <2>2. IrqOK /\ ProcOK
    BY DEF Init, IrqOK, ProcOK, NoIrq, NoProc, ProcAt, Tasklets0
  <2>3. \A c \in Cpu : soft[c] = NoSoft /\ proc[c] = NoProc
    BY DEF Init
  <2>4. NoSoft \in SoftRec /\ NoSoft.at = "none" /\ NoProc.at = "idle"
    BY DEF SoftRec, NoSoft, NoProc, SoftAt, Tasklets0
  <2>5. SoftOK
    <3>1. soft = [c \in Cpu |-> NoSoft]
      BY DEF Init
    <3> QED BY <2>4, <3>1 DEF SoftOK, Fits
  <2>6. RunOwned /\ BhOwned /\ Settled
    BY <2>3, <2>4 DEF RunOwned, BhOwned, Settled, Holding
  <2>7. SoftirqWillRun
    BY DEF Init, SoftirqWillRun
  <2>8. Counted
    <3>1. \A t : Disablers(t) = {}
      BY <2>3, <2>4 DEF Disablers
    <3> QED BY <3>1, FS_EmptySet, Zenon DEF Init, Counted
  <2> QED BY <2>1, <2>2, <2>5, <2>6, <2>7, <2>8, TypeParts DEF IInv
<1>2. IInv /\ [Next]_vars => IInv'
  <2> SUFFICES ASSUME IInv, [Next]_vars PROVE IInv'
    OBVIOUS
  <2>t. /\ BitsOK /\ ListsOK /\ IrqOK /\ SoftOK /\ DaemonOK /\ ProcOK /\ LockOK
        /\ TypeOK /\ Counted /\ RunOwned /\ Settled /\ SoftirqWillRun /\ BhOwned
    BY TypeParts DEF IInv
  <2>0. ASSUME NEW c \in Cpu, UNCHANGED <<count, proc>>, TypeOK', SoftirqWillRun',
               Effect(c) \/ UNCHANGED <<soft, run, global_bh_lock>>
        PROVE  IInv'
    <3>1. Counted'
      BY <2>0, <2>t DEF Counted, Disablers
    <3>2. CASE Effect(c)
      BY <2>0, <2>t, <3>1, <3>2, EffectSafe, EffectSettled DEF IInv
    <3>3. CASE UNCHANGED <<soft, run, global_bh_lock>>
      <4>1. RunOwned' /\ BhOwned' /\ Settled'
        BY <2>0, <2>t, <3>3 DEF RunOwned, BhOwned, Settled
      <4> QED BY <2>0, <3>1, <4>1 DEF IInv
    <3> QED BY <2>0, <3>2, <3>3
  <2>1. ASSUME NEW c \in Cpu, SoftStep(c) PROVE IInv'
    <3>1. UNCHANGED <<count, proc, irq>>
      BY <2>1, Zenon DEF SoftStep, ActionBegin, LoopEnd, TryLock, ReadCount, ClearSched, FuncSchedule,
         BhAction, FuncEnqueue, FuncReturn, Requeue, ActionEnd, bits
    <3>2. BitsOK' /\ ListsOK' /\ SoftOK' /\ DaemonOK' /\ LockOK' /\ Effect(c)
      BY <2>t, <2>1, SoftStepEffect
    <3>3. IrqOK' /\ ProcOK'
      BY <2>t, <3>1 DEF IrqOK, ProcOK
    <3>4. TypeOK' /\ SoftirqWillRun'
      BY <2>t, <2>1, <3>2, <3>3, TypePartsPrime, SoftWillRun
    <3> QED BY <2>0, <3>1, <3>2, <3>4
  <2>2. ASSUME NEW c \in Cpu, KStep(c) PROVE IInv'
    BY <2>0, <2>t, <2>2, KStepInv DEF bits
  <2>3. ASSUME NEW c \in Cpu, IrqStep(c) \/ \E t \in Tasklet : IrqSchedule(c, t) PROVE IInv'
    BY <2>0, <2>t, <2>3, IrqInv
  <2>4. ASSUME NEW c \in Cpu, ProcAny(c) PROVE IInv'
    BY <2>4, ProcInv
  <2>5. CASE UNCHANGED vars
    <3>1. /\ UNCHANGED <<sched, run, count, vec, pending, irq, soft>>
          /\ UNCHANGED <<kpc, kstate, proc, global_bh_lock>>
      BY <2>5 DEF vars, bits
    <3>2. BitsOK' /\ ListsOK' /\ IrqOK' /\ SoftOK' /\ DaemonOK' /\ ProcOK' /\ LockOK'
      BY <2>t, <3>1 DEF BitsOK, ListsOK, IrqOK, SoftOK, Fits, DaemonOK, ProcOK, LockOK
    <3>3. Counted' /\ RunOwned' /\ Settled' /\ SoftirqWillRun' /\ BhOwned'
      BY <2>t, <3>1, Zenon DEF Counted, Disablers, RunOwned, Settled, SoftirqWillRun, BhOwned
    <3> QED BY <3>2, <3>3, TypePartsPrime DEF IInv
  <2>6. Next => \E c \in Cpu : \/ SoftStep(c) \/ KStep(c) \/ ProcAny(c)
                               \/ IrqStep(c) \/ \E t \in Tasklet : IrqSchedule(c, t)
    BY Zenon DEF Next, ProcAny
  <2> QED BY <2>1, <2>2, <2>3, <2>4, <2>5, <2>6
<1> QED
  BY <1>1, <1>2, PTL DEF Spec

\* A tasklet's function never runs on two CPUs at a time, nor do two bottom
\* halves: whatever the number of CPUs and tasklets (tasklet_trylock, bh_action).
THEOREM TaskletsAreSerialized == Spec => []Serialized
<1>1. IInv => Serialized
  BY DEF IInv, RunOwned, BhOwned, Serialized, InFunc, Holding
<1> QED
  BY <1>1, Invariant, PTL

\* A raised softirq has somebody who will run it (do_softirq, ksoftirqd).
THEOREM SoftirqsAreServed == Spec => []SoftirqWillRun
<1>1. IInv => SoftirqWillRun
  BY DEF IInv
<1> QED
  BY <1>1, Invariant, PTL

-----------------------------------------------------------------------------

(***************************************************************************)
(* The SCHED bit.  Wherever a tasklet with the bit set is, is one place: a *)
(* context that has it in hand, or a position of a list.                   *)
(***************************************************************************)
Kinds == {"irq", "proc", "kill", "soft", "vec", "list"}
InHand == {"count", "clear", "enqueue", "requeue"}

Place(k, c, n, i, t) ==
  \/ k = "irq"  /\ n = 0 /\ i = 0 /\ irq[c].at = "enqueue" /\ irq[c].t = t
  \/ k = "proc" /\ n = 0 /\ i = 0 /\ proc[c].at = "enqueue" /\ proc[c].t = t
  \/ k = "kill" /\ n = 0 /\ i = 0 /\ proc[c].at \in {"killwait", "killclear"} /\ proc[c].t = t
  \/ k = "soft" /\ n = 0 /\ i = 0 /\ soft[c].at \in InHand /\ soft[c].t = t
  \/ k = "vec"  /\ n \in Nr /\ i \in 1 .. Len(vec[c][n]) /\ vec[c][n][i] = t
  \/ k = "list" /\ n = 0 /\ i \in 1 .. Len(soft[c].list) /\ soft[c].list[i] = t

\* t is in one place if its SCHED bit is set, and in none otherwise.
Alone(t) ==
  \A k, l \in Kinds, c, d \in Cpu, n, m, i, j \in Nat :
    Place(k, c, n, i, t) /\ Place(l, d, m, j, t) => k = l /\ c = d /\ n = m /\ i = j
Somewhere(t) == \E k \in Kinds, c \in Cpu, n, i \in Nat : Place(k, c, n, i, t)
OnePlace(t) == Alone(t) /\ (t \in sched <=> Somewhere(t))

\* Between two tasklets do_softirq has none in hand, and outside tasklet_action no list.
SoftIdle ==
  \A c \in Cpu :
    /\ soft[c].at \in {"none", "loop"} => soft[c].list = <<>>
    /\ soft[c].at \in {"none", "loop", "tasklets"} => soft[c].t = NoTasklet

\* Nobody else kills a tasklet that is being killed; nobody runs it once the
\* killer has seen its RUN bit clear, and then its SCHED bit remains clear.
KillInv ==
  /\ \A c, d \in Cpu :
       proc[c].at \in KillStages /\ proc[d].at \in KillStages /\ proc[c].t = proc[d].t => c = d
  /\ \A c, d \in Cpu : proc[c].at \in {"killclear", "killed"} => soft[d].t # proc[c].t
  /\ \A c \in Cpu : proc[c].at = "killed" => proc[c].t \notin sched

OInv == SoftIdle /\ (\A t \in Tasklet : OnePlace(t)) /\ KillInv

-----------------------------------------------------------------------------
\* Two places of a tasklet are the same.
LEMMA SamePlace ==
  ASSUME NEW t, Alone(t), NEW k \in Kinds, NEW c \in Cpu, NEW n \in Nat, NEW i \in Nat,
         NEW l \in Kinds, NEW d \in Cpu, NEW m \in Nat, NEW j \in Nat,
         Place(k, c, n, i, t), Place(l, d, m, j, t)
  PROVE  k = l /\ c = d /\ n = m /\ i = j
  BY DEF Alone

\* A step that moves no tasklet.
LEMMA PlacesKept ==
  ASSUME NEW t \in Tasklet, OnePlace(t), t \in sched' <=> t \in sched,
         \A k \in Kinds, c \in Cpu, n, i \in Nat : Place(k, c, n, i, t)' <=> Place(k, c, n, i, t)
  PROVE  OnePlace(t)'
<1>1. Alone(t)'
  BY DEF OnePlace, Alone
<1>2. Somewhere(t)' <=> Somewhere(t)
  BY DEF Somewhere
<1> QED BY <1>1, <1>2 DEF OnePlace

\* Somebody has set the SCHED bit and has the tasklet in hand.
LEMMA PlaceTaken ==
  ASSUME NEW t \in Tasklet, OnePlace(t), t \notin sched, t \in sched',
         NEW l \in Kinds, NEW d \in Cpu, NEW m \in Nat, NEW j \in Nat,
         \A k \in Kinds, c \in Cpu, n, i \in Nat :
           Place(k, c, n, i, t)' <=>
             Place(k, c, n, i, t) \/ (k = l /\ c = d /\ n = m /\ i = j)
  PROVE  OnePlace(t)'
<1>1. Alone(t)'
  BY DEF OnePlace, Alone, Somewhere
<1>2. Somewhere(t)' <=> t \in sched'
  BY DEF OnePlace, Alone, Somewhere
<1> QED BY <1>1, <1>2 DEF OnePlace

\* Whoever has the tasklet in hand clears the bit.
LEMMA PlaceLeft ==
  ASSUME NEW t \in Tasklet, OnePlace(t), t \notin sched',
         NEW l \in Kinds, NEW d \in Cpu, NEW m \in Nat, NEW j \in Nat, Place(l, d, m, j, t),
         \A k \in Kinds, c \in Cpu, n, i \in Nat :
           Place(k, c, n, i, t)' <=>
             Place(k, c, n, i, t) /\ ~(k = l /\ c = d /\ n = m /\ i = j)
  PROVE  OnePlace(t)'
<1>1. Alone(t)'
  BY DEF OnePlace, Alone, Somewhere
<1>2. Somewhere(t)' <=> t \in sched'
  BY DEF OnePlace, Alone, Somewhere
<1> QED BY <1>1, <1>2 DEF OnePlace

\* A tasklet u is put from l's hand on the head of a list, whose others move up.
LEMMA PlaceListed ==
  ASSUME NEW t \in Tasklet, OnePlace(t), t \in sched' <=> t \in sched, 
         NEW u \in Tasklet, NEW l \in Kinds \ {"vec", "list"}, NEW d \in Cpu, NEW m \in Nr,
         Nr \subseteq Nat,
         \A s \in Tasklet : Place(l, d, 0, 0, s) <=> s = u,
         \A k \in Kinds \ {"vec"}, c \in Cpu, n, i \in Nat :
           Place(k, c, n, i, t)' <=>
             Place(k, c, n, i, t) /\ ~(k = l /\ c = d /\ n = 0 /\ i = 0),
         \A c \in Cpu, n, i \in Nat :
           Place("vec", c, n, i, t)' <=>
             IF c = d /\ n = m
             THEN (i = 1 /\ t = u) \/ (i > 1 /\ Place("vec", c, n, i - 1, t))
             ELSE Place("vec", c, n, i, t)
  PROVE  OnePlace(t)'
<1>0. \A c \in Cpu, n \in Nat, i \in Nat : Place("vec", c, n, i, t) => i >= 1
  <2>1. \A c \in Cpu, n \in Nat, i \in Nat : Place("vec", c, n, i, t) => i \in 1 .. Len(vec[c][n])
    BY Zenon DEF Place
  <2> QED BY <2>1
<1>1. ASSUME NEW k \in Kinds, NEW c \in Cpu, NEW n \in Nat, NEW i \in Nat, Place(k, c, n, i, t)
      PROVE  \E x \in Kinds, e \in Cpu, o, j \in Nat : Place(x, e, o, j, t)'
  <2>1. CASE k = l /\ c = d /\ n = 0 /\ i = 0
    <3>1. t = u
      BY <1>1, <2>1
    <3>2. Place("vec", d, m, 1, t)'
      BY <3>1
    <3> QED BY <3>2 DEF Kinds
  <2>2. CASE k # "vec" /\ ~(k = l /\ c = d /\ n = 0 /\ i = 0)
    BY <1>1, <2>2
  <2>3. CASE k = "vec" /\ c = d /\ n = m
    <3>1. Place("vec", c, n, i + 1, t)'
      BY <1>0, <1>1, <2>3
    <3> QED BY <3>1 DEF Kinds
  <2>4. CASE k = "vec" /\ ~(c = d /\ n = m)
    BY <1>1, <2>4
  <2> QED BY <2>1, <2>2, <2>3, <2>4
<1> DEFINE Back(k, c, n, i, x, e, o, j) ==
        \/ k # "vec" /\ x = k /\ e = c /\ o = n /\ j = i /\ ~(k = l /\ c = d /\ n = 0 /\ i = 0)
        \/ k = "vec" /\ ~(c = d /\ n = m) /\ x = k /\ e = c /\ o = n /\ j = i
        \/ k = "vec" /\ c = d /\ n = m /\ i = 1 /\ x = l /\ e = d /\ o = 0 /\ j = 0
        \/ k = "vec" /\ c = d /\ n = m /\ i > 1 /\ x = "vec" /\ e = d /\ o = m /\ j = i - 1
<1>2. ASSUME NEW k \in Kinds, NEW c \in Cpu, NEW n \in Nat, NEW i \in Nat, Place(k, c, n, i, t)'
      PROVE  \E x \in Kinds, e \in Cpu, o, j \in Nat : Place(x, e, o, j, t) /\ Back(k, c, n, i, x, e, o, j)
  <2>1. CASE k # "vec"
    BY <1>2, <2>1
  <2>2. CASE k = "vec" /\ ~(c = d /\ n = m)
    BY <1>2, <2>2
  <2>3. CASE k = "vec" /\ c = d /\ n = m /\ i = 1
    <3>1. ~Place("vec", c, n, 0, t)
      BY <1>0
    <3>2. Place(l, d, 0, 0, t)
      BY <1>2, <2>3
    <3> QED BY <2>3, <3>2
  <2>4. CASE k = "vec" /\ c = d /\ n = m /\ i # 1
    <3>1. i > 1 /\ Place("vec", c, n, i - 1, t) /\ i - 1 \in Nat
      BY <1>2, <2>4
    <3> QED BY <2>4, <3>1
  <2> QED BY <2>1, <2>2, <2>3, <2>4
<1>3. ASSUME NEW k \in Kinds, NEW c \in Cpu, NEW n \in Nat, NEW i \in Nat, Place(k, c, n, i, t)',
             NEW y \in Kinds, NEW e \in Cpu, NEW o \in Nat, NEW j \in Nat, Place(y, e, o, j, t)'
      PROVE  k = y /\ c = e /\ n = o /\ i = j
  <2>1. PICK x1 \in Kinds, e1 \in Cpu, o1 \in Nat, j1 \in Nat :
          Place(x1, e1, o1, j1, t) /\ Back(k, c, n, i, x1, e1, o1, j1)
    BY <1>2, <1>3, Zenon
  <2>2. PICK x2 \in Kinds, e2 \in Cpu, o2 \in Nat, j2 \in Nat :
          Place(x2, e2, o2, j2, t) /\ Back(y, e, o, j, x2, e2, o2, j2)
    BY <1>2, <1>3, Zenon
  <2>3. x1 = x2 /\ e1 = e2 /\ o1 = o2 /\ j1 = j2
    <3>1. Place(x1, e1, o1, j1, t) /\ Place(x2, e2, o2, j2, t) /\ Alone(t)
      BY <2>1, <2>2 DEF OnePlace
    <3> HIDE DEF Back
    <3> QED BY <3>1, SamePlace, Zenon
  <2> QED BY <2>1, <2>2, <2>3
<1>4. Alone(t)'
  BY <1>3 DEF Alone
<1>5. Somewhere(t)' <=> Somewhere(t)
  BY <1>1, <1>2 DEF Somewhere
<1> QED BY <1>4, <1>5 DEF OnePlace

\* tasklet_trylock takes the head of the list, the others move down.
LEMMA PlaceHeaded ==
  ASSUME NEW t \in Tasklet, OnePlace(t), t \in sched' <=> t \in sched, NEW d \in Cpu,
         \A k \in Kinds, c \in Cpu, n, i \in Nat :
           Place(k, c, n, i, t)' <=>
             IF k = "soft" /\ c = d THEN n = 0 /\ i = 0 /\ Place("list", d, 0, 1, t)
             ELSE IF k = "list" /\ c = d THEN n = 0 /\ i > 0 /\ Place("list", d, 0, i + 1, t)
             ELSE Place(k, c, n, i, t),
         \A n, i \in Nat : ~Place("soft", d, n, i, t)
  PROVE  OnePlace(t)'
<1>0. \A n \in Nat, i \in Nat : Place("list", d, n, i, t) => i >= 1 /\ n = 0
  <2>1. \A n \in Nat, i \in Nat : Place("list", d, n, i, t) => n = 0 /\ i \in 1 .. Len(soft[d].list)
    BY Zenon DEF Place
  <2> QED BY <2>1
<1> DEFINE Back(k, c, n, i, x, e, o, j) ==
        \/ k # "soft" /\ k # "list" /\ x = k /\ e = c /\ o = n /\ j = i
        \/ k \in {"soft", "list"} /\ c # d /\ x = k /\ e = c /\ o = n /\ j = i
        \/ k = "soft" /\ c = d /\ n = 0 /\ i = 0 /\ x = "list" /\ e = d /\ o = 0 /\ j = 1
        \/ k = "list" /\ c = d /\ n = 0 /\ i > 0 /\ x = "list" /\ e = d /\ o = 0 /\ j = i + 1
<1>1. ASSUME NEW k \in Kinds, NEW c \in Cpu, NEW n \in Nat, NEW i \in Nat, Place(k, c, n, i, t)
      PROVE  Somewhere(t)'
  <2>1. CASE k = "list" /\ c = d /\ i = 1
    <3>1. Place("soft", d, 0, 0, t)'
      BY <1>0, <1>1, <2>1 DEF Kinds
    <3> QED BY <3>1 DEF Kinds, Somewhere
  <2>2. CASE k = "list" /\ c = d /\ i # 1
    <3>0. i - 1 \in Nat /\ i - 1 > 0 /\ (i - 1) + 1 = i /\ n = 0
      BY <1>0, <1>1, <2>2
    <3>1. Place("list", d, 0, i - 1, t)'
      BY <1>1, <2>2, <3>0 DEF Kinds
    <3> QED BY <3>0, <3>1 DEF Kinds, Somewhere
  <2>3. CASE ~(k = "list" /\ c = d)
    <3>1. Place(k, c, n, i, t)'
      BY <1>1, <2>3
    <3> QED BY <3>1 DEF Somewhere
  <2> QED BY <2>1, <2>2, <2>3
<1>2. ASSUME NEW k \in Kinds, NEW c \in Cpu, NEW n \in Nat, NEW i \in Nat, Place(k, c, n, i, t)'
      PROVE  \E x \in Kinds, e \in Cpu, o, j \in Nat : Place(x, e, o, j, t) /\ Back(k, c, n, i, x, e, o, j)
  BY <1>2 DEF Kinds
<1>3. ASSUME NEW k \in Kinds, NEW c \in Cpu, NEW n \in Nat, NEW i \in Nat, Place(k, c, n, i, t)',
             NEW y \in Kinds, NEW e \in Cpu, NEW o \in Nat, NEW j \in Nat, Place(y, e, o, j, t)'
      PROVE  k = y /\ c = e /\ n = o /\ i = j
  <2>1. PICK x1 \in Kinds, e1 \in Cpu, o1 \in Nat, j1 \in Nat :
          Place(x1, e1, o1, j1, t) /\ Back(k, c, n, i, x1, e1, o1, j1)
    BY <1>2, <1>3
  <2>2. PICK x2 \in Kinds, e2 \in Cpu, o2 \in Nat, j2 \in Nat :
          Place(x2, e2, o2, j2, t) /\ Back(y, e, o, j, x2, e2, o2, j2)
    BY <1>2, <1>3
  <2>3. x1 = x2 /\ e1 = e2 /\ o1 = o2 /\ j1 = j2
    BY <2>1, <2>2, SamePlace, Zenon DEF OnePlace
  <2>4. Back(k, c, n, i, x1, e1, o1, j1) /\ Back(y, e, o, j, x1, e1, o1, j1)
    BY <2>1, <2>2, <2>3
  <2>5. ~(x1 = "soft" /\ e1 = d)
    BY <2>1
  <2> QED BY <2>4, <2>5
<1>4. Alone(t)'
  BY <1>3 DEF Alone
<1>5. Somewhere(t)' <=> Somewhere(t)
  BY <1>1, <1>2 DEF Somewhere
<1> QED BY <1>4, <1>5 DEF OnePlace

\* tasklet_action takes a whole list.
LEMMA PlacesMoved ==
  ASSUME NEW t \in Tasklet, OnePlace(t), t \in sched' <=> t \in sched, NEW d \in Cpu, NEW m \in Nat,
         \A k \in Kinds, c \in Cpu, n, i \in Nat :
           Place(k, c, n, i, t)' <=>
             IF k = "vec" /\ c = d /\ n = m THEN FALSE
             ELSE IF k = "list" /\ c = d THEN n = 0 /\ Place("vec", d, m, i, t)
             ELSE Place(k, c, n, i, t),
         \A n, i \in Nat : ~Place("list", d, n, i, t)
  PROVE  OnePlace(t)'
<1> DEFINE Back(k, c, n, i, x, e, o, j) ==
        \/ ~(k = "list" /\ c = d) /\ ~(k = "vec" /\ c = d /\ n = m)
           /\ x = k /\ e = c /\ o = n /\ j = i
        \/ k = "list" /\ c = d /\ n = 0 /\ x = "vec" /\ e = d /\ o = m /\ j = i
<1>1. ASSUME NEW k \in Kinds, NEW c \in Cpu, NEW n \in Nat, NEW i \in Nat, Place(k, c, n, i, t)
      PROVE  Somewhere(t)'
  <2>1. CASE k = "vec" /\ c = d /\ n = m
    <3>1. Place("list", d, 0, i, t)'
      BY <1>1, <2>1 DEF Kinds
    <3> QED BY <3>1 DEF Kinds, Somewhere
  <2>2. CASE ~(k = "vec" /\ c = d /\ n = m)
    <3>1. Place(k, c, n, i, t)'
      BY <1>1, <2>2
    <3> QED BY <3>1 DEF Somewhere
  <2> QED BY <2>1, <2>2
<1>2. ASSUME NEW k \in Kinds, NEW c \in Cpu, NEW n \in Nat, NEW i \in Nat, Place(k, c, n, i, t)'
      PROVE  \E x \in Kinds, e \in Cpu, o, j \in Nat : Place(x, e, o, j, t) /\ Back(k, c, n, i, x, e, o, j)
  BY <1>2 DEF Kinds
<1>3. ASSUME NEW k \in Kinds, NEW c \in Cpu, NEW n \in Nat, NEW i \in Nat, Place(k, c, n, i, t)',
             NEW y \in Kinds, NEW e \in Cpu, NEW o \in Nat, NEW j \in Nat, Place(y, e, o, j, t)'
      PROVE  k = y /\ c = e /\ n = o /\ i = j
  <2>1. PICK x1 \in Kinds, e1 \in Cpu, o1 \in Nat, j1 \in Nat :
          Place(x1, e1, o1, j1, t) /\ Back(k, c, n, i, x1, e1, o1, j1)
    BY <1>2, <1>3
  <2>2. PICK x2 \in Kinds, e2 \in Cpu, o2 \in Nat, j2 \in Nat :
          Place(x2, e2, o2, j2, t) /\ Back(y, e, o, j, x2, e2, o2, j2)
    BY <1>2, <1>3
  <2>3. x1 = x2 /\ e1 = e2 /\ o1 = o2 /\ j1 = j2
    BY <2>1, <2>2, SamePlace, Zenon DEF OnePlace
  <2>4. Back(k, c, n, i, x1, e1, o1, j1) /\ Back(y, e, o, j, x1, e1, o1, j1)
    BY <2>1, <2>2, <2>3
  <2> QED BY <2>4
<1>4. Alone(t)'
  BY <1>3 DEF Alone
<1>5. Somewhere(t)' <=> Somewhere(t)
  BY <1>1, <1>2 DEF Somewhere
<1> QED BY <1>4, <1>5 DEF OnePlace

\* __tasklet_schedule: the others on the list move up.
LEMMA VecListed ==
  ASSUME ListsOK, NEW t \in Tasklet, NEW u \in Tasklet, NEW c \in Cpu, NEW m \in Nr,
         vec' = [vec EXCEPT ![c][m] = <<u>> \o @]
  PROVE  \A d \in Cpu, n, i \in Nat :
           Place("vec", d, n, i, t)' <=>
             IF d = c /\ n = m THEN (i = 1 /\ t = u) \/ (i > 1 /\ Place("vec", d, n, i - 1, t))
             ELSE Place("vec", d, n, i, t)
<1> DEFINE s == <<u>> \o vec[c][m]
<1>0. vec[c][m] \in Seq(Tasklet) /\ Len(vec[c][m]) \in Nat
  BY DEF ListsOK
<1>1. /\ Len(s) = Len(vec[c][m]) + 1
      /\ s[1] = u /\ \A i \in 2 .. Len(s) : s[i] = vec[c][m][i - 1]
  BY <1>0
<1>2. vec' = [vec EXCEPT ![c][m] = s]
  OBVIOUS
<1> HIDE DEF s
<1>3. \A d \in Cpu, n \in Nr : vec'[d][n] = IF d = c /\ n = m THEN s ELSE vec[d][n]
  <2> DEFINE S == Seq(Tasklet)
             f == [vec[c] EXCEPT ![m] = s]
  <2>1. vec \in [Cpu -> [Nr -> S]]
    BY DEF ListsOK
  <2> HIDE DEF S
  <2>2. vec' = [vec EXCEPT ![c] = f]
    BY <1>2, Zenon
  <2>3. \A n \in Nr : f[n] = IF n = m THEN s ELSE vec[c][n]
    BY <2>1
  <2> HIDE DEF f
  <2> QED BY <2>1, <2>2, <2>3, Zenon
<1> SUFFICES ASSUME NEW d \in Cpu, NEW n \in Nat, NEW i \in Nat
             PROVE  Place("vec", d, n, i, t)' <=>
                     IF d = c /\ n = m THEN (i = 1 /\ t = u) \/ (i > 1 /\ Place("vec", d, n, i - 1, t))
                     ELSE Place("vec", d, n, i, t)
  OBVIOUS
<1>4. CASE d = c /\ n = m
  BY <1>0, <1>1, <1>3, <1>4 DEF Place
<1>5. CASE ~(d = c /\ n = m)
  BY <1>3, <1>5, Zenon DEF Place
<1> QED BY <1>4, <1>5

-----------------------------------------------------------------------------
(* The steps of do_softirq *)

\* A step of do_softirq on c that leaves the lists alone, and what it has in hand.
LEMMA SoftKept ==
  ASSUME NEW t \in Tasklet, OnePlace(t), t \in sched' <=> t \in sched, NEW c \in Cpu,
         UNCHANGED <<irq, proc, vec>>, \A d \in Cpu \ {c} : soft'[d] = soft[d],
         soft'[c].list = soft[c].list,
         soft'[c].at \in InHand /\ soft'[c].t = t <=> soft[c].at \in InHand /\ soft[c].t = t
  PROVE  OnePlace(t)'
<1>1. \A k \in Kinds, d \in Cpu, n, i \in Nat : Place(k, d, n, i, t)' <=> Place(k, d, n, i, t)
  <2> SUFFICES ASSUME NEW k \in Kinds, NEW d \in Cpu, NEW n \in Nat, NEW i \in Nat
               PROVE  Place(k, d, n, i, t)' <=> Place(k, d, n, i, t)
    OBVIOUS
  <2>1. CASE d = c
    BY <2>1, Zenon DEF Place
  <2>2. CASE d # c
    BY <2>2, Zenon DEF Place
  <2> QED BY <2>1, <2>2
<1> QED BY <1>1, PlacesKept, Zenon

\* A tasklet in hand is put on a list of the CPU.
LEMMA SoftListed ==
  ASSUME TypeOK, NEW t \in Tasklet, OnePlace(t), UNCHANGED <<sched, irq, proc>>,
         NEW c \in Cpu, NEW m \in Nr, soft[c].at \in InHand,
         \A d \in Cpu \ {c} : soft'[d] = soft[d],
         soft'[c].list = soft[c].list, soft'[c].at \notin InHand,
         vec' = [vec EXCEPT ![c][m] = <<soft[c].t>> \o @]
  PROVE  OnePlace(t)'
<1> DEFINE u == soft[c].t
<1>t. ListsOK /\ SoftOK
  BY TypeParts, Zenon
<1>0. u \in Tasklet /\ vec[c][m] \in Seq(Tasklet) /\ Nr \subseteq Nat
  BY <1>t, TaskletAssumption, Zenon DEF SoftOK, Fits, InHand, ListsOK
<1>1. \A s \in Tasklet : Place("soft", c, 0, 0, s) <=> s = u
  BY DEF Place
<1>2. \A k \in Kinds \ {"vec"}, d \in Cpu, n, i \in Nat :
        Place(k, d, n, i, t)' <=> Place(k, d, n, i, t) /\ ~(k = "soft" /\ d = c /\ n = 0 /\ i = 0)
  <2> SUFFICES ASSUME NEW k \in Kinds \ {"vec"}, NEW d \in Cpu, NEW n \in Nat, NEW i \in Nat
               PROVE  Place(k, d, n, i, t)' <=>
                        Place(k, d, n, i, t) /\ ~(k = "soft" /\ d = c /\ n = 0 /\ i = 0)
    OBVIOUS
  <2>1. CASE d = c
    BY <2>1, Zenon DEF Place
  <2>2. CASE d # c
    BY <2>2, Zenon DEF Place
  <2> QED BY <2>1, <2>2
<1>3. \A d \in Cpu, n, i \in Nat :
        Place("vec", d, n, i, t)' <=>
          IF d = c /\ n = m THEN (i = 1 /\ t = u) \/ (i > 1 /\ Place("vec", d, n, i - 1, t))
          ELSE Place("vec", d, n, i, t)
  BY <1>t, <1>0, VecListed, Zenon
<1> HIDE DEF u
<1>4. "soft" \in Kinds \ {"vec", "list"}
  BY DEF Kinds
<1> QED BY <1>0, <1>1, <1>2, <1>3, <1>4, PlaceListed

\* tasklet_trylock.
LEMMA SoftHeaded ==
  ASSUME TypeOK, NEW t \in Tasklet, OnePlace(t), NEW c \in Cpu, TryLock(c)
  PROVE  OnePlace(t)'
<1>t. SoftOK
  BY TypeParts, Zenon
<1>0. soft[c].list \in Seq(Tasklet) /\ soft[c].list # <<>> /\ soft[c].at = "tasklets"
  BY <1>t DEF TryLock, SoftOK, SoftRec
<1>1. /\ UNCHANGED <<sched, irq, proc, vec>>
      /\ \A d \in Cpu \ {c} : soft'[d] = soft[d]
      /\ soft'[c].list = Tail(soft[c].list) /\ soft'[c].t = Head(soft[c].list)
      /\ soft'[c].at \in InHand
  BY <1>t DEF TryLock, SoftOK, SoftRec, InHand
<1>2. /\ Len(Tail(soft[c].list)) = Len(soft[c].list) - 1 /\ Len(soft[c].list) \in Nat \ {0}
      /\ \A i \in 1 .. Len(soft[c].list) - 1 : Tail(soft[c].list)[i] = soft[c].list[i + 1]
      /\ Head(soft[c].list) = soft[c].list[1]
  BY <1>0
<1>3. \A n, i \in Nat : ~Place("soft", c, n, i, t)
  BY <1>0 DEF Place, InHand
<1>4. \A k \in Kinds, d \in Cpu, n, i \in Nat :
           Place(k, d, n, i, t)' <=>
             IF k = "soft" /\ d = c THEN n = 0 /\ i = 0 /\ Place("list", c, 0, 1, t)
             ELSE IF k = "list" /\ d = c THEN n = 0 /\ i > 0 /\ Place("list", c, 0, i + 1, t)
             ELSE Place(k, d, n, i, t)
  <2> SUFFICES ASSUME NEW k \in Kinds, NEW d \in Cpu, NEW n \in Nat, NEW i \in Nat
               PROVE  Place(k, d, n, i, t)' <=>
                       IF k = "soft" /\ d = c THEN n = 0 /\ i = 0 /\ Place("list", c, 0, 1, t)
                       ELSE IF k = "list" /\ d = c THEN n = 0 /\ i > 0 /\ Place("list", c, 0, i + 1, t)
                       ELSE Place(k, d, n, i, t)
    OBVIOUS
  <2>1. CASE d = c /\ k = "soft"
    BY <2>1, <1>1, <1>2, SMTT(30) DEF Place
  <2>2. CASE d = c /\ k = "list"
    BY <2>2, <1>1, <1>2 DEF Place
  <2>3. CASE d = c /\ k \notin {"soft", "list"}
    BY <2>3, <1>1, Zenon DEF Place
  <2>4. CASE d # c
    BY <2>4, <1>1, Zenon DEF Place
  <2> QED BY <2>1, <2>2, <2>3, <2>4
<1>5. t \in sched' <=> t \in sched
  BY <1>1
<1> QED BY <1>3, <1>4, <1>5, PlaceHeaded

\* tasklet_action takes the list.
LEMMA SoftMoved ==
  ASSUME TypeOK, SoftIdle, NEW t \in Tasklet, OnePlace(t), NEW c \in Cpu, ActionBegin(c)
  PROVE  OnePlace(t)'
<1>t. SoftOK /\ ListsOK
  BY TypeParts, Zenon
<1>0. PICK m \in soft[c].todo :
        /\ soft' = [soft EXCEPT ![c].at = "tasklets", ![c].todo = @ \ {m},
                               ![c].nr = m, ![c].list = vec[c][m]]
        /\ vec' = [vec EXCEPT ![c][m] = <<>>]
  BY Zenon DEF ActionBegin
<1>1. /\ UNCHANGED <<sched, irq, proc>> /\ m \in Nr /\ m \in Nat
      /\ \A d \in Cpu \ {c} : soft'[d] = soft[d]
      /\ soft'[c].list = vec[c][m]
      /\ soft'[c].at \notin InHand /\ soft[c].at \notin InHand
      /\ soft[c].list = <<>>
  BY <1>t, <1>0, TaskletAssumption DEF ActionBegin, bits, SoftOK, SoftRec, InHand, SoftIdle
<1>2. /\ \A d \in Cpu, n \in Nr : vec'[d][n] = IF d = c /\ n = m THEN <<>> ELSE vec[d][n]
      /\ Len(<<>>) = 0
  BY <1>t, <1>0, <1>1 DEF ListsOK
<1>3. \A n, i \in Nat : ~Place("list", c, n, i, t)
  BY <1>1, <1>2 DEF Place
<1>4. \A k \in Kinds, d \in Cpu, n, i \in Nat :
           Place(k, d, n, i, t)' <=>
             IF k = "vec" /\ d = c /\ n = m THEN FALSE
             ELSE IF k = "list" /\ d = c THEN n = 0 /\ Place("vec", c, m, i, t)
             ELSE Place(k, d, n, i, t)
  <2> SUFFICES ASSUME NEW k \in Kinds, NEW d \in Cpu, NEW n \in Nat, NEW i \in Nat
               PROVE  Place(k, d, n, i, t)' <=>
                       IF k = "vec" /\ d = c /\ n = m THEN FALSE
                       ELSE IF k = "list" /\ d = c THEN n = 0 /\ Place("vec", c, m, i, t)
                       ELSE Place(k, d, n, i, t)
    BY Zenon
  <2>1. CASE k = "vec"
    BY <2>1, <1>1, <1>2 DEF Place
  <2>2. CASE k = "list" /\ d = c
    BY <2>2, <1>1, Zenon DEF Place
  <2>3. CASE k # "vec" /\ d = c /\ k # "list"
    BY <2>3, <1>1, Zenon DEF Place
  <2>4. CASE k # "vec" /\ d # c
    BY <2>4, <1>1, Zenon DEF Place
  <2> QED BY <2>1, <2>2, <2>3, <2>4, Zenon
<1>5. t \in sched' <=> t \in sched
  BY <1>1
<1> QED BY <1>1, <1>3, <1>4, <1>5, PlacesMoved, Zenon

\* do_softirq no longer has its tasklet in hand.
LEMMA SoftDropped ==
  ASSUME NEW t \in Tasklet, NEW c \in Cpu, UNCHANGED <<irq, proc, vec>>,
         \A d \in Cpu \ {c} : soft'[d] = soft[d],
         soft'[c].list = soft[c].list, soft'[c].at \notin InHand
  PROVE  \A k \in Kinds, d \in Cpu, n, i \in Nat :
           Place(k, d, n, i, t)' <=> Place(k, d, n, i, t) /\ ~(k = "soft" /\ d = c /\ n = 0 /\ i = 0)
<1> SUFFICES ASSUME NEW k \in Kinds, NEW d \in Cpu, NEW n \in Nat, NEW i \in Nat
             PROVE  Place(k, d, n, i, t)' <=>
                      Place(k, d, n, i, t) /\ ~(k = "soft" /\ d = c /\ n = 0 /\ i = 0)
  OBVIOUS
<1>1. CASE d = c
  BY <1>1, Zenon DEF Place
<1>2. CASE d # c
  BY <1>2, Zenon DEF Place
<1> QED BY <1>1, <1>2, Zenon

\* Every step of do_softirq.
LEMMA SoftOnce ==
  ASSUME TypeOK, SoftIdle, NEW t \in Tasklet, OnePlace(t), NEW c \in Cpu, SoftStep(c)
  PROVE  OnePlace(t)'
<1>s. SoftOK
  BY TypeParts, Zenon
<1>t. SoftOK /\ soft[c] \in SoftRec /\ DOMAIN soft = Cpu
  BY <1>s DEF SoftOK
<1>1. CASE ActionBegin(c)
  BY <1>1, SoftMoved
<1>2. CASE LoopEnd(c)
  <2>1. /\ UNCHANGED <<sched, irq, proc, vec>> /\ \A d \in Cpu \ {c} : soft'[d] = soft[d]
        /\ soft'[c].list = soft[c].list
        /\ soft'[c].at \notin InHand /\ soft[c].at \notin InHand
    BY <1>t, <1>2 DEF LoopEnd, bits, SoftRec, NoSoft, SoftIdle, InHand
  <2> QED BY <2>1, SoftKept, Zenon
<1>3. CASE TryLock(c)
  BY <1>3, SoftHeaded
<1>4. CASE ReadCount(c)
  <2>1. /\ UNCHANGED <<sched, irq, proc, vec>> /\ \A d \in Cpu \ {c} : soft'[d] = soft[d]
        /\ soft'[c].list = soft[c].list /\ soft'[c].t = soft[c].t
        /\ soft'[c].at \in InHand /\ soft[c].at \in InHand
    BY <1>t, <1>4 DEF ReadCount, SoftRec, InHand
  <2> QED BY <2>1, SoftKept, Zenon
<1>5. CASE ClearSched(c)
  <2>1. /\ UNCHANGED <<irq, proc, vec>> /\ \A d \in Cpu \ {c} : soft'[d] = soft[d]
        /\ soft'[c].list = soft[c].list /\ sched' = sched \ {soft[c].t}
        /\ soft'[c].at \notin InHand /\ soft[c].at \in InHand
    BY <1>t, <1>5 DEF ClearSched, SoftRec, InHand
  <2>2. CASE t = soft[c].t
    <3>1. Place("soft", c, 0, 0, t)
      BY <2>1, <2>2 DEF Place
    <3>2. \A k \in Kinds, d \in Cpu, n, i \in Nat :
            Place(k, d, n, i, t)' <=> Place(k, d, n, i, t) /\ ~(k = "soft" /\ d = c /\ n = 0 /\ i = 0)
      BY <2>1, SoftDropped, Zenon
    <3> QED BY <2>1, <2>2, <3>1, <3>2, PlaceLeft, Zenon DEF Kinds
  <2>3. CASE t # soft[c].t
    BY <2>1, <2>3, SoftKept
  <2> QED BY <2>2, <2>3
<1>6. CASE FuncSchedule(c)
  <2>1. /\ UNCHANGED <<irq, proc, vec>> /\ \A d \in Cpu \ {c} : soft'[d] = soft[d]
        /\ soft'[c].list = soft[c].list /\ sched' = sched \cup {soft[c].t} /\ soft[c].t \notin sched
        /\ soft'[c].at \in InHand /\ soft[c].at \notin InHand /\ soft'[c].t = soft[c].t
    BY <1>t, <1>6 DEF FuncSchedule, SoftRec, InHand
  <2>2. CASE t = soft[c].t
    <3>2. \A k \in Kinds, d \in Cpu, n, i \in Nat :
            Place(k, d, n, i, t)' <=> Place(k, d, n, i, t) \/ (k = "soft" /\ d = c /\ n = 0 /\ i = 0)
      <4> SUFFICES ASSUME NEW k \in Kinds, NEW d \in Cpu, NEW n \in Nat, NEW i \in Nat
                   PROVE  Place(k, d, n, i, t)' <=>
                            Place(k, d, n, i, t) \/ (k = "soft" /\ d = c /\ n = 0 /\ i = 0)
        OBVIOUS
      <4>1. CASE d = c
        BY <2>1, <2>2, <4>1, Zenon DEF Place
      <4>2. CASE d # c
        BY <2>1, <4>2, Zenon DEF Place
      <4> QED BY <4>1, <4>2
    <3> QED BY <2>1, <2>2, <3>2, PlaceTaken DEF Kinds
  <2>3. CASE t # soft[c].t
    BY <2>1, <2>3, SoftKept, Zenon
  <2> QED BY <2>2, <2>3
<1>7. CASE BhAction(c) \/ FuncReturn(c) \/ ActionEnd(c)
  <2>1. /\ UNCHANGED <<sched, irq, proc, vec>> /\ \A d \in Cpu \ {c} : soft'[d] = soft[d]
        /\ soft'[c].list = soft[c].list
        /\ soft'[c].at \notin InHand /\ soft[c].at \notin InHand
    BY <1>t, <1>7 DEF BhAction, FuncReturn, ActionEnd, bits, SoftRec, InHand
  <2> QED BY <2>1, SoftKept
<1>8. CASE FuncEnqueue(c) \/ Requeue(c)
  <2>1. /\ UNCHANGED <<sched, irq, proc>> /\ \A d \in Cpu \ {c} : soft'[d] = soft[d]
        /\ soft'[c].list = soft[c].list
        /\ soft'[c].at \notin InHand /\ soft[c].at \in InHand
    BY <1>t, <1>8, Zenon DEF FuncEnqueue, Requeue, bits, SoftRec, InHand
  <2>2. soft[c].t \in Tasklet /\ Vector(soft[c].t) \in Nr /\ soft[c].nr \in Nr
    BY <1>t, <2>1, TaskletAssumption, Zenon DEF SoftOK, Fits, InHand
  <2>3. \E m \in Nr : vec' = [vec EXCEPT ![c][m] = <<soft[c].t>> \o @]
    BY <1>8, <2>2, Zenon DEF FuncEnqueue, Requeue, Enlist
  <2> QED BY <2>1, <2>3, SoftListed, Zenon
<1> QED BY <1>1, <1>2, <1>3, <1>4, <1>5, <1>6, <1>7, <1>8 DEF SoftStep

-----------------------------------------------------------------------------
(* ksoftirqd, interrupt handlers and the process *)

\* do_softirq is entered with nothing in hand.
LEMMA EnterFacts ==
  ASSUME TypeOK, SoftIdle, NEW c \in Cpu, do_softirq(c)
  PROVE  /\ \A d \in Cpu \ {c} : soft'[d] = soft[d]
         /\ soft'[c].list = soft[c].list /\ soft[c].list = <<>>
         /\ soft'[c].t = NoTasklet /\ soft'[c].at = "loop"
         /\ soft'[c].at \notin InHand /\ soft[c].at \notin InHand
<1>s. SoftOK
  BY TypeParts, Zenon
<1>t. SoftOK /\ soft[c] \in SoftRec /\ DOMAIN soft = Cpu
  BY <1>s DEF SoftOK
<1> QED BY <1>t DEF do_softirq, SoftRec, NoSoft, SoftIdle, InHand

\* ksoftirqd moves no tasklet.
LEMMA KOnce ==
  ASSUME TypeOK, SoftIdle, NEW t \in Tasklet, OnePlace(t), NEW c \in Cpu, KStep(c)
  PROVE  OnePlace(t)'
<1>1. UNCHANGED <<sched, irq, proc, vec>> /\ (UNCHANGED soft \/ do_softirq(c))
  BY DEF KStep, KTest, KSchedule, KLoop, bits
<1>2. CASE do_softirq(c)
  BY <1>1, <1>2, EnterFacts, SoftKept, Zenon
<1>3. CASE UNCHANGED soft
  BY <1>1, <1>3, SoftKept
<1> QED BY <1>1, <1>2, <1>3

\* The interrupt handler: only its own hand changes, and do_softirq is entered.
LEMMA IrqOnce ==
  ASSUME TypeOK, SoftIdle, NEW t \in Tasklet, OnePlace(t), NEW c \in Cpu,
         IrqStep(c) \/ \E u \in Tasklet : IrqSchedule(c, u)
  PROVE  OnePlace(t)'
<1>t. IrqOK /\ ListsOK /\ irq \in [Cpu -> [at : {"none", "enqueue", "exit"}, t : Tasklets0]]
  BY TypeParts, Zenon DEF IrqOK
<1>1. CASE IrqExit(c)
  <2>1. /\ UNCHANGED <<sched, proc, vec>> /\ irq[c].at = "exit" /\ irq'[c].at = "none"
        /\ \A d \in Cpu \ {c} : irq'[d] = irq[d]
        /\ UNCHANGED soft \/ do_softirq(c)
    BY <1>t, <1>1, Zenon DEF IrqExit, bits, NoIrq
  <2>2. /\ \A d \in Cpu \ {c} : soft'[d] = soft[d]
        /\ soft'[c].list = soft[c].list
        /\ soft'[c].at \in InHand /\ soft'[c].t = t <=> soft[c].at \in InHand /\ soft[c].t = t
    BY <2>1, EnterFacts, Zenon
  <2>3. \A k \in Kinds, d \in Cpu, n, i \in Nat : Place(k, d, n, i, t)' <=> Place(k, d, n, i, t)
    <3> SUFFICES ASSUME NEW k \in Kinds, NEW d \in Cpu, NEW n \in Nat, NEW i \in Nat
                 PROVE  Place(k, d, n, i, t)' <=> Place(k, d, n, i, t)
      OBVIOUS
    <3>1. CASE d = c
      BY <2>1, <2>2, <3>1, Zenon DEF Place
    <3>2. CASE d # c
      BY <2>1, <2>2, <3>2, Zenon DEF Place
    <3> QED BY <3>1, <3>2
  <2> QED BY <2>1, <2>3, PlacesKept, Zenon
<1>2. ASSUME NEW u \in Tasklet, IrqSchedule(c, u) PROVE OnePlace(t)'
  <2>1. /\ UNCHANGED <<proc, vec, soft>> /\ irq[c].at = "none" /\ sched' = sched \cup {u}
        /\ \A d \in Cpu \ {c} : irq'[d] = irq[d]
        /\ IF u \in sched THEN irq'[c].at = "exit" ELSE irq'[c].at = "enqueue" /\ irq'[c].t = u
    BY <1>t, <1>2, Zenon DEF IrqSchedule
  <2>2. CASE t = u /\ u \notin sched
    <3>1. \A k \in Kinds, d \in Cpu, n, i \in Nat :
            Place(k, d, n, i, t)' <=> Place(k, d, n, i, t) \/ (k = "irq" /\ d = c /\ n = 0 /\ i = 0)
      <4> SUFFICES ASSUME NEW k \in Kinds, NEW d \in Cpu, NEW n \in Nat, NEW i \in Nat
                   PROVE  Place(k, d, n, i, t)' <=>
                            Place(k, d, n, i, t) \/ (k = "irq" /\ d = c /\ n = 0 /\ i = 0)
        OBVIOUS
      <4>1. CASE d = c
        BY <2>1, <2>2, <4>1, Zenon DEF Place
      <4>2. CASE d # c
        BY <2>1, <4>2, Zenon DEF Place
      <4> QED BY <4>1, <4>2
    <3> QED BY <2>1, <2>2, <3>1, PlaceTaken DEF Kinds
  <2>3. CASE ~(t = u /\ u \notin sched)
    <3>1. \A k \in Kinds, d \in Cpu, n, i \in Nat : Place(k, d, n, i, t)' <=> Place(k, d, n, i, t)
      <4> SUFFICES ASSUME NEW k \in Kinds, NEW d \in Cpu, NEW n \in Nat, NEW i \in Nat
                   PROVE  Place(k, d, n, i, t)' <=> Place(k, d, n, i, t)
        OBVIOUS
      <4>1. CASE d = c
        BY <2>1, <2>3, <4>1, Zenon DEF Place
      <4>2. CASE d # c
        BY <2>1, <4>2, Zenon DEF Place
      <4> QED BY <4>1, <4>2
    <3>2. t \in sched' <=> t \in sched
      BY <2>1, <2>3, Zenon
    <3> QED BY <3>1, <3>2, PlacesKept
  <2> QED BY <2>2, <2>3, SMTT(30)
<1>3. CASE IrqEnqueue(c)
  <2> DEFINE u == irq[c].t
  <2>1. /\ UNCHANGED <<sched, proc, soft>> /\ irq[c].at = "enqueue" /\ irq'[c].at = "exit"
        /\ \A d \in Cpu \ {c} : irq'[d] = irq[d]
    BY <1>t, <1>3, Zenon DEF IrqEnqueue, bits
  <2>2. u \in Tasklet /\ Vector(u) \in Nr /\ Nr \subseteq Nat
    BY <1>t, <2>1, TaskletAssumption, Zenon DEF IrqOK
  <2>3. vec' = [vec EXCEPT ![c][Vector(u)] = <<u>> \o @]
    BY <1>3, Zenon DEF IrqEnqueue, Enlist
  <2>4. \A s \in Tasklet : Place("irq", c, 0, 0, s) <=> s = u
    BY <2>1, Zenon DEF Place
  <2>5. \A k \in Kinds \ {"vec"}, d \in Cpu, n, i \in Nat :
          Place(k, d, n, i, t)' <=> Place(k, d, n, i, t) /\ ~(k = "irq" /\ d = c /\ n = 0 /\ i = 0)
    <3> SUFFICES ASSUME NEW k \in Kinds \ {"vec"}, NEW d \in Cpu, NEW n \in Nat, NEW i \in Nat
                 PROVE  Place(k, d, n, i, t)' <=>
                          Place(k, d, n, i, t) /\ ~(k = "irq" /\ d = c /\ n = 0 /\ i = 0)
      OBVIOUS
    <3>1. CASE d = c
      BY <2>1, <3>1, Zenon DEF Place
    <3>2. CASE d # c
      BY <2>1, <3>2, Zenon DEF Place
    <3> QED BY <3>1, <3>2
  <2>m. PICK m \in Nr : m = Vector(u)
    BY <2>2, Zenon
  <2> HIDE DEF u
  <2>6. \A d \in Cpu, n, i \in Nat :
          Place("vec", d, n, i, t)' <=>
            IF d = c /\ n = m THEN (i = 1 /\ t = u) \/ (i > 1 /\ Place("vec", d, n, i - 1, t))
            ELSE Place("vec", d, n, i, t)
    <3>1. vec' = [vec EXCEPT ![c][m] = <<u>> \o @] /\ ListsOK /\ u \in Tasklet
      BY <1>t, <2>2, <2>3, <2>m
    <3> QED BY <3>1, VecListed, Zenon
  <2>7. "irq" \in Kinds \ {"vec", "list"} /\ (t \in sched' <=> t \in sched)
    BY <2>1, Zenon DEF Kinds
  <2> QED BY <2>2, <2>4, <2>5, <2>6, <2>7, PlaceListed
<1> QED BY <1>1, <1>2, <1>3 DEF IrqStep

\* A step of the process that changes the hand of c from or to t by no more than that.
LEMMA ProcKept ==
  ASSUME NEW t \in Tasklet, OnePlace(t), t \in sched' <=> t \in sched, NEW c \in Cpu,
         UNCHANGED <<irq, soft, vec>>, \A d \in Cpu \ {c} : proc'[d] = proc[d],
         proc'[c].at = "enqueue" /\ proc'[c].t = t <=> proc[c].at = "enqueue" /\ proc[c].t = t,
         proc'[c].at \in {"killwait", "killclear"} /\ proc'[c].t = t
           <=> proc[c].at \in {"killwait", "killclear"} /\ proc[c].t = t
  PROVE  OnePlace(t)'
<1>1. \A k \in Kinds, d \in Cpu, n, i \in Nat : Place(k, d, n, i, t)' <=> Place(k, d, n, i, t)
  <2> SUFFICES ASSUME NEW k \in Kinds, NEW d \in Cpu, NEW n \in Nat, NEW i \in Nat
               PROVE  Place(k, d, n, i, t)' <=> Place(k, d, n, i, t)
    BY Zenon
  <2>1. CASE d = c
    BY <2>1, Zenon DEF Place
  <2>2. CASE d # c
    BY <2>2, Zenon DEF Place
  <2> QED BY <2>1, <2>2, Zenon
<1> QED BY <1>1, PlacesKept, Zenon

\* Every step of the process.
LEMMA ProcOnce ==
  ASSUME TypeOK, NEW t \in Tasklet, OnePlace(t), NEW c \in Cpu, ProcAny(c)
  PROVE  OnePlace(t)'
<1>t. ProcOK /\ ListsOK /\ proc \in [Cpu -> [at : ProcAt, t : Tasklets0]]
  BY TypeParts, Zenon DEF ProcOK
<1> DEFINE Rest == UNCHANGED <<irq, soft, vec>> /\ \A d \in Cpu \ {c} : proc'[d] = proc[d]
           Hand == {"enqueue", "killwait", "killclear"}
<1>1. CASE \/ DisableWait(c) \/ tasklet_enable(c) \/ KillYield(c) \/ Reuse(c)
           \/ \E u \in Tasklet : tasklet_disable_nosync(c, u) \/ KillCall(c, u)
  <2>1. Rest /\ UNCHANGED sched /\ proc[c].at \notin Hand /\ proc'[c].at \notin Hand
    <3> DEFINE Off == {"idle", "wait", "disabled", "kill", "yield", "killed"}
    <3>1. /\ UNCHANGED <<irq, soft, vec, sched>> /\ proc[c].at \in Off
          /\ \E at \in Off : \E u : proc' = [proc EXCEPT ![c] = [at |-> at, t |-> u]]
      BY <1>1, Zenon DEF DisableWait, tasklet_enable, KillYield, Reuse, tasklet_disable_nosync, KillCall,
         Goto, NotSoft, NoProc, bits
    <3>2. Off \cap Hand = {}
      OBVIOUS
    <3>3. PICK at \in Off : \E u : proc' = [proc EXCEPT ![c] = [at |-> at, t |-> u]]
      BY <3>1, Zenon
    <3>4. PICK u : proc' = [proc EXCEPT ![c] = [at |-> at, t |-> u]]
      BY <3>3, Zenon
    <3> HIDE DEF Off, Hand
    <3> QED BY <1>t, <3>1, <3>2, <3>4, Zenon
  <2> QED BY <2>1, ProcKept, Zenon
<1>2. CASE KillWait(c)
  <2>1. Rest /\ UNCHANGED sched /\ proc[c].at = "killwait" /\ proc'[c].at = "killclear"
        /\ proc'[c].t = proc[c].t
    BY <1>t, <1>2 DEF KillWait, Goto, NotSoft, bits
  <2> QED BY <2>1, ProcKept, Zenon
<1>3. ASSUME NEW u \in Tasklet, NEW l \in {"proc", "kill"}, Rest, sched' = sched \cup {u}, u \notin sched,
             proc[c].at \notin Hand, proc'[c].t = u,
             proc'[c].at = IF l = "proc" THEN "enqueue" ELSE "killwait"
      PROVE  OnePlace(t)'
  <2>1. CASE t # u
    BY <1>3, <2>1, ProcKept, Zenon
  <2>2. CASE t = u
    <3>1. \A k \in Kinds, d \in Cpu, n, i \in Nat :
            Place(k, d, n, i, t)' <=> Place(k, d, n, i, t) \/ (k = l /\ d = c /\ n = 0 /\ i = 0)
      <4> SUFFICES ASSUME NEW k \in Kinds, NEW d \in Cpu, NEW n \in Nat, NEW i \in Nat
                   PROVE  Place(k, d, n, i, t)' <=>
                            Place(k, d, n, i, t) \/ (k = l /\ d = c /\ n = 0 /\ i = 0)
        OBVIOUS
      <4>1. CASE d = c
        BY <1>3, <2>2, <4>1, Zenon DEF Place
      <4>2. CASE d # c
        BY <1>3, <4>2, Zenon DEF Place
      <4> QED BY <4>1, <4>2, Zenon
    <3> QED BY <1>3, <2>2, <3>1, PlaceTaken DEF Kinds
  <2> QED BY <2>1, <2>2
<1>4. ASSUME NEW u \in Tasklet, tasklet_schedule(c, u) PROVE OnePlace(t)'
  <2>1. Rest /\ sched' = sched \cup {u} /\ u \notin sched /\ proc[c].at \notin Hand
        /\ proc'[c].t = u /\ proc'[c].at = "enqueue"
    BY <1>t, <1>4 DEF tasklet_schedule, Goto, NotSoft
  <2> QED BY <1>3, <2>1, Zenon
<1>5. CASE KillSet(c)
  <2>1. Rest /\ sched' = sched \cup {proc[c].t} /\ proc[c].at \notin Hand
        /\ proc'[c].t = proc[c].t /\ proc'[c].at = (IF proc[c].t \in sched THEN "yield" ELSE "killwait")
        /\ proc[c].t \in Tasklet
    BY <1>t, <1>5, Zenon DEF KillSet, Goto, NotSoft, ProcOK
  <2>2. CASE proc[c].t \in sched
    <3>1. sched' = sched /\ proc'[c].at = "yield"
      BY <2>1, <2>2, Zenon
    <3> QED BY <2>1, <3>1, ProcKept, Zenon
  <2>3. CASE proc[c].t \notin sched
    BY <1>3, <2>1, <2>3, Zenon
  <2> QED BY <2>2, <2>3
<1>6. CASE KillClear(c)
  <2>1. Rest /\ sched' = sched \ {proc[c].t} /\ proc[c].at = "killclear" /\ proc'[c].at = "killed"
    BY <1>t, <1>6, Zenon DEF KillClear, Goto, NotSoft
  <2>2. CASE t # proc[c].t
    BY <2>1, <2>2, ProcKept, Zenon
  <2>3. CASE t = proc[c].t
    <3>1. \A k \in Kinds, d \in Cpu, n, i \in Nat :
            Place(k, d, n, i, t)' <=> Place(k, d, n, i, t) /\ ~(k = "kill" /\ d = c /\ n = 0 /\ i = 0)
      <4> SUFFICES ASSUME NEW k \in Kinds, NEW d \in Cpu, NEW n \in Nat, NEW i \in Nat
                   PROVE  Place(k, d, n, i, t)' <=>
                            Place(k, d, n, i, t) /\ ~(k = "kill" /\ d = c /\ n = 0 /\ i = 0)
        OBVIOUS
      <4>1. CASE d = c
        BY <2>1, <2>3, <4>1, Zenon DEF Place
      <4>2. CASE d # c
        BY <2>1, <4>2, Zenon DEF Place
      <4> QED BY <4>1, <4>2, Zenon
    <3>2. Place("kill", c, 0, 0, t)
      BY <2>1, <2>3, Zenon DEF Place
    <3> QED BY <2>1, <2>3, <3>1, <3>2, PlaceLeft, Zenon DEF Kinds
  <2> QED BY <2>2, <2>3
<1>7. CASE ProcEnqueue(c)
  <2> DEFINE u == proc[c].t
  <2>1. /\ UNCHANGED <<sched, irq, soft>> /\ proc[c].at = "enqueue" /\ proc'[c].at = "idle"
        /\ \A d \in Cpu \ {c} : proc'[d] = proc[d]
    BY <1>t, <1>7, Zenon DEF ProcEnqueue, bits, NoProc
  <2>2. u \in Tasklet /\ Vector(u) \in Nr /\ Nr \subseteq Nat
    BY <1>t, <2>1, TaskletAssumption, Zenon DEF ProcOK
  <2>3. vec' = [vec EXCEPT ![c][Vector(u)] = <<u>> \o @]
    BY <1>7, Zenon DEF ProcEnqueue, Enlist
  <2>4. \A s \in Tasklet : Place("proc", c, 0, 0, s) <=> s = u
    BY <2>1, Zenon DEF Place
  <2>5. \A k \in Kinds \ {"vec"}, d \in Cpu, n, i \in Nat :
          Place(k, d, n, i, t)' <=> Place(k, d, n, i, t) /\ ~(k = "proc" /\ d = c /\ n = 0 /\ i = 0)
    <3> SUFFICES ASSUME NEW k \in Kinds \ {"vec"}, NEW d \in Cpu, NEW n \in Nat, NEW i \in Nat
                 PROVE  Place(k, d, n, i, t)' <=>
                          Place(k, d, n, i, t) /\ ~(k = "proc" /\ d = c /\ n = 0 /\ i = 0)
      OBVIOUS
    <3>1. CASE d = c
      BY <2>1, <3>1, Zenon DEF Place
    <3>2. CASE d # c
      BY <2>1, <3>2, Zenon DEF Place
    <3> QED BY <3>1, <3>2
  <2>m. PICK m \in Nr : m = Vector(u)
    BY <2>2, Zenon
  <2> HIDE DEF u
  <2>6. \A d \in Cpu, n, i \in Nat :
          Place("vec", d, n, i, t)' <=>
            IF d = c /\ n = m THEN (i = 1 /\ t = u) \/ (i > 1 /\ Place("vec", d, n, i - 1, t))
            ELSE Place("vec", d, n, i, t)
    <3>1. vec' = [vec EXCEPT ![c][m] = <<u>> \o @] /\ ListsOK /\ u \in Tasklet
      BY <1>t, <2>2, <2>3, <2>m
    <3> QED BY <3>1, VecListed, Zenon
  <2>7. "proc" \in Kinds \ {"vec", "list"} /\ (t \in sched' <=> t \in sched)
    BY <2>1, SMTT(30) DEF Kinds
  <2> QED BY <2>2, <2>4, <2>5, <2>6, <2>7, PlaceListed
<1> QED BY <1>1, <1>2, <1>4, <1>5, <1>6, <1>7 DEF ProcAny, ProcStep

-----------------------------------------------------------------------------
(* tasklet_kill *)

\* What do_softirq does to the tasklet it has in hand, and to the SCHED bits.
LEMMA SoftHand ==
  ASSUME TypeOK, SoftIdle, NEW c \in Cpu, SoftStep(c)
  PROVE  /\ \A d \in Cpu \ {c} : soft'[d] = soft[d]
         /\ soft'[c].at \in {"none", "loop"} => soft'[c].list = <<>>
         /\ soft'[c].at \in {"none", "loop", "tasklets"} => soft'[c].t = NoTasklet
         /\ soft'[c].t \in {soft[c].t, NoTasklet} \/ Place("list", c, 0, 1, soft'[c].t)
         /\ sched' \subseteq sched \cup {soft[c].t}
         /\ UNCHANGED proc
<1>s. SoftOK
  BY TypeParts, Zenon
<1>t. SoftOK /\ soft[c] \in SoftRec /\ DOMAIN soft = Cpu
  BY <1>s DEF SoftOK
<1> USE <1>t DEF SoftRec, SoftIdle, bits
<1>1. CASE ActionBegin(c)
  BY <1>1 DEF ActionBegin
<1>2. CASE LoopEnd(c)
  BY <1>2 DEF LoopEnd, NoSoft
<1>3. CASE TryLock(c)
  <2>0. soft[c].list \in Seq(Tasklet) /\ soft[c].list # <<>>
    BY <1>3 DEF TryLock
  <2>1. /\ UNCHANGED <<sched, proc>> /\ \A d \in Cpu \ {c} : soft'[d] = soft[d]
        /\ soft'[c].at \in {"requeue", "count"} /\ soft'[c].t = Head(soft[c].list)
    BY <1>3 DEF TryLock
  <2>2. 1 \in 1 .. Len(soft[c].list) /\ Head(soft[c].list) = soft[c].list[1]
    BY <2>0
  <2> QED BY <2>1, <2>2, Zenon DEF Place
<1>4. CASE ReadCount(c)
  BY <1>4 DEF ReadCount
<1>5. CASE ClearSched(c)
  BY <1>5 DEF ClearSched
<1>6. CASE FuncSchedule(c)
  BY <1>6 DEF FuncSchedule
<1>7. CASE BhAction(c)
  BY <1>7 DEF BhAction
<1>8. CASE FuncEnqueue(c)
  BY <1>8 DEF FuncEnqueue
<1>9. CASE FuncReturn(c)
  BY <1>9 DEF FuncReturn
<1>10. CASE Requeue(c)
  BY <1>10 DEF Requeue
<1>11. CASE ActionEnd(c)
  BY <1>11, SMTT(30) DEF ActionEnd
<1> QED BY <1>1, <1>2, <1>3, <1>4, <1>5, <1>6, <1>7, <1>8, <1>9, <1>10, <1>11, Zenon DEF SoftStep

\* The steps of do_softirq respect who kills a tasklet.
LEMMA SoftKill ==
  ASSUME TypeOK, OInv, NEW c \in Cpu, SoftStep(c)
  PROVE  SoftIdle' /\ KillInv'
<1>i. SoftIdle /\ KillInv /\ (\A t \in Tasklet : OnePlace(t))
  BY DEF OInv
<1>t. ProcOK
  BY TypeParts, Zenon
<1>1. /\ \A d \in Cpu \ {c} : soft'[d] = soft[d]
      /\ soft'[c].at \in {"none", "loop"} => soft'[c].list = <<>>
      /\ soft'[c].at \in {"none", "loop", "tasklets"} => soft'[c].t = NoTasklet
      /\ soft'[c].t \in {soft[c].t, NoTasklet} \/ Place("list", c, 0, 1, soft'[c].t)
      /\ sched' \subseteq sched \cup {soft[c].t}
      /\ UNCHANGED proc
  BY <1>i, SoftHand, Zenon
<1>2. SoftIdle'
  BY <1>i, <1>1, Zenon DEF SoftIdle
<1>3. ASSUME NEW e \in Cpu, NEW d \in Cpu, proc[e].at \in {"killclear", "killed"}
      PROVE  soft'[d].t # proc[e].t
  <2> DEFINE t == proc[e].t
  <2>1. t \in Tasklet /\ t # NoTasklet /\ soft[d].t # t
    BY <1>3, <1>t, <1>i, TaskletAssumption, Zenon DEF ProcOK, KillInv
  <2>2. CASE d # c
    BY <1>1, <2>1, <2>2, Zenon
  <2>3. CASE d = c
    <3> SUFFICES ASSUME Place("list", c, 0, 1, t) PROVE FALSE
      BY <1>1, <2>1, <2>3, Zenon
    <3>1. OnePlace(t)
      BY <1>i, <2>1, Zenon
    <3>2. CASE proc[e].at = "killclear"
      <4>1. Place("kill", e, 0, 0, t)
        BY <3>2, Zenon DEF Place
      <4> QED BY <3>1, <4>1, <2>1, SamePlace, Zenon DEF OnePlace, Kinds
    <3>3. CASE proc[e].at = "killed"
      <4>1. t \notin sched
        BY <3>3, <1>i, Zenon DEF KillInv
      <4> QED BY <3>1, <4>1 DEF OnePlace, Somewhere, Kinds
    <3> QED BY <3>2, <3>3, <1>3
  <2> QED BY <2>2, <2>3
<1>4. ASSUME NEW e \in Cpu, proc[e].at = "killed"
      PROVE  proc[e].t \notin sched'
  BY <1>1, <1>4, <1>i, Zenon DEF KillInv
<1> QED BY <1>i, <1>1, <1>2, <1>3, <1>4, Zenon DEF KillInv

\* So do ksoftirqd and interrupt handlers.
LEMMA OtherKill ==
  ASSUME TypeOK, OInv, NEW c \in Cpu,
         KStep(c) \/ IrqStep(c) \/ \E t \in Tasklet : IrqSchedule(c, t)
  PROVE  SoftIdle' /\ KillInv'
<1>i. SoftIdle /\ KillInv
  BY DEF OInv
<1>t. ProcOK
  BY TypeParts, Zenon
<1>1. UNCHANGED soft \/ do_softirq(c)
  BY Zenon DEF KStep, KTest, KSchedule, KLoop, IrqStep, IrqEnqueue, IrqExit, IrqSchedule
<1>2. UNCHANGED proc /\ (UNCHANGED sched \/ \E t \in Tasklet : NotKilled(t) /\ sched' = sched \cup {t})
  BY Zenon DEF KStep, KTest, KSchedule, KLoop, IrqStep, IrqEnqueue, IrqExit, IrqSchedule, bits
<1>3. SoftIdle' /\ \A d \in Cpu : soft'[d].t \in {soft[d].t, NoTasklet}
  <2>1. CASE UNCHANGED soft
    BY <1>i, <2>1, Zenon DEF SoftIdle
  <2>2. CASE do_softirq(c)
    BY <1>i, <2>2, EnterFacts, Zenon DEF SoftIdle
  <2> QED BY <1>1, <2>1, <2>2
<1>4. \A e \in Cpu : proc[e].at \in KillStages => proc[e].t \in Tasklet /\ ~NotKilled(proc[e].t)
  BY <1>t DEF ProcOK, KillStages, NotKilled
<1>5. \A e \in Cpu : proc[e].at = "killed" => proc[e].t \notin sched'
  BY <1>i, <1>2, <1>4, SMTT(30) DEF KillInv, KillStages
<1>6. \A e, d \in Cpu : proc[e].at \in {"killclear", "killed"} => soft'[d].t # proc[e].t
  BY <1>i, <1>3, <1>4, TaskletAssumption, Zenon DEF KillInv, KillStages
<1> QED BY <1>i, <1>2, <1>3, <1>5, <1>6, Zenon DEF KillInv

\* What a step of the process does about killing.
Killing(c) ==
  /\ UNCHANGED soft /\ \A d \in Cpu \ {c} : proc'[d] = proc[d]
  /\ \/ /\ proc'[c].at \notin KillStages
        /\ UNCHANGED sched \/ \E t \in Tasklet : NotKilled(t) /\ sched' = sched \cup {t}
     \/ /\ proc'[c].at = "kill" /\ UNCHANGED sched
        /\ NotKilled(proc'[c].t) \/ (proc[c].at \in KillStages /\ proc'[c].t = proc[c].t)
     \/ /\ proc'[c].at \in {"yield", "killwait"} /\ sched' = sched \cup {proc[c].t}
        /\ proc[c].at \in KillStages \ {"killed"} /\ proc'[c].t = proc[c].t
     \/ /\ proc'[c].at = "killclear" /\ UNCHANGED sched
        /\ proc[c].at = "killwait" /\ proc'[c].t = proc[c].t /\ proc[c].t \notin run
     \/ /\ proc'[c].at = "killed" /\ sched' = sched \ {proc[c].t}
        /\ proc[c].at = "killclear" /\ proc'[c].t = proc[c].t

\* Every step of the process is one of these.
LEMMA ProcHand ==
  ASSUME TypeOK, NEW c \in Cpu, ProcAny(c)
  PROVE  Killing(c)
<1>s. ProcOK
  BY TypeParts, Zenon
<1>t. ProcOK /\ proc \in [Cpu -> [at : ProcAt, t : Tasklets0]]
  BY <1>s DEF ProcOK
<1> DEFINE To(at) == proc'[c].at = at /\ UNCHANGED soft /\ \A d \in Cpu \ {c} : proc'[d] = proc[d]
<1>0. ASSUME NEW at, at \notin KillStages, To(at),
             UNCHANGED sched \/ \E t \in Tasklet : NotKilled(t) /\ sched' = sched \cup {t}
      PROVE  Killing(c)
  BY <1>0, Zenon DEF Killing
<1>1. CASE DisableWait(c)
  <2>1. To("disabled") /\ UNCHANGED sched
    BY <1>t, <1>1, Zenon DEF DisableWait, Goto, NotSoft, bits
  <2> QED BY <1>0, <2>1, Zenon DEF KillStages
<1>2. CASE tasklet_enable(c) \/ Reuse(c) \/ ProcEnqueue(c)
  <2>1. To("idle") /\ UNCHANGED sched
    <3>1. proc' = [proc EXCEPT ![c] = NoProc] /\ UNCHANGED <<soft, sched>>
      BY <1>2, Zenon DEF tasklet_enable, Reuse, ProcEnqueue, NotSoft, bits
    <3> QED BY <1>t, <3>1, Zenon DEF NoProc
  <2> QED BY <1>0, <2>1, Zenon DEF KillStages
<1>3. ASSUME NEW t \in Tasklet, tasklet_disable_nosync(c, t) PROVE Killing(c)
  <2>1. To("wait") /\ UNCHANGED sched
    BY <1>t, <1>3, Zenon DEF tasklet_disable_nosync, Goto, NotSoft
  <2> QED BY <1>0, <2>1, Zenon DEF KillStages
<1>4. ASSUME NEW t \in Tasklet, tasklet_schedule(c, t) PROVE Killing(c)
  <2>1. To("enqueue") /\ NotKilled(t) /\ sched' = sched \cup {t}
    BY <1>t, <1>4, Zenon DEF tasklet_schedule, Goto, NotSoft
  <2> QED BY <1>0, <2>1, Zenon DEF KillStages
<1>5. ASSUME NEW t \in Tasklet, KillCall(c, t) PROVE Killing(c)
  BY <1>t, <1>5, Zenon DEF KillCall, Killing, Goto, NotSoft, bits
<1>6. CASE KillSet(c)
  BY <1>t, <1>6, Zenon DEF KillSet, Killing, KillStages, Goto, NotSoft
<1>7. CASE KillYield(c)
  BY <1>t, <1>7, Zenon DEF KillYield, Killing, KillStages, Goto, NotSoft, bits
<1>8. CASE KillWait(c)
  BY <1>t, <1>8, Zenon DEF KillWait, Killing, Goto, NotSoft, bits
<1>9. CASE KillClear(c)
  BY <1>t, <1>9, Zenon DEF KillClear, Killing, Goto, NotSoft
<1> HIDE DEF To
<1> QED BY <1>1, <1>2, <1>3, <1>4, <1>5, <1>6, <1>7, <1>8, <1>9 DEF ProcAny, ProcStep

\* Whoever kills a tasklet, and has seen its RUN bit clear, has it to itself.
LEMMA ProcKill ==
  ASSUME IInv, OInv, NEW c \in Cpu, ProcAny(c)
  PROVE  SoftIdle' /\ KillInv'
<1>i. /\ SoftIdle /\ KillInv /\ (\A t \in Tasklet : OnePlace(t)) /\ TypeOK /\ RunOwned
      /\ ProcOK /\ SoftOK
  BY TypeParts, Zenon DEF OInv, IInv
<1>k. KillInv
  BY <1>i
<1>1. UNCHANGED soft /\ \A d \in Cpu \ {c} : proc'[d] = proc[d]
  BY <1>i, ProcHand, Zenon DEF Killing
<1>2. SoftIdle'
  BY <1>i, <1>1, Zenon DEF SoftIdle
<1>3. CASE /\ proc'[c].at \notin KillStages
           /\ UNCHANGED sched \/ \E t \in Tasklet : NotKilled(t) /\ sched' = sched \cup {t}
  <2>1. \A e \in Cpu : proc[e].at = "killed" => proc[e].t \notin sched'
    BY <1>i, <1>3, Zenon DEF KillInv, NotKilled, KillStages
  <2>2. \A e \in Cpu : proc'[e].at \in KillStages => e # c /\ proc'[e] = proc[e]
    BY <1>1, <1>3, Zenon
  <2>3. {"killclear", "killed"} \subseteq KillStages
    BY DEF KillStages
  <2> QED BY <1>i, <1>1, <1>2, <2>1, <2>2, <2>3, Zenon DEF KillInv
<1>4. CASE /\ proc'[c].at = "kill" /\ UNCHANGED sched
           /\ NotKilled(proc'[c].t) \/ (proc[c].at \in KillStages /\ proc'[c].t = proc[c].t)
  <2>1. KillInv'
    BY <1>k, <1>1, <1>4, SMTT(30) DEF KillInv, KillStages, NotKilled
  <2> QED BY <1>2, <2>1
<1>5. CASE /\ proc'[c].at \in {"yield", "killwait"} /\ sched' = sched \cup {proc[c].t}
           /\ proc[c].at \in KillStages \ {"killed"} /\ proc'[c].t = proc[c].t
  <2>1. KillInv'
    BY <1>k, <1>1, <1>5, SMTT(30) DEF KillInv, KillStages
  <2> QED BY <1>2, <2>1
<1>6. CASE /\ proc'[c].at = "killclear" /\ UNCHANGED sched
           /\ proc[c].at = "killwait" /\ proc'[c].t = proc[c].t /\ proc[c].t \notin run
  <2> DEFINE t == proc[c].t
  <2>1. t \in Tasklet /\ t # NoTasklet
    BY <1>i, <1>6, TaskletAssumption, Zenon DEF ProcOK
  <2>2. ASSUME NEW d \in Cpu, soft[d].t = t PROVE FALSE
    <3>1. soft[d].at \notin Holding
      BY <1>i, <1>6, <2>2, Zenon DEF RunOwned
    <3>2. soft[d].at \notin {"none", "loop", "tasklets"}
      BY <1>i, <2>1, <2>2, Zenon DEF SoftIdle
    <3>3. soft[d].at = "requeue"
      BY <1>i, <3>1, <3>2, SMTT(30) DEF SoftOK, SoftRec, SoftAt, Holding
    <3>4. Place("soft", d, 0, 0, t) /\ Place("kill", c, 0, 0, t)
      BY <1>6, <2>2, <3>3, Zenon DEF Place, InHand
    <3>5. "soft" \in Kinds /\ "kill" \in Kinds /\ 0 \in Nat /\ Alone(t)
      BY <1>i, <2>1 DEF Kinds, OnePlace
    <3> HIDE DEF t
    <3>6. "soft" = "kill"
      BY <3>4, <3>5, SamePlace, Zenon
    <3> QED BY <3>6, SMTT(30)
  <2> QED BY <1>i, <1>1, <1>2, <1>6, <2>2, SMTT(30) DEF KillInv, KillStages
<1>7. CASE /\ proc'[c].at = "killed" /\ sched' = sched \ {proc[c].t}
           /\ proc[c].at = "killclear" /\ proc'[c].t = proc[c].t
  BY <1>i, <1>1, <1>2, <1>7 DEF KillInv, KillStages
<1>8. Killing(c)
  BY <1>i, ProcHand, SMTT(30)
<1> QED BY <1>3, <1>4, <1>5, <1>6, <1>7, <1>8, Zenon DEF Killing

\* The invariant of the SCHED bit.
THEOREM OnceInvariant == Spec => [](IInv /\ OInv)
<1>1. Init => OInv
  <2> SUFFICES ASSUME Init PROVE OInv
    OBVIOUS
  <2>1. \A c \in Cpu : /\ soft[c].at = "none" /\ soft[c].list = <<>> /\ soft[c].t = NoTasklet
                       /\ proc[c].at = "idle" /\ irq[c].at = "none"
                       /\ \A n \in Nr : vec[c][n] = <<>>
    BY Zenon DEF Init, NoSoft, NoProc, NoIrq
  <2>2. SoftIdle
    BY <2>1, Zenon DEF SoftIdle
  <2>5. KillInv
    BY <2>1, Zenon DEF KillInv, KillStages
  <2>3. \A t, k, n, i : \A c \in Cpu : ~Place(k, c, n, i, t)
    BY <2>1 DEF Place, InHand
  <2>4. \A t \in Tasklet : OnePlace(t)
    BY <2>3, Zenon DEF OnePlace, Alone, Somewhere, Init
  <2> QED BY <2>2, <2>4, <2>5 DEF OInv
<1>2. IInv /\ OInv /\ [Next]_vars => OInv'
  <2> SUFFICES ASSUME IInv, OInv, [Next]_vars PROVE OInv'
    OBVIOUS
  <2>t. TypeOK /\ SoftIdle /\ (\A t \in Tasklet : OnePlace(t)) /\ KillInv
    BY DEF IInv, OInv
  <2>1. ASSUME NEW c \in Cpu, SoftStep(c) PROVE OInv'
    BY <2>t, <2>1, SoftOnce, SoftKill DEF OInv
  <2>2. ASSUME NEW c \in Cpu, KStep(c) PROVE OInv'
    BY <2>t, <2>2, KOnce, OtherKill DEF OInv
  <2>3. ASSUME NEW c \in Cpu, IrqStep(c) \/ \E t \in Tasklet : IrqSchedule(c, t) PROVE OInv'
    BY <2>t, <2>3, IrqOnce, OtherKill DEF OInv
  <2>4. ASSUME NEW c \in Cpu, ProcAny(c) PROVE OInv'
    BY <2>t, <2>4, ProcOnce, ProcKill DEF OInv
  <2>5. CASE UNCHANGED vars
    <3>1. UNCHANGED <<sched, vec, irq, soft, proc>>
      BY <2>5 DEF vars, bits
    <3>2. \A t \in Tasklet : OnePlace(t)'
      <4> SUFFICES ASSUME NEW t \in Tasklet PROVE OnePlace(t)'
        BY SMTT(30)
      <4>1. \A k \in Kinds, c \in Cpu, n, i \in Nat : Place(k, c, n, i, t)' <=> Place(k, c, n, i, t)
        BY <3>1, SMTT(30) DEF Place
      <4> QED BY <2>t, <3>1, <4>1, PlacesKept, Zenon
    <3>3. SoftIdle' /\ KillInv'
      BY <2>t, <3>1, Zenon DEF SoftIdle, KillInv
    <3> QED BY <3>2, <3>3 DEF OInv
  <2>6. Next => \E c \in Cpu : \/ SoftStep(c) \/ KStep(c) \/ ProcAny(c)
                               \/ IrqStep(c) \/ \E t \in Tasklet : IrqSchedule(c, t)
    BY Zenon DEF Next, ProcAny
  <2> QED BY <2>1, <2>2, <2>3, <2>4, <2>5, <2>6
<1> QED
  BY <1>1, <1>2, Invariant, PTL DEF Spec

\* The places of a tasklet are its Enqueuers.
LEMMA EnqueuersAre ==
  ASSUME TypeOK, NEW t \in Tasklet
  PROVE  \A x : x \in Enqueuers(t) <=>
           \/ \E c \in Cpu : \/ x = <<"irq", c>> /\ Place("irq", c, 0, 0, t)
                             \/ x = <<"proc", c>> /\ Place("proc", c, 0, 0, t)
                             \/ x = <<"soft", c>> /\ Place("soft", c, 0, 0, t)
                             \/ x = <<"kill", c>> /\ Place("kill", c, 0, 0, t)
           \/ \E c \in Cpu, n \in Nr, i \in Nat : x = <<"vec", c, n, i>> /\ Place("vec", c, n, i, t)
           \/ \E c \in Cpu, i \in Nat : x = <<"list", c, i>> /\ Place("list", c, 0, i, t)
<1>t. IrqOK /\ ProcOK /\ SoftOK /\ ListsOK
  BY TypeParts, Zenon
<1> DEFINE A == {<<"irq", c>> : c \in {d \in Cpu : irq[d] = [at |-> "enqueue", t |-> t]}}
           B == {<<"proc", c>> : c \in {d \in Cpu : proc[d] = [at |-> "enqueue", t |-> t]}}
           S == {<<"soft", c>> : c \in {d \in Cpu : soft[d].t = t
                   /\ soft[d].at \in {"count", "clear", "enqueue", "requeue"}}}
           K == {<<"kill", c>> : c \in {d \in Cpu : proc[d].t = t
                   /\ proc[d].at \in {"killwait", "killclear"}}}
           V == UNION {UNION {{<<"vec", c, nr, i>> :
                                i \in {j \in DOMAIN vec[c][nr] : vec[c][nr][j] = t}} :
                              nr \in Nr} : c \in Cpu}
           L == UNION {{<<"list", c, i>> : i \in {j \in DOMAIN soft[c].list : soft[c].list[j] = t}} :
                         c \in Cpu}
<1>0. Enqueuers(t) = A \cup B \cup S \cup K \cup V \cup L
  BY Zenon DEF Enqueuers
<1>1. \A x : x \in A <=> \E c \in Cpu : x = <<"irq", c>> /\ Place("irq", c, 0, 0, t)
  <2>1. \A c \in Cpu : irq[c] = [at |-> "enqueue", t |-> t] <=> irq[c].at = "enqueue" /\ irq[c].t = t
    BY <1>t DEF IrqOK
  <2> QED BY <2>1, Zenon DEF Place
<1>2. \A x : x \in B <=> \E c \in Cpu : x = <<"proc", c>> /\ Place("proc", c, 0, 0, t)
  <2>1. \A c \in Cpu : proc[c] = [at |-> "enqueue", t |-> t] <=> proc[c].at = "enqueue" /\ proc[c].t = t
    BY <1>t DEF ProcOK
  <2> QED BY <2>1, Zenon DEF Place
<1>3. \A x : x \in S <=> \E c \in Cpu : x = <<"soft", c>> /\ Place("soft", c, 0, 0, t)
  BY Zenon DEF Place, InHand
<1>4. \A x : x \in K <=> \E c \in Cpu : x = <<"kill", c>> /\ Place("kill", c, 0, 0, t)
  BY Zenon DEF Place
<1>5. \A x : x \in V <=> \E c \in Cpu, n \in Nr, i \in Nat :
                           x = <<"vec", c, n, i>> /\ Place("vec", c, n, i, t)
  <2>1. \A c \in Cpu, n \in Nr : DOMAIN vec[c][n] = 1 .. Len(vec[c][n]) /\ Len(vec[c][n]) \in Nat
    BY <1>t DEF ListsOK
  <2>2. \A c \in Cpu, n \in Nr, i \in Nat :
          Place("vec", c, n, i, t) <=> i \in DOMAIN vec[c][n] /\ vec[c][n][i] = t
    BY <2>1, Zenon DEF Place
  <2>3. \A x : x \in V <=> \E c \in Cpu, n \in Nr : \E i \in DOMAIN vec[c][n] :
                             x = <<"vec", c, n, i>> /\ vec[c][n][i] = t
    OBVIOUS
  <2>4. \A c \in Cpu, n \in Nr : DOMAIN vec[c][n] \subseteq Nat
    BY <2>1
  <2> HIDE DEF V
  <2> QED BY <2>2, <2>3, <2>4
<1>6. \A x : x \in L <=> \E c \in Cpu, i \in Nat : x = <<"list", c, i>> /\ Place("list", c, 0, i, t)
  <2>1. \A c \in Cpu : DOMAIN soft[c].list = 1 .. Len(soft[c].list) /\ Len(soft[c].list) \in Nat
    BY <1>t DEF SoftOK, SoftRec
  <2>2. \A c \in Cpu, i \in Nat :
          Place("list", c, 0, i, t) <=> i \in DOMAIN soft[c].list /\ soft[c].list[i] = t
    BY <2>1, Zenon DEF Place
  <2>3. \A x : x \in L <=> \E c \in Cpu : \E i \in DOMAIN soft[c].list :
                             x = <<"list", c, i>> /\ soft[c].list[i] = t
    OBVIOUS
  <2>4. \A c \in Cpu : DOMAIN soft[c].list \subseteq Nat
    BY <2>1
  <2> HIDE DEF L
  <2> QED BY <2>2, <2>3, <2>4
<1> HIDE DEF A, B, S, K, V, L
<1> QED BY <1>0, <1>1, <1>2, <1>3, <1>4, <1>5, <1>6, Zenon

\* One place, one enqueuer.
LEMMA OneEnqueuer ==
  ASSUME TypeOK, NEW t \in Tasklet, OnePlace(t)
  PROVE  IF t \in sched THEN \E x : Enqueuers(t) = {x} ELSE Enqueuers(t) = {}
<1>0. Nr \subseteq Nat /\ 0 \in Nat
  BY TaskletAssumption
<1>1. ASSUME NEW x, x \in Enqueuers(t), NEW y, y \in Enqueuers(t) PROVE x = y
  <2> DEFINE Named(z, k, c, n, i) ==
        \/ k \in {"irq", "proc", "soft", "kill"} /\ z = <<k, c>>
        \/ k = "vec" /\ z = <<k, c, n, i>>
        \/ k = "list" /\ z = <<k, c, i>>
  <2>1. ASSUME NEW z, z \in Enqueuers(t)
        PROVE  \E k \in Kinds, c \in Cpu, n, i \in Nat : Place(k, c, n, i, t) /\ Named(z, k, c, n, i)
    BY <1>0, <2>1, EnqueuersAre DEF Kinds
  <2>2. PICK k \in Kinds, c \in Cpu, n \in Nat, i \in Nat : Place(k, c, n, i, t) /\ Named(x, k, c, n, i)
    BY <1>1, <2>1, Zenon
  <2>3. PICK l \in Kinds, d \in Cpu, m \in Nat, j \in Nat : Place(l, d, m, j, t) /\ Named(y, l, d, m, j)
    BY <1>1, <2>1, Zenon
  <2>4. k = l /\ c = d /\ n = m /\ i = j
    BY <2>2, <2>3, SamePlace, Zenon DEF OnePlace
  <2> QED BY <2>2, <2>3, <2>4
<1>2. Somewhere(t) <=> Enqueuers(t) # {}
  <2>1. ASSUME NEW k \in Kinds, NEW c \in Cpu, NEW n \in Nat, NEW i \in Nat, Place(k, c, n, i, t)
        PROVE  Enqueuers(t) # {}
    <3>1. k \in {"irq", "proc", "soft", "kill", "list"} => n = 0
      BY <2>1, Zenon DEF Place
    <3>2. k \in {"irq", "proc", "soft", "kill"} => i = 0
      BY <2>1, Zenon DEF Place
    <3>3. k = "vec" => n \in Nr
      BY <2>1, Zenon DEF Place
    <3>4. CASE k = "vec"
      <4>1. <<"vec", c, n, i>> \in Enqueuers(t)
        BY <2>1, <3>3, <3>4, EnqueuersAre, Zenon
      <4> QED BY <4>1
    <3>5. CASE k = "list"
      <4>1. <<"list", c, i>> \in Enqueuers(t)
        BY <2>1, <3>1, <3>5, EnqueuersAre
      <4> QED BY <4>1
    <3>6. CASE k \in {"irq", "proc", "soft", "kill"}
      <4>1. <<k, c>> \in Enqueuers(t)
        BY <2>1, <3>1, <3>2, <3>6, EnqueuersAre, Zenon
      <4> QED BY <4>1
    <3> QED BY <3>4, <3>5, <3>6 DEF Kinds
  <2>2. Enqueuers(t) # {} => Somewhere(t)
    BY <1>0, EnqueuersAre, Zenon DEF Somewhere, Kinds
  <2> QED BY <2>1, <2>2 DEF Somewhere
<1>3. CASE t \in sched
  <2>1. PICK x : x \in Enqueuers(t)
    BY <1>2, <1>3 DEF OnePlace
  <2>2. Enqueuers(t) = {x}
    BY <1>1, <2>1
  <2> QED BY <1>3, <2>2
<1>4. CASE t \notin sched
  BY <1>2, <1>4 DEF OnePlace
<1> QED BY <1>3, <1>4

\* tasklet_schedule: the SCHED bit stands for exactly one place on the lists of
\* all CPUs, or one context that has the tasklet in hand.
THEOREM TaskletsAreScheduledOnce == Spec => []ScheduledOnce
<1>1. IInv /\ OInv => ScheduledOnce
  <2> SUFFICES ASSUME IInv, OInv, NEW t \in Tasklet
               PROVE  Cardinality(Enqueuers(t)) = IF t \in sched THEN 1 ELSE 0
    BY DEF ScheduledOnce
  <2>1. TypeOK /\ OnePlace(t)
    BY DEF IInv, OInv
  <2>2. CASE t \in sched
    <3>1. PICK x : Enqueuers(t) = {x}
      BY <2>1, <2>2, OneEnqueuer, Zenon
    <3> QED BY <2>2, <3>1, FS_Singleton, Zenon
  <2>3. CASE t \notin sched
    BY <2>1, <2>3, OneEnqueuer, FS_EmptySet, Zenon
  <2> QED BY <2>2, <2>3
<1> QED
  BY <1>1, OnceInvariant, PTL

\* tasklet_disable and tasklet_kill: a disabled tasklet does not run, and once
\* tasklet_kill has returned the tasklet is on no list, in nobody's hands, and
\* its function does not run.
THEOREM DisableAndKillWork == Spec => []DisabledOrKilled
<1>1. IInv /\ OInv => DisabledOrKilled
  <2> SUFFICES ASSUME IInv, OInv PROVE DisabledOrKilled
    OBVIOUS
  <2>1. Disabled
    BY Zenon DEF IInv, Settled, Disabled, InFunc, Holding
  <2>2. ASSUME NEW c \in Cpu, NEW d \in Cpu, proc[c].at = "killed"
        PROVE  Enqueuers(proc[c].t) = {} /\ soft[d].t # proc[c].t
    <3>1. TypeOK /\ ProcOK /\ KillInv
      BY TypeParts, Zenon DEF IInv, OInv
    <3>2. proc[c].t \in Tasklet
      BY <2>2, <3>1, SMTT(30) DEF ProcOK
    <3>3. OnePlace(proc[c].t) /\ proc[c].t \notin sched /\ soft[d].t # proc[c].t
      BY <2>2, <3>1, <3>2, Zenon DEF OInv, KillInv
    <3> QED BY <3>1, <3>2, <3>3, OneEnqueuer, Zenon
  <2> QED BY <2>1, <2>2, Zenon DEF DisabledOrKilled
<1> QED
  BY <1>1, OnceInvariant, PTL

=============================================================================
