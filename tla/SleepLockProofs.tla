--------------------------- MODULE SleepLockProofs ---------------------------
(***************************************************************************)
(* Proofs about the two locks that keep their waiters under a spinlock,    *)
(* the semaphore and the generic rw-semaphore, for any finite set of the   *)
(* tasks (Tasks) that sleep on them.                                       *)
(*                                                                         *)
(* The semaphore of Semaphore.tla keeps its count and its promise, and     *)
(* loses no wakeup, whatever its initial count.                            *)
(*                                                                         *)
(* Of RwSemSpinlock: activity counts the holders (ActivityInv), the first  *)
(* waiter is a writer while readers are active (WriterIsFirst), and        *)
(* lib/rwsem-spinlock.c implements the read/write semaphore of AbsRwSem    *)
(* (ImplementsAbstract).                                                   *)
(***************************************************************************)
EXTENDS Semaphore, RwSemSpinlock, FiniteSetTheorems, SequenceTheorems, TLAPS

\* semaphore_lock is held exactly by the task between spin_lock and
\* spin_unlock; only there does sem->sleepers exceed 1.
SemLockInv ==
  /\ \A p \in Task : sempc[p] = "crit" => lock = p
  /\ \A p \in Task : sempc[p] \in {"try", "tryunlock"} => op[p] = "down_trylock"
  /\ \A p \in Task : op[p] = "down_trylock" =>
       \/ sempc[p] = "try"
       \/ lock = p /\ sempc[p] \in {"wake", "scan", "ttwu", "tryunlock"}
  /\ sleepers = 2 => \E p \in Task : sempc[p] = "crit"

\* A scan of the wait queue owns the queue's lock and stays inside the list.
ScanInv ==
  /\ \A p \in Task : sempc[p] \in {"scan", "ttwu"} => qlock = p /\ cursor # 0
  /\ \A p \in Task : sempc[p] = "ttwu" => cursor <= Len(task_list)
  /\ sender.at # "none" => sender.to \in Task

\* A caller that is still undecided does not hold the semaphore.
SemCallInv == \A p \in Task : sempc[p] \in Undecided => p \notin holders

SemIInv ==
  TypeOK /\ SemLockInv /\ ScanInv /\ SemCallInv /\ CountInv /\ MutualExclusion

-----------------------------------------------------------------------------
\* The invariant holds of a semaphore just initialised.
LEMMA InitIInv == SemInit => SemIInv
  <1> SUFFICES ASSUME SemInit PROVE SemIInv
    OBVIOUS
  <1> USE TaskAssumption, CountAssumption DEF SemInit, WQInit, TasksInit
  <1>1. TypeOK
    BY DEF TypeOK, WQTypeOK, TasksTypeOK, PCs, Downs, NoSignal, TaskStates
  <1>2. SemLockInv /\ ScanInv /\ SemCallInv
    BY DEF SemLockInv, ScanInv, SemCallInv, Undecided, NoSignal
  <1>3. Pending = {}
    BY DEF Pending, PendingAt
  <1>4. CountInv /\ MutualExclusion
    BY <1>3, FS_EmptySet DEF CountInv, MutualExclusion
  <1> QED
    BY <1>1, <1>2, <1>4 DEF SemIInv

-----------------------------------------------------------------------------
(* Each action keeps the types; a scan stays inside the list it has locked. *)

\* Every step keeps the types.
LEMMA TypeStep ==
  ASSUME TypeOK, SemLockInv, ScanInv, [SemNext]_semaphorevars
  PROVE  TypeOK'
  <1> USE TaskAssumption DEF TypeOK, WQTypeOK, TasksTypeOK, TaskStates, Downs, PCs, SemGoto,
        Call, NoSignal, schedvars, wqvars, semvars
  <1>1. ASSUME NEW p \in Task, NEW o \in Downs, DownFast(p, o) PROVE TypeOK'
    BY <1>1 DEF DownFast
  <1>2. ASSUME NEW p \in Task, UpFast(p) PROVE TypeOK'
    BY <1>2 DEF UpFast
  <1>3. ASSUME NEW p \in Task, SetState(p) PROVE TypeOK'
    BY <1>3 DEF SetState, set_task_state, SleepState
  <1>4. ASSUME NEW p \in Task, Enqueue(p) PROVE TypeOK'
    BY <1>4 DEF Enqueue, add_wait_queue_exclusive
  <1>5. ASSUME NEW p \in Task, Lock(p) PROVE TypeOK'
    <2>1. sleepers \in 0..1
      BY <1>5 DEF Lock, SemLockInv
    <2> QED
      BY <1>5, <2>1 DEF Lock
  <1>6. ASSUME NEW p \in Task, CritSignal(p) PROVE TypeOK'
    BY <1>6 DEF CritSignal
  <1>7. ASSUME NEW p \in Task, Crit(p) PROVE TypeOK'
    BY <1>7 DEF Crit
  <1>8. ASSUME NEW p \in Task, SemSchedule(p) PROVE TypeOK'
    BY <1>8 DEF SemSchedule, schedule
  <1>9. ASSUME NEW p \in Task, SemResume(p) PROVE TypeOK'
    BY <1>9 DEF SemResume, set_task_state, SleepState
  <1>10. ASSUME NEW p \in Task, Relock(p) PROVE TypeOK'
    BY <1>10 DEF Relock
  <1>11. ASSUME NEW p \in Task, LeaveQueue(p) PROVE TypeOK'
    <2>1. task_list' \in Seq(Task)
      BY <1>11 DEF LeaveQueue, remove_wait_queue, list_del
    <2> QED
      BY <1>11, <2>1 DEF LeaveQueue, remove_wait_queue
  <1>12. ASSUME NEW p \in Task, LeaveState(p) PROVE TypeOK'
    BY <1>12 DEF LeaveState, set_task_state
  <1>13. ASSUME NEW p \in Task, TryLock(p) PROVE TypeOK'
    BY <1>13 DEF TryLock
  <1>14. ASSUME NEW p \in Task, TryUnlock(p) PROVE TypeOK'
    BY <1>14 DEF TryUnlock
  <1>15. ASSUME NEW p \in Task, Wake(p) PROVE TypeOK'
    BY <1>15 DEF Wake, WakeLock
  <1>16. ASSUME NEW p \in Task, Scan(p) PROVE TypeOK'
    BY <1>16 DEF Scan, WakeEnd, WakeSkip, WakeSee, WakeUnlock, WakeAdvance,
      AfterWake
  <1>17. ASSUME NEW p \in Task, Ttwu(p) PROVE TypeOK'
    <2>1. Scanned \in Task
      BY <1>17 DEF Ttwu, ScanInv, Scanned
    <2> QED
      BY <1>17, <2>1 DEF Ttwu, WakeTry, try_to_wake_up, WakeUnlock,
        WakeAdvance, AfterWake
  <1>18. ASSUME NEW p \in Task, Signal(p) \/ HandleSignal(p) PROVE TypeOK'
    BY <1>18 DEF Signal, HandleSignal
  <1>19. ASSUME SignalRead \/ SignalWake PROVE TypeOK'
    BY <1>19 DEF SignalRead, SignalWake, ScanInv, try_to_wake_up
  <1>20. CASE UNCHANGED semaphorevars
    BY <1>20 DEF semaphorevars
  <1> HIDE DEF TypeOK, WQTypeOK, TasksTypeOK, SemGoto, Call
  <1> QED
    BY <1>1, <1>2, <1>3, <1>4, <1>5, <1>6, <1>7, <1>8, <1>9, <1>10, <1>11,
       <1>12, <1>13, <1>14, <1>15, <1>16, <1>17, <1>18, <1>19, <1>20
       DEF SemNext, Step

-----------------------------------------------------------------------------
(* The locks are held by the tasks whose program counter says so. *)

\* Every step keeps the locks and the scan in the right hands.
LEMMA ControlStep ==
  ASSUME TypeOK, SemLockInv, ScanInv, SemCallInv, [SemNext]_semaphorevars
  PROVE  SemLockInv' /\ ScanInv' /\ SemCallInv'
  <1> USE TaskAssumption DEF SemLockInv, ScanInv, SemCallInv, Undecided, TypeOK,
        WQTypeOK, TasksTypeOK, SemGoto, Call, NoSignal, Downs, PCs, schedvars, wqvars, semvars
  <1>1. ASSUME NEW p \in Task, NEW o \in Downs, DownFast(p, o) PROVE SemLockInv' /\ ScanInv' /\ SemCallInv'
    BY <1>1 DEF DownFast
  <1>2. ASSUME NEW p \in Task, UpFast(p) PROVE SemLockInv' /\ ScanInv' /\ SemCallInv'
    BY <1>2 DEF UpFast
  <1>3. ASSUME NEW p \in Task, SetState(p) PROVE SemLockInv' /\ ScanInv' /\ SemCallInv'
    BY <1>3 DEF SetState, set_task_state
  <1>4. ASSUME NEW p \in Task, Enqueue(p) PROVE SemLockInv' /\ ScanInv' /\ SemCallInv'
    BY <1>4 DEF Enqueue, add_wait_queue_exclusive
  <1>5. ASSUME NEW p \in Task, Lock(p) PROVE SemLockInv' /\ ScanInv' /\ SemCallInv'
    BY <1>5 DEF Lock
  <1>6. ASSUME NEW p \in Task, CritSignal(p) PROVE SemLockInv' /\ ScanInv' /\ SemCallInv'
    BY <1>6 DEF CritSignal
  <1>7. ASSUME NEW p \in Task, Crit(p) PROVE SemLockInv' /\ ScanInv' /\ SemCallInv'
    BY <1>7 DEF Crit
  <1>8. ASSUME NEW p \in Task, SemSchedule(p) PROVE SemLockInv' /\ ScanInv' /\ SemCallInv'
    BY <1>8 DEF SemSchedule, schedule
  <1>9. ASSUME NEW p \in Task, SemResume(p) PROVE SemLockInv' /\ ScanInv' /\ SemCallInv'
    BY <1>9 DEF SemResume, set_task_state
  <1>10. ASSUME NEW p \in Task, Relock(p) PROVE SemLockInv' /\ ScanInv' /\ SemCallInv'
    BY <1>10 DEF Relock
  <1>11. ASSUME NEW p \in Task, LeaveQueue(p) PROVE SemLockInv' /\ ScanInv' /\ SemCallInv'
    BY <1>11 DEF LeaveQueue, remove_wait_queue
  <1>12. ASSUME NEW p \in Task, LeaveState(p) PROVE SemLockInv' /\ ScanInv' /\ SemCallInv'
    BY <1>12 DEF LeaveState, set_task_state
  <1>13. ASSUME NEW p \in Task, TryLock(p) PROVE SemLockInv' /\ ScanInv' /\ SemCallInv'
    BY <1>13 DEF TryLock
  <1>14. ASSUME NEW p \in Task, TryUnlock(p) PROVE SemLockInv' /\ ScanInv' /\ SemCallInv'
    BY <1>14 DEF TryUnlock
  <1>15. ASSUME NEW p \in Task, Wake(p) PROVE SemLockInv' /\ ScanInv' /\ SemCallInv'
    BY <1>15 DEF Wake, WakeLock
  <1>16. ASSUME NEW p \in Task, Scan(p) PROVE SemLockInv' /\ ScanInv' /\ SemCallInv'
    BY <1>16 DEF Scan, WakeEnd, WakeSkip, WakeSee, WakeUnlock, WakeAdvance,
      AfterWake, ScanAtEnd
  <1>17. ASSUME NEW p \in Task, Ttwu(p) PROVE SemLockInv' /\ ScanInv' /\ SemCallInv'
    BY <1>17 DEF Ttwu, WakeTry, try_to_wake_up, WakeUnlock, WakeAdvance,
      AfterWake
  <1>18. ASSUME NEW p \in Task, Signal(p) \/ HandleSignal(p) PROVE SemLockInv' /\ ScanInv' /\ SemCallInv'
    BY <1>18 DEF Signal, HandleSignal
  <1>19. ASSUME SignalRead \/ SignalWake PROVE SemLockInv' /\ ScanInv' /\ SemCallInv'
    BY <1>19 DEF SignalRead, SignalWake, try_to_wake_up
  <1>20. CASE UNCHANGED semaphorevars
    BY <1>20 DEF semaphorevars
  <1> HIDE DEF SemLockInv, ScanInv, SemCallInv, TypeOK, WQTypeOK, TasksTypeOK, SemGoto, Call
  <1> QED
    BY <1>1, <1>2, <1>3, <1>4, <1>5, <1>6, <1>7, <1>8, <1>9, <1>10,
       <1>11, <1>12, <1>13, <1>14, <1>15, <1>16, <1>17, <1>18, <1>19,
       <1>20
       DEF SemNext, Step

-----------------------------------------------------------------------------
(* A step moves at most one task into or out of Pending. *)

\* How a step changes the set of those whose decrement is pending.
LEMMA PendingStep ==
  ASSUME TypeOK, NEW p \in Task, NEW to \in PCs,
         sempc' = [sempc EXCEPT ![p] = to]
  PROVE  /\ (to \in PendingAt <=> sempc[p] \in PendingAt)
              => Cardinality(Pending') = Cardinality(Pending)
         /\ (to \in PendingAt /\ sempc[p] \notin PendingAt)
              => Cardinality(Pending') = Cardinality(Pending) + 1
         /\ (to \notin PendingAt /\ sempc[p] \in PendingAt)
              => Cardinality(Pending') = Cardinality(Pending) - 1
  <1>1. IsFiniteSet(Pending)
    BY TaskAssumption, FS_Subset DEF Pending
  <1>2. CASE to \in PendingAt /\ sempc[p] \notin PendingAt
    <2>1. Pending' = Pending \cup {p} /\ p \notin Pending
      BY <1>2 DEF Pending, TypeOK
    <2> QED
      BY <1>1, <1>2, <2>1, FS_AddElement, Zenon
  <1>3. CASE to \notin PendingAt /\ sempc[p] \in PendingAt
    <2>1. Pending' = Pending \ {p} /\ p \in Pending
      BY <1>3 DEF Pending, TypeOK
    <2> QED
      BY <1>1, <1>3, <2>1, FS_RemoveElement, Zenon
  <1>4. CASE to \in PendingAt <=> sempc[p] \in PendingAt
    <2>1. Pending' = Pending
      BY <1>4 DEF Pending, TypeOK
    <2> QED
      BY <1>4, <2>1
  <1> QED
    BY <1>2, <1>3, <1>4

\* How a step changes the set of holders.
LEMMA HoldersStep ==
  ASSUME TypeOK, NEW p \in Task
  PROVE  /\ Cardinality(holders) \in Nat
         /\ p \notin holders =>
              Cardinality(holders \cup {p}) = Cardinality(holders) + 1
         /\ p \in holders =>
              Cardinality(holders \ {p}) = Cardinality(holders) - 1
  <1>1. IsFiniteSet(holders)
    BY TaskAssumption, FS_Subset DEF TypeOK
  <1> QED
    BY <1>1, FS_CardinalityType, FS_AddElement, FS_RemoveElement, SMTT(30)

(* The accounting: what count loses, sleepers, Pending or holders gain, and  *)
(* a unit is granted only when the decisive addition left count >= 0.        *)

\* Every step keeps the count exact and the holders few.
LEMMA CountStep ==
  ASSUME TypeOK, SemLockInv, SemCallInv, CountInv, MutualExclusion, [SemNext]_semaphorevars
  PROVE  CountInv' /\ MutualExclusion'
  <1> USE CountAssumption DEF TypeOK, CountInv, MutualExclusion, SemGoto, Call,
        PCs, semvars
  <1> DEFINE P == Cardinality(Pending)
             H == Cardinality(holders)
  <1>0. P \in Nat /\ H \in Nat
    BY TaskAssumption, FS_Subset, FS_CardinalityType DEF Pending
  <1>1. ASSUME NEW p \in Task, NEW o \in Downs, DownFast(p, o) PROVE CountInv' /\ MutualExclusion'
    <2>1. /\ count' < 0 => P' = P + 1
          /\ count' >= 0 => P' = P
      BY <1>1, PendingStep DEF DownFast, Downs, PendingAt
    <2>2. count' >= 0 => H' = H + 1
      BY <1>1, HoldersStep DEF DownFast, Downs
    <2> QED
      BY <1>0, <1>1, <2>1, <2>2 DEF DownFast, Downs
  <1>2. ASSUME NEW p \in Task, UpFast(p) PROVE CountInv' /\ MutualExclusion'
    <2>1. P' = P
      BY <1>2, PendingStep, Zenon DEF UpFast, PendingAt
    <2>2. H' = H - 1
      BY <1>2, HoldersStep DEF UpFast
    <2> QED
      BY <1>0, <1>2, <2>1, <2>2 DEF UpFast
  <1>3. ASSUME NEW p \in Task, SetState(p) PROVE CountInv' /\ MutualExclusion'
    <2>1. P' = P
      BY <1>3, PendingStep, Zenon DEF SetState, PendingAt
    <2> QED
      BY <1>0, <1>3, <2>1, SMTT(30) DEF SetState
  <1>4. ASSUME NEW p \in Task, Enqueue(p) PROVE CountInv' /\ MutualExclusion'
    <2>1. P' = P
      BY <1>4, PendingStep, Zenon DEF Enqueue, PendingAt
    <2> QED
      BY <1>0, <1>4, <2>1, SMTT(30) DEF Enqueue
  <1>5. ASSUME NEW p \in Task, Lock(p) PROVE CountInv' /\ MutualExclusion'
    <2>1. P' = P - 1
      BY <1>5, PendingStep, Zenon DEF Lock, PendingAt
    <2> QED
      BY <1>0, <1>5, <2>1, SMTT(30) DEF Lock
  <1>6. ASSUME NEW p \in Task, CritSignal(p) PROVE CountInv' /\ MutualExclusion'
    <2>1. P' = P
      BY <1>6, PendingStep, Zenon DEF CritSignal, PendingAt
    <2> QED
      BY <1>0, <1>6, <2>1, SMTT(30) DEF CritSignal
  <1>7. ASSUME NEW p \in Task, Crit(p) PROVE CountInv' /\ MutualExclusion'
    <2>1. P' = P
      BY <1>7, PendingStep DEF Crit, SemCallInv, Undecided, PendingAt
    <2>2. count' >= 0 => H' = H + 1
      BY <1>7, HoldersStep DEF Crit, SemCallInv, Undecided
    <2> QED
      BY <1>0, <1>7, <2>1, <2>2 DEF Crit, SemCallInv, Undecided
  <1>8. ASSUME NEW p \in Task, SemSchedule(p) PROVE CountInv' /\ MutualExclusion'
    <2>1. P' = P
      BY <1>8, PendingStep, Zenon DEF SemSchedule, PendingAt
    <2> QED
      BY <1>0, <1>8, <2>1, SMTT(30) DEF SemSchedule
  <1>9. ASSUME NEW p \in Task, SemResume(p) PROVE CountInv' /\ MutualExclusion'
    <2>1. P' = P
      BY <1>9, PendingStep, Zenon DEF SemResume, PendingAt
    <2> QED
      BY <1>0, <1>9, <2>1, SMTT(30) DEF SemResume
  <1>10. ASSUME NEW p \in Task, Relock(p) PROVE CountInv' /\ MutualExclusion'
    <2>1. P' = P
      BY <1>10, PendingStep, Zenon DEF Relock, PendingAt
    <2> QED
      BY <1>0, <1>10, <2>1, SMTT(30) DEF Relock
  <1>11. ASSUME NEW p \in Task, LeaveQueue(p) PROVE CountInv' /\ MutualExclusion'
    <2>1. P' = P
      BY <1>11, PendingStep DEF LeaveQueue, PendingAt
    <2> QED
      BY <1>0, <1>11, <2>1 DEF LeaveQueue
  <1>12. ASSUME NEW p \in Task, LeaveState(p) PROVE CountInv' /\ MutualExclusion'
    <2>1. P' = P
      BY <1>12, PendingStep DEF LeaveState, PendingAt
    <2> QED
      BY <1>0, <1>12, <2>1 DEF LeaveState
  <1>13. ASSUME NEW p \in Task, TryLock(p) PROVE CountInv' /\ MutualExclusion'
    <2>1. P' = P - 1
      BY <1>13, PendingStep DEF TryLock, PendingAt
    <2> QED
      BY <1>0, <1>13, <2>1 DEF TryLock
  <1>14. ASSUME NEW p \in Task, TryUnlock(p) PROVE CountInv' /\ MutualExclusion'
    <2>1. P' = P
      BY <1>14, PendingStep, Zenon DEF TryUnlock, PendingAt
    <2> QED
      BY <1>0, <1>14, <2>1, SMTT(30) DEF TryUnlock
  <1>15. ASSUME NEW p \in Task, Wake(p) PROVE CountInv' /\ MutualExclusion'
    <2>1. P' = P
      BY <1>15, PendingStep, Zenon DEF Wake, PendingAt
    <2> QED
      BY <1>0, <1>15, <2>1, SMTT(30) DEF Wake
  <1>16. ASSUME NEW p \in Task, Scan(p) PROVE CountInv' /\ MutualExclusion'
    <2>1. P' = P
      BY <1>16, PendingStep DEF Scan, AfterWake, PendingAt
    <2> QED
      BY <1>0, <1>16, <2>1 DEF Scan, AfterWake
  <1>17. ASSUME NEW p \in Task, Ttwu(p) PROVE CountInv' /\ MutualExclusion'
    <2>1. P' = P
      BY <1>17, PendingStep, Zenon DEF Ttwu, AfterWake, PendingAt
    <2> QED
      BY <1>0, <1>17, <2>1, SMTT(30) DEF Ttwu, AfterWake
  <1>18. ASSUME \/ \E p \in Task : Signal(p) \/ HandleSignal(p)
                \/ SignalRead \/ SignalWake \/ UNCHANGED semaphorevars
         PROVE CountInv' /\ MutualExclusion'
    <2>1. Pending' = Pending
      BY <1>18 DEF Signal, HandleSignal, SignalRead, SignalWake, semaphorevars, Pending
    <2> QED
      BY <1>18, <2>1 DEF Signal, HandleSignal, SignalRead, SignalWake, semaphorevars
  <1> HIDE DEF TypeOK, CountInv, MutualExclusion, SemGoto, Call
  <1> QED
    BY <1>1, <1>2, <1>3, <1>4, <1>5, <1>6, <1>7, <1>8, <1>9, <1>10,
       <1>11, <1>12, <1>13, <1>14, <1>15, <1>16, <1>17, <1>18
       DEF SemNext, Step

\* The inductive invariant holds of every behaviour.
LEMMA Inductive == SemSpec => []SemIInv
  <1>1. SemIInv /\ [SemNext]_semaphorevars => SemIInv'
    BY TypeStep, ControlStep, CountStep DEF SemIInv
  <1> QED
    BY <1>1, InitIInv, PTL DEF SemSpec

-----------------------------------------------------------------------------
(* Each step of the routines is a step of the abstract semaphore, or none. *)

\* A grant takes a unit that is free.
LEMMA GrantStep ==
  ASSUME SemIInv, [SemNext]_semaphorevars, NEW p \in Task \ holders,
         holders' = holders \cup {p}
  PROVE  Free > 0 /\ Free' = Free - 1
  <1>1. TypeOK /\ MutualExclusion'
    BY CountStep DEF SemIInv
  <1>2. Cardinality(holders) \in Nat /\ Cardinality(holders') = Cardinality(holders) + 1
    BY <1>1, HoldersStep, Zenon
  <1> QED
    BY <1>1, <1>2, CountAssumption DEF MutualExclusion, Free

\* How a step changes who asks.
LEMMA AskingStep ==
  ASSUME TypeOK, NEW p \in Task, NEW to \in PCs, NEW o \in Downs \cup {"up", "none"},
         sempc' = [sempc EXCEPT ![p] = to],
         op' = [op EXCEPT ![p] = o]
  PROVE  Asking' = [Asking EXCEPT ![p] = IF to \in Undecided THEN o ELSE "none"]
  BY Zenon DEF TypeOK, Asking

\* Every step is one of the abstract semaphore, or none.
LEMMA RefineStep ==
  ASSUME SemIInv, [SemNext]_semaphorevars
  PROVE  [AbsSem!Next]_(AbsSem!absvars)
  <1> USE DEF SemIInv, TypeOK, SemCallInv, Undecided, SemGoto, Call, PCs, semvars
  <1> DEFINE Stutter == holders' = holders /\ Asking' = Asking
  <1>1. ASSUME NEW p \in Task, NEW o \in Downs, DownFast(p, o)
        PROVE  AbsSem!Next
    <2>1. CASE count' >= 0
      <3>1. Free > 0 /\ Free' = Free - 1
        <4>1. p \in Task \ holders /\ holders' = holders \cup {p}
          BY <1>1, <2>1 DEF DownFast
        <4> QED
          BY <4>1, GrantStep
      <3>2. Asking' = [Asking EXCEPT ![p] = "none"]
        BY <1>1, <2>1 DEF DownFast, Asking
      <3>3. AbsSem!Acquire(p)
        BY <1>1, <2>1, <3>1, <3>2 DEF DownFast, AbsSem!Acquire
      <3> QED
        BY <3>3 DEF AbsSem!Next
    <2>2. CASE count' < 0
      <3>1. Asking' = [Asking EXCEPT ![p] = o]
        BY <1>1, <2>2, AskingStep DEF DownFast
      <3>2. AbsSem!Block(p, o)
        BY <1>1, <2>2, <3>1 DEF DownFast, AbsSem!Block, Asking, Free
      <3> QED
        BY <3>2 DEF AbsSem!Next, Downs
    <2> QED
      BY <1>1, <2>1, <2>2 DEF DownFast
  <1>2. ASSUME NEW p \in Task, UpFast(p) PROVE AbsSem!Next
    <2>1. Free' = Free + 1
      BY <1>2, HoldersStep, CountAssumption DEF UpFast, Free
    <2>2. AbsSem!Release(p)
      BY <1>2, <2>1 DEF UpFast, AbsSem!Release, Asking
    <2> QED
      BY <2>2 DEF AbsSem!Next
  <1>3. ASSUME NEW p \in Task, CritSignal(p) PROVE AbsSem!Next
    <2>1. Asking' = [Asking EXCEPT ![p] = "none"]
      BY <1>3, Zenon DEF CritSignal, Asking
    <2>2. AbsSem!TurnAway(p)
      BY <1>3, <2>1 DEF CritSignal, AbsSem!TurnAway, Asking, Free
    <2> QED
      BY <2>2 DEF AbsSem!Next
  <1>4. ASSUME NEW p \in Task, TryLock(p) PROVE AbsSem!Next
    <2>1. Asking' = [Asking EXCEPT ![p] = "none"]
      BY <1>4, Zenon DEF TryLock, Asking
    <2>2. AbsSem!TurnAway(p)
      BY <1>4, <2>1 DEF TryLock, AbsSem!TurnAway, SemLockInv, Asking, Free
    <2> QED
      BY <2>2 DEF AbsSem!Next
  <1>5. ASSUME NEW p \in Task, Crit(p) PROVE AbsSem!Next \/ Stutter
    <2>1. CASE count' >= 0
      <3>1. Free > 0 /\ Free' = Free - 1
        <4>1. p \in Task \ holders /\ holders' = holders \cup {p}
          BY <1>5, <2>1, SMTT(30) DEF Crit
        <4> QED
          BY <4>1, GrantStep
      <3>2. Asking' = [Asking EXCEPT ![p] = "none"]
        <4>1. sempc' = [sempc EXCEPT ![p] = "got"] /\ op' = [op EXCEPT ![p] = op[p]]
          BY <1>5, <2>1 DEF Crit
        <4> QED
          BY <4>1, AskingStep, Zenon
      <3>3. AbsSem!Acquire(p)
        BY <1>5, <2>1, <3>1, <3>2 DEF Crit, AbsSem!Acquire
      <3> QED
        BY <3>3 DEF AbsSem!Next
    <2>2. CASE count' < 0
      BY <1>5, <2>2 DEF Crit, Asking
    <2> QED
      BY <1>5, <2>1, <2>2 DEF Crit
  <1>6. ASSUME NEW p \in Task,
               \/ SetState(p) \/ Enqueue(p) \/ Lock(p) \/ SemSchedule(p)
               \/ SemResume(p) \/ Relock(p)
        PROVE  Stutter
    BY <1>6 DEF Asking, SetState, Enqueue, Lock, SemSchedule, SemResume, Relock
  <1>7. ASSUME NEW p \in Task,
               \/ LeaveQueue(p) \/ LeaveState(p) \/ TryUnlock(p) \/ Wake(p)
               \/ Scan(p) \/ Ttwu(p)
        PROVE  Stutter
    BY <1>7 DEF Asking, LeaveQueue, LeaveState, TryUnlock, Wake, Scan, Ttwu,
      AfterWake
  <1>8. ASSUME \/ \E p \in Task : Signal(p) \/ HandleSignal(p)
               \/ SignalRead \/ SignalWake \/ UNCHANGED semaphorevars
        PROVE  Stutter
    BY <1>8 DEF Asking, Signal, HandleSignal, SignalRead, SignalWake, semaphorevars
  <1>9. Stutter => UNCHANGED AbsSem!absvars
    BY DEF AbsSem!absvars, Free
  <1> HIDE DEF SemIInv, TypeOK, SemCallInv, SemGoto, Call, Stutter
  <1> QED
    BY <1>1, <1>2, <1>3, <1>4, <1>5, <1>6, <1>7, <1>8, <1>9 DEF SemNext, Step

-----------------------------------------------------------------------------
(***************************************************************************)
(* No wakeup is lost.  While somebody is about to sleep, or sleeps, one of *)
(* three things holds: a task is going to try for the semaphore or to call *)
(* wake_up (Retries); a wake_up is under way and has a sleeper before it   *)
(* (Scans); or sem->count is negative and sem->sleepers is 1, so that the  *)
(* next up() calls wake_up.                                                *)
(***************************************************************************)
Sleepy   == {"schedule", "resume"}
Enqueued == {"lock", "relock", "crit"} \cup Sleepy
Retrying == PendingAt \cup {"relock", "crit", "got", "release", "wake"}

Retries(q) ==
  \/ sempc[q] \in Retrying
  \/ sempc[q] = "schedule" /\ state[q] = "RUNNING"
  \/ sempc[q] = "resume" /\ q \in runqueue

Before == \E i \in DOMAIN task_list : i >= cursor /\ sempc[task_list[i]] \in Sleepy
Scans(q) == sempc[q] \in {"scan", "ttwu"} /\ Before

WakeInv ==
  (\E p \in Task : sempc[p] \in Sleepy) =>
    \/ \E q \in Task : Retries(q) \/ Scans(q)
    \/ count < 0 /\ sleepers = 1

\* Only a task in schedule() is off the run queue, and not as TASK_RUNNING.
RunInv ==
  /\ \A p \in Task : sempc[p] # "resume" => p \in runqueue
  /\ \A p \in Task : p \notin runqueue => state[p] # "RUNNING"

\* From the time it asks for semaphore_lock a sleeper is in the wait queue.
SemQueueInv == \A p \in Task : sempc[p] \in Enqueued => \E i \in DOMAIN task_list : task_list[i] = p

\* Every step keeps the run queue right.
LEMMA RunStep ==
  ASSUME TypeOK, ScanInv, RunInv, [SemNext]_semaphorevars
  PROVE  RunInv'
  <1> USE TaskAssumption DEF TypeOK, WQTypeOK, TasksTypeOK, RunInv, SemGoto, Call, schedvars, wqvars, semvars
  <1>1. ASSUME NEW p \in Task, \/ \E o \in Downs : DownFast(p, o)
                               \/ UpFast(p) \/ Enqueue(p) \/ Lock(p) \/ CritSignal(p) \/ Crit(p)
                               \/ Relock(p) \/ LeaveQueue(p) \/ TryLock(p) \/ TryUnlock(p) \/ Wake(p)
        PROVE  RunInv'
    BY <1>1 DEF DownFast, UpFast, Enqueue, Lock, CritSignal, Crit, Relock, LeaveQueue, TryLock, TryUnlock,
       Wake
  <1>2. ASSUME NEW p \in Task, SetState(p) \/ SemResume(p) \/ LeaveState(p) PROVE RunInv'
    BY <1>2 DEF SetState, SemResume, LeaveState, set_task_state, SleepState
  <1>3. ASSUME NEW p \in Task, SemSchedule(p) PROVE RunInv'
    BY <1>3 DEF SemSchedule, schedule
  <1>4. ASSUME NEW p \in Task, Scan(p) PROVE RunInv'
    BY <1>4 DEF Scan, WakeEnd, WakeSkip, WakeSee, AfterWake
  <1>5. ASSUME NEW p \in Task, Ttwu(p) PROVE RunInv'
    <2>1. Scanned \in Task
      BY <1>5 DEF Ttwu, ScanInv, Scanned
    <2> QED
      BY <1>5, <2>1 DEF Ttwu, WakeTry, try_to_wake_up, AfterWake
  <1>6. ASSUME NEW p \in Task, Signal(p) \/ HandleSignal(p) PROVE RunInv'
    BY <1>6 DEF Signal, HandleSignal
  <1>7. ASSUME SignalRead \/ SignalWake PROVE RunInv'
    BY <1>7 DEF SignalRead, SignalWake, ScanInv, try_to_wake_up
  <1>8. CASE UNCHANGED semaphorevars
    BY <1>8 DEF semaphorevars
  <1> HIDE DEF TypeOK, WQTypeOK, TasksTypeOK, RunInv, SemGoto, Call
  <1> QED
    BY <1>1, <1>2, <1>3, <1>4, <1>5, <1>6, <1>7, <1>8 DEF SemNext, Step

\* remove_wait_queue leaves the entries of the others in the list.
LEMMA OthersStay ==
  ASSUME NEW s \in Seq(Task), NEW i \in DOMAIN s, NEW j \in DOMAIN s, s[j] # s[i]
  PROVE  \E k \in DOMAIN list_del(s, i) : list_del(s, i)[k] = s[j]
  <1> DEFINE u == SubSeq(s, 1, i - 1)
             v == SubSeq(s, i + 1, Len(s))
             k == IF j < i THEN j ELSE j - 1
  <1>1. i \in 1 .. Len(s) /\ j \in 1 .. Len(s) /\ Len(s) \in Nat /\ i # j
    OBVIOUS
  <1>2. /\ u \in Seq(Task) /\ Len(u) = i - 1 /\ \A m \in 1 .. i - 1 : u[m] = s[m]
        /\ v \in Seq(Task) /\ Len(v) = Len(s) - i /\ \A m \in 1 .. Len(s) - i : v[m] = s[i + m]
    BY <1>1
  <1> HIDE DEF u, v
  <1>3. DOMAIN (u \o v) = 1 .. Len(s) - 1 /\ k \in 1 .. Len(s) - 1
    BY <1>1, <1>2
  <1>4. (u \o v)[k] = s[j]
    <2>1. CASE j < i
      <3>1. (u \o v)[j] = u[j]
        BY <1>1, <1>2, <2>1
      <3> QED
        BY <1>1, <1>2, <2>1, <3>1
    <2>2. CASE j > i
      <3>1. (u \o v)[j - 1] = v[j - i]
        BY <1>1, <1>2, <2>2, SMTT(30)
      <3> QED
        BY <1>1, <1>2, <2>2, <3>1
    <2>3. j < i \/ j > i
      BY <1>1
    <2> HIDE DEF k
    <2> QED
      BY <2>1, <2>2, <2>3, Zenon
  <1>5. list_del(s, i) = u \o v
    BY DEF list_del, u, v
  <1> QED
    BY <1>3, <1>4, <1>5

\* Every step keeps the sleepers in the wait queue.
LEMMA QueueStep ==
  ASSUME TypeOK, SemQueueInv, [SemNext]_semaphorevars
  PROVE  SemQueueInv'
  <1> USE TaskAssumption DEF TypeOK, WQTypeOK, TasksTypeOK, SemQueueInv, Enqueued, Sleepy, SemGoto, Call, schedvars,
        wqvars, semvars
  <1>1. ASSUME NEW p \in Task, \/ \E o \in Downs : DownFast(p, o)
                               \/ UpFast(p) \/ SetState(p) \/ Lock(p) \/ CritSignal(p) \/ Crit(p)
                               \/ SemSchedule(p) \/ SemResume(p) \/ Relock(p)
        PROVE  SemQueueInv'
    BY <1>1, SMTT(30) DEF DownFast, UpFast, SetState, Lock, CritSignal, Crit, SemSchedule, SemResume, Relock, Downs
  <1>2. ASSUME NEW p \in Task, LeaveState(p) \/ TryLock(p) \/ TryUnlock(p) \/ Signal(p) \/ HandleSignal(p)
        PROVE  SemQueueInv'
    BY <1>2, SMTT(30) DEF LeaveState, TryLock, TryUnlock, Signal, HandleSignal
  <1>3. ASSUME NEW p \in Task, Enqueue(p) PROVE SemQueueInv'
    <2>1. /\ \A i \in DOMAIN task_list : i \in DOMAIN task_list' /\ task_list'[i] = task_list[i]
          /\ Len(task_list) + 1 \in DOMAIN task_list' /\ task_list'[Len(task_list) + 1] = p
      BY <1>3, SMTT(30) DEF Enqueue, add_wait_queue_exclusive
    <2> QED
      BY <1>3, <2>1, SMTT(30) DEF Enqueue
  <1>4. ASSUME NEW p \in Task, LeaveQueue(p) PROVE SemQueueInv'
    <2>1. PICK i \in DOMAIN task_list : task_list[i] = p /\ task_list' = list_del(task_list, i)
      BY <1>4 DEF LeaveQueue, remove_wait_queue
    <2>2. SUFFICES ASSUME NEW q \in Task, sempc'[q] \in Enqueued
                   PROVE  \E k \in DOMAIN task_list' : task_list'[k] = q
      BY SMTT(30)
    <2>3. q # p /\ sempc[q] \in Enqueued
      BY <1>4, <2>2 DEF LeaveQueue
    <2>4. PICK j \in DOMAIN task_list : task_list[j] = q
      BY <2>3, SMTT(30)
    <2> QED
      BY <2>1, <2>3, <2>4, OthersStay, SMTT(30)
  <1>5. ASSUME NEW p \in Task, Wake(p) \/ Scan(p) \/ Ttwu(p) PROVE SemQueueInv'
    BY <1>5 DEF Wake, Scan, Ttwu, WakeLock, WakeEnd, WakeSkip, WakeSee, WakeTry, WakeUnlock, WakeAdvance,
       AfterWake
  <1>6. CASE SignalRead \/ SignalWake \/ UNCHANGED semaphorevars
    BY <1>6 DEF SignalRead, SignalWake, semaphorevars
  <1> HIDE DEF TypeOK, WQTypeOK, TasksTypeOK, SemQueueInv, SemGoto, Call
  <1> QED
    BY <1>1, <1>2, <1>3, <1>4, <1>5, <1>6, SMTT(30) DEF SemNext, Step

(* A task that goes where it will try again, or call wake_up, is the rescuer. *)

\* A step to such a place keeps WakeInv.
LEMMA MoverRetries ==
  ASSUME TypeOK, NEW p \in Task, NEW to \in Retrying, sempc' = [sempc EXCEPT ![p] = to]
  PROVE  WakeInv'
  <1>1. sempc'[p] \in Retrying
    BY SMTT(30) DEF TypeOK
  <1>2. Retries(p)'
    BY <1>1 DEF Retries
  <1> QED
    BY <1>2 DEF WakeInv

\* So does a step that moves no task that matters, wakes at most, and leaves
\* sem->count negative where it was.
LEMMA NothingMoves ==
  ASSUME TypeOK, WakeInv, runqueue \subseteq runqueue', UNCHANGED <<task_list, cursor>>,
         \A q \in Task : state'[q] \in {state[q], "RUNNING"},
         \A q \in Task : sempc'[q] = sempc[q] \/ (sempc[q] \in {"idle", "tryunlock"} /\ sempc'[q] = "idle"),
         count < 0 /\ sleepers = 1 => count' < 0 /\ sleepers' = 1
  PROVE  WakeInv'
  <1>1. SUFFICES ASSUME NEW p \in Task, sempc'[p] \in Sleepy
                 PROVE  (\E q \in Task : Retries(q) \/ Scans(q))' \/ (count < 0 /\ sleepers = 1)'
    BY DEF WakeInv
  <1>2. \A q \in Task : sempc[q] \notin {"idle", "tryunlock"} => sempc'[q] = sempc[q]
    OBVIOUS
  <1>3. sempc[p] \in Sleepy
    BY <1>1 DEF Sleepy
  <1>4. ASSUME NEW q \in Task, Retries(q) PROVE Retries(q)'
    <2>1. sempc'[q] = sempc[q]
      BY <1>2, <1>4 DEF Retries, Retrying, PendingAt
    <2> QED
      BY <1>4, <2>1 DEF Retries
  <1>5. ASSUME NEW q \in Task, Scans(q) PROVE Scans(q)'
    <2>1. PICK i \in DOMAIN task_list : i >= cursor /\ sempc[task_list[i]] \in Sleepy
      BY <1>5 DEF Scans, Before
    <2>2. task_list[i] \in Task
      BY DEF TypeOK, WQTypeOK
    <2>3. sempc'[task_list[i]] \in Sleepy /\ sempc'[q] = sempc[q]
      BY <1>2, <1>5, <2>1, <2>2 DEF Sleepy, Scans
    <2> QED
      BY <1>5, <2>1, <2>3 DEF Scans, Before
  <1> QED
    BY <1>3, <1>4, <1>5 DEF WakeInv

\* schedule(): who goes to sleep there was not going to try again.
LEMMA ScheduleWakes ==
  ASSUME TypeOK, RunInv, WakeInv, NEW p \in Task, SemSchedule(p)
  PROVE  WakeInv'
  <1>1. sempc[p] = "schedule" /\ sempc' = [sempc EXCEPT ![p] = "resume"] /\ UNCHANGED <<task_list, cursor, count, sleepers>>
    BY DEF SemSchedule, SemGoto, wqvars, semvars
  <1>2. /\ p \in runqueue /\ (state[p] = "RUNNING" => p \in runqueue')
        /\ \A q \in Task \ {p} : state'[q] = state[q] /\ (q \in runqueue => q \in runqueue')
    BY <1>1 DEF SemSchedule, schedule, RunInv, TypeOK, WQTypeOK, TasksTypeOK
  <1>3. sempc'[p] = "resume" /\ \A q \in Task \ {p} : sempc'[q] = sempc[q]
    BY <1>1 DEF TypeOK
  <1>4. ASSUME NEW q \in Task, Retries(q) PROVE Retries(q)'
    <2>1. CASE q = p
      BY <1>1, <1>2, <1>3, <1>4, <2>1 DEF Retries, Retrying, PendingAt
    <2>2. CASE q # p
      BY <1>2, <1>3, <1>4, <2>2 DEF Retries
    <2> QED
      BY <2>1, <2>2
  <1>5. ASSUME NEW q \in Task, Scans(q) PROVE Scans(q)'
    <2>1. PICK i \in DOMAIN task_list : i >= cursor /\ sempc[task_list[i]] \in Sleepy
      BY <1>5 DEF Scans, Before
    <2>2. task_list[i] \in Task /\ q # p
      BY <1>1, <1>5 DEF TypeOK, WQTypeOK, Scans
    <2>3. sempc'[task_list[i]] \in Sleepy /\ sempc'[q] = sempc[q]
      BY <1>3, <2>1, <2>2 DEF Sleepy
    <2> QED
      BY <1>1, <1>5, <2>1, <2>3 DEF Scans, Before
  <1>6. \E q \in Task : sempc[q] \in Sleepy
    BY <1>1 DEF Sleepy
  <1> QED
    BY <1>1, <1>4, <1>5, <1>6 DEF WakeInv

\* A failed down_trylock that leaves sem->count negative has found another
\* task whose decrement is pending.
LEMMA TryLockWakes ==
  ASSUME TypeOK, CountInv', MutualExclusion', NEW p \in Task, TryLock(p)
  PROVE  WakeInv'
  <1>1. CASE count' >= 0
    <2>1. sempc' = [sempc EXCEPT ![p] = "wake"]
      BY <1>1 DEF TryLock, SemGoto, TypeOK
    <2> QED
      BY <2>1, MoverRetries, Zenon DEF Retrying
  <1>2. CASE count' < 0
    <2>0. Cardinality(holders') \in Nat
      BY HoldersStep, Zenon DEF TryLock
    <2>1. sleepers' = 0
      BY DEF TryLock
    <2>2. Cardinality(Pending') # 0
      BY <1>2, <2>0, <2>1, CountAssumption DEF CountInv, MutualExclusion
    <2>3. PICK q \in Task : sempc'[q] \in PendingAt
      BY <2>2, FS_EmptySet DEF Pending
    <2>4. Retries(q)'
      BY <2>3 DEF Retries, Retrying
    <2> QED
      BY <2>4 DEF WakeInv
  <1> QED
    BY <1>1, <1>2 DEF TryLock, TypeOK

\* wake_up() starts at the head of the queue, so it has every sleeper before it.
LEMMA WakeWakes ==
  ASSUME TypeOK, SemQueueInv, NEW p \in Task, Wake(p)
  PROVE  WakeInv'
  <1>1. sempc[p] = "wake" /\ sempc' = [sempc EXCEPT ![p] = "scan"] /\ cursor' = 1 /\ task_list' = task_list
    BY DEF Wake, WakeLock, SemGoto
  <1>2. SUFFICES ASSUME NEW q \in Task, sempc'[q] \in Sleepy
                 PROVE  Scans(p)'
    BY DEF WakeInv
  <1>3. q # p /\ sempc[q] \in Enqueued
    BY <1>1, <1>2 DEF TypeOK, Sleepy, Enqueued
  <1>4. PICK i \in DOMAIN task_list : task_list[i] = q
    BY <1>3 DEF SemQueueInv
  <1>5. i >= 1
    BY DEF TypeOK, WQTypeOK
  <1>6. Before'
    BY <1>1, <1>2, <1>4, <1>5 DEF Before
  <1> QED
    BY <1>1, <1>6 DEF Scans, TypeOK

\* A step of the scan: nobody else moves, and whoever it passes is awake or is
\* not one of the sleepers.
LEMMA ScanGoesOn ==
  ASSUME TypeOK, ScanInv, RunInv', WakeInv, NEW p \in Task, sempc[p] \in {"scan", "ttwu"}, NEW to \in PCs \ Sleepy,
         sempc' = [sempc EXCEPT ![p] = to], UNCHANGED <<task_list, count, sleepers>>,
         runqueue \subseteq runqueue', \A q \in Task : state'[q] \in {state[q], "RUNNING"},
         \/ to \in {"scan", "ttwu"} /\ cursor' = cursor
         \/ /\ to = "scan" /\ cursor' = cursor + 1
            /\ cursor \in DOMAIN task_list /\ state'[task_list[cursor]] = "RUNNING"
         \/ cursor > Len(task_list)
         \/ \E q \in Task : sempc[q] = "resume" /\ q \in runqueue'
  PROVE  WakeInv'
  <1>1. SUFFICES ASSUME NEW r \in Task, sempc'[r] \in Sleepy
                 PROVE  (\E q \in Task : Retries(q) \/ Scans(q))' \/ (count < 0 /\ sleepers = 1)'
    BY DEF WakeInv
  <1>2. sempc'[p] = to /\ \A q \in Task \ {p} : sempc'[q] = sempc[q]
    BY DEF TypeOK
  <1>3. sempc[r] \in Sleepy
    BY <1>1, <1>2
  <1>4. ASSUME NEW q \in Task, Retries(q) PROVE Retries(q)'
    <2>1. sempc'[q] = sempc[q]
      BY <1>2, <1>4 DEF Retries, Retrying, PendingAt
    <2> QED
      BY <1>4, <2>1 DEF Retries
  <1>5. ASSUME NEW q \in Task, Scans(q) PROVE \E u \in Task : (Retries(u) \/ Scans(u))'
    <2>1. q = p
      <3>1. qlock = p /\ qlock = q
        BY <1>5 DEF ScanInv, Scans
      <3> QED
        BY <3>1
    <2>2. PICK i \in DOMAIN task_list : i >= cursor /\ sempc[task_list[i]] \in Sleepy
      BY <1>5 DEF Scans, Before
    <2>3. i \in Nat /\ i <= Len(task_list) /\ cursor \in Nat /\ task_list[i] \in Task
      BY DEF TypeOK, WQTypeOK
    <2>4. sempc'[task_list[i]] = sempc[task_list[i]]
      BY <1>2, <2>2, <2>3 DEF Sleepy
    <2>5. CASE to \in {"scan", "ttwu"} /\ cursor' = cursor
      BY <1>2, <2>2, <2>4, <2>5 DEF Scans, Before
    <2>6. CASE /\ to = "scan" /\ cursor' = cursor + 1
               /\ cursor \in DOMAIN task_list /\ state'[task_list[cursor]] = "RUNNING"
      <3>1. CASE i = cursor
        <4> DEFINE u == task_list[i]
        <4>1. u \in Task /\ state'[u] = "RUNNING" /\ sempc'[u] \in Sleepy /\ sempc[u] = sempc'[u]
          BY <2>2, <2>3, <2>4, <2>6, <3>1
        <4>2. sempc'[u] = "resume" => u \in runqueue'
          BY <4>1 DEF RunInv
        <4>3. Retries(u)'
          BY <4>1, <4>2 DEF Retries, Sleepy
        <4> QED
          BY <4>1, <4>3
      <3>2. CASE i # cursor
        <4>1. i >= cursor'
          BY <2>2, <2>3, <2>6, <3>2
        <4> QED
          BY <1>2, <2>2, <2>4, <2>6, <4>1 DEF Scans, Before
      <3> QED
        BY <3>1, <3>2
    <2>7. CASE cursor > Len(task_list)
      BY <2>2, <2>3, <2>7
    <2>8. ASSUME NEW u \in Task, sempc[u] = "resume" /\ u \in runqueue' PROVE Retries(u)'
      BY <1>2, <2>8 DEF Retries
    <2> QED
      BY <2>5, <2>6, <2>7, <2>8
  <1> QED
    BY <1>3, <1>4, <1>5 DEF WakeInv

\* Every step keeps a rescuer for the sleepers.
LEMMA WakeStep ==
  ASSUME SemIInv, SemIInv', RunInv, RunInv', SemQueueInv, WakeInv, [SemNext]_semaphorevars
  PROVE  WakeInv'
  <1>0. TypeOK /\ ScanInv /\ SemLockInv /\ CountInv' /\ MutualExclusion'
    BY DEF SemIInv
  <1>1. ASSUME NEW p \in Task, NEW o \in Downs, DownFast(p, o) PROVE WakeInv'
    <2>0. count' \in Int /\ (count' < 0 \/ count' >= 0) /\ ~(count' < 0 /\ count' >= 0)
      BY <1>0, <1>1 DEF DownFast, TypeOK
    <2>1. CASE count' < 0
      <3>1. sempc' = [sempc EXCEPT ![p] = "try"] \/ sempc' = [sempc EXCEPT ![p] = "set"]
        BY <1>1, <2>0, <2>1, Zenon DEF DownFast, Call
      <3> QED
        BY <1>0, <3>1, MoverRetries DEF Retrying, PendingAt
    <2>2. CASE count' >= 0
      <3>1. sempc[p] = "idle" /\ sempc' = [sempc EXCEPT ![p] = "idle"] /\ UNCHANGED <<state, runqueue, task_list, cursor>>
        BY <1>1, <2>0, <2>2, Zenon DEF DownFast, Call, schedvars, wqvars
      <3>2. ~(count < 0)
        BY <1>0, <1>1, <2>2 DEF DownFast, TypeOK
      <3> QED
        BY <1>0, <3>1, <3>2, NothingMoves DEF TypeOK
    <2> QED
      BY <1>1, <2>1, <2>2 DEF DownFast
  <1>2. ASSUME NEW p \in Task, UpFast(p) PROVE WakeInv'
    <2>1. CASE count' <= 0
      <3>1. sempc' = [sempc EXCEPT ![p] = "wake"]
        BY <1>2, <2>1 DEF UpFast, Call
      <3> QED
        BY <1>0, <3>1, MoverRetries, Zenon DEF Retrying
    <2>2. CASE ~(count' <= 0)
      <3>1. sempc[p] = "idle" /\ sempc' = [sempc EXCEPT ![p] = "idle"] /\ UNCHANGED <<state, runqueue, task_list, cursor>>
        BY <1>2, <2>2 DEF UpFast, Call, schedvars, wqvars
      <3>2. ~(count < 0)
        BY <1>0, <1>2, <2>2 DEF UpFast, TypeOK
      <3> QED
        BY <1>0, <3>1, <3>2, NothingMoves DEF TypeOK
    <2> QED
      BY <2>1, <2>2
  <1>3. ASSUME NEW p \in Task, \/ SetState(p) \/ Enqueue(p) \/ Lock(p) \/ CritSignal(p) \/ SemResume(p)
                               \/ Relock(p) \/ LeaveQueue(p) \/ LeaveState(p)
        PROVE  WakeInv'
    <2>1. \E to \in {"enqueue", "lock", "crit", "got", "relock", "release", "wake"} : sempc' = [sempc EXCEPT ![p] = to]
      BY <1>3 DEF SetState, Enqueue, Lock, CritSignal, SemResume, Relock, LeaveQueue, LeaveState, SemGoto
    <2> QED
      BY <1>0, <2>1, MoverRetries, Zenon DEF Retrying, PendingAt
  <1>4. ASSUME NEW p \in Task, Crit(p) PROVE WakeInv'
    <2>1. sempc' = [sempc EXCEPT ![p] = "got"] \/ (count' < 0 /\ sleepers' = 1)
      BY <1>4 DEF Crit, SemGoto
    <2> QED
      BY <1>0, <2>1, MoverRetries DEF Retrying, WakeInv
  <1>5. ASSUME NEW p \in Task, SemSchedule(p) \/ TryLock(p) \/ Wake(p) PROVE WakeInv'
    BY <1>0, <1>5, ScheduleWakes, TryLockWakes, WakeWakes
  <1>6. ASSUME NEW p \in Task, TryUnlock(p) PROVE WakeInv'
    <2>1. /\ sempc[p] = "tryunlock" /\ sempc' = [sempc EXCEPT ![p] = "idle"]
          /\ UNCHANGED <<state, runqueue, task_list, cursor, count, sleepers>>
      BY <1>6 DEF TryUnlock, SemGoto, schedvars, wqvars
    <2> QED
      BY <1>0, <2>1, NothingMoves DEF TypeOK
  <1>7. ASSUME NEW p \in Task, Scan(p) PROVE WakeInv'
    <2>1. sempc[p] = "scan" /\ UNCHANGED <<state, runqueue, task_list, count, sleepers>>
      BY <1>7 DEF Scan, SemGoto, WakeEnd, WakeSkip, WakeSee, WakeUnlock, WakeAdvance, schedvars, wqvars, semvars
    <2>2. PICK to \in PCs \ Sleepy :
            /\ sempc' = [sempc EXCEPT ![p] = to]
            /\ \/ to = "ttwu" /\ cursor' = cursor
               \/ /\ to = "scan" /\ cursor' = cursor + 1 /\ ~ScanAtEnd /\ state[Scanned] \notin AnySleep
               \/ ScanAtEnd
      BY <1>7 DEF Scan, SemGoto, WakeEnd, WakeSkip, WakeSee, WakeAdvance, wqvars, AfterWake, PCs, Sleepy
    <2>3. ~ScanAtEnd => cursor \in DOMAIN task_list /\ task_list[cursor] \in Task
      BY <1>0, <2>1 DEF ScanAtEnd, ScanInv, TypeOK, WQTypeOK
    <2>4. ~ScanAtEnd /\ state[Scanned] \notin AnySleep => state'[task_list[cursor]] = "RUNNING"
      BY <1>0, <2>1, <2>3 DEF Scanned, AnySleep, TypeOK, WQTypeOK, TasksTypeOK, TaskStates
    <2> QED
      BY <1>0, <2>1, <2>2, <2>3, <2>4, ScanGoesOn, Zenon DEF ScanAtEnd
  <1>8. ASSUME NEW p \in Task, Ttwu(p) PROVE WakeInv'
    <2>1. sempc[p] = "ttwu" /\ UNCHANGED <<task_list, count, sleepers>>
      BY <1>8 DEF Ttwu, WakeTry, WakeUnlock, WakeAdvance, semvars
    <2>2. cursor \in DOMAIN task_list /\ task_list[cursor] \in Task
      BY <1>0, <2>1 DEF ScanInv, TypeOK, WQTypeOK
    <2>3. /\ runqueue \subseteq runqueue' /\ task_list[cursor] \in runqueue'
          /\ state' = [state EXCEPT ![task_list[cursor]] = "RUNNING"]
      BY <1>8 DEF Ttwu, WakeTry, try_to_wake_up, Scanned
    <2>4. state'[task_list[cursor]] = "RUNNING" /\ \A q \in Task : state'[q] \in {state[q], "RUNNING"}
      BY <1>0, <2>2, <2>3 DEF TypeOK, WQTypeOK, TasksTypeOK
    <2>5. CASE LastWoken
      <3>1. sempc[task_list[cursor]] = "resume"
        BY <2>2, <2>5 DEF LastWoken, WakesUp, Scanned, RunInv
      <3>2. PICK to \in PCs \ Sleepy : sempc' = [sempc EXCEPT ![p] = to]
        BY <1>8, <2>5, Zenon DEF Ttwu, SemGoto, AfterWake, PCs, Sleepy
      <3> QED
        BY <1>0, <2>1, <2>2, <2>3, <2>4, <3>1, <3>2, ScanGoesOn, Zenon
    <2>6. CASE ~LastWoken
      <3>1. sempc' = [sempc EXCEPT ![p] = "scan"] /\ cursor' = cursor + 1
        BY <1>8, <2>6 DEF Ttwu, SemGoto, WakeTry, WakeAdvance
      <3> QED
        BY <1>0, <2>1, <2>2, <2>3, <2>4, <3>1, ScanGoesOn, Zenon DEF PCs, Sleepy
    <2> QED
      BY <2>5, <2>6
  <1>9. ASSUME \/ \E p \in Task : Signal(p) \/ HandleSignal(p)
               \/ SignalRead \/ SignalWake \/ UNCHANGED semaphorevars
        PROVE  WakeInv'
    <2>1. UNCHANGED <<sempc, task_list, cursor, count, sleepers>>
      BY <1>9 DEF Signal, HandleSignal, SignalRead, SignalWake, semaphorevars, wqvars, semvars
    <2>2. runqueue \subseteq runqueue' /\ \A q \in Task : state'[q] \in {state[q], "RUNNING"}
      BY <1>0, <1>9 DEF Signal, HandleSignal, SignalRead, SignalWake, try_to_wake_up, semaphorevars, schedvars, TypeOK,
         WQTypeOK, TasksTypeOK
    <2> QED
      BY <1>0, <2>1, <2>2, NothingMoves
  <1> QED
    BY <1>1, <1>2, <1>3, <1>4, <1>5, <1>6, <1>7, <1>8, <1>9 DEF SemNext, Step

\* A rescuer is on the run queue; without one the semaphore is not available.
LEMMA WakeImplies ==
  ASSUME SemIInv, RunInv, WakeInv
  PROVE  NoLostWakeup
  <1>1. SUFFICES ASSUME Cardinality(holders) < Count, NEW p \in Task, SemAsleep(p)
                 PROVE  \E q \in runqueue : sempc[q] # "idle"
    BY DEF NoLostWakeup
  <1>2. ASSUME NEW q \in Task, Retries(q) \/ Scans(q) PROVE q \in runqueue /\ sempc[q] # "idle"
    BY <1>2 DEF Retries, Retrying, PendingAt, Scans, RunInv
  <1>3. CASE count < 0 /\ sleepers = 1
    <2>1. Cardinality(holders) \in Nat /\ Cardinality(Pending) \in Nat /\ Count \in Nat
      BY TaskAssumption, CountAssumption, FS_Subset, FS_CardinalityType DEF SemIInv, TypeOK, Pending
    <2>2. Cardinality(Pending) # 0
      BY <1>1, <1>3, <2>1 DEF SemIInv, CountInv
    <2>3. PICK q \in Task : sempc[q] \in PendingAt
      BY <2>2, FS_EmptySet DEF Pending
    <2> QED
      BY <1>2, <2>3 DEF Retries, Retrying
  <1> QED
    BY <1>1, <1>2, <1>3 DEF WakeInv, SemAsleep, Sleepy

(***************************************************************************)
(* The results.                                                            *)
(***************************************************************************)

\* Every variable of the semaphore, the wait queue and the scheduler keeps its
\* type; in particular sem->sleepers never exceeds 2.
THEOREM TypeCorrect == SemSpec => []TypeOK
  BY Inductive, PTL DEF SemIInv

\* down(), down_interruptible(), down_trylock() and up() never let more than
\* Count tasks hold the semaphore, for any finite set of tasks.
THEOREM SemaphoreIsSafe == SemSpec => []MutualExclusion
  BY Inductive, PTL DEF SemIInv

\* sem->count always equals the initial count less the holders, less the
\* failed attempts not yet in sem->sleepers, less sem->sleepers.
THEOREM CountIsExact == SemSpec => []CountInv
  BY Inductive, PTL DEF SemIInv

\* The fast paths and contention routines of arch/i386/kernel/semaphore.c
\* implement the abstract semaphore: down() returns only to a holder, the
\* others are turned away or granted, and each grant finds a free unit.
THEOREM SemaphoreRefines == SemSpec => ImplementsSemaphore
  <1>1. SemInit => AbsSem!Init
    BY FS_EmptySet, CountAssumption DEF SemInit, AbsSem!Init, Asking, Undecided, Free
  <1>2. SemIInv /\ [SemNext]_semaphorevars => [AbsSem!Next]_(AbsSem!absvars)
    BY RefineStep
  <1> QED
    BY <1>1, <1>2, Inductive, PTL DEF SemSpec, AbsSem!Spec, ImplementsSemaphore

\* If the semaphore is available while a task sleeps on it, some task is awake
\* inside the semaphore code, for any finite set of tasks, any initial count and
\* any number of signals: __down, __down_interruptible and __down_trylock pass the
\* wakeup on.
THEOREM WakeupsAreNotLost == SemSpec => []NoLostWakeup
  <1>1. SemInit => RunInv /\ SemQueueInv /\ WakeInv
    BY DEF SemInit, WQInit, TasksInit, RunInv, SemQueueInv, Enqueued, WakeInv, Sleepy
  <1>2. SemIInv /\ SemIInv' /\ RunInv /\ SemQueueInv /\ WakeInv /\ [SemNext]_semaphorevars => RunInv' /\ SemQueueInv' /\ WakeInv'
    BY RunStep, QueueStep, WakeStep DEF SemIInv
  <1>3. SemIInv /\ RunInv /\ WakeInv => NoLostWakeup
    BY WakeImplies
  <1> QED
    BY <1>1, <1>2, <1>3, Inductive, PTL DEF SemSpec

-----------------------------------------------------------------------------
(* The generic rw-semaphore. *)

WaitPcs == {"check", "schedule", "resume"}
Waking  == {"grant", "ttwu"}

Types ==
  /\ wait_list \in Seq(Task) /\ todo \in Seq(Task)
  /\ flags \in [Task -> Modes] /\ want \in [Task -> Modes]
  /\ readers \subseteq Task /\ writers \subseteq Task
  /\ pc \in [Task -> {"idle"} \cup WaitPcs \cup Waking]

\* Who releases waiters has wait_lock; nobody else has waiters to release.
LockInv ==
  /\ wait_lock = NoTask <=> todo = <<>>
  /\ \A p \in Task : pc[p] \in Waking <=> wait_lock = p

\* A task wants the lock while it waits, and is idle while it has it.
CallInv ==
  \A p \in Task :
    /\ want[p] # "none" <=> pc[p] \in WaitPcs
    /\ p \in readers \cup writers => pc[p] = "idle"

\* Tasks queue once, their flags say what they want, and a task that is released
\* is no longer queued.
QueueInv ==
  /\ \A i, j \in DOMAIN wait_list : wait_list[i] = wait_list[j] => i = j
  /\ \A i \in DOMAIN wait_list : flags[wait_list[i]] = want[wait_list[i]] /\ want[wait_list[i]] # "none"
  /\ \A i \in DOMAIN wait_list, j \in DOMAIN todo : wait_list[i] # todo[j]

R == Holders("read", readers)
W == Holders("write", writers)

\* One writer or some readers, and activity says which.
HoldInv ==
  /\ W # {} => R = {} /\ activity = -1 /\ \E p \in Task : W = {p}
  /\ W = {} => activity = Cardinality(R)
  /\ WriterIsFirst

IInv == Types /\ LockInv /\ CallInv /\ QueueInv /\ HoldInv

-----------------------------------------------------------------------------
(* The queue. *)

\* The number of waiters that __rwsem_do_wake releases.
LEMMA FrontIs ==
  ASSUME Types, QueueInv, wait_list # <<>>
  PROVE  /\ Front \in 1 .. Len(wait_list)
         /\ \/ flags[wait_list[1]] = "write" /\ Front = 1
            \/ /\ flags[wait_list[1]] = "read"
               /\ \A i \in 1 .. Front : flags[wait_list[i]] = "read"
               /\ Front = Len(wait_list) \/ flags[wait_list[Front + 1]] = "write"
<1>0. /\ Len(wait_list) \in Nat \ {0} /\ DOMAIN wait_list = 1 .. Len(wait_list)
      /\ Head(wait_list) = wait_list[1]
  BY DEF Types
<1>1. \A i \in 1 .. Len(wait_list) : flags[wait_list[i]] \in {"read", "write"}
  BY <1>0 DEF Types, QueueInv, Modes
<1>2. CASE flags[wait_list[1]] = "write"
  BY <1>0, <1>2 DEF Front
<1>3. CASE flags[wait_list[1]] = "read"
  <2> DEFINE OK(n) == /\ \A i \in 1 .. n : flags[wait_list[i]] = "read"
                      /\ n = Len(wait_list) \/ flags[wait_list[n + 1]] # "read"
             T == {i \in 1 .. Len(wait_list) : flags[wait_list[i]] # "read"}
  <2>1. \E n \in 1 .. Len(wait_list) : OK(n)
    <3>1. CASE T = {}
      <4>1. Len(wait_list) \in 1 .. Len(wait_list)
        BY <1>0
      <4>2. OK(Len(wait_list))
        BY <3>1
      <4> QED BY <4>1, <4>2
    <3>2. CASE T # {}
      <4>1. T \subseteq Nat
        BY <1>0
      <4>2. \E m \in T : \A y \in T : ~(<<y, m>> \in OpToRel(<, Nat))
        <5> HIDE DEF T
        <5> QED BY <3>2, <4>1, WFMin, NatLessThanWellFounded
      <4>3. PICK m \in T : \A y \in T : ~(<<y, m>> \in OpToRel(<, Nat))
        BY <4>2
      <4>4. \A y \in T : ~(y < m)
        BY <4>1, <4>3 DEF OpToRel
      <4>5. m - 1 \in 1 .. Len(wait_list) /\ flags[wait_list[(m - 1) + 1]] # "read"
        BY <1>0, <1>3
      <4>6. \A i \in 1 .. m - 1 : flags[wait_list[i]] = "read"
        BY <1>0, <4>4
      <4> QED BY <4>5, <4>6
    <3> QED BY <3>1, <3>2
  <2>2. Front = CHOOSE n \in 1 .. Len(wait_list) : OK(n)
    BY <1>0, <1>3 DEF Front
  <2> HIDE DEF OK
  <2>3. Front \in 1 .. Len(wait_list) /\ OK(Front)
    BY <2>1, <2>2
  <2>4. Front = Len(wait_list) \/ Front + 1 \in 1 .. Len(wait_list)
    <3>1. \A l \in Nat : \A f \in 1 .. l : f = l \/ f + 1 \in 1 .. l
      OBVIOUS
    <3> QED BY <1>0, <2>3, <3>1
  <2> USE DEF OK
  <2>5. Front = Len(wait_list) \/ flags[wait_list[Front + 1]] = "write"
    BY <1>1, <2>3, <2>4
  <2> HIDE DEF T
  <2> QED BY <1>3, <2>3, <2>5, Zenon
<1> QED BY <1>0, <1>1, <1>2, <1>3

\* The first n waiters leave the queue.
LEMMA DequeueIs ==
  ASSUME Types, NEW n \in 1 .. Len(wait_list), Dequeue(n)
  PROVE  /\ todo' \in Seq(Task) /\ Len(todo') = n /\ \A i \in 1 .. n : todo'[i] = wait_list[i]
         /\ wait_list' \in Seq(Task) /\ Len(wait_list') = Len(wait_list) - n
         /\ \A i \in 1 .. Len(wait_list) - n : wait_list'[i] = wait_list[n + i]
  BY DEF Types, Dequeue

-----------------------------------------------------------------------------
(* Calls, wait_lock and the queue, action by action. *)

Struct == Types /\ LockInv /\ CallInv /\ QueueInv

\* up finds nobody to wake, or wakes the first n waiters.
UpKeeps(p) ==
  /\ p \in readers \cup writers /\ wait_lock = NoTask
  /\ readers' = readers \ {p} /\ writers' = writers \ {p}
  /\ pc' = [pc EXCEPT ![p] = "idle"]
  /\ UNCHANGED <<flags, want, wait_lock, wait_list, todo>>

UpWakes(p, n) ==
  /\ p \in readers \cup writers /\ wait_lock = NoTask
  /\ readers' = readers \ {p} /\ writers' = writers \ {p}
  /\ n \in 1 .. Len(wait_list) /\ Dequeue(n)
  /\ pc' = [pc EXCEPT ![p] = "grant"] /\ wait_lock' = p
  /\ UNCHANGED <<flags, want>>

\* A task that gets the lock at once leaves the queue as it is.
LEMMA TakeStruct ==
  ASSUME Struct, NEW p \in Task, NEW mode \in {"read", "write"}, Take(p, mode)
  PROVE  Struct'
<1> USE DEF Struct
<1>1. /\ pc[p] = "idle" /\ UNCHANGED <<wait_lock, wait_list, flags, want, todo, pc>>
      /\ readers' \subseteq readers \cup {p} /\ writers' \subseteq writers \cup {p}
  BY DEF Take, Idle, Hold
<1>2. Types' /\ LockInv' /\ QueueInv'
  BY <1>1 DEF Types, LockInv, QueueInv
<1>3. CallInv'
  BY <1>1 DEF CallInv
<1> QED BY <1>2, <1>3

\* A task that cannot have the lock joins the queue, once and at its end.
LEMMA JoinStruct ==
  ASSUME Struct, NEW p \in Task, NEW mode \in {"read", "write"}, Join(p, mode)
  PROVE  /\ Struct' /\ p \notin Range(wait_list) /\ want' = [want EXCEPT ![p] = mode]
         /\ Len(wait_list') = Len(wait_list) + 1 /\ wait_list'[Len(wait_list) + 1] = p
         /\ \A i \in 1 .. Len(wait_list) : wait_list'[i] = wait_list[i]
<1> USE DEF Struct
<1>1. /\ pc[p] = "idle" /\ p \notin readers \cup writers /\ wait_lock = NoTask /\ todo = <<>>
      /\ flags' = [flags EXCEPT ![p] = mode] /\ want' = [want EXCEPT ![p] = mode]
      /\ wait_list' = Append(wait_list, p) /\ pc' = [pc EXCEPT ![p] = "check"]
      /\ UNCHANGED <<wait_lock, todo, readers, writers>>
  BY DEF Join, Idle, Goto, LockInv
<1>2. want[p] = "none" /\ \A i \in DOMAIN wait_list : wait_list[i] # p
  BY <1>1 DEF CallInv, QueueInv, Types, WaitPcs
<1>3. /\ wait_list \in Seq(Task) /\ DOMAIN wait_list = 1 .. Len(wait_list) /\ Len(wait_list) \in Nat
      /\ wait_list' \in Seq(Task) /\ DOMAIN wait_list' = 1 .. Len(wait_list) + 1
      /\ Len(wait_list') = Len(wait_list) + 1
      /\ wait_list'[Len(wait_list) + 1] = p
      /\ \A i \in 1 .. Len(wait_list) : wait_list'[i] = wait_list[i]
  BY <1>1 DEF Types
<1>4. Types'
  BY <1>1, <1>3 DEF Types, Modes, WaitPcs
<1>5. LockInv'
  BY <1>1 DEF LockInv, Types, Waking
<1>6. CallInv'
  BY <1>1 DEF CallInv, Types, WaitPcs
<1>7. QueueInv'
  <2>1. \A i \in DOMAIN wait_list' : wait_list'[i] = IF i = Len(wait_list) + 1 THEN p ELSE wait_list[i]
    BY <1>3
  <2>2. \A i \in DOMAIN wait_list' : i = Len(wait_list) + 1 \/ i \in DOMAIN wait_list
    BY <1>3
  <2>3. \A i, j \in DOMAIN wait_list' : wait_list'[i] = wait_list'[j] => i = j
    BY <1>2, <2>1, <2>2 DEF QueueInv
  <2>4. \A i \in DOMAIN wait_list' :
          flags'[wait_list'[i]] = want'[wait_list'[i]] /\ want'[wait_list'[i]] # "none"
    BY <1>1, <1>2, <1>3, <2>1, <2>2 DEF QueueInv, Types
  <2>5. DOMAIN todo' = {}
    BY <1>1
  <2> QED BY <2>3, <2>4, <2>5 DEF QueueInv
<1>8. p \notin Range(wait_list)
  BY <1>2 DEF Range
<1> QED BY <1>1, <1>3, <1>4, <1>5, <1>6, <1>7, <1>8

\* A release that wakes nobody leaves the queue as it is.
LEMMA UpKeepsStruct ==
  ASSUME Struct, NEW p \in Task, UpKeeps(p)
  PROVE  Struct'
<1> USE DEF Struct
<1>1. pc[p] = "idle" /\ pc' = pc /\ UNCHANGED <<flags, want, wait_lock, wait_list, todo>>
      /\ readers' \subseteq readers /\ writers' \subseteq writers
  BY DEF UpKeeps, CallInv, Types
<1>2. Types' /\ LockInv' /\ QueueInv'
  BY <1>1 DEF Types, LockInv, QueueInv
<1>3. CallInv'
  BY <1>1 DEF CallInv
<1> QED BY <1>2, <1>3

\* A release takes the waiters it wakes off the queue, and keeps wait_lock for them.
LEMMA UpWakesStruct ==
  ASSUME Struct, NEW p \in Task, NEW n, UpWakes(p, n)
  PROVE  Struct'
<1> USE DEF Struct
<1>1. /\ pc[p] = "idle" /\ wait_lock = NoTask /\ wait_lock' = p /\ pc' = [pc EXCEPT ![p] = "grant"]
      /\ UNCHANGED <<flags, want>> /\ readers' = readers \ {p} /\ writers' = writers \ {p}
      /\ n \in 1 .. Len(wait_list) /\ Dequeue(n)
  BY DEF UpWakes, CallInv
<1>2. /\ todo' \in Seq(Task) /\ Len(todo') = n /\ \A i \in 1 .. n : todo'[i] = wait_list[i]
      /\ wait_list' \in Seq(Task) /\ Len(wait_list') = Len(wait_list) - n
      /\ \A i \in 1 .. Len(wait_list) - n : wait_list'[i] = wait_list[n + i]
  BY <1>1, DequeueIs
<1>3. Types'
  BY <1>1, <1>2 DEF Types, Waking
<1>4. LockInv'
  <2>1. todo' # <<>> /\ wait_lock' # NoTask
    BY <1>1, <1>2, TaskAssumption
  <2>2. \A q \in Task : pc'[q] \in Waking <=> wait_lock' = q
    BY <1>1, TaskAssumption DEF Types, LockInv, Waking
  <2> QED BY <2>1, <2>2 DEF LockInv
<1>5. CallInv'
  BY <1>1 DEF CallInv, Types, WaitPcs
<1>6. QueueInv'
  <2>0. /\ wait_list \in Seq(Task) /\ Len(wait_list) \in Nat /\ n \in Nat /\ n <= Len(wait_list)
        /\ DOMAIN wait_list = 1 .. Len(wait_list)
        /\ DOMAIN wait_list' = 1 .. Len(wait_list) - n /\ DOMAIN todo' = 1 .. n
    BY <1>1, <1>2 DEF Types
  <2>1. \A i \in DOMAIN wait_list' : n + i \in DOMAIN wait_list /\ wait_list'[i] = wait_list[n + i]
    BY <1>2, <2>0
  <2>2. ASSUME NEW i \in DOMAIN wait_list', NEW j \in DOMAIN wait_list', wait_list'[i] = wait_list'[j]
        PROVE  i = j
    <3>1. n + i = n + j
      BY <2>1, <2>2 DEF QueueInv
    <3> QED BY <2>0, <3>1
  <2>3. \A i \in DOMAIN wait_list' :
          flags'[wait_list'[i]] = want'[wait_list'[i]] /\ want'[wait_list'[i]] # "none"
    BY <1>1, <2>1 DEF QueueInv
  <2>4. ASSUME NEW i \in DOMAIN wait_list', NEW j \in DOMAIN todo' PROVE wait_list'[i] # todo'[j]
    <3>1. j \in DOMAIN wait_list /\ todo'[j] = wait_list[j] /\ n + i # j
      BY <1>2, <2>0
    <3> QED BY <2>1, <3>1 DEF QueueInv
  <2> QED BY <2>2, <2>3, <2>4 DEF QueueInv
<1> QED BY <1>3, <1>4, <1>5, <1>6

\* The waiters change nothing that the holders and the queue depend on.
Keeps ==
  /\ R' = R /\ W' = W /\ wait_list' = wait_list
  /\ \A i \in DOMAIN wait_list : /\ flags'[wait_list[i]] = flags[wait_list[i]]
                                 /\ want'[wait_list[i]] = want[wait_list[i]]

Granting(mode, returned) == returned \cup {p \in Task : want[p] = mode /\ p \notin Range(wait_list)}

\* The holders: those that have returned with the lock, and those that wait for it
\* and have left the queue.
LEMMA HoldersAre ==
  ASSUME Types
  PROVE  R = Granting("read", readers) /\ W = Granting("write", writers)
  BY DEF Types, R, W, Holders, Granting, WaitPcs, Waking

\* The same after a step.
LEMMA HoldersArePrime ==
  ASSUME Types'
  PROVE  R' = Granting("read", readers)' /\ W' = Granting("write", writers)'
  BY DEF Types, R, W, Holders, Granting, WaitPcs, Waking

\* The steps of a waiter and of the waker that grants one.
LEMMA WaiterStruct ==
  ASSUME Struct, NEW p \in Task, WaiterStep(p)
  PROVE  Struct' /\ Keeps
<1> USE DEF Struct
<1>w. wait_list \in Seq(Task) /\ todo \in Seq(Task)
  BY DEF Types
<1>1. CASE Granted(p)
  <2>1. /\ flags[p] = "none" /\ pc[p] = "check" /\ pc' = [pc EXCEPT ![p] = "idle"]
        /\ readers' = (IF want[p] = "read" THEN readers \cup {p} ELSE readers)
        /\ writers' = (IF want[p] = "write" THEN writers \cup {p} ELSE writers)
        /\ want' = [want EXCEPT ![p] = "none"]
        /\ UNCHANGED <<wait_lock, wait_list, flags, todo>>
    BY <1>1 DEF Granted, Goto, Hold
  <2>2. \A i \in DOMAIN wait_list : wait_list[i] # p
    BY <2>1 DEF QueueInv
  <2>3. Types'
    BY <2>1 DEF Types, Modes
  <2>4. LockInv'
    BY <2>1 DEF LockInv, Types, Waking
  <2>5. CallInv'
    BY <2>1 DEF CallInv, Types, WaitPcs
  <2>6. QueueInv' /\ \A i \in DOMAIN wait_list : want'[wait_list[i]] = want[wait_list[i]]
    BY <1>w, <2>1, <2>2 DEF QueueInv, Types
  <2>7. p \notin Range(wait_list)
    BY <2>2 DEF Range
  <2>8. Granting("read", readers)' = Granting("read", readers)
    BY <2>1, <2>7 DEF Granting, Types
  <2>9. Granting("write", writers)' = Granting("write", writers)
    BY <2>1, <2>7 DEF Granting, Types
  <2> QED BY <2>1, <2>3, <2>4, <2>5, <2>6, <2>8, <2>9, HoldersAre, HoldersArePrime DEF Keeps
<1>2. CASE NotGranted(p) \/ Schedule(p) \/ Resume(p)
  <2>1. \E q \in WaitPcs : pc[p] \in WaitPcs /\ pc' = [pc EXCEPT ![p] = q]
    BY <1>2 DEF NotGranted, Schedule, Resume, Goto, WaitPcs
  <2>2. PICK q \in WaitPcs : pc[p] \in WaitPcs /\ pc' = [pc EXCEPT ![p] = q]
    BY <2>1
  <2>3. UNCHANGED <<wait_lock, wait_list, flags, want, todo, readers, writers>>
    BY <1>2 DEF NotGranted, Schedule, Resume, waitervars
  <2>4. Types'
    BY <2>2, <2>3 DEF Types
  <2>5. LockInv'
    BY <2>2, <2>3 DEF LockInv, Types, WaitPcs, Waking
  <2>6. CallInv'
    BY <2>2, <2>3 DEF CallInv, Types, WaitPcs
  <2>7. QueueInv'
    BY <2>3 DEF QueueInv
  <2>8. Granting("read", readers)' = Granting("read", readers)
        /\ Granting("write", writers)' = Granting("write", writers)
    BY <2>3 DEF Granting
  <2> QED BY <2>3, <2>4, <2>5, <2>6, <2>7, <2>8, HoldersAre, HoldersArePrime DEF Keeps
<1>3. CASE Grant(p)
  <2>1. /\ pc[p] = "grant" /\ pc' = [pc EXCEPT ![p] = "ttwu"]
        /\ flags' = [flags EXCEPT ![Head(todo)] = "none"]
        /\ UNCHANGED <<wait_lock, wait_list, want, todo, readers, writers>>
    BY <1>3 DEF Grant, Goto
  <2>2. todo # <<>>
    BY <2>1, TaskAssumption DEF LockInv, Waking
  <2>3. 1 \in DOMAIN todo /\ Head(todo) = todo[1]
    BY <1>w, <2>2
  <2>4. \A i \in DOMAIN wait_list : wait_list[i] # Head(todo)
    BY <2>3 DEF QueueInv
  <2>5. Types'
    BY <2>1 DEF Types, Modes, Waking
  <2>6. LockInv'
    BY <2>1 DEF LockInv, Types, Waking
  <2>7. CallInv'
    BY <2>1 DEF CallInv, Types, WaitPcs
  <2>8. \A i \in DOMAIN wait_list : flags'[wait_list[i]] = flags[wait_list[i]]
    BY <1>w, <2>1, <2>4 DEF Types
  <2>9. QueueInv'
    BY <2>1, <2>8 DEF QueueInv
  <2>10. Granting("read", readers)' = Granting("read", readers)
         /\ Granting("write", writers)' = Granting("write", writers)
    BY <2>1 DEF Granting
  <2> QED BY <2>1, <2>5, <2>6, <2>7, <2>8, <2>9, <2>10, HoldersAre, HoldersArePrime DEF Keeps
<1>4. CASE WakeUp(p)
  <2>0. pc[p] = "ttwu" /\ wait_lock = p /\ want[p] = "none" /\ todo # <<>>
    BY <1>4, TaskAssumption DEF WakeUp, LockInv, CallInv, Types, Modes, WaitPcs, Waking
  <2>1. /\ todo' = Tail(todo)
        /\ \/ todo' # <<>> /\ pc' = [pc EXCEPT ![p] = "grant"] /\ wait_lock' = wait_lock
           \/ todo' = <<>> /\ pc' = [pc EXCEPT ![p] = "idle"] /\ wait_lock' = NoTask
        /\ UNCHANGED <<wait_list, flags, want, readers, writers>>
    BY <1>4, <2>0 DEF WakeUp, Unlock, Goto
  <2>2. todo' \in Seq(Task) /\ \A i \in DOMAIN todo' : i + 1 \in DOMAIN todo /\ todo'[i] = todo[i + 1]
    BY <1>w, <2>0, <2>1
  <2>3. Types'
    BY <2>1, <2>2 DEF Types, Waking
  <2>4. LockInv'
    BY <2>0, <2>1, TaskAssumption DEF LockInv, Types, Waking
  <2>5. CallInv'
    BY <2>0, <2>1 DEF CallInv, Types, WaitPcs
  <2>6. QueueInv'
    BY <2>1, <2>2 DEF QueueInv
  <2>7. Granting("read", readers)' = Granting("read", readers)
        /\ Granting("write", writers)' = Granting("write", writers)
    BY <2>1 DEF Granting
  <2> QED BY <2>1, <2>3, <2>4, <2>5, <2>6, <2>7, HoldersAre, HoldersArePrime DEF Keeps
<1> QED BY <1>1, <1>2, <1>3, <1>4 DEF WaiterStep

-----------------------------------------------------------------------------
(* The holders, and the steps of the abstract semaphore. *)

Q == [i \in DOMAIN wait_list |-> <<wait_list[i], want[wait_list[i]]>>]

\* Finitely many tasks hold the lock.
LEMMA HoldersFinite ==
  ASSUME Types
  PROVE  /\ R \subseteq Task /\ W \subseteq Task
         /\ IsFiniteSet(R) /\ Cardinality(R) \in Nat
         /\ Cardinality(R) = 0 <=> R = {}
         /\ \A p \in R : Cardinality(R \ {p}) = Cardinality(R) - 1
         /\ \A p \in Task \ R : Cardinality(R \cup {p}) = Cardinality(R) + 1
<1>1. R \subseteq Task /\ W \subseteq Task
  BY DEF Types, R, W, Holders
<1>2. IsFiniteSet(R)
  BY <1>1, TaskAssumption, FS_Subset
<1>3. Cardinality(R) \in Nat /\ (Cardinality(R) = 0 <=> R = {})
  BY <1>2, FS_CardinalityType, FS_EmptySet
<1>4. ASSUME NEW p \in R PROVE Cardinality(R \ {p}) = Cardinality(R) - 1
  BY <1>2, FS_RemoveElement
<1>5. ASSUME NEW p \in Task \ R PROVE Cardinality(R \cup {p}) = Cardinality(R) + 1
  BY <1>2, FS_AddElement
<1> QED BY <1>1, <1>2, <1>3, <1>4, <1>5

\* Taking the lock at once adds one holder, and activity says so.
LEMMA TakeHolds ==
  ASSUME IInv, NEW p \in Task, NEW mode \in {"read", "write"}, Take(p, mode)
  PROVE  HoldInv' /\ Abs!Next
<1>0. Struct /\ HoldInv /\ Types
  BY DEF IInv, Struct
<1>1. Types'
  BY <1>0, TakeStruct DEF Struct
<1>2. /\ pc[p] = "idle" /\ p \notin readers \cup writers /\ wait_list = <<>> /\ wait_list' = wait_list /\ want' = want
      /\ activity' = (IF mode = "read" THEN activity + 1 ELSE -1)
      /\ readers' = (IF mode = "read" THEN readers \cup {p} ELSE readers)
      /\ writers' = (IF mode = "write" THEN writers \cup {p} ELSE writers)
      /\ IF mode = "read" THEN activity >= 0 ELSE activity = 0
  BY DEF Take, Idle, Hold, MayRead, MayWrite
<1>3. want[p] = "none"
  BY <1>0, <1>2 DEF Struct, CallInv, WaitPcs
<1>4. p \notin R /\ p \notin W
  BY <1>0, <1>2, <1>3, HoldersAre DEF Granting
<1>5. W = {} /\ activity = Cardinality(R) /\ Cardinality(R) \in Nat
  <2>1. activity # -1
    BY <1>2
  <2> QED BY <1>0, <2>1, HoldersFinite DEF HoldInv
<1>6. WriterIsFirst' /\ Q = <<>> /\ Q' = <<>>
  BY <1>2 DEF WriterIsFirst, Q
<1>7. CASE mode = "read"
  <2>1. R' = R \cup {p}
    BY <1>0, <1>1, <1>2, <1>7, HoldersAre, HoldersArePrime DEF Granting
  <2>2. W' = W
    BY <1>0, <1>1, <1>2, <1>7, HoldersAre, HoldersArePrime DEF Granting
  <2>3. activity' = Cardinality(R')
    BY <1>0, <1>2, <1>4, <1>5, <1>7, <2>1, HoldersFinite
  <2>4. Abs!ReadNow(p)
    BY <1>4, <1>5, <1>6, <2>1, <2>2 DEF Abs!ReadNow, Abs!Holds, R, W, Q
  <2> QED BY <1>5, <1>6, <2>2, <2>3, <2>4 DEF HoldInv, Abs!Next
<1>8. CASE mode = "write"
  <2>1. R' = R
    BY <1>0, <1>1, <1>2, <1>8, HoldersAre, HoldersArePrime DEF Granting
  <2>2. W' = W \cup {p}
    BY <1>0, <1>1, <1>2, <1>8, HoldersAre, HoldersArePrime DEF Granting
  <2>3. R = {} /\ activity' = -1 /\ W' = {p}
    <3>1. Cardinality(R) = 0
      BY <1>2, <1>5, <1>8
    <3> QED BY <1>0, <1>2, <1>5, <1>8, <2>2, <3>1, HoldersFinite
  <2>4. Abs!WriteNow(p)
    BY <1>5, <1>6, <2>1, <2>3 DEF Abs!WriteNow, R, W, Q
  <2> QED BY <1>6, <2>1, <2>3, <2>4 DEF HoldInv, Abs!Next
<1> QED BY <1>7, <1>8

\* Joining the queue changes no holder, and leaves a writer first behind readers.
LEMMA JoinHolds ==
  ASSUME IInv, NEW p \in Task, NEW mode \in {"read", "write"}, Join(p, mode)
  PROVE  HoldInv' /\ Abs!Next
<1>0. Struct /\ HoldInv /\ Types
  BY DEF IInv, Struct
<1>1. /\ Types' /\ p \notin Range(wait_list) /\ want' = [want EXCEPT ![p] = mode]
      /\ Len(wait_list') = Len(wait_list) + 1 /\ wait_list'[Len(wait_list) + 1] = p
      /\ \A i \in 1 .. Len(wait_list) : wait_list'[i] = wait_list[i]
  BY <1>0, JoinStruct DEF Struct
<1>2. /\ pc[p] = "idle" /\ p \notin readers \cup writers /\ UNCHANGED <<readers, writers, activity>>
      /\ ~(IF mode = "read" THEN MayRead ELSE MayWrite)
      /\ flags' = [flags EXCEPT ![p] = mode] /\ wait_list' = Append(wait_list, p)
  BY DEF Join, Idle
<1>3. /\ DOMAIN wait_list = 1 .. Len(wait_list) /\ Len(wait_list) \in Nat
      /\ DOMAIN wait_list' = 1 .. Len(wait_list) + 1 /\ wait_list \in Seq(Task)
  BY <1>0, <1>1 DEF Types
<1>4. want[p] = "none"
  BY <1>0, <1>2 DEF Struct, CallInv, WaitPcs
<1>5. p \notin R /\ p \notin W
  BY <1>0, <1>2, <1>4, HoldersAre DEF Granting
<1>6. Range(wait_list') = Range(wait_list) \cup {p}
  BY <1>1, <1>3 DEF Range
<1>7. R' = R
  BY <1>0, <1>1, <1>2, <1>4, <1>6, HoldersAre, HoldersArePrime DEF Granting, Types
<1>8. W' = W
  BY <1>0, <1>1, <1>2, <1>4, <1>6, HoldersAre, HoldersArePrime DEF Granting, Types
<1>9. \A i \in DOMAIN wait_list : wait_list[i] # p /\ wait_list[i] \in Task
  BY <1>1, <1>3 DEF Range
<1>10. Q' = Append(Q, <<p, mode>>)
  <2>1. /\ Q \in Seq(Task \X Modes) /\ Len(Q) = Len(wait_list)
        /\ \A i \in 1 .. Len(wait_list) : Q[i] = <<wait_list[i], want[wait_list[i]]>>
    <3>1. \A i \in 1 .. Len(wait_list) : <<wait_list[i], want[wait_list[i]]>> \in Task \X Modes
      BY <1>0, <1>3 DEF Types
    <3>2. Q = [i \in 1 .. Len(wait_list) |-> <<wait_list[i], want[wait_list[i]]>>]
      BY <1>3 DEF Q
    <3>3. \A i \in 1 .. Len(wait_list) : Q[i] = <<wait_list[i], want[wait_list[i]]>>
      BY <3>2, Zenon
    <3>4. Q \in [1 .. Len(wait_list) -> Task \X Modes]
      BY <3>1, <3>2, Zenon
    <3> HIDE DEF Q
    <3>5. Q \in Seq(Task \X Modes) /\ Len(Q) = Len(wait_list)
      BY <1>3, <3>4
    <3> QED BY <3>3, <3>5
  <2>2. \A i \in 1 .. Len(wait_list) + 1 :
          Q'[i] = IF i = Len(wait_list) + 1 THEN <<p, mode>> ELSE Q[i]
    BY <1>0, <1>1, <1>3, <1>9, <2>1 DEF Q, Types
  <2>3. DOMAIN Q' = 1 .. Len(wait_list) + 1 /\ Q' = [i \in 1 .. Len(wait_list) + 1 |-> Q'[i]]
    BY <1>3 DEF Q
  <2> DEFINE A == Append(Q, <<p, mode>>)
  <2>4. DOMAIN A = 1 .. Len(wait_list) + 1 /\ A = [i \in 1 .. Len(wait_list) + 1 |-> A[i]]
        /\ \A i \in 1 .. Len(wait_list) + 1 :
             A[i] = IF i = Len(wait_list) + 1 THEN <<p, mode>> ELSE Q[i]
    <3> HIDE DEF Q
    <3> QED BY <1>3, <2>1
  <2> HIDE DEF Q, A
  <2>5. \A i \in 1 .. Len(wait_list) + 1 : Q'[i] = A[i]
    BY <2>2, <2>4, Zenon
  <2>6. Q' = A
    BY <2>3, <2>4, <2>5, Zenon
  <2> QED BY <2>6 DEF A
<1>11. WriterIsFirst'
  <2>1. SUFFICES ASSUME activity' > 0, wait_list' # <<>> PROVE flags'[Head(wait_list')] = "write"
    BY DEF WriterIsFirst
  <2>2. Head(wait_list') = wait_list'[1]
    BY <1>1, <1>3 DEF Types
  <2>3. CASE wait_list = <<>>
    <3>1. mode = "write"
      BY <1>0, <1>2, <2>1, <2>3, HoldersFinite DEF MayRead, HoldInv
    <3>2. wait_list'[1] = p
      BY <1>1, <1>2, <2>3
    <3>3. flags'[p] = mode
      BY <1>0, <1>2 DEF Types
    <3> QED BY <2>2, <3>1, <3>2, <3>3
  <2>4. CASE wait_list # <<>>
    <3>1. 1 \in DOMAIN wait_list /\ wait_list'[1] = wait_list[1] /\ Head(wait_list) = wait_list[1]
      BY <1>1, <1>3, <2>4
    <3>2. flags[wait_list[1]] = "write"
      BY <1>0, <1>2, <2>1, <2>4, <3>1 DEF HoldInv, WriterIsFirst
    <3> QED BY <1>0, <1>2, <1>9, <2>2, <3>1, <3>2 DEF Types
  <2> QED BY <2>3, <2>4
<1>12. Abs!Join(p, mode)
  BY <1>5, <1>7, <1>8, <1>10 DEF Abs!Join, Abs!Holds, R, W, Q
<1>13. HoldInv'
  BY <1>0, <1>2, <1>7, <1>8, <1>11 DEF HoldInv
<1> QED BY <1>12, <1>13 DEF Abs!Next

\* The first n waiters are n tasks.
LEMMA PrefixCount ==
  ASSUME Types, QueueInv, NEW n \in 1 .. Len(wait_list)
  PROVE  Cardinality({wait_list[i] : i \in 1 .. n}) = n
<1> DEFINE S == {wait_list[i] : i \in 1 .. n}
           f == [i \in 1 .. n |-> wait_list[i]]
<1>1. 1 .. n \subseteq DOMAIN wait_list /\ n \in Nat \ {0}
  BY DEF Types
<1>2. f \in Bijection(1 .. n, S)
  <2>1. f \in [1 .. n -> S] /\ \A t \in S : \E i \in 1 .. n : f[i] = t
    OBVIOUS
  <2>2. \A i, j \in 1 .. n : f[i] = f[j] => i = j
    BY <1>1 DEF QueueInv
  <2> HIDE DEF f, S
  <2>3. DOMAIN f = 1 .. n
    BY <2>1
  <2> QED BY <2>1, <2>2, <2>3, Zenon DEF Bijection, Injection, Surjection, IsInjective
<1>3. ExistsBijection(1 .. n, S)
  BY <1>2, Zenon DEF ExistsBijection
<1>4. IsFiniteSet(1 .. n) /\ Cardinality(1 .. n) = n
  BY <1>1, FS_Interval
<1> HIDE DEF S
<1>5. Cardinality(S) = n
  BY <1>3, <1>4, FS_Bijection
<1> QED BY <1>5 DEF S

\* The waiters woken become holders, and the holder that woke them is none.
LEMMA UpWakesHolders ==
  ASSUME Struct, NEW p \in Task, NEW n, UpWakes(p, n)
  PROVE  /\ R' = (R \ {p}) \cup {wait_list[i] : i \in {j \in 1 .. n : flags[wait_list[j]] = "read"}}
         /\ W' = (W \ {p}) \cup {wait_list[i] : i \in {j \in 1 .. n : flags[wait_list[j]] = "write"}}
         /\ \A i \in 1 .. Len(wait_list) : want[wait_list[i]] = flags[wait_list[i]]
         /\ Len(Q) = Len(wait_list) /\ DOMAIN Q = 1 .. Len(wait_list)
         /\ \A i \in 1 .. Len(wait_list) : Q[i] = <<wait_list[i], flags[wait_list[i]]>>
         /\ Q' = SubSeq(Q, n + 1, Len(Q))
         /\ wait_list' # <<>> => n < Len(wait_list) /\ Head(wait_list') = wait_list[n + 1]
<1>0. Types /\ Types' /\ QueueInv /\ CallInv
  BY UpWakesStruct DEF Struct
<1>1. /\ p \in readers \cup writers /\ readers' = readers \ {p} /\ writers' = writers \ {p}
      /\ n \in 1 .. Len(wait_list) /\ Dequeue(n) /\ want' = want /\ flags' = flags
  BY DEF UpWakes
<1>2. /\ wait_list \in Seq(Task) /\ Len(wait_list) \in Nat /\ n \in Nat /\ n >= 1 /\ n <= Len(wait_list)
      /\ DOMAIN wait_list = 1 .. Len(wait_list)
      /\ wait_list' \in Seq(Task) /\ DOMAIN wait_list' = 1 .. Len(wait_list) - n
      /\ Len(wait_list') = Len(wait_list) - n
      /\ \A i \in 1 .. Len(wait_list) - n : wait_list'[i] = wait_list[n + i]
  BY <1>0, <1>1, DequeueIs DEF Types
<1>3. \A i \in 1 .. Len(wait_list) : want[wait_list[i]] = flags[wait_list[i]] /\ wait_list[i] \in Task
  BY <1>0, <1>2 DEF QueueInv
<1>p. want[p] = "none"
  BY <1>0, <1>1 DEF CallInv, WaitPcs
<1>4. ASSUME NEW q \in Task
      PROVE  q \notin Range(wait_list') <=> q \notin Range(wait_list) \/ \E i \in 1 .. n : q = wait_list[i]
  <2>1. ASSUME q \in Range(wait_list') PROVE q \in Range(wait_list) /\ ~ \E i \in 1 .. n : q = wait_list[i]
    <3>1. PICK j \in DOMAIN wait_list' : q = wait_list'[j]
      BY <2>1 DEF Range
    <3>2. n + j \in DOMAIN wait_list /\ q = wait_list[n + j]
      BY <1>2, <3>1
    <3>3. ASSUME NEW i \in 1 .. n PROVE q # wait_list[i]
      <4>1. i \in DOMAIN wait_list /\ i # n + j
        BY <1>2
      <4> QED BY <1>0, <3>2, <4>1 DEF QueueInv
    <3> QED BY <3>2, <3>3 DEF Range
  <2>2. ASSUME q \in Range(wait_list), ~ \E i \in 1 .. n : q = wait_list[i] PROVE q \in Range(wait_list')
    <3>1. PICK j \in DOMAIN wait_list : q = wait_list[j]
      BY <2>2 DEF Range
    <3>2. PICK k \in Int : k = j - n
      BY <1>2
    <3>a. j \notin 1 .. n
      BY <2>2, <3>1
    <3>b. \A l, m \in Nat : \A i \in 1 .. l : i \notin 1 .. m => i - m \in 1 .. l - m /\ m + (i - m) = i
      OBVIOUS
    <3>c. j \in 1 .. Len(wait_list) /\ Len(wait_list) \in Nat /\ n \in Nat
      BY <1>2
    <3>d. k \in 1 .. Len(wait_list) - n /\ n + k = j
      BY <3>2, <3>a, <3>b, <3>c
    <3>3. k \in DOMAIN wait_list' /\ n + k = j
      BY <1>2, <3>d, Zenon
    <3>4. wait_list'[k] = q
      BY <1>2, <3>1, <3>3
    <3> QED BY <3>3, <3>4 DEF Range
  <2> QED BY <2>1, <2>2
<1>5. \A i \in 1 .. n : wait_list[i] \in Range(wait_list) /\ wait_list[i] # p /\ i \in 1 .. Len(wait_list)
  BY <1>0, <1>2, <1>p DEF Range, QueueInv
<1>6. R' = (R \ {p}) \cup {wait_list[i] : i \in {j \in 1 .. n : flags[wait_list[j]] = "read"}}
  <2> DEFINE Z == {wait_list[i] : i \in {j \in 1 .. n : flags[wait_list[j]] = "read"}}
  <2>1. \A q \in Task : q \in Z <=> want[q] = "read" /\ \E i \in 1 .. n : q = wait_list[i]
    BY <1>3, <1>5
  <2>2. Z \subseteq Task
    BY <1>3, <1>5
  <2> HIDE DEF Z
  <2>3. Granting("read", readers)' = (Granting("read", readers) \ {p}) \cup Z
    BY <1>0, <1>1, <1>p, <1>4, <2>1, <2>2 DEF Granting, Types
  <2> QED BY <1>0, <2>3, HoldersAre, HoldersArePrime DEF Z
<1>7. W' = (W \ {p}) \cup {wait_list[i] : i \in {j \in 1 .. n : flags[wait_list[j]] = "write"}}
  <2> DEFINE Z == {wait_list[i] : i \in {j \in 1 .. n : flags[wait_list[j]] = "write"}}
  <2>1. \A q \in Task : q \in Z <=> want[q] = "write" /\ \E i \in 1 .. n : q = wait_list[i]
    BY <1>3, <1>5
  <2>2. Z \subseteq Task
    BY <1>3, <1>5
  <2> HIDE DEF Z
  <2>3. Granting("write", writers)' = (Granting("write", writers) \ {p}) \cup Z
    BY <1>0, <1>1, <1>p, <1>4, <2>1, <2>2 DEF Granting, Types
  <2> QED BY <1>0, <2>3, HoldersAre, HoldersArePrime DEF Z
<1>8. /\ Q = [i \in 1 .. Len(wait_list) |-> <<wait_list[i], flags[wait_list[i]]>>]
      /\ Q' = [i \in 1 .. Len(wait_list) - n |-> <<wait_list[n + i], flags[wait_list[n + i]]>>]
  <2>1. \A i \in 1 .. Len(wait_list) - n :
          <<wait_list'[i], want'[wait_list'[i]]>> = <<wait_list[n + i], flags[wait_list[n + i]]>>
    <3> TAKE i \in 1 .. Len(wait_list) - n
    <3>1. n + i \in 1 .. Len(wait_list)
      BY <1>2
    <3> QED BY <1>1, <1>2, <1>3, <3>1
  <2>2. Q = [i \in 1 .. Len(wait_list) |-> <<wait_list[i], flags[wait_list[i]]>>]
    BY <1>2, <1>3 DEF Q
  <2>3. Q' = [i \in 1 .. Len(wait_list) - n |-> <<wait_list'[i], want'[wait_list'[i]]>>]
    BY <1>2 DEF Q
  <2> QED BY <2>1, <2>2, <2>3, Zenon
<1>9. /\ DOMAIN Q = 1 .. Len(wait_list) /\ Len(Q) = Len(wait_list)
      /\ \A i \in 1 .. Len(wait_list) : Q[i] = <<wait_list[i], flags[wait_list[i]]>>
  BY <1>2, <1>8
<1>10. Q' = SubSeq(Q, n + 1, Len(Q))
  <2>1. Q \in Seq(Task \X Modes)
    <3>1. \A i \in 1 .. Len(wait_list) : <<wait_list[i], flags[wait_list[i]]>> \in Task \X Modes
      BY <1>0, <1>3 DEF Types
    <3>2. Q \in [1 .. Len(wait_list) -> Task \X Modes]
      BY <1>8, <3>1, Zenon
    <3> QED BY <1>2, <3>2
  <2>2. /\ DOMAIN SubSeq(Q, n + 1, Len(Q)) = 1 .. Len(wait_list) - n
        /\ \A i \in 1 .. Len(wait_list) - n : SubSeq(Q, n + 1, Len(Q))[i] = Q[n + i]
        /\ SubSeq(Q, n + 1, Len(Q)) \in Seq(Task \X Modes)
    BY <1>2, <1>9, <2>1
  <2>3. \A i \in 1 .. Len(wait_list) - n : Q'[i] = Q[n + i]
    <3> TAKE i \in 1 .. Len(wait_list) - n
    <3>1. n + i \in 1 .. Len(wait_list)
      BY <1>2
    <3> QED BY <1>8, <1>9, <3>1
  <2>4. DOMAIN Q' = 1 .. Len(wait_list) - n /\ Q' = [i \in DOMAIN Q' |-> Q'[i]]
    BY <1>8
  <2> DEFINE A == SubSeq(Q, n + 1, Len(Q))
  <2>5. A = [i \in DOMAIN A |-> A[i]]
    BY <2>2
  <2> HIDE DEF A
  <2>6. DOMAIN A = DOMAIN Q' /\ \A i \in DOMAIN A : A[i] = Q'[i]
    BY <2>2, <2>3, <2>4, Zenon DEF A
  <2>7. A = Q'
    BY <2>4, <2>5, <2>6, Zenon
  <2> QED BY <2>7 DEF A
<1>11. wait_list' # <<>> => n < Len(wait_list) /\ Head(wait_list') = wait_list[n + 1]
  BY <1>2
<1>12. \A i \in 1 .. Len(wait_list) : want[wait_list[i]] = flags[wait_list[i]]
  BY <1>3
<1> QED BY <1>6, <1>7, <1>9, <1>10, <1>11, <1>12

\* A holder is one of the holders, and what else there is follows.
LEMMA HolderIs ==
  ASSUME IInv, NEW p \in Task
  PROVE  /\ p \in readers => p \in R /\ W = {} /\ writers = {} /\ activity = Cardinality(R)
         /\ p \in writers => W = {p} /\ R = {} /\ readers = {} /\ writers = {p}
<1>1. Types /\ HoldInv
  BY DEF IInv
<1>2. readers \subseteq R /\ writers \subseteq W
  BY DEF R, W, Holders
<1> QED BY <1>1, <1>2 DEF HoldInv

\* A release to a writer at the front of the queue.
LEMMA ToWriter ==
  ASSUME IInv, NEW p \in Task, UpWakes(p, 1), R \cup W = {p},
         flags[wait_list[1]] = "write", activity' = -1
  PROVE  HoldInv' /\ Abs!Next
<1>0. Struct /\ Types
  BY DEF IInv, Struct
<1>1. /\ R' = (R \ {p}) \cup {wait_list[i] : i \in {j \in 1 .. 1 : flags[wait_list[j]] = "read"}}
      /\ W' = (W \ {p}) \cup {wait_list[i] : i \in {j \in 1 .. 1 : flags[wait_list[j]] = "write"}}
      /\ Len(Q) = Len(wait_list) /\ DOMAIN Q = 1 .. Len(wait_list)
      /\ \A i \in 1 .. Len(wait_list) : Q[i] = <<wait_list[i], flags[wait_list[i]]>>
      /\ Q' = SubSeq(Q, 1 + 1, Len(Q))
  BY <1>0, UpWakesHolders
<1>2. R' = {} /\ W' = {wait_list[1]}
  BY <1>1
<1>3. 1 \in 1 .. Len(wait_list) /\ wait_list[1] \in Task
  BY <1>0 DEF UpWakes, Types
<1>4. HoldInv'
  BY <1>2, <1>3 DEF HoldInv, WriterIsFirst
<1>5. Head(Q) = <<wait_list[1], "write">> /\ Q # <<>> /\ Q' = Tail(Q)
  <2>1. Head(Q) = Q[1] /\ Q # <<>>
    BY <1>1, <1>3
  <2>2. Q' = Tail(Q)
    BY <1>1
  <2> QED BY <1>1, <1>3, <2>1, <2>2
<1>a. Head(Q)[2] = "write" /\ W' = {Head(Q)[1]}
  BY <1>2, <1>5
<1>6. Abs!ReleaseToWriter(p)
  BY <1>2, <1>5, <1>a, Zenon DEF Abs!ReleaseToWriter, R, W, Q
<1> QED BY <1>4, <1>6 DEF Abs!Next

\* A release to the readers at the front of the queue.
LEMMA ToReaders ==
  ASSUME IInv, NEW p \in Task, NEW n, UpWakes(p, n), R = {}, W = {p},
         \A i \in 1 .. n : flags[wait_list[i]] = "read",
         n = Len(wait_list) \/ flags[wait_list[n + 1]] = "write", activity' = n
  PROVE  HoldInv' /\ Abs!Next
<1>0. Struct /\ Types /\ QueueInv
  BY DEF IInv, Struct
<1>1. /\ R' = (R \ {p}) \cup {wait_list[i] : i \in {j \in 1 .. n : flags[wait_list[j]] = "read"}}
      /\ W' = (W \ {p}) \cup {wait_list[i] : i \in {j \in 1 .. n : flags[wait_list[j]] = "write"}}
      /\ Len(Q) = Len(wait_list) /\ DOMAIN Q = 1 .. Len(wait_list)
      /\ \A i \in 1 .. Len(wait_list) : Q[i] = <<wait_list[i], flags[wait_list[i]]>>
      /\ Q' = SubSeq(Q, n + 1, Len(Q))
      /\ wait_list' # <<>> => n < Len(wait_list) /\ Head(wait_list') = wait_list[n + 1]
  BY <1>0, UpWakesHolders
<1>2. R' = {wait_list[i] : i \in 1 .. n} /\ W' = {}
  BY <1>1
<1>3. n \in 1 .. Len(wait_list) /\ flags' = flags /\ Len(wait_list) \in Nat
  BY <1>0 DEF UpWakes, Types
<1>4. Cardinality(R') = n
  BY <1>0, <1>2, <1>3, PrefixCount
<1>5. WriterIsFirst'
  BY <1>1, <1>3 DEF WriterIsFirst
<1>6. HoldInv'
  BY <1>2, <1>4, <1>5 DEF HoldInv
<1>7. /\ n \in 1 .. Len(Q)
      /\ \A i \in 1 .. n : Q[i][2] = "read" /\ Q[i][1] = wait_list[i]
      /\ n = Len(Q) \/ Q[n + 1][2] = "write"
  <2>1. \A i \in 1 .. n : i \in 1 .. Len(wait_list)
    BY <1>3
  <2>2. n = Len(wait_list) \/ n + 1 \in 1 .. Len(wait_list)
    BY <1>3
  <2>3. \A i \in 1 .. Len(wait_list) : Q[i][1] = wait_list[i] /\ Q[i][2] = flags[wait_list[i]]
    BY <1>1
  <2> HIDE DEF Q
  <2>4. n = Len(Q) \/ Q[n + 1][2] = "write"
    BY <1>1, <2>2, <2>3, Zenon
  <2>5. \A i \in 1 .. n : Q[i][2] = "read" /\ Q[i][1] = wait_list[i]
    BY <2>1, <2>3, Zenon
  <2> QED BY <1>1, <1>3, <2>4, <2>5
<1>8. {Q[i][1] : i \in 1 .. n} = R'
  <2>1. \A i \in 1 .. n : Q[i][1] = wait_list[i]
    BY <1>7, Zenon
  <2> HIDE DEF Q
  <2>2. {Q[i][1] : i \in 1 .. n} = {wait_list[i] : i \in 1 .. n}
    BY <2>1
  <2> QED BY <1>2, <2>2, Zenon
<1>9. Abs!ReleaseToReaders(p)
  BY <1>1, <1>2, <1>7, <1>8 DEF Abs!ReleaseToReaders, R, W, Q
<1> QED BY <1>6, <1>9 DEF Abs!Next

\* A release to nobody.
LEMMA ToNobody ==
  ASSUME IInv, NEW p \in Task, UpKeeps(p),
         \/ p \in readers /\ activity' = activity - 1
         \/ p \in writers /\ activity' = 0 /\ wait_list = <<>>
  PROVE  HoldInv' /\ Abs!Next
<1>0. Struct /\ Types /\ HoldInv
  BY DEF IInv, Struct
<1>1. Types' /\ want[p] = "none"
  BY <1>0, UpKeepsStruct DEF Struct, UpKeeps, CallInv, WaitPcs
<1>2. /\ readers' = readers \ {p} /\ writers' = writers \ {p}
      /\ UNCHANGED <<flags, want, wait_list>> /\ p \in readers \cup writers
  BY DEF UpKeeps
<1>3. R' = R \ {p}
  BY <1>0, <1>1, <1>2, HoldersAre, HoldersArePrime DEF Granting
<1>4. W' = W \ {p}
  BY <1>0, <1>1, <1>2, HoldersAre, HoldersArePrime DEF Granting
<1>5. p \in R \cup W /\ Q' = Q
  BY <1>2 DEF R, W, Holders, Q
<1>6. Abs!Release(p)
  BY <1>3, <1>4, <1>5 DEF Abs!Release, Abs!Holds, R, W, Q
<1>7. CASE p \in readers /\ activity' = activity - 1
  <2>1. p \in R /\ W = {} /\ activity = Cardinality(R)
    BY <1>7, HolderIs
  <2>2. activity' = Cardinality(R') /\ W' = {} /\ activity \in Nat
    BY <1>0, <1>3, <1>4, <1>7, <2>1, HoldersFinite
  <2>3. WriterIsFirst'
    BY <1>0, <1>2, <1>7, <2>2 DEF HoldInv, WriterIsFirst
  <2> QED BY <1>6, <2>2, <2>3 DEF HoldInv, Abs!Next
<1>8. CASE p \in writers /\ activity' = 0 /\ wait_list = <<>>
  <2>1. W' = {} /\ R' = {}
    BY <1>3, <1>4, <1>8, HolderIs
  <2>2. WriterIsFirst'
    BY <1>2, <1>8 DEF WriterIsFirst
  <2> QED BY <1>6, <1>8, <2>1, <2>2, FS_EmptySet DEF HoldInv, Abs!Next
<1> QED BY <1>7, <1>8

\* up_read and up_write.
LEMMA UpHolds ==
  ASSUME IInv, NEW p \in Task, Up(p)
  PROVE  Struct' /\ HoldInv' /\ Abs!Next
<1>0. Struct /\ Types /\ QueueInv /\ HoldInv
  BY DEF IInv, Struct
<1>1. ASSUME __up_read(p), activity - 1 = 0 /\ wait_list # <<>>
      PROVE  Struct' /\ HoldInv' /\ Abs!Next
  <2>1. p \in R /\ W = {} /\ writers = {} /\ activity = Cardinality(R)
    BY <1>1, HolderIs DEF __up_read
  <2>2. activity = 1 /\ Cardinality(R) \in Nat /\ Cardinality(R \ {p}) = Cardinality(R) - 1 /\ IsFiniteSet(R)
    BY <1>0, <1>1, <2>1, HoldersFinite
  <2>3. R \cup W = {p}
    <3>1. IsFiniteSet(R \ {p}) /\ Cardinality(R \ {p}) = 0
      BY <2>1, <2>2, FS_RemoveElement
    <3>2. R \ {p} = {}
      BY <3>1, FS_EmptySet
    <3> QED BY <2>1, <3>2
  <2>4. 1 \in 1 .. Len(wait_list) /\ flags[wait_list[1]] = "write"
    <3>1. Head(wait_list) = wait_list[1] /\ 1 \in 1 .. Len(wait_list)
      BY <1>0, <1>1 DEF Types
    <3> QED BY <1>0, <1>1, <2>2, <3>1 DEF HoldInv, WriterIsFirst
  <2>5. UpWakes(p, 1) /\ activity' = -1
    BY <1>1, <2>1, <2>4 DEF __up_read, __rwsem_wake_one_writer, UpWakes, Goto
  <2> QED BY <1>0, <2>3, <2>4, <2>5, ToWriter, UpWakesStruct
<1>2. ASSUME __up_read(p), ~(activity - 1 = 0 /\ wait_list # <<>>)
      PROVE  Struct' /\ HoldInv' /\ Abs!Next
  <2>1. p \in readers /\ writers = {}
    BY <1>2, HolderIs DEF __up_read
  <2>2. UpKeeps(p) /\ activity' = activity - 1
    BY <1>2, <2>1 DEF __up_read, NothingToWake, UpKeeps, Goto
  <2> QED BY <1>0, <2>1, <2>2, ToNobody, UpKeepsStruct
<1>3. ASSUME __up_write(p), wait_list = <<>>
      PROVE  Struct' /\ HoldInv' /\ Abs!Next
  <2>1. p \in writers /\ readers = {}
    BY <1>3, HolderIs DEF __up_write
  <2>2. UpKeeps(p) /\ activity' = 0
    BY <1>3, <2>1 DEF __up_write, NothingToWake, UpKeeps, Goto
  <2> QED BY <1>0, <1>3, <2>1, <2>2, ToNobody, UpKeepsStruct
<1>4. ASSUME __up_write(p), wait_list # <<>>
      PROVE  Struct' /\ HoldInv' /\ Abs!Next
  <2>1. p \in writers /\ readers = {} /\ R = {} /\ W = {p}
    BY <1>4, HolderIs DEF __up_write
  <2>2. /\ Front \in 1 .. Len(wait_list)
        /\ \/ flags[wait_list[1]] = "write" /\ Front = 1
           \/ /\ flags[wait_list[1]] = "read"
              /\ \A i \in 1 .. Front : flags[wait_list[i]] = "read"
              /\ Front = Len(wait_list) \/ flags[wait_list[Front + 1]] = "write"
    BY <1>0, <1>4, FrontIs
  <2>3. Head(wait_list) = wait_list[1]
    BY <1>0, <1>4 DEF Types
  <2>4. /\ UpWakes(p, Front)
        /\ activity' = IF flags[wait_list[1]] = "write" THEN -1 ELSE Front
    BY <1>4, <2>1, <2>2, <2>3 DEF __up_write, __rwsem_do_wake, UpWakes, Goto
  <2>n. PICK n : n = Front
    OBVIOUS
  <2>5. CASE flags[wait_list[1]] = "write"
    <3>1. Front = 1 /\ activity' = -1 /\ R \cup W = {p} /\ UpWakes(p, 1)
      BY <2>1, <2>2, <2>4, <2>5
    <3> QED BY <1>0, <2>5, <3>1, ToWriter, UpWakesStruct
  <2>6. CASE flags[wait_list[1]] = "read"
    <3>1. /\ UpWakes(p, n) /\ activity' = n
          /\ \A i \in 1 .. n : flags[wait_list[i]] = "read"
          /\ n = Len(wait_list) \/ flags[wait_list[n + 1]] = "write"
      BY <2>2, <2>4, <2>n, <2>6
    <3> QED BY <1>0, <2>1, <3>1, ToReaders, UpWakesStruct
  <2> QED BY <2>2, <2>5, <2>6
<1> QED BY <1>1, <1>2, <1>3, <1>4 DEF Up

-----------------------------------------------------------------------------
(* The theorems. *)

\* The invariant holds of a semaphore just initialised.
LEMMA InitInv == Init => IInv
<1> SUFFICES ASSUME Init PROVE IInv
  OBVIOUS
<1>1. Types
  BY DEF Init, WaitersInit, Types, Modes
<1>2. LockInv /\ CallInv /\ QueueInv
  BY TaskAssumption DEF Init, WaitersInit, LockInv, CallInv, QueueInv, WaitPcs, Waking
<1>3. R = {} /\ W = {}
  BY DEF Init, WaitersInit, R, W, Holders
<1>4. HoldInv
  BY <1>3, FS_EmptySet DEF Init, WaitersInit, HoldInv, WriterIsFirst
<1> QED BY <1>1, <1>2, <1>4 DEF IInv

\* What keeps holders and queue keeps the rest, and is no step of the semaphore.
LEMMA KeepsHolds ==
  ASSUME IInv, Keeps, activity' = activity
  PROVE  HoldInv' /\ UNCHANGED Abs!absvars
<1>0. HoldInv /\ wait_list \in Seq(Task)
  BY DEF IInv, Types
<1>1. wait_list # <<>> => 1 \in DOMAIN wait_list /\ Head(wait_list) = wait_list[1]
  BY <1>0
<1>2. WriterIsFirst'
  BY <1>0, <1>1 DEF HoldInv, WriterIsFirst, Keeps
<1>3. HoldInv'
  BY <1>0, <1>2 DEF HoldInv, Keeps
<1>4. Q' = Q
  BY DEF Q, Keeps
<1>5. UNCHANGED Abs!absvars
  BY <1>4, Zenon DEF Abs!absvars, Keeps, R, W, Q
<1> QED BY <1>3, <1>5

\* Every step keeps the invariant, and is a step of the abstract semaphore or none.
LEMMA NextInv == IInv /\ [Next]_vars => IInv' /\ [Abs!Next]_(Abs!absvars)
<1> SUFFICES ASSUME IInv, [Next]_vars PROVE IInv' /\ [Abs!Next]_(Abs!absvars)
  OBVIOUS
<1>0. Struct
  BY DEF IInv, Struct
<1>i. Struct' /\ HoldInv' => IInv'
  BY DEF IInv, Struct
<1>1. ASSUME NEW p \in Task, NEW mode \in {"read", "write"}, Take(p, mode)
      PROVE  IInv' /\ [Abs!Next]_(Abs!absvars)
  BY <1>0, <1>i, <1>1, TakeStruct, TakeHolds
<1>2. ASSUME NEW p \in Task, NEW mode \in {"read", "write"}, Join(p, mode)
      PROVE  IInv' /\ [Abs!Next]_(Abs!absvars)
  BY <1>0, <1>i, <1>2, JoinStruct, JoinHolds
<1>3. ASSUME NEW p \in Task, Up(p) PROVE IInv' /\ [Abs!Next]_(Abs!absvars)
  BY <1>i, <1>3, UpHolds
<1>4. ASSUME NEW p \in Task, WaiterStep(p) /\ UNCHANGED activity
      PROVE  IInv' /\ [Abs!Next]_(Abs!absvars)
  BY <1>0, <1>i, <1>4, WaiterStruct, KeepsHolds
<1>5. CASE UNCHANGED vars
  <2>1. UNCHANGED <<wait_lock, wait_list, flags, want, todo, readers, writers, pc, activity>>
    BY <1>5 DEF vars, waitervars
  <2>2. Struct'
    BY <1>0, <2>1 DEF Struct, Types, LockInv, CallInv, QueueInv
  <2>3. Keeps
    BY <2>1 DEF Keeps, R, W, Holders
  <2> QED BY <1>i, <2>1, <2>2, <2>3, KeepsHolds
<1> QED BY <1>1, <1>2, <1>3, <1>4, <1>5 DEF Next

\* The inductive invariant holds of every behaviour of lib/rwsem-spinlock.c.
THEOREM Invariant == Spec => []IInv
<1>1. IInv /\ [Next]_vars => IInv'
  BY NextInv
<1> QED BY InitInv, <1>1, PTL DEF Spec

\* sem->activity is the number of readers granted, or -1 for a writer.
THEOREM ActivityIsExact == Spec => []ActivityInv
<1>1. IInv => ActivityInv
  BY DEF IInv, HoldInv, ActivityInv, R, W
<1> QED BY Invariant, <1>1, PTL

\* __up_read may take the first waiter for a writer.
THEOREM FirstIsWriter == Spec => []WriterIsFirst
<1>1. IInv => WriterIsFirst
  BY DEF IInv, HoldInv
<1> QED BY Invariant, <1>1, PTL

\* lib/rwsem-spinlock.c implements the abstract semaphore: readers share, writers
\* are alone, and the queue is served in order, a writer alone and consecutive
\* readers together.
THEOREM RwSemRefines == Spec => ImplementsAbstract
<1>1. Init => Abs!Init
  <2> SUFFICES ASSUME Init PROVE Abs!Init
    OBVIOUS
  <2>1. R = {} /\ W = {} /\ Q = <<>>
    BY DEF Init, WaitersInit, R, W, Holders, Q
  <2> QED BY <2>1 DEF Abs!Init, R, W, Q
<1>2. IInv /\ [Next]_vars => [Abs!Next]_(Abs!absvars)
  BY NextInv
<1> QED BY <1>1, <1>2, Invariant, PTL DEF Spec, Abs!Spec, ImplementsAbstract
=============================================================================
