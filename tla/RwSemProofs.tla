----------------------------- MODULE RwSemProofs -----------------------------
(***************************************************************************)
(* Proofs about RwSem, for any finite set of tasks and any half-word       *)
(* larger than it: sem->count is exact at every instruction (CountInv),    *)
(* granted waiters are woken (GrantedIsWoken), and lib/rwsem.c implements  *)
(* the read/write semaphore of AbsRwSem (ImplementsAbstract).              *)
(*                                                                         *)
(* The fast paths see nothing but count, so that they respect the queue    *)
(* and the holders follows from CountInv alone: the halves of count do not *)
(* run into each other, since a waker that has added a unit of its own     *)
(* neither holds the lock nor is about to queue (QueueInv).                *)
(***************************************************************************)
EXTENDS RwSem, FiniteSetTheorems, SequenceTheorems, TLAPS

Waiting   == {"check", "schedule", "resume"}
Releasing == {"addreaders", "grant", "ttwu"}
Locked    == {"try", "undo"} \cup Releasing

Types ==
  /\ wait_list \in Seq(Task) /\ todo \in Seq(Task)
  /\ flags \in [Task -> Modes] /\ want \in [Task -> Modes]
  /\ readers \subseteq Task /\ writers \subseteq Task
  /\ wait_lock \in Task \cup {NoTask}
  /\ pc \in [Task -> PCs]
  /\ TasksTypeOK

\* Who is in __rwsem_do_wake has wait_lock, with waiters queued or chosen.
LockInv ==
  /\ \A p \in Task : pc[p] \in Locked <=> wait_lock = p
  /\ wait_lock = NoTask => todo = <<>>
  /\ \A p \in Task : pc[p] \in {"try", "undo"} => wait_list # <<>> /\ todo = <<>>
  /\ \A p \in Task : pc[p] \in Releasing => todo # <<>>

\* A task wants the lock while it waits, and is idle while it has it.
CallInv ==
  \A p \in Task :
    /\ pc[p] \in {"set", "enqueue"} \cup Waiting => want[p] # "none"
    /\ pc[p] \in {"idle", "wake"} => want[p] = "none"
    /\ p \in readers \cup writers => pc[p] = "idle"
    /\ ~(p \in readers /\ p \in writers)

\* The flags of a waiter that is not queued yet.
FlagInv ==
  \A p \in Task :
    /\ want[p] = "none" \/ pc[p] = "set" => flags[p] = "none"
    /\ pc[p] = "enqueue" => flags[p] = want[p]

\* Queued tasks are queued once and wait; a waker that waits itself is queued.
Waits(p) == flags[p] = want[p] /\ want[p] # "none" /\ pc[p] # "enqueue"

QueueInv ==
  /\ \A i, k \in DOMAIN wait_list : wait_list[i] = wait_list[k] => i = k
  /\ \A i \in DOMAIN wait_list : Waits(wait_list[i])
  /\ \A p \in Task : pc[p] \in {"try", "undo", "addreaders"} /\ want[p] # "none" => p \in Queued

\* So do the tasks chosen, all but the first one after its flags are cleared.
TodoInv ==
  /\ \A i, k \in DOMAIN todo : todo[i] = todo[k] => i = k
  /\ \A i \in DOMAIN wait_list, k \in DOMAIN todo : wait_list[i] # todo[k]
  /\ \A k \in DOMAIN todo : k > 1 \/ (\A q \in Task : pc[q] # "ttwu") => Waits(todo[k])
  /\ (\E q \in Task : pc[q] = "addreaders") => \A k \in DOMAIN todo : want[todo[k]] = "read"

\* A task whose flags are cleared and that nobody has still to wake is awake.
WokenInv ==
  \A p \in Task :
    /\ pc[p] # "resume" => p \in runqueue
    /\ flags[p] = "none" /\ p \notin Range(todo) =>
         /\ pc[p] = "schedule" => state[p] = "RUNNING"
         /\ pc[p] = "resume" => p \in runqueue

Struct == Types /\ LockInv /\ CallInv /\ FlagInv /\ QueueInv /\ TodoInv /\ WokenInv

\* The tasks whose units make up the two halves of count.
A == (readers \cup writers \cup {p \in Task : want[p] # "none"}) \ Queued
B == {q \in Task : pc[q] \in {"undo", "addreaders"}}
M == writers \cup Queued \cup {p \in Task : want[p] = "write"}

\* The state of the abstract semaphore.
R == Holders("read", readers)
W == Holders("write", writers)
Q == [i \in DOMAIN wait_list |-> <<wait_list[i], want[wait_list[i]]>>]

-----------------------------------------------------------------------------
(* The queue. *)

\* The number of waiters that __rwsem_do_wake releases.
LEMMA FrontIs ==
  ASSUME Types, QueueInv, wait_list # <<>>
  PROVE  /\ Front \in 1 .. Len(wait_list)
         /\ \/ flags[wait_list[1]] = "write" /\ Front = 1
            \/ /\ flags[wait_list[1]] = "read"
               /\ \A i \in 1 .. Front : flags[wait_list[i]] = "read"
               /\ Front = Len(wait_list) \/ flags[wait_list[Front + 1]] = "write"
<1>0. /\ Len(wait_list) \in Nat \ {0} /\ DOMAIN wait_list = 1 .. Len(wait_list)
      /\ Head(wait_list) = wait_list[1]
  BY DEF Types
<1>1. \A i \in 1 .. Len(wait_list) : flags[wait_list[i]] \in {"read", "write"}
  BY <1>0 DEF Types, QueueInv, Modes, Waits
<1>2. CASE flags[wait_list[1]] = "write"
  BY <1>0, <1>2 DEF Front
<1>3. CASE flags[wait_list[1]] = "read"
  <2> DEFINE OK(n) == /\ \A i \in 1 .. n : flags[wait_list[i]] = "read"
                      /\ n = Len(wait_list) \/ flags[wait_list[n + 1]] # "read"
             T == {i \in 1 .. Len(wait_list) : flags[wait_list[i]] # "read"}
  <2>1. \E n \in 1 .. Len(wait_list) : OK(n)
    <3>1. CASE T = {}
      <4>1. Len(wait_list) \in 1 .. Len(wait_list)
        BY <1>0
      <4>2. OK(Len(wait_list))
        BY <3>1
      <4> QED BY <4>1, <4>2
    <3>2. CASE T # {}
      <4>1. T \subseteq Nat
        BY <1>0
      <4>2. \E m \in T : \A y \in T : ~(<<y, m>> \in OpToRel(<, Nat))
        <5> HIDE DEF T
        <5> QED BY <3>2, <4>1, WFMin, NatLessThanWellFounded, Zenon
      <4>3. PICK m \in T : \A y \in T : ~(<<y, m>> \in OpToRel(<, Nat))
        BY <4>2, Zenon
      <4>4. \A y \in T : ~(y < m)
        BY <4>1, <4>3, Zenon DEF OpToRel
      <4>5. m - 1 \in 1 .. Len(wait_list) /\ flags[wait_list[(m - 1) + 1]] # "read"
        BY <1>0, <1>3
      <4>6. \A i \in 1 .. m - 1 : flags[wait_list[i]] = "read"
        BY <1>0, <4>4
      <4> QED BY <4>5, <4>6, Zenon
    <3> QED BY <3>1, <3>2
  <2>2. Front = CHOOSE n \in 1 .. Len(wait_list) : OK(n)
    BY <1>0, <1>3 DEF Front
  <2> HIDE DEF OK
  <2>3. Front \in 1 .. Len(wait_list) /\ OK(Front)
    BY <2>1, <2>2
  <2>4. Front = Len(wait_list) \/ Front + 1 \in 1 .. Len(wait_list)
    <3>1. \A l \in Nat : \A f \in 1 .. l : f = l \/ f + 1 \in 1 .. l
      OBVIOUS
    <3> QED BY <1>0, <2>3, <3>1, Zenon
  <2> USE DEF OK
  <2>5. Front = Len(wait_list) \/ flags[wait_list[Front + 1]] = "write"
    BY <1>1, <2>3, <2>4
  <2> HIDE DEF T
  <2> QED BY <1>3, <2>3, <2>5, Zenon
<1> QED BY <1>0, <1>1, <1>2, <1>3

\* The first n waiters leave the queue.
LEMMA DequeueIs ==
  ASSUME Types, NEW n \in 1 .. Len(wait_list), Dequeue(n)
  PROVE  /\ todo' \in Seq(Task) /\ Len(todo') = n /\ \A i \in 1 .. n : todo'[i] = wait_list[i]
         /\ wait_list' \in Seq(Task) /\ Len(wait_list') = Len(wait_list) - n
         /\ \A i \in 1 .. Len(wait_list) - n : wait_list'[i] = wait_list[n + i]
  BY DEF Types, Dequeue

\* Who is queued: with a waker at addreaders, those it has chosen too.
LEMMA QueuedIs ==
  ASSUME Types
  PROVE  /\ (\A q \in Task : pc[q] # "addreaders") => Queued = Range(wait_list)
         /\ \A q \in Task : pc[q] = "addreaders" => Queued = Range(wait_list) \cup Range(todo)
         /\ Queued \subseteq Task
<1>1. Range(wait_list) \subseteq Task /\ Range(todo) \subseteq Task
  BY DEF Types, Range
<1> QED BY <1>1 DEF Queued

\* The same after a step.
LEMMA QueuedIsPrime ==
  ASSUME Types'
  PROVE  /\ (\A q \in Task : pc'[q] # "addreaders") => Queued' = Range(wait_list')
         /\ \A q \in Task : pc'[q] = "addreaders" => Queued' = Range(wait_list') \cup Range(todo')
         /\ Queued' \subseteq Task
<1>1. Range(wait_list') \subseteq Task /\ Range(todo') \subseteq Task
  BY DEF Types, Range
<1> QED BY <1>1 DEF Queued

\* Whoever is queued waits.
LEMMA QueuedWait ==
  ASSUME Struct, NEW p \in Queued
  PROVE  p \in Task /\ Waits(p) /\ flags[p] # "none" /\ pc[p] \notin {"idle", "wake", "set", "enqueue"}
         /\ p \notin readers \cup writers
<1>1. p \in Task
  BY QueuedIs DEF Struct
<1>2. Waits(p)
  <2>1. CASE p \in Range(wait_list)
    BY <2>1 DEF Struct, QueueInv, Range
  <2>2. CASE p \notin Range(wait_list)
    <3>1. PICK q \in Task : pc[q] = "addreaders" /\ p \in Range(todo)
      BY <2>2 DEF Queued
    <3>2. \A u \in Task : pc[u] # "ttwu"
      BY <3>1, TaskAssumption DEF Struct, LockInv, Locked, Releasing
    <3>3. PICK k \in DOMAIN todo : todo[k] = p
      BY <3>1 DEF Range
    <3> QED BY <3>2, <3>3 DEF Struct, TodoInv
  <2> QED BY <2>1, <2>2
<1>3. flags[p] # "none" /\ pc[p] # "set" /\ pc[p] # "enqueue" /\ pc[p] \notin {"idle", "wake"}
  BY <1>1, <1>2 DEF Waits, Struct, FlagInv, CallInv
<1> QED BY <1>1, <1>2, <1>3 DEF Struct, CallInv

-----------------------------------------------------------------------------
(* Calls, wait_lock and the queue, action by action. *)

\* The ways a fast path ends.
Took(p, mode) ==
  /\ Idle(p) /\ Hold(p, mode)
  /\ UNCHANGED <<schedvars, wait_lock, wait_list, flags, pc, want, todo>>

Failed(p, mode) ==
  /\ Idle(p) /\ pc' = [pc EXCEPT ![p] = "set"] /\ want' = [want EXCEPT ![p] = mode]
  /\ UNCHANGED <<schedvars, wait_lock, wait_list, flags, todo, readers, writers>>

Left(p, at) ==
  /\ p \in readers \cup writers /\ at \in {"idle", "wake"}
  /\ readers' = readers \ {p} /\ writers' = writers \ {p}
  /\ pc' = [pc EXCEPT ![p] = at]
  /\ UNCHANGED <<schedvars, wait_lock, wait_list, flags, want, todo>>

\* Getting the lock at once.
LEMMA TookStruct ==
  ASSUME Struct, NEW p \in Task, NEW mode \in {"read", "write"}, Took(p, mode)
  PROVE  Struct'
<1> USE DEF Struct
<1>1. /\ pc[p] = "idle" /\ p \notin readers \cup writers
      /\ UNCHANGED <<schedvars, wait_lock, wait_list, flags, pc, want, todo>>
      /\ readers' = (IF mode = "read" THEN readers \cup {p} ELSE readers)
      /\ writers' = (IF mode = "write" THEN writers \cup {p} ELSE writers)
  BY DEF Took, Idle, Hold
<1>2. Types'
  BY <1>1 DEF Types, TasksTypeOK, schedvars
<1>3. LockInv' /\ FlagInv' /\ TodoInv' /\ WokenInv'
  BY <1>1 DEF LockInv, FlagInv, TodoInv, WokenInv, Waits, schedvars
<1>4. QueueInv'
  BY <1>1 DEF QueueInv, Waits, Queued
<1>5. CallInv'
  BY <1>1 DEF CallInv
<1> QED BY <1>2, <1>3, <1>4, <1>5

\* Giving the lock back.
LEMMA LeftStruct ==
  ASSUME Struct, NEW p \in Task, NEW at, Left(p, at)
  PROVE  Struct' /\ Queued' = Queued /\ pc[p] = "idle" /\ want[p] = "none"
<1> USE DEF Struct
<1>1. /\ pc[p] = "idle" /\ want[p] = "none" /\ at \in {"idle", "wake"}
      /\ UNCHANGED <<schedvars, wait_lock, wait_list, flags, want, todo>>
      /\ readers' = readers \ {p} /\ writers' = writers \ {p}
      /\ pc' = [pc EXCEPT ![p] = at]
  BY DEF Left, CallInv
<1>0. \A q \in Task : pc'[q] = IF q = p THEN at ELSE pc[q]
  BY <1>1 DEF Types
<1>2. Types'
  BY <1>1 DEF Types, TasksTypeOK, schedvars, PCs
<1>3. LockInv'
  BY <1>0, <1>1 DEF LockInv, Locked, Releasing
<1>4. Queued' = Queued
  BY <1>0, <1>1 DEF Queued
<1>5. QueueInv'
  BY <1>0, <1>1, <1>2, <1>4 DEF QueueInv, Waits, Types
<1>6. TodoInv'
  BY <1>0, <1>1 DEF TodoInv, Waits, Types
<1>7. WokenInv'
  BY <1>0, <1>1 DEF WokenInv, schedvars
<1>8. CallInv' /\ FlagInv'
  BY <1>0, <1>1 DEF CallInv, FlagInv, Waiting
<1> QED BY <1>1, <1>2, <1>3, <1>4, <1>5, <1>6, <1>7, <1>8

\* Not getting it.
LEMMA FailedStruct ==
  ASSUME Struct, NEW p \in Task, NEW mode \in {"read", "write"}, Failed(p, mode)
  PROVE  Struct' /\ Queued' = Queued
<1> USE DEF Struct
<1>1. /\ pc[p] = "idle" /\ p \notin readers \cup writers /\ want[p] = "none" /\ flags[p] = "none"
      /\ pc' = [pc EXCEPT ![p] = "set"] /\ want' = [want EXCEPT ![p] = mode]
      /\ UNCHANGED <<schedvars, wait_lock, wait_list, flags, todo, readers, writers>>
  BY DEF Failed, Idle, CallInv, FlagInv
<1>0. /\ \A q \in Task : pc'[q] = IF q = p THEN "set" ELSE pc[q]
      /\ \A q \in Task : want'[q] = IF q = p THEN mode ELSE want[q]
  BY <1>1 DEF Types
<1>2. Types'
  BY <1>1 DEF Types, TasksTypeOK, schedvars, PCs, Modes
<1>3. LockInv'
  BY <1>0, <1>1 DEF LockInv, Locked, Releasing
<1>4. Queued' = Queued
  BY <1>0, <1>1 DEF Queued
<1>5. QueueInv'
  BY <1>0, <1>1, <1>2, <1>4 DEF QueueInv, Waits, Types
<1>6. TodoInv'
  BY <1>0, <1>1 DEF TodoInv, Waits, Types
<1>7. WokenInv'
  BY <1>0, <1>1 DEF WokenInv, schedvars
<1>8. CallInv' /\ FlagInv'
  BY <1>0, <1>1 DEF CallInv, FlagInv, Waiting
<1> QED BY <1>2, <1>3, <1>4, <1>5, <1>6, <1>7, <1>8

\* The flags of the waiter are set before it is queued.
LEMMA SetStruct ==
  ASSUME Struct, NEW p \in Task, SetState(p)
  PROVE  Struct' /\ Queued' = Queued
<1> USE DEF Struct
<1>1. /\ pc[p] = "set" /\ want[p] # "none" /\ flags[p] = "none"
      /\ pc' = [pc EXCEPT ![p] = "enqueue"] /\ flags' = [flags EXCEPT ![p] = want[p]]
      /\ state' = [state EXCEPT ![p] = "UNINTERRUPTIBLE"]
      /\ UNCHANGED <<runqueue, sigpending, wait_lock, wait_list, want, todo, readers, writers>>
  BY DEF SetState, Goto, set_task_state, CallInv, FlagInv
<1>0. /\ \A q \in Task : pc'[q] = IF q = p THEN "enqueue" ELSE pc[q]
      /\ \A q \in Task : flags'[q] = IF q = p THEN want[p] ELSE flags[q]
      /\ \A q \in Task : state'[q] = IF q = p THEN "UNINTERRUPTIBLE" ELSE state[q]
  BY <1>1 DEF Types, TasksTypeOK
<1>2. Types'
  BY <1>1 DEF Types, TasksTypeOK, TaskStates, PCs
<1>3. LockInv'
  BY <1>0, <1>1 DEF LockInv, Locked, Releasing
<1>4. Queued' = Queued
  BY <1>0, <1>1 DEF Queued
<1>5. QueueInv'
  BY <1>0, <1>1, <1>2, <1>4 DEF QueueInv, Waits, Types
<1>6. TodoInv'
  BY <1>0, <1>1 DEF TodoInv, Waits, Types
<1>7. WokenInv'
  BY <1>0, <1>1 DEF WokenInv
<1>8. CallInv' /\ FlagInv'
  BY <1>0, <1>1 DEF CallInv, FlagInv, Waiting
<1> QED BY <1>2, <1>3, <1>4, <1>5, <1>6, <1>7, <1>8

\* A waiter joins the queue, once and at its end.
LEMMA EnqueueStruct ==
  ASSUME Struct, NEW p \in Task, Enqueue(p)
  PROVE  /\ Struct' /\ Queued' = Queued \cup {p} /\ p \notin Queued /\ pc[p] = "enqueue"
         /\ Queued = Range(wait_list) /\ B' = B /\ want[p] # "none"
<1> USE DEF Struct
<1>1. /\ pc[p] = "enqueue" /\ want[p] # "none" /\ flags[p] = want[p]
      /\ wait_lock = NoTask /\ todo = <<>>
      /\ \/ pc' = [pc EXCEPT ![p] = "try"] /\ wait_lock' = p
         \/ pc' = [pc EXCEPT ![p] = "check"] /\ wait_lock' = wait_lock
      /\ wait_list' = Append(wait_list, p)
      /\ UNCHANGED <<schedvars, flags, want, todo, readers, writers>>
  BY DEF Enqueue, Goto, CallInv, FlagInv, LockInv
<1>0. PICK at \in {"try", "check"} :
        /\ \A q \in Task : pc'[q] = IF q = p THEN at ELSE pc[q]
        /\ wait_lock' = IF at = "try" THEN p ELSE NoTask
        /\ pc' = [pc EXCEPT ![p] = at]
  BY <1>1 DEF Types
<1>2. /\ wait_list \in Seq(Task) /\ Len(wait_list) \in Nat /\ DOMAIN wait_list = 1 .. Len(wait_list)
      /\ wait_list' \in Seq(Task) /\ DOMAIN wait_list' = 1 .. Len(wait_list) + 1
      /\ \A i \in DOMAIN wait_list' : wait_list'[i] = IF i = Len(wait_list) + 1 THEN p ELSE wait_list[i]
      /\ \A i \in DOMAIN wait_list' : i = Len(wait_list) + 1 \/ i \in DOMAIN wait_list
      /\ DOMAIN wait_list \subseteq DOMAIN wait_list' /\ Len(wait_list) + 1 \in DOMAIN wait_list'
      /\ Len(wait_list) + 1 \notin DOMAIN wait_list
  BY <1>1 DEF Types
<1>3. \A q \in Task : pc[q] \notin Locked
  BY <1>1, TaskAssumption DEF LockInv
<1>4. Types'
  BY <1>0, <1>1, <1>2 DEF Types, TasksTypeOK, schedvars, PCs
<1>5. /\ Queued = Range(wait_list) /\ Queued' = Range(wait_list')
      /\ B' = B
  BY <1>0, <1>3 DEF Queued, B, Locked, Releasing
<1>6. \A i \in DOMAIN wait_list : wait_list[i] # p
  BY <1>1 DEF QueueInv, Waits
<1>7. p \notin Queued /\ Queued' = Queued \cup {p}
  <2>1. p \notin Range(wait_list)
    BY <1>6 DEF Range
  <2>2. Range(wait_list') = Range(wait_list) \cup {p}
    <3>1. \A x : x \in Range(wait_list') => x \in Range(wait_list) \cup {p}
      BY <1>2 DEF Range
    <3>2. \A x : x \in Range(wait_list) \cup {p} => x \in Range(wait_list')
      BY <1>2 DEF Range
    <3> QED BY <3>1, <3>2
  <2> QED BY <1>5, <2>1, <2>2
<1>8. LockInv'
  <2>1. wait_list' # <<>>
    BY <1>2
  <2> QED BY <1>0, <1>1, <1>3, <2>1, TaskAssumption DEF LockInv, Locked, Releasing
<1>9. QueueInv'
  <2>1. \A i, k \in DOMAIN wait_list' : wait_list'[i] = wait_list'[k] => i = k
    BY <1>2, <1>6 DEF QueueInv
  <2>2. \A i \in DOMAIN wait_list' :
          /\ flags'[wait_list'[i]] = want'[wait_list'[i]] /\ want'[wait_list'[i]] # "none"
          /\ pc'[wait_list'[i]] # "enqueue"
    BY <1>0, <1>1, <1>2, <1>6 DEF QueueInv, Waits, Types
  <2>3. \A q \in Task : pc'[q] \in {"try", "undo", "addreaders"} /\ want'[q] # "none" => q \in Queued'
    BY <1>0, <1>3, <1>7 DEF Locked, Releasing
  <2> QED BY <2>1, <2>2, <2>3 DEF QueueInv, Waits
<1>10. TodoInv'
  <2>1. DOMAIN todo' = {}
    BY <1>1
  <2> QED BY <2>1 DEF TodoInv
<1>11. WokenInv'
  BY <1>0, <1>1 DEF WokenInv, schedvars
<1>12. CallInv' /\ FlagInv'
  BY <1>0, <1>1 DEF CallInv, FlagInv, Waiting
<1> QED BY <1>1, <1>4, <1>5, <1>7, <1>8, <1>9, <1>10, <1>11, <1>12

\* rwsem_wake looks at the queue.
LEMMA WakeStruct ==
  ASSUME Struct, NEW p \in Task, rwsem_wake(p)
  PROVE  Struct' /\ Queued' = Queued /\ B' = B
<1> USE DEF Struct
<1>1. /\ pc[p] = "wake" /\ want[p] = "none" /\ wait_lock = NoTask /\ todo = <<>>
      /\ \/ pc' = [pc EXCEPT ![p] = "try"] /\ wait_lock' = p /\ wait_list # <<>>
         \/ pc' = [pc EXCEPT ![p] = "idle"] /\ wait_lock' = wait_lock
      /\ UNCHANGED <<schedvars, wait_list, flags, want, todo, readers, writers>>
  BY DEF rwsem_wake, Goto, CallInv, LockInv
<1>0. PICK at \in {"try", "idle"} :
        /\ \A q \in Task : pc'[q] = IF q = p THEN at ELSE pc[q]
        /\ wait_lock' = IF at = "try" THEN p ELSE NoTask
        /\ pc' = [pc EXCEPT ![p] = at]
        /\ at = "try" => wait_list # <<>>
  BY <1>1 DEF Types
<1>3. \A q \in Task : pc[q] \notin Locked
  BY <1>1, TaskAssumption DEF LockInv
<1>4. Types'
  BY <1>0, <1>1 DEF Types, TasksTypeOK, schedvars, PCs
<1>5. Queued' = Queued /\ B' = B
  BY <1>0, <1>1, <1>3 DEF Queued, B, Locked, Releasing
<1>6. LockInv'
  BY <1>0, <1>1, <1>3, TaskAssumption DEF LockInv, Locked, Releasing
<1>7. QueueInv'
  BY <1>0, <1>1, <1>3, <1>5 DEF QueueInv, Waits, Types, Locked, Releasing
<1>8. TodoInv'
  <2>1. DOMAIN todo' = {}
    BY <1>1
  <2> QED BY <2>1 DEF TodoInv
<1>9. WokenInv'
  BY <1>0, <1>1 DEF WokenInv, schedvars
<1>10. CallInv' /\ FlagInv'
  BY <1>0, <1>1 DEF CallInv, FlagInv, Waiting
<1> QED BY <1>4, <1>5, <1>6, <1>7, <1>8, <1>9, <1>10

\* The lock is not free: the waker takes note.
LEMMA TryFailsStruct ==
  ASSUME Struct, NEW p \in Task, pc[p] = "try", pc' = [pc EXCEPT ![p] = "undo"],
         UNCHANGED <<schedvars, wait_lock, wait_list, flags, want, todo, readers, writers>>
  PROVE  Struct' /\ Queued' = Queued /\ B' = B \cup {p} /\ p \notin B
<1> USE DEF Struct
<1>0. \A q \in Task : pc'[q] = IF q = p THEN "undo" ELSE pc[q]
  BY DEF Types
<1>1. Types'
  BY DEF Types, TasksTypeOK, schedvars, PCs
<1>2. Queued' = Queued
  BY <1>0 DEF Queued
<1>3. B' = B \cup {p} /\ p \notin B
  BY <1>0 DEF B
<1>4. LockInv'
  BY <1>0 DEF LockInv, Locked, Releasing
<1>5. QueueInv'
  BY <1>0, <1>2 DEF QueueInv, Waits, Types
<1>6. TodoInv'
  BY <1>0 DEF TodoInv, Waits, Types
<1>7. WokenInv'
  BY <1>0 DEF WokenInv, schedvars
<1>8. CallInv' /\ FlagInv'
  BY <1>0 DEF CallInv, FlagInv, Waiting
<1> QED BY <1>1, <1>2, <1>3, <1>4, <1>5, <1>6, <1>7, <1>8

\* The waiters at the front are chosen.
Chosen(p, n, at) ==
  /\ pc[p] = "try" /\ pc' = [pc EXCEPT ![p] = at]
  /\ n \in 1 .. Len(wait_list) /\ Dequeue(n)
  /\ \/ at = "grant" /\ n = 1 /\ flags[wait_list[1]] = "write"
     \/ at = "addreaders" /\ \A i \in 1 .. n : flags[wait_list[i]] = "read"
  /\ UNCHANGED <<schedvars, wait_lock, flags, want, readers, writers>>

\* The waiters at the front are chosen.
LEMMA ChosenStruct ==
  ASSUME Struct, NEW p \in Task, NEW n, NEW at, Chosen(p, n, at)
  PROVE  /\ Struct' /\ Queued = Range(wait_list)
         /\ at = "grant" => /\ Queued' = Queued \ {wait_list[1]} /\ wait_list[1] \in Queued
                            /\ B' = B /\ want[wait_list[1]] = "write"
         /\ at = "addreaders" => Queued' = Queued /\ B' = B \cup {p} /\ p \notin B
<1> USE DEF Struct
<1>1. /\ pc[p] = "try" /\ pc' = [pc EXCEPT ![p] = at] /\ at \in {"grant", "addreaders"}
      /\ n \in 1 .. Len(wait_list) /\ Dequeue(n) /\ wait_lock = p /\ todo = <<>>
      /\ UNCHANGED <<schedvars, wait_lock, flags, want, readers, writers>>
  BY DEF Chosen, LockInv, Locked
<1>2. /\ todo' \in Seq(Task) /\ Len(todo') = n /\ \A i \in 1 .. n : todo'[i] = wait_list[i]
      /\ wait_list' \in Seq(Task) /\ Len(wait_list') = Len(wait_list) - n
      /\ \A i \in 1 .. Len(wait_list) - n : wait_list'[i] = wait_list[n + i]
  BY <1>1, DequeueIs
<1>0. \A q \in Task : pc'[q] = IF q = p THEN at ELSE pc[q]
  BY <1>1 DEF Types
<1>3. \A q \in Task : q # p => pc[q] \notin Locked
  BY <1>1 DEF LockInv
<1>4. /\ wait_list \in Seq(Task) /\ Len(wait_list) \in Nat /\ n \in Nat /\ n <= Len(wait_list) /\ n >= 1
      /\ DOMAIN wait_list = 1 .. Len(wait_list)
      /\ DOMAIN wait_list' = 1 .. Len(wait_list) - n /\ DOMAIN todo' = 1 .. n
  BY <1>1, <1>2 DEF Types
<1>5. /\ \A i \in DOMAIN wait_list' : n + i \in DOMAIN wait_list /\ wait_list'[i] = wait_list[n + i]
      /\ \A k \in DOMAIN todo' : k \in DOMAIN wait_list /\ todo'[k] = wait_list[k]
      /\ \A i \in DOMAIN wait_list : i \in DOMAIN todo' \/ i - n \in DOMAIN wait_list'
  BY <1>2, <1>4
<1>6. Types'
  BY <1>1, <1>2 DEF Types, TasksTypeOK, schedvars, PCs
<1>7. LockInv'
  <2>1. todo' # <<>>
    BY <1>2, <1>4
  <2> QED BY <1>0, <1>1, <1>3, <2>1, TaskAssumption DEF LockInv, Locked, Releasing
<1>8. Range(wait_list) = Range(wait_list') \cup Range(todo')
  <2>1. \A x : x \in Range(wait_list') \cup Range(todo') => x \in Range(wait_list)
    BY <1>5 DEF Range
  <2>2. ASSUME NEW i \in DOMAIN wait_list PROVE wait_list[i] \in Range(wait_list') \cup Range(todo')
    <3>1. CASE i \in DOMAIN todo'
      BY <1>5, <3>1 DEF Range
    <3>2. CASE i - n \in DOMAIN wait_list'
      <4>1. wait_list'[i - n] = wait_list[n + (i - n)] /\ n + (i - n) = i
        BY <1>4, <1>5, <3>2
      <4> QED BY <3>2, <4>1 DEF Range
    <3> QED BY <1>5, <3>1, <3>2
  <2>3. \A x : x \in Range(wait_list) => x \in Range(wait_list') \cup Range(todo')
    BY <2>2 DEF Range
  <2> QED BY <2>1, <2>3
<1>9. Queued = Range(wait_list)
  BY <1>1, <1>3 DEF Queued, Locked, Releasing
<1>10. /\ at = "addreaders" => Queued' = Queued
       /\ at = "grant" => Queued' = Range(wait_list')
  BY <1>0, <1>3, <1>8, <1>9 DEF Queued, Locked, Releasing
<1>11. \A i \in DOMAIN wait_list', k \in DOMAIN todo' : wait_list'[i] # todo'[k]
  <2> SUFFICES ASSUME NEW i \in DOMAIN wait_list', NEW k \in DOMAIN todo' PROVE wait_list'[i] # todo'[k]
    OBVIOUS
  <2>1. n + i # k
    BY <1>4
  <2> QED BY <1>5, <2>1 DEF QueueInv
<1>12. QueueInv'
  <2>1. ASSUME NEW i \in DOMAIN wait_list', NEW k \in DOMAIN wait_list', wait_list'[i] = wait_list'[k]
        PROVE  i = k
    <3>1. n + i = n + k
      BY <1>5, <2>1 DEF QueueInv
    <3> QED BY <1>4, <3>1
  <2>2. \A i \in DOMAIN wait_list' :
          /\ flags'[wait_list'[i]] = want'[wait_list'[i]] /\ want'[wait_list'[i]] # "none"
          /\ pc'[wait_list'[i]] # "enqueue"
    BY <1>0, <1>1, <1>5 DEF QueueInv, Waits, Types
  <2>3. \A q \in Task : pc'[q] \in {"try", "undo", "addreaders"} /\ want'[q] # "none" => q \in Queued'
    BY <1>0, <1>1, <1>3, <1>10, SMTT(30) DEF QueueInv, Locked, Releasing
  <2> QED BY <2>1, <2>2, <2>3 DEF QueueInv, Waits
<1>13. TodoInv'
  <2>1. \A i, k \in DOMAIN todo' : todo'[i] = todo'[k] => i = k
    BY <1>5 DEF QueueInv
  <2>2. \A k \in DOMAIN todo' :
          /\ flags'[todo'[k]] = want'[todo'[k]] /\ want'[todo'[k]] # "none"
          /\ pc'[todo'[k]] # "enqueue"
    BY <1>0, <1>1, <1>5 DEF QueueInv, Waits, Types
  <2>3. at = "addreaders" => \A k \in DOMAIN todo' : want'[todo'[k]] = "read"
    BY <1>1, <1>4, <1>5 DEF Chosen, QueueInv, Waits
  <2>4. at = "grant" => \A q \in Task : pc'[q] # "addreaders"
    BY <1>0, <1>3 DEF Locked, Releasing
  <2> QED BY <1>1, <1>11, <2>1, <2>2, <2>3, <2>4 DEF TodoInv, Waits
<1>14. WokenInv'
  <2>1. Range(todo) = {}
    BY <1>1 DEF Range
  <2> QED BY <1>0, <1>1, <2>1 DEF WokenInv, schedvars
<1>15. CallInv' /\ FlagInv'
  BY <1>0, <1>1 DEF CallInv, FlagInv, Waiting
<1>16. at = "grant" => /\ Queued' = Queued \ {wait_list[1]} /\ wait_list[1] \in Queued
                       /\ B' = B /\ want[wait_list[1]] = "write"
  <2> SUFFICES ASSUME at = "grant"
               PROVE  /\ Queued' = Queued \ {wait_list[1]} /\ wait_list[1] \in Queued
                      /\ B' = B /\ want[wait_list[1]] = "write"
    OBVIOUS
  <2>1. n = 1 /\ flags[wait_list[1]] = "write" /\ 1 \in DOMAIN wait_list /\ 1 \in DOMAIN todo'
    BY <1>4 DEF Chosen
  <2>2. want[wait_list[1]] = "write" /\ wait_list[1] \in Range(wait_list)
    BY <2>1 DEF QueueInv, Waits, Range
  <2>3. Range(todo') = {wait_list[1]}
    BY <1>4, <1>5, <2>1 DEF Range
  <2>4. wait_list[1] \notin Range(wait_list')
    BY <1>5, <1>11, <2>1 DEF Range
  <2>5. B' = B
    BY <1>0, <1>1 DEF B
  <2> QED BY <1>8, <1>9, <1>10, <2>2, <2>3, <2>4, <2>5
<1>17. at = "addreaders" => B' = B \cup {p} /\ p \notin B
  BY <1>0, <1>1 DEF B
<1> QED BY <1>6, <1>7, <1>9, <1>10, <1>12, <1>13, <1>14, <1>15, <1>16, <1>17

\* readers_only: those chosen are no longer queued.
LEMMA AddStruct ==
  ASSUME Struct, NEW p \in Task, AddReaders(p)
  PROVE  /\ Struct' /\ B' = B \ {p} /\ p \in B
         /\ Queued = Range(wait_list) \cup Range(todo) /\ Queued' = Range(wait_list)
         /\ Range(wait_list) \cap Range(todo) = {}
         /\ \A q \in Range(todo) : want[q] = "read"
<1> USE DEF Struct
<1>1. /\ pc[p] = "addreaders" /\ pc' = [pc EXCEPT ![p] = "grant"] /\ wait_lock = p
      /\ UNCHANGED <<schedvars, wait_lock, wait_list, flags, want, todo, readers, writers>>
  BY DEF AddReaders, Goto, LockInv, Locked, Releasing
<1>0. \A q \in Task : pc'[q] = IF q = p THEN "grant" ELSE pc[q]
  BY <1>1 DEF Types
<1>2. \A q \in Task : q # p => pc[q] \notin Locked
  BY <1>1 DEF LockInv
<1>3. Types'
  BY <1>1 DEF Types, TasksTypeOK, schedvars, PCs
<1>4. Queued = Range(wait_list) \cup Range(todo) /\ Queued' = Range(wait_list)
  BY <1>0, <1>1, <1>2 DEF Queued, Locked, Releasing
<1>5. B' = B \ {p} /\ p \in B
  BY <1>0, <1>1 DEF B
<1>6. LockInv'
  BY <1>0, <1>1 DEF LockInv, Locked, Releasing
<1>7. QueueInv'
  BY <1>0, <1>1, <1>2 DEF QueueInv, Waits, Types, Locked, Releasing
<1>8. TodoInv'
  BY <1>0, <1>1, <1>2 DEF TodoInv, Waits, Types, Locked, Releasing
<1>9. WokenInv'
  BY <1>0, <1>1 DEF WokenInv, schedvars
<1>10. CallInv' /\ FlagInv'
  BY <1>0, <1>1 DEF CallInv, FlagInv, Waiting
<1>11. Range(wait_list) \cap Range(todo) = {} /\ \A q \in Range(todo) : want[q] = "read"
  BY <1>1 DEF TodoInv, Range
<1> QED BY <1>3, <1>4, <1>5, <1>6, <1>7, <1>8, <1>9, <1>10, <1>11

\* The waker takes its unit back, and leaves or tries again.
LEMMA UndoStruct ==
  ASSUME Struct, NEW p \in Task, Undo(p)
  PROVE  Struct' /\ Queued' = Queued /\ B' = B \ {p} /\ p \in B
<1> USE DEF Struct
<1>1. /\ pc[p] = "undo" /\ wait_lock = p /\ wait_list # <<>> /\ todo = <<>>
      /\ \/ pc' = [pc EXCEPT ![p] = IF want[p] = "none" THEN "idle" ELSE "check"] /\ wait_lock' = NoTask
         \/ pc' = [pc EXCEPT ![p] = "try"] /\ wait_lock' = wait_lock
      /\ UNCHANGED <<schedvars, wait_list, flags, want, todo, readers, writers>>
  BY DEF Undo, Unlock, Goto, LockInv, Locked
<1>0. PICK at \in {"idle", "check", "try"} :
        /\ \A q \in Task : pc'[q] = IF q = p THEN at ELSE pc[q]
        /\ wait_lock' = IF at = "try" THEN p ELSE NoTask
        /\ pc' = [pc EXCEPT ![p] = at]
        /\ at = "idle" => want[p] = "none"
        /\ at = "check" => want[p] # "none"
  BY <1>1 DEF Types
<1>2. \A q \in Task : q # p => pc[q] \notin Locked
  BY <1>1 DEF LockInv
<1>3. Types'
  BY <1>0, <1>1 DEF Types, TasksTypeOK, schedvars, PCs
<1>4. Queued' = Queued /\ B' = B \ {p} /\ p \in B
  BY <1>0, <1>1, <1>2 DEF Queued, B, Locked, Releasing
<1>6. LockInv'
  BY <1>0, <1>1, <1>2, TaskAssumption DEF LockInv, Locked, Releasing
<1>7. QueueInv'
  BY <1>0, <1>1, <1>2, <1>4 DEF QueueInv, Waits, Types, Locked, Releasing
<1>8. TodoInv'
  <2>1. DOMAIN todo' = {}
    BY <1>1
  <2> QED BY <2>1 DEF TodoInv
<1>9. WokenInv'
  BY <1>0, <1>1 DEF WokenInv, schedvars
<1>10. CallInv' /\ FlagInv'
  BY <1>0, <1>1 DEF CallInv, FlagInv, Waiting
<1> QED BY <1>3, <1>4, <1>6, <1>7, <1>8, <1>9, <1>10

\* A waiter finds its flags cleared and returns with the lock.
LEMMA GrantedStruct ==
  ASSUME Struct, NEW p \in Task, Granted(p)
  PROVE  Struct' /\ Queued' = Queued /\ B' = B /\ p \notin Queued
<1> USE DEF Struct
<1>1. /\ pc[p] = "check" /\ flags[p] = "none" /\ want[p] # "none"
      /\ pc' = [pc EXCEPT ![p] = "idle"] /\ want' = [want EXCEPT ![p] = "none"]
      /\ state' = [state EXCEPT ![p] = "RUNNING"]
      /\ readers' = (IF want[p] = "read" THEN readers \cup {p} ELSE readers)
      /\ writers' = (IF want[p] = "write" THEN writers \cup {p} ELSE writers)
      /\ UNCHANGED <<runqueue, sigpending, wait_lock, wait_list, flags, todo>>
  BY DEF Granted, Goto, Hold, set_task_state, CallInv, Waiting
<1>0. /\ \A q \in Task : pc'[q] = IF q = p THEN "idle" ELSE pc[q]
      /\ \A q \in Task : want'[q] = IF q = p THEN "none" ELSE want[q]
      /\ \A q \in Task : state'[q] = IF q = p THEN "RUNNING" ELSE state[q]
  BY <1>1 DEF Types, TasksTypeOK
<1>2. p \notin Queued
  BY <1>1, QueuedWait
<1>3. Types'
  BY <1>1 DEF Types, TasksTypeOK, TaskStates, PCs, Modes
<1>4. Queued' = Queued /\ B' = B
  BY <1>0, <1>1 DEF Queued, B
<1>6. LockInv'
  BY <1>0, <1>1 DEF LockInv, Locked, Releasing
<1>7. QueueInv'
  BY <1>0, <1>1, <1>4 DEF QueueInv, Waits, Types
<1>8. TodoInv'
  <2>1. \A k \in DOMAIN todo : todo[k] \in Task
    BY DEF Types
  <2>2. ASSUME NEW k \in DOMAIN todo, Waits(todo[k])
        PROVE  flags'[todo[k]] = want'[todo[k]] /\ want'[todo[k]] # "none" /\ pc'[todo[k]] # "enqueue"
    BY <1>0, <1>1, <2>1, <2>2 DEF Waits
  <2>3. \A q \in Task : /\ pc'[q] = "ttwu" <=> pc[q] = "ttwu"
                        /\ pc'[q] = "addreaders" => pc[q] = "addreaders"
    BY <1>0, <1>1
  <2>4. (\E q \in Task : pc[q] = "addreaders") => p \notin Range(todo)
    BY <1>2 DEF Queued
  <2>5. (\E q \in Task : pc'[q] = "addreaders") => \A k \in DOMAIN todo : want'[todo[k]] = "read"
    BY <1>0, <2>1, <2>3, <2>4 DEF TodoInv, Range
  <2> QED BY <1>1, <2>2, <2>3, <2>5 DEF TodoInv, Waits
<1>9. WokenInv'
  BY <1>0, <1>1 DEF WokenInv
<1>10. CallInv'
  BY <1>0, <1>1 DEF CallInv, Waiting, Types, Modes
<1>11. FlagInv'
  BY <1>0, <1>1 DEF FlagInv
<1> QED BY <1>2, <1>3, <1>4, <1>6, <1>7, <1>8, <1>9, <1>10, <1>11

\* A waiter goes round its loop.
LEMMA LoopStruct ==
  ASSUME Struct, NEW p \in Task, NotGranted(p) \/ Schedule(p) \/ Resume(p)
  PROVE  Struct' /\ Queued' = Queued /\ B' = B /\ pc[p] \in Waiting /\ UNCHANGED waitervars
         /\ \E at \in Waiting : pc' = [pc EXCEPT ![p] = at]
<1> USE DEF Struct
<1>1. PICK at \in Waiting :
        /\ pc[p] \in Waiting /\ pc' = [pc EXCEPT ![p] = at]
        /\ UNCHANGED <<wait_lock, wait_list, flags, want, todo, readers, writers>>
  BY DEF NotGranted, Schedule, Resume, Goto, waitervars, Waiting
<1>0. \A q \in Task : pc'[q] = IF q = p THEN at ELSE pc[q]
  BY <1>1 DEF Types
<1>2. TasksTypeOK'
  BY DEF Types, TasksTypeOK, TaskStates, NotGranted, Schedule, Resume, schedule, set_task_state, schedvars
<1>3. Types'
  BY <1>1, <1>2 DEF Types, PCs, Waiting
<1>4. Queued' = Queued /\ B' = B
  BY <1>0, <1>1 DEF Queued, B, Waiting
<1>5. LockInv'
  BY <1>0, <1>1 DEF LockInv, Locked, Releasing, Waiting
<1>6. QueueInv'
  BY <1>0, <1>1, <1>4 DEF QueueInv, Waits, Types, Waiting
<1>7. TodoInv'
  BY <1>0, <1>1 DEF TodoInv, Waits, Types, Waiting
<1>8. CallInv' /\ FlagInv'
  BY <1>0, <1>1 DEF CallInv, FlagInv, Waiting
<1>9. WokenInv'
  <2>1. CASE NotGranted(p)
    <3>1. flags[p] # "none" /\ pc[p] = "check" /\ pc' = [pc EXCEPT ![p] = "schedule"]
          /\ UNCHANGED <<schedvars, flags, todo>>
      BY <2>1 DEF NotGranted, Goto, waitervars
    <3> QED BY <3>1 DEF WokenInv, schedvars, Types
  <2>2. CASE Schedule(p)
    <3>1. pc[p] = "schedule" /\ pc' = [pc EXCEPT ![p] = "resume"] /\ UNCHANGED <<flags, todo>>
          /\ p \in runqueue
      BY <2>2 DEF Schedule, Goto, waitervars, WokenInv
    <3>2. /\ \A q \in Task \ {p} : state'[q] = state[q] /\ (q \in runqueue' <=> q \in runqueue)
          /\ state[p] = "RUNNING" => runqueue' = runqueue
      BY <2>2 DEF Schedule, schedule, Types, TasksTypeOK
    <3> QED BY <3>1, <3>2, SMTT(30) DEF WokenInv, Types
  <2>3. CASE Resume(p)
    <3>1. pc[p] = "resume" /\ pc' = [pc EXCEPT ![p] = "check"] /\ UNCHANGED <<flags, todo, runqueue>>
          /\ p \in runqueue /\ state' = [state EXCEPT ![p] = "UNINTERRUPTIBLE"]
      BY <2>3 DEF Resume, Goto, waitervars, set_task_state
    <3> QED BY <3>1 DEF WokenInv, Types, TasksTypeOK
  <2> QED BY <2>1, <2>2, <2>3
<1> QED BY <1>1, <1>3, <1>4, <1>5, <1>6, <1>7, <1>8, <1>9, Zenon DEF waitervars

\* The flags of the first task chosen are cleared.
LEMMA GrantStruct ==
  ASSUME Struct, NEW p \in Task, Grant(p)
  PROVE  Struct' /\ Queued' = Queued /\ B' = B /\ pc[p] = "grant" /\ pc' = [pc EXCEPT ![p] = "ttwu"]
<1> USE DEF Struct
<1>1. /\ pc[p] = "grant" /\ pc' = [pc EXCEPT ![p] = "ttwu"] /\ wait_lock = p /\ todo # <<>>
      /\ flags' = [flags EXCEPT ![Head(todo)] = "none"]
      /\ UNCHANGED <<schedvars, wait_lock, wait_list, want, todo, readers, writers>>
  BY DEF Grant, Goto, LockInv, Locked, Releasing
<1>2. /\ 1 \in DOMAIN todo /\ Head(todo) = todo[1] /\ todo[1] \in Task
      /\ \A k \in DOMAIN todo : todo[k] \in Task /\ k \in Nat
      /\ \A i \in DOMAIN wait_list : wait_list[i] \in Task
  BY <1>1 DEF Types
<1>0. /\ \A q \in Task : pc'[q] = IF q = p THEN "ttwu" ELSE pc[q]
      /\ \A q \in Task : flags'[q] = IF q = todo[1] THEN "none" ELSE flags[q]
  BY <1>1, <1>2 DEF Types
<1>3. \A q \in Task : q # p => pc[q] \notin Locked
  BY <1>1 DEF LockInv
<1>4. \A q \in Task : pc[q] # "ttwu" /\ pc'[q] # "addreaders" /\ pc[q] # "addreaders"
  BY <1>0, <1>1, <1>3 DEF Locked, Releasing
<1>5. Waits(todo[1])
  BY <1>2, <1>4 DEF TodoInv
<1>6. Types'
  BY <1>1, <1>2 DEF Types, TasksTypeOK, schedvars, PCs, Modes
<1>7. Queued' = Queued /\ B' = B
  <2>1. Queued' = Queued
    BY <1>1, <1>4 DEF Queued
  <2>2. B' = B
    BY <1>0, <1>1 DEF B
  <2> QED BY <2>1, <2>2
<1>8. LockInv'
  BY <1>0, <1>1 DEF LockInv, Locked, Releasing
<1>9. QueueInv'
  <2>1. \A i \in DOMAIN wait_list : wait_list[i] # todo[1]
    BY <1>2 DEF TodoInv
  <2> QED BY <1>0, <1>1, <1>2, <1>3, <1>7, <2>1 DEF QueueInv, Waits, Locked, Releasing
<1>10. TodoInv'
  <2>1. \A k \in DOMAIN todo : k > 1 => todo[k] # todo[1] /\ Waits(todo[k])
    BY <1>2 DEF TodoInv
  <2>2. pc'[p] = "ttwu"
    BY <1>0
  <2> QED BY <1>0, <1>1, <1>2, <1>4, <2>1, <2>2, SMTT(30) DEF TodoInv, Waits
<1>11. WokenInv'
  <2>1. todo[1] \in Range(todo)
    BY <1>2 DEF Range
  <2> QED BY <1>0, <1>1, <2>1 DEF WokenInv, schedvars
<1>12. CallInv'
  BY <1>0, <1>1 DEF CallInv, Waiting
<1>13. FlagInv'
  BY <1>0, <1>1, <1>5 DEF FlagInv, Waits
<1> QED BY <1>1, <1>6, <1>7, <1>8, <1>9, <1>10, <1>11, <1>12, <1>13

\* It is woken; after the last one wait_lock is released.
LEMMA WakeUpStruct ==
  ASSUME Struct, NEW p \in Task, WakeUp(p)
  PROVE  /\ Struct' /\ Queued' = Queued /\ B' = B /\ pc[p] = "ttwu"
         /\ UNCHANGED <<wait_list, flags, want, readers, writers>>
         /\ \E at \in {"grant", "idle", "check"} : pc' = [pc EXCEPT ![p] = at]
<1> USE DEF Struct
<1>1. /\ pc[p] = "ttwu" /\ wait_lock = p /\ todo # <<>> /\ todo' = Tail(todo)
      /\ state' = [state EXCEPT ![Head(todo)] = "RUNNING"]
      /\ runqueue' = runqueue \cup {Head(todo)} /\ sigpending' = sigpending
      /\ \/ todo' # <<>> /\ pc' = [pc EXCEPT ![p] = "grant"] /\ wait_lock' = wait_lock
         \/ /\ todo' = <<>> /\ wait_lock' = NoTask
            /\ pc' = [pc EXCEPT ![p] = IF want[p] = "none" THEN "idle" ELSE "check"]
      /\ UNCHANGED <<wait_list, flags, want, readers, writers>>
  BY DEF WakeUp, Unlock, Goto, try_to_wake_up, LockInv, Locked, Releasing
<1>0. PICK at \in {"grant", "idle", "check"} :
        /\ \A q \in Task : pc'[q] = IF q = p THEN at ELSE pc[q]
        /\ at = "grant" => wait_lock' = p /\ todo' # <<>>
        /\ at # "grant" => wait_lock' = NoTask /\ todo' = <<>>
        /\ pc' = [pc EXCEPT ![p] = at]
        /\ at = "idle" => want[p] = "none"
        /\ at = "check" => want[p] # "none"
  BY <1>1 DEF Types
<1>2. /\ 1 \in DOMAIN todo /\ Head(todo) = todo[1] /\ todo[1] \in Task
      /\ todo' \in Seq(Task) /\ DOMAIN todo \subseteq Nat
      /\ \A k \in DOMAIN todo' : k \in Nat \ {0} /\ k + 1 \in DOMAIN todo /\ todo'[k] = todo[k + 1]
      /\ \A k \in DOMAIN todo : k = 1 \/ (k - 1 \in DOMAIN todo' /\ todo'[k - 1] = todo[k])
      /\ \A k \in DOMAIN todo : todo[k] \in Task
  BY <1>1 DEF Types
<1>3. \A q \in Task : q # p => pc[q] \notin Locked
  BY <1>1 DEF LockInv
<1>4. \A q \in Task : pc'[q] # "ttwu" /\ pc'[q] # "addreaders" /\ pc[q] # "addreaders"
  BY <1>0, <1>1, <1>3 DEF Locked, Releasing
<1>5. Types'
  BY <1>0, <1>1, <1>2 DEF Types, TasksTypeOK, TaskStates, PCs
<1>6. Queued' = Queued /\ B' = B
  <2>1. Queued' = Queued
    BY <1>1, <1>4 DEF Queued
  <2>2. B' = B
    BY <1>0, <1>1 DEF B
  <2> QED BY <2>1, <2>2
<1>7. LockInv'
  BY <1>0, <1>1, <1>3, TaskAssumption DEF LockInv, Locked, Releasing
<1>8. QueueInv'
  BY <1>0, <1>1, <1>3, <1>6, SMTT(30) DEF QueueInv, Waits, Types, Locked, Releasing
<1>9. TodoInv'
  <2>1. ASSUME NEW i \in DOMAIN todo', NEW k \in DOMAIN todo', todo'[i] = todo'[k] PROVE i = k
    <3>1. i + 1 = k + 1
      BY <1>2, <2>1 DEF TodoInv
    <3> QED BY <1>2, <3>1
  <2>2. \A i \in DOMAIN wait_list', k \in DOMAIN todo' : wait_list'[i] # todo'[k]
    BY <1>1, <1>2 DEF TodoInv
  <2>3. \A k \in DOMAIN todo' : Waits(todo[k + 1])
    BY <1>2 DEF TodoInv
  <2>4. \A k \in DOMAIN todo' :
          /\ flags'[todo'[k]] = want'[todo'[k]] /\ want'[todo'[k]] # "none" /\ pc'[todo'[k]] # "enqueue"
    BY <1>0, <1>1, <1>2, <2>3 DEF Waits
  <2> QED BY <1>4, <2>1, <2>2, <2>4 DEF TodoInv, Waits
<1>10. WokenInv'
  <2>1. \A q \in Range(todo) : q = todo[1] \/ q \in Range(todo')
    BY <1>2 DEF Range
  <2>2. \A q \in Task : state'[q] = IF q = todo[1] THEN "RUNNING" ELSE state[q]
    BY <1>1, <1>2 DEF Types, TasksTypeOK
  <2>3. runqueue' = runqueue \cup {todo[1]} /\ flags' = flags
    BY <1>1, <1>2
  <2> QED BY <1>0, <1>1, <2>1, <2>2, <2>3 DEF WokenInv
<1>11. CallInv' /\ FlagInv'
  BY <1>0, <1>1 DEF CallInv, FlagInv, Waiting
<1> QED BY <1>0, <1>1, <1>5, <1>6, <1>7, <1>8, <1>9, <1>10, <1>11, Zenon

-----------------------------------------------------------------------------
(* The two halves of count. *)

\* CountInv in terms of the sets above.
LEMMA CountIs ==
  CountInv <=> count = (Cardinality(A) + Cardinality(B)) * ACTIVE_BIAS + Cardinality(M) * WAITING_BIAS
  BY DEF CountInv, A, B, M

\* The same after a step.
LEMMA CountIsPrime ==
  CountInv' <=> count' = (Cardinality(A') + Cardinality(B')) * ACTIVE_BIAS + Cardinality(M') * WAITING_BIAS
  BY DEF CountInv, A, B, M

\* Sets of tasks are finite, and grow and shrink by one.
LEMMA OneMore ==
  ASSUME NEW S \in SUBSET Task, NEW x \in Task
  PROVE  /\ IsFiniteSet(S) /\ Cardinality(S) \in Nat
         /\ Cardinality(S \cup {x}) = IF x \in S THEN Cardinality(S) ELSE Cardinality(S) + 1
         /\ Cardinality(S \ {x}) = IF x \in S THEN Cardinality(S) - 1 ELSE Cardinality(S)
<1>1. IsFiniteSet(S)
  BY FS_Subset, TaskAssumption
<1>2. Cardinality(S) \in Nat
  BY <1>1, FS_CardinalityType
<1>3. x \in S => S \cup {x} = S /\ Cardinality(S \ {x}) = Cardinality(S) - 1
  BY <1>1, FS_RemoveElement
<1>4. x \notin S => S \ {x} = S /\ Cardinality(S \cup {x}) = Cardinality(S) + 1
  BY <1>1, FS_AddElement
<1> QED BY <1>1, <1>2, <1>3, <1>4, Zenon

\* The sets are sets of tasks.
LEMMA Sets ==
  ASSUME Types
  PROVE  A \in SUBSET Task /\ B \in SUBSET Task /\ M \in SUBSET Task
<1>1. Queued \subseteq Task
  BY QueuedIs
<1> QED BY <1>1 DEF A, B, M, Types

\* The changes a step makes to the sizes of the sets.
LEMMA SmallInts == 0 \in Int /\ 1 \in Int /\ -1 \in Int
  OBVIOUS

\* A step moves count by as much as it moves the sizes of the sets.
LEMMA CountMoves ==
  ASSUME Types, CountInv
  PROVE  \A a, b, m \in Int :
           /\ Cardinality(A') = Cardinality(A) + a /\ Cardinality(B') = Cardinality(B) + b
           /\ Cardinality(M') = Cardinality(M) + m
           /\ count' = count + (a + b) * ACTIVE_BIAS + m * WAITING_BIAS
           => CountInv'
<1> SUFFICES ASSUME NEW a \in Int, NEW b \in Int, NEW m \in Int,
                    Cardinality(A') = Cardinality(A) + a, Cardinality(B') = Cardinality(B) + b,
                    Cardinality(M') = Cardinality(M) + m,
                    count' = count + (a + b) * ACTIVE_BIAS + m * WAITING_BIAS
             PROVE  CountInv'
  OBVIOUS
<1>1. PICK x \in Nat, y \in Nat, z \in Nat : x = Cardinality(A) /\ y = Cardinality(B) /\ z = Cardinality(M)
  <2>1. Cardinality(A) \in Nat /\ Cardinality(B) \in Nat /\ Cardinality(M) \in Nat
    BY Sets, FS_Subset, FS_CardinalityType, TaskAssumption
  <2> QED BY <2>1
<1>2. PICK u \in Int : u = WAITING_BIAS
  BY UnitAssumption DEF WAITING_BIAS
<1>3. count = (x + y) + z * u
  BY <1>1, <1>2, CountIs DEF ACTIVE_BIAS
<1>4. count' = (x + y) + z * u + (a + b) + m * u
  BY <1>2, <1>3 DEF ACTIVE_BIAS
<1>5. (x + y) + z * u + (a + b) + m * u = ((x + a) + (y + b)) + (z + m) * u
  OBVIOUS
<1>6. count' = (Cardinality(A') + Cardinality(B')) + Cardinality(M') * u
  BY <1>1, <1>4, <1>5
<1> QED BY <1>1, <1>2, <1>6, CountIsPrime DEF ACTIVE_BIAS

\* The halves do not run into each other: a waker with a unit of its own has no
\* other one in the lower half.
LEMMA HalvesFit ==
  ASSUME Struct
  PROVE  /\ Cardinality(A) + Cardinality(B) \in 0 .. Cardinality(Task)
         /\ Cardinality(M) \in 0 .. Cardinality(Task)
         /\ \A p \in Task : p \notin A \cup B => Cardinality(A) + Cardinality(B) + 1 <= Cardinality(Task)
         /\ Cardinality(A) \in Nat /\ Cardinality(B) \in Nat /\ Cardinality(Task) \in Nat
         /\ Cardinality(A) = 0 => A = {}
         /\ Cardinality(B) = 0 => B = {}
         /\ Cardinality(M) = 0 => M = {}
<1>1. A \in SUBSET Task /\ B \in SUBSET Task /\ M \in SUBSET Task
  BY Sets DEF Struct
<1>2. A \cap B = {}
  BY <1>1 DEF Struct, A, B, CallInv, QueueInv
<1>3. /\ IsFiniteSet(A) /\ IsFiniteSet(B) /\ IsFiniteSet(M) /\ IsFiniteSet(Task) /\ IsFiniteSet(A \cup B)
  BY <1>1, FS_Subset, FS_Union, TaskAssumption
<1>4. Cardinality(A \cup B) = Cardinality(A) + Cardinality(B)
  <2>1. Cardinality(A \cup B) = Cardinality(A) + Cardinality(B) - Cardinality(A \cap B)
    BY <1>3, FS_Union
  <2>2. Cardinality(A \cap B) = 0
    BY <1>2, FS_EmptySet
  <2>3. Cardinality(A) \in Nat /\ Cardinality(B) \in Nat
    BY <1>3, FS_CardinalityType
  <2> QED BY <2>1, <2>2, <2>3
<1>5. /\ Cardinality(A) \in Nat /\ Cardinality(B) \in Nat /\ Cardinality(M) \in Nat /\ Cardinality(Task) \in Nat
  BY <1>3, FS_CardinalityType
<1>6. Cardinality(A \cup B) <= Cardinality(Task) /\ Cardinality(M) <= Cardinality(Task)
  BY <1>1, <1>3, FS_Subset
<1>7. ASSUME NEW p \in Task, p \notin A \cup B
      PROVE  Cardinality(A) + Cardinality(B) + 1 <= Cardinality(Task)
  <2>1. Cardinality((A \cup B) \cup {p}) = Cardinality(A \cup B) + 1
    BY <1>3, <1>7, FS_AddElement, Zenon
  <2>2. (A \cup B) \cup {p} \subseteq Task
    BY <1>1, <1>7
  <2>3. Cardinality((A \cup B) \cup {p}) <= Cardinality(Task)
    BY <1>3, <2>2, FS_Subset
  <2> QED BY <1>4, <1>5, <2>1, <2>3
<1>8. /\ Cardinality(A) = 0 => A = {}
      /\ Cardinality(B) = 0 => B = {}
      /\ Cardinality(M) = 0 => M = {}
  BY <1>3, FS_EmptySet
<1> QED BY <1>4, <1>5, <1>6, <1>7, <1>8

\* What the sign and the lower half of count tell.
LEMMA CountTells ==
  ASSUME Struct, CountInv
  PROVE  /\ \A p \in Task : p \notin A \cup B /\ count + 1 >= 0 => M = {}
         /\ count = 0 => A = {} /\ B = {} /\ M = {}
         /\ Active(count) = 0 => A = {} /\ B = {}
<1>1. PICK l \in Nat, m \in Nat, n \in Nat, U \in Nat :
        /\ l = Cardinality(A) + Cardinality(B) /\ m = Cardinality(M)
        /\ n = Cardinality(Task) /\ U = WAITING_UNIT /\ l <= n /\ U > n
  BY HalvesFit, UnitAssumption
<1>2. count = l - m * U
  BY <1>1, CountIs DEF ACTIVE_BIAS, WAITING_BIAS
<1>3. l = 0 => A = {} /\ B = {}
  BY <1>1, HalvesFit
<1>4. m = 0 => M = {}
  BY <1>1, HalvesFit
<1>5. m # 0 => m * U >= U
  <2>1. \A i \in Nat, k \in Nat : i # 0 => i * k >= k
    OBVIOUS
  <2> QED BY <2>1
<1>6. ASSUME NEW p \in Task, p \notin A \cup B, count + 1 >= 0 PROVE M = {}
  <2>1. l + 1 <= n
    BY <1>1, <1>6, HalvesFit
  <2>2. PICK k \in Int : k = m * U
    OBVIOUS
  <2>3. m = 0
    BY <1>1, <1>2, <1>5, <1>6, <2>1, <2>2
  <2> QED BY <1>4, <2>3
<1>7. count = 0 => l = 0 /\ m = 0
  <2>2. PICK k \in Int : k = m * U
    OBVIOUS
  <2>3. count = 0 => m = 0
    BY <1>1, <1>2, <1>5, <2>2
  <2>4. m = 0 => m * U = 0
    OBVIOUS
  <2> QED BY <1>1, <1>2, <2>3, <2>4
<1>8. Active(count) = 0 => l = 0
  <2>1. (l - m * U) % U = l
    <3>0. PICK c \in Int : c = l - m * U
      OBVIOUS
    <3>1. c \div U \in Int /\ c % U \in 0 .. U - 1 /\ c = U * (c \div U) + (c % U)
      BY <1>1
    <3>2. PICK d \in Int : l - m * U = U * d + ((l - m * U) % U) /\ (l - m * U) % U \in 0 .. U - 1
      BY <3>0, <3>1, Zenon
    <3>3. PICK r \in 0 .. U - 1 : r = (l - m * U) % U
      BY <3>2
    <3>4. PICK e \in Int : e = d + m
      OBVIOUS
    <3>5. l - r = U * e
      BY <3>2, <3>3, <3>4
    <3>6. e >= 1 => U * e >= U
      <4>1. \A i \in Nat, k \in Int : k >= 1 => i * k >= i
        OBVIOUS
      <4> QED BY <4>1
    <3>7. e <= -1 => U * e <= -U
      <4>1. \A i \in Nat, k \in Int : k <= -1 => i * k <= -i
        OBVIOUS
      <4> QED BY <4>1
    <3>8. PICK g \in Int : g = U * e
      OBVIOUS
    <3>9. ~(e >= 1) /\ ~(e <= -1)
      BY <1>1, <3>5, <3>6, <3>7, <3>8
    <3>10. e = 0
      BY <3>9
    <3>11. U * e = 0
      BY <3>10
    <3> QED BY <3>3, <3>5, <3>11
  <2> QED BY <1>1, <1>2, <2>1 DEF Active
<1> QED BY <1>3, <1>4, <1>6, <1>7, <1>8

-----------------------------------------------------------------------------
(* count stays exact, action by action. *)

\* An attempt on the fast path, whether or not it succeeds.
LEMMA AttemptCounts ==
  ASSUME Struct, CountInv, NEW p \in Task, NEW mode \in {"read", "write"},
         Took(p, mode) \/ Failed(p, mode),
         count' = count + (IF mode = "read" THEN ACTIVE_BIAS ELSE WRITE_BIAS)
  PROVE  CountInv'
<1>0. Types /\ Queued' = Queued
  BY FailedStruct DEF Struct, Took, Queued
<1>1. pc[p] = "idle" /\ p \notin readers \cup writers /\ want[p] = "none"
  BY DEF Struct, Took, Failed, Idle, CallInv
<1>2. p \notin Queued
  BY <1>1, QueuedWait
<1>3. p \notin A /\ p \notin M
  BY <1>1, <1>2 DEF A, M
<1>4. A' = A \cup {p} /\ B' = B /\ M' = IF mode = "write" THEN M \cup {p} ELSE M
  <2>1. CASE Took(p, mode)
    BY <1>0, <1>2, <2>1 DEF Took, Hold, A, B, M
  <2>2. CASE Failed(p, mode)
    BY <1>0, <1>1, <1>2, <2>2 DEF Failed, A, B, M, Types
  <2> QED BY <2>1, <2>2
<1>5. A \in SUBSET Task /\ B \in SUBSET Task /\ M \in SUBSET Task
  BY <1>0, Sets
<1>6. Cardinality(A') = Cardinality(A) + 1 /\ Cardinality(B') = Cardinality(B) + 0
  <2>1. Cardinality(A') = Cardinality(A) + 1
    BY <1>3, <1>4, <1>5, OneMore
  <2>2. Cardinality(B) \in Nat
    BY <1>5, OneMore, Zenon
  <2> QED BY <1>4, <2>1, <2>2
<1>c. count \in Int /\ WAITING_BIAS \in Int /\ Cardinality(M) \in Nat
  <2>1. Cardinality(A) \in Nat /\ Cardinality(B) \in Nat /\ Cardinality(M) \in Nat
    BY <1>5, OneMore, Zenon
  <2> QED BY <2>1, CountIs, UnitAssumption DEF ACTIVE_BIAS, WAITING_BIAS
<1>7. CASE mode = "read"
  <2>1. Cardinality(M') = Cardinality(M) + 0
    BY <1>c, <1>4, <1>7
  <2>2. count' = count + (1 + 0) * ACTIVE_BIAS + 0 * WAITING_BIAS
    BY <1>7, <1>c DEF ACTIVE_BIAS
  <2> QED BY <1>0, <1>6, <2>1, <2>2, CountMoves, SmallInts, Zenon
<1>8. CASE mode = "write"
  <2>1. Cardinality(M') = Cardinality(M) + 1
    BY <1>3, <1>4, <1>5, <1>8, OneMore
  <2>2. count' = count + (1 + 0) * ACTIVE_BIAS + 1 * WAITING_BIAS
    BY <1>8, <1>c DEF ACTIVE_BIAS, WRITE_BIAS
  <2> QED BY <1>0, <1>6, <2>1, <2>2, CountMoves, SmallInts, Zenon
<1> QED BY <1>7, <1>8

\* The release of the lock.
LEMMA LeftCounts ==
  ASSUME Struct, CountInv, NEW p \in Task, NEW at, Left(p, at),
         count' = count - (IF p \in readers THEN ACTIVE_BIAS ELSE WRITE_BIAS)
  PROVE  CountInv'
<1>0. Types /\ Queued' = Queued /\ pc[p] = "idle" /\ want[p] = "none" /\ ~(p \in readers /\ p \in writers)
  BY LeftStruct DEF Struct, CallInv
<1>2. p \notin Queued
  BY <1>0, QueuedWait
<1>4. A' = A \ {p} /\ B' = B /\ M' = (IF p \in writers THEN M \ {p} ELSE M) /\ p \in A /\ (p \in writers => p \in M)
  BY <1>0, <1>2 DEF Left, A, B, M, Types
<1>5. A \in SUBSET Task /\ B \in SUBSET Task /\ M \in SUBSET Task
  BY <1>0, Sets
<1>6. Cardinality(A') = Cardinality(A) + (-1) /\ Cardinality(B') = Cardinality(B) + 0
  <2>1. Cardinality(A') = Cardinality(A) - 1 /\ Cardinality(A) \in Nat
    BY <1>4, <1>5, OneMore
  <2>2. Cardinality(B) \in Nat
    BY <1>5, OneMore, Zenon
  <2> QED BY <1>4, <2>1, <2>2
<1>c. count \in Int /\ WAITING_BIAS \in Int /\ Cardinality(M) \in Nat
  <2>1. Cardinality(A) \in Nat /\ Cardinality(B) \in Nat /\ Cardinality(M) \in Nat
    BY <1>5, OneMore, Zenon
  <2> QED BY <2>1, CountIs, UnitAssumption DEF ACTIVE_BIAS, WAITING_BIAS
<1>7. CASE p \in readers
  <2>1. Cardinality(M') = Cardinality(M) + 0
    BY <1>0, <1>c, <1>4, <1>7
  <2>2. count' = count + (-1 + 0) * ACTIVE_BIAS + 0 * WAITING_BIAS
    BY <1>7, <1>c DEF ACTIVE_BIAS
  <2> QED BY <1>0, <1>6, <2>1, <2>2, CountMoves, SmallInts, Zenon
<1>8. CASE p \in writers
  <2>1. Cardinality(M') = Cardinality(M) + (-1)
    BY <1>4, <1>5, <1>8, OneMore
  <2>2. count' = count + (-1 + 0) * ACTIVE_BIAS + (-1) * WAITING_BIAS
    BY <1>0, <1>8, <1>c DEF ACTIVE_BIAS, WRITE_BIAS
  <2> QED BY <1>0, <1>6, <2>1, <2>2, CountMoves, SmallInts, Zenon
<1> QED BY <1>7, <1>8 DEF Left

\* Joining the queue: an active unit becomes a waiting one.
LEMMA EnqueueCounts ==
  ASSUME Struct, CountInv, NEW p \in Task, Enqueue(p)
  PROVE  CountInv'
<1>0. Types /\ Queued' = Queued \cup {p} /\ p \notin Queued /\ B' = B /\ want[p] # "none" /\ pc[p] = "enqueue"
  BY EnqueueStruct DEF Struct
<1>1. UNCHANGED <<want, readers, writers>> /\ count' = count + Adjustment(p)
  BY DEF Enqueue
<1>2. want[p] \in {"read", "write"} /\ p \notin readers \cup writers
  BY <1>0 DEF Struct, Types, Modes, CallInv
<1>4. A' = A \ {p} /\ p \in A /\ M' = M \cup {p} /\ (p \in M <=> want[p] = "write")
  BY <1>0, <1>1, <1>2 DEF A, M
<1>5. A \in SUBSET Task /\ B \in SUBSET Task /\ M \in SUBSET Task
  BY <1>0, Sets
<1>c. count \in Int /\ WAITING_BIAS \in Int /\ Cardinality(M) \in Nat /\ Cardinality(B) \in Nat
  <2>1. Cardinality(A) \in Nat /\ Cardinality(B) \in Nat /\ Cardinality(M) \in Nat
    BY <1>5, OneMore, Zenon
  <2> QED BY <2>1, CountIs, UnitAssumption DEF ACTIVE_BIAS, WAITING_BIAS
<1>6. Cardinality(A') = Cardinality(A) + (-1) /\ Cardinality(B') = Cardinality(B) + 0
  BY <1>0, <1>4, <1>5, <1>c, OneMore
<1>7. CASE want[p] = "read"
  <2>1. Cardinality(M') = Cardinality(M) + 1
    BY <1>4, <1>5, <1>7, OneMore
  <2>2. count' = count + (-1 + 0) * ACTIVE_BIAS + 1 * WAITING_BIAS
    BY <1>1, <1>7, <1>c DEF ACTIVE_BIAS, Adjustment
  <2> QED BY <1>0, <1>6, <2>1, <2>2, CountMoves, SmallInts, Zenon
<1>8. CASE want[p] = "write"
  <2>1. Cardinality(M') = Cardinality(M) + 0
    <3>1. M' = M
      BY <1>4, <1>8
    <3> QED BY <1>c, <3>1
  <2>2. count' = count + (-1 + 0) * ACTIVE_BIAS + 0 * WAITING_BIAS
    BY <1>1, <1>8, <1>c DEF ACTIVE_BIAS, Adjustment
  <2> QED BY <1>0, <1>6, <2>1, <2>2, CountMoves, SmallInts, Zenon
<1> QED BY <1>2, <1>7, <1>8

\* The waker takes a unit of its own, for itself or for the writer it chose.
LEMMA TryCounts ==
  ASSUME Struct, CountInv, NEW p \in Task, count' = count + ACTIVE_BIAS,
         UNCHANGED <<want, readers, writers>>,
         \/ Queued' = Queued /\ B' = B \cup {p} /\ p \notin B
         \/ \E w \in Queued : Queued' = Queued \ {w} /\ want[w] = "write" /\ B' = B
  PROVE  CountInv'
<1>0. Types
  BY DEF Struct
<1>5. A \in SUBSET Task /\ B \in SUBSET Task /\ M \in SUBSET Task
  BY <1>0, Sets
<1>c. count \in Int /\ WAITING_BIAS \in Int /\ Cardinality(M) \in Nat /\ Cardinality(B) \in Nat /\ Cardinality(A) \in Nat
  <2>1. Cardinality(A) \in Nat /\ Cardinality(B) \in Nat /\ Cardinality(M) \in Nat
    BY <1>5, OneMore, Zenon
  <2> QED BY <2>1, CountIs, UnitAssumption DEF ACTIVE_BIAS, WAITING_BIAS
<1>1. CASE Queued' = Queued /\ B' = B \cup {p} /\ p \notin B
  <2>1. A' = A /\ M' = M
    BY <1>1 DEF A, M
  <2>2. Cardinality(A') = Cardinality(A) + 0 /\ Cardinality(B') = Cardinality(B) + 1 /\ Cardinality(M') = Cardinality(M) + 0
    BY <1>1, <1>5, <1>c, <2>1, OneMore
  <2>3. count' = count + (0 + 1) * ACTIVE_BIAS + 0 * WAITING_BIAS
    BY <1>c DEF ACTIVE_BIAS
  <2> QED BY <1>0, <2>2, <2>3, CountMoves, SmallInts, Zenon
<1>2. CASE \E w \in Queued : Queued' = Queued \ {w} /\ want[w] = "write" /\ B' = B
  <2>0. PICK w \in Queued : Queued' = Queued \ {w} /\ want[w] = "write" /\ B' = B
    BY <1>2
  <2>1. w \in Task
    BY <1>0, QueuedIs
  <2>2. A' = A \cup {w} /\ w \notin A /\ M' = M
    BY <2>0, <2>1 DEF A, M
  <2>3. Cardinality(A') = Cardinality(A) + 1 /\ Cardinality(B') = Cardinality(B) + 0 /\ Cardinality(M') = Cardinality(M) + 0
    BY <1>5, <1>c, <2>0, <2>1, <2>2, OneMore
  <2>4. count' = count + (1 + 0) * ACTIVE_BIAS + 0 * WAITING_BIAS
    BY <1>c DEF ACTIVE_BIAS
  <2> QED BY <1>0, <2>3, <2>4, CountMoves, SmallInts, Zenon
<1> QED BY <1>1, <1>2


\* The readers chosen turn from waiting to active; the waker's unit goes.
LEMMA AddCounts ==
  ASSUME Struct, CountInv, NEW p \in Task, AddReaders(p)
  PROVE  CountInv'
<1>0. /\ Types /\ B' = B \ {p} /\ p \in B
      /\ Queued = Range(wait_list) \cup Range(todo) /\ Queued' = Range(wait_list)
      /\ Range(wait_list) \cap Range(todo) = {}
      /\ \A q \in Range(todo) : want[q] = "read"
      /\ UNCHANGED <<want, readers, writers>>
      /\ count' = count + Len(todo) * (ACTIVE_BIAS - WAITING_BIAS) - ACTIVE_BIAS
  BY AddStruct DEF Struct, AddReaders
<1>1. PICK n \in Nat : n = Len(todo) /\ DOMAIN todo = 1 .. n
  BY <1>0, SMTT(30) DEF Types
<1>2. Range(todo) \in SUBSET Task
  BY <1>0 DEF Types, Range
<1>3. Cardinality(Range(todo)) = n
  <2>1. \A i, j \in 1 .. n : todo[i] = todo[j] => i = j
    BY <1>1 DEF Struct, TodoInv
  <2> DEFINE S == Range(todo)
             f == [i \in 1 .. n |-> todo[i]]
  <2>2. f \in [1 .. n -> S] /\ \A t \in S : \E i \in 1 .. n : f[i] = t
    BY <1>1 DEF Range
  <2>3. \A i, j \in 1 .. n : f[i] = f[j] => i = j
    BY <2>1
  <2> HIDE DEF f, S
  <2>4. DOMAIN f = 1 .. n
    BY <2>2
  <2>5. f \in Bijection(1 .. n, S)
    BY <2>2, <2>3, <2>4, Zenon DEF Bijection, Injection, Surjection, IsInjective
  <2>6. ExistsBijection(1 .. n, S)
    BY <2>5, Zenon DEF ExistsBijection
  <2>7. IsFiniteSet(1 .. n) /\ Cardinality(1 .. n) = n
    BY FS_Interval
  <2>8. Cardinality(S) = n
    BY <2>6, <2>7, FS_Bijection
  <2> QED BY <2>8 DEF S
<1>4. \A q \in Range(todo) : q \notin readers \cup writers
  <2> TAKE q \in Range(todo)
  <2>1. q \in Queued /\ q \in Task
    BY <1>0, <1>2
  <2>2. pc[q] # "idle"
    BY <2>1, QueuedWait
  <2> QED BY <2>1, <2>2 DEF Struct, CallInv
<1>5. /\ A' = A \cup Range(todo) /\ A \cap Range(todo) = {}
      /\ M = M' \cup Range(todo) /\ M' \cap Range(todo) = {}
  BY <1>0, <1>2, <1>4 DEF A, M
<1>6. A \in SUBSET Task /\ B \in SUBSET Task /\ M \in SUBSET Task /\ M' \in SUBSET Task
  BY <1>0, <1>5, Sets
<1>7. /\ IsFiniteSet(A) /\ IsFiniteSet(B) /\ IsFiniteSet(M') /\ IsFiniteSet(Range(todo))
      /\ Cardinality(A) \in Nat /\ Cardinality(B) \in Nat /\ Cardinality(M') \in Nat
  BY <1>2, <1>6, FS_Subset, FS_CardinalityType, TaskAssumption
<1>8. \A S : S \cap Range(todo) = {} /\ IsFiniteSet(S) /\ Cardinality(S) \in Nat
              => Cardinality(S \cup Range(todo)) = Cardinality(S) + n
  <2> TAKE S
  <2> HAVE S \cap Range(todo) = {} /\ IsFiniteSet(S) /\ Cardinality(S) \in Nat
  <2>1. Cardinality(S \cup Range(todo)) = Cardinality(S) + Cardinality(Range(todo)) - Cardinality(S \cap Range(todo))
    BY <1>7, FS_Union
  <2>2. Cardinality(S \cap Range(todo)) = 0
    BY FS_EmptySet
  <2> QED BY <1>3, <2>1, <2>2
<1>9. Cardinality(A') = Cardinality(A) + n
  BY <1>5, <1>7, <1>8
<1>10. Cardinality(M') = Cardinality(M) + (-n)
  <2>1. Cardinality(M) = Cardinality(M') + n
    BY <1>5, <1>7, <1>8
  <2> QED BY <1>7, <2>1
<1>11. Cardinality(B') = Cardinality(B) + (-1)
  BY <1>0, <1>6, <1>7, OneMore
<1>c. count \in Int /\ WAITING_BIAS \in Int
  <2>1. Cardinality(M) \in Nat
    BY <1>6, FS_Subset, FS_CardinalityType, TaskAssumption
  <2> QED BY <1>7, <2>1, CountIs, UnitAssumption DEF ACTIVE_BIAS, WAITING_BIAS
<1>12. count' = count + (n + (-1)) * ACTIVE_BIAS + (-n) * WAITING_BIAS
  <2>1. \A c, u \in Int : c + n * (1 - u) - 1 = c + (n + (-1)) * 1 + (-n) * u
    OBVIOUS
  <2> QED BY <1>0, <1>1, <1>c, <2>1 DEF ACTIVE_BIAS
<1>13. n \in Int /\ -1 \in Int /\ -n \in Int
  OBVIOUS
<1> QED BY <1>0, <1>9, <1>10, <1>11, <1>12, <1>13, CountMoves, Zenon

\* The waker takes its unit back.
LEMMA UndoCounts ==
  ASSUME Struct, CountInv, NEW p \in Task, Undo(p)
  PROVE  CountInv'
<1>0. /\ Types /\ Queued' = Queued /\ B' = B \ {p} /\ p \in B
      /\ UNCHANGED <<want, readers, writers>> /\ count' = count - ACTIVE_BIAS
  BY UndoStruct DEF Struct, Undo
<1>5. A \in SUBSET Task /\ B \in SUBSET Task /\ M \in SUBSET Task
  BY <1>0, Sets
<1>c. count \in Int /\ WAITING_BIAS \in Int /\ Cardinality(M) \in Nat /\ Cardinality(B) \in Nat /\ Cardinality(A) \in Nat
  <2>1. Cardinality(A) \in Nat /\ Cardinality(B) \in Nat /\ Cardinality(M) \in Nat
    BY <1>5, OneMore, Zenon
  <2> QED BY <2>1, CountIs, UnitAssumption DEF ACTIVE_BIAS, WAITING_BIAS
<1>1. A' = A /\ M' = M
  BY <1>0 DEF A, M
<1>2. Cardinality(A') = Cardinality(A) + 0 /\ Cardinality(M') = Cardinality(M) + 0
  BY <1>1, <1>c
<1>3. Cardinality(B') = Cardinality(B) + (-1)
  BY <1>0, <1>5, <1>c, OneMore
<1>4. count' = count + (0 + (-1)) * ACTIVE_BIAS + 0 * WAITING_BIAS
  BY <1>0, <1>c DEF ACTIVE_BIAS
<1> QED BY <1>0, <1>2, <1>3, <1>4, CountMoves, SmallInts, Zenon

\* The other steps leave the units where they are; the waiter that returns from
\* down keeps its own as a holder.
LEMMA OtherCounts ==
  ASSUME Struct, CountInv, count' = count, Queued' = Queued, B' = B,
         \/ UNCHANGED <<want, readers, writers>>
         \/ \E p \in Task : Granted(p) /\ p \notin Queued
  PROVE  CountInv'
<1>1. A' = A /\ M' = M
  <2>1. CASE UNCHANGED <<want, readers, writers>>
    BY <2>1 DEF A, M
  <2>2. CASE \E p \in Task : Granted(p) /\ p \notin Queued
    <3>1. PICK p \in Task : Granted(p) /\ p \notin Queued
      BY <2>2
    <3>2. /\ want[p] \in {"read", "write"} /\ want' = [want EXCEPT ![p] = "none"]
          /\ readers' = (IF want[p] = "read" THEN readers \cup {p} ELSE readers)
          /\ writers' = (IF want[p] = "write" THEN writers \cup {p} ELSE writers)
      BY <3>1, SMTT(30) DEF Granted, Goto, Hold, Struct, Types, CallInv, Waiting, Modes
    <3> QED BY <3>1, <3>2 DEF A, M, Struct, Types
  <2> QED BY <2>1, <2>2
<1> QED BY <1>1, CountIs, CountIsPrime

-----------------------------------------------------------------------------
(* Every step is a step of the abstract semaphore, or none. *)

AbsStep == [Abs!Next]_(Abs!absvars)

\* A step that changes neither the holders nor the queue.
LEMMA Stutter ==
  ASSUME R' = R, W' = W, Q' = Q
  PROVE  AbsStep
  BY DEF AbsStep, Abs!absvars, R, W, Q

\* Steps inside lib/rwsem.c that move nobody in or out of the queue.
LEMMA InsideAbs ==
  ASSUME UNCHANGED <<want, wait_list, readers, writers>>,
         \A q \in Task : pc'[q] \in {"set", "enqueue"} <=> pc[q] \in {"set", "enqueue"}
  PROVE  AbsStep
<1>1. R' = R /\ W' = W
  BY DEF R, W, Holders
<1>2. Q' = Q
  BY DEF Q
<1> QED BY <1>1, <1>2, Stutter, Zenon

\* The holders have units in the lower half, waiters and writers in the upper.
LEMMA HoldersCounted ==
  ASSUME Struct
  PROVE  /\ Queued = Range(wait_list) => R \cup W \subseteq A
         /\ M = {} => wait_list = <<>> /\ Q = <<>> /\ W = {} /\ R \cup W \subseteq A
<1>0. Types
  BY DEF Struct
<1>1. Queued = Range(wait_list) => R \cup W \subseteq A
  <2> SUFFICES ASSUME Queued = Range(wait_list), NEW q \in R \cup W PROVE q \in A
    OBVIOUS
  <2>1. CASE q \in readers \cup writers
    <3>1. q \in Task /\ pc[q] = "idle"
      BY <2>1 DEF Struct, Types, CallInv
    <3>2. q \notin Queued
      BY <3>1, QueuedWait
    <3> QED BY <2>1, <3>2 DEF A
  <2>2. CASE q \notin readers \cup writers
    BY <2>2 DEF R, W, Holders, A
  <2> QED BY <2>1, <2>2
<1>2. ASSUME M = {} PROVE wait_list = <<>> /\ Q = <<>> /\ W = {} /\ Queued = Range(wait_list)
  <2>1. Queued = {} /\ writers = {} /\ \A q \in Task : want[q] # "write"
    BY <1>2 DEF M
  <2>2. Range(wait_list) = {}
    BY <2>1 DEF Queued
  <2>3. wait_list = <<>>
    <3>1. wait_list # <<>> => 1 \in DOMAIN wait_list
      BY <1>0 DEF Types
    <3> QED BY <2>2, <3>1 DEF Range
  <2>4. Q = <<>>
    BY <2>3 DEF Q
  <2> QED BY <2>1, <2>2, <2>3, <2>4 DEF W, Holders
<1> QED BY <1>1, <1>2

\* The fast path succeeds only past an empty queue, and only with the lock free.
LEMMA TookAbs ==
  ASSUME Struct, NEW p \in Task, NEW mode \in {"read", "write"}, Took(p, mode),
         M = {}, mode = "write" => A = {}
  PROVE  AbsStep
<1>1. /\ Q = <<>> /\ W = {} /\ R \cup W \subseteq A
  BY HoldersCounted
<1>2. /\ pc[p] = "idle" /\ p \notin readers \cup writers /\ want[p] = "none"
      /\ UNCHANGED <<pc, want, wait_list>>
      /\ readers' = (IF mode = "read" THEN readers \cup {p} ELSE readers)
      /\ writers' = (IF mode = "write" THEN writers \cup {p} ELSE writers)
  BY DEF Struct, Took, Idle, Hold, CallInv
<1>3. Q' = Q
  BY <1>2 DEF Q
<1>4. p \notin R /\ p \notin W
  BY <1>2 DEF R, W, Holders
<1>5. CASE mode = "read"
  <2>1. R' = R \cup {p} /\ W' = W
    BY <1>2, <1>5 DEF R, W, Holders
  <2>2. Abs!ReadNow(p)
    BY <1>1, <1>3, <1>4, <2>1, Zenon DEF Abs!ReadNow, Abs!Holds, R, W, Q
  <2> QED BY <2>2 DEF AbsStep, Abs!Next
<1>6. CASE mode = "write"
  <2>1. R' = R /\ W' = W \cup {p} /\ R = {}
    BY <1>1, <1>2, <1>6 DEF R, W, Holders
  <2>2. W' = {p}
    BY <1>1, <2>1
  <2>3. Abs!WriteNow(p)
    BY <1>1, <1>3, <2>1, <2>2, Zenon DEF Abs!WriteNow, R, W, Q
  <2> QED BY <2>3 DEF AbsStep, Abs!Next
<1> QED BY <1>5, <1>6

\* A failed attempt changes nothing yet.
LEMMA FailedAbs ==
  ASSUME Struct, NEW p \in Task, NEW mode \in {"read", "write"}, Failed(p, mode)
  PROVE  AbsStep
<1>1. /\ pc[p] = "idle" /\ want[p] = "none" /\ want \in [Task -> Modes] /\ pc \in [Task -> PCs]
      /\ pc' = [pc EXCEPT ![p] = "set"] /\ want' = [want EXCEPT ![p] = mode]
      /\ UNCHANGED <<wait_list, readers, writers>>
  BY DEF Struct, Failed, Idle, CallInv, Types
<1>2. R' = R /\ W' = W
  BY <1>1 DEF R, W, Holders
<1>3. \A i \in DOMAIN wait_list : wait_list[i] # p /\ wait_list[i] \in Task
  BY <1>1 DEF Struct, QueueInv, Waits, Types
<1>4. \A i \in DOMAIN wait_list : want'[wait_list[i]] = want[wait_list[i]]
  BY <1>1, <1>3
<1>5. Q' = Q
  BY <1>1, <1>4 DEF Q
<1> QED BY <1>2, <1>5, Stutter

\* The release of the lock.
LEMMA LeftAbs ==
  ASSUME Struct, NEW p \in Task, NEW at, Left(p, at)
  PROVE  AbsStep
<1>1. /\ pc[p] = "idle" /\ want[p] = "none" /\ pc \in [Task -> PCs]
      /\ p \in readers \cup writers /\ at \in {"idle", "wake"}
      /\ readers' = readers \ {p} /\ writers' = writers \ {p}
      /\ pc' = [pc EXCEPT ![p] = at] /\ UNCHANGED <<want, wait_list>>
  BY LeftStruct, Zenon DEF Struct, Left, Types
<1>2. R' = R \ {p} /\ W' = W \ {p}
  BY <1>1 DEF R, W, Holders
<1>3. Q' = Q
  BY <1>1 DEF Q
<1>4. p \in R \cup W
  BY <1>1 DEF R, W, Holders
<1>5. Abs!Release(p)
  BY <1>2, <1>3, <1>4, Zenon DEF Abs!Release, Abs!Holds, R, W, Q
<1> QED BY <1>5 DEF AbsStep, Abs!Next

\* A waiter returns from down with what it was granted.
LEMMA GrantedAbs ==
  ASSUME Struct, NEW p \in Task, Granted(p), p \notin Queued
  PROVE  AbsStep
<1>0. Types /\ p \notin Range(wait_list)
  BY DEF Struct, Queued
<1>1. /\ want[p] \in {"read", "write"} /\ want' = [want EXCEPT ![p] = "none"]
      /\ pc[p] = "check" /\ pc' = [pc EXCEPT ![p] = "idle"] /\ wait_list' = wait_list
      /\ readers' = (IF want[p] = "read" THEN readers \cup {p} ELSE readers)
      /\ writers' = (IF want[p] = "write" THEN writers \cup {p} ELSE writers)
  BY DEF Granted, Goto, Hold, Struct, Types, CallInv, Waiting, Modes
<1>2. R' = R
  BY <1>0, <1>1 DEF R, Holders, Types
<1>3. W' = W
  BY <1>0, <1>1 DEF W, Holders, Types
<1>4. \A i \in DOMAIN wait_list : wait_list[i] # p /\ wait_list[i] \in Task
  BY <1>0 DEF Range, Types
<1>5. \A i \in DOMAIN wait_list : want'[wait_list[i]] = want[wait_list[i]]
  BY <1>0, <1>1, <1>4 DEF Types
<1>6. Q' = Q
  BY <1>1, <1>5 DEF Q
<1> QED BY <1>2, <1>3, <1>6, Stutter


\* A failed attempt that has set its state joins the queue.
LEMMA EnqueueAbs ==
  ASSUME Struct, NEW p \in Task, Enqueue(p)
  PROVE  AbsStep
<1> DEFINE mode == want[p]
<1>0. Types /\ pc[p] = "enqueue" /\ mode \in {"read", "write"} /\ p \notin Range(wait_list)
  BY EnqueueStruct DEF Struct, Types, Modes
<1>1. /\ UNCHANGED <<want, readers, writers>> /\ wait_list' = Append(wait_list, p)
      /\ pc' = [pc EXCEPT ![p] = "try"] \/ pc' = [pc EXCEPT ![p] = "check"]
  BY DEF Enqueue, Goto
<1>2. p \notin readers \cup writers
  BY <1>0 DEF Struct, CallInv
<1>3. /\ DOMAIN wait_list = 1 .. Len(wait_list) /\ Len(wait_list) \in Nat /\ wait_list \in Seq(Task)
      /\ DOMAIN wait_list' = 1 .. Len(wait_list) + 1 /\ wait_list'[Len(wait_list) + 1] = p
      /\ \A i \in 1 .. Len(wait_list) : wait_list'[i] = wait_list[i]
  BY <1>0, <1>1 DEF Types
<1>5. p \notin R /\ p \notin W
  BY <1>0, <1>2 DEF R, W, Holders
<1>6. Range(wait_list') = Range(wait_list) \cup {p}
  BY <1>1, <1>3 DEF Range
<1>7. R' = R /\ W' = W
  BY <1>0, <1>1, <1>6 DEF R, W, Holders, Types
<1> HIDE DEF mode
<1>10. Q' = Append(Q, <<p, mode>>)
  <2>1. /\ Q \in Seq(Task \X Modes) /\ Len(Q) = Len(wait_list)
        /\ \A i \in 1 .. Len(wait_list) : Q[i] = <<wait_list[i], want[wait_list[i]]>>
    <3>1. \A i \in 1 .. Len(wait_list) : <<wait_list[i], want[wait_list[i]]>> \in Task \X Modes
      BY <1>0, <1>3 DEF Types
    <3>2. Q = [i \in 1 .. Len(wait_list) |-> <<wait_list[i], want[wait_list[i]]>>]
      BY <1>3 DEF Q
    <3>3. \A i \in 1 .. Len(wait_list) : Q[i] = <<wait_list[i], want[wait_list[i]]>>
      BY <3>2, Zenon
    <3>4. Q \in [1 .. Len(wait_list) -> Task \X Modes]
      BY <3>1, <3>2, Zenon
    <3> HIDE DEF Q
    <3>5. Q \in Seq(Task \X Modes) /\ Len(Q) = Len(wait_list)
      BY <1>3, <3>4, SMTT(30)
    <3> QED BY <3>3, <3>5, SMTT(30)
  <2>2. \A i \in 1 .. Len(wait_list) + 1 :
          Q'[i] = IF i = Len(wait_list) + 1 THEN <<p, mode>> ELSE Q[i]
    BY <1>0, <1>1, <1>3, <2>1, SMTT(30) DEF Q, Types, mode
  <2>3. DOMAIN Q' = 1 .. Len(wait_list) + 1 /\ Q' = [i \in 1 .. Len(wait_list) + 1 |-> Q'[i]]
    BY <1>3 DEF Q
  <2> DEFINE Z == Append(Q, <<p, mode>>)
  <2>4. DOMAIN Z = 1 .. Len(wait_list) + 1 /\ Z = [i \in 1 .. Len(wait_list) + 1 |-> Z[i]]
        /\ \A i \in 1 .. Len(wait_list) + 1 :
             Z[i] = IF i = Len(wait_list) + 1 THEN <<p, mode>> ELSE Q[i]
    <3> HIDE DEF Q
    <3>1. <<p, mode>> \in Task \X Modes
      BY <1>0 DEF Modes
    <3>2. /\ Z \in Seq(Task \X Modes) /\ Len(Z) = Len(Q) + 1
          /\ \A i \in 1 .. Len(Q) + 1 : Z[i] = IF i = Len(Q) + 1 THEN <<p, mode>> ELSE Q[i]
      BY <2>1, <3>1, AppendProperties
    <3> HIDE DEF Z
    <3>3. DOMAIN Z = 1 .. Len(Z) /\ Z = [i \in 1 .. Len(Z) |-> Z[i]]
      BY <3>2
    <3>4. Len(Z) = Len(wait_list) + 1
      BY <2>1, <3>2
    <3> QED BY <2>1, <3>2, <3>3, <3>4
  <2> HIDE DEF Q, Z
  <2>5. \A i \in 1 .. Len(wait_list) + 1 : Q'[i] = Z[i]
    BY <2>2, <2>4, Zenon
  <2>6. Q' = Z
    BY <2>3, <2>4, <2>5, Zenon
  <2> QED BY <2>6 DEF Z
<1>13. Abs!Join(p, "read") \/ Abs!Join(p, "write")
  <2>1. Q' = Append(Q, <<p, "read">>) \/ Q' = Append(Q, <<p, "write">>)
    BY <1>0, <1>10
  <2> QED BY <1>5, <1>7, <2>1, Zenon DEF Abs!Join, Abs!Holds, R, W, Q
<1> QED BY <1>13 DEF AbsStep, Abs!Next

\* The waiters chosen at the front become the holders, and leave the queue.
LEMMA ChosenHolders ==
  ASSUME Struct, NEW p \in Task, NEW n, NEW at, Chosen(p, n, at)
  PROVE  /\ R' = R \cup {wait_list[i] : i \in {j \in 1 .. n : flags[wait_list[j]] = "read"}}
         /\ W' = W \cup {wait_list[i] : i \in {j \in 1 .. n : flags[wait_list[j]] = "write"}}
         /\ Len(Q) = Len(wait_list) /\ DOMAIN Q = 1 .. Len(wait_list)
         /\ \A i \in 1 .. Len(wait_list) : Q[i] = <<wait_list[i], flags[wait_list[i]]>>
         /\ Q' = SubSeq(Q, n + 1, Len(Q))
<1>0. Types /\ Types' /\ QueueInv
  BY ChosenStruct DEF Struct
<1>1. /\ pc[p] = "try" /\ pc' = [pc EXCEPT ![p] = at] /\ at \notin {"set", "enqueue"}
      /\ n \in 1 .. Len(wait_list) /\ Dequeue(n) /\ UNCHANGED <<want, flags, readers, writers>>
  BY DEF Chosen
<1>2. /\ wait_list \in Seq(Task) /\ Len(wait_list) \in Nat /\ n \in Nat /\ n >= 1 /\ n <= Len(wait_list)
      /\ DOMAIN wait_list = 1 .. Len(wait_list)
      /\ wait_list' \in Seq(Task) /\ DOMAIN wait_list' = 1 .. Len(wait_list) - n
      /\ Len(wait_list') = Len(wait_list) - n
      /\ \A i \in 1 .. Len(wait_list) - n : wait_list'[i] = wait_list[n + i]
  BY <1>0, <1>1, DequeueIs DEF Types
<1>3. \A i \in 1 .. Len(wait_list) : /\ want[wait_list[i]] = flags[wait_list[i]] /\ wait_list[i] \in Task
                                     /\ pc[wait_list[i]] \notin {"set", "enqueue"}
  <2> TAKE i \in 1 .. Len(wait_list)
  <2>1. wait_list[i] \in Range(wait_list) /\ i \in DOMAIN wait_list
    BY <1>2 DEF Range
  <2>2. wait_list[i] \in Queued
    BY <2>1 DEF Queued
  <2> QED BY <2>2, QueuedWait DEF Waits
<1>4. ASSUME NEW q \in Task
      PROVE  q \notin Range(wait_list') <=> q \notin Range(wait_list) \/ \E i \in 1 .. n : q = wait_list[i]
  <2>1. ASSUME q \in Range(wait_list') PROVE q \in Range(wait_list) /\ ~ \E i \in 1 .. n : q = wait_list[i]
    <3>1. PICK j \in DOMAIN wait_list' : q = wait_list'[j]
      BY <2>1 DEF Range
    <3>2. n + j \in DOMAIN wait_list /\ q = wait_list[n + j]
      BY <1>2, <3>1
    <3>3. ASSUME NEW i \in 1 .. n PROVE q # wait_list[i]
      <4>1. i \in DOMAIN wait_list /\ i # n + j
        BY <1>2
      <4> QED BY <1>0, <3>2, <4>1 DEF QueueInv
    <3> QED BY <3>2, <3>3 DEF Range
  <2>2. ASSUME q \in Range(wait_list), ~ \E i \in 1 .. n : q = wait_list[i] PROVE q \in Range(wait_list')
    <3>1. PICK j \in DOMAIN wait_list : q = wait_list[j]
      BY <2>2 DEF Range
    <3>2. PICK k \in Int : k = j - n
      BY <1>2
    <3>a. j \notin 1 .. n
      BY <2>2, <3>1
    <3>b. \A l, m \in Nat : \A i \in 1 .. l : i \notin 1 .. m => i - m \in 1 .. l - m /\ m + (i - m) = i
      OBVIOUS
    <3>c. j \in 1 .. Len(wait_list) /\ Len(wait_list) \in Nat /\ n \in Nat
      BY <1>2
    <3>d. k \in 1 .. Len(wait_list) - n /\ n + k = j
      BY <3>2, <3>a, <3>b, <3>c
    <3>3. k \in DOMAIN wait_list' /\ n + k = j
      BY <1>2, <3>d, Zenon
    <3>4. wait_list'[k] = q
      BY <1>2, <3>1, <3>3
    <3> QED BY <3>3, <3>4 DEF Range
  <2> QED BY <2>1, <2>2
<1>5. \A i \in 1 .. n : wait_list[i] \in Range(wait_list) /\ i \in 1 .. Len(wait_list)
  BY <1>2 DEF Range
<1>p. \A q \in Task : pc'[q] \notin {"set", "enqueue"} <=> pc[q] \notin {"set", "enqueue"}
  BY <1>0, <1>1 DEF Types
<1>g. ASSUME NEW mode, NEW S, S = {wait_list[i] : i \in {j \in 1 .. n : flags[wait_list[j]] = mode}}
      PROVE  {q \in Task : want'[q] = mode /\ pc'[q] \notin {"set", "enqueue"} /\ q \notin Range(wait_list')}
             = {q \in Task : want[q] = mode /\ pc[q] \notin {"set", "enqueue"} /\ q \notin Range(wait_list)} \cup S
  <2>1. \A q \in Task : q \in S <=> want[q] = mode /\ \E i \in 1 .. n : q = wait_list[i]
    BY <1>3, <1>5, <1>g, SMTT(30)
  <2>2. S \subseteq Task /\ \A q \in S : pc[q] \notin {"set", "enqueue"}
    BY <1>3, <1>5, <1>g, SMTT(30)
  <2> QED BY <1>1, <1>4, <1>p, <2>1, <2>2, SMTT(30)
<1>6. R' = R \cup {wait_list[i] : i \in {j \in 1 .. n : flags[wait_list[j]] = "read"}}
  <2> DEFINE S == {wait_list[i] : i \in {j \in 1 .. n : flags[wait_list[j]] = "read"}}
             G == {q \in Task : want[q] = "read" /\ pc[q] \notin {"set", "enqueue"} /\ q \notin Range(wait_list)}
  <2>1. {q \in Task : want'[q] = "read" /\ pc'[q] \notin {"set", "enqueue"} /\ q \notin Range(wait_list')} = G \cup S
    BY <1>g, Zenon
  <2>2. R = readers \cup G /\ R' = readers' \cup (G \cup S)
    BY <2>1, Zenon DEF R, Holders
  <2> HIDE DEF S, G
  <2>3. R' = R \cup S
    BY <1>1, <2>2
  <2> QED BY <2>3 DEF S
<1>7. W' = W \cup {wait_list[i] : i \in {j \in 1 .. n : flags[wait_list[j]] = "write"}}
  <2> DEFINE S == {wait_list[i] : i \in {j \in 1 .. n : flags[wait_list[j]] = "write"}}
             G == {q \in Task : want[q] = "write" /\ pc[q] \notin {"set", "enqueue"} /\ q \notin Range(wait_list)}
  <2>1. {q \in Task : want'[q] = "write" /\ pc'[q] \notin {"set", "enqueue"} /\ q \notin Range(wait_list')} = G \cup S
    BY <1>g, Zenon
  <2>2. W = writers \cup G /\ W' = writers' \cup (G \cup S)
    BY <2>1, Zenon DEF W, Holders
  <2> HIDE DEF S, G
  <2>3. W' = W \cup S
    BY <1>1, <2>2
  <2> QED BY <2>3 DEF S
<1>8. /\ Q = [i \in 1 .. Len(wait_list) |-> <<wait_list[i], flags[wait_list[i]]>>]
      /\ Q' = [i \in 1 .. Len(wait_list) - n |-> <<wait_list[n + i], flags[wait_list[n + i]]>>]
  <2>1. \A i \in 1 .. Len(wait_list) - n :
          <<wait_list'[i], want'[wait_list'[i]]>> = <<wait_list[n + i], flags[wait_list[n + i]]>>
    <3> TAKE i \in 1 .. Len(wait_list) - n
    <3>1. n + i \in 1 .. Len(wait_list)
      BY <1>2
    <3> QED BY <1>1, <1>2, <1>3, <3>1
  <2>2. Q = [i \in 1 .. Len(wait_list) |-> <<wait_list[i], flags[wait_list[i]]>>]
    BY <1>2, <1>3 DEF Q
  <2>3. Q' = [i \in 1 .. Len(wait_list) - n |-> <<wait_list'[i], want'[wait_list'[i]]>>]
    BY <1>2 DEF Q
  <2> QED BY <2>1, <2>2, <2>3, Zenon
<1>9. /\ DOMAIN Q = 1 .. Len(wait_list) /\ Len(Q) = Len(wait_list)
      /\ \A i \in 1 .. Len(wait_list) : Q[i] = <<wait_list[i], flags[wait_list[i]]>>
  BY <1>2, <1>8
<1>10. Q' = SubSeq(Q, n + 1, Len(Q))
  <2>1. Q \in Seq(Task \X Modes)
    <3>1. \A i \in 1 .. Len(wait_list) : <<wait_list[i], flags[wait_list[i]]>> \in Task \X Modes
      BY <1>0, <1>3 DEF Types
    <3>2. Q \in [1 .. Len(wait_list) -> Task \X Modes]
      BY <1>8, <3>1, Zenon
    <3> QED BY <1>2, <3>2
  <2>2. /\ DOMAIN SubSeq(Q, n + 1, Len(Q)) = 1 .. Len(wait_list) - n
        /\ \A i \in 1 .. Len(wait_list) - n : SubSeq(Q, n + 1, Len(Q))[i] = Q[n + i]
        /\ SubSeq(Q, n + 1, Len(Q)) \in Seq(Task \X Modes)
    BY <1>2, <1>9, <2>1
  <2>3. \A i \in 1 .. Len(wait_list) - n : Q'[i] = Q[n + i]
    <3> TAKE i \in 1 .. Len(wait_list) - n
    <3>1. n + i \in 1 .. Len(wait_list)
      BY <1>2
    <3> QED BY <1>8, <1>9, <3>1
  <2>4. DOMAIN Q' = 1 .. Len(wait_list) - n /\ Q' = [i \in DOMAIN Q' |-> Q'[i]]
    BY <1>8
  <2> DEFINE Z == SubSeq(Q, n + 1, Len(Q))
  <2>5. Z = [i \in DOMAIN Z |-> Z[i]]
    BY <2>2
  <2> HIDE DEF Z
  <2>6. DOMAIN Z = DOMAIN Q' /\ \A i \in DOMAIN Z : Z[i] = Q'[i]
    BY <2>2, <2>3, <2>4, Zenon DEF Z
  <2>7. Z = Q'
    BY <2>4, <2>5, <2>6, Zenon
  <2> QED BY <2>7 DEF Z
<1> QED BY <1>6, <1>7, <1>9, <1>10, Zenon


\* try_again, when nobody is active: the front of the queue gets the lock.
LEMMA ChosenAbs ==
  ASSUME Struct, NEW p \in Task, NEW n, NEW at, Chosen(p, n, at), A = {},
         at = "addreaders" => n = Len(wait_list) \/ flags[wait_list[n + 1]] = "write"
  PROVE  AbsStep
<1>0. Types /\ n \in 1 .. Len(wait_list) /\ Len(wait_list) \in Nat
  BY SMTT(30) DEF Struct, Types, Chosen
<1>1. /\ R' = R \cup {wait_list[i] : i \in {j \in 1 .. n : flags[wait_list[j]] = "read"}}
      /\ W' = W \cup {wait_list[i] : i \in {j \in 1 .. n : flags[wait_list[j]] = "write"}}
      /\ Len(Q) = Len(wait_list) /\ DOMAIN Q = 1 .. Len(wait_list)
      /\ \A i \in 1 .. Len(wait_list) : Q[i] = <<wait_list[i], flags[wait_list[i]]>>
      /\ Q' = SubSeq(Q, n + 1, Len(Q))
  BY ChosenHolders
<1>2. R = {} /\ W = {}
  BY ChosenStruct, HoldersCounted
<1>3. CASE n = 1 /\ flags[wait_list[1]] = "write"
  <2>1. R' = R /\ W' = {wait_list[1]}
    BY <1>1, <1>2, <1>3
  <2>2. Head(Q) = <<wait_list[1], "write">> /\ Q # <<>> /\ Q' = Tail(Q)
    <3>1. 1 \in 1 .. Len(wait_list)
      BY <1>0
    <3>2. Head(Q) = Q[1] /\ Q # <<>>
      BY <1>1, <3>1
    <3>3. Q' = Tail(Q)
      BY <1>1, <1>3
    <3> QED BY <1>1, <1>3, <3>1, <3>2, <3>3
  <2>3. Head(Q)[2] = "write" /\ W' = {Head(Q)[1]}
    BY <2>1, <2>2
  <2>4. Abs!GrantWriter
    BY <1>2, <2>1, <2>2, <2>3, Zenon DEF Abs!GrantWriter, R, W, Q
  <2> QED BY <2>4 DEF AbsStep, Abs!Next
<1>4. CASE /\ \A i \in 1 .. n : flags[wait_list[i]] = "read"
           /\ n = Len(wait_list) \/ flags[wait_list[n + 1]] = "write"
  <2>1. R' = {wait_list[i] : i \in 1 .. n} /\ W' = W
    BY <1>1, <1>2, <1>4
  <2>2. /\ n \in 1 .. Len(Q)
        /\ \A i \in 1 .. n : Q[i][2] = "read" /\ Q[i][1] = wait_list[i]
        /\ n = Len(Q) \/ Q[n + 1][2] = "write"
    <3>1. \A i \in 1 .. n : i \in 1 .. Len(wait_list)
      BY <1>0
    <3>2. n = Len(wait_list) \/ n + 1 \in 1 .. Len(wait_list)
      BY <1>0
    <3>3. \A i \in 1 .. Len(wait_list) : Q[i][1] = wait_list[i] /\ Q[i][2] = flags[wait_list[i]]
      BY <1>1
    <3> HIDE DEF Q
    <3>4. n = Len(Q) \/ Q[n + 1][2] = "write"
      BY <1>1, <1>4, <3>2, <3>3, Zenon
    <3>5. \A i \in 1 .. n : Q[i][2] = "read" /\ Q[i][1] = wait_list[i]
      BY <1>4, <3>1, <3>3, Zenon
    <3> QED BY <1>0, <1>1, <3>4, <3>5, Zenon
  <2>3. {Q[i][1] : i \in 1 .. n} = R'
    <3>1. \A i \in 1 .. n : Q[i][1] = wait_list[i]
      BY <2>2, Zenon
    <3> HIDE DEF Q
    <3>2. {Q[i][1] : i \in 1 .. n} = {wait_list[i] : i \in 1 .. n}
      BY <3>1
    <3> QED BY <2>1, <3>2, Zenon
  <2>4. Abs!GrantReaders
    BY <1>1, <1>2, <2>1, <2>2, <2>3, Zenon DEF Abs!GrantReaders, R, W, Q
  <2> QED BY <2>4 DEF AbsStep, Abs!Next
<1> QED BY <1>3, <1>4 DEF Chosen

-----------------------------------------------------------------------------
(* The theorems. *)

IInv == Struct /\ CountInv

\* count is an integer.
LEMMA CountInt ==
  ASSUME IInv
  PROVE  count \in Int /\ WAITING_BIAS \in Int
<1>1. A \in SUBSET Task /\ B \in SUBSET Task /\ M \in SUBSET Task
  BY Sets DEF IInv, Struct
<1>2. Cardinality(A) \in Nat /\ Cardinality(B) \in Nat /\ Cardinality(M) \in Nat
  BY <1>1, FS_Subset, FS_CardinalityType, TaskAssumption
<1> QED BY <1>2, CountIs, UnitAssumption DEF ACTIVE_BIAS, WAITING_BIAS, IInv

\* The four ways to ask for the lock.
LEMMA LockHolds ==
  ASSUME IInv, NEW p \in Task, Lock(p)
  PROVE  IInv' /\ AbsStep
<1>0. Struct /\ CountInv /\ count \in Int /\ WAITING_BIAS \in Int
  BY CountInt DEF IInv
<1>1. Idle(p)
  BY DEF Lock, __down_read, __down_write, __down_read_trylock, __down_write_trylock
<1>2. p \notin A \cup B
  <2>1. p \notin Queued
    BY <1>0, <1>1, QueuedWait DEF Idle
  <2> QED BY <1>0, <1>1 DEF Idle, A, B, Struct, CallInv
<1>3. /\ count + 1 >= 0 => M = {}
      /\ count = 0 => A = {} /\ M = {}
  BY <1>0, <1>2, CountTells
<1>4. \/ Took(p, "read") /\ count + 1 >= 0 /\ count' = count + ACTIVE_BIAS
      \/ Failed(p, "read") /\ count' = count + ACTIVE_BIAS
      \/ Took(p, "write") /\ count = 0 /\ count' = count + WRITE_BIAS
      \/ Failed(p, "write") /\ count' = count + WRITE_BIAS
  <2>1. CASE __down_read(p)
    BY <1>0, <2>1 DEF __down_read, Took, Failed, Hold, Goto, ACTIVE_BIAS
  <2>2. CASE __down_write(p)
    BY <2>2 DEF __down_write, Took, Failed, Hold, Goto
  <2>3. CASE __down_read_trylock(p)
    BY <1>0, <2>3 DEF __down_read_trylock, Took, Hold, ACTIVE_BIAS
  <2>4. CASE __down_write_trylock(p)
    BY <1>0, <2>4 DEF __down_write_trylock, Took, Hold, WRITE_BIAS, ACTIVE_BIAS
  <2> QED BY <2>1, <2>2, <2>3, <2>4 DEF Lock
<1>5. Struct'
  BY <1>0, <1>4, TookStruct, FailedStruct
<1>6. CountInv'
  BY <1>0, <1>4, AttemptCounts
<1>7. AbsStep
  BY <1>0, <1>3, <1>4, TookAbs, FailedAbs, SMTT(30)
<1> QED BY <1>5, <1>6, <1>7 DEF IInv

\* The two ways to release it.
LEMMA UpHolds ==
  ASSUME IInv, NEW p \in Task, __up_read(p) \/ __up_write(p)
  PROVE  IInv' /\ AbsStep
<1>0. Struct /\ CountInv
  BY DEF IInv
<1>1. ~(p \in readers /\ p \in writers)
  BY <1>0 DEF Struct, CallInv
<1>2. PICK at : Left(p, at) /\ count' = count - (IF p \in readers THEN ACTIVE_BIAS ELSE WRITE_BIAS)
  <2>1. CASE __up_read(p)
    <3>1. writers' = writers \ {p}
      BY <1>1, <2>1 DEF __up_read
    <3>2. \E at \in {"idle", "wake"} : Goto(p, "idle", at)
      BY <2>1 DEF __up_read
    <3> QED BY <2>1, <3>1, <3>2, Zenon DEF __up_read, Left, Goto
  <2>2. CASE __up_write(p)
    <3>1. readers' = readers \ {p} /\ p \notin readers
      BY <1>1, <2>2 DEF __up_write
    <3>2. \E at \in {"idle", "wake"} : Goto(p, "idle", at)
      BY <2>2 DEF __up_write
    <3> QED BY <2>2, <3>1, <3>2, Zenon DEF __up_write, Left, Goto
  <2> QED BY <2>1, <2>2
<1> QED BY <1>0, <1>2, LeftStruct, LeftCounts, LeftAbs DEF IInv


\* try_again.
LEMMA TryHolds ==
  ASSUME IInv, NEW p \in Task, TryAgain(p)
  PROVE  IInv' /\ AbsStep
<1>0. Struct /\ CountInv /\ Types /\ QueueInv /\ pc[p] = "try" /\ count' = count + ACTIVE_BIAS
      /\ UNCHANGED <<schedvars, wait_lock, flags, want, readers, writers>>
  BY DEF IInv, Struct, TryAgain
<1>1. CASE Active(count) # 0
  <2>1. pc' = [pc EXCEPT ![p] = "undo"] /\ UNCHANGED <<wait_list, todo>>
    BY <1>1 DEF TryAgain, Goto
  <2>2. Struct' /\ Queued' = Queued /\ B' = B \cup {p} /\ p \notin B
    BY <1>0, <2>1, TryFailsStruct, Zenon
  <2>3. CountInv'
    BY <1>0, <2>2, TryCounts
  <2>4. \A q \in Task : pc'[q] \in {"set", "enqueue"} <=> pc[q] \in {"set", "enqueue"}
    BY <1>0, <2>1 DEF Types
  <2>5. AbsStep
    BY <1>0, <2>1, <2>4, InsideAbs
  <2> QED BY <2>2, <2>3, <2>5 DEF IInv
<1>2. CASE Active(count) = 0
  <2>1. wait_list # <<>>
    BY <1>0 DEF Struct, LockInv
  <2>2. Head(wait_list) = wait_list[1] /\ wait_list[1] \in Task
    BY <1>0, <2>1 DEF Types
  <2>3. PICK at : /\ Chosen(p, Front, at)
                  /\ at = "addreaders" => Front = Len(wait_list) \/ flags[wait_list[Front + 1]] = "write"
    <3>1. Dequeue(Front)
          /\ pc' = [pc EXCEPT ![p] = IF flags[wait_list[1]] = "write" THEN "grant" ELSE "addreaders"]
      BY <1>2, <2>2 DEF TryAgain, Goto
    <3>2. /\ Front \in 1 .. Len(wait_list)
          /\ \/ flags[wait_list[1]] = "write" /\ Front = 1
             \/ /\ flags[wait_list[1]] = "read"
                /\ \A i \in 1 .. Front : flags[wait_list[i]] = "read"
                /\ Front = Len(wait_list) \/ flags[wait_list[Front + 1]] = "write"
      BY <1>0, <2>1, FrontIs
    <3>3. CASE flags[wait_list[1]] = "write" /\ Front = 1
      <4>1. Chosen(p, Front, "grant")
        BY <1>0, <3>1, <3>2, <3>3 DEF Chosen
      <4> QED BY <4>1
    <3>4. CASE flags[wait_list[1]] = "read"
      <4>1. Chosen(p, Front, "addreaders") /\ (Front = Len(wait_list) \/ flags[wait_list[Front + 1]] = "write")
        BY <1>0, <3>1, <3>2, <3>4, SMTT(30) DEF Chosen
      <4> QED BY <4>1
    <3> QED BY <3>2, <3>3, <3>4, SMTT(30)
  <2>4. /\ Struct' /\ Queued = Range(wait_list)
        /\ at = "grant" => /\ Queued' = Queued \ {wait_list[1]} /\ wait_list[1] \in Queued
                           /\ B' = B /\ want[wait_list[1]] = "write"
        /\ at = "addreaders" => Queued' = Queued /\ B' = B \cup {p} /\ p \notin B
    BY <1>0, <2>3, ChosenStruct
  <2>5. at \in {"grant", "addreaders"}
    BY <2>3 DEF Chosen
  <2>6. CountInv'
    BY <1>0, <2>4, <2>5, TryCounts
  <2>7. A = {}
    BY <1>0, <1>2, CountTells
  <2>8. AbsStep
    BY <1>0, <2>3, <2>7, ChosenAbs
  <2> QED BY <2>4, <2>6, <2>8 DEF IInv
<1> QED BY <1>1, <1>2

\* The steps inside lib/rwsem.c.
LEMMA StepHolds ==
  ASSUME IInv, NEW p \in Task, Step(p)
  PROVE  IInv' /\ AbsStep
<1>0. Struct /\ CountInv /\ pc \in [Task -> PCs]
  BY DEF IInv, Struct, Types
<1>1. CASE SetState(p)
  <2>1. /\ pc[p] = "set" /\ pc' = [pc EXCEPT ![p] = "enqueue"]
        /\ UNCHANGED <<count, want, wait_list, readers, writers>>
    BY <1>1 DEF SetState, Goto
  <2>2. B' = B
    BY <1>0, <2>1 DEF B
  <2>3. AbsStep
    BY <1>0, <2>1, InsideAbs
  <2> QED BY <1>0, <1>1, <2>1, <2>2, <2>3, SetStruct, OtherCounts DEF IInv
<1>2. CASE Enqueue(p)
  BY <1>0, <1>2, EnqueueStruct, EnqueueCounts, EnqueueAbs DEF IInv
<1>3. CASE rwsem_wake(p)
  <2>1. /\ pc[p] = "wake" /\ \E at \in {"idle", "try"} : pc' = [pc EXCEPT ![p] = at]
        /\ UNCHANGED <<count, want, wait_list, readers, writers>>
    BY <1>3 DEF rwsem_wake, Goto
  <2>3. AbsStep
    BY <1>0, <2>1, InsideAbs
  <2> QED BY <1>0, <1>3, <2>1, <2>3, WakeStruct, OtherCounts DEF IInv
<1>4. CASE TryAgain(p)
  BY <1>4, TryHolds
<1>5. CASE AddReaders(p)
  <2>1. /\ pc[p] = "addreaders" /\ pc' = [pc EXCEPT ![p] = "grant"]
        /\ UNCHANGED <<want, wait_list, readers, writers>>
    BY <1>5 DEF AddReaders, Goto
  <2>2. AbsStep
    BY <1>0, <2>1, InsideAbs
  <2> QED BY <1>0, <1>5, <2>2, AddStruct, AddCounts DEF IInv
<1>6. CASE Undo(p)
  <2>1. /\ pc[p] = "undo" /\ \E at \in {"idle", "check", "try"} : pc' = [pc EXCEPT ![p] = at]
        /\ UNCHANGED <<want, wait_list, readers, writers>>
    BY <1>6 DEF Undo, Unlock, Goto
  <2>2. AbsStep
    BY <1>0, <2>1, InsideAbs
  <2> QED BY <1>0, <1>6, <2>2, UndoStruct, UndoCounts DEF IInv
<1>7. CASE Granted(p) /\ UNCHANGED count
  BY <1>0, <1>7, GrantedStruct, OtherCounts, GrantedAbs DEF IInv
<1>8. CASE (NotGranted(p) \/ Schedule(p) \/ Resume(p)) /\ UNCHANGED count
  <2>1. /\ Struct' /\ Queued' = Queued /\ B' = B /\ pc[p] \in Waiting
        /\ \E at \in Waiting : pc' = [pc EXCEPT ![p] = at]
        /\ UNCHANGED <<count, want, wait_list, readers, writers>>
    BY <1>0, <1>8, LoopStruct DEF waitervars
  <2>2. AbsStep
    BY <1>0, <2>1, InsideAbs DEF Waiting
  <2> QED BY <1>0, <2>1, <2>2, OtherCounts DEF IInv
<1>9. CASE Grant(p) /\ UNCHANGED count
  <2>1. UNCHANGED <<want, wait_list, readers, writers>>
    BY <1>9 DEF Grant
  <2>2. Struct' /\ Queued' = Queued /\ B' = B /\ pc[p] = "grant" /\ pc' = [pc EXCEPT ![p] = "ttwu"]
    BY <1>0, <1>9, GrantStruct
  <2>3. AbsStep
    BY <1>0, <2>1, <2>2, InsideAbs
  <2> QED BY <1>0, <1>9, <2>1, <2>2, <2>3, OtherCounts DEF IInv
<1>10. CASE WakeUp(p) /\ UNCHANGED count
  <2>1. /\ Struct' /\ Queued' = Queued /\ B' = B /\ pc[p] = "ttwu"
        /\ UNCHANGED <<wait_list, flags, want, readers, writers>>
        /\ \E at \in {"grant", "idle", "check"} : pc' = [pc EXCEPT ![p] = at]
    BY <1>0, <1>10, WakeUpStruct
  <2>2. AbsStep
    BY <1>0, <2>1, InsideAbs
  <2> QED BY <1>0, <1>10, <2>1, <2>2, OtherCounts DEF IInv
<1> QED BY <1>1, <1>2, <1>3, <1>4, <1>5, <1>6, <1>7, <1>8, <1>9, <1>10, SMTT(30) DEF Step, WaiterStep

\* Every step keeps the invariant, and is a step of the abstract semaphore or none.
LEMMA NextInv == IInv /\ [Next]_vars => IInv' /\ AbsStep
<1> SUFFICES ASSUME IInv, [Next]_vars PROVE IInv' /\ AbsStep
  OBVIOUS
<1>1. ASSUME NEW p \in Task, Lock(p) \/ __up_read(p) \/ __up_write(p) \/ Step(p) PROVE IInv' /\ AbsStep
  BY <1>1, LockHolds, UpHolds, StepHolds
<1>2. CASE UNCHANGED vars
  <2>1. UNCHANGED <<state, runqueue, sigpending, wait_lock, wait_list, flags, want, todo, readers, writers, pc, count>>
    BY <1>2, SMTT(30) DEF vars, waitervars, schedvars
  <2>2. Struct'
    BY <2>1 DEF IInv, Struct, Types, TasksTypeOK, LockInv, CallInv, FlagInv, QueueInv, TodoInv, WokenInv, Waits, Queued
  <2>3. CountInv'
    BY <2>1, Zenon DEF IInv, CountInv, Queued
  <2>4. AbsStep
    BY <2>1, InsideAbs
  <2> QED BY <2>2, <2>3, <2>4 DEF IInv
<1> QED BY <1>1, <1>2 DEF Next

\* The invariant holds of a semaphore just initialised.
LEMMA InitInv == Init => IInv
<1> SUFFICES ASSUME Init PROVE IInv
  OBVIOUS
<1>1. Types
  BY DEF Init, WaitersInit, TasksInit, Types, TasksTypeOK, TaskStates, Modes, PCs
<1>2. wait_list = <<>> /\ todo = <<>> /\ Range(wait_list) = {} /\ Range(todo) = {}
  BY DEF Init, WaitersInit, Range
<1>3. LockInv /\ CallInv /\ FlagInv
  BY TaskAssumption DEF Init, WaitersInit, LockInv, CallInv, FlagInv, Waiting, Locked, Releasing
<1>4. QueueInv /\ TodoInv
  BY <1>2 DEF Init, WaitersInit, QueueInv, TodoInv
<1>5. WokenInv
  BY DEF Init, WaitersInit, TasksInit, WokenInv
<1>6. A = {} /\ B = {} /\ M = {}
  BY <1>2 DEF Init, WaitersInit, A, B, M, Queued
<1>7. count = (0 + 0) * ACTIVE_BIAS + 0 * WAITING_BIAS
  BY UnitAssumption DEF Init, ACTIVE_BIAS, WAITING_BIAS
<1>8. CountInv
  BY <1>6, <1>7, FS_EmptySet, CountIs
<1> QED BY <1>1, <1>3, <1>4, <1>5, <1>8 DEF IInv, Struct

\* The inductive invariant holds of every behaviour of lib/rwsem.c.
THEOREM Invariant == Spec => []IInv
<1>1. IInv /\ [Next]_vars => IInv'
  BY NextInv
<1> QED BY InitInv, <1>1, PTL DEF Spec

\* The halves of sem->count are, at every instruction, the active lockers and
\* the writers and waiters.
THEOREM CountIsExact == Spec => []CountInv
<1>1. IInv => CountInv
  BY DEF IInv
<1> QED BY Invariant, <1>1, PTL

\* The fields of the semaphore keep their types, and no half of sem->count
\* runs into the other.
THEOREM TypeCorrect == Spec => []TypeOK
<1>1. IInv => TypeOK
  <2> SUFFICES ASSUME IInv PROVE TypeOK
    OBVIOUS
  <2>1. Struct /\ CountInv /\ Types
    BY DEF IInv, Struct
  <2>2. PICK l \in Nat, m \in Nat, n \in Nat, U \in Nat :
          /\ l = Cardinality(A) + Cardinality(B) /\ m = Cardinality(M)
          /\ n = Cardinality(Task) /\ U = WAITING_UNIT /\ l <= n /\ m <= n
    BY <2>1, HalvesFit, UnitAssumption
  <2>3. count = l - m * U
    BY <2>1, <2>2, CountIs DEF ACTIVE_BIAS, WAITING_BIAS
  <2>4. \A i, j, k \in Nat : i <= j => i * k <= j * k /\ i * k >= 0
    OBVIOUS
  <2>5. m * U <= n * U /\ m * U >= 0
    BY <2>2, <2>4
  <2>6. PICK x \in Int, y \in Int : x = m * U /\ y = n * U
    OBVIOUS
  <2>7. count \in (-y) .. n
    BY <2>2, <2>3, <2>5, <2>6
  <2>8. WAITING_BIAS * Cardinality(Task) = -y
    <3>1. (-U) * n = -(n * U)
      OBVIOUS
    <3> QED BY <2>2, <2>6, <3>1 DEF WAITING_BIAS
  <2> QED BY <2>1, <2>2, <2>7, <2>8 DEF TypeOK, WaitersTypeOK, Types
<1> QED BY Invariant, <1>1, PTL

\* A waiter whose flags are cleared is awake, or still to be woken by the task in
\* __rwsem_do_wake that cleared them.
THEOREM GrantedAreWoken == Spec => []GrantedIsWoken
<1>1. IInv => GrantedIsWoken
  BY DEF IInv, Struct, WokenInv, GrantedIsWoken, Asleep
<1> QED BY Invariant, <1>1, PTL

\* lib/rwsem.c implements the abstract semaphore: readers share, writers are
\* alone, nobody gets the lock past the queue, and the queue is served in order.
THEOREM XaddRefines == Spec => ImplementsAbstract
<1>1. Init => Abs!Init
  <2> SUFFICES ASSUME Init PROVE Abs!Init
    OBVIOUS
  <2>1. R = {} /\ W = {} /\ Q = <<>>
    BY DEF Init, WaitersInit, R, W, Holders, Q
  <2> QED BY <2>1 DEF Abs!Init, R, W, Q
<1>2. IInv /\ [Next]_vars => [Abs!Next]_(Abs!absvars)
  BY NextInv DEF AbsStep
<1> QED BY <1>1, <1>2, Invariant, PTL DEF Spec, Abs!Spec, ImplementsAbstract

=============================================================================
