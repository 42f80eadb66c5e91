------------------------------ MODULE AbsRwSem ------------------------------
(***************************************************************************)
(* What a read/write semaphore promises (the comment of <asm-i386/rwsem.h> *)
(* on fairness): "if anything is waiting, a process that wants a lock will *)
(* go to the back of the queue"; a writer at the front is released alone,  *)
(* a bunch of consecutive readers at the front is released together.       *)
(***************************************************************************)
EXTENDS Naturals, Sequences

CONSTANT Task

VARIABLES readers, writers, queue   \* queue: <<task, "read" or "write">>

absvars == <<readers, writers, queue>>

Init == readers = {} /\ writers = {} /\ queue = <<>>

Holds(p) == p \in readers \cup writers

ReadNow(p) ==
  /\ ~Holds(p) /\ queue = <<>> /\ writers = {}
  /\ readers' = readers \cup {p}
  /\ UNCHANGED <<writers, queue>>

WriteNow(p) ==
  /\ queue = <<>> /\ readers = {} /\ writers = {}
  /\ writers' = {p}
  /\ UNCHANGED <<readers, queue>>

Join(p, mode) ==
  /\ ~Holds(p)
  /\ queue' = Append(queue, <<p, mode>>)
  /\ UNCHANGED <<readers, writers>>

GrantWriter ==
  /\ queue # <<>> /\ Head(queue)[2] = "write"
  /\ readers = {} /\ writers = {}
  /\ writers' = {Head(queue)[1]}
  /\ queue' = Tail(queue)
  /\ UNCHANGED readers

\* All the readers before the first writer, and no others.
GrantReaders ==
  \E n \in 1..Len(queue) :
    /\ \A i \in 1..n : queue[i][2] = "read"
    /\ n = Len(queue) \/ queue[n + 1][2] = "write"
    /\ writers = {} /\ readers = {}
    /\ readers' = {queue[i][1] : i \in 1..n}
    /\ queue' = SubSeq(queue, n + 1, Len(queue))
    /\ UNCHANGED writers

Release(p) ==
  /\ Holds(p)
  /\ readers' = readers \ {p}
  /\ writers' = writers \ {p}
  /\ UNCHANGED queue

\* A release that passes the lock on in the same step.
ReleaseToWriter(p) ==
  /\ readers \cup writers = {p}
  /\ queue # <<>> /\ Head(queue)[2] = "write"
  /\ readers' = {}
  /\ writers' = {Head(queue)[1]}
  /\ queue' = Tail(queue)

ReleaseToReaders(p) ==
  /\ readers = {} /\ writers = {p}
  /\ \E n \in 1..Len(queue) :
       /\ \A i \in 1..n : queue[i][2] = "read"
       /\ n = Len(queue) \/ queue[n + 1][2] = "write"
       /\ readers' = {queue[i][1] : i \in 1..n}
       /\ queue' = SubSeq(queue, n + 1, Len(queue))
  /\ writers' = {}

Next ==
  \/ \E p \in Task :
       \/ ReadNow(p) \/ WriteNow(p) \/ Join(p, "read") \/ Join(p, "write")
       \/ Release(p) \/ ReleaseToWriter(p) \/ ReleaseToReaders(p)
  \/ GrantWriter \/ GrantReaders

Spec == Init /\ [][Next]_absvars
=============================================================================
