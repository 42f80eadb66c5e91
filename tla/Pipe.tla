-------------------------------- MODULE Pipe --------------------------------
(***************************************************************************)
(* Pipes and FIFOs (fs/pipe.c, fs/fifo.c): tasks that open a FIFO, read or *)
(* write it and close it.                                                  *)
(*                                                                         *)
(* All state of the pipe is accessed with PIPE_SEM held.  A step is what a *)
(* task does between taking and releasing it, except that the copying of   *)
(* each chunk, which may fault, is a step of its own.  pipe_wait puts the  *)
(* task on the wait queue and to sleep before it releases PIPE_SEM.        *)
(***************************************************************************)
EXTENDS Integers, Sequences, FiniteSets, FiniteSetsExt

CONSTANTS
  Task, NoTask,
  PIPE_SIZE, PIPE_BUF,
  Counts                \* the sizes of reads and writes

ASSUME PipeAssumption ==
  /\ IsFiniteSet(Task) /\ NoTask \notin Task
  /\ PIPE_BUF \in 1 .. PIPE_SIZE /\ PIPE_SIZE \in Nat
  /\ Counts \subseteq Nat \ {0}

VARIABLES
  i_pipe,                           \* is there a pipe_inode_info?
  base, start, len,                 \* its buffer
  readers, writers,                 \* files open for reading and for writing
  waiting_writers,
  sem,                              \* the holder of PIPE_SEM
  mode,                             \* what a task's file is open for: "R", "W"
  nonblock,                         \* the tasks with O_NONBLOCK
  pc,                               \* where each task is
  count,                            \* what it has yet to transfer
  size,                             \* what its call was asked to transfer
  asleep,                           \* tasks asleep on PIPE_WAIT
  signalled,                        \* tasks with a signal pending
  met,                              \* openers whose partner has come since
  stream,                           \* the bytes written and not yet read
  silent                            \* a transfer has ended half way with no wake-up since

ring  == <<base, start, len>>
ends  == <<i_pipe, readers, writers>>
local == <<count, size>>
file  == <<mode, nonblock>>
ghost == <<stream, silent>>
vars  == <<ring, ends, file, waiting_writers, sem, pc, local, asleep, signalled, met, ghost>>

Byte == {0, 1}
NoByte == 2

NoData == [i \in 0 .. PIPE_SIZE - 1 |-> NoByte]

Init ==
  /\ i_pipe = FALSE
  /\ base = NoData /\ start = 0 /\ len = 0
  /\ readers = 0 /\ writers = 0 /\ waiting_writers = 0
  /\ sem = NoTask
  /\ mode = [t \in Task |-> {}] /\ nonblock = {}
  /\ pc = [t \in Task |-> "closed"]
  /\ count = [t \in Task |-> 0] /\ size = [t \in Task |-> 0]
  /\ asleep = {} /\ signalled = {} /\ met = {}
  /\ stream = << >> /\ silent = FALSE

-----------------------------------------------------------------------------
WholeBuffer     == PIPE_SIZE

PIPE_FREE       == PIPE_SIZE - len
PIPE_END        == (start + len) % PIPE_SIZE
PIPE_MAX_RCHUNK == PIPE_SIZE - start
PIPE_MAX_WCHUNK == PIPE_SIZE - PIPE_END

\* Task t, at p and awake, gets PIPE_SEM.
Enter(t, p) == pc[t] = p /\ t \notin asleep /\ sem = NoTask

Goto(t, p) == pc' = [pc EXCEPT ![t] = p]

\* wake_up_interruptible(PIPE_WAIT), and pipe_wait, where schedule() returns at
\* once if a signal is pending.
WakeAll     == asleep' = {} /\ silent' = FALSE
KeepAsleep  == UNCHANGED <<asleep, silent>>
Sleep(t, p) == Goto(t, p) /\ asleep' = asleep \cup ({t} \ signalled) /\ UNCHANGED silent
WakeAndSleep(t, p) == Goto(t, p) /\ asleep' = {t} \ signalled /\ silent' = FALSE

\* A call goes on, or returns; a signal pending is then handled.
GoesOn == UNCHANGED <<local, signalled>>
Return(t) ==
  /\ Goto(t, "open")
  /\ sem' = NoTask
  /\ signalled' = signalled \ {t}
  /\ count' = [count EXCEPT ![t] = 0] /\ size' = [size EXCEPT ![t] = 0]

\* The copy of a chunk faults: the call returns what it has transferred, if
\* anything, without waking anybody.
CopyFaults(t) ==
  /\ Return(t)
  /\ silent' = (silent \/ count[t] < size[t])
  /\ UNCHANGED <<ring, stream>>

-----------------------------------------------------------------------------
(* fifo_open and pipe_release *)

\* The tasks that wait for a partner such as a file opened for m.
Openers(m) == {u \in Task : pc[u] = "opening" /\ mode[u] \cup m = {"R", "W"}}

One(m, end) == IF end \in m THEN 1 ELSE 0

\* A writer with O_NONBLOCK needs a reader: without one, or when interrupted while
\* it waits for PIPE_SEM, fifo_open changes nothing.
fifo_open(t, m, nb) ==
  /\ Enter(t, "closed")
  /\ nb /\ m = {"W"} => readers > 0
  /\ i_pipe' = TRUE
  /\ readers' = readers + One(m, "R") /\ writers' = writers + One(m, "W")
  /\ mode' = [mode EXCEPT ![t] = m]
  /\ nonblock' = IF nb THEN nonblock \cup {t} ELSE nonblock
  /\ met' = met \cup Openers(m)
  /\ LET first == ("R" \in m /\ readers = 0) \/ ("W" \in m /\ writers = 0)
         block == ~nb /\ ((m = {"R"} /\ writers = 0) \/ (m = {"W"} /\ readers = 0))
     IN /\ Goto(t, IF block THEN "opening" ELSE "open")
        /\ asleep' = (IF first THEN {} ELSE asleep) \cup (IF block THEN {t} ELSE {})
        /\ silent' = (silent /\ ~first)
  /\ UNCHANGED <<ring, waiting_writers, sem, local, signalled, stream>>

\* The last user of the pipe frees it and what it holds.
Leave(t) ==
  /\ readers' = readers - One(mode[t], "R") /\ writers' = writers - One(mode[t], "W")
  /\ i_pipe' = (readers' + writers' > 0)
  /\ IF i_pipe' THEN UNCHANGED <<ring, stream>>
               ELSE base' = NoData /\ start' = 0 /\ len' = 0 /\ stream' = << >>
  /\ Goto(t, "closed")
  /\ mode' = [mode EXCEPT ![t] = {}] /\ nonblock' = nonblock \ {t}
  /\ signalled' = signalled \ {t}

\* wait_for_partner goes on; a signal takes the opening back.
OpenWake(t) ==
  /\ Enter(t, "opening")
  /\ CASE t \in signalled ->
            /\ Leave(t)
            /\ met' = met \ {t}
            /\ IF (IF mode[t] = {"R"} THEN readers' ELSE writers') = 0 THEN WakeAll ELSE KeepAsleep
       [] t \notin signalled /\ t \in met ->
            /\ Goto(t, "open")
            /\ met' = met \ {t}
            /\ KeepAsleep /\ UNCHANGED <<ring, ends, file, signalled, stream>>
       [] OTHER -> Sleep(t, "opening") /\ UNCHANGED <<ring, ends, file, signalled, met, stream>>
  /\ UNCHANGED <<waiting_writers, sem, local>>

pipe_release(t) ==
  /\ Enter(t, "open")
  /\ Leave(t)
  /\ IF i_pipe' THEN WakeAll ELSE KeepAsleep
  /\ UNCHANGED <<waiting_writers, sem, local, met>>

-----------------------------------------------------------------------------
(* pipe_read *)

ReadCopy(t) == Goto(t, "rcopy") /\ sem' = t /\ KeepAsleep

\* With nothing to read and nothing to wait for, nothing happens.
pipe_read(t, n) ==
  /\ Enter(t, "open") /\ "R" \in mode[t]
  /\ len # 0 \/ (writers > 0 /\ t \notin nonblock)
  /\ count' = [count EXCEPT ![t] = n] /\ size' = [size EXCEPT ![t] = n]
  /\ IF len # 0 THEN ReadCopy(t) ELSE Sleep(t, "reading") /\ UNCHANGED sem
  /\ UNCHANGED <<ring, ends, file, waiting_writers, signalled, met, stream>>

ReadWake(t) ==
  /\ Enter(t, "reading")
  /\ CASE t \in signalled \/ (len = 0 /\ writers = 0) -> Return(t) /\ KeepAsleep
       [] t \notin signalled /\ len # 0 -> ReadCopy(t) /\ GoesOn
       [] OTHER -> Sleep(t, "reading") /\ UNCHANGED sem /\ GoesOn
  /\ UNCHANGED <<ring, ends, file, waiting_writers, met, stream>>

\* One chunk is copied to the user , or the copy faults.  What stays of it in the
\* buffer is of no use.
ReadChunk(t) ==
  /\ pc[t] = "rcopy" /\ count[t] > 0 /\ len > 0
  /\ \/ LET chars == Min({PIPE_MAX_RCHUNK, count[t], len})
        IN /\ base' = [j \in DOMAIN base |->
                         IF j \in start .. start + chars - 1 THEN NoByte ELSE base[j]]
           /\ start' = (start + chars) % PIPE_SIZE
           /\ len' = len - chars
           /\ count' = [count EXCEPT ![t] = @ - chars]
           /\ stream' = SubSeq(stream, chars + 1, Len(stream))
           /\ UNCHANGED <<size, sem, pc, signalled, silent>>
     \/ CopyFaults(t)
  /\ UNCHANGED <<ends, file, waiting_writers, asleep, met>>

ReadDoneWhenEmpty(t) ==
  /\ pc[t] = "rcopy" /\ (count[t] = 0 \/ len = 0)
  /\ start' = IF len = 0 THEN 0 ELSE start
  /\ IF count[t] > 0 /\ waiting_writers > 0 /\ t \notin nonblock /\ writers > 0
     THEN WakeAndSleep(t, "reading") /\ sem' = NoTask /\ GoesOn
     ELSE Return(t) /\ IF len = 0 THEN WakeAll ELSE KeepAsleep
  /\ UNCHANGED <<base, len, ends, file, waiting_writers, met, stream>>

\* All has been read: return, or do_more_read if there are writers waiting.
ReadDone(t) ==
  /\ pc[t] = "rcopy" /\ (count[t] = 0 \/ len = 0)
  /\ start' = IF len = 0 THEN 0 ELSE start
  /\ IF count[t] > 0 /\ waiting_writers > 0 /\ t \notin nonblock /\ writers > 0
     THEN WakeAndSleep(t, "reading") /\ sem' = NoTask /\ GoesOn
     ELSE Return(t) /\ WakeAll
  /\ UNCHANGED <<base, len, ends, file, waiting_writers, met, stream>>

-----------------------------------------------------------------------------
(* pipe_write *)

RoomAny(t, n) == PIPE_FREE >= 1

\* "If count <= PIPE_BUF, we have to make it atomic."
Room(t, n) == PIPE_FREE >= IF n <= PIPE_BUF THEN n ELSE 1

\* With w writers waiting besides t, go on to copy if there is room, or wait.
RoomOrWait(t, n, w) ==
  IF Room(t, n)
  THEN /\ Goto(t, "wcopy") /\ sem' = t /\ KeepAsleep
       /\ waiting_writers' = w
  ELSE /\ Sleep(t, "room") /\ sem' = NoTask
       /\ waiting_writers' = w + 1

\* Without readers, or with O_NONBLOCK and no room, nothing happens.
pipe_write(t, n) ==
  /\ Enter(t, "open") /\ "W" \in mode[t]
  /\ readers > 0 /\ (t \in nonblock => Room(t, n))
  /\ count' = [count EXCEPT ![t] = n] /\ size' = [size EXCEPT ![t] = n]
  /\ RoomOrWait(t, n, waiting_writers)
  /\ UNCHANGED <<ring, ends, file, signalled, met, stream>>

RoomWakeKeepsCount(t) ==
  /\ Enter(t, "room")
  /\ IF t \in signalled \/ readers = 0
     THEN Return(t) /\ UNCHANGED waiting_writers /\ KeepAsleep
     ELSE RoomOrWait(t, count[t], waiting_writers - 1) /\ GoesOn
  /\ UNCHANGED <<ring, ends, file, met, stream>>

RoomWake(t) ==
  /\ Enter(t, "room")
  /\ IF t \in signalled \/ readers = 0
     THEN Return(t) /\ waiting_writers' = waiting_writers - 1 /\ KeepAsleep
     ELSE RoomOrWait(t, count[t], waiting_writers - 1) /\ GoesOn
  /\ UNCHANGED <<ring, ends, file, met, stream>>

\* One chunk is copied from the user, or the copy faults.
WriteChunk(t) ==
  /\ pc[t] = "wcopy" /\ count[t] > 0 /\ PIPE_FREE > 0
  /\ \/ LET chars == Min({PIPE_MAX_WCHUNK, count[t], PIPE_FREE})
            byte(i) == (count[t] - i) % 2
        IN /\ base' = [j \in DOMAIN base |->
                         IF j \in PIPE_END .. PIPE_END + chars - 1
                         THEN byte(j - PIPE_END) ELSE base[j]]
           /\ len' = len + chars
           /\ count' = [count EXCEPT ![t] = @ - chars]
           /\ stream' = stream \o [i \in 1 .. chars |-> byte(i - 1)]
           /\ UNCHANGED <<start, size, sem, pc, signalled, silent>>
     \/ CopyFaults(t)
  /\ UNCHANGED <<ends, file, waiting_writers, asleep, met>>

\* The pipe is full, or all has been written.
WriteFull(t) ==
  /\ pc[t] = "wcopy" /\ (count[t] = 0 \/ PIPE_FREE = 0)
  /\ IF count[t] > 0 /\ t \notin nonblock
     THEN /\ WakeAndSleep(t, "more") /\ sem' = NoTask
          /\ waiting_writers' = waiting_writers + 1
          /\ GoesOn
     ELSE Return(t) /\ WakeAll /\ UNCHANGED waiting_writers
  /\ UNCHANGED <<ring, ends, file, met, stream>>

MoreWake(t) ==
  /\ Enter(t, "more")
  /\ CASE t \in signalled \/ readers = 0 ->
            Return(t) /\ waiting_writers' = waiting_writers - 1 /\ KeepAsleep
       [] t \notin signalled /\ readers > 0 /\ PIPE_FREE > 0 ->
            /\ Goto(t, "wcopy") /\ sem' = t /\ KeepAsleep
            /\ waiting_writers' = waiting_writers - 1
            /\ GoesOn
       [] OTHER -> WakeAndSleep(t, "more") /\ UNCHANGED <<sem, waiting_writers>> /\ GoesOn
  /\ UNCHANGED <<ring, ends, file, met, stream>>

-----------------------------------------------------------------------------
\* A signal for a task that sleeps, or is about to go on.
Signal(t) ==
  /\ pc[t] \notin {"closed", "open"} /\ t \notin signalled
  /\ signalled' = signalled \cup {t}
  /\ asleep' = asleep \ {t}
  /\ UNCHANGED <<ring, ends, file, waiting_writers, sem, pc, local, met, ghost>>

ReadStep(t)  == ReadWake(t) \/ ReadChunk(t) \/ ReadDone(t)
WriteStep(t) == RoomWake(t) \/ WriteChunk(t) \/ WriteFull(t) \/ MoreWake(t)

Next ==
  \E t \in Task :
    \/ \E m \in {{"R"}, {"W"}, {"R", "W"}}, nb \in BOOLEAN : fifo_open(t, m, nb)
    \/ OpenWake(t) \/ pipe_release(t) \/ Signal(t)
    \/ ReadStep(t) \/ \E n \in Counts : pipe_read(t, n)
    \/ WriteStep(t) \/ \E n \in Counts : pipe_write(t, n)

Spec == Init /\ [][Next]_vars

-----------------------------------------------------------------------------
\* What is copied to a reader are the bytes written first and not yet read, in the
\* order in which they were written, none lost or doubled, whatever the chunks and
\* wherever the buffer wraps; and no copy runs over the end of the buffer.
ReadsInOrder ==
  \A t \in Task :
    pc[t] = "rcopy" /\ pc'[t] = "rcopy" =>
      LET n == count[t] - count'[t]
      IN /\ start + n <= PIPE_SIZE /\ n <= Len(stream) /\ len = Len(stream)
         /\ \A i \in 1 .. n : base[start + i - 1] = stream[i]

InOrder == [][ReadsInOrder]_vars

\* A write of at most PIPE_BUF bytes never stops half way, where another writer's
\* bytes could get between its own.
WriteIsAtomic ==
  \A t \in Task :
    size[t] <= PIPE_BUF /\ count[t] \in 1 .. size[t] - 1 => pc[t] \notin {"room", "more"}

\* Nobody sleeps who could go on: a reader only while the pipe is empty and has
\* writers, a writer only while there is no room for it and there are readers, an
\* opener only while no partner has come.  Except after a copy that faulted half
\* way, which wakes nobody.
NoSleeperForgotten ==
  sem = NoTask /\ ~silent =>
    \A t \in asleep :
      /\ pc[t] = "opening" => t \notin met
      /\ pc[t] = "reading" => len = 0 /\ writers > 0
      /\ pc[t] = "room" => ~Room(t, count[t]) /\ readers > 0
      /\ pc[t] = "more" => PIPE_FREE = 0 /\ readers > 0

\* The pipe exists as long as anybody uses it or waits on its queue, and its
\* counters count the files open and the writers waiting.
InUse(t) == pc[t] # "closed"
Accounted ==
  /\ readers = Cardinality({t \in Task : InUse(t) /\ "R" \in mode[t]})
  /\ writers = Cardinality({t \in Task : InUse(t) /\ "W" \in mode[t]})
  /\ waiting_writers = Cardinality({t \in Task : pc[t] \in {"room", "more"}})
  /\ i_pipe <=> \E t \in Task : InUse(t)
=============================================================================
