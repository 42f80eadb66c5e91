------------------------------ MODULE PipeProofs ------------------------------
(***************************************************************************)
(* Proofs about Pipe, for any tasks, any PIPE_SIZE and PIPE_BUF, any sizes *)
(* of reads and writes: what is read is what was written (InOrder), small  *)
(* writes are atomic (WriteIsAtomic), the counters of the pipe are right   *)
(* (Accounted), and nobody is left asleep (NoSleeperForgotten).            *)
(***************************************************************************)
EXTENDS Pipe, FiniteSetTheorems, SequenceTheorems, TLAPS

Index == 0 .. PIPE_SIZE - 1
Copying == {"rcopy", "wcopy"}
PCs == {"closed", "opening", "open", "reading", "room", "more"} \cup Copying

Types ==
  /\ base \in [Index -> Byte \cup {NoByte}]
  /\ start \in Index /\ len \in 0 .. PIPE_SIZE
  /\ stream \in Seq(Byte)
  /\ pc \in [Task -> PCs]
  /\ count \in [Task -> Nat] /\ size \in [Task -> Nat]
  /\ mode \in [Task -> SUBSET {"R", "W"}]
  /\ readers \in Nat /\ writers \in Nat /\ waiting_writers \in Nat

\* The buffer holds the bytes written and not yet read, from start on.
RingInv ==
  /\ len = Len(stream)
  /\ \A i \in 1 .. len : base[(start + i - 1) % PIPE_SIZE] = stream[i]

\* Who copies has PIPE_SEM.
SemInv == \A t \in Task : pc[t] \in Copying <=> sem = t

\* A write of at most PIPE_BUF bytes waits before it starts, and not again: what
\* it has yet to copy fits.
SmallInv ==
  \A t \in Task :
    /\ pc[t] = "room" => count[t] = size[t]
    /\ pc[t] = "more" => size[t] > PIPE_BUF
    /\ pc[t] = "wcopy" /\ size[t] <= PIPE_BUF => count[t] <= PIPE_FREE

-----------------------------------------------------------------------------
(* The ring buffer. *)

\* Indices wrap around at most once.
LEMMA Wraps ==
  ASSUME NEW k \in 0 .. 2 * PIPE_SIZE - 1
  PROVE  k % PIPE_SIZE = IF k < PIPE_SIZE THEN k ELSE k - PIPE_SIZE
<1>1. PIPE_SIZE \in Nat \ {0}
  BY PipeAssumption
<1>2. \A P \in Nat \ {0} : \A a \in 0 .. P - 1 : a % P = a
  OBVIOUS
<1>3. \A P \in Nat \ {0} : \A a \in P .. 2 * P - 1 : a % P = a - P
  OBVIOUS
<1> QED BY <1>1, <1>2, <1>3

RingRead(n) ==
  /\ n \in 1 .. len /\ start + n <= PIPE_SIZE
  /\ base' = [j \in DOMAIN base |-> IF j \in start .. start + n - 1 THEN NoByte ELSE base[j]]
  /\ start' = (start + n) % PIPE_SIZE
  /\ len' = len - n
  /\ stream' = SubSeq(stream, n + 1, Len(stream))

RingWrite(n, b) ==
  /\ n \in 1 .. PIPE_FREE /\ PIPE_END + n <= PIPE_SIZE
  /\ b \in Seq(Byte) /\ Len(b) = n
  /\ base' = [j \in DOMAIN base |->
                IF j \in PIPE_END .. PIPE_END + n - 1 THEN b[j - PIPE_END + 1] ELSE base[j]]
  /\ start' = start /\ len' = len + n
  /\ stream' = stream \o b

RingOK ==
  /\ base \in [Index -> Byte \cup {NoByte}]
  /\ start \in Index /\ len \in 0 .. PIPE_SIZE
  /\ stream \in Seq(Byte)
  /\ RingInv

\* A chunk that is read comes off the front of the stream.
LEMMA ReadRing ==
  ASSUME RingOK, NEW n, RingRead(n)
  PROVE  RingOK' /\ \A i \in 1 .. n : base[start + i - 1] = stream[i]
<1> USE PipeAssumption DEF Index
<1>1. n \in 1 .. len /\ start + n <= PIPE_SIZE /\ start \in Nat /\ len \in Nat /\ PIPE_SIZE \in Nat
      /\ len <= PIPE_SIZE /\ start < PIPE_SIZE /\ Len(stream) = len
  BY DEF RingOK, RingRead, RingInv
<1>2. \A i \in 1 .. n : base[start + i - 1] = stream[i]
  <2> TAKE i \in 1 .. n
  <2>0. start + i - 1 \in 0 .. 2 * PIPE_SIZE - 1 /\ start + i - 1 < PIPE_SIZE
    BY <1>1
  <2>1. (start + i - 1) % PIPE_SIZE = start + i - 1
    BY <2>0, Wraps
  <2> QED BY <1>1, <2>1 DEF RingOK, RingInv
<1>3. start' = IF start + n < PIPE_SIZE THEN start + n ELSE 0
  <2>1. PICK k \in 0 .. 2 * PIPE_SIZE - 1 : k = start + n
    BY <1>1
  <2>2. k % PIPE_SIZE = IF k < PIPE_SIZE THEN k ELSE k - PIPE_SIZE
    BY Wraps
  <2> QED BY <1>1, <2>1, <2>2 DEF RingRead
<1>4. start' \in Index /\ len' \in 0 .. PIPE_SIZE
  BY <1>1, <1>3 DEF RingRead
<1>5. base' \in [Index -> Byte \cup {NoByte}]
  BY DEF RingRead, RingOK
<1>6. stream' \in Seq(Byte) /\ Len(stream') = len - n /\ \A i \in 1 .. len - n : stream'[i] = stream[n + i]
  BY <1>1 DEF RingRead, RingOK
<1>7. ASSUME NEW i \in 1 .. len - n PROVE base'[(start' + i - 1) % PIPE_SIZE] = stream'[i]
  <2>0. PICK k \in Int : k = start + n + i - 1
    BY <1>1
  <2>m. PICK m \in Int : m = start' + i - 1
    BY <1>1, <1>3
  <2>1. k \in 0 .. 2 * PIPE_SIZE - 1 /\ m \in 0 .. 2 * PIPE_SIZE - 1
    BY <1>1, <1>3, <2>0, <2>m
  <2>2. /\ k % PIPE_SIZE = IF k < PIPE_SIZE THEN k ELSE k - PIPE_SIZE
        /\ m % PIPE_SIZE = IF m < PIPE_SIZE THEN m ELSE m - PIPE_SIZE
    BY <2>1, Wraps
  <2>3. PICK j \in Index : j = k % PIPE_SIZE
    BY <1>1, <2>1, <2>2
  <2>4. j = m % PIPE_SIZE /\ j \notin start .. start + n - 1
    BY <1>1, <1>3, <2>0, <2>m, <2>2, <2>3
  <2>5. base[j] = stream[n + i]
    <3>1. n + i \in 1 .. len /\ start + (n + i) - 1 = k
      BY <1>1, <2>0
    <3> QED BY <2>3, <3>1, Zenon DEF RingOK, RingInv
  <2>6. base'[j] = base[j]
    BY <2>4 DEF RingRead, RingOK
  <2> QED BY <1>6, <2>m, <2>4, <2>5, <2>6
<1>8. len' = Len(stream')
  BY <1>6 DEF RingRead
<1> QED BY <1>2, <1>4, <1>5, <1>6, <1>7, <1>8, Zenon DEF RingOK, RingInv, RingRead

\* A chunk that is written goes to the end of the stream, over no byte unread.
LEMMA WriteRing ==
  ASSUME RingOK, NEW n, NEW b, RingWrite(n, b)
  PROVE  RingOK'
<1> USE PipeAssumption DEF Index
<1> DEFINE e == PIPE_END
<1>1. n \in 1 .. PIPE_SIZE - len /\ start \in Nat /\ len \in Nat /\ PIPE_SIZE \in Nat
      /\ len <= PIPE_SIZE /\ start < PIPE_SIZE /\ Len(stream) = len
  BY DEF RingOK, RingWrite, RingInv, PIPE_FREE
<1>0. PICK a \in 0 .. 2 * PIPE_SIZE - 1 : a = start + len
  BY <1>1
<1>a. a % PIPE_SIZE = IF a < PIPE_SIZE THEN a ELSE a - PIPE_SIZE
  BY Wraps
<1>2. /\ e = IF start + len < PIPE_SIZE THEN start + len ELSE start + len - PIPE_SIZE
      /\ e + n <= PIPE_SIZE
  <2>1. e = a % PIPE_SIZE /\ e + n <= PIPE_SIZE
    BY <1>0 DEF PIPE_END, RingWrite
  <2> HIDE DEF e
  <2> QED BY <1>0, <1>1, <1>a, <2>1
<1>3. /\ b \in Seq(Byte) /\ Len(b) = n
      /\ base' = [j \in DOMAIN base |-> IF j \in e .. e + n - 1 THEN b[j - e + 1] ELSE base[j]]
  BY DEF RingWrite
<1> HIDE DEF e
<1>4. e \in Index /\ DOMAIN base = Index
  BY <1>1, <1>2 DEF RingOK
<1>5. base' \in [Index -> Byte \cup {NoByte}]
  <2>1. ASSUME NEW j \in Index, j \in e .. e + n - 1 PROVE b[j - e + 1] \in Byte
    BY <1>1, <1>3, <1>4, <2>1
  <2> QED BY <1>3, <1>4, <2>1 DEF RingOK
<1>6. /\ stream' \in Seq(Byte) /\ Len(stream') = len + n
      /\ \A i \in 1 .. len : stream'[i] = stream[i]
      /\ \A i \in len + 1 .. len + n : stream'[i] = b[i - len]
  <2>1. stream' = stream \o b /\ stream \in Seq(Byte)
    BY DEF RingWrite, RingOK
  <2>2. stream' \in Seq(Byte) /\ Len(stream') = Len(stream) + Len(b)
    BY <1>3, <2>1, ConcatProperties, Zenon
  <2>3. \A i \in 1 .. Len(stream) + Len(b) :
          stream'[i] = IF i <= Len(stream) THEN stream[i] ELSE b[i - Len(stream)]
    BY <1>3, <2>1, ConcatProperties
  <2> QED BY <1>1, <1>3, <2>2, <2>3
<1>7. ASSUME NEW i \in 1 .. len + n PROVE base'[(start + i - 1) % PIPE_SIZE] = stream'[i]
  <2>0. PICK m \in 0 .. 2 * PIPE_SIZE - 1 : m = start + i - 1
    BY <1>1
  <2>1. m % PIPE_SIZE = IF m < PIPE_SIZE THEN m ELSE m - PIPE_SIZE
    BY Wraps
  <2>k. PICK k \in Index : k = m % PIPE_SIZE
    BY <1>1, <2>0, <2>1
  <2>2. CASE i <= len
    <3>1. k \notin e .. e + n - 1
      BY <1>1, <1>2, <2>0, <2>1, <2>2, <2>k
    <3>2. base[k] = stream[i]
      BY <1>1, <2>0, <2>2, <2>k DEF RingOK, RingInv
    <3> QED BY <1>3, <1>4, <1>6, <2>0, <2>2, <2>k, <3>1, <3>2
  <2>3. CASE i > len
    <3>1. k \in e .. e + n - 1 /\ k - e + 1 = i - len
      BY <1>1, <1>2, <2>0, <2>1, <2>3, <2>k
    <3>2. base'[k] = b[i - len]
      BY <1>3, <1>4, <3>1
    <3>a. i \in len + 1 .. len + n
      BY <1>1, <2>3
    <3>3. stream'[i] = b[i - len]
      BY <1>6, <3>a
    <3> QED BY <2>0, <2>k, <3>2, <3>3
  <2> QED BY <1>1, <2>2, <2>3
<1>8. start' = start /\ len' = len + n /\ len + n \in 0 .. PIPE_SIZE /\ start \in Index
  BY <1>1 DEF RingOK, RingWrite
<1> QED BY <1>5, <1>6, <1>7, <1>8 DEF RingOK, RingInv
-----------------------------------------------------------------------------
(* What a step of a task may do. *)

Step(t) ==
  \/ \E m \in {{"R"}, {"W"}, {"R", "W"}}, nb \in BOOLEAN : fifo_open(t, m, nb)
  \/ OpenWake(t) \/ pipe_release(t) \/ Signal(t)
  \/ ReadStep(t) \/ \E n \in Counts : pipe_read(t, n)
  \/ WriteStep(t) \/ \E n \in Counts : pipe_write(t, n)

\* Copy a chunk, with PIPE_SEM held.
Chunk(t, n) ==
  /\ pc[t] \in Copying /\ n \in 1 .. count[t]
  /\ count' = [count EXCEPT ![t] = @ - n]
  /\ \/ pc[t] = "rcopy" /\ RingRead(n)
     \/ pc[t] = "wcopy" /\ \E b : RingWrite(n, b)
  /\ UNCHANGED <<size, sem, pc, ends, mode, waiting_writers>>

Nothing ==
  UNCHANGED <<base, start, len, stream, count, size, sem, pc, ends, mode, waiting_writers>>

Comes(t, p, m) ==
  /\ pc[t] = "closed" /\ sem = NoTask /\ p \in {"opening", "open"} /\ Goto(t, p)
  /\ m \in {{"R"}, {"W"}, {"R", "W"}} /\ mode' = [mode EXCEPT ![t] = m]
  /\ readers' = readers + One(m, "R") /\ writers' = writers + One(m, "W") /\ i_pipe' = TRUE
  /\ UNCHANGED <<base, start, len, stream, count, size, sem, waiting_writers>>

Goes(t) ==
  /\ pc[t] \in {"opening", "open"} /\ sem = NoTask /\ Goto(t, "closed")
  /\ mode' = [mode EXCEPT ![t] = {}]
  /\ readers' = readers - One(mode[t], "R") /\ writers' = writers - One(mode[t], "W")
  /\ i_pipe' = (readers' + writers' > 0)
  /\ \/ UNCHANGED <<base, start, len, stream>>
     \/ base' = NoData /\ start' = 0 /\ len' = 0 /\ stream' = << >>
  /\ UNCHANGED <<count, size, sem, waiting_writers>>

\* A writer that waits is one of waiting_writers.
Waits(p) == IF p \in {"room", "more"} THEN 1 ELSE 0

Small(p, x, y) ==
  /\ p = "room" => x = y
  /\ p = "more" => y > PIPE_BUF
  /\ p = "wcopy" /\ y <= PIPE_BUF => x <= PIPE_FREE

\* Go on to p, with x of y bytes left to transfer.
Works(t, p, x, y) ==
  /\ pc[t] # "closed" /\ p \in PCs \ {"closed"} /\ Goto(t, p)
  /\ p = "rcopy" => pc[t] # "rcopy"
  /\ IF pc[t] \in Copying THEN sem = t ELSE sem = NoTask
  /\ sem' = IF p \in Copying THEN t ELSE NoTask
  /\ waiting_writers' = waiting_writers + Waits(p) - Waits(pc[t])
  /\ x \in Nat /\ y \in Nat /\ Small(p, x, y)
  /\ count' = [count EXCEPT ![t] = x] /\ size' = [size EXCEPT ![t] = y]
  /\ start' = start \/ (len = 0 /\ start' = 0)
  /\ UNCHANGED <<base, len, stream, ends, mode>>

Effect(t) ==
  \/ Nothing \/ Goes(t)
  \/ \E n \in Nat : Chunk(t, n)
  \/ \E p, m : Comes(t, p, m)
  \/ \E p, x, y : Works(t, p, x, y)

\* The smallest of three numbers.
LEMMA MinOfThree ==
  ASSUME NEW a \in Nat, NEW b \in Nat, NEW c \in Nat
  PROVE  /\ Min({a, b, c}) \in {a, b, c}
         /\ Min({a, b, c}) <= a /\ Min({a, b, c}) <= b /\ Min({a, b, c}) <= c
<1>1. \E x \in {a, b, c} : \A y \in {a, b, c} : x <= y
  OBVIOUS
<1> QED BY <1>1 DEF Min

\* Opening and closing.
LEMMA OpenEffect ==
  ASSUME Types, SemInv, NEW t \in Task,
         (\E m \in {{"R"}, {"W"}, {"R", "W"}}, nb \in BOOLEAN : fifo_open(t, m, nb))
           \/ OpenWake(t) \/ pipe_release(t) \/ Signal(t)
  PROVE  Effect(t)
<1>t. count = [count EXCEPT ![t] = count[t]] /\ size = [size EXCEPT ![t] = size[t]]
      /\ count[t] \in Nat /\ size[t] \in Nat /\ waiting_writers \in Nat
  BY DEF Types
<1>1. ASSUME NEW m \in {{"R"}, {"W"}, {"R", "W"}}, NEW nb \in BOOLEAN, fifo_open(t, m, nb)
      PROVE  Effect(t)
  <2>1. \E p \in {"opening", "open"} : Goto(t, p)
    BY <1>1, Zenon DEF fifo_open
  <2>2. PICK p \in {"opening", "open"} : Goto(t, p)
    BY <2>1
  <2>3. Comes(t, p, m)
    BY <1>1, <2>2, Zenon DEF fifo_open, Enter, Comes, ring, local
  <2> QED BY <2>3, Zenon DEF Effect
<1>2. ASSUME Leave(t), pc[t] \in {"opening", "open"}, sem = NoTask, UNCHANGED <<waiting_writers, sem, local>>
      PROVE  Effect(t)
  <2>1. Goes(t)
    BY <1>2, Zenon DEF Leave, Goes, ring, local
  <2> QED BY <2>1 DEF Effect
<1>3. ASSUME NEW p \in {"opening", "open"}, pc[t] = "opening", sem = NoTask, Goto(t, p),
             UNCHANGED <<ring, ends, file, stream, waiting_writers, sem, local>>
      PROVE  Effect(t)
  <2>1. Works(t, p, count[t], size[t])
    BY <1>3, <1>t DEF Works, Small, Waits, Copying, PCs, ring, file, local
  <2> QED BY <2>1, Zenon DEF Effect
<1>4. CASE OpenWake(t)
  <2>1. pc[t] = "opening" /\ sem = NoTask /\ UNCHANGED <<waiting_writers, sem, local>>
    BY <1>4, Zenon DEF OpenWake, Enter
  <2>2. CASE t \in signalled
    BY <1>2, <1>4, <2>1, <2>2 DEF OpenWake
  <2>3. CASE t \notin signalled
    <3>1. \E p \in {"opening", "open"} : Goto(t, p) /\ UNCHANGED <<ring, ends, file, stream>>
      BY <1>4, <2>3, Zenon DEF OpenWake, Sleep
    <3> QED BY <1>3, <2>1, <3>1
  <2> QED BY <2>2, <2>3
<1>5. CASE pipe_release(t)
  BY <1>2, <1>5 DEF pipe_release, Enter
<1>6. CASE Signal(t)
  BY <1>6, Zenon DEF Signal, Effect, Nothing, ring, local, file, ghost
<1> QED BY <1>1, <1>4, <1>5, <1>6

\* A call that returns, from anywhere.
LEMMA ReturnEffect ==
  ASSUME Types, SemInv, NEW t \in Task, pc[t] # "closed", Return(t),
         pc[t] \in Copying \/ sem = NoTask,
         waiting_writers' = waiting_writers - Waits(pc[t]),
         start' = start \/ (len = 0 /\ start' = 0),
         UNCHANGED <<base, len, stream, ends, file>>
  PROVE  Effect(t)
<1>1. Works(t, "open", 0, 0)
  <2>1. IF pc[t] \in Copying THEN sem = t ELSE sem = NoTask
    BY DEF SemInv
  <2>2. Goto(t, "open") /\ sem' = NoTask /\ count' = [count EXCEPT ![t] = 0] /\ size' = [size EXCEPT ![t] = 0]
    BY DEF Return
  <2>3. waiting_writers' = waiting_writers + Waits("open") - Waits(pc[t]) /\ Small("open", 0, 0)
    BY DEF Waits, Types, Small
  <2> QED BY <2>1, <2>2, <2>3 DEF Works, PCs, Copying, file
<1> QED BY <1>1, Zenon DEF Effect

\* A call that goes on.
LEMMA GoOnEffect ==
  ASSUME Types, SemInv, NEW t \in Task, pc[t] # "closed", NEW p \in PCs \ {"closed"}, Goto(t, p),
         p = "rcopy" => pc[t] # "rcopy",
         pc[t] \in Copying \/ sem = NoTask, sem' = (IF p \in Copying THEN t ELSE NoTask),
         waiting_writers' = waiting_writers + Waits(p) - Waits(pc[t]),
         Small(p, count[t], size[t]), UNCHANGED local,
         start' = start \/ (len = 0 /\ start' = 0),
         UNCHANGED <<base, len, stream, ends, file>>
  PROVE  Effect(t)
<1>1. Works(t, p, count[t], size[t])
  <2>1. IF pc[t] \in Copying THEN sem = t ELSE sem = NoTask
    BY DEF SemInv
  <2>2. /\ count' = [count EXCEPT ![t] = count[t]] /\ size' = [size EXCEPT ![t] = size[t]]
        /\ count[t] \in Nat /\ size[t] \in Nat
    BY DEF Types, local
  <2> QED BY <2>1, <2>2 DEF Works, file
<1> QED BY <1>1, Zenon DEF Effect

\* pipe_read.
LEMMA ReadEffect ==
  ASSUME Types, SemInv, NEW t \in Task, ReadStep(t) \/ \E n \in Counts : pipe_read(t, n)
  PROVE  Effect(t)
<1> USE PipeAssumption DEF Copying
<1>1. ASSUME NEW n \in Counts, pipe_read(t, n) PROVE Effect(t)
  <2>0. n \in Nat /\ pc[t] = "open" /\ sem = NoTask
    BY <1>1, Zenon DEF pipe_read, Enter
  <2>1. \E p \in {"rcopy", "reading"} : Goto(t, p) /\ sem' = IF p = "rcopy" THEN t ELSE NoTask
    <3>1. CASE len # 0
      BY <1>1, <3>1, Zenon DEF pipe_read, ReadCopy
    <3>2. CASE ~(len # 0)
      <4>1. Goto(t, "reading") /\ sem' = sem
        BY <1>1, <3>2 DEF pipe_read, Sleep
      <4> QED BY <2>0, <4>1
    <3> QED BY <3>1, <3>2
  <2>2. PICK p \in {"rcopy", "reading"} : Goto(t, p) /\ sem' = IF p = "rcopy" THEN t ELSE NoTask
    BY <2>1
  <2>3. UNCHANGED <<ring, ends, file, waiting_writers, stream>>
        /\ count' = [count EXCEPT ![t] = n] /\ size' = [size EXCEPT ![t] = n]
    BY <1>1 DEF pipe_read
  <2>4. Works(t, p, n, n)
    BY <2>0, <2>2, <2>3 DEF Types, Works, Small, Waits, PCs, ring, file
  <2> QED BY <2>4, Zenon DEF Effect
<1>2. CASE ReadWake(t)
  <2>1. pc[t] = "reading" /\ sem = NoTask /\ UNCHANGED <<ring, ends, file, waiting_writers, stream>>
    BY <1>2 DEF ReadWake, Enter
  <2>2. CASE Return(t)
    <3>1. waiting_writers' = waiting_writers - Waits(pc[t]) /\ start' = start
          /\ UNCHANGED <<base, len, stream, ends, file>>
      BY <2>1 DEF Types, Waits, ring
    <3> QED BY <2>1, <2>2, <3>1, ReturnEffect
  <2>3. CASE ~Return(t)
    <3>1. \/ Goto(t, "rcopy") /\ sem' = t /\ UNCHANGED local
          \/ Goto(t, "reading") /\ sem' = sem /\ UNCHANGED local
      BY <1>2, <2>3, Zenon DEF ReadWake, ReadCopy, Sleep, GoesOn
    <3>2. \A p \in {"rcopy", "reading"} : p \in PCs \ {"closed"} /\ Small(p, count[t], size[t])
            /\ waiting_writers' = waiting_writers + Waits(p) - Waits(pc[t])
      BY <2>1 DEF PCs, Small, Types, Waits
    <3> QED BY <2>1, <3>1, <3>2, GoOnEffect DEF ring
  <2> QED BY <2>2, <2>3
<1>3. CASE ReadChunk(t)
  <2> DEFINE chars == Min({PIPE_MAX_RCHUNK, count[t], len})
  <2>1. CASE CopyFaults(t)
    <3>1. /\ pc[t] = "rcopy" /\ Return(t)
          /\ UNCHANGED <<base, start, len, stream, ends, file, waiting_writers>>
      BY <1>3, <2>1, Zenon DEF ReadChunk, CopyFaults, ring
    <3>2. waiting_writers' = waiting_writers - Waits(pc[t])
      BY <3>1 DEF Types, Waits
    <3> QED BY <3>1, <3>2, ReturnEffect
  <2>2. CASE ~CopyFaults(t)
    <3>0. /\ PIPE_MAX_RCHUNK \in Nat \ {0} /\ count[t] \in Nat \ {0} /\ len \in Nat \ {0}
          /\ start + PIPE_MAX_RCHUNK = PIPE_SIZE /\ start \in Nat /\ PIPE_SIZE \in Nat
      BY <1>3 DEF ReadChunk, Types, PIPE_MAX_RCHUNK, Index
    <3>1. /\ chars \in {PIPE_MAX_RCHUNK, count[t], len}
          /\ chars <= PIPE_MAX_RCHUNK /\ chars <= count[t] /\ chars <= len
      BY <3>0, MinOfThree
    <3>2. /\ base' = [j \in DOMAIN base |->
                        IF j \in start .. start + chars - 1 THEN NoByte ELSE base[j]]
          /\ start' = (start + chars) % PIPE_SIZE
          /\ len' = len - chars
          /\ count' = [count EXCEPT ![t] = @ - chars]
          /\ stream' = SubSeq(stream, chars + 1, Len(stream))
          /\ UNCHANGED <<size, sem, pc, ends, file, waiting_writers>>
      BY <1>3, <2>2, Zenon DEF ReadChunk
    <3> HIDE DEF chars
    <3>3. chars \in Nat /\ chars \in 1 .. count[t] /\ chars \in 1 .. len /\ start + chars <= PIPE_SIZE
      BY <3>0, <3>1
    <3>4. RingRead(chars)
      BY <3>2, <3>3, Zenon DEF RingRead
    <3>5. Chunk(t, chars)
      BY <1>3, <3>2, <3>3, <3>4 DEF ReadChunk, Chunk, file
    <3> QED BY <3>3, <3>5, Zenon DEF Effect
  <2> QED BY <2>1, <2>2
<1>4. CASE ReadDone(t)
  <2>1. /\ pc[t] = "rcopy" /\ (start' = start \/ (len = 0 /\ start' = 0))
        /\ UNCHANGED <<base, len, ends, file, waiting_writers, stream>>
    BY <1>4 DEF ReadDone
  <2>2. CASE Return(t)
    BY <2>1, <2>2, ReturnEffect DEF Types, Waits
  <2>3. CASE ~Return(t)
    <3>1. Goto(t, "reading") /\ sem' = NoTask /\ UNCHANGED local
      BY <1>4, <2>3, Zenon DEF ReadDone, WakeAndSleep, GoesOn
    <3>2. "reading" \in PCs \ {"closed"} /\ Small("reading", count[t], size[t])
          /\ waiting_writers' = waiting_writers + Waits("reading") - Waits(pc[t])
      BY <2>1 DEF PCs, Small, Types, Waits
    <3> QED BY <2>1, <3>1, <3>2, GoOnEffect
  <2> QED BY <2>2, <2>3
<1> QED BY <1>1, <1>2, <1>3, <1>4 DEF ReadStep

\* A call that finds room, or waits.
LEMMA RoomEffect ==
  ASSUME Types, NEW t \in Task, NEW n \in Nat, NEW w \in Nat, RoomOrWait(t, n, w)
  PROVE  \E p \in {"wcopy", "room"} :
            /\ Goto(t, p) /\ sem' = (IF p = "wcopy" THEN t ELSE NoTask)
            /\ waiting_writers' = w + Waits(p)
            /\ Small(p, n, n)
<1> USE PipeAssumption
<1>1. CASE Room(t, n)
  <2>1. Goto(t, "wcopy") /\ sem' = t /\ waiting_writers' = w
    BY <1>1, Zenon DEF RoomOrWait
  <2>2. w = w + Waits("wcopy") /\ Small("wcopy", n, n)
    BY <1>1 DEF Room, Waits, Small, PIPE_FREE, Types
  <2> QED BY <2>1, <2>2
<1>2. CASE ~Room(t, n)
  <2>1. Goto(t, "room") /\ sem' = NoTask /\ waiting_writers' = w + 1
    BY <1>2, Zenon DEF RoomOrWait, Sleep
  <2>2. w + 1 = w + Waits("room") /\ Small("room", n, n)
    BY DEF Waits, Small
  <2> QED BY <2>1, <2>2
<1> QED BY <1>1, <1>2

\* pipe_write.
LEMMA WriteEffect ==
  ASSUME Types, SemInv, SmallInv, NEW t \in Task, pc[t] \in {"room", "more"} => waiting_writers > 0,
         WriteStep(t) \/ \E n \in Counts : pipe_write(t, n)
  PROVE  Effect(t)
<1> USE PipeAssumption DEF Copying
<1>1. ASSUME NEW n \in Counts, pipe_write(t, n) PROVE Effect(t)
  <2>0. n \in Nat /\ pc[t] = "open" /\ sem = NoTask /\ waiting_writers \in Nat
    BY <1>1 DEF pipe_write, Enter, Types
  <2>1. RoomOrWait(t, n, waiting_writers) /\ UNCHANGED <<ring, ends, file, stream>>
        /\ count' = [count EXCEPT ![t] = n] /\ size' = [size EXCEPT ![t] = n]
    BY <1>1, Zenon DEF pipe_write
  <2>2. PICK p \in {"wcopy", "room"} :
            /\ Goto(t, p) /\ sem' = (IF p = "wcopy" THEN t ELSE NoTask)
            /\ waiting_writers' = waiting_writers + Waits(p)
            /\ Small(p, n, n)
    BY <2>0, <2>1, RoomEffect
  <2>3. Works(t, p, n, n)
    BY <2>0, <2>1, <2>2 DEF Works, Waits, PCs, ring, file
  <2> QED BY <2>3, Zenon DEF Effect
<1>r. ASSUME pc[t] \in {"room", "more"}, sem = NoTask, Return(t), waiting_writers' = waiting_writers - 1,
             UNCHANGED <<ring, ends, file, stream>>
      PROVE  Effect(t)
  <2>1. waiting_writers' = waiting_writers - Waits(pc[t]) /\ UNCHANGED <<base, start, len, stream, ends, file>>
    BY <1>r DEF Waits, ring
  <2> QED BY <1>r, <2>1, ReturnEffect
<1>g. ASSUME pc[t] \notin {"closed", "rcopy"}, pc[t] \in Copying \/ sem = NoTask, NEW p \in PCs \ {"closed"}, Goto(t, p),
             sem' = (IF p \in Copying THEN t ELSE NoTask),
             waiting_writers' = waiting_writers + Waits(p) - Waits(pc[t]),
             Small(p, count[t], size[t]), UNCHANGED <<local, ring, ends, file, stream>>
      PROVE  Effect(t)
  <2>1. UNCHANGED <<base, start, len, stream, ends, file>> /\ UNCHANGED local
    BY <1>g DEF ring
  <2> QED BY <1>g, <2>1, GoOnEffect
<1>2. CASE RoomWake(t)
  <2>1. pc[t] = "room" /\ sem = NoTask /\ count[t] = size[t] /\ UNCHANGED <<ring, ends, file, stream>>
        /\ count[t] \in Nat /\ waiting_writers - 1 \in Nat
    BY <1>2 DEF RoomWake, Enter, SmallInv, Types
  <2>2. CASE t \in signalled \/ readers = 0
    BY <1>2, <1>r, <2>1, <2>2, Zenon DEF RoomWake
  <2>3. CASE ~(t \in signalled \/ readers = 0)
    <3>1. RoomOrWait(t, count[t], waiting_writers - 1) /\ UNCHANGED local
      BY <1>2, <2>3, Zenon DEF RoomWake, GoesOn
    <3>2. PICK p \in {"wcopy", "room"} :
            /\ Goto(t, p) /\ sem' = (IF p = "wcopy" THEN t ELSE NoTask)
            /\ waiting_writers' = waiting_writers - 1 + Waits(p)
            /\ Small(p, count[t], count[t])
      BY <2>1, <3>1, RoomEffect
    <3>3. waiting_writers' = waiting_writers + Waits(p) - Waits(pc[t]) /\ p \in PCs \ {"closed"}
      BY <2>1, <3>2 DEF Waits, PCs, Types
    <3> QED BY <1>g, <2>1, <3>1, <3>2, <3>3, Zenon
  <2> QED BY <2>2, <2>3
<1>3. CASE WriteFull(t)
  <2>1. pc[t] = "wcopy" /\ UNCHANGED <<ring, ends, file, stream>>
    BY <1>3, Zenon DEF WriteFull
  <2>2. CASE count[t] > 0 /\ t \notin nonblock
    <3>1. Goto(t, "more") /\ sem' = NoTask /\ waiting_writers' = waiting_writers + 1 /\ UNCHANGED local
      BY <1>3, <2>2, Zenon DEF WriteFull, WakeAndSleep, GoesOn
    <3>2. "more" \in PCs \ {"closed"} /\ waiting_writers + 1 = waiting_writers + Waits("more") - Waits(pc[t])
      BY <2>1 DEF Waits, PCs, Types
    <3>3. count[t] \in Nat /\ size[t] \in Nat /\ PIPE_FREE = 0
      BY <1>3, <2>2 DEF WriteFull, Types
    <3>4. ~(size[t] <= PIPE_BUF)
      BY <2>1, <2>2, <3>3 DEF SmallInv
    <3>5. Small("more", count[t], size[t])
      BY <3>3, <3>4 DEF Small
    <3> QED BY <1>g, <2>1, <3>1, <3>2, <3>5
  <2>3. CASE ~(count[t] > 0 /\ t \notin nonblock)
    <3>1. Return(t) /\ waiting_writers' = waiting_writers
      BY <1>3, <2>3, Zenon DEF WriteFull
    <3>2. waiting_writers' = waiting_writers - Waits(pc[t]) /\ UNCHANGED <<base, start, len, stream, ends, file>>
      BY <2>1, <3>1 DEF Waits, ring, Types
    <3> QED BY <2>1, <3>1, <3>2, ReturnEffect
  <2> QED BY <2>2, <2>3
<1>4. CASE MoreWake(t)
  <2>1. pc[t] = "more" /\ sem = NoTask /\ size[t] > PIPE_BUF /\ UNCHANGED <<ring, ends, file, stream>>
        /\ waiting_writers \in Nat /\ size[t] \in Nat
    BY <1>4 DEF MoreWake, Enter, SmallInv, Types
  <2>2. \/ Return(t) /\ waiting_writers' = waiting_writers - 1
        \/ Goto(t, "wcopy") /\ sem' = t /\ waiting_writers' = waiting_writers - 1 /\ UNCHANGED local
        \/ Goto(t, "more") /\ sem' = sem /\ waiting_writers' = waiting_writers /\ UNCHANGED local
    BY <1>4, Zenon DEF MoreWake, WakeAndSleep, GoesOn
  <2>3. CASE Return(t) /\ waiting_writers' = waiting_writers - 1
    BY <1>r, <2>1, <2>3
  <2>4. CASE Goto(t, "wcopy") /\ sem' = t /\ waiting_writers' = waiting_writers - 1 /\ UNCHANGED local
    <3>1. "wcopy" \in PCs \ {"closed"} /\ Small("wcopy", count[t], size[t])
          /\ waiting_writers' = waiting_writers + Waits("wcopy") - Waits(pc[t])
      BY <2>1, <2>4 DEF Waits, PCs, Small
    <3> QED BY <1>g, <2>1, <2>4, <3>1, Zenon
  <2>5. CASE Goto(t, "more") /\ sem' = sem /\ waiting_writers' = waiting_writers /\ UNCHANGED local
    <3>1. "more" \in PCs \ {"closed"} /\ Small("more", count[t], size[t])
          /\ waiting_writers' = waiting_writers + Waits("more") - Waits(pc[t])
      BY <2>1, <2>5 DEF Waits, PCs, Small
    <3> QED BY <1>g, <2>1, <2>5, <3>1
  <2> QED BY <2>2, <2>3, <2>4, <2>5
<1>5. CASE WriteChunk(t)
  <2> DEFINE chars == Min({PIPE_MAX_WCHUNK, count[t], PIPE_FREE})
             b == [i \in 1 .. chars |-> (count[t] - (i - 1)) % 2]
  <2>1. CASE CopyFaults(t)
    <3>1. /\ pc[t] = "wcopy" /\ Return(t)
          /\ UNCHANGED <<base, start, len, stream, ends, file, waiting_writers>>
      BY <1>5, <2>1, Zenon DEF WriteChunk, CopyFaults, ring
    <3>2. waiting_writers' = waiting_writers - Waits(pc[t])
      BY <3>1 DEF Types, Waits
    <3> QED BY <3>1, <3>2, ReturnEffect
  <2>2. CASE ~CopyFaults(t)
    <3>a. PIPE_END \in 0 .. PIPE_SIZE - 1
      BY DEF PIPE_END, Types, Index
    <3>0. /\ PIPE_MAX_WCHUNK \in Nat \ {0} /\ count[t] \in Nat \ {0} /\ PIPE_FREE \in Nat \ {0}
          /\ PIPE_END + PIPE_MAX_WCHUNK = PIPE_SIZE
      BY <1>5, <3>a DEF WriteChunk, Types, PIPE_MAX_WCHUNK, PIPE_FREE
    <3>1. /\ chars \in {PIPE_MAX_WCHUNK, count[t], PIPE_FREE}
          /\ chars <= PIPE_MAX_WCHUNK /\ chars <= count[t] /\ chars <= PIPE_FREE
      BY <3>0, MinOfThree
    <3>2. /\ base' = [j \in DOMAIN base |->
                        IF j \in PIPE_END .. PIPE_END + chars - 1
                        THEN (count[t] - (j - PIPE_END)) % 2 ELSE base[j]]
          /\ len' = len + chars
          /\ count' = [count EXCEPT ![t] = @ - chars]
          /\ stream' = stream \o b
          /\ pc[t] = "wcopy"
          /\ UNCHANGED <<start, size, sem, pc, ends, file, waiting_writers>>
      BY <1>5, <2>2, Zenon DEF WriteChunk
    <3> HIDE DEF chars
    <3>3. chars \in 1 .. count[t] /\ chars \in 1 .. PIPE_FREE /\ PIPE_END + chars <= PIPE_SIZE /\ chars \in Nat
      BY <3>a, <3>0, <3>1
    <3>4. b \in Seq(Byte) /\ Len(b) = chars
      BY <3>0, <3>3 DEF Byte
    <3>5. ASSUME NEW j \in PIPE_END .. PIPE_END + chars - 1
          PROVE  (count[t] - (j - PIPE_END)) % 2 = b[j - PIPE_END + 1]
      <4>1. PICK k \in 1 .. chars : k = j - PIPE_END + 1
        BY <3>a, <3>3
      <4>2. j - PIPE_END = k - 1
        BY <3>a, <4>1
      <4> QED BY <4>1, <4>2
    <3> HIDE DEF b
    <3>6. base' = [j \in DOMAIN base |->
                     IF j \in PIPE_END .. PIPE_END + chars - 1 THEN b[j - PIPE_END + 1] ELSE base[j]]
      BY <3>2, <3>5, Zenon
    <3>7. RingWrite(chars, b)
      BY <3>2, <3>3, <3>4, <3>6, Zenon DEF RingWrite
    <3>8. Chunk(t, chars)
      BY <3>2, <3>3, <3>7 DEF Chunk, file
    <3> QED BY <3>3, <3>8, Zenon DEF Effect
  <2> QED BY <2>1, <2>2
<1> QED BY <1>1, <1>2, <1>3, <1>4, <1>5 DEF WriteStep

-----------------------------------------------------------------------------
(* The invariant. *)

\* A task has a mode as long as it uses the pipe.
ModeInv == \A t \in Task : InUse(t) <=> mode[t] # {}

Readers == {t \in Task : "R" \in mode[t]}
Writers == {t \in Task : "W" \in mode[t]}
Waiters == {t \in Task : pc[t] \in {"room", "more"}}

CountInv ==
  /\ readers = Cardinality(Readers) /\ writers = Cardinality(Writers)
  /\ waiting_writers = Cardinality(Waiters)
  /\ i_pipe <=> Readers \cup Writers # {}

IInv == Types /\ RingInv /\ SemInv /\ SmallInv /\ ModeInv /\ CountInv

\* The ring.
LEMMA EffectRing ==
  ASSUME Types, RingInv, NEW t \in Task, Effect(t)
  PROVE  RingOK'
<1> USE PipeAssumption
<1>0. RingOK
  BY DEF RingOK, Types
<1>1. CASE UNCHANGED <<base, start, len, stream>>
  BY <1>0, <1>1 DEF RingOK, RingInv
<1>2. ASSUME len = 0, start' = 0, UNCHANGED <<base, len, stream>> PROVE RingOK'
  BY <1>0, <1>2 DEF RingOK, RingInv, Index
<1>3. CASE base' = NoData /\ start' = 0 /\ len' = 0 /\ stream' = << >>
  <2>1. base' \in [Index -> Byte \cup {NoByte}]
    BY <1>3 DEF NoData, Index
  <2> QED BY <1>3, <2>1 DEF RingOK, RingInv, Index
<1>4. ASSUME NEW n \in Nat, Chunk(t, n) PROVE RingOK'
  <2>1. CASE RingRead(n)
    BY <1>0, <2>1, ReadRing
  <2>2. ASSUME NEW b, RingWrite(n, b) PROVE RingOK'
    BY <1>0, <2>2, WriteRing
  <2> QED BY <1>4, <2>1, <2>2, Zenon DEF Chunk
<1>5. CASE Nothing
  BY <1>1, <1>5 DEF Nothing
<1>6. CASE Goes(t)
  BY <1>1, <1>3, <1>6, Zenon DEF Goes
<1>7. ASSUME NEW p, NEW m, Comes(t, p, m) PROVE RingOK'
  BY <1>1, <1>7, Zenon DEF Comes
<1>8. ASSUME NEW p, NEW x, NEW y, Works(t, p, x, y) PROVE RingOK'
  BY <1>1, <1>2, <1>8, Zenon DEF Works
<1> QED BY <1>4, <1>5, <1>6, <1>7, <1>8, Zenon DEF Effect

\* PIPE_SEM, and what is left of small writes.
LEMMA EffectSem ==
  ASSUME Types, SemInv, SmallInv, ModeInv, NEW t \in Task, Effect(t)
  PROVE  SemInv' /\ SmallInv' /\ ModeInv'
<1> USE PipeAssumption DEF Copying
<1>1. CASE Nothing
  BY <1>1 DEF Nothing, SemInv, SmallInv, ModeInv, InUse, PIPE_FREE
<1>2. CASE Goes(t)
  <2>1. pc' = [pc EXCEPT ![t] = "closed"] /\ mode' = [mode EXCEPT ![t] = {}] /\ sem = NoTask /\ sem' = sem
        /\ pc[t] \in {"opening", "open"} /\ UNCHANGED <<count, size>>
    BY <1>2 DEF Goes, Goto
  <2>2. \A u \in Task : pc[u] \notin Copying /\ pc'[u] = IF u = t THEN "closed" ELSE pc[u]
    BY <2>1 DEF SemInv, Types
  <2> QED BY <2>1, <2>2 DEF SemInv, SmallInv, ModeInv, InUse, Types
<1>3. ASSUME NEW p, NEW m, Comes(t, p, m) PROVE SemInv' /\ SmallInv' /\ ModeInv'
  <2>1. pc' = [pc EXCEPT ![t] = p] /\ mode' = [mode EXCEPT ![t] = m] /\ sem = NoTask /\ sem' = sem /\ m # {}
        /\ p \in {"opening", "open"} /\ UNCHANGED <<count, size, len>>
    BY <1>3 DEF Comes, Goto
  <2>2. \A u \in Task : pc[u] \notin Copying /\ pc'[u] = IF u = t THEN p ELSE pc[u]
    BY <2>1 DEF SemInv, Types
  <2> QED BY <2>1, <2>2 DEF SemInv, SmallInv, ModeInv, InUse, Types
<1>4. ASSUME NEW p, NEW x, NEW y, Works(t, p, x, y) PROVE SemInv' /\ SmallInv' /\ ModeInv'
  <2>1. /\ pc' = [pc EXCEPT ![t] = p] /\ mode' = mode /\ pc[t] # "closed" /\ p \in PCs \ {"closed"}
        /\ sem' = IF p \in Copying THEN t ELSE NoTask
        /\ count' = [count EXCEPT ![t] = x] /\ size' = [size EXCEPT ![t] = y]
        /\ Small(p, x, y) /\ len' = len
        /\ IF pc[t] \in Copying THEN sem = t ELSE sem = NoTask
    BY <1>4 DEF Works, Goto
  <2>2. \A u \in Task \ {t} : pc[u] \notin Copying /\ pc'[u] = pc[u] /\ count'[u] = count[u] /\ size'[u] = size[u]
    BY <2>1 DEF SemInv, Types
  <2>3. pc'[t] = p /\ count'[t] = x /\ size'[t] = y
    BY <2>1 DEF Types
  <2>4. SemInv'
    BY <2>1, <2>2, <2>3 DEF SemInv
  <2>5. SmallInv'
    BY <2>1, <2>2, <2>3 DEF SmallInv, Small, PIPE_FREE
  <2>6. ModeInv'
    BY <2>1, <2>2, <2>3 DEF ModeInv, InUse
  <2> QED BY <2>4, <2>5, <2>6
<1>5. ASSUME NEW n \in Nat, Chunk(t, n) PROVE SemInv' /\ SmallInv' /\ ModeInv'
  <2>1. /\ pc[t] \in Copying /\ n \in 1 .. count[t]
        /\ count' = [count EXCEPT ![t] = @ - n]
        /\ UNCHANGED <<size, sem, pc, mode>>
    BY <1>5 DEF Chunk
  <2>2. SemInv' /\ ModeInv'
    BY <2>1 DEF SemInv, ModeInv, InUse
  <2> DEFINE Q(u) == /\ pc'[u] = "room" => count'[u] = size'[u]
                     /\ pc'[u] = "more" => size'[u] > PIPE_BUF
                     /\ pc'[u] = "wcopy" /\ size'[u] <= PIPE_BUF => count'[u] <= PIPE_FREE'
  <2>3. ASSUME NEW u \in Task, u # t PROVE Q(u)
    <3>1. pc[u] \notin Copying /\ count'[u] = count[u]
      BY <2>1, <2>3 DEF SemInv, Types
    <3> QED BY <2>1, <3>1 DEF SmallInv
  <2>4. count'[t] = count[t] - n /\ count[t] \in Nat /\ size[t] \in Nat /\ len \in Nat
    BY <2>1 DEF Types
  <2>5. Q(t)
    <3>1. CASE pc[t] = "rcopy"
      BY <2>1, <3>1
    <3>2. CASE pc[t] = "wcopy"
      <4>1. len' = len + n /\ pc'[t] = "wcopy" /\ size'[t] = size[t]
        BY <1>5, <2>1, <3>2 DEF Chunk, RingWrite
      <4>2. size'[t] <= PIPE_BUF => count'[t] <= PIPE_FREE'
        BY <2>1, <2>4, <3>2, <4>1 DEF SmallInv, PIPE_FREE
      <4> QED BY <4>1, <4>2
    <3> QED BY <2>1, <3>1, <3>2
  <2>6. \A u \in Task : Q(u)
    <3> HIDE DEF Q
    <3> QED BY <2>3, <2>5
  <2>7. SmallInv'
    BY <2>6, Zenon DEF SmallInv
  <2> QED BY <2>2, <2>7
<1> QED BY <1>1, <1>2, <1>3, <1>4, <1>5, Zenon DEF Effect

\* A set that gains or loses a task.
LEMMA Counting ==
  ASSUME NEW A \in SUBSET Task, NEW t \in Task
  PROVE  /\ IsFiniteSet(A) /\ Cardinality(A) \in Nat
         /\ A # {} <=> Cardinality(A) > 0
         /\ t \notin A => Cardinality(A \cup {t}) = Cardinality(A) + 1
         /\ t \in A => Cardinality(A \ {t}) = Cardinality(A) - 1
<1>1. IsFiniteSet(A)
  BY PipeAssumption, FS_Subset
<1>2. Cardinality(A) \in Nat /\ (Cardinality(A) = 0 <=> A = {})
  BY <1>1, FS_CardinalityType, FS_EmptySet
<1>3. t \notin A => Cardinality(A \cup {t}) = Cardinality(A) + 1
  BY <1>1, FS_AddElement
<1>4. t \in A => Cardinality(A \ {t}) = Cardinality(A) - 1
  BY <1>1, FS_RemoveElement
<1> QED BY <1>1, <1>2, <1>3, <1>4

\* The counters.
LEMMA EffectCount ==
  ASSUME Types, SemInv, ModeInv, CountInv, NEW t \in Task, Effect(t)
  PROVE  CountInv' /\ readers' \in Nat /\ writers' \in Nat /\ waiting_writers' \in Nat
<1> DEFINE Goal == CountInv' /\ readers' \in Nat /\ writers' \in Nat /\ waiting_writers' \in Nat
<1>s. \A A \in SUBSET Task :
         /\ IsFiniteSet(A) /\ Cardinality(A) \in Nat
         /\ A # {} <=> Cardinality(A) > 0
         /\ t \notin A => Cardinality(A \cup {t}) = Cardinality(A) + 1
         /\ t \in A => Cardinality(A \ {t}) = Cardinality(A) - 1
  BY Counting, Zenon
<1>w. Readers \in SUBSET Task /\ Writers \in SUBSET Task /\ Waiters \in SUBSET Task
  BY DEF Readers, Writers, Waiters
<1>n. readers \in Nat /\ writers \in Nat /\ waiting_writers \in Nat
  BY DEF Types
<1>a. ASSUME readers' = Cardinality(Readers') /\ writers' = Cardinality(Writers')
             /\ waiting_writers' = Cardinality(Waiters'),
             i_pipe' <=> Readers' \cup Writers' # {}
      PROVE  Goal
  <2>1. Readers' \in SUBSET Task /\ Writers' \in SUBSET Task /\ Waiters' \in SUBSET Task
    BY DEF Readers, Writers, Waiters
  <2> QED BY <1>a, <1>s, <2>1, Zenon DEF CountInv
<1>b. ASSUME pc' = pc \/ (\E p : Goto(t, p) /\ p \notin {"room", "more"} /\ pc[t] \notin {"room", "more"})
      PROVE  Waiters' = Waiters
  BY <1>b DEF Waiters, Goto, Types
<1>c. ASSUME mode' = mode
      PROVE  Readers' = Readers /\ Writers' = Writers
  BY <1>c DEF Readers, Writers
<1>1. CASE Nothing
  BY <1>1, <1>a, <1>b, <1>c DEF Nothing, CountInv, ends
<1>2. ASSUME NEW n \in Nat, Chunk(t, n) PROVE Goal
  BY <1>2, <1>a, <1>b, <1>c DEF Chunk, CountInv, ends
<1>3. ASSUME NEW p, NEW x, NEW y, Works(t, p, x, y) PROVE Goal
  <2>1. /\ mode' = mode /\ UNCHANGED ends /\ pc' = [pc EXCEPT ![t] = p]
        /\ waiting_writers' = waiting_writers + Waits(p) - Waits(pc[t])
    BY <1>3 DEF Works, Goto
  <2>2. waiting_writers' = Cardinality(Waiters')
    <3>1. CASE p \in {"room", "more"} /\ pc[t] \notin {"room", "more"}
      <4>1. Waiters' = Waiters \cup {t} /\ t \notin Waiters
        BY <2>1, <3>1 DEF Waiters, Types
      <4>2. Cardinality(Waiters \cup {t}) = Cardinality(Waiters) + 1
        BY <1>s, <1>w, <4>1, Zenon
      <4> QED BY <2>1, <3>1, <4>1, <4>2 DEF Waits, CountInv, Types
    <3>2. CASE p \notin {"room", "more"} /\ pc[t] \in {"room", "more"}
      <4>1. Waiters' = Waiters \ {t} /\ t \in Waiters
        BY <2>1, <3>2 DEF Waiters, Types
      <4>2. Cardinality(Waiters \ {t}) = Cardinality(Waiters) - 1
        BY <1>s, <1>w, <4>1, Zenon
      <4> QED BY <2>1, <3>2, <4>1, <4>2 DEF Waits, CountInv, Types
    <3>3. CASE p \in {"room", "more"} <=> pc[t] \in {"room", "more"}
      <4>1. Waiters' = Waiters
        BY <2>1, <3>3 DEF Waiters, Types
      <4> QED BY <2>1, <3>3, <4>1 DEF Waits, CountInv, Types
    <3> QED BY <3>1, <3>2, <3>3
  <2> QED BY <2>1, <2>2, <1>a, <1>c DEF CountInv, ends
<1>4. ASSUME NEW p, NEW m, Comes(t, p, m) PROVE Goal
  <2>1. /\ m \in {{"R"}, {"W"}, {"R", "W"}} /\ mode' = [mode EXCEPT ![t] = m] /\ mode[t] = {}
        /\ readers' = readers + One(m, "R") /\ writers' = writers + One(m, "W") /\ i_pipe' = TRUE
        /\ waiting_writers' = waiting_writers /\ Waiters' = Waiters
    BY <1>4, <1>b DEF Comes, ModeInv, InUse
  <2>2. /\ Readers' = (IF "R" \in m THEN Readers \cup {t} ELSE Readers) /\ t \notin Readers
        /\ Writers' = (IF "W" \in m THEN Writers \cup {t} ELSE Writers) /\ t \notin Writers
    BY <2>1 DEF Readers, Writers, Types
  <2>3. /\ Cardinality(Readers \cup {t}) = Cardinality(Readers) + 1
        /\ Cardinality(Writers \cup {t}) = Cardinality(Writers) + 1
    BY <1>s, <1>w, <2>2, Zenon
  <2>4. readers' = Cardinality(Readers')
    BY <1>n, <2>1, <2>2, <2>3 DEF CountInv, One
  <2>5. writers' = Cardinality(Writers')
    BY <1>n, <2>1, <2>2, <2>3 DEF CountInv, One
  <2>6. Readers' \cup Writers' # {}
    BY <2>1, <2>2
  <2> QED BY <1>a, <2>1, <2>4, <2>5, <2>6 DEF CountInv
<1>5. CASE Goes(t)
  <2>1. /\ mode' = [mode EXCEPT ![t] = {}]
        /\ readers' = readers - One(mode[t], "R") /\ writers' = writers - One(mode[t], "W")
        /\ i_pipe' = (readers' + writers' > 0)
        /\ waiting_writers' = waiting_writers /\ Waiters' = Waiters
    BY <1>5, <1>b DEF Goes
  <2>2. /\ Readers' = Readers \ {t} /\ ("R" \in mode[t] <=> t \in Readers)
        /\ Writers' = Writers \ {t} /\ ("W" \in mode[t] <=> t \in Writers)
    BY <2>1 DEF Readers, Writers, Types
  <2>3. /\ t \in Readers => Cardinality(Readers \ {t}) = Cardinality(Readers) - 1
        /\ t \in Writers => Cardinality(Writers \ {t}) = Cardinality(Writers) - 1
    BY <1>s, <1>w, Zenon
  <2>a. (t \notin Readers => Readers' = Readers) /\ (t \notin Writers => Writers' = Writers)
    BY <2>2
  <2>4. readers' = Cardinality(Readers')
    <3>1. CASE t \in Readers
      <4>1. One(mode[t], "R") = 1
        BY <2>2, <3>1, Zenon DEF One
      <4>2. Cardinality(Readers') = Cardinality(Readers) - 1
        BY <2>2, <2>3, <3>1, Zenon
      <4> QED BY <2>1, <4>1, <4>2 DEF CountInv
    <3>2. CASE t \notin Readers
      <4>1. One(mode[t], "R") = 0
        BY <2>2, <3>2, Zenon DEF One
      <4> QED BY <1>n, <2>1, <2>a, <3>2, <4>1 DEF CountInv
    <3> QED BY <3>1, <3>2
  <2>5. writers' = Cardinality(Writers')
    <3>1. CASE t \in Writers
      <4>1. One(mode[t], "W") = 1
        BY <2>2, <3>1, Zenon DEF One
      <4>2. Cardinality(Writers') = Cardinality(Writers) - 1
        BY <2>2, <2>3, <3>1, Zenon
      <4> QED BY <2>1, <4>1, <4>2 DEF CountInv
    <3>2. CASE t \notin Writers
      <4>1. One(mode[t], "W") = 0
        BY <2>2, <3>2, Zenon DEF One
      <4> QED BY <1>n, <2>1, <2>a, <3>2, <4>1 DEF CountInv
    <3> QED BY <3>1, <3>2
  <2>6. i_pipe' <=> Readers' \cup Writers' # {}
    <3>1. Readers' \in SUBSET Task /\ Writers' \in SUBSET Task
      BY <1>w, <2>2
    <3>2. /\ Cardinality(Readers') \in Nat /\ (Readers' # {} <=> Cardinality(Readers') > 0)
          /\ Cardinality(Writers') \in Nat /\ (Writers' # {} <=> Cardinality(Writers') > 0)
      BY <1>s, <3>1, Zenon
    <3>3. PICK r \in Nat, w \in Nat : r = readers' /\ w = writers'
      BY <2>4, <2>5, <3>2
    <3>4. r + w > 0 <=> Readers' # {} \/ Writers' # {}
      BY <2>4, <2>5, <3>2, <3>3
    <3> QED BY <2>1, <3>3, <3>4, Zenon
  <2> QED BY <1>a, <2>1, <2>4, <2>5, <2>6 DEF CountInv
<1> QED BY <1>1, <1>2, <1>3, <1>4, <1>5, Zenon DEF Effect

-----------------------------------------------------------------------------
(* The theorems. *)

\* One step of a task keeps the invariant.
LEMMA StepInv ==
  ASSUME IInv, NEW t \in Task, Step(t)
  PROVE  IInv' /\ Effect(t)
<1>0. Types /\ RingInv /\ SemInv /\ SmallInv /\ ModeInv /\ CountInv
  BY DEF IInv
<1>1. pc[t] \in {"room", "more"} => waiting_writers > 0
  <2>1. SUFFICES ASSUME pc[t] \in {"room", "more"} PROVE waiting_writers > 0
    OBVIOUS
  <2>2. Waiters \in SUBSET Task /\ Waiters # {}
    BY <2>1 DEF Waiters
  <2>3. Cardinality(Waiters) > 0
    BY <2>2, Counting, Zenon
  <2> QED BY <1>0, <2>3 DEF CountInv
<1>2. Effect(t)
  BY <1>0, <1>1, OpenEffect, ReadEffect, WriteEffect, Zenon DEF Step
<1>3. RingOK' /\ SemInv' /\ SmallInv' /\ ModeInv' /\ CountInv'
      /\ readers' \in Nat /\ writers' \in Nat /\ waiting_writers' \in Nat
  BY <1>0, <1>2, EffectRing, EffectSem, EffectCount, Zenon
<1>4. pc' \in [Task -> PCs] /\ mode' \in [Task -> SUBSET {"R", "W"}]
      /\ count' \in [Task -> Nat] /\ size' \in [Task -> Nat]
  <2> DEFINE Goal == /\ pc' \in [Task -> PCs] /\ mode' \in [Task -> SUBSET {"R", "W"}]
                     /\ count' \in [Task -> Nat] /\ size' \in [Task -> Nat]
  <2>0. pc \in [Task -> PCs] /\ mode \in [Task -> SUBSET {"R", "W"}]
        /\ count \in [Task -> Nat] /\ size \in [Task -> Nat]
    BY <1>0 DEF Types
  <2>1. CASE Nothing
    BY <2>0, <2>1 DEF Nothing
  <2>2. CASE Goes(t)
    BY <2>0, <2>2 DEF Goes, Goto, PCs
  <2>3. ASSUME NEW n \in Nat, Chunk(t, n) PROVE Goal
    BY <2>0, <2>3 DEF Chunk
  <2>4. ASSUME NEW p, NEW m, Comes(t, p, m) PROVE Goal
    BY <2>0, <2>4 DEF Comes, Goto, PCs
  <2>5. ASSUME NEW p, NEW x, NEW y, Works(t, p, x, y) PROVE Goal
    BY <2>0, <2>5 DEF Works, Goto
  <2> QED BY <1>2, <2>1, <2>2, <2>3, <2>4, <2>5, Zenon DEF Effect
<1> QED BY <1>2, <1>3, <1>4, Zenon DEF IInv, Types, RingOK

\* A step that does nothing keeps it too.
LEMMA StutterInv == IInv /\ UNCHANGED vars => IInv'
  BY DEF IInv, Types, RingInv, SemInv, SmallInv, ModeInv, CountInv, InUse, Readers, Writers, Waiters,
         PIPE_FREE, vars, ring, ends, file, local, ghost

\* The invariant holds while nobody has opened the pipe.
LEMMA InitInv == Init => IInv
<1> SUFFICES ASSUME Init PROVE IInv
  OBVIOUS
<1> USE PipeAssumption
<1>1. Types
  BY DEF Init, Types, NoData, Index, PCs, Copying
<1>2. RingInv /\ SemInv /\ SmallInv /\ ModeInv
  BY DEF Init, RingInv, SemInv, SmallInv, ModeInv, InUse, Copying
<1>3. Readers = {} /\ Writers = {} /\ Waiters = {}
  BY DEF Init, Readers, Writers, Waiters
<1>4. CountInv
  BY <1>3, FS_EmptySet DEF CountInv, Init
<1> QED BY <1>1, <1>2, <1>4 DEF IInv

\* The bytes that a step copies to a reader are the first of the stream.
LEMMA EffectInOrder ==
  ASSUME IInv, NEW t \in Task, Effect(t)
  PROVE  ReadsInOrder
<1> USE PipeAssumption DEF Copying
<1>0. Types /\ RingInv /\ SemInv
  BY DEF IInv
<1>1. len = Len(stream) /\ start \in Nat /\ start < PIPE_SIZE /\ len \in Nat /\ PIPE_SIZE \in Nat
      /\ count \in [Task -> Nat]
  BY <1>0 DEF RingInv, Types, Index
<1>2. SUFFICES ASSUME NEW u \in Task, pc[u] = "rcopy", pc'[u] = "rcopy"
               PROVE  /\ start + (count[u] - count'[u]) <= PIPE_SIZE
                      /\ count[u] - count'[u] <= Len(stream) /\ len = Len(stream)
                      /\ \A i \in 1 .. count[u] - count'[u] : base[start + i - 1] = stream[i]
  BY Zenon DEF ReadsInOrder
<1>3. sem = u
  BY <1>0, <1>2 DEF SemInv
<1>4. CASE count'[u] = count[u]
  <2>1. count[u] - count'[u] = 0
    BY <1>1, <1>4
  <2> QED BY <1>1, <2>1
<1>5. ASSUME NEW n \in Nat, Chunk(t, n), u = t
      PROVE  /\ start + (count[u] - count'[u]) <= PIPE_SIZE
             /\ count[u] - count'[u] <= Len(stream) /\ len = Len(stream)
             /\ \A i \in 1 .. count[u] - count'[u] : base[start + i - 1] = stream[i]
  <2>1. RingRead(n)
    BY <1>2, <1>5 DEF Chunk
  <2>2. count[u] - count'[u] = n
    BY <1>1, <1>5 DEF Chunk
  <2>3. \A i \in 1 .. n : base[start + i - 1] = stream[i]
    <3>1. RingOK
      BY <1>0, Zenon DEF RingOK, Types
    <3> QED BY <2>1, <3>1, ReadRing
  <2>4. start + n <= PIPE_SIZE /\ n <= len
    BY <2>1 DEF RingRead
  <2> QED BY <1>1, <2>2, <2>3, <2>4
<1>6. ASSUME NEW n \in Nat, Chunk(t, n) PROVE u = t \/ count'[u] = count[u]
  BY <1>1, <1>6 DEF Chunk
<1>7. CASE Nothing
  BY <1>4, <1>7 DEF Nothing
<1>8. CASE Goes(t)
  BY <1>4, <1>8 DEF Goes
<1>9. ASSUME NEW p, NEW m, Comes(t, p, m) PROVE count'[u] = count[u]
  BY <1>9, Zenon DEF Comes
<1>10. ASSUME NEW p, NEW x, NEW y, Works(t, p, x, y) PROVE FALSE
  BY <1>0, <1>2, <1>3, <1>10 DEF Works, Goto, Types
<1> QED BY <1>4, <1>5, <1>6, <1>7, <1>8, <1>9, <1>10, Zenon DEF Effect

\* The invariant implies what is to be shown.
LEMMA InvImplies == IInv => WriteIsAtomic /\ Accounted
<1> SUFFICES ASSUME IInv PROVE WriteIsAtomic /\ Accounted
  OBVIOUS
<1>1. WriteIsAtomic
  BY PipeAssumption DEF IInv, Types, SmallInv, WriteIsAtomic
<1>2. /\ {t \in Task : InUse(t) /\ "R" \in mode[t]} = Readers
      /\ {t \in Task : InUse(t) /\ "W" \in mode[t]} = Writers
  BY DEF IInv, ModeInv, Readers, Writers
<1>3. (\E t \in Task : InUse(t)) <=> Readers \cup Writers # {}
  <2>1. \A t \in Task : mode[t] \subseteq {"R", "W"} /\ (InUse(t) <=> mode[t] # {})
    BY DEF IInv, Types, ModeInv
  <2>2. \A t \in Task : InUse(t) <=> t \in Readers \cup Writers
    BY <2>1 DEF Readers, Writers
  <2>3. Readers \cup Writers \subseteq Task
    BY DEF Readers, Writers
  <2> QED BY <2>2, <2>3, Zenon
<1>4. Accounted
  BY <1>2, <1>3, Zenon DEF IInv, CountInv, Accounted, Waiters
<1> QED BY <1>1, <1>4

\* Every step keeps the invariant and reads in order.
LEMMA NextInv == IInv /\ [Next]_vars => IInv' /\ [ReadsInOrder]_vars
<1>1. ASSUME IInv, Next PROVE IInv' /\ ReadsInOrder
  <2>1. PICK t \in Task : Step(t)
    BY <1>1, Zenon DEF Next, Step
  <2> QED BY <1>1, <2>1, StepInv, EffectInOrder
<1> QED BY <1>1, StutterInv

\* The inductive invariant holds of every behaviour of pipe.c and fifo.c.
THEOREM Invariant == Spec => []IInv
<1>1. IInv /\ [Next]_vars => IInv'
  BY NextInv
<1> QED BY InitInv, <1>1, PTL DEF Spec

\* What pipe_read copies to its callers is what pipe_write copied from its own, in
\* the same order, for every size of the buffer, wherever it wraps.
THEOREM ReadsAreInOrder == Spec => InOrder
<1>1. IInv /\ [Next]_vars => [ReadsInOrder]_vars
  BY NextInv
<1> QED BY Invariant, <1>1, PTL DEF Spec, InOrder

\* pipe_write never stops half way in a write of at most PIPE_BUF bytes.
THEOREM SmallWritesAreAtomic == Spec => []WriteIsAtomic
<1>1. IInv => WriteIsAtomic
  BY InvImplies
<1> QED BY Invariant, <1>1, PTL

\* readers, writers and waiting_writers are what they count, and the pipe is freed
\* by its last user and not before.
THEOREM PipeIsAccounted == Spec => []Accounted
<1>1. IInv => Accounted
  BY InvImplies
<1> QED BY Invariant, <1>1, PTL

-------------------------------------------------------------------------------
\* No lost wake-up (NoSleeperForgotten), for any tasks and sizes: whoever changes what
\* a sleeper waits for wakes it before PIPE_SEM is released.  While a task copies, that
\* holds only until its first chunk.

Sleeping == {"opening", "reading", "room", "more"}

\* Why t may sleep.
Justified(t) ==
  /\ pc[t] = "opening" => t \notin met
  /\ pc[t] = "reading" => len = 0 /\ writers > 0
  /\ pc[t] = "room" => ~Room(t, count[t]) /\ readers > 0
  /\ pc[t] = "more" => PIPE_FREE = 0 /\ readers > 0

\* Nobody has moved a byte since PIPE_SEM was taken, or a copy was cut short.
Calm == ~silent /\ (sem = NoTask \/ \E t \in Task : sem = t /\ count[t] = size[t])

SleepInv == Calm => \A t \in asleep : Justified(t)

\* Who sleeps and who has been met; a writer copies only while there are readers.
PlaceInv ==
  /\ asleep \subseteq {t \in Task : pc[t] \in Sleeping}
  /\ met \subseteq {t \in Task : pc[t] = "opening"}
  /\ \A t \in Task : count[t] <= size[t] /\ (pc[t] = "wcopy" => readers > 0)

\* An opener not yet met has no partner.
OpenInv ==
  \A t \in Task :
    pc[t] = "opening" =>
      \/ mode[t] = {"R"} /\ (t \notin met => writers = 0)
      \/ mode[t] = {"W"} /\ (t \notin met => readers = 0)

WakeInv == PlaceInv /\ OpenInv /\ SleepInv

\* A step of a call: t goes to p, and to sleep there only for a reason.  Who sleeps
\* already is woken, or t has moved bytes or has moved none.
Moves(t, p) ==
  /\ pc' = [pc EXCEPT ![t] = p] /\ t \notin asleep /\ p # "opening" /\ pc[t] # "opening"
  /\ asleep' \subseteq asleep \cup {t}
  /\ t \in asleep' => p \in Sleeping /\ Justified(t)'
  /\ \A u \in Task \ {t} : count'[u] = count[u] /\ size'[u] = size[u]
  /\ count'[t] <= size'[t]
  /\ p = "wcopy" => readers > 0
  /\ \/ asleep' \subseteq {t}
     \/ sem' = t /\ count'[t] # size'[t]
     \/ ~silent' => Calm /\ len' = len
  /\ UNCHANGED <<ends, mode, met>>

\* A sleeper keeps its reason while the pipe keeps what the reason is about.
LEMMA JustifiedKeeps ==
  ASSUME NEW u \in Task, Justified(u), pc'[u] = pc[u], count'[u] = count[u], len' = len,
         writers > 0 => writers' > 0, readers > 0 => readers' > 0, u \in met' => u \in met
  PROVE  Justified(u)'
  BY DEF Justified, Room, PIPE_FREE

\* A step of that shape keeps the invariant.
LEMMA MovesWake ==
  ASSUME Types, WakeInv, NEW t \in Task, NEW p \in PCs, Moves(t, p)
  PROVE  WakeInv'
<1> USE DEF WakeInv
<1>1. \A u \in Task : pc'[u] = IF u = t THEN p ELSE pc[u]
  BY DEF Moves, Types
<1>2. asleep' \subseteq {u \in Task : pc'[u] \in Sleeping}
  BY <1>1 DEF Moves, PlaceInv
<1>3. met' \subseteq {u \in Task : pc'[u] = "opening"}
  BY <1>1 DEF Moves, PlaceInv
<1>4. \A u \in Task : count'[u] <= size'[u] /\ (pc'[u] = "wcopy" => readers' > 0)
  BY <1>1 DEF Moves, PlaceInv, ends
<1>5. OpenInv'
  BY <1>1 DEF Moves, OpenInv, ends
<1>6. SleepInv'
  <2>1. SUFFICES ASSUME Calm', NEW u \in asleep' PROVE Justified(u)'
    BY DEF SleepInv
  <2>2. CASE u = t
    BY <2>1, <2>2 DEF Moves
  <2>3. CASE u # t
    <3>1. ~(asleep' \subseteq {t}) /\ u \in asleep /\ u \in Task
      BY <1>2, <2>1, <2>3 DEF Moves
    <3>a. NoTask # t
      BY PipeAssumption
    <3>2. ~silent' /\ ~(sem' = t /\ count'[t] # size'[t])
      BY <2>1, <3>a, Zenon DEF Calm
    <3>3. Calm /\ len' = len
      BY <3>1, <3>2, Zenon DEF Moves
    <3>4. Justified(u)
      BY <3>1, <3>3 DEF SleepInv
    <3>5. pc'[u] = pc[u] /\ count'[u] = count[u] /\ writers' = writers /\ readers' = readers /\ met' = met
      BY <1>1, <2>3, <3>1 DEF Moves, ends
    <3> QED BY <3>1, <3>3, <3>4, <3>5, JustifiedKeeps
  <2> QED BY <2>2, <2>3
<1>7. PlaceInv'
  BY <1>2, <1>3, <1>4 DEF PlaceInv
<1> QED BY <1>5, <1>6, <1>7

-----------------------------------------------------------------------------
(* The calls. *)

\* Who is not where tasks sleep is awake.
LEMMA Awake ==
  ASSUME PlaceInv, NEW t \in Task, pc[t] \notin Sleeping
  PROVE  t \notin asleep
  BY DEF PlaceInv

\* Return, with or without waking everybody.
LEMMA ReturnMoves ==
  ASSUME Types, NEW t \in Task, Return(t), pc[t] # "opening", t \notin asleep, UNCHANGED <<ends, mode, met>>,
         \/ asleep' = {}
         \/ asleep' = asleep /\ (~silent' => Calm /\ len' = len)
  PROVE  Moves(t, "open")
<1>1. /\ pc' = [pc EXCEPT ![t] = "open"]
      /\ count' = [count EXCEPT ![t] = 0] /\ size' = [size EXCEPT ![t] = 0]
  BY DEF Return, Goto
<1>2. /\ \A u \in Task \ {t} : count'[u] = count[u] /\ size'[u] = size[u]
      /\ count'[t] <= size'[t]
  BY <1>1 DEF Types
<1> QED BY <1>1, <1>2 DEF Moves

\* Go on, asleep for a reason or not at all, with everybody asleep as before.
LEMMA GoOnMoves ==
  ASSUME Types, PlaceInv, NEW t \in Task, NEW p \in PCs \ {"opening"}, Goto(t, p), pc[t] # "opening", t \notin asleep,
         UNCHANGED <<ends, mode, met>>, asleep' \subseteq asleep \cup {t},
         t \in asleep' => p \in Sleeping /\ Justified(t)',
         p = "wcopy" => readers > 0,
         \/ UNCHANGED local
         \/ \E n \in Nat : count' = [count EXCEPT ![t] = n] /\ size' = [size EXCEPT ![t] = n],
         asleep' \subseteq {t} \/ (~silent' => Calm /\ len' = len)
  PROVE  Moves(t, p)
<1>1. pc' = [pc EXCEPT ![t] = p]
  BY DEF Goto
<1>2. /\ \A u \in Task \ {t} : count'[u] = count[u] /\ size'[u] = size[u]
      /\ count'[t] <= size'[t]
  BY DEF Types, local, PlaceInv
<1> QED BY <1>1, <1>2, Zenon DEF Moves

\* Copy a chunk, or stop at a fault.
LEMMA ChunkMoves ==
  ASSUME Types, WakeInv, SemInv, NEW t \in Task, pc[t] \in Copying, UNCHANGED <<ends, mode, met, asleep>>,
         \/ \E n \in Nat \ {0} : /\ count' = [count EXCEPT ![t] = @ - n] /\ n <= count[t]
                                 /\ UNCHANGED <<size, sem, pc>>
         \/ CopyFaults(t)
  PROVE  \E p \in PCs : Moves(t, p)
<1>0. sem = t /\ t \notin asleep /\ pc[t] # "opening" /\ pc[t] \in PCs /\ count[t] \in Nat /\ size[t] \in Nat
      /\ count[t] <= size[t]
  BY Awake DEF SemInv, Copying, Sleeping, WakeInv, PCs, PlaceInv, Types
<1>1. ASSUME NEW n \in Nat \ {0}, count' = [count EXCEPT ![t] = @ - n], n <= count[t],
             UNCHANGED <<size, sem, pc>>
      PROVE  Moves(t, pc[t])
  <2>1. \A u \in Task \ {t} : count'[u] = count[u] /\ size'[u] = size[u]
    BY <1>1 DEF Types
  <2>2. count'[t] = count[t] - n /\ size'[t] = size[t]
    BY <1>1 DEF Types
  <2>3. count'[t] <= size'[t] /\ count'[t] # size'[t]
    BY <1>0, <1>1, <2>2
  <2>4. pc' = [pc EXCEPT ![t] = pc[t]] /\ sem' = t
    BY <1>0, <1>1 DEF Types
  <2>5. pc[t] = "wcopy" => readers > 0
    BY Zenon DEF WakeInv, PlaceInv
  <2> QED BY <1>0, <2>1, <2>3, <2>4, <2>5, Zenon DEF Moves
<1>2. CASE CopyFaults(t)
  <2>1. Return(t) /\ len' = len /\ (~silent' => ~silent /\ ~(count[t] < size[t]))
    BY <1>2, Zenon DEF CopyFaults, ring
  <2>2. ~silent' => Calm
    <3>1. ~(count[t] < size[t]) => count[t] = size[t]
      BY <1>0
    <3> QED BY <1>0, <2>1, <3>1, Zenon DEF Calm
  <2>3. Moves(t, "open")
    BY <1>0, <2>1, <2>2, ReturnMoves
  <2> QED BY <2>3 DEF PCs
<1> QED BY <1>0, <1>1, <1>2

\* With PIPE_SEM just taken, nobody has moved a byte.
LEMMA StillCalm ==
  ASSUME sem = NoTask, silent' = silent
  PROVE  ~silent' => Calm
  BY Zenon DEF Calm

\* pipe_read.
LEMMA ReadMoves ==
  ASSUME Types, WakeInv, SemInv, NEW t \in Task, ReadStep(t) \/ \E n \in Counts : pipe_read(t, n)
  PROVE  \E p \in PCs : Moves(t, p)
<1> USE PipeAssumption
<1>p. PlaceInv
  BY DEF WakeInv
<1>a. "reading" \in PCs \ {"opening"} /\ "rcopy" \in PCs \ {"opening"} /\ "open" \in PCs /\ "reading" \in Sleeping
  BY DEF PCs, Copying, Sleeping
<1>1. ASSUME NEW n \in Counts, pipe_read(t, n) PROVE \E p \in PCs : Moves(t, p)
  <2>1. /\ pc[t] = "open" /\ t \notin asleep /\ sem = NoTask /\ n \in Nat
        /\ count' = [count EXCEPT ![t] = n] /\ size' = [size EXCEPT ![t] = n]
        /\ UNCHANGED <<ends, mode, met>> /\ len' = len /\ writers' = writers
        /\ len # 0 \/ writers > 0
    BY <1>1 DEF pipe_read, Enter, ring, file, ends
  <2>2. CASE len # 0
    <3>1. Goto(t, "rcopy") /\ asleep' = asleep /\ silent' = silent
      BY <1>1, <2>2, Zenon DEF pipe_read, ReadCopy, KeepAsleep
    <3>2. Moves(t, "rcopy")
      BY <1>p, <1>a, <2>1, <3>1, GoOnMoves, StillCalm, Zenon
    <3> QED BY <1>a, <3>2
  <2>3. CASE ~(len # 0)
    <3>1. Goto(t, "reading") /\ asleep' \subseteq asleep \cup {t} /\ silent' = silent
      BY <1>1, <2>3, Zenon DEF pipe_read, Sleep
    <3>2. pc'[t] = "reading"
      BY <3>1 DEF Goto, Types
    <3>3. Justified(t)'
      BY <2>1, <2>3, <3>2 DEF Justified
    <3>4. Moves(t, "reading")
      BY <1>p, <1>a, <2>1, <3>1, <3>3, GoOnMoves, StillCalm, Zenon
    <3> QED BY <1>a, <3>4
  <2> QED BY <2>2, <2>3
<1>2. CASE ReadWake(t)
  <2>1. /\ pc[t] = "reading" /\ t \notin asleep /\ sem = NoTask
        /\ UNCHANGED <<ends, mode, met>> /\ len' = len /\ writers' = writers
    BY <1>2 DEF ReadWake, Enter, ring, file, ends
  <2>2. \/ Return(t) /\ asleep' = asleep /\ silent' = silent
        \/ Goto(t, "rcopy") /\ asleep' = asleep /\ silent' = silent /\ UNCHANGED local
        \/ /\ Goto(t, "reading") /\ asleep' = asleep \cup ({t} \ signalled) /\ silent' = silent /\ UNCHANGED local
           /\ len = 0 /\ writers # 0
    BY <1>2, Zenon DEF ReadWake, ReadCopy, Sleep, GoesOn, KeepAsleep
  <2>3. CASE Return(t) /\ asleep' = asleep /\ silent' = silent
    <3>1. Moves(t, "open")
      BY <2>1, <2>3, ReturnMoves, StillCalm
    <3> QED BY <1>a, <3>1
  <2>4. CASE Goto(t, "rcopy") /\ asleep' = asleep /\ silent' = silent /\ UNCHANGED local
    <3>1. Moves(t, "rcopy")
      BY <1>p, <1>a, <2>1, <2>4, GoOnMoves, StillCalm
    <3> QED BY <1>a, <3>1
  <2>5. CASE /\ Goto(t, "reading") /\ asleep' = asleep \cup ({t} \ signalled) /\ silent' = silent /\ UNCHANGED local
             /\ len = 0 /\ writers # 0
    <3>2. pc'[t] = "reading" /\ writers > 0
      BY <2>5 DEF Goto, Types
    <3>3. Justified(t)' /\ asleep' \subseteq asleep \cup {t}
      BY <2>1, <2>5, <3>2, Zenon DEF Justified
    <3>4. Moves(t, "reading")
      BY <1>p, <1>a, <2>1, <2>5, <3>3, GoOnMoves, StillCalm
    <3> QED BY <1>a, <3>4
  <2> QED BY <2>2, <2>3, <2>4, <2>5
<1>3. CASE ReadChunk(t)
  <2> DEFINE chars == Min({PIPE_MAX_RCHUNK, count[t], len})
  <2>0. pc[t] \in Copying /\ UNCHANGED <<ends, mode, met, asleep>>
    BY <1>3 DEF ReadChunk, Copying, file
  <2>1. CASE ~CopyFaults(t)
    <3>0. PIPE_MAX_RCHUNK \in Nat \ {0} /\ count[t] \in Nat \ {0} /\ len \in Nat \ {0}
      BY <1>3 DEF ReadChunk, Types, PIPE_MAX_RCHUNK, Index
    <3>1. chars \in {PIPE_MAX_RCHUNK, count[t], len} /\ chars <= count[t]
      BY <3>0, MinOfThree
    <3>2. count' = [count EXCEPT ![t] = @ - chars] /\ UNCHANGED <<size, sem, pc>>
      BY <1>3, <2>1, Zenon DEF ReadChunk
    <3> HIDE DEF chars
    <3>3. chars \in Nat \ {0}
      BY <3>0, <3>1
    <3> QED BY <2>0, <3>1, <3>2, <3>3, ChunkMoves, Zenon
  <2> QED BY <2>0, <2>1, ChunkMoves
<1>4. CASE ReadDone(t)
  <2>1. /\ pc[t] = "rcopy" /\ UNCHANGED <<ends, mode, met>> /\ len' = len /\ writers' = writers
        /\ t \notin asleep
    BY <1>4, <1>p, Awake, Zenon DEF ReadDone, file, ends, Sleeping
  <2>2. CASE count[t] > 0 /\ waiting_writers > 0 /\ t \notin nonblock /\ writers > 0
    <3>1. Goto(t, "reading") /\ asleep' = {t} \ signalled /\ UNCHANGED local
      BY <1>4, <2>2, Zenon DEF ReadDone, WakeAndSleep, GoesOn
    <3>2. pc'[t] = "reading" /\ len = 0
      BY <1>4, <2>2, <3>1 DEF Goto, Types, ReadDone
    <3>3. Justified(t)' /\ asleep' \subseteq {t} /\ asleep' \subseteq asleep \cup {t}
      BY <2>1, <2>2, <3>1, <3>2, Zenon DEF Justified
    <3>4. Moves(t, "reading")
      BY <1>p, <1>a, <2>1, <3>1, <3>3, GoOnMoves
    <3> QED BY <1>a, <3>4
  <2>3. CASE ~(count[t] > 0 /\ waiting_writers > 0 /\ t \notin nonblock /\ writers > 0)
    <3>1. Return(t) /\ asleep' = {}
      BY <1>4, <2>3, Zenon DEF ReadDone, WakeAll
    <3>2. Moves(t, "open")
      BY <2>1, <3>1, ReturnMoves
    <3> QED BY <1>a, <3>2
  <2> QED BY <2>2, <2>3
<1> QED BY <1>1, <1>2, <1>3, <1>4 DEF ReadStep

\* A writer with or without room.
LEMMA RoomMoves ==
  ASSUME Types, WakeInv, NEW t \in Task, NEW n \in Nat, NEW w, RoomOrWait(t, n, w),
         pc[t] # "opening", t \notin asleep, sem = NoTask, readers > 0, len' = len, UNCHANGED <<ends, mode, met>>,
         \/ n = count[t] /\ UNCHANGED local
         \/ count' = [count EXCEPT ![t] = n] /\ size' = [size EXCEPT ![t] = n]
  PROVE  \E p \in PCs : Moves(t, p)
<1>a. "wcopy" \in PCs \ {"opening"} /\ "room" \in PCs \ {"opening"} /\ "room" \in Sleeping /\ PlaceInv
  BY DEF PCs, Copying, Sleeping, WakeInv
<1>1. CASE Room(t, n)
  <2>1. Goto(t, "wcopy") /\ asleep' = asleep /\ silent' = silent
    BY <1>1, Zenon DEF RoomOrWait, KeepAsleep
  <2>2. Moves(t, "wcopy")
    BY <1>a, <2>1, GoOnMoves, StillCalm
  <2> QED BY <1>a, <2>2
<1>2. CASE ~Room(t, n)
  <2>1. Goto(t, "room") /\ asleep' = asleep \cup ({t} \ signalled) /\ silent' = silent
    BY <1>2, Zenon DEF RoomOrWait, Sleep
  <2>2. pc'[t] = "room" /\ count'[t] = n /\ readers' > 0
    BY <2>1 DEF Goto, Types, local, ends
  <2>3. Justified(t)' /\ asleep' \subseteq asleep \cup {t}
    BY <1>2, <2>1, <2>2, Zenon DEF Justified, Room, PIPE_FREE
  <2>4. Moves(t, "room")
    BY <1>a, <2>1, <2>3, GoOnMoves, StillCalm
  <2> QED BY <1>a, <2>4
<1> QED BY <1>1, <1>2

\* pipe_write.
LEMMA WriteMoves ==
  ASSUME Types, WakeInv, SemInv, NEW t \in Task, WriteStep(t) \/ \E n \in Counts : pipe_write(t, n)
  PROVE  \E p \in PCs : Moves(t, p)
<1> USE PipeAssumption
<1>p. PlaceInv
  BY DEF WakeInv
<1>a. "more" \in PCs \ {"opening"} /\ "wcopy" \in PCs \ {"opening"} /\ "open" \in PCs /\ "more" \in Sleeping
  BY DEF PCs, Copying, Sleeping
<1>1. ASSUME NEW n \in Counts, pipe_write(t, n) PROVE \E p \in PCs : Moves(t, p)
  <2>1. /\ pc[t] # "opening" /\ t \notin asleep /\ sem = NoTask /\ n \in Nat /\ readers > 0
        /\ count' = [count EXCEPT ![t] = n] /\ size' = [size EXCEPT ![t] = n]
        /\ UNCHANGED <<ends, mode, met>> /\ len' = len
    BY <1>1, Zenon DEF pipe_write, Enter, ring, file
  <2>2. RoomOrWait(t, n, waiting_writers)
    BY <1>1 DEF pipe_write
  <2> QED BY <2>1, <2>2, RoomMoves, Zenon
<1>2. CASE RoomWake(t)
  <2>1. /\ pc[t] # "opening" /\ t \notin asleep /\ sem = NoTask
        /\ UNCHANGED <<ends, mode, met>> /\ len' = len /\ count[t] \in Nat /\ readers \in Nat
    BY <1>2 DEF RoomWake, Enter, ring, file, Types
  <2>2. CASE t \in signalled \/ readers = 0
    <3>1. Return(t) /\ asleep' = asleep /\ silent' = silent
      BY <1>2, <2>2, Zenon DEF RoomWake, KeepAsleep
    <3>2. Moves(t, "open")
      BY <2>1, <3>1, ReturnMoves, StillCalm
    <3> QED BY <1>a, <3>2
  <2>3. CASE ~(t \in signalled \/ readers = 0)
    <3>1. RoomOrWait(t, count[t], waiting_writers - 1) /\ UNCHANGED local
      BY <1>2, <2>3, Zenon DEF RoomWake, GoesOn
    <3>2. readers > 0
      BY <2>1, <2>3
    <3> QED BY <2>1, <3>1, <3>2, RoomMoves
  <2> QED BY <2>2, <2>3
<1>3. CASE WriteChunk(t)
  <2> DEFINE chars == Min({PIPE_MAX_WCHUNK, count[t], PIPE_FREE})
  <2>0. pc[t] \in Copying /\ UNCHANGED <<ends, mode, met, asleep>>
    BY <1>3 DEF WriteChunk, Copying, file
  <2>1. CASE ~CopyFaults(t)
    <3>a. PIPE_END \in 0 .. PIPE_SIZE - 1
      BY DEF PIPE_END, Types, Index
    <3>0. PIPE_MAX_WCHUNK \in Nat \ {0} /\ count[t] \in Nat \ {0} /\ PIPE_FREE \in Nat \ {0}
      BY <1>3, <3>a DEF WriteChunk, Types, PIPE_MAX_WCHUNK, PIPE_FREE
    <3>1. chars \in {PIPE_MAX_WCHUNK, count[t], PIPE_FREE} /\ chars <= count[t]
      BY <3>0, MinOfThree
    <3>2. count' = [count EXCEPT ![t] = @ - chars] /\ UNCHANGED <<size, sem, pc>>
      BY <1>3, <2>1, Zenon DEF WriteChunk
    <3> HIDE DEF chars
    <3>3. chars \in Nat \ {0}
      BY <3>0, <3>1
    <3> QED BY <2>0, <3>1, <3>2, <3>3, ChunkMoves, Zenon
  <2> QED BY <2>0, <2>1, ChunkMoves
<1>4. CASE WriteFull(t)
  <2>1. /\ pc[t] = "wcopy" /\ UNCHANGED <<ends, mode, met>> /\ len' = len /\ readers' = readers /\ readers > 0
        /\ t \notin asleep
    BY <1>4, <1>p, Awake, Zenon DEF WriteFull, file, ends, ring, Sleeping, PlaceInv
  <2>2. CASE count[t] > 0 /\ t \notin nonblock
    <3>1. Goto(t, "more") /\ asleep' = {t} \ signalled /\ UNCHANGED local
      BY <1>4, <2>2, Zenon DEF WriteFull, WakeAndSleep, GoesOn
    <3>2. pc'[t] = "more" /\ PIPE_FREE = 0
      BY <1>4, <2>2, <3>1 DEF Goto, Types, WriteFull
    <3>3. Justified(t)' /\ asleep' \subseteq {t} /\ asleep' \subseteq asleep \cup {t}
      BY <2>1, <3>1, <3>2, Zenon DEF Justified, PIPE_FREE
    <3>4. Moves(t, "more")
      BY <1>p, <1>a, <2>1, <3>1, <3>3, GoOnMoves
    <3> QED BY <1>a, <3>4
  <2>3. CASE ~(count[t] > 0 /\ t \notin nonblock)
    <3>1. Return(t) /\ asleep' = {}
      BY <1>4, <2>3, Zenon DEF WriteFull, WakeAll
    <3>2. Moves(t, "open")
      BY <2>1, <3>1, ReturnMoves
    <3> QED BY <1>a, <3>2
  <2> QED BY <2>2, <2>3
<1>5. CASE MoreWake(t)
  <2>1. /\ pc[t] = "more" /\ t \notin asleep /\ sem = NoTask
        /\ UNCHANGED <<ends, mode, met>> /\ len' = len /\ readers' = readers /\ readers \in Nat
        /\ PIPE_FREE \in Nat
    BY <1>5 DEF MoreWake, Enter, ring, file, ends, Types, PIPE_FREE
  <2>2. \/ Return(t) /\ asleep' = asleep /\ silent' = silent
        \/ Goto(t, "wcopy") /\ asleep' = asleep /\ silent' = silent /\ UNCHANGED local /\ readers > 0
        \/ /\ Goto(t, "more") /\ asleep' = {t} \ signalled /\ UNCHANGED local
           /\ ~(readers = 0) /\ ~(readers > 0 /\ PIPE_FREE > 0)
    BY <1>5, Zenon DEF MoreWake, WakeAndSleep, GoesOn, KeepAsleep
  <2>3. CASE Return(t) /\ asleep' = asleep /\ silent' = silent
    <3>1. Moves(t, "open")
      BY <2>1, <2>3, ReturnMoves, StillCalm
    <3> QED BY <1>a, <3>1
  <2>4. CASE Goto(t, "wcopy") /\ asleep' = asleep /\ silent' = silent /\ UNCHANGED local /\ readers > 0
    <3>1. Moves(t, "wcopy")
      BY <1>p, <1>a, <2>1, <2>4, GoOnMoves, StillCalm
    <3> QED BY <1>a, <3>1
  <2>5. CASE /\ Goto(t, "more") /\ asleep' = {t} \ signalled /\ UNCHANGED local
             /\ ~(readers = 0) /\ ~(readers > 0 /\ PIPE_FREE > 0)
    <3>1. pc'[t] = "more" /\ PIPE_FREE = 0 /\ readers > 0
      BY <2>1, <2>5 DEF Goto, Types
    <3>2. Justified(t)' /\ asleep' \subseteq {t} /\ asleep' \subseteq asleep \cup {t}
      BY <2>1, <2>5, <3>1, Zenon DEF Justified, PIPE_FREE
    <3>3. Moves(t, "more")
      BY <1>p, <1>a, <2>1, <2>5, <3>2, GoOnMoves
    <3> QED BY <1>a, <3>3
  <2> QED BY <2>2, <2>3, <2>4, <2>5
<1> QED BY <1>1, <1>2, <1>3, <1>4, <1>5 DEF WriteStep

-----------------------------------------------------------------------------
(* Opening and closing. *)

\* fifo_open.
LEMMA OpenWakes ==
  ASSUME IInv, WakeInv, NEW t \in Task, NEW m \in {{"R"}, {"W"}, {"R", "W"}}, NEW nb \in BOOLEAN, fifo_open(t, m, nb)
  PROVE  WakeInv'
<1> DEFINE first == ("R" \in m /\ readers = 0) \/ ("W" \in m /\ writers = 0)
           block == ~nb /\ ((m = {"R"} /\ writers = 0) \/ (m = {"W"} /\ readers = 0))
           p == IF block THEN "opening" ELSE "open"
<1>0. Types /\ PlaceInv /\ OpenInv /\ SleepInv
  BY DEF IInv, WakeInv
<1>1. /\ pc[t] = "closed" /\ t \notin asleep /\ sem = NoTask
      /\ readers' = readers + One(m, "R") /\ writers' = writers + One(m, "W")
      /\ mode' = [mode EXCEPT ![t] = m]
      /\ met' = met \cup Openers(m)
      /\ pc' = [pc EXCEPT ![t] = p]
      /\ asleep' = (IF first THEN {} ELSE asleep) \cup (IF block THEN {t} ELSE {})
      /\ UNCHANGED <<sem, count, size, len>>
  BY Zenon DEF fifo_open, Enter, Goto, ring, local
<1>s. ~silent' => ~silent \/ first
  BY Zenon DEF fifo_open
<1>n. readers \in Nat /\ writers \in Nat
  BY <1>0 DEF Types
<1>2. \A u \in Task : pc'[u] = IF u = t THEN p ELSE pc[u]
  BY <1>0, <1>1 DEF Types
<1>3. readers' >= readers /\ writers' >= writers
      /\ ("R" \notin m => readers' = readers) /\ ("W" \notin m => writers' = writers)
  BY <1>1, <1>n DEF One
<1>t. t \notin met /\ t \notin Openers(m)
  BY <1>0, <1>1 DEF PlaceInv, Openers
<1>4. asleep' \subseteq {u \in Task : pc'[u] \in Sleeping}
  BY <1>0, <1>1, <1>2 DEF PlaceInv, Sleeping
<1>5. met' \subseteq {u \in Task : pc'[u] = "opening"}
  BY <1>0, <1>1, <1>2 DEF PlaceInv, Openers
<1>6. \A u \in Task : count'[u] <= size'[u] /\ (pc'[u] = "wcopy" => readers' > 0)
  BY <1>0, <1>1, <1>2, <1>3, <1>n DEF PlaceInv
<1>7. PlaceInv'
  BY <1>4, <1>5, <1>6 DEF PlaceInv
<1>8. OpenInv'
  <2>1. SUFFICES ASSUME NEW u \in Task, pc'[u] = "opening"
                 PROVE  \/ mode'[u] = {"R"} /\ (u \notin met' => writers' = 0)
                        \/ mode'[u] = {"W"} /\ (u \notin met' => readers' = 0)
    BY DEF OpenInv
  <2>2. CASE u = t
    <3>1. mode'[u] = m /\ block
      BY <1>0, <1>1, <1>2, <2>1, <2>2 DEF Types
    <3>2. CASE m = {"R"} /\ writers = 0
      BY <1>3, <3>1, <3>2
    <3>3. CASE m = {"W"} /\ readers = 0
      BY <1>3, <3>1, <3>3
    <3> QED BY <3>1, <3>2, <3>3
  <2>3. CASE u # t
    <3>1. pc[u] = "opening" /\ mode'[u] = mode[u]
      BY <1>0, <1>1, <1>2, <2>1, <2>3 DEF Types
    <3>2. CASE mode[u] = {"R"} /\ (u \notin met => writers = 0)
      <4>1. CASE "W" \in m
        <5>1. u \in Openers(m)
          BY <3>1, <3>2, <4>1 DEF Openers
        <5> QED BY <1>1, <3>1, <3>2, <5>1
      <4>2. CASE "W" \notin m
        BY <1>1, <1>3, <3>1, <3>2, <4>2
      <4> QED BY <4>1, <4>2
    <3>3. CASE mode[u] = {"W"} /\ (u \notin met => readers = 0)
      <4>1. CASE "R" \in m
        <5>1. u \in Openers(m)
          BY <3>1, <3>3, <4>1 DEF Openers
        <5> QED BY <1>1, <3>1, <3>3, <5>1
      <4>2. CASE "R" \notin m
        BY <1>1, <1>3, <3>1, <3>3, <4>2
      <4> QED BY <4>1, <4>2
    <3> QED BY <1>0, <3>1, <3>2, <3>3 DEF OpenInv
  <2> QED BY <2>2, <2>3
<1>9. SleepInv'
  <2>1. SUFFICES ASSUME Calm', NEW u \in asleep' PROVE Justified(u)'
    BY DEF SleepInv
  <2>2. CASE u = t
    <3>1. pc'[t] = p /\ t \notin met'
      BY <1>1, <1>2, <1>t
    <3>2. p \in {"opening", "open"}
      OBVIOUS
    <3> QED BY <2>2, <3>1, <3>2 DEF Justified
  <2>3. CASE u # t
    <3>1. u \in asleep /\ ~first
      BY <1>1, <2>1, <2>3
    <3>2. ~silent
      BY <1>s, <2>1, <3>1, Zenon DEF Calm
    <3>3. Calm
      BY <1>1, <3>2, Zenon DEF Calm
    <3>4. u \in Task /\ Justified(u) /\ pc[u] \in Sleeping
      BY <1>0, <3>1, <3>3 DEF SleepInv, PlaceInv
    <3>5. u \notin Openers(m)
      <4>1. SUFFICES ASSUME u \in Openers(m) PROVE FALSE
        OBVIOUS
      <4>2. pc[u] = "opening" /\ mode[u] \cup m = {"R", "W"} /\ u \notin met
        BY <3>4, <4>1 DEF Openers, Justified
      <4>3. CASE mode[u] = {"R"} /\ writers = 0
        BY <3>1, <4>2, <4>3
      <4>4. CASE mode[u] = {"W"} /\ readers = 0
        BY <3>1, <4>2, <4>4
      <4> QED BY <1>0, <3>4, <4>2, <4>3, <4>4 DEF OpenInv
    <3>6. u \in met' => u \in met
      BY <1>1, <3>5
    <3>7. (writers > 0 => writers' > 0) /\ (readers > 0 => readers' > 0)
      BY <1>1, <1>n DEF One
    <3> QED BY <1>1, <1>2, <2>3, <3>4, <3>6, <3>7, JustifiedKeeps
  <2> QED BY <2>2, <2>3
<1> QED BY <1>7, <1>8, <1>9 DEF WakeInv

\* A task leaves the pipe: all are woken, or nobody is left, or no end is closed.
LEMMA LeaveWakes ==
  ASSUME IInv, IInv', WakeInv, NEW t \in Task, Leave(t), pc[t] \in {"opening", "open"}, t \notin asleep,
         sem = NoTask, met' = met \ {t}, UNCHANGED <<sem, count, size>>,
         \/ asleep' = {}
         \/ /\ asleep' = asleep /\ silent' = silent
            /\ \/ ~i_pipe'
               \/ mode[t] = {"R"} /\ readers' # 0
               \/ mode[t] = {"W"} /\ writers' # 0
  PROVE  WakeInv'
<1>0. Types /\ Types' /\ SemInv /\ PlaceInv /\ OpenInv /\ SleepInv /\ ModeInv' /\ CountInv'
  BY DEF IInv, WakeInv
<1>1. /\ readers' = readers - One(mode[t], "R") /\ writers' = writers - One(mode[t], "W")
      /\ i_pipe' = (readers' + writers' > 0)
      /\ i_pipe' => len' = len
      /\ pc' = [pc EXCEPT ![t] = "closed"] /\ mode' = [mode EXCEPT ![t] = {}]
  BY Zenon DEF Leave, Goto, ring
<1>n. readers \in Nat /\ writers \in Nat /\ readers' \in Nat /\ writers' \in Nat
  BY <1>0 DEF Types
<1>2. \A u \in Task : pc'[u] = IF u = t THEN "closed" ELSE pc[u]
  BY <1>0, <1>1, Zenon DEF Types
<1>3. readers' <= readers /\ writers' <= writers
  BY <1>1, <1>n DEF One
<1>4. asleep' \subseteq asleep
  BY Zenon
<1>5. PlaceInv'
  <2>1. asleep' \subseteq {u \in Task : pc'[u] \in Sleeping}
    BY <1>0, <1>2, <1>4 DEF PlaceInv
  <2>2. met' \subseteq {u \in Task : pc'[u] = "opening"}
    BY <1>0, <1>2 DEF PlaceInv
  <2>3. \A u \in Task : pc'[u] # "wcopy"
    BY <1>0, <1>2, PipeAssumption DEF SemInv, Copying
  <2> QED BY <1>0, <2>1, <2>2, <2>3 DEF PlaceInv
<1>6. OpenInv'
  <2>1. SUFFICES ASSUME NEW u \in Task, pc'[u] = "opening"
                 PROVE  \/ mode'[u] = {"R"} /\ (u \notin met' => writers' = 0)
                        \/ mode'[u] = {"W"} /\ (u \notin met' => readers' = 0)
    BY DEF OpenInv
  <2>2. u # t /\ pc[u] = "opening" /\ mode'[u] = mode[u] /\ (u \notin met' => u \notin met)
    BY <1>0, <1>1, <1>2, <2>1, Zenon DEF Types
  <2>3. (writers = 0 => writers' = 0) /\ (readers = 0 => readers' = 0)
    BY <1>3, <1>n
  <2> QED BY <1>0, <2>2, <2>3 DEF OpenInv
<1>7. SleepInv'
  <2>1. SUFFICES ASSUME Calm', NEW u \in asleep' PROVE Justified(u)'
    BY DEF SleepInv
  <2>2. /\ u \in asleep /\ u \in Task /\ u # t /\ silent' = silent
        /\ \/ ~i_pipe'
           \/ mode[t] = {"R"} /\ readers' # 0
           \/ mode[t] = {"W"} /\ writers' # 0
    BY <1>0, <2>1 DEF PlaceInv
  <2>3. pc[u] \in Sleeping /\ pc'[u] = pc[u]
    BY <1>0, <1>2, <2>2 DEF PlaceInv
  <2>4. i_pipe'
    <3>1. mode'[u] # {}
      BY <1>0, <2>2, <2>3 DEF ModeInv, InUse, Sleeping
    <3>2. mode'[u] \subseteq {"R", "W"}
      BY <1>0, <2>2 DEF Types
    <3>3. u \in Readers' \cup Writers'
      BY <2>2, <3>1, <3>2, Zenon DEF Readers, Writers
    <3> QED BY <1>0, <3>3, Zenon DEF CountInv
  <2>5. ~silent
    BY <2>1, <2>2, Zenon DEF Calm
  <2>6. Justified(u)
    BY <1>0, <2>2, <2>5, Zenon DEF SleepInv, Calm
  <2>7. (writers > 0 => writers' > 0) /\ (readers > 0 => readers' > 0)
    <3>1. CASE mode[t] = {"R"} /\ readers' # 0
      BY <1>1, <1>n, <3>1 DEF One
    <3>2. CASE mode[t] = {"W"} /\ writers' # 0
      BY <1>1, <1>n, <3>2 DEF One
    <3> QED BY <2>2, <2>4, <3>1, <3>2
  <2>8. len' = len /\ count'[u] = count[u] /\ (u \in met' => u \in met)
    BY <1>1, <2>4
  <2> QED BY <2>2, <2>3, <2>6, <2>7, <2>8, JustifiedKeeps, Zenon
<1> QED BY <1>5, <1>6, <1>7 DEF WakeInv

\* An opener goes on, or sleeps again.
LEMMA OpenerWakes ==
  ASSUME Types, WakeInv, NEW t \in Task, NEW p \in {"opening", "open"}, Goto(t, p), pc[t] = "opening",
         t \notin asleep, sem = NoTask, silent' = silent,
         \/ p = "open" /\ met' = met \ {t} /\ asleep' = asleep
         \/ p = "opening" /\ t \notin met /\ met' = met /\ asleep' \subseteq asleep \cup {t},
         UNCHANGED <<len, ends, mode, sem, count, size>>
  PROVE  WakeInv'
<1>0. PlaceInv /\ OpenInv /\ SleepInv
  BY DEF WakeInv
<1>1. \A u \in Task : pc'[u] = IF u = t THEN p ELSE pc[u]
  BY DEF Goto, Types
<1>2. PlaceInv'
  BY <1>0, <1>1 DEF PlaceInv, Sleeping, ends
<1>3. OpenInv'
  BY <1>0, <1>1 DEF OpenInv, ends
<1>4. SleepInv'
  <2>1. SUFFICES ASSUME Calm', NEW u \in asleep' PROVE Justified(u)'
    BY DEF SleepInv
  <2>2. CASE u = t
    BY <1>1, <2>1, <2>2, Zenon DEF Justified
  <2>3. CASE u # t
    <3>1. u \in asleep /\ u \in Task
      BY <1>0, <2>1, <2>3 DEF PlaceInv
    <3>2. ~silent
      BY <2>1, Zenon DEF Calm
    <3>3. Justified(u)
      BY <1>0, <3>1, <3>2, Zenon DEF SleepInv, Calm
    <3> QED BY <1>1, <2>3, <3>1, <3>3, JustifiedKeeps, Zenon DEF ends
  <2> QED BY <2>2, <2>3
<1> QED BY <1>2, <1>3, <1>4 DEF WakeInv

\* A signal only wakes.
LEMMA SignalWakes ==
  ASSUME WakeInv, asleep' \subseteq asleep, UNCHANGED <<len, ends, mode, sem, pc, count, size, met, silent>>
  PROVE  WakeInv'
<1>0. PlaceInv /\ OpenInv /\ SleepInv
  BY DEF WakeInv
<1>1. PlaceInv'
  BY <1>0 DEF PlaceInv, ends
<1>2. OpenInv'
  BY <1>0, Zenon DEF OpenInv, ends
<1>3. SleepInv'
  <2>1. SUFFICES ASSUME Calm', NEW u \in asleep' PROVE Justified(u)'
    BY DEF SleepInv
  <2>2. u \in asleep /\ u \in Task
    BY <1>0 DEF PlaceInv
  <2>3. Calm
    BY <2>1, Zenon DEF Calm
  <2>4. Justified(u)
    BY <1>0, <2>2, <2>3 DEF SleepInv
  <2> QED BY <2>2, <2>4, JustifiedKeeps DEF ends
<1> QED BY <1>1, <1>2, <1>3 DEF WakeInv

\* Every step keeps the invariant.
LEMMA StepWakes ==
  ASSUME IInv, IInv', WakeInv, NEW t \in Task, Step(t)
  PROVE  WakeInv'
<1>0. Types /\ SemInv /\ PlaceInv /\ OpenInv
  BY DEF IInv, WakeInv
<1>1. ASSUME NEW m \in {{"R"}, {"W"}, {"R", "W"}}, NEW nb \in BOOLEAN, fifo_open(t, m, nb) PROVE WakeInv'
  BY <1>1, OpenWakes
<1>2. CASE OpenWake(t)
  <2>1. /\ pc[t] = "opening" /\ t \notin asleep /\ sem = NoTask /\ UNCHANGED <<sem, count, size>>
        /\ mode[t] = {"R"} \/ mode[t] = {"W"}
    BY <1>0, <1>2 DEF OpenWake, Enter, OpenInv, local
  <2>2. CASE t \in signalled
    <3>1. Leave(t) /\ met' = met \ {t}
          /\ IF (IF mode[t] = {"R"} THEN readers' ELSE writers') = 0 THEN WakeAll ELSE KeepAsleep
      BY <1>2, <2>2, Zenon DEF OpenWake
    <3>2. \/ asleep' = {}
          \/ /\ asleep' = asleep /\ silent' = silent
             /\ ~((IF mode[t] = {"R"} THEN readers' ELSE writers') = 0)
      BY <3>1, Zenon DEF WakeAll, KeepAsleep
    <3>3. ~((IF mode[t] = {"R"} THEN readers' ELSE writers') = 0)
            => (mode[t] = {"R"} /\ readers' # 0) \/ (mode[t] = {"W"} /\ writers' # 0)
      BY <2>1
    <3> QED BY <2>1, <3>1, <3>2, <3>3, LeaveWakes, Zenon
  <2>3. CASE t \notin signalled
    <3>1. /\ UNCHANGED <<ring, ends, file>> /\ silent' = silent
          /\ \/ Goto(t, "open") /\ met' = met \ {t} /\ asleep' = asleep
             \/ Goto(t, "opening") /\ t \notin met /\ met' = met /\ asleep' = asleep \cup ({t} \ signalled)
      BY <1>2, <2>3, Zenon DEF OpenWake, Sleep, KeepAsleep
    <3>2. UNCHANGED <<len, ends, mode>>
      BY <3>1 DEF ring, file
    <3> QED BY <1>0, <2>1, <3>1, <3>2, OpenerWakes, Zenon
  <2> QED BY <2>2, <2>3
<1>3. CASE pipe_release(t)
  <2>1. /\ pc[t] = "open" /\ t \notin asleep /\ sem = NoTask /\ UNCHANGED <<sem, count, size>>
        /\ Leave(t) /\ met' = met
    BY <1>3 DEF pipe_release, Enter, local
  <2>2. met' = met \ {t}
    BY <1>0, <2>1 DEF PlaceInv
  <2>3. asleep' = {} \/ (asleep' = asleep /\ silent' = silent /\ ~i_pipe')
    BY <1>3, Zenon DEF pipe_release, WakeAll, KeepAsleep
  <2> QED BY <2>1, <2>2, <2>3, LeaveWakes
<1>4. CASE Signal(t)
  <2>1. asleep' = asleep \ {t} /\ UNCHANGED <<len, ends, mode, sem, pc, count, size, met, silent>>
    BY <1>4, Zenon DEF Signal, ring, file, local, ghost
  <2> QED BY <2>1, SignalWakes
<1>5. CASE ReadStep(t) \/ \E n \in Counts : pipe_read(t, n)
  BY <1>0, <1>5, ReadMoves, MovesWake
<1>6. CASE WriteStep(t) \/ \E n \in Counts : pipe_write(t, n)
  BY <1>0, <1>6, WriteMoves, MovesWake
<1> QED BY <1>1, <1>2, <1>3, <1>4, <1>5, <1>6, Zenon DEF Step

-----------------------------------------------------------------------------
\* Both invariants, of every behaviour.
THEOREM WakeInvariant == Spec => [](IInv /\ WakeInv)
<1>1. Init => WakeInv
  BY DEF Init, WakeInv, PlaceInv, OpenInv, SleepInv
<1>2. IInv /\ WakeInv /\ [Next]_vars => IInv' /\ WakeInv'
  <2>1. ASSUME IInv, WakeInv, Next PROVE IInv' /\ WakeInv'
    <3>1. PICK t \in Task : Step(t)
      BY <2>1, Zenon DEF Next, Step
    <3>2. IInv'
      BY <2>1, <3>1, StepInv
    <3> QED BY <2>1, <3>1, <3>2, StepWakes
  <2>2. ASSUME IInv, WakeInv, UNCHANGED vars PROVE IInv' /\ WakeInv'
    <3>1. IInv'
      BY <2>2, StutterInv
    <3>2. asleep' = asleep /\ UNCHANGED <<len, ends, mode, sem, pc, count, size, met, silent>>
      BY <2>2, Zenon DEF vars, ring, file, local, ghost
    <3>3. WakeInv'
      BY <2>2, <3>2, SignalWakes
    <3> QED BY <3>1, <3>3
  <2> QED BY <2>1, <2>2
<1> QED BY InitInv, <1>1, <1>2, PTL DEF Spec

\* Nobody sleeps on PIPE_WAIT who could go on, unless a copy was cut short.
THEOREM NobodyIsForgotten == Spec => []NoSleeperForgotten
<1>1. WakeInv => NoSleeperForgotten
  <2> SUFFICES ASSUME WakeInv, sem = NoTask, ~silent, NEW t \in asleep PROVE Justified(t)
    BY Zenon DEF NoSleeperForgotten, Justified
  <2> QED BY Zenon DEF WakeInv, SleepInv, Calm
<1> QED BY WakeInvariant, <1>1, PTL
=============================================================================
