------------------------- MODULE JournalStateProofs -------------------------
(****************************************************************************)
(* The inductive invariant of the journal, and the part of it that is about *)
(* transactions, handles and buffers.                                       *)
(*                                                                          *)
(* The parts of IInv lean on each other: the credits bound what a commit    *)
(* logs (CreditInv), which with the accounts of log space (SpaceInv) keeps  *)
(* the head off the tail (RingInv); the credits hold because a handle with  *)
(* access to a block has it in its transaction (HandleInv), which is a      *)
(* matter of how buffers move between the two transactions (BufInv), which  *)
(* depends on the order of the ids (TidInv) and on kjournald's stage        *)
(* (StageInv).  The lemmas of this module show that every step preserves    *)
(* these, and the last ones say how the blocks in use move around the ring  *)
(* of the log; JournalProofs goes on with the parts about the log.          *)
(****************************************************************************)
EXTENDS Journal, FiniteSetTheorems, TLAPS

\* The states of a task whose handle is open, and the tasks in one of them (t_updates counts these).
Open == {"open", "access", "dwait"}
OpenTasks == {p \in Task : handle[p].pc \in Open}

\* The types of the record fields and of the variables.
Lists == {"None", "Reserved", "Metadata", "Shadow", "Forget"}
Fields == {"data", "dirty", "jdirty", "locked", "frozen", "jlist", "trans", "next", "cp"}
Buffer(r) ==
  /\ r = [x \in Fields |-> r[x]]
  /\ r.dirty \in BOOLEAN /\ r.jdirty \in BOOLEAN /\ r.locked \in BOOLEAN /\ r.jlist \in Lists
  /\ r.trans \in Nat /\ r.next \in Nat /\ r.cp \in Nat
Pcs == {"idle", "open", "access", "dwait", "wait", "space", "scan", "fwait", "fckpt", "fscan"}
Uses == [Block -> {"meta", "free", "data"}]
RunType == running \in [tid : Nat, locked : BOOLEAN, updates : Nat, credits : Nat]
CommitType ==
  committing \in [tid : Nat, log_start : 0 .. LogLen, credits : Nat, iobufs : Seq([b : Block, pos : Int])]
JSet ==
  [head : 1 .. LogLen, tail : 1 .. LogLen, free : Int, tail_sequence : Nat, transaction_sequence : Nat,
   commit_sequence : Nat, commit_request : Nat, flushed : BOOLEAN]
JType == j \in JSet
HSet == [pc : Pcs, tid : Nat, credits : Nat, b : Block \cup {NoBlock}, need : Nat]
HandleType == handle \in [Task -> HSet]
ListType == cplist \in SUBSET [tid : Nat, log_start : 1 .. LogLen]
FsType ==
  /\ revoke \in SUBSET Block /\ use \in Uses /\ freed \in [Block -> Nat]
  /\ stable.tid \in Nat /\ stable.use \in Uses /\ pending.tid \in Nat /\ pending.use \in Uses
ScanType == sb.sequence \in Nat /\ info.end \in Nat /\ info = [next |-> info.next, end |-> info.end]
StageType ==
  /\ kjournald \in {"sleep", "locked", "flush", "iobuf", "record"}
  /\ mode \in {"mounted", "down", "replay"}
BufType == bh = [b \in Block |-> bh[b]] /\ \A b \in Block : Buffer(bh[b])
\* The type invariant.
Types == RunType /\ CommitType /\ JType /\ HandleType /\ ListType /\ FsType /\ ScanType /\ StageType /\ BufType

\* While the file system is not mounted nothing of the journal is left in memory.
Down ==
  mode # "mounted" =>
    /\ running = NoTrans /\ committing = NoCommit /\ cplist = {} /\ revoke = {}
    /\ handle = [p \in Task |-> NoHandle] /\ kjournald = "sleep" /\ j = JournalReset(2)
    /\ logio = {} /\ freed = [b \in Block |-> 0]
    /\ \A b \in Block : bh[b].trans = 0

\* The order of the ids: committed < committing < running < next, and a commit is only ever
\* requested for a transaction that exists.
TidInv ==
  /\ j.commit_sequence < j.transaction_sequence
  /\ committing.tid # 0 => j.commit_sequence < committing.tid /\ committing.tid < j.transaction_sequence
  /\ running.tid # 0 => /\ j.commit_sequence < running.tid /\ running.tid < j.transaction_sequence
                        /\ committing.tid < running.tid
  /\ \/ running.tid # 0 /\ j.commit_request = running.tid
     \/ committing.tid # 0 /\ j.commit_request = committing.tid
     \/ committing.tid = 0 /\ j.commit_request = j.commit_sequence

\* kjournald's stage says whether a transaction is committing, and whether the running one is locked.
StageInv ==
  /\ kjournald \in {"sleep", "locked"} <=> committing.tid = 0
  /\ kjournald = "locked" <=> running.locked
  /\ kjournald = "locked" => running.tid # 0 /\ j.commit_request = running.tid
  /\ committing.tid = 0 => committing = NoCommit
  /\ running.tid = 0 => running = NoTrans /\ revoke = {}

\* A task's handle: an open one belongs to the running transaction, one that has been given access
\* to a block has that block in the transaction, one that flushes finds its transaction committing, then
\* the journal quiet; and t_updates counts the open handles.
HandleInv ==
  /\ \A p \in Task :
       /\ handle[p].pc \in Open => handle[p].tid = running.tid /\ running.tid # 0
       /\ handle[p].pc = "access" =>
            /\ handle[p].b \in Block /\ use[handle[p].b] = "meta"
            /\ running.tid \in {bh[handle[p].b].trans, bh[handle[p].b].next}
       /\ handle[p].pc = "fwait" => /\ running.tid \in {0, handle[p].tid}
                                    /\ committing.tid <= handle[p].tid
       /\ handle[p].pc \in {"fckpt", "fscan"} => running.tid = 0 /\ committing.tid = 0
  /\ running.updates = Cardinality(OpenTasks)

\* What the journal knows of a buffer r whose block is used as u and was freed by transaction f, when R
\* is running, C is committing, kjournald is at stage k and cs is committed: it is on a list exactly when
\* a transaction owns it, it belongs to the next transaction only while the committing one still owns
\* it, its journal-dirty bit follows its list, and a block on its way to the log is still metadata
\* unless the running transaction has freed it.
BufOK(r, u, f, R, C, k, cs) ==
  /\ r.trans \in {0, R, C} /\ r.next \in {0, R}
  /\ r.trans = 0 <=> r.jlist = "None"
  /\ r.trans = 0 => ~r.jdirty
  /\ r.trans # 0 => ~r.dirty
  /\ r.next # 0 => r.trans # 0 /\ r.trans = C /\ u = "meta"
  /\ r.frozen # 0 => r.trans # 0 /\ r.trans = C
  /\ r.jlist \in {"Metadata", "Shadow"} => r.jdirty
  /\ r.jlist = "Shadow" => r.trans = C /\ k = "iobuf"
  /\ r.trans # 0 /\ r.trans = C => r.jlist # "Reserved" /\ (r.jlist = "Metadata" => k = "flush")
  /\ r.jlist = "Forget" /\ ~r.jdirty => u = "free" /\ f = r.trans
  /\ r.trans # 0 /\ r.jlist # "Forget" /\ u # "meta" => r.trans = C /\ R # 0 /\ f = R
  /\ r.cp <= cs
\* Every buffer is so.
BufInv ==
  \A b \in Block : BufOK(bh[b], use[b], freed[b], running.tid, committing.tid, kjournald, j.commit_sequence)

\* The shadowed buffers are those whose copies are being written to the log.
ShadowInv ==
  /\ \A b \in Block : bh[b].jlist = "Shadow" => \E i \in DOMAIN committing.iobufs : committing.iobufs[i].b = b
  /\ \A i \in DOMAIN committing.iobufs : bh[committing.iobufs[i].b].trans = committing.tid

\* The blocks of the running transaction, the credits of the open handles as a set of pairs, and the
\* blocks that the commit still has to log.
Mine == {b \in Block : running.tid # 0 /\ running.tid \in {bh[b].trans, bh[b].next}}
CreditsOf(h) == {x \in Task \X (1 .. MaxBuffers) : h[x[1]].pc \in Open /\ x[2] <= h[x[1]].credits}
Tokens == CreditsOf(handle)
Logged == {b \in Block : bh[b].trans = committing.tid /\ bh[b].jlist = "Metadata"}
\* The buffers of the running transaction and the credits still held are covered by its outstanding
\* credits, which stay within a transaction's limit; and the committing one logs no more than it was
\* granted.
CreditInv ==
  /\ Cardinality(Mine) + Cardinality(Tokens) <= running.credits /\ running.credits <= MaxBuffers
  /\ \A p \in Task : handle[p].credits <= MaxBuffers /\ handle[p].need <= 2 * MaxBuffers
  /\ committing.credits <= MaxBuffers
  /\ kjournald = "flush" => Cardinality(Logged) <= committing.credits

\* How far a log block lies beyond the tail.
Dist(x) == (x - j.tail) % LogLen
\* The log as a ring: the head lies as far beyond the tail as blocks are in use, and the transactions
\* on it start between the two in the order of their ids.
RingInv ==
  /\ j.free \in 1 .. LogLen /\ j.head = Wrap(j.tail, LogLen - j.free)
  /\ committing.tid # 0 => committing.log_start \in 1 .. LogLen /\ Dist(committing.log_start) <= LogLen - j.free
  /\ \A t \in cplist :
       /\ Dist(t.log_start) <= LogLen - j.free
       /\ committing.tid # 0 => t.tid < committing.tid /\ Dist(t.log_start) <= Dist(committing.log_start)
       /\ t.tid <= j.commit_sequence
       /\ \A u \in cplist : t.tid < u.tid => Dist(t.log_start) <= Dist(u.log_start)
       /\ \A u \in cplist : t.tid = u.tid => t = u
\* The id of the running transaction, or of the next one to start.
NextTid == IF running.tid # 0 THEN running.tid ELSE j.transaction_sequence
\* The tail has not passed the oldest transaction that recovery needs, and a log with none is all free.
TailInv ==
  /\ j.tail_sequence <= FirstTid
  /\ j.tail_sequence = NextTid => j.free = LogLen
\* A transaction on the checkpoint list has a buffer to write back.
CpInv == \A t \in cplist : \E b \in Block : bh[b].cp = t.tid

\* The tasks that wait for log space.
Waiters == {p \in Task : handle[p].pc \in {"space", "scan"}}
\* The log blocks that the commit of a transaction with these credits may take: one for a transaction
\* that logs nothing, else the blocks, a descriptor and the commit record.
Cost(credits) == IF credits = 0 THEN 1 ELSE credits + 2
\* Somebody has been let into the running transaction.
Granted == running.credits > 0 \/ running.updates > 0 \/ revoke # {}
\* The log blocks that the commit under way and the running transaction may still take.
NeedC == CASE kjournald = "flush" -> Cost(committing.credits) [] kjournald = "iobuf" -> 1 [] OTHER -> 0
NeedR == IF running.tid = 0 THEN 0 ELSE Cost(running.credits) + (IF running.updates > 0 \/ revoke # {} THEN 1 ELSE 0)
\* One block for every task that may yet start a transaction, fail to get its space and leave the
\* transaction empty.
Slack == Cardinality(Task) - (IF Granted THEN 0 ELSE Cardinality(Waiters))
\* The space invariant: one block more than every commit that is due can take is free, and a task that
\* waits for space wants at least a transaction's worth.
SpaceInv ==
  /\ j.free >= 1 + NeedC + NeedR + Slack
  /\ \A p \in Waiters : MaxBuffers <= handle[p].need

\* The commit record is written alone, after everything else of its transaction, and once it is on the
\* disk the transaction is the last stable one.
RecordInv ==
  /\ \A w \in logio : w.blk.type = "commit" <=> kjournald = "record"
  /\ kjournald \in {"flush", "iobuf", "record"} => pending.tid = committing.tid
  /\ kjournald = "record" /\ logio = {} => stable.tid = committing.tid
\* A transaction t that a task waits for is stable, committing or running, and no later than the
\* running one.
Due(t, R, C, ts, st) ==
  /\ t # 0 /\ t < ts
  /\ R # 0 => t <= R
  /\ C # 0 => t <= C \/ t = R
  /\ t <= st \/ t = R \/ t = C
\* That is so of every task in log_wait_commit().
DueInv ==
  \A p \in Task : handle[p].pc \in {"wait", "fwait"} =>
    Due(handle[p].tid, running.tid, committing.tid, j.transaction_sequence, stable.tid)


\* The inductive invariant.
IInv == Types /\ Down /\ TidInv /\ StageInv /\ HandleInv /\ BufInv /\ ShadowInv /\ CreditInv
        /\ RingInv /\ TailInv /\ CpInv /\ SpaceInv /\ RecordInv /\ DueInv

-----------------------------------------------------------------------------
(* Buffers. *)

\* do_get_write_access() by the running transaction keeps a buffer consistent and makes it the
\* transaction's.
LEMMA AccessOK ==
  ASSUME NEW r, Buffer(r), NEW u, NEW f \in Nat, NEW R \in Nat, NEW C \in Nat, NEW k, NEW cs \in Nat,
         BufOK(r, u, f, R, C, k, cs), R # 0, C # R, u = "meta"
  PROVE  LET q == GetWriteAccess(r, R)
         IN  Buffer(q) /\ BufOK(q, u, f, R, C, k, cs) /\ R \in {q.trans, q.next} /\ q.cp = r.cp
  BY Zenon DEF Buffer, Fields, BufOK, GetWriteAccess, File, Lists

\* A block that is allocated again keeps its buffer consistent when the transaction that freed it is
\* gone.
LEMMA ReuseOK ==
  ASSUME NEW r, NEW R \in Nat, NEW C \in Nat, NEW k, NEW cs \in Nat, NEW u \in {"meta", "data"},
         BufOK(r, "free", 0, R, C, k, cs)
  PROVE  BufOK(r, u, 0, R, C, k, cs)
  BY DEF BufOK

\* journal_dirty_metadata() keeps a buffer of the running transaction consistent.
LEMMA DirtyOK ==
  ASSUME NEW r, Buffer(r), NEW u, NEW f \in Nat, NEW R \in Nat, NEW C \in Nat, NEW k, NEW cs \in Nat,
         BufOK(r, u, f, R, C, k, cs), R # 0, C # R, u = "meta", R \in {r.trans, r.next}, NEW v
  PROVE  LET q == DirtyMetadata(r, R, v)
         IN  Buffer(q) /\ BufOK(q, u, f, R, C, k, cs) /\ R \in {q.trans, q.next} /\ q.cp = r.cp
  BY Zenon DEF Buffer, Fields, BufOK, DirtyMetadata, File, Lists

\* journal_forget() keeps the buffer of a block that the running transaction frees consistent.
LEMMA ForgetOK ==
  ASSUME NEW r, Buffer(r), NEW f \in Nat, NEW R \in Nat, NEW C \in Nat, NEW k, NEW cs \in Nat,
         BufOK(r, "meta", f, R, C, k, cs), R # 0, C # R
  PROVE  LET q == Forget(r, R)
         IN  Buffer(q) /\ BufOK(q, "free", R, R, C, k, cs) /\ q.cp = r.cp
  <1> USE Zenon
  <1>1. CASE r.trans = R
    <2> DEFINE e == [r EXCEPT !.dirty = FALSE, !.jdirty = FALSE]
               d == [Unfile(e) EXCEPT !.trans = 0]
    <2>1. Buffer(e) /\ e.next = 0 /\ e.frozen = 0 /\ e.cp = r.cp /\ ~e.dirty /\ ~e.jdirty /\ e.jlist = r.jlist
      BY <1>1 DEF Buffer, Fields, BufOK
    <2> HIDE DEF e
    <2>2. Buffer(d) /\ d.trans = 0 /\ d.next = 0 /\ d.jlist = "None" /\ d.frozen = 0 /\ d.cp = r.cp /\ ~d.dirty /\ ~d.jdirty
      BY <2>1 DEF Buffer, Fields, Unfile, Lists
    <2>3. Forget(r, R) = IF r.cp # 0 THEN File(d, R, "Forget") ELSE d
      BY <1>1 DEF Forget, e
    <2> HIDE DEF d
    <2>4. r.cp <= cs
      BY DEF BufOK
    <2>5. CASE r.cp = 0
      BY <2>2, <2>3, <2>4, <2>5 DEF BufOK
    <2>6. CASE r.cp # 0
      BY <2>2, <2>3, <2>4, <2>6 DEF BufOK, File, Buffer, Fields, Lists
    <2> QED BY <2>5, <2>6
  <1>2. CASE r.trans # R
    BY <1>2 DEF Buffer, Fields, BufOK, Forget
  <1> QED BY <1>1, <1>2

\* Dropping a written-back buffer from its checkpoint list keeps it consistent.
LEMMA CleanOK ==
  ASSUME NEW r, Buffer(r), NEW u, NEW f \in Nat, NEW R \in Nat, NEW C \in Nat, NEW k, NEW cs \in Nat,
         BufOK(r, u, f, R, C, k, cs)
  PROVE  LET q == CleanCheckpoint(r)
         IN  Buffer(q) /\ BufOK(q, u, f, R, C, k, cs) /\ q.trans = r.trans /\ q.next = r.next /\ q.jlist = r.jlist
  BY DEF Buffer, Fields, BufOK, CleanCheckpoint, Lists

\* Taking a buffer off its transaction keeps it consistent.
LEMMA UnfileOK ==
  ASSUME NEW r, Buffer(r), NEW u, NEW f \in Nat, NEW R \in Nat, NEW C \in Nat, NEW k, NEW cs \in Nat,
         r.next = 0, r.frozen = 0, r.cp <= cs
  PROVE  LET q == [Unfile(r) EXCEPT !.trans = 0]
         IN  /\ Buffer(q) /\ q.trans = 0 /\ q.next = 0 /\ q.jlist = "None"
             /\ (r.jlist = "None" => ~r.jdirty) => BufOK(q, u, f, R, C, k, cs)
  BY Zenon DEF Buffer, Fields, BufOK, Unfile, Lists

\* When the running transaction starts to commit, its reserved buffers are refiled and the others become
\* the committing transaction's.
LEMMA SwitchOK ==
  ASSUME NEW r, Buffer(r), NEW u, NEW f \in Nat, NEW R \in Nat, NEW k, NEW cs \in Nat,
         BufOK(r, u, f, R, 0, k, cs), R # 0
  PROVE  LET q == CleanCheckpoint(IF r.trans = R /\ r.jlist = "Reserved" THEN Refile(r) ELSE r)
         IN  /\ Buffer(q) /\ BufOK(q, u, f, 0, R, "flush", cs)
             /\ q.trans = R => r.trans = R
  <1> DEFINE m == IF r.trans = R /\ r.jlist = "Reserved" THEN Refile(r) ELSE r
  <1>1. Buffer(m) /\ BufOK(m, u, f, 0, R, "flush", cs) /\ (m.trans = R => r.trans = R)
    <2>0. r.next = 0 /\ r.frozen = 0 /\ r.cp <= cs
      BY DEF BufOK
    <2>1. CASE r.trans = R /\ r.jlist = "Reserved"
      <3>1. m = [Unfile(r) EXCEPT !.trans = 0]
        BY <2>0, <2>1 DEF Refile
      <3> HIDE DEF m
      <3> QED BY <2>0, <2>1, <3>1, UnfileOK
    <2>2. CASE ~(r.trans = R /\ r.jlist = "Reserved")
      <3>1. m = r
        BY <2>2
      <3> HIDE DEF m
      <3> QED BY <2>2, <3>1 DEF BufOK
    <2> QED BY <2>1, <2>2
  <1> HIDE DEF m
  <1>2. Buffer(CleanCheckpoint(m)) /\ BufOK(CleanCheckpoint(m), u, f, 0, R, "flush", cs)
        /\ CleanCheckpoint(m).trans = m.trans
    BY <1>1, CleanOK
  <1> QED BY <1>1, <1>2 DEF m

\* The end of a commit moves each forgotten buffer to a checkpoint list or to the running transaction,
\* and leaves no buffer to the transaction that committed.
LEMMA FinishOK ==
  ASSUME NEW r, Buffer(r), NEW u, NEW f \in Nat, NEW R \in Nat, NEW C \in Nat, NEW cs \in Nat,
         BufOK(r, u, f, R, C, "record", cs), C # 0, C # R, cs < C
  PROVE  LET q == IF r.trans = C /\ r.jlist = "Forget" THEN Checkpointed(r, C) ELSE r
         IN  /\ Buffer(q) /\ BufOK(q, u, IF f = C THEN 0 ELSE f, R, 0, "sleep", C)
             /\ R # 0 /\ R \in {r.trans, r.next} <=> R # 0 /\ R \in {q.trans, q.next}
  <1>1. CASE r.trans # C
    <2> DEFINE g == IF f = C THEN 0 ELSE f
    <2>1. r.trans \in {0, R}
      BY <1>1 DEF BufOK
    <2>2. r.jlist = "Forget" /\ ~r.jdirty => g = r.trans
      BY <2>1 DEF BufOK
    <2>3. r.trans # 0 /\ r.jlist # "Forget" /\ u # "meta" => FALSE
      BY <1>1, <2>1 DEF BufOK
    <2> HIDE DEF g
    <2>4. BufOK(r, u, g, R, 0, "sleep", C)
      BY <1>1, <2>1, <2>2, <2>3 DEF BufOK, Buffer
    <2> QED BY <1>1, <2>4 DEF g
  <1>2. CASE r.trans = C
    <2> DEFINE c == [r EXCEPT !.frozen = 0, !.cp = 0]
               g == IF f = C THEN 0 ELSE f
    <2>1. r.jlist = "Forget"
      BY <1>2 DEF Buffer, Fields, Lists, BufOK
    <2>2. CASE ~r.jdirty
      <3>1. Checkpointed(r, C) = [Unfile(c) EXCEPT !.trans = 0]
        BY <2>2 DEF Checkpointed
      <3>2. r.next = 0
        BY <2>1, <2>2 DEF BufOK
      <3>3. Buffer(c)
        BY Zenon DEF Buffer, Fields
      <3>4. c.next = 0 /\ c.frozen = 0 /\ c.cp = 0 /\ c.jlist = "Forget"
        BY <2>1, <3>2 DEF Buffer, Fields
      <3>5. g \in Nat /\ 0 <= C
        OBVIOUS
      <3> HIDE DEF g, c
      <3>6. /\ Buffer(Checkpointed(r, C)) /\ BufOK(Checkpointed(r, C), u, g, R, 0, "sleep", C)
            /\ Checkpointed(r, C).trans = 0 /\ Checkpointed(r, C).next = 0
        BY <3>1, <3>3, <3>4, <3>5, UnfileOK
      <3> QED BY <1>2, <2>1, <3>2, <3>6 DEF g
    <2>3. CASE r.jdirty /\ r.next = 0
      <3> DEFINE d == [c EXCEPT !.cp = C]
      <3>1. d.next = 0 /\ d.frozen = 0 /\ d.cp = C /\ d.jlist = "Forget"
        BY <2>1, <2>3 DEF Buffer, Fields
      <3>2. Checkpointed(r, C) = Refile(d)
        BY <2>3, Zenon DEF Checkpointed
      <3>3. Buffer(d)
        BY Zenon DEF Buffer, Fields
      <3>5. g \in Nat /\ C <= C
        OBVIOUS
      <3> HIDE DEF d, g
      <3>4. Refile(d) = [Unfile(d) EXCEPT !.trans = 0]
        BY <3>1, Zenon DEF Refile
      <3>6. /\ Buffer(Checkpointed(r, C)) /\ BufOK(Checkpointed(r, C), u, g, R, 0, "sleep", C)
            /\ Checkpointed(r, C).trans = 0 /\ Checkpointed(r, C).next = 0
        BY <3>1, <3>2, <3>3, <3>4, <3>5, UnfileOK
      <3> QED BY <1>2, <2>1, <2>3, <3>6 DEF g
    <2>4. CASE r.jdirty /\ r.next # 0
      <3> DEFINE d == [c EXCEPT !.cp = C]
                 q == Checkpointed(r, C)
      <3>1. /\ r.next = R /\ u = "meta" /\ R # 0
        BY <2>4 DEF BufOK
      <3>2. d.next = R /\ d.frozen = 0 /\ d.cp = C /\ d.jdirty
        BY <2>4, <3>1 DEF Buffer, Fields
      <3>3. q = Refile(d)
        BY <2>4, Zenon DEF Checkpointed
      <3>4. Buffer(d)
        BY Zenon DEF Buffer, Fields
      <3> HIDE DEF d, q
      <3>5. q = File([d EXCEPT !.jlist = "None", !.trans = R, !.next = 0], R, "Metadata")
        BY <3>1, <3>2, <3>3, Zenon DEF Refile
      <3> DEFINE e == [d EXCEPT !.jlist = "None", !.trans = R, !.next = 0]
      <3>6. Buffer(e)
        BY <3>4, Zenon DEF Buffer, Fields, Lists
      <3>7. e.jlist = "None" /\ e.trans = R /\ e.next = 0 /\ e.frozen = 0 /\ e.cp = C /\ e.jdirty
        BY <3>2, <3>4 DEF Buffer, Fields
      <3> HIDE DEF e
      <3>8. q = [e EXCEPT !.trans = R, !.jlist = "Metadata", !.jdirty = e.jdirty \/ e.dirty, !.dirty = FALSE]
        BY <3>5, <3>7 DEF File, e
      <3>9. Buffer(q)
        BY <3>6, <3>8, Zenon DEF Buffer, Fields, Lists
      <3>10. q.jlist = "Metadata" /\ q.trans = R /\ q.next = 0 /\ q.frozen = 0 /\ q.cp = C /\ q.jdirty /\ ~q.dirty
        BY <3>6, <3>7, <3>8 DEF Buffer, Fields
      <3>11. BufOK(q, u, g, R, 0, "sleep", C)
        BY <3>1, <3>10 DEF BufOK
      <3> QED BY <1>2, <2>1, <3>1, <3>9, <3>10, <3>11 DEF q
    <2> QED BY <2>2, <2>3, <2>4
  <1> QED BY <1>1, <1>2

\* A shadowed buffer whose copy is in the log goes to the forget list.
LEMMA LoggedOK ==
  ASSUME NEW r, Buffer(r), NEW u, NEW f \in Nat, NEW R \in Nat, NEW C \in Nat, NEW cs \in Nat,
         BufOK(r, u, f, R, C, "iobuf", cs), C # 0, r.trans = C
  PROVE  LET q == File(r, C, "Forget")
         IN  Buffer(q) /\ BufOK(q, u, f, R, C, "iobuf", cs) /\ q.trans = C /\ q.next = r.next /\ q.cp = r.cp
             /\ q.jlist = "Forget"
  BY Zenon DEF Buffer, Fields, BufOK, File, Lists

-----------------------------------------------------------------------------
(* What a step leaves alone. *)

\* What the operations on handles leave alone.
LEMMA HandlesKeep ==
  ASSUME NEW p \in Task, Handles(p)
  PROVE  UNCHANGED <<committing, kjournald, mode, cplist, logio, stable, pending, sb, info>>
  <1> USE Zenon
  <1>1. CASE start_this_handle(p)
    BY <1>1 DEF start_this_handle, device, fs, buffers, history
  <1>2. CASE unused_access(p)
    BY <1>2 DEF unused_access, device, fs, buffers, history
  <1>3. CASE journal_dirty_metadata(p)
    BY <1>3 DEF journal_dirty_metadata, device, fs, buffers, history
  <1>4. CASE dirty_data_written(p)
    BY <1>4 DEF dirty_data_written, device, fs, buffers, history
  <1>5. CASE journal_stop(p)
    BY <1>5 DEF journal_stop, device, fs, buffers, history
  <1>6. CASE log_wait_commit(p)
    BY <1>6 DEF log_wait_commit, device, fs, buffers, history
  <1>7. CASE journal_flush(p)
    BY <1>7 DEF journal_flush, device, fs, buffers, history
  <1>8. ASSUME NEW b \in Block, journal_get_write_access(p, b)
        PROVE  UNCHANGED <<committing, kjournald, mode, cplist, logio, stable, pending, sb, info>>
    BY <1>8 DEF journal_get_write_access, device, fs, buffers, history
  <1>9. ASSUME NEW b \in Block, journal_get_create_access(p, b)
        PROVE  UNCHANGED <<committing, kjournald, mode, cplist, logio, stable, pending, sb, info>>
    BY <1>9 DEF journal_get_create_access, device, fs, buffers, history
  <1>10. ASSUME NEW b \in Block, journal_revoke(p, b)
        PROVE  UNCHANGED <<committing, kjournald, mode, cplist, logio, stable, pending, sb, info>>
    BY <1>10 DEF journal_revoke, device, fs, buffers, history
  <1>11. ASSUME NEW b \in Block, journal_dirty_data(p, b)
        PROVE  UNCHANGED <<committing, kjournald, mode, cplist, logio, stable, pending, sb, info>>
    BY <1>11 DEF journal_dirty_data, device, fs, buffers, history
  <1> QED BY <1>1, <1>2, <1>3, <1>4, <1>5, <1>6, <1>7, <1>8, <1>9, <1>10, <1>11 DEF Handles

\* What the checkpointer leaves alone.
LEMMA CheckpointKeep ==
  ASSUME NEW p \in Task, Checkpoint(p)
  PROVE  UNCHANGED <<running, committing, kjournald, mode, revoke, use, freed, logio, stable, pending, info>>
  <1> USE Zenon
  <1>1. CASE log_wait_for_space(p)
    BY <1>1 DEF log_wait_for_space, device, fs, buffers, history
  <1>2. CASE flush_buffers(p)
    BY <1>2 DEF flush_buffers, device, fs, buffers, history
  <1>3. CASE cleanup_transaction(p)
    BY <1>3 DEF cleanup_transaction, device, fs, buffers, history
  <1>4. CASE checkpoint_done(p)
    BY <1>4 DEF checkpoint_done, device, fs, buffers, history
  <1>5. CASE journal_flush_log(p)
    BY <1>5 DEF journal_flush_log, device, fs, buffers, history
  <1> QED BY <1>1, <1>2, <1>3, <1>4, <1>5 DEF Checkpoint

\* What kjournald leaves alone.
LEMMA CommitKeep ==
  ASSUME commit_timeout \/ Commit
  PROVE  UNCHANGED <<handle, mode, use, stable, info>>
  <1> USE Zenon
  <1>1. CASE commit_timeout
    BY <1>1 DEF commit_timeout, device, fs, buffers, history
  <1>2. CASE commit_lock
    BY <1>2 DEF commit_lock, device, fs, buffers, history
  <1>3. CASE commit_switch
    BY <1>3 DEF commit_switch, device, fs, buffers, history
  <1>4. CASE write_out_data
    BY <1>4 DEF write_out_data, device, fs, buffers, history
  <1>5. CASE commit_metadata
    BY <1>5 DEF commit_metadata, device, fs, buffers, history
  <1>6. CASE wait_for_iobuf
    BY <1>6 DEF wait_for_iobuf, device, fs, buffers, history
  <1>7. CASE commit_record
    BY <1>7 DEF commit_record, device, fs, buffers, history
  <1>8. CASE commit_finish
    BY <1>8 DEF commit_finish, device, fs, buffers, history
  <1> QED BY <1>1, <1>2, <1>3, <1>4, <1>5, <1>6, <1>7, <1>8 DEF Commit

\* What the completion of a write and the write-back of a buffer leave alone.
LEMMA IoKeep ==
  ASSUME \/ IoDone \/ \E b \in Block : write_back(b)
  PROVE  UNCHANGED <<j, running, committing, cplist, revoke, use, freed, handle, kjournald, mode, info,
                     pending, sb>>
  BY Zenon DEF IoDone, home_written, log_written, write_back, device, fs, buffers, history

\* What a mount leaves alone.
LEMMA MountKeep ==
  ASSUME Mount
  PROVE  UNCHANGED <<running, committing, cplist, revoke, use, freed, handle, kjournald, logio>>
  BY Zenon DEF Mount, journal_recover, do_one_pass, journal_reset, device, fs, buffers, history


-----------------------------------------------------------------------------
(* Transaction ids. *)

\* A step moves the transaction ids in one of five ways: a commit may be requested (Asked), the next
\* transaction starts (Started), the running one becomes the committing one (Switched), the committing one
\* is committed (Finished), or the ids begin anew (Rebooted).
Rest == UNCHANGED <<j.transaction_sequence, j.commit_sequence>>
Settled == UNCHANGED <<running.tid, committing.tid>>
Asked ==
  /\ Rest /\ Settled
  /\ \E t \in {0, running.tid, committing.tid} :
       j'.commit_request = IF j.commit_request >= t THEN j.commit_request ELSE t
Started ==
  /\ running.tid = 0 /\ running'.tid = j.transaction_sequence
  /\ j'.transaction_sequence = j.transaction_sequence + 1
  /\ UNCHANGED <<committing.tid, j.commit_sequence, j.commit_request>>
Switched ==
  /\ running.tid # 0 /\ committing.tid = 0 /\ j.commit_request = running.tid
  /\ running'.tid = 0 /\ committing'.tid = running.tid
  /\ Rest /\ UNCHANGED j.commit_request
Finished ==
  /\ committing.tid # 0 /\ committing'.tid = 0 /\ j'.commit_sequence = committing.tid
  /\ UNCHANGED <<running.tid, j.transaction_sequence, j.commit_request>>
Rebooted ==
  /\ running'.tid = 0 /\ committing'.tid = 0
  /\ \E seq \in Nat \ {0} : /\ j'.transaction_sequence = seq
                            /\ j'.commit_sequence = seq - 1 /\ j'.commit_request = seq - 1
TidStep == Asked \/ Started \/ Switched \/ Finished \/ Rebooted

\* The types of the ids.
TidType ==
  /\ running.tid \in Nat /\ committing.tid \in Nat
  /\ j.transaction_sequence \in Nat /\ j.commit_sequence \in Nat /\ j.commit_request \in Nat
\* The ids have these types.
LEMMA TidTypes ==
  RunType /\ CommitType /\ JType => TidType
  BY DEF RunType, CommitType, JType, JSet, TidType

\* Each of the five ways keeps the order of the ids.
LEMMA TidKept ==
  ASSUME TidType, TidInv, TidStep, TidType'
  PROVE  TidInv'
  <1>1. CASE Asked
    <2>1. PICK t \in {0, running.tid, committing.tid} :
            j'.commit_request = IF j.commit_request >= t THEN j.commit_request ELSE t
      BY <1>1 DEF Asked
    <2> QED BY <1>1, <2>1 DEF TidType, TidInv, Asked, Rest, Settled
  <1>2. CASE Started
    BY <1>2 DEF TidType, TidInv, Started
  <1>3. CASE Switched
    BY <1>3 DEF TidType, TidInv, Switched, Rest
  <1>4. CASE Finished
    BY <1>4 DEF TidType, TidInv, Finished
  <1>5. CASE Rebooted
    BY <1>5 DEF TidType, TidInv, Rebooted
  <1> QED BY <1>1, <1>2, <1>3, <1>4, <1>5 DEF TidStep

\* start_this_handle joins the running transaction or a new one.
LEMMA StartIs ==
  ASSUME RunType, JType, HandleType, NEW p \in Task, start_this_handle(p)
  PROVE  /\ mode = "mounted" /\ handle[p].pc = "idle" /\ ~Barrier /\ ~running.locked
         /\ \/ /\ running.tid # 0 /\ running' = running /\ j' = Request(j, running.tid) /\ UNCHANGED handle
            \/ /\ \/ running.tid # 0 /\ j' = j
                  \/ running.tid = 0 /\ j' = [j EXCEPT !.transaction_sequence = @ + 1]
               /\ running'.tid = IF running.tid = 0 THEN j.transaction_sequence ELSE running.tid
               /\ running'.locked = FALSE
               /\ \/ /\ log_space_left < space_needed
                     /\ running'.credits = (IF running.tid = 0 THEN 0 ELSE running.credits)
                     /\ running'.updates = (IF running.tid = 0 THEN 0 ELSE running.updates)
                     /\ handle' = [handle EXCEPT ![p].pc = "space", ![p].need = space_needed]
                  \/ /\ log_space_left >= space_needed
                     /\ running'.credits = (IF running.tid = 0 THEN 0 ELSE running.credits) + Credits
                     /\ running'.updates = (IF running.tid = 0 THEN 0 ELSE running.updates) + 1
                     /\ running'.credits <= MaxBuffers
                     /\ handle' = [handle EXCEPT ![p] = [NoHandle EXCEPT
                             !.pc = "open", !.tid = running'.tid, !.credits = Credits]]
         /\ RunType'
  <1> DEFINE t == IF running.tid = 0 THEN [NoTrans EXCEPT !.tid = j.transaction_sequence] ELSE running
             jr == IF running.tid = 0 THEN [j EXCEPT !.transaction_sequence = @ + 1] ELSE j
             A == /\ t.credits + Credits > MaxBuffers
                  /\ running' = t /\ j' = Request(jr, t.tid) /\ UNCHANGED handle
             B == /\ log_space_left < space_needed /\ running' = t /\ j' = jr
                  /\ handle' = [handle EXCEPT ![p].pc = "space", ![p].need = space_needed]
             D == /\ t.credits + Credits <= MaxBuffers /\ log_space_left >= space_needed
                  /\ running' = [t EXCEPT !.credits = @ + Credits, !.updates = @ + 1] /\ j' = jr
                  /\ handle' = [handle EXCEPT ![p] = [NoHandle EXCEPT
                                  !.pc = "open", !.tid = t.tid, !.credits = Credits]]
  <1>1. /\ mode = "mounted" /\ handle[p].pc = "idle" /\ ~Barrier /\ ~running.locked
        /\ A \/ B \/ D
    BY Zenon DEF start_this_handle, At
  <1>2. /\ t \in [tid : Nat, locked : BOOLEAN, updates : Nat, credits : Nat] /\ t.locked = FALSE
        /\ t.tid = (IF running.tid = 0 THEN j.transaction_sequence ELSE running.tid)
        /\ t.credits = (IF running.tid = 0 THEN 0 ELSE running.credits)
        /\ t.updates = (IF running.tid = 0 THEN 0 ELSE running.updates)
    BY <1>1, Zenon DEF NoTrans, RunType, JType, JSet
  <1>3. \/ running.tid # 0 /\ jr = j
        \/ running.tid = 0 /\ jr = [j EXCEPT !.transaction_sequence = @ + 1]
    OBVIOUS
  <1>4. running.tid # 0 => t = running
    OBVIOUS
  <1> HIDE DEF t, jr
  <1>5. CASE A
    <2>1. running.tid # 0
      BY <1>2, <1>5, JournalAssumption
    <2>2. running' = running /\ j' = Request(j, running.tid) /\ UNCHANGED handle
      BY <1>3, <1>4, <1>5, <2>1
    <2>3. RunType'
      BY <2>2, Zenon DEF RunType
    <2> QED BY <1>1, <2>1, <2>2, <2>3, Zenon
  <1>6. CASE B
    BY <1>1, <1>2, <1>3, <1>6, Zenon DEF RunType
  <1>7. CASE D
    <2>1. /\ running' \in [tid : Nat, locked : BOOLEAN, updates : Nat, credits : Nat]
          /\ running'.tid = t.tid /\ running'.locked = t.locked
          /\ running'.credits = t.credits + Credits /\ running'.updates = t.updates + 1
          /\ running'.credits <= MaxBuffers
      <3>1. Credits \in Nat /\ t.credits \in Nat /\ t.updates \in Nat
        BY <1>2, JournalAssumption
      <3>2. PICK c \in Nat, n \in Nat : c = t.credits + Credits /\ n = t.updates + 1
        BY <3>1
      <3>3. running' = [t EXCEPT !.credits = c, !.updates = n]
        BY <1>7, <3>2
      <3>4. c <= MaxBuffers
        BY <1>7, <3>2
      <3> QED BY <1>2, <3>2, <3>3, <3>4, Zenon
    <2> QED BY <1>1, <1>2, <1>3, <1>7, <2>1, Zenon DEF RunType
  <1> QED BY <1>1, <1>5, <1>6, <1>7, Zenon

\* log_start_commit changes nothing but the request.
LEMMA RequestIs ==
  ASSUME NEW q \in JSet, NEW t \in Nat
  PROVE  LET z == Request(q, t)
         IN  /\ z \in JSet
             /\ z.commit_request = IF q.commit_request >= t THEN q.commit_request ELSE t
             /\ z.head = q.head /\ z.tail = q.tail /\ z.free = q.free /\ z.tail_sequence = q.tail_sequence
             /\ z.transaction_sequence = q.transaction_sequence /\ z.commit_sequence = q.commit_sequence
             /\ z.flushed = q.flushed
  BY Zenon DEF Request, JSet

\* journal_next_log_block takes blocks at the head.
LEMMA NextBlockIs ==
  ASSUME JType, NEW n \in Nat
  PROVE  LET z == journal_next_log_block(n)
         IN  /\ z \in JSet /\ z.head = Wrap(j.head, n) /\ z.free = j.free - n
             /\ z.tail = j.tail /\ z.tail_sequence = j.tail_sequence
             /\ z.transaction_sequence = j.transaction_sequence /\ z.commit_sequence = j.commit_sequence
             /\ z.commit_request = j.commit_request /\ z.flushed = j.flushed
  <1>1. Wrap(j.head, n) \in 1 .. LogLen
    <2>1. PICK h \in Int, l \in Nat \ {0} : h = j.head /\ l = LogLen
      BY JournalAssumption DEF JType, JSet
    <2>2. ((h - 1 + n) % l) \in 0 .. l - 1
      OBVIOUS
    <2> QED BY <2>1, <2>2 DEF Wrap
  <1>2. j.free - n \in Int
    BY DEF JType, JSet
  <1> QED BY <1>1, <1>2, Zenon DEF journal_next_log_block, JType, JSet

-----------------------------------------------------------------------------
(* Numbers. *)

\* A set of numbers that is not empty has a least one.
LEMMA LeastNumber ==
  ASSUME NEW N \in SUBSET Nat, N # {}
  PROVE  \E k \in N : \A m \in N : k <= m
  <1> DEFINE T == {1 .. k : k \in N}
             R == StrictSubsetOrdering(Nat)
             S == FiniteSubsetsOf(Nat)
  <1>1. T \subseteq S /\ T # {}
    <2>1. ASSUME NEW k \in N PROVE 1 .. k \in S
      BY FS_Interval DEF FiniteSubsetsOf
    <2> QED BY <2>1, Zenon
  <1>2. IsWellFoundedOn(R, S)
    BY FS_StrictSubsetOrderingWellFounded
  <1> HIDE DEF R, S, T
  <1>3. PICK x \in T : \A y \in T : ~ (<<y, x>> \in R)
    BY <1>1, <1>2, WFMin
  <1>4. PICK k \in N : x = 1 .. k
    BY DEF T
  <1>5. ASSUME NEW m \in N, ~(k <= m) PROVE FALSE
    <2>1. 1 .. m \in T
      BY DEF T
    <2>2. 1 .. m \subseteq 1 .. k /\ k \in 1 .. k /\ k \notin 1 .. m
      BY <1>5
    <2>3. <<1 .. m, 1 .. k>> \in R
      BY <2>2 DEF R, StrictSubsetOrdering
    <2> QED BY <1>3, <1>4, <2>1, <2>3
  <1> QED BY <1>5

\* A remainder.
LEMMA ModIs ==
  ASSUME NEW L \in Nat \ {0}, NEW m \in 0 .. L - 1
  PROVE  m % L = m /\ (m - L) % L = m /\ (m + L) % L = m
  <1>1. \A a \in Int : a = L * (a \div L) + (a % L) /\ a \div L \in Int /\ a % L \in 0 .. L - 1
    OBVIOUS
  <1>2. ASSUME NEW a \in Int, NEW q \in Int, a = L * q + m PROVE a % L = m
    <2>1. a = L * (a \div L) + (a % L) /\ a \div L \in Int /\ a % L \in 0 .. L - 1
      BY <1>1
    <2> DEFINE k == (a \div L) - q
    <2>2. L * k = m - (a % L) /\ k \in Int
      BY <1>2, <2>1
    <2>3. -L < L * k /\ L * k < L
      BY <2>1, <2>2
    <2> HIDE DEF k
    <2>4. k = 0
      BY <2>2, <2>3
    <2> QED BY <2>1, <2>2, <2>4
  <1>3. m = L * 0 + m /\ m - L = L * (-1) + m /\ m + L = L * 1 + m
    OBVIOUS
  <1> QED BY <1>2, <1>3

\* The distance from t to x on the ring.
LEMMA DistanceIs ==
  ASSUME NEW t \in 1 .. LogLen, NEW x \in 1 .. LogLen
  PROVE  ((x - t) % LogLen) = IF x >= t THEN x - t ELSE (x - t) + LogLen
  <1>0. LogLen \in Nat \ {0}
    BY JournalAssumption
  <1>1. CASE x >= t
    <2>1. x - t \in 0 .. LogLen - 1
      BY <1>0, <1>1
    <2> QED BY <1>0, <1>1, <2>1, ModIs
  <1>2. CASE ~(x >= t)
    <2>1. (x - t) + LogLen \in 0 .. LogLen - 1 /\ ((x - t) + LogLen) - LogLen = x - t
      BY <1>0, <1>2
    <2> QED BY <1>0, <1>2, <2>1, ModIs
  <1> QED BY <1>1, <1>2

\* And the block n after t.
LEMMA WrapIs ==
  ASSUME NEW t \in 1 .. LogLen, NEW n \in 0 .. LogLen - 1
  PROVE  Wrap(t, n) = IF t + n <= LogLen THEN t + n ELSE (t + n) - LogLen
  <1>0. LogLen \in Nat \ {0}
    BY JournalAssumption
  <1> DEFINE m == t - 1 + n
  <1>1. CASE t + n <= LogLen
    <2>1. m \in 0 .. LogLen - 1
      BY <1>0, <1>1
    <2>2. m % LogLen = m
      BY <1>0, <2>1, ModIs
    <2> QED BY <1>0, <1>1, <2>2 DEF Wrap
  <1>2. CASE ~(t + n <= LogLen)
    <2>1. m - LogLen \in 0 .. LogLen - 1 /\ (m - LogLen) + LogLen = m
      BY <1>0, <1>2
    <2>2. m % LogLen = m - LogLen
      BY <1>0, <2>1, ModIs
    <2> QED BY <1>0, <1>2, <2>2 DEF Wrap
  <1> QED BY <1>1, <1>2

\* The oldest transaction with a checkpoint list.
LEMMA LeastTid ==
  ASSUME NEW S \in SUBSET [tid : Nat, log_start : 1 .. LogLen], S # {}
  PROVE  \E t \in S : \A u \in S : t.tid <= u.tid
  <1> DEFINE N == {t.tid : t \in S}
  <1>1. N \in SUBSET Nat /\ N # {}
    OBVIOUS
  <1>2. PICK k \in N : \A m \in N : k <= m
    BY <1>1, LeastNumber
  <1>3. PICK t \in S : t.tid = k
    OBVIOUS
  <1> QED BY <1>2, <1>3
\* Oldest is a transaction of the checkpoint list with the least id.
LEMMA OldestIs ==
  ASSUME ListType, cplist # {}
  PROVE  Oldest \in cplist /\ \A u \in cplist : Oldest.tid <= u.tid
  BY LeastTid, Zenon DEF Oldest, ListType

\* cleanup_journal_tail moves the tail to the oldest transaction still needed, and
\* frees the blocks before it.
LEMMA TailIs ==
  ASSUME RunType, CommitType, JType, ListType,
         committing.tid # 0 => committing.log_start \in 1 .. LogLen
  PROVE  /\ FirstTid \in Nat /\ FirstBlock \in 1 .. LogLen
         /\ LET z == CleanedTail
            IN  /\ z \in JSet /\ z.head = j.head
                /\ z.transaction_sequence = j.transaction_sequence /\ z.commit_sequence = j.commit_sequence
                /\ z.commit_request = j.commit_request
                /\ \/ TailIsOldest /\ z = j
                   \/ /\ ~TailIsOldest /\ z.tail_sequence = FirstTid /\ z.tail = FirstBlock
                      /\ z.free = j.free + Dist(FirstBlock)
  <1>1. FirstTid \in Nat
    BY OldestIs, Zenon DEF FirstTid, ListType, CommitType, RunType, JType, JSet
  <1>2. FirstBlock \in 1 .. LogLen
    BY OldestIs, Zenon DEF FirstBlock, ListType, CommitType, RunType, JType, JSet
  <1>3. Dist(FirstBlock) \in Int
    <2>1. j.tail \in Int /\ LogLen \in Nat \ {0} /\ FirstBlock \in Int
      BY <1>2, JournalAssumption DEF JType, JSet
    <2> QED BY <2>1 DEF Dist
  <1>4. j.free + Dist(FirstBlock) \in Int
    BY <1>3 DEF JType, JSet
  <1>5. CASE TailIsOldest
    BY <1>1, <1>2, <1>5, Zenon DEF CleanedTail, JType, JSet
  <1>6. CASE ~TailIsOldest
    <2>1. CleanedTail = [j EXCEPT !.free = j.free + Dist(FirstBlock), !.tail = FirstBlock,
                                  !.tail_sequence = FirstTid, !.flushed = FALSE]
      BY <1>6, Zenon DEF CleanedTail, Dist
    <2> QED BY <1>1, <1>2, <1>4, <1>6, <2>1, Zenon DEF JType, JSet
  <1> QED BY <1>5, <1>6

-----------------------------------------------------------------------------
(* Credits: a handle's credits as a set, so that they can be added up. *)

\* The credits of every task but p, and those of p.
OtherTokens(h, p) ==
  {x \in Task \X (1 .. MaxBuffers) : x[1] # p /\ h[x[1]].pc \in Open /\ x[2] <= h[x[1]].credits}
OwnTokens(r) == IF r.pc \in Open THEN r.credits ELSE 0

\* The cardinality of an interval.
LEMMA UpTo ==
  ASSUME NEW n \in Nat
  PROVE  IsFiniteSet(1 .. n) /\ Cardinality(1 .. n) = n
  <1>1. 1 \in Int /\ n \in Int
    OBVIOUS
  <1>2. IsFiniteSet(1 .. n) /\ Cardinality(1 .. n) = IF 1 > n THEN 0 ELSE n - 1 + 1
    BY <1>1, FS_Interval
  <1> QED BY <1>2

\* The credits of the other tasks are finitely many.
LEMMA OtherFinite ==
  ASSUME NEW h, NEW p \in Task
  PROVE  IsFiniteSet(OtherTokens(h, p)) /\ Cardinality(OtherTokens(h, p)) \in Nat
  <1>1. IsFiniteSet(Task \X (1 .. MaxBuffers))
    <2>1. IsFiniteSet(Task) /\ IsFiniteSet(1 .. MaxBuffers)
      BY JournalAssumption, UpTo
    <2> QED BY <2>1, FS_Product, Zenon
  <1> QED BY <1>1, FS_Subset, FS_CardinalityType DEF OtherTokens

\* The credits of all open handles are those of the others and those of p.
LEMMA TokensAre ==
  ASSUME NEW h \in [Task -> HSet], NEW p \in Task, h[p].credits <= MaxBuffers
  PROVE  Cardinality(CreditsOf(h)) = Cardinality(OtherTokens(h, p)) + OwnTokens(h[p])
  <1> DEFINE T == CreditsOf(h)
             c == h[p].credits
             A == OtherTokens(h, p)
             B == {p} \X (1 .. c)
  <1>0. c \in Nat /\ MaxBuffers \in Nat
    BY JournalAssumption DEF HSet
  <1>1. IsFiniteSet(A) /\ Cardinality(A) \in Nat
    BY OtherFinite
  <1>2. IsFiniteSet(B) /\ Cardinality(B) = c
    <2>1. IsFiniteSet({p}) /\ Cardinality({p}) = 1
      BY FS_Singleton
    <2>2. IsFiniteSet(1 .. c) /\ Cardinality(1 .. c) = c
      BY <1>0, UpTo
    <2>3. IsFiniteSet(B) /\ Cardinality(B) = Cardinality({p}) * Cardinality(1 .. c)
      BY <2>1, <2>2, FS_Product, Zenon
    <2>4. 1 * c = c
      BY <1>0
    <2> QED BY <2>1, <2>2, <2>3, <2>4, Zenon
  <1>3. A \cap B = {}
    BY DEF OtherTokens
  <1>4. CASE h[p].pc \in Open
    <2>1. T = A \cup B
      <3>1. ASSUME NEW x \in T PROVE x \in A \cup B
        <4>1. x \in Task \X (1 .. MaxBuffers) /\ h[x[1]].pc \in Open /\ x[2] <= h[x[1]].credits
          BY DEF CreditsOf
        <4>2. CASE x[1] = p
          <5>1. x[2] \in 1 .. c /\ x = <<p, x[2]>>
            BY <1>0, <4>1, <4>2
          <5> QED BY <5>1
        <4>3. CASE x[1] # p
          BY <4>1, <4>3, Zenon DEF OtherTokens
        <4> QED BY <4>2, <4>3
      <3>2. ASSUME NEW x \in A PROVE x \in T
        BY Zenon DEF OtherTokens, CreditsOf
      <3>3. ASSUME NEW x \in B PROVE x \in T
        <4>1. PICK i \in 1 .. c : x = <<p, i>>
          OBVIOUS
        <4>2. i \in 1 .. MaxBuffers /\ i <= c
          BY <1>0
        <4>3. x[1] = p /\ x[2] = i /\ x \in Task \X (1 .. MaxBuffers)
          BY <4>1, <4>2
        <4> HIDE DEF c
        <4> QED BY <1>4, <4>2, <4>3 DEF CreditsOf, c
      <3> QED BY <3>1, <3>2, <3>3
    <2>2. Cardinality(T) = Cardinality(A) + Cardinality(B) - Cardinality(A \cap B)
      BY <1>1, <1>2, <2>1, FS_Union
    <2> HIDE DEF A, B
    <2>3. Cardinality(T) = Cardinality(A) + c
      BY <1>0, <1>1, <1>2, <1>3, <2>2, FS_EmptySet
    <2> QED BY <1>4, <2>3 DEF OwnTokens, A
  <1>5. CASE h[p].pc \notin Open
    <2>1. T = A
      BY <1>5, Zenon DEF CreditsOf, OtherTokens
    <2> QED BY <1>1, <1>5, <2>1 DEF OwnTokens
  <1> QED BY <1>4, <1>5

\* What a task may give back when it stops its handle.
LEMMA StopHas ==
  ASSUME RunType, HandleType, HandleInv, CreditInv, NEW p \in Task, handle[p].pc \in Open
  PROVE  running.updates - 1 \in Nat /\ running.credits - handle[p].credits \in Nat
  <1>1. IsFiniteSet(OpenTasks) /\ p \in OpenTasks
    BY JournalAssumption, FS_Subset DEF OpenTasks
  <1>2. Cardinality(OpenTasks) # 0 /\ Cardinality(OpenTasks) \in Nat
    BY <1>1, FS_EmptySet, FS_CardinalityType
  <1>3. Cardinality(Tokens) = Cardinality(OtherTokens(handle, p)) + handle[p].credits
    BY TokensAre DEF CreditInv, OwnTokens, Tokens, HandleType
  <1>4. Cardinality(Mine) \in Nat
    BY JournalAssumption, FS_Subset, FS_CardinalityType DEF Mine
  <1>5. running.updates = Cardinality(OpenTasks) /\ Cardinality(Mine) + Cardinality(Tokens) <= running.credits
    BY Zenon DEF HandleInv, CreditInv
  <1>6. running.credits \in Nat /\ handle[p].credits \in Nat /\ Cardinality(OtherTokens(handle, p)) \in Nat
    BY OtherFinite DEF RunType, HandleType, HSet
  <1> QED BY <1>2, <1>3, <1>4, <1>5, <1>6

-----------------------------------------------------------------------------
(* Every step is one of TidStep, and keeps the types of what it changes there. *)

\* The types that the steps on the ids need.
Kinds == RunType /\ CommitType /\ JType

\* A step that changes no id is one of the five.
LEMMA SameIds ==
  ASSUME Kinds, RunType', CommitType', UNCHANGED <<running.tid, committing.tid>>, j' \in JSet,
         UNCHANGED <<j.transaction_sequence, j.commit_sequence, j.commit_request>>
  PROVE  TidStep /\ Kinds'
  <1>1. j.commit_request >= 0
    BY DEF Kinds, JType, JSet
  <1>2. Asked
    BY <1>1, Zenon DEF Asked, Rest, Settled
  <1> QED BY <1>2, Zenon DEF TidStep, Kinds, JType, JSet

\* So is one that requests the commit of the running or the committing transaction.
LEMMA AskedIds ==
  ASSUME Kinds, RunType', CommitType', UNCHANGED <<running.tid, committing.tid>>,
         NEW t \in {0, running.tid, committing.tid}, j' = Request(j, t)
  PROVE  TidStep /\ Kinds'
  <1>1. t \in Nat /\ j \in JSet
    BY DEF Kinds, RunType, CommitType, JType
  <1>2. Asked /\ j' \in JSet
    BY <1>1, RequestIs, Zenon DEF Asked, Rest, Settled
  <1> QED BY <1>2, Zenon DEF TidStep, Kinds, JType, JSet

\* So is every operation on a handle.
LEMMA HandlesIds ==
  ASSUME Kinds, HandleType, HandleInv, CreditInv, NEW p \in Task, Handles(p)
  PROVE  TidStep /\ Kinds'
  <1> USE Zenon
  <1>0. RunType /\ CommitType /\ JType /\ j \in JSet
    BY DEF Kinds, JType
  <1>1. UNCHANGED committing /\ CommitType'
    BY <1>0, HandlesKeep DEF CommitType
  <1>2. CASE UNCHANGED <<j, running>>
    <2>1. RunType' /\ j' \in JSet
      BY <1>0, <1>2 DEF RunType
    <2> QED BY <1>1, <1>2, <2>1, SameIds, SMT
  <1>3. CASE start_this_handle(p)
    <2>1. RunType'
      BY <1>0, <1>3, StartIs
    <2>2. CASE running.tid # 0 /\ running' = running /\ j' = Request(j, running.tid)
      BY <1>1, <2>1, <2>2, AskedIds, SMT
    <2>3. CASE running.tid # 0 /\ j' = j /\ running'.tid = running.tid
      BY <1>0, <1>1, <2>1, <2>3, SameIds, SMT
    <2>4. CASE /\ running.tid = 0 /\ j' = [j EXCEPT !.transaction_sequence = @ + 1]
               /\ running'.tid = j.transaction_sequence
      <3>1. PICK n \in Nat : n = j.transaction_sequence + 1
        BY <1>0, SMT DEF JSet
      <3>2. j' = [j EXCEPT !.transaction_sequence = n]
        BY <2>4, <3>1, SMT
      <3>3. /\ j' \in JSet /\ j'.transaction_sequence = j.transaction_sequence + 1
            /\ j'.commit_sequence = j.commit_sequence /\ j'.commit_request = j.commit_request
        BY <1>0, <3>1, <3>2 DEF JSet
      <3> QED BY <1>1, <2>1, <2>4, <3>3 DEF TidStep, Started, Kinds, JType, JSet
    <2> QED BY <1>0, <1>3, <2>2, <2>3, <2>4, StartIs
  <1>4. CASE journal_stop(p)
    <2>1. /\ handle[p].pc \in Open /\ handle[p].tid = running.tid
          /\ running' = [running EXCEPT !.updates = @ - 1, !.credits = @ - handle[p].credits]
          /\ j' = Request(j, running.tid) \/ j' = j
      BY <1>4 DEF journal_stop, At, Open, HandleInv
    <2>2. PICK n \in Nat, c \in Nat : n = running.updates - 1 /\ c = running.credits - handle[p].credits
      BY <1>0, <2>1, StopHas, SMT
    <2>3. running' = [running EXCEPT !.updates = n, !.credits = c]
      BY <2>1, <2>2, SMT
    <2>4. RunType' /\ running'.tid = running.tid
      BY <1>0, <2>3 DEF RunType
    <2> QED BY <1>0, <1>1, <2>1, <2>4, AskedIds, SameIds, SMT
  <1>5. CASE journal_flush(p)
    <2>1. running' = running /\ \E t \in {0, running.tid, committing.tid} : j' = Request(j, t)
      BY <1>5 DEF journal_flush
    <2>2. RunType'
      BY <1>0, <2>1 DEF RunType
    <2> QED BY <1>1, <2>1, <2>2, AskedIds, SMT
  <1>6. start_this_handle(p) \/ journal_stop(p) \/ journal_flush(p) \/ UNCHANGED <<j, running>>
    BY DEF Handles, unused_access, journal_dirty_metadata, dirty_data_written, log_wait_commit,
             journal_get_write_access, journal_get_create_access, journal_revoke, journal_dirty_data
  <1> QED BY <1>2, <1>3, <1>4, <1>5, <1>6, SMT

\* So is every step of the checkpointer.
LEMMA CheckpointIds ==
  ASSUME Kinds, ListType, BufInv, RingInv, NEW p \in Task, Checkpoint(p)
  PROVE  TidStep /\ Kinds'
  <1>0. RunType /\ CommitType /\ JType /\ j \in JSet
    BY Zenon DEF Kinds, JType
  <1>1. UNCHANGED <<running, committing>> /\ CommitType' /\ RunType'
    BY <1>0, CheckpointKeep, Zenon DEF CommitType, RunType
  <1>2. CASE UNCHANGED j
    BY <1>0, <1>1, <1>2, SameIds
  <1>3. CASE j' = CleanedTail
    <2>1. committing.tid # 0 => committing.log_start \in 1 .. LogLen
      BY Zenon DEF RingInv
    <2>2. /\ j' \in JSet /\ j'.transaction_sequence = j.transaction_sequence
          /\ j'.commit_sequence = j.commit_sequence /\ j'.commit_request = j.commit_request
      BY <1>0, <1>3, <2>1, TailIs
    <2> QED BY <1>1, <2>2, SameIds
  <1>4. CASE \E b \in Block : j' = Request(j, bh[b].trans)
    <2>1. PICK b \in Block : j' = Request(j, bh[b].trans)
      BY <1>4
    <2>2. bh[b].trans \in {0, running.tid, committing.tid}
      BY Zenon DEF BufInv, BufOK
    <2> QED BY <1>1, <2>1, <2>2, AskedIds
  <1>5. CASE j' = [j EXCEPT !.flushed = TRUE]
    <2>1. /\ j' \in JSet /\ j'.transaction_sequence = j.transaction_sequence
          /\ j'.commit_sequence = j.commit_sequence /\ j'.commit_request = j.commit_request
      BY <1>0, <1>5, Zenon DEF JSet
    <2> QED BY <1>1, <2>1, SameIds
  <1>6. \/ UNCHANGED j \/ j' = CleanedTail \/ j' = [j EXCEPT !.flushed = TRUE]
        \/ \E b \in Block : j' = Request(j, bh[b].trans)
    BY Zenon DEF Checkpoint, log_wait_for_space, flush_buffers, cleanup_transaction, checkpoint_done,
             journal_flush_log, cleanup_journal_tail
  <1> QED BY <1>2, <1>3, <1>4, <1>5, <1>6

\* A sequence over a set, from a function.
LEMMA SeqIs ==
  ASSUME NEW S, NEW n \in Nat, NEW f \in [1 .. n -> S]
  PROVE  f \in Seq(S) /\ DOMAIN f = 1 .. n
  OBVIOUS

\* The block n beyond h is a block of the log.
LEMMA WrapType ==
  ASSUME NEW h \in Int, NEW n \in Int
  PROVE  Wrap(h, n) \in 1 .. LogLen
  <1>1. PICK l \in Nat \ {0} : l = LogLen
    BY JournalAssumption
  <1>2. ((h - 1 + n) % l) \in 0 .. l - 1
    OBVIOUS
  <1> QED BY <1>1, <1>2 DEF Wrap

\* The metadata of the committing transaction: how many blocks the log takes.
LEMMA MetadataIs ==
  ASSUME Kinds, commit_metadata
  PROVE  /\ K("flush") /\ kjournald' = "iobuf" /\ CommitType'
         /\ committing'.tid = committing.tid /\ committing'.log_start = committing.log_start
         /\ committing'.credits = committing.credits
         /\ \E s \in Bijection(1 .. Cardinality(Logged), Logged) : /\ DOMAIN committing'.iobufs = DOMAIN s
                                         /\ \A i \in DOMAIN s : committing'.iobufs[i].b = s[i]
         /\ \E n \in Nat : /\ j' = journal_next_log_block(n)
                           /\ n = IF Logged = {} THEN 0 ELSE Cardinality(Logged) + 1
  <1> USE Zenon
  <1> DEFINE n == IF Logged = {} THEN 0 ELSE Cardinality(Logged) + 1
             io(s) == [i \in DOMAIN s |-> [b |-> s[i], pos |-> Wrap(j.head, i)]]
  <1>1. /\ K("flush") /\ kjournald' = "iobuf" /\ j' = journal_next_log_block(n)
        /\ \E s \in Bijection(1 .. Cardinality(Logged), Logged) : committing' = [committing EXCEPT !.iobufs = io(s)]
    BY DEF commit_metadata, Logged
  <1>2. IsFiniteSet(Logged) /\ Logged \subseteq Block /\ Cardinality(Logged) \in Nat
    BY JournalAssumption, FS_Subset, FS_CardinalityType DEF Logged
  <1>3. n \in Nat
    BY <1>2, SMT
  <1>4. PICK s \in Bijection(1 .. Cardinality(Logged), Logged) : committing' = [committing EXCEPT !.iobufs = io(s)]
    BY <1>1
  <1>5. s \in [1 .. Cardinality(Logged) -> Logged] /\ DOMAIN s = 1 .. Cardinality(Logged)
    BY DEF Bijection, Injection
  <1>6. io(s) \in [1 .. Cardinality(Logged) -> [b : Block, pos : Int]]
    <2>1. ASSUME NEW i \in DOMAIN s PROVE [b |-> s[i], pos |-> Wrap(j.head, i)] \in [b : Block, pos : Int]
      <3>1. s[i] \in Block
        BY <1>2, <1>5, SMT
      <3>2. i \in 1 .. Cardinality(Logged)
        BY <1>5
      <3>4. i \in Int
        BY <1>2, <3>2, SMT
      <3>5. j.head \in 1 .. LogLen
        BY DEF Kinds, JType, JSet
      <3>6. j.head \in Int /\ 1 .. LogLen \subseteq Int
        BY <3>5, JournalAssumption, SMT
      <3>3. Wrap(j.head, i) \in Int
        BY <3>4, <3>6, WrapType
      <3> QED BY <3>1, <3>3
    <2> QED BY <1>5, <2>1
  <1>7. io(s) \in Seq([b : Block, pos : Int]) /\ DOMAIN io(s) = DOMAIN s
    BY <1>2, <1>5, <1>6, SeqIs
  <1>8. \A i \in DOMAIN s : io(s)[i].b = s[i]
    OBVIOUS
  <1> HIDE DEF io, n
  <1>9. /\ CommitType' /\ committing'.iobufs = io(s)
        /\ committing'.tid = committing.tid /\ committing'.log_start = committing.log_start
        /\ committing'.credits = committing.credits
    BY <1>4, <1>7 DEF Kinds, CommitType
  <1> QED BY <1>1, <1>3, <1>7, <1>8, <1>9 DEF n

\* The running transaction becomes the committing one.
LEMMA SwitchIs ==
  ASSUME Kinds, FsType, commit_switch
  PROVE  /\ K("locked") /\ kjournald' = "flush" /\ running.updates = 0
         /\ running' = NoTrans /\ RunType' /\ CommitType' /\ JType' /\ revoke' = {}
         /\ committing'.tid = running.tid /\ committing'.credits = running.credits
         /\ committing'.log_start = j'.head /\ committing'.iobufs = << >>
         /\ LET n == IF revoke = {} THEN 0 ELSE 1
            IN  j'.head = Wrap(j.head, n) /\ j'.free = j.free - n
         /\ j'.tail = j.tail /\ j'.tail_sequence = j.tail_sequence
         /\ UNCHANGED <<j.transaction_sequence, j.commit_sequence, j.commit_request>>
         /\ pending'.tid = running.tid /\ pending'.use = use
  <1> USE Zenon
  <1> DEFINE n == IF revoke = {} THEN 0 ELSE 1
             jr == journal_next_log_block(n)
  <1>1. /\ K("locked") /\ kjournald' = "flush" /\ running.updates = 0 /\ running' = NoTrans /\ revoke' = {}
        /\ j' = [jr EXCEPT !.flushed = FALSE]
        /\ committing' = [NoCommit EXCEPT !.tid = running.tid, !.log_start = jr.head,
                                          !.credits = running.credits]
        /\ pending' = FileSystem(running.tid, use, [b \in Block |-> bh[b].data])
    BY DEF commit_switch
  <1>2. n \in Nat
    BY SMT
  <1>3. /\ jr \in JSet /\ jr.head = Wrap(j.head, n) /\ jr.free = j.free - n
        /\ jr.tail = j.tail /\ jr.tail_sequence = j.tail_sequence
        /\ jr.transaction_sequence = j.transaction_sequence /\ jr.commit_sequence = j.commit_sequence
        /\ jr.commit_request = j.commit_request
    BY <1>2, NextBlockIs, SMT DEF Kinds
  <1> HIDE DEF jr, n
  <1>4. /\ j' \in JSet /\ j'.head = jr.head /\ j'.free = jr.free /\ j'.tail = jr.tail
        /\ j'.tail_sequence = jr.tail_sequence /\ j'.transaction_sequence = jr.transaction_sequence
        /\ j'.commit_sequence = jr.commit_sequence /\ j'.commit_request = jr.commit_request
    BY <1>1, <1>3 DEF JSet
  <1>5. JType'
    BY <1>4 DEF JType, JSet
  <1>6. RunType'
    BY <1>1, SMT DEF NoTrans, RunType
  <1>7. jr.head \in 0 .. LogLen
    BY <1>3, JournalAssumption, SMT DEF JSet
  <1>8. /\ committing'.tid = running.tid /\ committing'.credits = running.credits
        /\ committing'.log_start = jr.head /\ committing'.iobufs = << >>
    BY <1>1 DEF NoCommit
  <1>9. << >> \in Seq([b : Block, pos : Int])
    BY SMT
  <1>10. CommitType'
    BY <1>1, <1>7, <1>9 DEF NoCommit, CommitType, Kinds, RunType
  <1>11. pending'.tid = running.tid /\ pending'.use = use
    BY <1>1 DEF FileSystem
  <1> QED BY <1>1, <1>3, <1>4, <1>5, <1>6, <1>8, <1>10, <1>11 DEF n

\* The last log buffer of the commit is waited for.
LEMMA IobufIs ==
  ASSUME Kinds, wait_for_iobuf
  PROVE  LET n == Len(committing.iobufs)
         IN  /\ K("iobuf") /\ UNCHANGED kjournald /\ CommitType' /\ n \in Nat \ {0}
             /\ DOMAIN committing.iobufs = 1 .. n /\ committing.iobufs[n].b \in Block
             /\ DOMAIN committing'.iobufs = 1 .. n - 1
             /\ \A i \in 1 .. n - 1 : committing'.iobufs[i] = committing.iobufs[i]
             /\ committing'.tid = committing.tid /\ committing'.log_start = committing.log_start
             /\ committing'.credits = committing.credits
             /\ bh' = [bh EXCEPT ![committing.iobufs[n].b] = File(@, committing.tid, "Forget")]
  <1> USE Zenon
  <1> DEFINE s == committing.iobufs
             n == Len(s)
             S == [b : Block, pos : Int]
  <1>1. s \in Seq(S) /\ s # << >>
    BY DEF Kinds, CommitType, wait_for_iobuf
  <1>2. /\ K("iobuf") /\ UNCHANGED kjournald
        /\ committing' = [committing EXCEPT !.iobufs = SubSeq(s, 1, n - 1)]
        /\ bh' = [bh EXCEPT ![s[n].b] = File(@, committing.tid, "Forget")]
    BY DEF wait_for_iobuf
  <1> DEFINE f == SubSeq(s, 1, n - 1)
  <1> HIDE DEF S
  <1>3. /\ n \in Nat \ {0} /\ DOMAIN s = 1 .. n /\ s[n] \in S
        /\ f \in Seq(S) /\ DOMAIN f = 1 .. n - 1 /\ \A i \in 1 .. n - 1 : f[i] = s[i]
    <2> HIDE DEF s
    <2> QED BY <1>1, SMT
  <1>4. s[n].b \in Block
    BY <1>3 DEF S
  <1> HIDE DEF f, n
  <1>5. /\ CommitType' /\ committing'.iobufs = f
        /\ committing'.tid = committing.tid /\ committing'.log_start = committing.log_start
        /\ committing'.credits = committing.credits
    BY <1>2, <1>3 DEF Kinds, CommitType, S, f
  <1> QED BY <1>2, <1>3, <1>4, <1>5 DEF n

\* So is every step of kjournald.
LEMMA CommitIds ==
  ASSUME Kinds, TidInv, StageInv, FsType, Commit \/ commit_timeout
  PROVE  TidStep /\ Kinds'
  <1> USE Zenon
  <1>0. RunType /\ CommitType /\ JType /\ j \in JSet
    BY DEF Kinds, JType
  <1>1. CASE UNCHANGED <<j, running, committing>>
    <2>1. RunType' /\ CommitType'
      BY <1>0, <1>1 DEF RunType, CommitType
    <2> QED BY <1>0, <1>1, <2>1, SameIds, SMT
  <1>2. CASE commit_timeout
    <2>1. running.tid # 0 /\ j' = [j EXCEPT !.commit_request = running.tid] /\ UNCHANGED <<running, committing>>
      BY <1>2 DEF commit_timeout
    <2>2. IF j.commit_request >= running.tid THEN j.commit_request = running.tid ELSE TRUE
      BY <1>0, <2>1, TidTypes, SMT DEF TidInv, TidType
    <2>3. j' = Request(j, running.tid)
      BY <2>1, <2>2 DEF Request
    <2>4. RunType' /\ CommitType'
      BY <1>0, <2>1 DEF RunType, CommitType
    <2> QED BY <2>1, <2>3, <2>4, AskedIds, SMT
  <1>3. CASE commit_lock
    <2>1. running' = [running EXCEPT !.locked = TRUE] /\ UNCHANGED <<j, committing>>
      BY <1>3 DEF commit_lock
    <2>2. RunType' /\ running'.tid = running.tid /\ CommitType'
      BY <1>0, <2>1 DEF RunType, CommitType
    <2> QED BY <1>0, <2>1, <2>2, SameIds, SMT
  <1>4. CASE commit_switch
    <2>1. /\ K("locked") /\ running' = NoTrans /\ committing'.tid = running.tid
          /\ UNCHANGED <<j.transaction_sequence, j.commit_sequence, j.commit_request>>
          /\ RunType' /\ CommitType' /\ JType'
      BY <1>4, SwitchIs
    <2>2. running.tid # 0 /\ committing.tid = 0 /\ j.commit_request = running.tid
      BY <2>1 DEF StageInv, K
    <2>3. running'.tid = 0
      BY <2>1 DEF NoTrans
    <2> QED BY <2>1, <2>2, <2>3 DEF TidStep, Switched, Rest, Kinds
  <1>5. CASE commit_metadata
    <2>1. PICK n \in Nat : j' = journal_next_log_block(n)
      BY <1>5, MetadataIs
    <2>2. CommitType' /\ committing'.tid = committing.tid
      BY <1>5, MetadataIs
    <2>3. running' = running /\ RunType'
      BY <1>0, <1>5 DEF commit_metadata, RunType
    <2>4. /\ j' \in JSet /\ j'.transaction_sequence = j.transaction_sequence
          /\ j'.commit_sequence = j.commit_sequence /\ j'.commit_request = j.commit_request
      BY <1>0, <2>1, NextBlockIs
    <2> QED BY <2>2, <2>3, <2>4, SameIds, SMT
  <1>6. CASE wait_for_iobuf
    <2>1. CommitType' /\ committing'.tid = committing.tid
      BY <1>6, IobufIs
    <2>2. running' = running /\ RunType' /\ j' = j
      BY <1>0, <1>6 DEF wait_for_iobuf, RunType
    <2> QED BY <1>0, <2>1, <2>2, SameIds, SMT
  <1>7. CASE commit_record
    <2>1. j' = journal_next_log_block(1) /\ UNCHANGED <<running, committing>>
      BY <1>7 DEF commit_record
    <2>2. /\ j' \in JSet /\ j'.transaction_sequence = j.transaction_sequence
          /\ j'.commit_sequence = j.commit_sequence /\ j'.commit_request = j.commit_request
      BY <1>0, <2>1, NextBlockIs, SMT
    <2>4. RunType' /\ CommitType'
      BY <1>0, <2>1 DEF RunType, CommitType
    <2> QED BY <2>1, <2>2, <2>4, SameIds, SMT
  <1>8. CASE commit_finish
    <2>1. /\ K("record") /\ j' = [j EXCEPT !.commit_sequence = committing.tid] /\ committing' = NoCommit
          /\ UNCHANGED running
      BY <1>8 DEF commit_finish
    <2>2. committing.tid # 0
      BY <2>1 DEF StageInv, K
    <2>3. committing.tid \in Nat
      BY <1>0 DEF CommitType
    <2>4. /\ j' \in JSet /\ j'.transaction_sequence = j.transaction_sequence
          /\ j'.commit_sequence = committing.tid /\ j'.commit_request = j.commit_request
      BY <1>0, <2>1, <2>3 DEF JSet
    <2>5. << >> \in Seq([b : Block, pos : Int]) /\ 0 \in Nat /\ 0 \in 0 .. LogLen
      BY JournalAssumption, SMT
    <2>6. CommitType' /\ committing'.tid = 0
      BY <2>1, <2>5 DEF CommitType, NoCommit
    <2>7. RunType' /\ running'.tid = running.tid
      BY <1>0, <2>1 DEF RunType
    <2> QED BY <2>2, <2>4, <2>6, <2>7 DEF TidStep, Finished, Kinds, JType, JSet
  <1>9. \/ commit_timeout \/ commit_lock \/ commit_switch \/ commit_metadata \/ wait_for_iobuf
        \/ commit_record \/ commit_finish \/ UNCHANGED <<j, running, committing>>
    BY DEF Commit, write_out_data
  <1> QED BY <1>1, <1>2, <1>3, <1>4, <1>5, <1>6, <1>7, <1>8, <1>9

\* journal_reset and a crash start the numbers again.
LEMMA ResetIs ==
  ASSUME NEW seq \in Nat \ {0}
  PROVE  LET z == JournalReset(seq)
         IN  /\ z \in JSet /\ z.head = 1 /\ z.tail = 1 /\ z.free = LogLen /\ z.tail_sequence = seq
             /\ z.transaction_sequence = seq /\ z.commit_sequence = seq - 1 /\ z.commit_request = seq - 1
             /\ z.flushed = FALSE
  <1>1. seq - 1 \in Nat /\ 1 \in 1 .. LogLen /\ LogLen \in Int
    BY JournalAssumption
  <1> QED BY <1>1, Zenon DEF JournalReset, JSet

\* So is a crash.
LEMMA CrashIds ==
  ASSUME Crash
  PROVE  TidStep /\ Kinds'
  <1>1. j' = JournalReset(2) /\ running' = NoTrans /\ committing' = NoCommit
    BY Zenon DEF Crash
  <1>2. /\ j' \in JSet /\ j'.transaction_sequence = 2 /\ j'.commit_sequence = 2 - 1
        /\ j'.commit_request = 2 - 1
    <2>1. 2 \in Nat \ {0}
      OBVIOUS
    <2> QED BY <1>1, <2>1, ResetIs, Zenon
  <1>3. << >> \in Seq([b : Block, pos : Int]) /\ 0 \in Nat /\ 0 \in 0 .. LogLen
    BY JournalAssumption
  <1>4. RunType' /\ CommitType' /\ running'.tid = 0 /\ committing'.tid = 0
    BY <1>1, <1>3, Zenon DEF CommitType, NoCommit, RunType, NoTrans
  <1>5. 2 \in Nat \ {0}
    OBVIOUS
  <1> QED BY <1>2, <1>4, <1>5, Zenon DEF TidStep, Rebooted, Kinds, JType, JSet

\* So is a mount.
LEMMA MountIds ==
  ASSUME Kinds, Down, ScanType, Mount
  PROVE  TidStep /\ Kinds'
  <1> USE Zenon
  <1>0. RunType /\ CommitType /\ JType /\ j \in JSet
    BY DEF Kinds, JType
  <1>1. UNCHANGED <<running, committing>> /\ RunType' /\ CommitType'
    BY <1>0, MountKeep DEF RunType, CommitType
  <1>2. CASE UNCHANGED j
    BY <1>0, <1>1, <1>2, SameIds, SMT
  <1>3. CASE journal_reset
    <2>1. mode # "mounted" /\ j' = JournalReset(info.end + 1)
      BY <1>3 DEF journal_reset
    <2>2. PICK seq \in Nat \ {0} : seq = info.end + 1
      BY SMT DEF ScanType
    <2>3. /\ j' \in JSet /\ j'.transaction_sequence = seq /\ j'.commit_sequence = seq - 1
          /\ j'.commit_request = seq - 1
      BY <2>1, <2>2, ResetIs
    <2>5. running = NoTrans /\ committing = NoCommit
      BY <2>1 DEF Down
    <2>4. running'.tid = 0 /\ committing'.tid = 0
      BY <1>1, <2>5, SMT DEF NoTrans, NoCommit
    <2> QED BY <1>1, <2>3, <2>4 DEF TidStep, Rebooted, Kinds, JType, JSet
  <1> QED BY <1>2, <1>3 DEF Mount, journal_recover, do_one_pass

\* Every step moves the ids in one of the five ways, and so keeps their order.
LEMMA Ids ==
  ASSUME IInv, Next
  PROVE  TidStep /\ Kinds' /\ TidInv'
  <1> USE Zenon
  <1>0. /\ Kinds /\ HandleType /\ ListType /\ ScanType /\ FsType /\ Down /\ TidInv /\ StageInv /\ HandleInv
        /\ BufInv /\ CreditInv /\ RingInv
    BY DEF IInv, Types, Kinds
  <1>1. ASSUME UNCHANGED <<j, running, committing>> PROVE TidStep /\ Kinds'
    <2>1. RunType' /\ CommitType' /\ j' \in JSet
      BY <1>0, <1>1 DEF RunType, CommitType, Kinds, JType
    <2> QED BY <1>0, <1>1, <2>1, SameIds, SMT
  <1>2. TidStep /\ Kinds'
    <2>1. ASSUME NEW p \in Task, Handles(p) PROVE TidStep /\ Kinds'
      BY <1>0, <2>1, HandlesIds
    <2>2. ASSUME NEW p \in Task, Checkpoint(p) PROVE TidStep /\ Kinds'
      BY <1>0, <2>2, CheckpointIds
    <2>3. CASE commit_timeout \/ Commit
      BY <1>0, <2>3, CommitIds
    <2>4. CASE Crash
      BY <2>4, CrashIds
    <2>5. CASE Mount
      BY <1>0, <2>5, MountIds
    <2>6. CASE IoDone \/ \E b \in Block : write_back(b)
      BY <1>1, <2>6, IoKeep
    <2>7. CASE \E b \in Block : journal_try_to_free_buffer(b)
      BY <1>1, <2>7 DEF journal_try_to_free_buffer
    <2> QED BY <2>1, <2>2, <2>3, <2>4, <2>5, <2>6, <2>7 DEF Next
  <1>3. TidType /\ TidType'
    BY <1>0, <1>2, TidTypes DEF Kinds, RunType, CommitType, JType, JSet, TidType
  <1> QED BY <1>0, <1>2, <1>3, TidKept

-----------------------------------------------------------------------------
(* What becomes of a handle. *)

\* Task p has this handle now, and no other task's has changed.
Sets(p, pc, tid, c, b, n) ==
  /\ HandleType'
  /\ handle'[p].pc = pc /\ handle'[p].tid = tid /\ handle'[p].credits = c /\ handle'[p].b = b
  /\ handle'[p].need = n
  /\ \A q \in Task : q # p => handle'[q] = handle[q]
\* The changes an operation makes to its own handle: it ends, joins the running transaction, waits for
\* space, takes a block, gives it back, pays a credit, awaits a data write, waits for its commit, or
\* only moves to another state.
Ends(p) == Sets(p, "idle", 0, 0, NoBlock, 0)
Joins(p) == handle[p].pc = "idle" /\ Sets(p, "open", running'.tid, Credits, NoBlock, 0)
Waits(p) ==
  LET h == handle[p] IN  h.pc = "idle" /\ Sets(p, "space", h.tid, h.credits, h.b, space_needed)
Takes(p, b) ==
  LET h == handle[p]
  IN  h.pc = "open" /\ Charge(p, b) \in Nat /\ Sets(p, "access", h.tid, Charge(p, b), b, h.need)
Returns(p) ==
  LET h == handle[p] IN  h.pc \in {"access", "dwait"} /\ Sets(p, "open", h.tid, h.credits, NoBlock, h.need)
Pays(p, b) ==
  LET h == handle[p]
  IN  h.pc = "open" /\ Charge(p, b) \in Nat /\ Sets(p, "open", h.tid, Charge(p, b), h.b, h.need)
Awaits(p, b) ==
  LET h == handle[p] IN  h.pc = "open" /\ Sets(p, "dwait", h.tid, h.credits, b, h.need)
Syncs(p) == handle[p].pc = "open" /\ Sets(p, "wait", handle[p].tid, 0, NoBlock, 0)
Turns(p, pc, tid) == LET h == handle[p] IN  Sets(p, pc, tid, h.credits, h.b, h.need)

\* An update of the state and the id of a handle sets just these.
LEMMA PcSet ==
  ASSUME HandleType, NEW p \in Task, NEW pc \in Pcs, NEW tid \in Nat,
         handle' = [handle EXCEPT ![p].pc = pc, ![p].tid = tid]
  PROVE  Turns(p, pc, tid)
  BY Zenon DEF HandleType, HSet, Sets, Turns

\* An update of the state and the block of a handle sets just these.
LEMMA BlockSet ==
  ASSUME HandleType, NEW p \in Task, NEW pc \in Pcs, NEW b \in Block \cup {NoBlock},
         handle' = [handle EXCEPT ![p].pc = pc, ![p].b = b]
  PROVE  Sets(p, pc, handle[p].tid, handle[p].credits, b, handle[p].need)
  BY Zenon DEF HandleType, HSet, Sets

\* A fresh handle has nothing else set.
LEMMA FreshSet ==
  ASSUME HandleType, NEW p \in Task, NEW pc \in Pcs, NEW tid \in Nat, NEW c \in Nat,
         handle' = [handle EXCEPT ![p] = [NoHandle EXCEPT !.pc = pc, !.tid = tid, !.credits = c]]
  PROVE  Sets(p, pc, tid, c, NoBlock, 0)
  <1>1. 0 \in Nat
    OBVIOUS
  <1> QED BY <1>1, Zenon DEF HandleType, HSet, Sets, NoHandle

\* What each operation on handles does to the handle of its task.
LEMMA HandleMoves ==
  ASSUME Kinds, HandleType, BufType, NEW p \in Task, Handles(p)
  PROVE  \/ start_this_handle(p) /\ (UNCHANGED handle \/ Waits(p) \/ Joins(p))
         \/ unused_access(p) /\ Returns(p)
         \/ journal_dirty_metadata(p) /\ Returns(p)
         \/ dirty_data_written(p) /\ Returns(p)
         \/ journal_stop(p) /\ (Syncs(p) \/ Ends(p))
         \/ log_wait_commit(p) /\ (Ends(p) \/ Sets(p, "fckpt", 0, 0, NoBlock, 0))
         \/ /\ journal_flush(p)
            /\ LET tid == IF running.tid # 0 THEN running.tid ELSE committing.tid
               IN  Turns(p, IF tid = 0 THEN "fckpt" ELSE "fwait", tid)
         \/ \E b \in Block : \/ journal_get_write_access(p, b) /\ Takes(p, b)
                             \/ journal_get_create_access(p, b) /\ Pays(p, b)
                             \/ journal_revoke(p, b) /\ UNCHANGED handle
                             \/ journal_dirty_data(p, b) /\ (UNCHANGED handle \/ Awaits(p, b))
  <1> USE Zenon
  <1>0. RunType /\ JType /\ CommitType
    BY DEF Kinds
  <1>1. 0 \in Nat /\ NoBlock \in Block \cup {NoBlock} /\ Credits \in Nat
    BY JournalAssumption, SMT
  <1>2. start_this_handle(p) => UNCHANGED handle \/ Waits(p) \/ Joins(p)
    <2>1. SUFFICES ASSUME start_this_handle(p) PROVE UNCHANGED handle \/ Waits(p) \/ Joins(p)
      BY SMT
    <2>2. /\ \/ UNCHANGED handle
             \/ handle[p].pc = "idle" /\ handle' = [handle EXCEPT ![p].pc = "space", ![p].need = space_needed]
             \/ /\ handle[p].pc = "idle"
                /\ handle' = [handle EXCEPT ![p] = [NoHandle EXCEPT
                                  !.pc = "open", !.tid = running'.tid, !.credits = Credits]]
          /\ RunType'
      BY <1>0, <2>1, StartIs
    <2>3. space_needed \in Nat
      BY <1>0, JournalAssumption, SMT DEF space_needed, CommitType
    <2>4. ASSUME handle' = [handle EXCEPT ![p].pc = "space", ![p].need = space_needed]
          PROVE  Sets(p, "space", handle[p].tid, handle[p].credits, handle[p].b, space_needed)
      BY <2>3, <2>4 DEF HandleType, HSet, Sets, Pcs
    <2>5. running'.tid \in Nat /\ "open" \in Pcs
      BY <2>2 DEF RunType, Pcs
    <2> QED BY <1>1, <2>2, <2>4, <2>5, FreshSet DEF Waits, Joins
  <1>3. ASSUME handle' = [handle EXCEPT ![p].pc = "open", ![p].b = NoBlock], handle[p].pc \in {"access", "dwait"}
        PROVE  Returns(p)
    BY <1>1, <1>3, BlockSet DEF Returns, Pcs
  <1>4. unused_access(p) => Returns(p)
    BY <1>3 DEF unused_access, At
  <1>5. journal_dirty_metadata(p) => Returns(p)
    BY <1>3 DEF journal_dirty_metadata, At
  <1>6. dirty_data_written(p) => Returns(p)
    BY <1>3 DEF dirty_data_written, At
  <1>7. journal_stop(p) => Syncs(p) \/ Ends(p)
    <2>1. journal_stop(p) => /\ handle[p].pc = "open"
                             /\ \/ handle' = [handle EXCEPT ![p] = [NoHandle EXCEPT !.pc = "wait", !.tid = handle[p].tid]]
                                \/ handle' = [handle EXCEPT ![p] = NoHandle]
      BY DEF journal_stop, At
    <2>2. handle[p].tid \in Nat
      BY DEF HandleType, HSet
    <2>3. ASSUME handle' = [handle EXCEPT ![p] = [NoHandle EXCEPT !.pc = "wait", !.tid = handle[p].tid]]
          PROVE  Sets(p, "wait", handle[p].tid, 0, NoBlock, 0)
      BY <1>1, <2>2, <2>3 DEF Sets, HandleType, HSet, NoHandle, Pcs
    <2>4. ASSUME handle' = [handle EXCEPT ![p] = NoHandle] PROVE Ends(p)
      BY <1>1, <2>4 DEF Ends, Sets, HandleType, HSet, NoHandle, Pcs
    <2> QED BY <2>1, <2>3, <2>4 DEF Syncs
  <1>8. log_wait_commit(p) => Ends(p) \/ Sets(p, "fckpt", 0, 0, NoBlock, 0)
    <2>1. log_wait_commit(p) => \/ handle' = [handle EXCEPT ![p] = [NoHandle EXCEPT !.pc = "idle"]]
                                \/ handle' = [handle EXCEPT ![p] = [NoHandle EXCEPT !.pc = "fckpt"]]
      BY DEF log_wait_commit
    <2>2. ASSUME NEW pc \in Pcs, handle' = [handle EXCEPT ![p] = [NoHandle EXCEPT !.pc = pc]]
          PROVE  Sets(p, pc, 0, 0, NoBlock, 0)
      BY <1>1, <2>2 DEF Sets, HandleType, HSet, NoHandle
    <2> QED BY <2>1, <2>2 DEF Ends, Pcs
  <1>10. journal_flush(p) => LET tid == IF running.tid # 0 THEN running.tid ELSE committing.tid
                             IN  Turns(p, IF tid = 0 THEN "fckpt" ELSE "fwait", tid)
    <2> DEFINE tid == IF running.tid # 0 THEN running.tid ELSE committing.tid
               pc == IF tid = 0 THEN "fckpt" ELSE "fwait"
    <2>1. journal_flush(p) => handle' = [handle EXCEPT ![p].pc = pc, ![p].tid = tid]
      BY DEF journal_flush
    <2>2. tid \in Nat /\ pc \in Pcs
      BY <1>0 DEF RunType, CommitType, Pcs
    <2> HIDE DEF pc, tid
    <2>3. journal_flush(p) => Turns(p, pc, tid)
      BY <2>1, <2>2, PcSet
    <2> QED BY <2>3, SMT DEF pc, tid
  <1>11. ASSUME NEW b \in Block, Charge(p, b) >= 0 PROVE Charge(p, b) \in Nat
    <2>1. handle[p].credits \in Nat
      BY DEF HandleType, HSet
    <2> QED BY <1>11, <2>1, SMT DEF Charge
  <1>12. ASSUME NEW b \in Block, journal_get_write_access(p, b) PROVE Takes(p, b)
    <2>1. /\ handle' = [handle EXCEPT ![p].pc = "access", ![p].b = b, ![p].credits = Charge(p, b)]
          /\ handle[p].pc = "open" /\ Charge(p, b) >= 0
      BY <1>12 DEF journal_get_write_access, At
    <2>2. Charge(p, b) \in Nat
      BY <1>11, <2>1, SMT
    <2> QED BY <2>1, <2>2 DEF Takes, Sets, HandleType, HSet, Pcs
  <1>13. ASSUME NEW b \in Block, journal_get_create_access(p, b) PROVE Pays(p, b)
    <2>1. /\ handle' = [handle EXCEPT ![p].credits = Charge(p, b)]
          /\ handle[p].pc = "open" /\ Charge(p, b) >= 0
      BY <1>13 DEF journal_get_create_access, At
    <2>2. Charge(p, b) \in Nat
      BY <1>11, <2>1, SMT
    <2> QED BY <2>1, <2>2 DEF Pays, Sets, HandleType, HSet, Pcs
  <1>15. ASSUME NEW b \in Block, journal_revoke(p, b) PROVE UNCHANGED handle
    BY <1>15 DEF journal_revoke
  <1>17. ASSUME NEW b \in Block, journal_dirty_data(p, b) PROVE UNCHANGED handle \/ Awaits(p, b)
    <2>1. \/ UNCHANGED handle
          \/ handle[p].pc = "open" /\ handle' = [handle EXCEPT ![p].pc = "dwait", ![p].b = b]
      BY <1>17 DEF journal_dirty_data, At
    <2> QED BY <2>1, BlockSet DEF Awaits, Pcs
  <1> QED BY <1>2, <1>4, <1>5, <1>6, <1>7, <1>8, <1>10, <1>12, <1>13, <1>15, <1>17 DEF Handles

\* What each step of the checkpointer does to the handle of its task.
LEMMA CheckpointMoves ==
  ASSUME HandleType, BufType, NEW p \in Task, Checkpoint(p)
  PROVE  \/ /\ log_wait_for_space(p) /\ handle[p].pc = "space"
            /\ \/ UNCHANGED handle \/ Turns(p, "scan", handle[p].tid)
               \/ log_space_left >= handle[p].need /\ Ends(p) /\ UNCHANGED j
         \/ flush_buffers(p) /\ UNCHANGED handle
         \/ /\ cleanup_transaction(p) /\ handle[p].pc \in {"scan", "fscan"}
            /\ \E b \in Block : Turns(p, handle[p].pc, bh[b].trans)
         \/ /\ checkpoint_done(p)
            /\ \/ handle[p].pc = "scan" /\ Turns(p, "space", 0)
               \/ handle[p].pc = "fscan" /\ Turns(p, "fckpt", 0)
         \/ /\ journal_flush_log(p) /\ handle[p].pc = "fckpt"
            /\ UNCHANGED handle \/ Turns(p, "fscan", handle[p].tid) \/ Ends(p)
  <1> USE Zenon
  <1>0. handle[p] \in HSet /\ handle[p].tid \in Nat /\ 0 \in Nat /\ handle[p].pc \in Pcs
    BY SMT DEF HandleType, HSet
  <1>1. ASSUME NEW pc \in Pcs, Goto(p, pc) PROVE Turns(p, pc, handle[p].tid)
    BY <1>1 DEF Goto, Turns, Sets, HandleType, HSet
  <1>2. ASSUME handle' = [handle EXCEPT ![p] = NoHandle] PROVE Ends(p)
    BY <1>0, <1>2 DEF Ends, Sets, HandleType, HSet, NoHandle, Pcs
  <1>3. CASE log_wait_for_space(p)
    <2>1. /\ handle[p].pc = "space"
          /\ \/ UNCHANGED handle \/ Goto(p, "scan")
             \/ log_space_left >= handle[p].need /\ handle' = [handle EXCEPT ![p] = NoHandle] /\ UNCHANGED j
      BY <1>3 DEF log_wait_for_space, At
    <2> QED BY <1>1, <1>2, <1>3, <2>1 DEF Pcs
  <1>4. CASE flush_buffers(p)
    BY <1>4 DEF flush_buffers
  <1>5. CASE cleanup_transaction(p)
    <2>1. /\ handle[p].pc \in {"scan", "fscan"}
          /\ \E b \in Block : handle' = [handle EXCEPT ![p].tid = bh[b].trans]
      BY <1>5 DEF cleanup_transaction, Scanning, At
    <2>2. ASSUME NEW b \in Block, handle' = [handle EXCEPT ![p].tid = bh[b].trans]
          PROVE  Turns(p, handle[p].pc, bh[b].trans)
      <3>1. bh[b].trans \in Nat
        BY DEF BufType, Buffer
      <3> QED BY <2>2, <3>1 DEF Turns, Sets, HandleType, HSet
    <2> QED BY <1>5, <2>1, <2>2
  <1>6. CASE checkpoint_done(p)
    <2>1. /\ handle[p].pc \in {"scan", "fscan"}
          /\ handle' = [handle EXCEPT ![p].pc = IF handle[p].pc = "scan" THEN "space" ELSE "fckpt", ![p].tid = 0]
      BY <1>6 DEF checkpoint_done, Scanning, At
    <2> QED BY <1>0, <1>6, <2>1, PcSet DEF Pcs
  <1>7. CASE journal_flush_log(p)
    <2>1. /\ handle[p].pc = "fckpt"
          /\ UNCHANGED handle \/ Goto(p, "fscan") \/ handle' = [handle EXCEPT ![p] = NoHandle]
      BY <1>7 DEF journal_flush_log, At
    <2> QED BY <1>1, <1>2, <1>7, <2>1 DEF Pcs
  <1> QED BY <1>3, <1>4, <1>5, <1>6, <1>7 DEF Checkpoint

-----------------------------------------------------------------------------
(* The types of the rest. *)

\* Every step keeps the type of the handles.
LEMMA HandleTypes ==
  ASSUME IInv, Next
  PROVE  HandleType'
  <1> USE Zenon
  <1>0. Kinds /\ HandleType /\ BufType
    BY DEF IInv, Types, Kinds
  <1>1. ASSUME UNCHANGED handle PROVE HandleType'
    BY <1>0, <1>1 DEF HandleType
  <1>2. ASSUME NEW p \in Task, Handles(p) PROVE HandleType'
    BY <1>0, <1>1, <1>2, HandleMoves
        DEF Waits, Joins, Returns, Syncs, Ends, Turns, Takes, Pays, Awaits, Sets
  <1>3. ASSUME NEW p \in Task, Checkpoint(p) PROVE HandleType'
    BY <1>0, <1>1, <1>3, CheckpointMoves DEF Ends, Turns, Sets
  <1>4. CASE Crash
    <2>1. handle' = [p \in Task |-> NoHandle]
      BY <1>4 DEF Crash
    <2>2. 0 \in Nat
      BY SMT
    <2> QED BY <2>1, <2>2 DEF HandleType, HSet, NoHandle, Pcs
  <1>5. CASE ~(\E p \in Task : Handles(p) \/ Checkpoint(p)) /\ ~Crash
    <2>1. UNCHANGED handle
      BY <1>5, CommitKeep, IoKeep, MountKeep DEF Next, journal_try_to_free_buffer
    <2> QED BY <1>1, <2>1, SMT
  <1> QED BY <1>2, <1>3, <1>4, <1>5

\* Every step keeps the type of the checkpoint lists.
LEMMA ListTypes ==
  ASSUME IInv, Next
  PROVE  ListType'
  <1> USE Zenon
  <1>0. Kinds /\ ListType /\ RingInv /\ StageInv
    BY DEF IInv, Types, Kinds
  <1>1. ASSUME cplist' \subseteq cplist PROVE ListType'
    BY <1>0, <1>1 DEF ListType
  <1>2. CASE commit_finish
    <2>1. /\ K("record")
          /\ cplist' \subseteq cplist \cup {[tid |-> committing.tid, log_start |-> committing.log_start]}
      BY <1>2 DEF commit_finish, Dropped
    <2>2. committing.tid # 0
      BY <1>0, <2>1 DEF StageInv, K
    <2>3. committing.tid \in Nat /\ committing.log_start \in 1 .. LogLen
      BY <1>0, <2>2 DEF Kinds, CommitType, RingInv
    <2> DEFINE this == [tid |-> committing.tid, log_start |-> committing.log_start]
    <2>4. this \in [tid : Nat, log_start : 1 .. LogLen]
      BY <2>3
    <2> HIDE DEF this
    <2>5. cplist' \subseteq cplist \cup {this}
      BY <2>1 DEF this
    <2> QED BY <1>0, <2>4, <2>5 DEF ListType
  <1>3. CASE ~commit_finish
    <2>1. ASSUME NEW p \in Task, Checkpoint(p) PROVE cplist' \subseteq cplist
      BY <2>1 DEF Checkpoint, log_wait_for_space, flush_buffers, cleanup_transaction,
           checkpoint_done, journal_flush_log, Dropped
    <2>2. ASSUME commit_timeout \/ Commit PROVE cplist' \subseteq cplist
      BY <1>3, <2>2 DEF Commit, commit_timeout, commit_lock, commit_switch, write_out_data, commit_metadata,
           wait_for_iobuf, commit_record, Dropped
    <2>3. ASSUME Crash PROVE cplist' \subseteq cplist
      BY <2>3 DEF Crash
    <2>4. ASSUME NEW b \in Block, journal_try_to_free_buffer(b) PROVE cplist' \subseteq cplist
      BY <2>4 DEF journal_try_to_free_buffer, Dropped
    <2>5. cplist' \subseteq cplist
      BY <2>1, <2>2, <2>3, <2>4, HandlesKeep, IoKeep, MountKeep DEF Next
    <2> QED BY <1>1, <2>5, SMT
  <1> QED BY <1>2, <1>3, SMT

\* Every step keeps the types of kjournald's stage and of the mode.
LEMMA StageTypes ==
  ASSUME IInv, Next
  PROVE  StageType'
  <1> USE Zenon
  <1>0. StageType
    BY DEF IInv, Types
  <1>1. CASE Commit \/ commit_timeout
    BY <1>0, <1>1, CommitKeep DEF StageType, Commit, commit_timeout, commit_lock, commit_switch, write_out_data,
         commit_metadata, wait_for_iobuf, commit_record, commit_finish
  <1>2. CASE Crash
    BY <1>2 DEF StageType, Crash
  <1>3. CASE Mount
    BY <1>0, <1>3, MountKeep DEF StageType, Mount, journal_recover, do_one_pass, journal_reset
  <1>4. CASE ~Commit /\ ~commit_timeout /\ ~Crash /\ ~Mount
    <2>1. UNCHANGED <<kjournald, mode>>
      BY <1>4, HandlesKeep, CheckpointKeep, IoKeep DEF Next, journal_try_to_free_buffer
    <2> QED BY <1>0, <2>1 DEF StageType
  <1> QED BY <1>1, <1>2, <1>3, <1>4, SMT

\* Every step keeps the types of the superblock and of what recovery found.
LEMMA ScanTypes ==
  ASSUME IInv, Next
  PROVE  ScanType'
  <1> USE Zenon
  <1>0. Kinds /\ ListType /\ ScanType /\ RingInv /\ j.tail_sequence \in Nat
    BY DEF IInv, Types, Kinds, JType, JSet
  <1>1. ASSUME UNCHANGED <<sb, info>> PROVE ScanType'
    BY <1>0, <1>1 DEF ScanType
  <1>2. ASSUME NEW p \in Task, Checkpoint(p) PROVE ScanType'
    <2>1. FirstTid \in Nat
      BY <1>0, TailIs DEF Kinds, RingInv
    <2>2. /\ \/ sb' = sb \/ sb' = [start |-> FirstBlock, sequence |-> FirstTid]
             \/ sb' = [start |-> 0, sequence |-> j.tail_sequence]
          /\ UNCHANGED info
      BY <1>2 DEF Checkpoint, log_wait_for_space, flush_buffers, cleanup_transaction,
           checkpoint_done, journal_flush_log, cleanup_journal_tail, device
    <2>3. sb'.sequence \in Nat
      BY <1>0, <2>1, <2>2, SMT DEF ScanType
    <2> QED BY <1>0, <2>2, <2>3 DEF ScanType
  <1>3. CASE Commit \/ commit_timeout
    <2>1. (sb' = sb \/ sb' = [start |-> j.tail, sequence |-> j.tail_sequence]) /\ UNCHANGED info
      BY <1>3 DEF Commit, commit_timeout, commit_lock, commit_switch, write_out_data, commit_metadata,
           wait_for_iobuf, commit_record, commit_finish, device
    <2>2. sb'.sequence \in Nat
      BY <1>0, <2>1, SMT DEF ScanType
    <2> QED BY <1>0, <2>1, <2>2 DEF ScanType
  <1>4. CASE Crash
    <2>1. sb' = sb /\ info' = [next |-> 0, end |-> 0]
      BY <1>4 DEF Crash, device
    <2> QED BY <1>0, <2>1, SMT DEF ScanType
  <1>5. CASE journal_recover
    <2>1. sb' = sb /\ info' = [next |-> sb.sequence, end |-> EndTransaction(Walk)]
      BY <1>5 DEF journal_recover, device
    <2>2. EndTransaction(Walk) \in Nat
      <3> DEFINE S == {pos \in 1 .. LogLen : \E i \in DOMAIN Walk : Walk[i].val = pos /\ Walk[i].type = "commit"}
      <3>1. IsFiniteSet(1 .. LogLen)
        BY JournalAssumption, UpTo, SMT
      <3>2. S \in SUBSET (1 .. LogLen)
        OBVIOUS
      <3>3. EndTransaction(Walk) = sb.sequence + Cardinality(S)
        BY DEF EndTransaction
      <3> HIDE DEF S
      <3>4. Cardinality(S) \in Nat
        BY <3>1, <3>2, FS_Subset, FS_CardinalityType
      <3>5. sb.sequence \in Nat
        BY <1>0 DEF ScanType
      <3> QED BY <3>3, <3>4, <3>5, SMT
    <2> QED BY <1>0, <2>1, <2>2 DEF ScanType
  <1>6. CASE do_one_pass
    <2>1. sb' = sb /\ info' = [info EXCEPT !.next = @ + 1]
      BY <1>6 DEF do_one_pass, device
    <2> QED BY <1>0, <2>1 DEF ScanType
  <1>7. CASE journal_reset
    <2>1. sb' = [start |-> 1, sequence |-> info.end + 1] /\ info' = [next |-> 0, end |-> 0]
      BY <1>7 DEF journal_reset
    <2>2. info.end + 1 \in Nat
      BY <1>0, SMT DEF ScanType
    <2> QED BY <2>1, <2>2, SMT DEF ScanType
  <1>8. CASE ~(\E p \in Task : Checkpoint(p)) /\ ~Commit /\ ~commit_timeout /\ ~Crash /\ ~Mount
    <2>1. UNCHANGED <<sb, info>>
      BY <1>8, HandlesKeep, IoKeep DEF Next, journal_try_to_free_buffer, device
    <2> QED BY <1>1, <2>1, SMT
  <1> QED BY <1>2, <1>3, <1>4, <1>5, <1>6, <1>7, <1>8 DEF Mount

\* Every step keeps the types of the file system's state.
LEMMA FsTypes ==
  ASSUME IInv, Next
  PROVE  FsType'
  <1> USE Zenon
  <1>0. Kinds /\ FsType /\ HandleType
    BY DEF IInv, Types, Kinds
  <1>1. ASSUME NEW p \in Task, Handles(p) PROVE FsType'
    <2>1. handle[p].tid \in Nat
      BY <1>0 DEF HandleType, HSet
    <2>2. /\ revoke' \in SUBSET Block
          /\ use' = use \/ \E b \in Block, u \in {"meta", "free", "data"} : use' = [use EXCEPT ![b] = u]
          /\ freed' = freed \/ \E b \in Block : freed' = [freed EXCEPT ![b] = handle[p].tid]
      <3>1. CASE UNCHANGED <<revoke, use, freed>>
        BY <1>0, <3>1 DEF FsType
      <3>2. ASSUME NEW b \in Block, journal_get_write_access(p, b)
            PROVE  UNCHANGED <<use, freed>> /\ revoke' = revoke \ {b}
        BY <3>2 DEF journal_get_write_access, fs
      <3>3. ASSUME NEW b \in Block, journal_get_create_access(p, b)
            PROVE  UNCHANGED freed /\ use' = [use EXCEPT ![b] = "meta"] /\ revoke' = revoke \ {b}
        BY <3>3 DEF journal_get_create_access
      <3>4. ASSUME NEW b \in Block, journal_revoke(p, b)
            PROVE  /\ freed' = [freed EXCEPT ![b] = handle[p].tid] /\ use' = [use EXCEPT ![b] = "free"]
                   /\ revoke' = revoke \cup {b}
        BY <3>4 DEF journal_revoke
      <3>5. ASSUME NEW b \in Block, journal_dirty_data(p, b)
            PROVE  UNCHANGED <<freed, revoke>> /\ use' = [use EXCEPT ![b] = "data"]
        BY <3>5 DEF journal_dirty_data
      <3>6. \/ UNCHANGED <<revoke, use, freed>>
            \/ \E b \in Block : \/ journal_get_write_access(p, b) \/ journal_get_create_access(p, b)
                                \/ journal_revoke(p, b) \/ journal_dirty_data(p, b)
        BY <1>1 DEF Handles, start_this_handle, unused_access, journal_dirty_metadata, dirty_data_written,
             journal_stop, log_wait_commit, journal_flush, fs
      <3>7. revoke \in SUBSET Block
        BY <1>0 DEF FsType
      <3> QED BY <3>1, <3>2, <3>3, <3>4, <3>5, <3>6, <3>7
    <2>3. UNCHANGED <<stable, pending>>
      BY <1>1, HandlesKeep
    <2> QED BY <1>0, <2>1, <2>2, <2>3 DEF FsType, Uses
  <1>2. CASE commit_switch
    <2>1. UNCHANGED <<use, freed, stable>>
      BY <1>2 DEF commit_switch, fs
    <2>2. revoke' = {} /\ pending'.tid = running.tid /\ pending'.use = use
      BY <1>0, <1>2, SwitchIs
    <2> QED BY <1>0, <2>1, <2>2 DEF FsType, Kinds, RunType
  <1>3. CASE commit_finish
    <2>1. /\ UNCHANGED <<use, revoke, stable, pending>>
          /\ freed' = [b \in Block |-> IF freed[b] = committing.tid THEN 0 ELSE freed[b]]
      BY <1>3 DEF commit_finish, history
    <2>2. 0 \in Nat
      BY SMT
    <2> QED BY <1>0, <2>1, <2>2 DEF FsType
  <1>4. ASSUME UNCHANGED <<revoke, use, freed, pending>>, stable' \in {stable, pending} PROVE FsType'
    BY <1>0, <1>4 DEF FsType
  <1>5. CASE (Commit \/ commit_timeout) /\ ~commit_switch /\ ~commit_finish
    <2>1. UNCHANGED <<revoke, use, freed, pending, stable>>
      BY <1>5 DEF Commit, commit_timeout, commit_lock, write_out_data, commit_metadata,
           wait_for_iobuf, commit_record, fs, history
    <2> QED BY <1>4, <2>1
  <1>6. CASE Crash
    <2>1. /\ revoke' = {} /\ use' = stable.use /\ freed' = [b \in Block |-> 0] /\ pending' = stable
          /\ stable' = stable
      BY <1>6 DEF Crash
    <2>2. 0 \in Nat
      BY SMT
    <2> QED BY <1>0, <2>1, <2>2 DEF FsType
  <1>7. CASE Mount
    <2>1. \/ UNCHANGED <<stable, pending>>
          \/ stable' = FileSystem(stable.tid, use, disk) /\ pending' = stable'
      BY <1>7 DEF Mount, journal_recover, do_one_pass, journal_reset, history
    <2>2. ASSUME stable' = FileSystem(stable.tid, use, disk) PROVE stable'.tid = stable.tid /\ stable'.use = use
      BY <2>2 DEF FileSystem
    <2> QED BY <1>0, <1>7, <2>1, <2>2, MountKeep DEF FsType
  <1>8. CASE IoDone \/ \E b \in Block : write_back(b) \/ journal_try_to_free_buffer(b)
    <2>1. UNCHANGED <<revoke, use, freed, pending>> /\ stable' \in {stable, pending}
      BY <1>8 DEF IoDone, write_back, home_written, log_written, journal_try_to_free_buffer, fs, history
    <2> QED BY <1>4, <2>1, SMT
  <1>9. ASSUME NEW p \in Task, Checkpoint(p) PROVE FsType'
    <2>1. UNCHANGED <<revoke, use, freed, pending, stable>>
      BY <1>9, CheckpointKeep
    <2> QED BY <1>4, <2>1
  <1> QED BY <1>1, <1>2, <1>3, <1>5, <1>6, <1>7, <1>8, <1>9 DEF Next

-----------------------------------------------------------------------------
(* The stages of a commit, and of a mount. *)

\* A handle, a checkpoint and a commit need a mounted file system.
LEMMA Mounted ==
  /\ \A p \in Task : Handles(p) \/ Checkpoint(p) => mode = "mounted"
  /\ commit_timeout \/ Commit => mode = "mounted"
  /\ \A b \in Block : journal_try_to_free_buffer(b) => mode = "mounted"
  <1> USE Zenon
  <1>1. ASSUME NEW p \in Task, Handles(p) PROVE mode = "mounted"
    BY <1>1 DEF Handles, start_this_handle, unused_access, journal_dirty_metadata, dirty_data_written,
         journal_stop, log_wait_commit, journal_flush, journal_get_write_access, journal_get_create_access,
         journal_revoke, journal_dirty_data, At
  <1>2. ASSUME NEW p \in Task, Checkpoint(p) PROVE mode = "mounted"
    BY <1>2 DEF Checkpoint, log_wait_for_space, flush_buffers, cleanup_transaction, checkpoint_done,
         journal_flush_log, Scanning, At
  <1>3. commit_timeout \/ Commit => mode = "mounted"
    BY DEF Commit, commit_timeout, commit_lock, commit_switch, write_out_data, commit_metadata,
         wait_for_iobuf, commit_record, commit_finish, K
  <1>4. \A b \in Block : journal_try_to_free_buffer(b) => mode = "mounted"
    BY DEF journal_try_to_free_buffer
  <1> QED BY <1>1, <1>2, <1>3, <1>4

\* A step on one buffer.
LEMMA PutIs ==
  ASSUME BufType, NEW c \in Block, NEW q, Buffer(q), bh' = [bh EXCEPT ![c] = q]
  PROVE  BufType' /\ bh'[c] = q /\ \A b \in Block : b # c => bh'[b] = bh[b]
  BY Zenon DEF BufType

\* I/O on a buffer.
LEMMA TouchIs ==
  ASSUME BufType, NEW c \in Block, NEW l \in BOOLEAN,
         \/ bh' = [bh EXCEPT ![c].dirty = FALSE, ![c].locked = l]
         \/ bh' = [bh EXCEPT ![c].locked = l]
         \/ bh' = [bh EXCEPT ![c].dirty = FALSE]
  PROVE  LET r == bh[c]
             q == bh'[c]
         IN  /\ BufType' /\ (q.dirty = r.dirty \/ ~q.dirty) /\ q.data = r.data /\ q.jdirty = r.jdirty
             /\ q.frozen = r.frozen /\ q.jlist = r.jlist /\ q.trans = r.trans /\ q.next = r.next /\ q.cp = r.cp
             /\ \A b \in Block : b # c => bh'[b] = bh[b]
  <1> USE Zenon
  <1> DEFINE r == bh[c]
  <1>0. Buffer(r)
    BY DEF BufType
  <1>1. CASE bh' = [bh EXCEPT ![c].dirty = FALSE, ![c].locked = l]
    <2> DEFINE q == [r EXCEPT !.dirty = FALSE, !.locked = l]
    <2>1. bh' = [bh EXCEPT ![c] = q]
      BY <1>1 DEF BufType
    <2>2. /\ Buffer(q) /\ (q.dirty = r.dirty \/ ~q.dirty) /\ q.data = r.data /\ q.jdirty = r.jdirty
          /\ q.frozen = r.frozen /\ q.jlist = r.jlist /\ q.trans = r.trans /\ q.next = r.next /\ q.cp = r.cp
      BY <1>0 DEF Buffer, Fields
    <2> HIDE DEF q
    <2>3. BufType' /\ bh'[c] = q /\ \A b \in Block : b # c => bh'[b] = bh[b]
      BY <2>1, <2>2, PutIs
    <2> QED BY <2>2, <2>3
  <1>2. CASE bh' = [bh EXCEPT ![c].locked = l]
    <2> DEFINE q == [r EXCEPT !.locked = l]
    <2>1. bh' = [bh EXCEPT ![c] = q]
      BY <1>2 DEF BufType
    <2>2. /\ Buffer(q) /\ (q.dirty = r.dirty \/ ~q.dirty) /\ q.data = r.data /\ q.jdirty = r.jdirty
          /\ q.frozen = r.frozen /\ q.jlist = r.jlist /\ q.trans = r.trans /\ q.next = r.next /\ q.cp = r.cp
      BY <1>0 DEF Buffer, Fields
    <2> HIDE DEF q
    <2>3. BufType' /\ bh'[c] = q /\ \A b \in Block : b # c => bh'[b] = bh[b]
      BY <2>1, <2>2, PutIs
    <2> QED BY <2>2, <2>3
  <1>3. CASE bh' = [bh EXCEPT ![c].dirty = FALSE]
    <2> DEFINE q == [r EXCEPT !.dirty = FALSE]
    <2>1. bh' = [bh EXCEPT ![c] = q]
      BY <1>3 DEF BufType
    <2>2. /\ Buffer(q) /\ (q.dirty = r.dirty \/ ~q.dirty) /\ q.data = r.data /\ q.jdirty = r.jdirty
          /\ q.frozen = r.frozen /\ q.jlist = r.jlist /\ q.trans = r.trans /\ q.next = r.next /\ q.cp = r.cp
      BY <1>0 DEF Buffer, Fields
    <2> HIDE DEF q
    <2>3. BufType' /\ bh'[c] = q /\ \A b \in Block : b # c => bh'[b] = bh[b]
      BY <2>1, <2>2, PutIs
    <2> QED BY <2>2, <2>3
  <1> QED BY <1>1, <1>2, <1>3, SMT

\* Every step keeps Down.
LEMMA DownStep ==
  ASSUME IInv, Next
  PROVE  Down'
  <1> USE Zenon
  <1>0. Down /\ BufType
    BY DEF IInv, Types
  <1>1. CASE Crash
    <2>1. /\ running' = NoTrans /\ committing' = NoCommit /\ cplist' = {} /\ revoke' = {}
          /\ handle' = [p \in Task |-> NoHandle] /\ kjournald' = "sleep" /\ j' = JournalReset(2)
          /\ logio' = {} /\ freed' = [b \in Block |-> 0] /\ bh' = [b \in Block |-> CleanBuffer(0)]
      BY <1>1 DEF Crash
    <2> QED BY <2>1 DEF Down, CleanBuffer
  <1>2. CASE mode = "mounted" /\ ~Crash
    <2>1. mode' = "mounted"
      BY <1>2, HandlesKeep, CheckpointKeep, CommitKeep, IoKeep
         DEF Next, Mount, journal_recover, do_one_pass, journal_reset, journal_try_to_free_buffer
    <2> QED BY <2>1 DEF Down
  <1>3. CASE mode # "mounted" /\ ~Crash
    <2>0. /\ running = NoTrans /\ committing = NoCommit /\ cplist = {} /\ revoke = {}
          /\ handle = [p \in Task |-> NoHandle] /\ kjournald = "sleep" /\ j = JournalReset(2)
          /\ logio = {} /\ freed = [b \in Block |-> 0]
          /\ \A b \in Block : bh[b].trans = 0
      BY <1>0, <1>3 DEF Down
    <2>1. Mount \/ \E b \in Block : write_back(b) \/ home_written(b)
      BY <1>3, <2>0, Mounted DEF Next, IoDone
    <2>2. CASE Mount
      <3>1. \/ mode' = "mounted"
            \/ /\ UNCHANGED j
               /\ \A b \in Block : bh'[b] = bh[b] \/ \E v : bh'[b] = [CleanBuffer(v) EXCEPT !.dirty = TRUE]
        BY <2>2 DEF Mount, journal_recover, do_one_pass, journal_reset, buffers
      <3>2. \A v : [CleanBuffer(v) EXCEPT !.dirty = TRUE].trans = 0
        BY DEF CleanBuffer
      <3> QED BY <2>0, <2>2, <3>1, <3>2, MountKeep DEF Down
    <2>3. ASSUME NEW c \in Block, write_back(c) \/ home_written(c) PROVE Down'
      <3>1. /\ UNCHANGED <<j, running, committing, cplist, revoke, freed, handle, kjournald, logio>>
            /\ \/ bh' = bh \/ bh' = [bh EXCEPT ![c].dirty = FALSE, ![c].locked = TRUE]
               \/ bh' = [bh EXCEPT ![c].locked = FALSE]
        BY <2>3 DEF write_back, home_written, fs
      <3>2. \A b \in Block : bh'[b].trans = bh[b].trans
        BY <1>0, <3>1, TouchIs
      <3> QED BY <2>0, <3>1, <3>2 DEF Down
    <2> QED BY <2>1, <2>2, <2>3
  <1> QED BY <1>1, <1>2, <1>3, SMT

\* The conditions under which a step that is not the commit thread's keeps StageInv.
LEMMA StageKept ==
  ASSUME TidType, StageInv, UNCHANGED <<kjournald, committing, running.locked>>,
         running'.tid = 0 => UNCHANGED <<running, revoke>>,
         TidStep, ~running.locked \/ UNCHANGED running.tid
  PROVE  StageInv'
  <1> USE Zenon
  <1>1. CASE kjournald = "locked"
    <2>1. running.tid # 0 /\ j.commit_request = running.tid /\ committing.tid = 0 /\ running.locked
      BY <1>1 DEF StageInv
    <2>2. running'.tid = running.tid /\ Asked
      BY <2>1 DEF TidStep, Started, Switched, Finished, Rebooted
    <2>3. PICK t \in {0, running.tid, committing.tid} :
            j'.commit_request = IF j.commit_request >= t THEN j.commit_request ELSE t
      BY <2>2 DEF Asked
    <2>4. j'.commit_request = running.tid
      BY <2>1, <2>3, SMT DEF TidType
    <2> QED BY <1>1, <2>1, <2>2, <2>4 DEF StageInv
  <1>2. CASE kjournald # "locked"
    BY <1>2 DEF StageInv
  <1> QED BY <1>1, <1>2, SMT

\* Every step keeps StageInv.
LEMMA StageStep ==
  ASSUME IInv, Next
  PROVE  StageInv'
  <1> USE Zenon
  <1>0. Kinds /\ HandleType /\ Down /\ StageInv /\ HandleInv /\ TidInv /\ FsType
    BY DEF IInv, Types, Kinds
  <1>1. TidType /\ TidStep
    BY <1>0, TidTypes, Ids DEF Kinds
  <1>2. ASSUME NEW p \in Task, Handles(p) PROVE StageInv'
    <2>1. UNCHANGED <<kjournald, committing>>
      BY <1>2, HandlesKeep
    <2>2. CASE start_this_handle(p)
      <3>1. ~running.locked /\ running'.locked = FALSE /\ (running'.tid = 0 => UNCHANGED running)
        <4>1. RunType /\ JType /\ j.transaction_sequence # 0
          BY <1>0, <1>1, SMT DEF Kinds, TidInv, TidType
        <4> QED BY <1>0, <2>2, <4>1, StartIs DEF Kinds, RunType
      <3>2. UNCHANGED revoke
        BY <2>2 DEF start_this_handle
      <3>3. running'.locked = running.locked
        BY <1>0, <3>1 DEF Kinds, RunType
      <3> QED BY <1>0, <1>1, <2>1, <3>1, <3>2, <3>3, StageKept, SMT
    <2>3. CASE journal_stop(p)
      <3>1. /\ handle[p].tid = running.tid /\ running.tid # 0
            /\ running' = [running EXCEPT !.updates = @ - 1, !.credits = @ - handle[p].credits]
        BY <1>0, <2>3 DEF journal_stop, At, Open, HandleInv
      <3>2. running'.tid = running.tid /\ running'.locked = running.locked
        BY <1>0, <3>1 DEF Kinds, RunType
      <3> QED BY <1>0, <1>1, <2>1, <3>1, <3>2, StageKept
    <2>4. CASE journal_flush(p)
      <3>1. UNCHANGED <<running, revoke>>
        BY <2>4 DEF journal_flush
      <3> QED BY <1>0, <1>1, <2>1, <3>1, StageKept
    <2>5. CASE UNCHANGED <<j, running>> /\ (running.tid = 0 => UNCHANGED revoke)
      BY <1>0, <1>1, <2>1, <2>5, StageKept
    <2>6. ASSUME NEW b \in Block,
                 \/ journal_get_write_access(p, b) \/ journal_get_create_access(p, b)
                 \/ journal_revoke(p, b) \/ journal_dirty_data(p, b)
          PROVE  UNCHANGED <<j, running>> /\ (running.tid = 0 => UNCHANGED revoke)
      <3>1. UNCHANGED <<j, running>> /\ handle[p].pc = "open"
        BY <2>6 DEF journal_get_write_access, journal_get_create_access, journal_revoke, journal_dirty_data, At
      <3> QED BY <1>0, <3>1 DEF HandleInv, Open
    <2>7. \/ start_this_handle(p) \/ journal_stop(p) \/ journal_flush(p) \/ UNCHANGED <<j, running, revoke>>
          \/ \E b \in Block : \/ journal_get_write_access(p, b) \/ journal_get_create_access(p, b)
                              \/ journal_revoke(p, b) \/ journal_dirty_data(p, b)
      BY <1>2 DEF Handles, unused_access, journal_dirty_metadata, dirty_data_written, log_wait_commit
    <2> QED BY <2>2, <2>3, <2>4, <2>5, <2>6, <2>7
  <1>3. ASSUME NEW p \in Task, Checkpoint(p) PROVE StageInv'
    <2>1. UNCHANGED <<kjournald, committing, running, revoke>>
      BY <1>3, CheckpointKeep
    <2> QED BY <1>0, <1>1, <2>1, StageKept
  <1>4. CASE commit_timeout \/ Commit
    <2>1. CASE commit_lock
      <3>1. /\ K("sleep") /\ j.commit_sequence # j.commit_request /\ kjournald' = "locked"
            /\ running' = [running EXCEPT !.locked = TRUE] /\ UNCHANGED <<j, committing, revoke>>
        BY <2>1 DEF commit_lock
      <3>2. committing.tid = 0 /\ committing = NoCommit
        BY <1>0, <3>1 DEF StageInv, K
      <3>3. running.tid # 0 /\ j.commit_request = running.tid
        BY <1>0, <3>1, <3>2 DEF TidInv
      <3>4. running'.tid = running.tid /\ running'.locked
        BY <1>0, <3>1 DEF Kinds, RunType
      <3> QED BY <3>1, <3>2, <3>3, <3>4 DEF StageInv
    <2>2. CASE commit_switch
      <3>1. K("locked") /\ kjournald' = "flush" /\ running' = NoTrans /\ revoke' = {} /\ committing'.tid = running.tid
        BY <1>0, <2>2, SwitchIs
      <3>2. running.tid # 0
        BY <1>0, <3>1 DEF StageInv, K
      <3> QED BY <3>1, <3>2 DEF StageInv, NoTrans
    <2>3. CASE commit_metadata \/ wait_for_iobuf \/ commit_record
      <3>1. /\ UNCHANGED <<running, revoke>> /\ kjournald \in {"flush", "iobuf"} /\ kjournald' \in {"iobuf", "record"}
            /\ committing'.tid = committing.tid
        <4>1. CASE commit_metadata
          BY <1>0, <4>1, MetadataIs DEF commit_metadata, K
        <4>2. CASE wait_for_iobuf
          BY <1>0, <4>2, IobufIs DEF wait_for_iobuf, K
        <4>3. CASE commit_record
          BY <1>0, <4>3 DEF commit_record, K
        <4> QED BY <2>3, <4>1, <4>2, <4>3, SMT
      <3>2. committing.tid # 0 /\ ~running.locked
        BY <1>0, <3>1 DEF StageInv
      <3> QED BY <1>0, <3>1, <3>2 DEF StageInv
    <2>4. CASE commit_finish
      <3>1. K("record") /\ kjournald' = "sleep" /\ committing' = NoCommit /\ UNCHANGED <<running, revoke>>
        BY <2>4 DEF commit_finish
      <3> QED BY <1>0, <3>1 DEF StageInv, NoCommit, K
    <2>5. CASE commit_timeout \/ write_out_data
      <3>1. UNCHANGED <<kjournald, committing, running, revoke>>
        BY <2>5 DEF commit_timeout, write_out_data
      <3> QED BY <1>0, <1>1, <3>1, StageKept
    <2> QED BY <1>4, <2>1, <2>2, <2>3, <2>4, <2>5 DEF Commit
  <1>5. CASE Crash
    <2>1. running' = NoTrans /\ committing' = NoCommit /\ kjournald' = "sleep" /\ revoke' = {}
      BY <1>5 DEF Crash
    <2> QED BY <2>1 DEF StageInv, NoTrans, NoCommit
  <1>6. CASE Mount
    <2>1. UNCHANGED <<running, committing, kjournald, revoke>>
      BY <1>6, MountKeep
    <2> QED BY <1>0, <1>1, <2>1, StageKept
  <1>7. CASE IoDone \/ \E b \in Block : write_back(b) \/ journal_try_to_free_buffer(b)
    <2>1. UNCHANGED <<j, running, committing, kjournald, revoke>>
      BY <1>7, IoKeep DEF journal_try_to_free_buffer
    <2> QED BY <1>0, <1>1, <2>1, StageKept
  <1> QED BY <1>2, <1>3, <1>4, <1>5, <1>6, <1>7 DEF Next

-----------------------------------------------------------------------------
(* The buffers in a step of a handle. *)

\* Buffer r belongs to transaction t, now or next; and q is r as far as the committing transaction C and
\* the checkpoint lists go.
Has(r, t) == t # 0 /\ t \in {r.trans, r.next}
Same(r, q, C) == q.cp = r.cp /\ (C # 0 => (q.trans = C <=> r.trans = C) /\ (r.trans = C => q.jlist = r.jlist))

\* Write access by the running transaction does not disturb the committing one.
LEMMA AccessSame ==
  ASSUME NEW r, Buffer(r), NEW R \in Nat, NEW C \in Nat, C # R, R # 0, NEW u, NEW f, NEW k, NEW cs,
         BufOK(r, u, f, R, C, k, cs)
  PROVE  Same(r, GetWriteAccess(r, R), C)
  BY Zenon DEF Buffer, Fields, BufOK, GetWriteAccess, File, Lists, Same

\* Nor does dirtying the buffer in the running transaction.
LEMMA DirtySame ==
  ASSUME NEW r, Buffer(r), NEW R \in Nat, NEW C \in Nat, C # R, R # 0, NEW v
  PROVE  Same(r, DirtyMetadata(r, R, v), C)
  BY Zenon DEF Buffer, Fields, DirtyMetadata, File, Lists, Same

\* Nor does forgetting it there.
LEMMA ForgetSame ==
  ASSUME NEW r, Buffer(r), NEW R \in Nat, NEW C \in Nat, C # R, R # 0, NEW f \in Nat, NEW k, NEW cs \in Nat,
         BufOK(r, "meta", f, R, C, k, cs)
  PROVE  Same(r, Forget(r, R), C)
  <1> USE Zenon
  <1>1. CASE r.trans = R
    <2>1. Forget(r, R).cp = r.cp /\ BufOK(Forget(r, R), "free", R, R, C, k, cs)
      BY ForgetOK
    <2>2. Forget(r, R).trans \in {0, R}
      BY <1>1 DEF Buffer, Fields, Forget, Unfile, File
    <2> QED BY <1>1, <2>1, <2>2 DEF Same
  <1>2. CASE r.trans # R
    BY <1>2 DEF Buffer, Fields, Forget, Same
  <1> QED BY <1>1, <1>2, SMT

\* A new running transaction.
LEMMA NewOK ==
  ASSUME NEW r, NEW u, NEW f, NEW T \in Nat, NEW C \in Nat, NEW k, NEW cs, BufOK(r, u, f, 0, C, k, cs)
  PROVE  BufOK(r, u, f, T, C, k, cs)
  BY Zenon DEF BufOK

\* A step on buffer c only.
LEMMA OnePut ==
  ASSUME BufType, BufInv, NEW c \in Block, NEW q, Buffer(q), bh' = [bh EXCEPT ![c] = q],
         BufOK(q, use'[c], freed'[c], running.tid, committing.tid, kjournald, j.commit_sequence),
         \A b \in Block : b # c => use'[b] = use[b] /\ freed'[b] = freed[b],
         UNCHANGED <<running.tid, committing.tid, kjournald, j.commit_sequence>>
  PROVE  BufType' /\ BufInv' /\ bh'[c] = q /\ \A b \in Block : b # c => bh'[b] = bh[b]
  <1>1. BufType' /\ bh'[c] = q /\ \A b \in Block : b # c => bh'[b] = bh[b]
    BY PutIs, Zenon
  <1>2. BufInv'
    BY <1>1, Zenon DEF BufInv
  <1> QED BY <1>1, <1>2

\* I/O on a buffer.
LEMMA TouchOK ==
  ASSUME NEW r, NEW q, NEW u, NEW f, NEW R, NEW C, NEW k, NEW cs, BufOK(r, u, f, R, C, k, cs),
         q.dirty = r.dirty \/ ~q.dirty, q.jdirty = r.jdirty, q.frozen = r.frozen, q.jlist = r.jlist,
         q.trans = r.trans, q.next = r.next, q.cp = r.cp
  PROVE  BufOK(q, u, f, R, C, k, cs) /\ Same(r, q, C)
  BY Zenon DEF BufOK, Same

\* The transaction of an open handle is the running one.
LEMMA OpenIs ==
  ASSUME TidType, TidInv, HandleInv, NEW p \in Task, handle[p].pc \in Open
  PROVE  handle[p].tid = running.tid /\ running.tid # 0 /\ committing.tid # running.tid
  <1>1. handle[p].tid = running.tid /\ running.tid # 0
    BY Zenon DEF HandleInv
  <1> QED BY <1>1 DEF TidInv, TidType

\* The conjuncts of the invariant that the steps on buffers use.
LEMMA BufFacts ==
  ASSUME IInv
  PROVE  /\ TidType /\ TidInv /\ StageInv /\ HandleInv /\ HandleType /\ BufType /\ BufInv /\ FsType /\ Kinds
         /\ \A b \in Block :
              /\ Buffer(bh[b]) /\ freed[b] \in Nat
              /\ BufOK(bh[b], use[b], freed[b], running.tid, committing.tid, kjournald, j.commit_sequence)
  BY TidTypes, Zenon DEF IInv, Types, Kinds, BufType, FsType, BufInv

\* Getting access to a block keeps the buffers consistent and makes the block the transaction's.
LEMMA AccessBuf ==
  ASSUME IInv, NEW p \in Task, NEW c \in Block,
         journal_get_write_access(p, c) \/ journal_get_create_access(p, c)
  PROVE  /\ BufType' /\ BufInv' /\ \A b \in Block : Same(bh[b], bh'[b], committing.tid)
         /\ Has(bh'[c], running.tid) /\ \A b \in Block : b # c => bh'[b] = bh[b]
         /\ handle[p].tid = running.tid /\ running.tid # 0
         /\ running.tid \in Nat
  <1> USE Zenon
  <1> DEFINE r == bh[c]
             R == running.tid
             C == committing.tid
             cs == j.commit_sequence
             G == GetWriteAccess(r, R)
             D == DirtyMetadata(G, R, R)
  <1>0. /\ BufType /\ BufInv /\ FsType /\ R \in Nat /\ C \in Nat /\ cs \in Nat /\ Buffer(r) /\ freed[c] \in Nat
        /\ BufOK(r, use[c], freed[c], R, C, kjournald, cs)
    BY BufFacts DEF TidType
  <1>1. handle[p].pc \in Open
    BY DEF journal_get_write_access, journal_get_create_access, At, Open
  <1>2. handle[p].tid = R /\ R # 0 /\ C # R
    BY <1>1, BufFacts, OpenIs
  <1>3. UNCHANGED <<running, committing, kjournald, j, freed>>
    BY DEF journal_get_write_access, journal_get_create_access, fs
  <1>4. CASE journal_get_write_access(p, c)
    <2>1. bh' = [bh EXCEPT ![c] = G] /\ use[c] = "meta" /\ UNCHANGED use
      BY <1>2, <1>4 DEF journal_get_write_access, fs
    <2>2. Buffer(G) /\ BufOK(G, use[c], freed[c], R, C, kjournald, cs) /\ R \in {G.trans, G.next}
      BY <1>0, <1>2, <2>1, AccessOK
    <2>3. Same(r, G, C)
      BY <1>0, <1>2, AccessSame
    <2> HIDE DEF G
    <2>4. BufType' /\ BufInv' /\ bh'[c] = G /\ \A b \in Block : b # c => bh'[b] = bh[b]
      BY <1>0, <1>3, <2>1, <2>2, OnePut
    <2> QED BY <1>0, <1>2, <2>2, <2>3, <2>4 DEF Has, Same
  <1>5. CASE journal_get_create_access(p, c)
    <2>1. bh' = [bh EXCEPT ![c] = D] /\ use[c] = "free" /\ freed[c] = 0 /\ use' = [use EXCEPT ![c] = "meta"]
      BY <1>2, <1>5 DEF journal_get_create_access, Allocatable
    <2>2. BufOK(r, "meta", 0, R, C, kjournald, cs)
      BY <1>0, <2>1, ReuseOK
    <2>3. 0 \in Nat
      BY SMT
    <2>4. Buffer(G) /\ BufOK(G, "meta", 0, R, C, kjournald, cs) /\ R \in {G.trans, G.next} /\ Same(r, G, C)
      BY <1>0, <1>2, <2>2, <2>3, AccessOK, AccessSame
    <2> HIDE DEF G
    <2>5. Buffer(D) /\ BufOK(D, "meta", 0, R, C, kjournald, cs) /\ R \in {D.trans, D.next} /\ Same(G, D, C)
      BY <1>0, <1>2, <2>3, <2>4, DirtyOK, DirtySame
    <2> HIDE DEF D
    <2>6. use'[c] = "meta" /\ freed'[c] = 0 /\ \A b \in Block : b # c => use'[b] = use[b] /\ freed'[b] = freed[b]
      BY <1>0, <1>3, <2>1 DEF FsType, Uses
    <2>7. BufType' /\ BufInv' /\ bh'[c] = D /\ \A b \in Block : b # c => bh'[b] = bh[b]
      BY <1>0, <1>3, <2>1, <2>5, <2>6, OnePut
    <2>8. Same(r, D, C)
      BY <2>4, <2>5 DEF Same
    <2> QED BY <1>0, <1>2, <2>5, <2>7, <2>8 DEF Has, Same
  <1> QED BY <1>4, <1>5, SMT

\* journal_revoke() keeps the buffers consistent and touches no other block.
LEMMA RevokeBuf ==
  ASSUME IInv, NEW p \in Task, NEW c \in Block, journal_revoke(p, c)
  PROVE  /\ BufType' /\ BufInv' /\ \A b \in Block : Same(bh[b], bh'[b], committing.tid)
         /\ \A b \in Block : b # c => bh'[b] = bh[b]
         /\ handle[p].tid = running.tid /\ running.tid # 0
  <1> USE Zenon
  <1> DEFINE r == bh[c]
             R == running.tid
             C == committing.tid
             cs == j.commit_sequence
             G == Forget(r, R)
  <1>0. /\ BufType /\ BufInv /\ FsType /\ R \in Nat /\ C \in Nat /\ cs \in Nat /\ Buffer(r) /\ freed[c] \in Nat
        /\ BufOK(r, use[c], freed[c], R, C, kjournald, cs)
    BY BufFacts DEF TidType
  <1>1. handle[p].pc \in Open
    BY DEF journal_revoke, At, Open
  <1>2. handle[p].tid = R /\ R # 0 /\ C # R
    BY <1>1, BufFacts, OpenIs
  <1>3. /\ UNCHANGED <<running, committing, kjournald, j>> /\ bh' = [bh EXCEPT ![c] = G] /\ use[c] = "meta"
        /\ use' = [use EXCEPT ![c] = "free"] /\ freed' = [freed EXCEPT ![c] = R]
    BY <1>2 DEF journal_revoke
  <1>4. Buffer(G) /\ BufOK(G, "free", R, R, C, kjournald, cs) /\ Same(r, G, C)
    <2>1. BufOK(r, "meta", freed[c], R, C, kjournald, cs)
      BY <1>0, <1>3
    <2>2. Buffer(G) /\ BufOK(G, "free", R, R, C, kjournald, cs)
      BY <1>0, <1>2, <2>1, ForgetOK
    <2>3. Same(r, G, C)
      BY <1>0, <1>2, <2>1, ForgetSame
    <2> QED BY <2>2, <2>3
  <1> HIDE DEF G
  <1>5. use'[c] = "free" /\ freed'[c] = R /\ \A b \in Block : b # c => use'[b] = use[b] /\ freed'[b] = freed[b]
    BY <1>0, <1>3 DEF FsType, Uses
  <1>6. BufType' /\ BufInv' /\ bh'[c] = G /\ \A b \in Block : b # c => bh'[b] = bh[b]
    BY <1>0, <1>3, <1>4, <1>5, OnePut
  <1> QED BY <1>2, <1>4, <1>6 DEF Same

\* The other steps of a handle leave the transactions of a buffer alone.
Quiet(p) ==
  \/ start_this_handle(p) \/ unused_access(p) \/ journal_dirty_metadata(p)
  \/ dirty_data_written(p) \/ journal_stop(p) \/ log_wait_commit(p) \/ journal_flush(p)
  \/ \E b \in Block : journal_dirty_data(p, b)
\* So do the operations on handles that leave the ownership of every buffer alone.
LEMMA QuietBuf ==
  ASSUME IInv, Next, NEW p \in Task, Quiet(p)
  PROVE  /\ BufType' /\ BufInv'
         /\ \A b \in Block : /\ Same(bh[b], bh'[b], committing.tid)
                             /\ bh'[b].trans = bh[b].trans /\ bh'[b].next = bh[b].next
  <1> USE Zenon
  <1> DEFINE R == running.tid
             C == committing.tid
             cs == j.commit_sequence
  <1>0. /\ TidType /\ TidInv /\ StageInv /\ HandleInv /\ HandleType /\ BufType /\ BufInv /\ FsType /\ Kinds
        /\ R \in Nat /\ C \in Nat /\ cs \in Nat
        /\ \A b \in Block : Buffer(bh[b]) /\ freed[b] \in Nat /\ BufOK(bh[b], use[b], freed[b], R, C, kjournald, cs)
    BY BufFacts DEF TidType
  <1>1. UNCHANGED <<committing, kjournald>>
    <2>1. Handles(p)
      BY DEF Handles, Quiet
    <2> QED BY <2>1, HandlesKeep
  <1>2. CASE start_this_handle(p)
    <2>1. UNCHANGED <<bh, use, freed>>
      BY <1>2 DEF start_this_handle, buffers, fs
    <2>2. running'.tid \in Nat /\ (running.tid = 0 \/ running'.tid = running.tid) /\ j'.commit_sequence = j.commit_sequence
      <3>1. RunType /\ JType
        BY <1>0 DEF Kinds
      <3>2. Kinds'
        BY Ids
      <3>3. running.tid = 0 \/ running'.tid = running.tid
        BY <1>0, <1>2, <3>1, StartIs
      <3>4. j' = Request(j, running.tid) \/ j' = j \/ j' = [j EXCEPT !.transaction_sequence = @ + 1]
        BY <1>0, <1>2, <3>1, StartIs
      <3>5. j'.commit_sequence = j.commit_sequence
        BY <3>1, <3>4 DEF JType, JSet, Request
      <3> QED BY <3>2, <3>3, <3>5 DEF Kinds, RunType
    <2>3. BufType'
      BY <1>0, <2>1 DEF BufType
    <2>4. BufInv'
      BY <1>0, <1>1, <2>1, <2>2, NewOK DEF BufInv
    <2> QED BY <2>1, <2>3, <2>4 DEF Same
  <1>3. ASSUME UNCHANGED <<bh, use, freed, running.tid, j.commit_sequence>>
        PROVE  /\ BufType' /\ BufInv'
               /\ \A b \in Block : /\ Same(bh[b], bh'[b], committing.tid)
                                   /\ bh'[b].trans = bh[b].trans /\ bh'[b].next = bh[b].next
    <2>1. BufType'
      BY <1>0, <1>3 DEF BufType
    <2>2. BufInv'
      BY <1>0, <1>1, <1>3 DEF BufInv
    <2> QED BY <1>3, <2>1, <2>2 DEF Same
  <1>4. CASE \/ unused_access(p) \/ dirty_data_written(p) \/ log_wait_commit(p)
    <2>1. UNCHANGED <<bh, use, freed, running, j>>
      BY <1>4 DEF unused_access, dirty_data_written, log_wait_commit, buffers, fs
    <2> QED BY <1>3, <2>1
  <1>5. CASE journal_stop(p) \/ journal_flush(p)
    <2>1. /\ UNCHANGED <<bh, use, freed>> /\ (j' = j \/ \E t \in Nat : j' = Request(j, t))
          /\ running' = running \/ running' = [running EXCEPT !.updates = @ - 1, !.credits = @ - handle[p].credits]
      <3>1. CASE journal_stop(p)
        BY <1>0, <3>1 DEF journal_stop, buffers, fs, HandleType, HSet
      <3>2. CASE journal_flush(p)
        BY <1>0, <3>2 DEF journal_flush, buffers, fs, TidType
      <3> QED BY <1>5, <3>1, <3>2, SMT
    <2>2. running'.tid = running.tid
      BY <1>0, <2>1 DEF Kinds, RunType
    <2>3. j'.commit_sequence = j.commit_sequence
      BY <1>0, <2>1 DEF Kinds, JType, JSet, Request
    <2> QED BY <1>3, <2>1, <2>2, <2>3
  <1>6. CASE journal_dirty_metadata(p)
    <2> DEFINE c == handle[p].b
               D == DirtyMetadata(bh[c], R, R)
    <2>1. handle[p].pc = "access" /\ UNCHANGED <<use, freed, running, j>>
      BY <1>6 DEF journal_dirty_metadata, At, fs
    <2>2. handle[p].pc \in Open
      BY <2>1 DEF Open
    <2>3. handle[p].tid = R /\ R # 0 /\ C # R
      BY <1>0, <2>2, OpenIs
    <2>4. c \in Block /\ use[c] = "meta" /\ R \in {bh[c].trans, bh[c].next}
      BY <1>0, <2>1 DEF HandleInv
    <2>5. bh' = [bh EXCEPT ![c] = D]
      BY <1>6, <2>3 DEF journal_dirty_metadata
    <2>6. Buffer(D) /\ BufOK(D, use[c], freed[c], R, C, kjournald, cs) /\ Same(bh[c], D, C)
      BY <1>0, <2>3, <2>4, DirtyOK, DirtySame
    <2>7. D.trans = bh[c].trans /\ D.next = bh[c].next
      BY <1>0, <2>4 DEF DirtyMetadata, File, Buffer, Fields
    <2> HIDE DEF D
    <2>8. BufType' /\ BufInv' /\ bh'[c] = D /\ \A b \in Block : b # c => bh'[b] = bh[b]
      BY <1>0, <1>1, <2>1, <2>4, <2>5, <2>6, OnePut
    <2> QED BY <2>4, <2>6, <2>7, <2>8 DEF Same
  <1>7. ASSUME NEW c \in Block, journal_dirty_data(p, c)
        PROVE  /\ BufType' /\ BufInv'
               /\ \A b \in Block : /\ Same(bh[b], bh'[b], committing.tid)
                                   /\ bh'[b].trans = bh[b].trans /\ bh'[b].next = bh[b].next
    <2>1. /\ UNCHANGED <<freed, running, j>> /\ use' = [use EXCEPT ![c] = "data"]
          /\ \/ use[c] = "data" /\ UNCHANGED bh
             \/ use[c] = "free" /\ freed[c] = 0 /\ bh' = [bh EXCEPT ![c].dirty = FALSE]
      BY <1>7 DEF journal_dirty_data, Allocatable
    <2>2. use'[c] = "data" /\ \A b \in Block : b # c => use'[b] = use[b]
      BY <1>0, <2>1 DEF FsType, Uses
    <2>3. CASE use[c] = "data" /\ UNCHANGED bh
      <3>1. BufType'
        BY <1>0, <2>3 DEF BufType
      <3>2. BufInv'
        BY <1>0, <1>1, <2>1, <2>2, <2>3 DEF BufInv
      <3> QED BY <2>3, <3>1, <3>2 DEF Same
    <2>4. CASE use[c] = "free" /\ freed[c] = 0 /\ bh' = [bh EXCEPT ![c].dirty = FALSE]
      <3> DEFINE r == bh[c]
                 q == bh'[c]
      <3>1. /\ BufType' /\ (q.dirty = r.dirty \/ ~q.dirty) /\ q.data = r.data /\ q.jdirty = r.jdirty
            /\ q.frozen = r.frozen /\ q.jlist = r.jlist /\ q.trans = r.trans /\ q.next = r.next /\ q.cp = r.cp
            /\ \A b \in Block : b # c => bh'[b] = bh[b]
        BY <1>0, <2>4, TouchIs
      <3>2. BufOK(r, "data", 0, R, C, kjournald, cs)
        BY <1>0, <2>4, ReuseOK
      <3>3. BufOK(q, "data", 0, R, C, kjournald, cs) /\ Same(r, q, C)
        BY <3>1, <3>2, TouchOK
      <3>4. BufInv'
        BY <1>0, <1>1, <2>1, <2>2, <2>4, <3>1, <3>3 DEF BufInv
      <3> QED BY <3>1, <3>3, <3>4 DEF Same
    <2> QED BY <2>1, <2>3, <2>4
  <1> QED BY <1>2, <1>4, <1>5, <1>6, <1>7 DEF Quiet

\* The ring of the log: where it begins and ends.
Still == UNCHANGED <<j.head, j.tail, j.free, j.tail_sequence>>

\* A checkpoint moves the tail or leaves the ring alone.
LEMMA CheckpointRing ==
  ASSUME Kinds, ListType, BufInv, RingInv, NEW p \in Task, Checkpoint(p)
  PROVE  (Still \/ j' = CleanedTail) /\ UNCHANGED <<j.transaction_sequence, j.commit_sequence>>
  <1> USE Zenon
  <1>0. RunType /\ CommitType /\ JType /\ j \in JSet /\ TidType
    BY TidTypes DEF Kinds, JType
  <1>1. \/ UNCHANGED j \/ j' = CleanedTail \/ j' = [j EXCEPT !.flushed = TRUE]
        \/ \E b \in Block : j' = Request(j, bh[b].trans)
    BY DEF Checkpoint, log_wait_for_space, flush_buffers, cleanup_transaction, checkpoint_done,
             journal_flush_log, cleanup_journal_tail
  <1>2. CASE j' = CleanedTail
    <2>1. committing.tid # 0 => committing.log_start \in 1 .. LogLen
      BY DEF RingInv
    <2> QED BY <1>0, <1>2, <2>1, TailIs, SMT
  <1>3. CASE UNCHANGED j \/ j' = [j EXCEPT !.flushed = TRUE] \/ \E b \in Block : j' = Request(j, bh[b].trans)
    BY <1>0, <1>3 DEF Request, JSet, Still
  <1> QED BY <1>1, <1>2, <1>3, SMT

\* Input and output, and a checkpoint, leave the transactions of a buffer alone.
Touched(r, q) ==
  /\ (q.dirty = r.dirty \/ ~q.dirty) /\ q.jdirty = r.jdirty /\ q.frozen = r.frozen /\ q.jlist = r.jlist
  /\ q.trans = r.trans /\ q.next = r.next /\ q.cp \in {r.cp, 0}
\* A buffer that only lost its dirty bit, its lock or its checkpoint list stays consistent.
LEMMA TouchedOK ==
  ASSUME NEW r, NEW q, NEW u, NEW f, NEW R, NEW C, NEW k, NEW cs \in Nat, BufOK(r, u, f, R, C, k, cs), Touched(r, q)
  PROVE  BufOK(q, u, f, R, C, k, cs)
  <1> USE Zenon
  <1>1. q.cp <= cs
    <2>1. q.cp = r.cp \/ q.cp = 0
      BY DEF Touched
    <2>2. r.cp <= cs
      BY DEF BufOK
    <2>3. 0 <= cs
      BY SMT
    <2> QED BY <2>1, <2>2, <2>3
  <1> QED BY <1>1 DEF BufOK, Touched

\* The buffers after a checkpoint, a write, or memory pressure.
LEMMA TouchBuf ==
  ASSUME IInv, Next, \/ \E p \in Task : Checkpoint(p)
                     \/ IoDone
                     \/ \E b \in Block : write_back(b) \/ journal_try_to_free_buffer(b)
  PROVE  /\ BufType' /\ BufInv' /\ CpInv' /\ \A b \in Block : Touched(bh[b], bh'[b])
         /\ cplist' \subseteq cplist /\ UNCHANGED <<running, committing, kjournald, revoke, use, freed>>
  <1> USE Zenon
  <1> DEFINE Goal == BufType' /\ CpInv' /\ \A b \in Block : Touched(bh[b], bh'[b])
  <1>0. BufType /\ BufInv /\ CpInv /\ TidType /\ \A b \in Block : Buffer(bh[b])
    BY BufFacts DEF IInv
  <1>1. ASSUME UNCHANGED <<bh, cplist>> PROVE Goal
    BY <1>0, <1>1 DEF BufType, CpInv, Touched
  <1>2. ASSUME NEW c \in Block, UNCHANGED cplist,
               bh' = bh \/ bh' = [bh EXCEPT ![c].dirty = FALSE, ![c].locked = TRUE] \/ bh' = [bh EXCEPT ![c].locked = FALSE]
        PROVE  Goal
    <2>1. CASE bh' = bh
      BY <1>1, <1>2, <2>1
    <2>2. CASE bh' # bh
      <3>1. BufType' /\ Touched(bh[c], bh'[c]) /\ bh'[c].cp = bh[c].cp /\ \A b \in Block : b # c => bh'[b] = bh[b]
        BY <1>0, <1>2, <2>2, TouchIs DEF Touched
      <3>2. \A b \in Block : Touched(bh[b], bh'[b]) /\ bh'[b].cp = bh[b].cp
        BY <3>1 DEF Touched
      <3> QED BY <1>0, <1>2, <3>1, <3>2 DEF CpInv
    <2> QED BY <2>1, <2>2, SMT
  <1>3. ASSUME NEW p \in Task, Checkpoint(p) PROVE Goal
    <2>1. CASE flush_buffers(p)
      <3>1. /\ cplist' = Dropped(cplist, bh')
            /\ bh' = [b \in Block |->
                 IF b \in ToFlush THEN [bh[b] EXCEPT !.locked = TRUE, !.dirty = FALSE]
                 ELSE IF b \in ToDrop THEN [bh[b] EXCEPT !.cp = 0] ELSE bh[b]]
        BY <2>1 DEF flush_buffers
      <3>2. ASSUME NEW b \in Block PROVE Buffer(bh'[b]) /\ Touched(bh[b], bh'[b])
        <4>1. \/ bh'[b] = [bh[b] EXCEPT !.locked = TRUE, !.dirty = FALSE]
              \/ bh'[b] = [bh[b] EXCEPT !.cp = 0]
              \/ bh'[b] = bh[b]
          BY <3>1
        <4>2. Buffer(bh[b]) /\ 0 \in Nat
          BY <1>0, SMT
        <4> QED BY <4>1, <4>2 DEF Buffer, Fields, Touched
      <3>3. bh' = [b \in Block |-> bh'[b]]
        BY <3>1
      <3> QED BY <3>1, <3>2, <3>3 DEF BufType, CpInv, Dropped
    <2>2. CASE ~flush_buffers(p)
      <3>1. UNCHANGED <<bh, cplist>>
        BY <1>3, <2>2 DEF Checkpoint, log_wait_for_space, cleanup_transaction, checkpoint_done,
                                 journal_flush_log, buffers
      <3> QED BY <1>1, <3>1
    <2> QED BY <2>1, <2>2, SMT
  <1>4. ASSUME NEW c \in Block, write_back(c) \/ home_written(c) PROVE Goal
    BY <1>2, <1>4 DEF write_back, home_written
  <1>5. ASSUME NEW w \in logio, log_written(w) PROVE Goal
    BY <1>1, <1>5 DEF log_written, buffers
  <1>6. ASSUME NEW c \in Block, journal_try_to_free_buffer(c) PROVE Goal
    <2>1. CASE UNCHANGED <<bh, cplist>>
      BY <1>1, <2>1
    <2>2. CASE bh' = [bh EXCEPT ![c].cp = 0] /\ cplist' = Dropped(cplist, bh')
      <3> DEFINE q == [bh[c] EXCEPT !.cp = 0]
      <3>1. bh' = [bh EXCEPT ![c] = q]
        BY <2>2
      <3>2. Buffer(bh[c]) /\ 0 \in Nat
        BY <1>0, SMT
      <3>3. Buffer(q) /\ Touched(bh[c], q)
        BY <3>2 DEF Buffer, Fields, Touched
      <3> HIDE DEF q
      <3>4. BufType' /\ bh'[c] = q /\ \A b \in Block : b # c => bh'[b] = bh[b]
        BY <1>0, <3>1, <3>3, PutIs
      <3>5. \A b \in Block : Touched(bh[b], bh'[b])
        BY <3>3, <3>4 DEF Touched
      <3> QED BY <2>2, <3>4, <3>5 DEF CpInv, Dropped
    <2> QED BY <1>6, <2>1, <2>2 DEF journal_try_to_free_buffer
  <1>7. Goal
    BY <1>3, <1>4, <1>5, <1>6 DEF IoDone
  <1> HIDE DEF Goal
  <1>8. UNCHANGED <<running, committing, kjournald, revoke, use, freed, j.commit_sequence>>
    <2>1. UNCHANGED <<running, committing, kjournald, revoke, use, freed>>
      BY CheckpointKeep, IoKeep DEF journal_try_to_free_buffer, fs
    <2>2. CASE UNCHANGED j
      BY <2>1, <2>2
    <2>3. ASSUME NEW p \in Task, Checkpoint(p) PROVE UNCHANGED j.commit_sequence
      <3>1. Kinds /\ ListType /\ BufInv /\ RingInv
        BY BufFacts DEF IInv, Types
      <3> QED BY <2>3, <3>1, CheckpointRing
    <2> QED BY <2>1, <2>2, <2>3, IoKeep DEF journal_try_to_free_buffer
  <1>9. cplist' \subseteq cplist
    BY IoKeep DEF Checkpoint, log_wait_for_space, flush_buffers, cleanup_transaction, checkpoint_done,
             journal_flush_log, journal_try_to_free_buffer, Dropped
  <1>10. BufInv'
    BY <1>0, <1>7, <1>8, TouchedOK DEF BufInv, TidType, Goal
  <1> QED BY <1>7, <1>8, <1>9, <1>10 DEF Goal

\* The commit thread moves on past the lists that it has emptied.
LEMMA NextStageOK ==
  ASSUME NEW r, NEW u, NEW f, NEW R, NEW C, NEW k, NEW cs, BufOK(r, u, f, R, C, k, cs), NEW k2,
         r.jlist = "Shadow" => k2 = "iobuf",
         r.trans # 0 /\ r.trans = C /\ r.jlist = "Metadata" => k2 = "flush"
  PROVE  BufOK(r, u, f, R, C, k2, cs)
  BY Zenon DEF BufOK

\* A buffer that goes to the log (journal_write_metadata_buffer).
LEMMA ShadowOK ==
  ASSUME NEW b \in Block, NEW u, NEW f \in Nat, NEW R \in Nat, NEW cs \in Nat,
         Buffer(bh[b]), BufOK(bh[b], u, f, R, committing.tid, "flush", cs),
         committing.tid \in Nat, committing.tid # 0, bh[b].trans = committing.tid, bh[b].jlist = "Metadata"
  PROVE  LET q == Shadowed(b)
         IN  /\ Buffer(q) /\ BufOK(q, u, f, R, committing.tid, "iobuf", cs)
             /\ q.trans = committing.tid /\ q.next = bh[b].next /\ q.cp = bh[b].cp
  <1> USE Zenon
  <1> DEFINE C == committing.tid
             r == bh[b]
             m == File(r, C, "Shadow")
             q == Shadowed(b)
  <1>1. Buffer(m) /\ m.trans = C /\ m.next = r.next /\ m.cp = r.cp /\ m.jlist = "Shadow" /\ m.jdirty /\ ~m.dirty
    BY DEF Buffer, Fields, File, BufOK, Lists
  <1>2. q = m \/ \E v : q = [m EXCEPT !.frozen = v]
    BY DEF Shadowed
  <1> HIDE DEF m, q
  <1>3. Buffer(q) /\ q.trans = C /\ q.next = r.next /\ q.cp = r.cp /\ q.jlist = "Shadow" /\ q.jdirty /\ ~q.dirty
    BY <1>1, <1>2 DEF Buffer, Fields
  <1>4. BufOK(q, u, f, R, C, "iobuf", cs)
    BY <1>3 DEF BufOK
  <1> QED BY <1>3, <1>4 DEF q

\* A checkpoint list that the step leaves alone, and buffers that stay on theirs.
LEMMA CpKept ==
  ASSUME CpInv, cplist' \subseteq cplist, \A b \in Block : bh'[b].cp = bh[b].cp
  PROVE  CpInv'
  BY Zenon DEF CpInv

\* The io buffers of a commit are of blocks of the file system.
LEMMA IobufBlocks ==
  ASSUME CommitType
  PROVE  \A i \in DOMAIN committing.iobufs : committing.iobufs[i].b \in Block
  <1> DEFINE S == [b : Block, pos : Int]
             s == committing.iobufs
  <1>1. s \in Seq(S)
    BY Zenon DEF CommitType
  <1> HIDE DEF S, s
  <1>2. \A i \in DOMAIN s : s[i] \in S
    BY <1>1
  <1> QED BY <1>2, Zenon DEF S, s

\* What a commit step that is no switch leaves alone.
LEMMA ShadowKept ==
  ASSUME IInv, BufInv', UNCHANGED <<committing, kjournald>>, \A b \in Block : Same(bh[b], bh'[b], committing.tid)
  PROVE  ShadowInv'
  <1> USE Zenon
  <1>0. ShadowInv /\ BufInv /\ StageInv /\ CommitType
    BY DEF IInv, Types
  <1>1. CASE committing.tid = 0
    <2>1. committing = NoCommit /\ kjournald # "iobuf"
      BY <1>0, <1>1 DEF StageInv
    <2>2. committing'.iobufs = << >>
      BY <2>1 DEF NoCommit
    <2>3. DOMAIN committing'.iobufs = {}
      BY <2>2, SMT
    <2>4. \A b \in Block : bh'[b].jlist # "Shadow"
      BY <2>1 DEF BufInv, BufOK
    <2> QED BY <2>3, <2>4 DEF ShadowInv
  <1>2. CASE committing.tid # 0
    <2>1. \A i \in DOMAIN committing.iobufs : committing.iobufs[i].b \in Block
      BY <1>0, IobufBlocks
    <2>2. \A b \in Block : bh'[b].jlist = "Shadow" => bh'[b].trans = committing.tid
      BY DEF BufInv, BufOK
    <2> QED BY <1>0, <1>2, <2>1, <2>2 DEF ShadowInv, Same
  <1> QED BY <1>1, <1>2, SMT

\* The buffers when the running transaction becomes the committing one.
LEMMA SwitchBuf ==
  ASSUME IInv, commit_switch
  PROVE  /\ BufType' /\ BufInv' /\ CpInv' /\ ShadowInv'
         /\ \A b \in Block : bh'[b].trans = running.tid => bh[b].trans = running.tid
         /\ cplist' \subseteq cplist /\ running.tid # 0 /\ committing.tid = 0
  <1> USE Zenon
  <1> DEFINE R == running.tid
             cs == j.commit_sequence
  <1>0. /\ TidType /\ StageInv /\ FsType /\ Kinds /\ R \in Nat /\ cs \in Nat
        /\ \A b \in Block : /\ Buffer(bh[b]) /\ freed[b] \in Nat
                            /\ BufOK(bh[b], use[b], freed[b], R, committing.tid, kjournald, cs)
    BY BufFacts DEF TidType
  <1>1. /\ K("locked") /\ kjournald' = "flush" /\ running' = NoTrans /\ committing'.tid = R
        /\ committing'.iobufs = << >> /\ j'.commit_sequence = cs
    BY <1>0, SwitchIs
  <1>2. kjournald = "locked" /\ committing.tid = 0 /\ R # 0
    BY <1>0, <1>1 DEF K, StageInv
  <1>3. /\ UNCHANGED <<use, freed>> /\ cplist' = Dropped(cplist, bh')
        /\ bh' = [b \in Block |-> CleanCheckpoint(IF bh[b].trans = R /\ bh[b].jlist = "Reserved"
                                                  THEN Refile(bh[b]) ELSE bh[b])]
    BY DEF commit_switch, fs
  <1>4. running'.tid = 0
    BY <1>1 DEF NoTrans
  <1>5. ASSUME NEW b \in Block
        PROVE  /\ Buffer(bh'[b]) /\ BufOK(bh'[b], use[b], freed[b], 0, R, "flush", cs)
               /\ bh'[b].trans = R => bh[b].trans = R
    <2>1. Buffer(bh[b]) /\ BufOK(bh[b], use[b], freed[b], R, 0, kjournald, cs) /\ freed[b] \in Nat
      BY <1>0, <1>2
    <2> DEFINE q == CleanCheckpoint(IF bh[b].trans = R /\ bh[b].jlist = "Reserved" THEN Refile(bh[b]) ELSE bh[b])
    <2>2. Buffer(q) /\ BufOK(q, use[b], freed[b], 0, R, "flush", cs) /\ (q.trans = R => bh[b].trans = R)
      BY <1>0, <1>2, <2>1, SwitchOK
    <2>3. bh'[b] = q
      BY <1>3
    <2> HIDE DEF q
    <2> QED BY <2>2, <2>3
  <1>6. BufType'
    BY <1>3, <1>5 DEF BufType
  <1>7. BufInv'
    BY <1>1, <1>3, <1>4, <1>5 DEF BufInv
  <1>8. CpInv' /\ cplist' \subseteq cplist
    BY <1>3 DEF CpInv, Dropped
  <1>9. ShadowInv'
    <2>1. DOMAIN committing'.iobufs = {}
      BY <1>1, SMT
    <2>2. \A b \in Block : bh'[b].jlist # "Shadow"
      BY <1>5 DEF BufOK
    <2> QED BY <2>1, <2>2 DEF ShadowInv
  <1> QED BY <1>2, <1>5, <1>6, <1>7, <1>8, <1>9

\* The metadata goes to the log: its buffers are in the io buffers of the commit.
LEMMA MetadataBuf ==
  ASSUME IInv, commit_metadata
  PROVE  /\ BufType' /\ BufInv' /\ CpInv' /\ ShadowInv'
         /\ \A b \in Block : bh'[b].trans = bh[b].trans /\ bh'[b].next = bh[b].next
         /\ UNCHANGED <<running, use, freed, cplist>>
  <1> USE Zenon
  <1> DEFINE R == running.tid
             C == committing.tid
             cs == j.commit_sequence
  <1>0. /\ TidType /\ StageInv /\ FsType /\ Kinds /\ R \in Nat /\ C \in Nat /\ cs \in Nat /\ CpInv
        /\ \A b \in Block : /\ Buffer(bh[b]) /\ freed[b] \in Nat
                            /\ BufOK(bh[b], use[b], freed[b], R, C, kjournald, cs)
    BY BufFacts DEF TidType, IInv
  <1>1. /\ kjournald = "flush" /\ kjournald' = "iobuf" /\ committing'.tid = C
        /\ \E s \in Bijection(1 .. Cardinality(Logged), Logged) :
             DOMAIN committing'.iobufs = DOMAIN s /\ \A i \in DOMAIN s : committing'.iobufs[i].b = s[i]
    BY <1>0, MetadataIs DEF K
  <1>2. /\ UNCHANGED <<running, use, freed, cplist>>
        /\ bh' = [b \in Block |-> IF b \in Logged THEN Shadowed(b) ELSE bh[b]]
    BY DEF commit_metadata, Logged, fs
  <1>3. C # 0
    BY <1>0, <1>1 DEF StageInv
  <1>4. j'.commit_sequence = cs
    <2>1. j \in JSet /\ \E n \in Nat : j' = journal_next_log_block(n)
      BY <1>0, MetadataIs DEF Kinds, JType
    <2> QED BY <1>0, <2>1, NextBlockIs DEF Kinds
  <1>5. ASSUME NEW b \in Block
        PROVE  /\ Buffer(bh'[b]) /\ BufOK(bh'[b], use[b], freed[b], R, C, "iobuf", cs)
               /\ bh'[b].trans = bh[b].trans /\ bh'[b].next = bh[b].next /\ bh'[b].cp = bh[b].cp
               /\ bh'[b].jlist = "Shadow" => b \in Logged
    <2>1. Buffer(bh[b]) /\ BufOK(bh[b], use[b], freed[b], R, C, "flush", cs) /\ freed[b] \in Nat
      BY <1>0, <1>1
    <2>2. CASE b \in Logged
      <3>1. bh'[b] = Shadowed(b) /\ bh[b].trans = C /\ bh[b].jlist = "Metadata"
        BY <1>2, <2>2 DEF Logged
      <3> QED BY <1>0, <1>3, <2>1, <2>2, <3>1, ShadowOK
    <2>3. CASE b \notin Logged
      <3>1. bh'[b] = bh[b] /\ ~(bh[b].trans = C /\ bh[b].jlist = "Metadata")
        BY <1>2, <2>3 DEF Logged
      <3>2. bh[b].jlist # "Shadow"
        BY <2>1 DEF BufOK
      <3>3. BufOK(bh[b], use[b], freed[b], R, C, "iobuf", cs)
        BY <2>1, <3>1, <3>2, NextStageOK
      <3> QED BY <2>1, <3>1, <3>2, <3>3
    <2> QED BY <2>2, <2>3, SMT
  <1>6. BufType'
    BY <1>2, <1>5 DEF BufType
  <1>7. BufInv'
    BY <1>1, <1>2, <1>4, <1>5 DEF BufInv
  <1>8. CpInv'
    BY <1>0, <1>2, <1>5, CpKept
  <1>9. ShadowInv'
    <2>1. PICK s \in Bijection(1 .. Cardinality(Logged), Logged) :
             DOMAIN committing'.iobufs = DOMAIN s /\ \A i \in DOMAIN s : committing'.iobufs[i].b = s[i]
      BY <1>1, SMT
    <2>2. /\ \A i \in DOMAIN s : s[i] \in Logged
          /\ \A b \in Logged : \E i \in DOMAIN s : s[i] = b
      BY DEF Bijection, Injection, Surjection
    <2>3. \A b \in Logged : b \in Block /\ bh[b].trans = C
      BY DEF Logged
    <2>4. ASSUME NEW b \in Block, bh'[b].jlist = "Shadow"
          PROVE  \E i \in DOMAIN committing'.iobufs : committing'.iobufs[i].b = b
      <3>1. b \in Logged
        BY <1>5, <2>4
      <3>2. PICK i \in DOMAIN s : s[i] = b
        BY <2>2, <3>1
      <3> QED BY <2>1, <3>2
    <2>5. ASSUME NEW i \in DOMAIN committing'.iobufs PROVE bh'[committing'.iobufs[i].b].trans = committing'.tid
      <3>1. committing'.iobufs[i].b \in Logged
        BY <2>1, <2>2
      <3> QED BY <1>1, <1>5, <2>3, <3>1
    <2> QED BY <2>4, <2>5 DEF ShadowInv
  <1> QED BY <1>2, <1>5, <1>6, <1>7, <1>8, <1>9

\* A log write of a buffer is done.
LEMMA IobufBuf ==
  ASSUME IInv, wait_for_iobuf
  PROVE  /\ BufType' /\ BufInv' /\ CpInv' /\ ShadowInv'
         /\ \A b \in Block : bh'[b].trans = bh[b].trans /\ bh'[b].next = bh[b].next
         /\ UNCHANGED <<running, use, freed, cplist, j>>
  <1> USE Zenon
  <1> DEFINE R == running.tid
             C == committing.tid
             cs == j.commit_sequence
             n == Len(committing.iobufs)
             c == committing.iobufs[n].b
             q == File(bh[c], C, "Forget")
  <1>0. /\ TidType /\ StageInv /\ FsType /\ Kinds /\ R \in Nat /\ C \in Nat /\ cs \in Nat
        /\ CpInv /\ ShadowInv /\ BufType /\ BufInv
        /\ \A b \in Block : /\ Buffer(bh[b]) /\ freed[b] \in Nat
                            /\ BufOK(bh[b], use[b], freed[b], R, C, kjournald, cs)
    BY BufFacts DEF TidType, IInv
  <1>1. /\ kjournald = "iobuf" /\ UNCHANGED kjournald /\ committing'.tid = C
        /\ n \in Nat \ {0} /\ DOMAIN committing.iobufs = 1 .. n /\ c \in Block
        /\ DOMAIN committing'.iobufs = 1 .. n - 1
        /\ \A i \in 1 .. n - 1 : committing'.iobufs[i] = committing.iobufs[i]
        /\ bh' = [bh EXCEPT ![c] = q]
    BY <1>0, IobufIs DEF K
  <1>2. UNCHANGED <<running, use, freed, cplist, j>>
    BY DEF wait_for_iobuf, fs
  <1>3. n \in 1 .. n /\ 1 .. n = 1 .. (n - 1) \cup {n}
    <2> HIDE DEF n
    <2> QED BY <1>1, SMT
  <1>4. C # 0 /\ bh[c].trans = C
    BY <1>0, <1>1, <1>3 DEF StageInv, ShadowInv
  <1>5. /\ BufOK(bh[c], use[c], freed[c], R, C, "iobuf", cs) /\ Buffer(bh[c]) /\ freed[c] \in Nat
        /\ R \in Nat /\ C \in Nat /\ cs \in Nat
    BY <1>0, <1>1
  <1> HIDE DEF c
  <1>6. /\ Buffer(q) /\ BufOK(q, use[c], freed[c], R, C, "iobuf", cs) /\ q.trans = C /\ q.next = bh[c].next
        /\ q.cp = bh[c].cp /\ q.jlist = "Forget"
    BY <1>4, <1>5, LoggedOK, SMT
  <1> HIDE DEF q, n
  <1>7. BufType' /\ BufInv' /\ bh'[c] = q /\ \A b \in Block : b # c => bh'[b] = bh[b]
    BY <1>0, <1>1, <1>2, <1>6, OnePut
  <1>8. CpInv'
    BY <1>0, <1>2, <1>6, <1>7, CpKept
  <1>9. ShadowInv'
    <2>1. ASSUME NEW b \in Block, bh'[b].jlist = "Shadow"
          PROVE  \E i \in DOMAIN committing'.iobufs : committing'.iobufs[i].b = b
      <3>1. b # c /\ bh[b].jlist = "Shadow"
        BY <1>6, <1>7, <2>1
      <3>2. PICK i \in DOMAIN committing.iobufs : committing.iobufs[i].b = b
        BY <1>0, <3>1 DEF ShadowInv
      <3>3. i \in 1 .. n - 1
        BY <1>1, <1>3, <3>1, <3>2 DEF c
      <3> QED BY <1>1, <3>2, <3>3
    <2>2. ASSUME NEW i \in DOMAIN committing'.iobufs PROVE bh'[committing'.iobufs[i].b].trans = committing'.tid
      <3>1. committing'.iobufs[i] = committing.iobufs[i] /\ i \in DOMAIN committing.iobufs
        BY <1>1, <1>3
      <3>2. bh[committing.iobufs[i].b].trans = C
        BY <1>0, <3>1 DEF ShadowInv
      <3>3. bh'[committing.iobufs[i].b].trans = C
        <4>1. CASE committing.iobufs[i].b = c
          BY <1>6, <1>7, <4>1
        <4>2. CASE committing.iobufs[i].b # c
          <5>1. committing.iobufs[i].b \in Block
            BY <1>0, <3>1, IobufBlocks DEF Kinds
          <5> QED BY <1>7, <3>2, <4>2, <5>1
        <4> QED BY <4>1, <4>2, SMT
      <3> QED BY <1>1, <3>1, <3>3
    <2> QED BY <2>1, <2>2 DEF ShadowInv
  <1> QED BY <1>2, <1>4, <1>6, <1>7, <1>8, <1>9

\* The steps of the commit thread that change no metadata buffer.
LEMMA IdleBuf ==
  ASSUME IInv, commit_timeout \/ commit_lock \/ write_out_data \/ commit_record
  PROVE  /\ BufType' /\ BufInv' /\ CpInv' /\ ShadowInv'
         /\ UNCHANGED <<bh, use, freed, cplist, committing, revoke>>
         /\ running'.tid = running.tid
  <1> USE Zenon
  <1> DEFINE R == running.tid
             C == committing.tid
             cs == j.commit_sequence
  <1>0. /\ TidType /\ StageInv /\ FsType /\ Kinds /\ RunType /\ JType /\ R \in Nat /\ C \in Nat /\ cs \in Nat
        /\ CpInv /\ ShadowInv /\ BufType /\ BufInv
        /\ \A b \in Block : BufOK(bh[b], use[b], freed[b], R, C, kjournald, cs)
    BY BufFacts DEF TidType, IInv, Kinds
  <1>1. UNCHANGED <<bh, use, freed, cplist, committing, revoke>>
    BY DEF commit_timeout, commit_lock, write_out_data, commit_record, buffers, fs
  <1>2. running'.tid = running.tid
    BY <1>0 DEF commit_timeout, commit_lock, write_out_data, commit_record, RunType
  <1>3. j'.commit_sequence = cs
    <2>1. CASE commit_record
      BY <1>0, <2>1, NextBlockIs DEF commit_record
    <2>2. CASE commit_timeout \/ commit_lock \/ write_out_data
      BY <1>0, <2>2 DEF commit_timeout, commit_lock, write_out_data, JType, JSet
    <2> QED BY <2>1, <2>2, SMT
  <1>4. \A b \in Block : /\ bh[b].jlist = "Shadow" => kjournald' = "iobuf"
                         /\ bh[b].trans # 0 /\ bh[b].trans = C /\ bh[b].jlist = "Metadata" => kjournald' = "flush"
    <2>1. CASE commit_timeout \/ write_out_data
      BY <1>0, <2>1 DEF commit_timeout, write_out_data, BufOK
    <2>2. CASE commit_lock
      <3>1. kjournald = "sleep"
        BY <2>2 DEF commit_lock, K
      <3> QED BY <1>0, <3>1 DEF BufOK
    <2>3. CASE commit_record
      <3>1. kjournald = "iobuf" /\ committing.iobufs = << >>
        BY <2>3 DEF commit_record, K
      <3>2. DOMAIN committing.iobufs = {}
        BY <3>1, SMT
      <3> QED BY <1>0, <3>1, <3>2 DEF BufOK, ShadowInv
    <2> QED BY <2>1, <2>2, <2>3, SMT
  <1>5. BufType'
    BY <1>0, <1>1 DEF BufType
  <1>6. BufInv'
    BY <1>0, <1>1, <1>2, <1>3, <1>4, NextStageOK DEF BufInv
  <1>7. CpInv'
    BY <1>0, <1>1, CpKept
  <1>8. ShadowInv'
    BY <1>0, <1>1 DEF ShadowInv
  <1> QED BY <1>1, <1>2, <1>5, <1>6, <1>7, <1>8, SMT

\* The end of a commit.
LEMMA FinishBuf ==
  ASSUME IInv, commit_finish
  PROVE  /\ BufType' /\ BufInv' /\ CpInv' /\ ShadowInv'
         /\ \A b \in Block : Has(bh'[b], running.tid) <=> Has(bh[b], running.tid)
         /\ UNCHANGED <<running, use, revoke>> /\ committing.tid # 0
         /\ cplist' \subseteq cplist \cup {[tid |-> committing.tid, log_start |-> committing.log_start]}
  <1> USE Zenon
  <1> DEFINE R == running.tid
             C == committing.tid
             cs == j.commit_sequence
  <1>0. /\ TidType /\ TidInv /\ StageInv /\ FsType /\ Kinds /\ JType /\ R \in Nat /\ C \in Nat /\ cs \in Nat
        /\ \A b \in Block : /\ Buffer(bh[b]) /\ freed[b] \in Nat
                            /\ BufOK(bh[b], use[b], freed[b], R, C, kjournald, cs)
    BY BufFacts DEF TidType, Kinds
  <1>1. /\ kjournald = "record" /\ kjournald' = "sleep" /\ committing' = NoCommit /\ UNCHANGED <<running, use, revoke>>
        /\ j' = [j EXCEPT !.commit_sequence = C]
        /\ bh' = [b \in Block |-> IF bh[b].trans = C /\ bh[b].jlist = "Forget" THEN Checkpointed(bh[b], C) ELSE bh[b]]
        /\ freed' = [b \in Block |-> IF freed[b] = C THEN 0 ELSE freed[b]]
        /\ cplist' = Dropped(cplist \cup {[tid |-> C, log_start |-> committing.log_start]}, bh')
    BY DEF commit_finish, K
  <1>2. C # 0
    BY <1>0, <1>1 DEF StageInv
  <1>3. cs < C /\ C # R
    BY <1>0, <1>2, SMT DEF TidInv
  <1>4. j'.commit_sequence = C /\ committing'.tid = 0 /\ committing'.iobufs = << >>
    BY <1>0, <1>1 DEF JType, JSet, NoCommit
  <1>5. ASSUME NEW b \in Block
        PROVE  /\ Buffer(bh'[b]) /\ BufOK(bh'[b], use[b], freed'[b], R, 0, "sleep", C)
               /\ Has(bh'[b], R) <=> Has(bh[b], R)
    <2> DEFINE q == IF bh[b].trans = C /\ bh[b].jlist = "Forget" THEN Checkpointed(bh[b], C) ELSE bh[b]
               g == IF freed[b] = C THEN 0 ELSE freed[b]
    <2>1. Buffer(bh[b]) /\ BufOK(bh[b], use[b], freed[b], R, C, "record", cs) /\ freed[b] \in Nat
      BY <1>0, <1>1
    <2>2. Buffer(q) /\ BufOK(q, use[b], g, R, 0, "sleep", C) /\ (R # 0 /\ R \in {bh[b].trans, bh[b].next} <=> R # 0 /\ R \in {q.trans, q.next})
      BY <1>0, <1>2, <1>3, <2>1, FinishOK, SMT
    <2>3. bh'[b] = q /\ freed'[b] = g
      BY <1>1
    <2> HIDE DEF q, g
    <2> QED BY <2>2, <2>3 DEF Has
  <1>6. BufType'
    BY <1>1, <1>5 DEF BufType
  <1>7. BufInv'
    BY <1>1, <1>4, <1>5 DEF BufInv
  <1>8. CpInv' /\ cplist' \subseteq cplist \cup {[tid |-> C, log_start |-> committing.log_start]}
    BY <1>1 DEF CpInv, Dropped
  <1>9. ShadowInv'
    <2>1. DOMAIN committing'.iobufs = {}
      BY <1>4, SMT
    <2>2. \A b \in Block : bh'[b].jlist # "Shadow"
      BY <1>5 DEF BufOK
    <2> QED BY <2>1, <2>2 DEF ShadowInv
  <1> QED BY <1>1, <1>2, <1>5, <1>6, <1>7, <1>8, <1>9

\* A buffer that no transaction has.
LEMMA CleanBufOK ==
  ASSUME NEW v, NEW q, q = CleanBuffer(v) \/ q = [CleanBuffer(v) EXCEPT !.dirty = TRUE]
  PROVE  Buffer(q) /\ \A u, f, R, C, k : \A cs \in Nat : BufOK(q, u, f, R, C, k, cs)
  <1>0. 0 \in Nat /\ \A cs \in Nat : 0 <= cs
    OBVIOUS
  <1>1. /\ q = [x \in Fields |-> q[x]] /\ q.dirty \in BOOLEAN /\ q.jdirty = FALSE /\ q.locked = FALSE
        /\ q.jlist = "None" /\ q.trans = 0 /\ q.next = 0 /\ q.cp = 0 /\ q.frozen = 0
    <2> DEFINE c == CleanBuffer(v)
    <2>1. c = [x \in Fields |-> c[x]]
      BY DEF CleanBuffer, Fields
    <2>2. /\ c.dirty = FALSE /\ c.jdirty = FALSE /\ c.locked = FALSE
          /\ c.jlist = "None" /\ c.trans = 0 /\ c.next = 0 /\ c.cp = 0 /\ c.frozen = 0
      BY Zenon DEF CleanBuffer
    <2>3. q = c \/ q = [c EXCEPT !.dirty = TRUE]
      OBVIOUS
    <2> HIDE DEF c
    <2> QED BY <2>1, <2>2, <2>3, Zenon DEF Fields
  <1>2. Buffer(q)
    BY <1>0, <1>1, Zenon DEF Buffer, Lists
  <1>3. \A u, f, R, C, k : \A cs \in Nat : BufOK(q, u, f, R, C, k, cs)
    BY <1>0, <1>1, Zenon DEF BufOK
  <1> QED BY <1>2, <1>3

\* The buffers after a crash, and while the file system is mounted again.
LEMMA DownBuf ==
  ASSUME IInv, Next, Crash \/ Mount
  PROVE  BufType' /\ BufInv' /\ CpInv' /\ ShadowInv'
  <1> USE Zenon
  <1>0. TidType'
    BY Ids DEF Kinds, RunType, CommitType, JType, JSet, TidType
  <1>1. BufType /\ BufInv /\ Down /\ TidType
    BY BufFacts DEF IInv
  <1>2. cplist' = {} /\ committing' = NoCommit /\ kjournald' = "sleep"
    <2>1. CASE Crash
      BY <2>1 DEF Crash
    <2>2. CASE Mount
      <3>1. mode # "mounted"
        BY <2>2 DEF Mount, journal_recover, do_one_pass, journal_reset
      <3> QED BY <1>1, <2>2, <3>1, MountKeep DEF Down
    <2> QED BY <2>1, <2>2, SMT
  <1>3. CpInv'
    BY <1>2 DEF CpInv
  <1>4. ASSUME bh' = [b \in Block |-> bh'[b]],
               \A b \in Block : \/ \E v : bh'[b] = CleanBuffer(v) \/ bh'[b] = [CleanBuffer(v) EXCEPT !.dirty = TRUE]
                                \/ bh'[b] = bh[b] /\ UNCHANGED <<use, freed, running, committing, kjournald, j>>
        PROVE  BufType' /\ BufInv'
    <2>1. ASSUME NEW b \in Block
          PROVE  /\ Buffer(bh'[b])
                 /\ BufOK(bh'[b], use'[b], freed'[b], running'.tid, committing'.tid, kjournald', j'.commit_sequence)
      <3>1. CASE bh'[b] = bh[b] /\ UNCHANGED <<use, freed, running, committing, kjournald, j>>
        BY <1>1, <3>1 DEF BufType, BufInv
      <3>2. CASE \E v : bh'[b] = CleanBuffer(v) \/ bh'[b] = [CleanBuffer(v) EXCEPT !.dirty = TRUE]
        BY <1>0, <3>2, CleanBufOK DEF TidType
      <3> QED BY <1>4, <3>1, <3>2
    <2> QED BY <1>4, <2>1 DEF BufType, BufInv
  <1>5. BufType' /\ BufInv'
    <2>1. CASE Crash \/ journal_reset
      BY <1>4, <2>1 DEF Crash, journal_reset
    <2>2. CASE journal_recover
      BY <1>1, <1>4, <2>2 DEF journal_recover, BufType, fs, buffers
    <2>3. CASE do_one_pass
      <3>1. UNCHANGED <<use, freed, running, committing, kjournald, j>> /\ bh' = [b \in Block |-> bh'[b]]
        BY <2>3 DEF do_one_pass, fs
      <3>2. \A b \in Block : bh'[b] = bh[b] \/ \E v : bh'[b] = [CleanBuffer(v) EXCEPT !.dirty = TRUE]
        BY <2>3 DEF do_one_pass
      <3> QED BY <1>4, <3>1, <3>2
    <2> QED BY <2>1, <2>2, <2>3 DEF Mount
  <1>6. ShadowInv'
    <2>1. committing'.iobufs = << >>
      BY <1>2 DEF NoCommit
    <2>2. DOMAIN committing'.iobufs = {}
      BY <2>1, SMT
    <2>3. \A b \in Block : bh'[b].jlist # "Shadow"
      BY <1>2, <1>5 DEF BufInv, BufOK
    <2> QED BY <2>2, <2>3 DEF ShadowInv
  <1> QED BY <1>3, <1>5, <1>6, SMT

\* What every step of a handle does to the buffers of the committing transaction.
LEMMA HandlesBuf ==
  ASSUME IInv, Next, NEW p \in Task, Handles(p)
  PROVE  /\ BufType' /\ BufInv' /\ CpInv' /\ ShadowInv'
         /\ \A b \in Block : Same(bh[b], bh'[b], committing.tid)
  <1> USE Zenon
  <1>1. BufType' /\ BufInv' /\ \A b \in Block : Same(bh[b], bh'[b], committing.tid)
    BY AccessBuf, RevokeBuf, QuietBuf DEF Handles, Quiet
  <1>2. UNCHANGED <<committing, kjournald, cplist>>
    BY HandlesKeep
  <1>3. CpInv'
    BY <1>1, <1>2, CpKept DEF IInv, Same
  <1>4. ShadowInv'
    BY <1>1, <1>2, ShadowKept
  <1> QED BY <1>1, <1>3, <1>4, SMT

\* Every step keeps the buffers consistent, the checkpoint lists nonempty and the shadows in step.
LEMMA BufStep ==
  ASSUME IInv, Next
  PROVE  BufType' /\ BufInv' /\ CpInv' /\ ShadowInv'
  <1>1. ASSUME NEW p \in Task, Handles(p) PROVE BufType' /\ BufInv' /\ CpInv' /\ ShadowInv'
    BY <1>1, HandlesBuf
  <1>2. CASE \/ \E p \in Task : Checkpoint(p)
             \/ IoDone
             \/ \E b \in Block : write_back(b) \/ journal_try_to_free_buffer(b)
    <2>1. /\ BufType' /\ BufInv' /\ CpInv' /\ \A b \in Block : Touched(bh[b], bh'[b])
          /\ UNCHANGED <<committing, kjournald>>
      BY <1>2, TouchBuf
    <2>2. CommitType /\ ShadowInv
      BY Zenon DEF IInv, Types
    <2>3. ShadowInv'
      BY <2>1, <2>2, IobufBlocks, Zenon DEF ShadowInv, Touched
    <2> QED BY <2>1, <2>3
  <1>3. CASE commit_timeout \/ Commit
    BY <1>3, SwitchBuf, MetadataBuf, IobufBuf, IdleBuf, FinishBuf, Zenon DEF Commit
  <1>4. CASE Crash \/ Mount
    BY <1>4, DownBuf
  <1> QED BY <1>1, <1>2, <1>3, <1>4, Zenon DEF Next

-----------------------------------------------------------------------------
(* Handles. *)

\* HandleInv for one task.
TaskOK(p) ==
  /\ handle[p].pc \in Open => handle[p].tid = running.tid /\ running.tid # 0
  /\ handle[p].pc = "access" => handle[p].b \in Block /\ use[handle[p].b] = "meta" /\ Has(bh[handle[p].b], running.tid)
  /\ handle[p].pc = "fwait" => running.tid \in {0, handle[p].tid} /\ committing.tid <= handle[p].tid
  /\ handle[p].pc \in {"fckpt", "fscan"} => running.tid = 0 /\ committing.tid = 0
\* HandleInv says that each task is so, and what t_updates counts.
LEMMA HandleInvIs ==
  HandleInv <=> (\A p \in Task : TaskOK(p)) /\ running.updates = Cardinality(OpenTasks)
  <1> USE Zenon
  <1>1. "access" \in Open
    BY DEF Open
  <1> QED BY <1>1 DEF HandleInv, TaskOK, Has

\* The number of open handles when task p moves.
LEMMA OpenCount ==
  ASSUME NEW p \in Task, \A q \in Task : q # p => handle'[q] = handle[q]
  PROVE  /\ IsFiniteSet(OpenTasks) /\ Cardinality(OpenTasks) \in Nat
         /\ (handle[p].pc \in Open <=> handle'[p].pc \in Open) => OpenTasks' = OpenTasks
         /\ handle[p].pc \notin Open /\ handle'[p].pc \in Open => Cardinality(OpenTasks') = Cardinality(OpenTasks) + 1
         /\ handle[p].pc \in Open /\ handle'[p].pc \notin Open => Cardinality(OpenTasks') = Cardinality(OpenTasks) - 1
  <1>1. IsFiniteSet(OpenTasks) /\ Cardinality(OpenTasks) \in Nat
    BY JournalAssumption, FS_Subset, FS_CardinalityType, Zenon DEF OpenTasks
  <1>2. (handle[p].pc \in Open <=> handle'[p].pc \in Open) => OpenTasks' = OpenTasks
    BY Zenon DEF OpenTasks
  <1>3. ASSUME handle[p].pc \notin Open, handle'[p].pc \in Open
        PROVE  Cardinality(OpenTasks') = Cardinality(OpenTasks) + 1
    <2>1. OpenTasks' = OpenTasks \cup {p} /\ p \notin OpenTasks
      BY <1>3, Zenon DEF OpenTasks
    <2> QED BY <1>1, <2>1, FS_AddElement
  <1>4. ASSUME handle[p].pc \in Open, handle'[p].pc \notin Open
        PROVE  Cardinality(OpenTasks') = Cardinality(OpenTasks) - 1
    <2>1. OpenTasks' = OpenTasks \ {p} /\ p \in OpenTasks
      BY <1>4, Zenon DEF OpenTasks
    <2> QED BY <1>1, <2>1, FS_RemoveElement
  <1> QED BY <1>1, <1>2, <1>3, <1>4

\* A step that leaves the handles and their transaction alone.
LEMMA HandleKept ==
  ASSUME HandleInv, HandleType, UNCHANGED <<handle, running.tid, running.updates, use>>,
         \A b \in Block : Has(bh[b], running.tid) => Has(bh'[b], running.tid),
         committing'.tid \in {0, committing.tid}
  PROVE  HandleInv'
  <1> USE Zenon
  <1>1. (\A p \in Task : TaskOK(p)) /\ running.updates = Cardinality(OpenTasks)
    BY HandleInvIs
  <1>2. ASSUME NEW p \in Task PROVE TaskOK(p)'
    <2>1. TaskOK(p) /\ handle'[p] = handle[p] /\ use' = use /\ running'.tid = running.tid
      BY <1>1
    <2>2. handle[p].pc = "fwait" => committing'.tid <= handle[p].tid
      <3>1. CASE committing'.tid = committing.tid
        BY <2>1, <3>1 DEF TaskOK
      <3>2. CASE committing'.tid = 0
        <4>1. handle[p].tid \in Nat
          BY DEF HandleType, HSet
        <4>2. 0 <= handle[p].tid
          BY <4>1, SMT
        <4> QED BY <3>2, <4>2
      <3> QED BY <3>1, <3>2
    <2> QED BY <2>1, <2>2 DEF TaskOK
  <1>3. OpenTasks' = OpenTasks
    BY DEF OpenTasks
  <1> QED BY <1>1, <1>2, <1>3 DEF HandleInv, TaskOK, Has

\* The transaction and the buffer of a handle are still its own when another task moves.
LEMMA OthersOK ==
  ASSUME IInv, Next, NEW q \in Task, Handles(q), NEW p \in Task, handle'[p] = handle[p]
  PROVE  TaskOK(p)'
  <1> USE Zenon
  <1>0. /\ TidType /\ HandleInv /\ HandleType /\ Kinds /\ FsType /\ TaskOK(p)
    BY BufFacts, HandleInvIs
  <1>1. UNCHANGED committing
    BY HandlesKeep
  <1>2. CASE start_this_handle(q)
    <2>1. UNCHANGED <<bh, use>> /\ ~Barrier
      BY <1>2 DEF start_this_handle, buffers, fs
    <2>2. handle[p].pc \notin {"fwait", "fckpt", "fscan"}
      BY <2>1 DEF Barrier
    <2>3. running.tid = 0 \/ running'.tid = running.tid
      BY <1>0, <1>2, StartIs DEF Kinds
    <2>4. handle[p].pc = "access" => handle[p].pc \in Open
      BY DEF Open
    <2> QED BY <1>0, <2>1, <2>2, <2>3, <2>4 DEF TaskOK
  <1>3. CASE ~start_this_handle(q)
    <2>1. running'.tid = running.tid
      BY <1>0, <1>3 DEF Handles, Kinds, RunType, unused_access, journal_dirty_metadata, dirty_data_written,
           journal_stop, log_wait_commit, journal_flush, journal_get_write_access, journal_get_create_access,
           journal_revoke, journal_dirty_data
    <2>2. ASSUME handle[p].pc = "access"
          PROVE  /\ handle[p].b \in Block /\ use'[handle[p].b] = "meta" /\ Has(bh'[handle[p].b], running.tid)
      <3> DEFINE b == handle[p].b
      <3>1. b \in Block /\ use[b] = "meta" /\ Has(bh[b], running.tid)
        BY <1>0, <2>2 DEF TaskOK
      <3> HIDE DEF b
      <3>2. ASSUME NEW c \in Block, journal_get_write_access(q, c) \/ journal_get_create_access(q, c)
            PROVE  use'[b] = "meta" /\ Has(bh'[b], running.tid)
        <4>1. use' = use \/ use' = [use EXCEPT ![c] = "meta"]
          BY <3>2 DEF journal_get_write_access, journal_get_create_access, fs
        <4>2. use'[b] = "meta"
          BY <1>0, <3>1, <4>1 DEF FsType, Uses
        <4>3. Has(bh'[c], running.tid) /\ (b # c => bh'[b] = bh[b])
          BY <3>1, <3>2, AccessBuf
        <4> QED BY <3>1, <4>2, <4>3
      <3>3. ASSUME NEW c \in Block, journal_revoke(q, c)
            PROVE  use'[b] = "meta" /\ Has(bh'[b], running.tid)
        <4>1. b # c /\ use' = [use EXCEPT ![c] = "free"]
          BY <3>3 DEF journal_revoke, b
        <4>2. use'[b] = "meta"
          BY <1>0, <3>1, <4>1 DEF FsType, Uses
        <4>3. bh'[b] = bh[b]
          BY <3>1, <3>3, <4>1, RevokeBuf
        <4> QED BY <3>1, <4>2, <4>3
      <3>4. ASSUME \A c \in Block : ~journal_get_write_access(q, c) /\ ~journal_get_create_access(q, c) /\ ~journal_revoke(q, c)
            PROVE  use'[b] = "meta" /\ Has(bh'[b], running.tid)
        <4>1. bh'[b].trans = bh[b].trans /\ bh'[b].next = bh[b].next
          BY <1>3, <3>1, <3>4, QuietBuf DEF Handles, Quiet
        <4>2. use' = use \/ \E c \in Block : use' = [use EXCEPT ![c] = "data"] /\ use[c] # "meta"
          BY <1>3, <3>4 DEF Handles, unused_access, journal_dirty_metadata, dirty_data_written,
             journal_stop, log_wait_commit, journal_flush, journal_dirty_data, Allocatable, fs
        <4>3. use'[b] = "meta"
          BY <1>0, <3>1, <4>2 DEF FsType, Uses
        <4> QED BY <3>1, <4>1, <4>3 DEF Has
      <3> QED BY <3>1, <3>2, <3>3, <3>4 DEF b
    <2> QED BY <1>0, <1>1, <2>1, <2>2 DEF TaskOK
  <1> QED BY <1>2, <1>3, SMT

\* What a NULL transaction has.
LEMMA NullIs ==
  ASSUME StageInv
  PROVE  /\ running.tid = 0 => running.updates = 0 /\ running.credits = 0 /\ running.locked = FALSE /\ revoke = {}
         /\ committing.tid = 0 => committing.credits = 0 /\ committing.iobufs = << >>
  <1> USE Zenon
  <1>1. ASSUME running.tid = 0 PROVE running = NoTrans /\ revoke = {}
    BY <1>1 DEF StageInv
  <1>2. ASSUME committing.tid = 0 PROVE committing = NoCommit
    BY <1>2 DEF StageInv
  <1>3. NoTrans.updates = 0 /\ NoTrans.credits = 0 /\ NoTrans.locked = FALSE
    BY DEF NoTrans
  <1>4. NoCommit.credits = 0 /\ NoCommit.iobufs = << >>
    BY DEF NoCommit
  <1> QED BY <1>1, <1>2, <1>3, <1>4

\* The operations on handles keep HandleInv.
LEMMA HandlesHandle ==
  ASSUME IInv, Next, NEW p \in Task, Handles(p)
  PROVE  HandleInv'
  <1> USE Zenon
  <1> DEFINE Mover == TaskOK(p)' /\ running'.updates = Cardinality(OpenTasks')
  <1>0. /\ TidType /\ TidInv /\ StageInv /\ HandleInv /\ HandleType /\ Kinds /\ BufType /\ TaskOK(p)
        /\ RunType /\ JType /\ running.updates = Cardinality(OpenTasks) /\ running.updates \in Nat
    BY BufFacts, HandleInvIs DEF Kinds, RunType
  <1>1. UNCHANGED committing
    BY HandlesKeep
  <1>p. /\ "idle" \notin Open /\ "space" \notin Open /\ "wait" \notin Open /\ "fwait" \notin Open /\ "fckpt" \notin Open
        /\ "open" \in Open /\ "access" \in Open /\ "dwait" \in Open
    BY DEF Open
  <1>f. \A q \in Task : q # p => handle'[q] = handle[q]
    BY <1>0, HandleMoves DEF Ends, Joins, Waits, Takes, Returns, Pays, Awaits, Syncs, Turns, Sets
  <1>q. ASSUME Mover PROVE HandleInv'
    <2>1. \A q \in Task : TaskOK(q)'
      BY <1>f, <1>q, OthersOK
    <2> QED BY <1>q, <2>1 DEF HandleInv, TaskOK, Has
  <1> SUFFICES Mover
    BY <1>q, SMT
  <1>2. ASSUME UNCHANGED <<handle, running>> PROVE Mover
    <2>1. OpenTasks' = OpenTasks
      BY <1>2 DEF OpenTasks
    <2> QED BY <1>0, <1>2, <2>1, OthersOK
  <1>3. ASSUME NEW pc \in {"open", "access", "dwait"}, handle[p].pc \in Open, handle'[p].pc = pc,
               handle'[p].tid = handle[p].tid, \A q \in Task : q # p => handle'[q] = handle[q],
               UNCHANGED running,
               pc = "access" => handle'[p].b \in Block /\ use'[handle'[p].b] = "meta" /\ Has(bh'[handle'[p].b], running.tid)
        PROVE  Mover
    <2>1. pc \in Open
      BY <1>p
    <2>2. OpenTasks' = OpenTasks
      BY <1>3, <2>1, OpenCount
    <2>3. TaskOK(p)'
      BY <1>0, <1>3 DEF TaskOK
    <2> QED BY <1>0, <1>3, <2>2, <2>3
  <1>4. CASE start_this_handle(p)
    <2>1. /\ handle[p].pc = "idle"
          /\ \/ UNCHANGED <<running, handle>>
             \/ /\ running'.updates = (IF running.tid = 0 THEN 0 ELSE running.updates)
                /\ handle' = [handle EXCEPT ![p].pc = "space", ![p].need = space_needed]
             \/ /\ running'.tid = (IF running.tid = 0 THEN j.transaction_sequence ELSE running.tid)
                /\ running'.updates = (IF running.tid = 0 THEN 0 ELSE running.updates) + 1
                /\ handle' = [handle EXCEPT ![p] = [NoHandle EXCEPT
                                !.pc = "open", !.tid = running'.tid, !.credits = Credits]]
      BY <1>0, <1>4, StartIs
    <2>2. running.tid = 0 => running.updates = 0
      BY <1>0, NullIs
    <2>3. CASE UNCHANGED <<running, handle>>
      BY <1>2, <2>3, SMT
    <2>4. CASE /\ running'.updates = (IF running.tid = 0 THEN 0 ELSE running.updates)
               /\ handle' = [handle EXCEPT ![p].pc = "space", ![p].need = space_needed]
      <3>1. handle'[p].pc = "space" /\ \A q \in Task : q # p => handle'[q] = handle[q]
        BY <1>0, <2>4 DEF HandleType, HSet
      <3>2. OpenTasks' = OpenTasks
        BY <1>p, <2>1, <3>1, OpenCount
      <3>3. TaskOK(p)'
        BY <1>p, <3>1 DEF TaskOK
      <3> QED BY <1>0, <2>2, <2>4, <3>2, <3>3
    <2>5. CASE /\ running'.tid = (IF running.tid = 0 THEN j.transaction_sequence ELSE running.tid)
               /\ running'.updates = (IF running.tid = 0 THEN 0 ELSE running.updates) + 1
               /\ handle' = [handle EXCEPT ![p] = [NoHandle EXCEPT
                                !.pc = "open", !.tid = running'.tid, !.credits = Credits]]
      <3>1. /\ handle'[p].pc = "open" /\ handle'[p].tid = running'.tid
            /\ \A q \in Task : q # p => handle'[q] = handle[q]
        BY <1>0, <2>5 DEF HandleType, HSet, NoHandle
      <3>2. Cardinality(OpenTasks') = Cardinality(OpenTasks) + 1
        BY <1>p, <2>1, <3>1, OpenCount
      <3>3. j.transaction_sequence # 0
        BY <1>0, SMT DEF TidInv, TidType
      <3>4. TaskOK(p)'
        BY <1>p, <2>5, <3>1, <3>3 DEF TaskOK
      <3> QED BY <1>0, <2>2, <2>5, <3>2, <3>4
    <2> QED BY <2>1, <2>3, <2>4, <2>5, SMT
  <1>5. CASE (unused_access(p) \/ journal_dirty_metadata(p) \/ dirty_data_written(p)) /\ Returns(p)
    <2>1. UNCHANGED running
      BY <1>5 DEF unused_access, journal_dirty_metadata, dirty_data_written
    <2>2. handle[p].pc \in Open
      BY <1>p, <1>5 DEF Returns
    <2> QED BY <1>3, <1>5, <2>1, <2>2 DEF Returns, Sets
  <1>6. CASE journal_stop(p) /\ (Syncs(p) \/ Ends(p))
    <2>1. handle[p].pc = "open" /\ running' = [running EXCEPT !.updates = @ - 1, !.credits = @ - handle[p].credits]
      BY <1>6 DEF journal_stop, At
    <2>2. running'.updates = running.updates - 1
      BY <1>0, <2>1 DEF RunType
    <2>3. handle'[p].pc \in {"wait", "idle"}
      BY <1>6 DEF Syncs, Ends, Sets
    <2>4. handle'[p].pc \notin Open
      BY <1>p, <2>3
    <2>5. Cardinality(OpenTasks') = Cardinality(OpenTasks) - 1
      BY <1>f, <1>p, <2>1, <2>4, OpenCount
    <2>6. TaskOK(p)'
      BY <1>p, <2>3 DEF TaskOK
    <2> QED BY <1>0, <2>2, <2>5, <2>6
  <1>7. ASSUME UNCHANGED running, handle[p].pc \in {"idle", "wait", "fwait"},
               \/ handle'[p].pc = "idle"
               \/ handle'[p].pc = "fckpt" /\ running.tid = 0 /\ committing.tid = 0
               \/ /\ handle'[p].pc = "fwait" /\ running.tid \in {0, handle'[p].tid}
                  /\ committing.tid <= handle'[p].tid
        PROVE  Mover
    <2>1. handle[p].pc \notin Open /\ handle'[p].pc \notin Open
      BY <1>7, <1>p
    <2>2. OpenTasks' = OpenTasks
      BY <1>f, <2>1, OpenCount
    <2>3. TaskOK(p)'
      BY <1>1, <1>7, <1>p DEF TaskOK
    <2> QED BY <1>0, <1>7, <2>2, <2>3
  <1>8. CASE log_wait_commit(p) /\ (Ends(p) \/ Sets(p, "fckpt", 0, 0, NoBlock, 0))
    <2>1. /\ UNCHANGED running /\ handle[p].pc \in {"wait", "fwait"} /\ j.commit_sequence >= handle[p].tid
          /\ handle' = [handle EXCEPT ![p] = [NoHandle EXCEPT
                           !.pc = IF handle[p].pc = "wait" THEN "idle" ELSE "fckpt"]]
      BY <1>8 DEF log_wait_commit, At
    <2>2. handle'[p].pc = IF handle[p].pc = "wait" THEN "idle" ELSE "fckpt"
      BY <1>0, <2>1 DEF HandleType, HSet, NoHandle
    <2>3. CASE handle[p].pc = "wait"
      BY <1>7, <2>1, <2>2, <2>3
    <2>4. CASE handle[p].pc = "fwait"
      <3>1. running.tid \in {0, handle[p].tid} /\ committing.tid <= handle[p].tid
        BY <1>0, <2>4 DEF TaskOK
      <3>2. handle[p].tid \in Nat
        BY <1>0 DEF HandleType, HSet
      <3>3. running.tid = 0 /\ committing.tid = 0
        BY <1>0, <2>1, <3>1, <3>2, SMT DEF TidInv, TidType
      <3> QED BY <1>7, <2>1, <2>2, <2>4, <3>3
    <2> QED BY <2>1, <2>3, <2>4
  <1>9. ASSUME journal_flush(p), NEW tid, tid = IF running.tid # 0 THEN running.tid ELSE committing.tid,
               Turns(p, IF tid = 0 THEN "fckpt" ELSE "fwait", tid)
        PROVE  Mover
    <2>1. UNCHANGED running /\ handle[p].pc = "idle"
      BY <1>9 DEF journal_flush, At
    <2>2. handle'[p].pc = (IF tid = 0 THEN "fckpt" ELSE "fwait") /\ handle'[p].tid = tid
      BY <1>9 DEF Turns, Sets
    <2>3. (tid = 0 => running.tid = 0 /\ committing.tid = 0) /\ running.tid \in {0, tid} /\ committing.tid <= tid
      BY <1>0, <1>9, SMT DEF TidInv, TidType
    <2> QED BY <1>7, <2>1, <2>2, <2>3
  <1>10. ASSUME NEW b \in Block, journal_get_write_access(p, b), Takes(p, b) PROVE Mover
    <2>1. UNCHANGED <<running, use>> /\ handle[p].pc = "open" /\ use[b] = "meta"
      BY <1>10 DEF journal_get_write_access, At, fs
    <2>2. Has(bh'[b], running.tid)
      BY <1>10, AccessBuf
    <2>3. handle'[p].pc = "access" /\ handle'[p].tid = handle[p].tid /\ handle'[p].b = b
      BY <1>10 DEF Takes, Sets
    <2> QED BY <1>3, <1>f, <1>p, <2>1, <2>2, <2>3
  <1>11. ASSUME NEW b \in Block, \/ journal_get_create_access(p, b) /\ Pays(p, b)
                                 \/ journal_dirty_data(p, b) /\ Awaits(p, b)
         PROVE  Mover
    <2>1. UNCHANGED running /\ handle[p].pc = "open"
      BY <1>11 DEF journal_get_create_access, journal_dirty_data, At
    <2>2. handle'[p].pc \in {"open", "dwait"} /\ handle'[p].tid = handle[p].tid
      BY <1>11 DEF Pays, Awaits, Sets
    <2> QED BY <1>3, <1>f, <1>p, <2>1, <2>2
  <1>12. ASSUME NEW b \in Block, UNCHANGED handle, journal_revoke(p, b) \/ journal_dirty_data(p, b) PROVE Mover
    BY <1>2, <1>12 DEF journal_revoke, journal_dirty_data
  <1> HIDE DEF Mover
  <1> QED BY <1>0, <1>4, <1>5, <1>6, <1>8, <1>9, <1>10, <1>11, <1>12, HandleMoves

\* The checkpointer keeps HandleInv.
LEMMA CheckpointHandle ==
  ASSUME IInv, Next, NEW p \in Task, Checkpoint(p)
  PROVE  HandleInv'
  <1> USE Zenon
  <1>0. /\ HandleInv /\ HandleType /\ Kinds /\ BufType /\ (\A q \in Task : TaskOK(q))
        /\ running.updates = Cardinality(OpenTasks)
    BY BufFacts, HandleInvIs
  <1>1. /\ UNCHANGED <<running, committing, use>>
        /\ \A b \in Block : bh'[b].trans = bh[b].trans /\ bh'[b].next = bh[b].next
    BY TouchBuf DEF Touched
  <1>2. /\ \A q \in Task : q # p => handle'[q] = handle[q]
        /\ handle[p].pc \in {"space", "scan", "fckpt", "fscan"} \/ UNCHANGED handle
        /\ \/ UNCHANGED handle
           \/ handle'[p].pc \in {"scan", "space", "idle"}
           \/ handle[p].pc \in {"fckpt", "fscan"} /\ handle'[p].pc \in {"fckpt", "fscan"}
    BY <1>0, CheckpointMoves DEF Turns, Ends, Sets
  <1>3. ASSUME NEW q \in Task PROVE TaskOK(q)'
    <2>1. CASE handle'[q] = handle[q]
      <3>1. TaskOK(q)
        BY <1>0, SMT
      <3> QED BY <1>1, <2>1, <3>1 DEF TaskOK, Has
    <2>2. CASE q = p /\ handle'[p].pc \in {"scan", "space", "idle"}
      BY <2>2 DEF TaskOK, Open
    <2>3. CASE q = p /\ handle[p].pc \in {"fckpt", "fscan"} /\ handle'[p].pc \in {"fckpt", "fscan"}
      BY <1>0, <1>1, <2>3 DEF TaskOK, Open
    <2> QED BY <1>2, <2>1, <2>2, <2>3
  <1>4. OpenTasks' = OpenTasks
    <2>1. handle[p].pc \in Open <=> handle'[p].pc \in Open
      BY <1>2 DEF Open
    <2> QED BY <1>2, <2>1, OpenCount
  <1> QED BY <1>0, <1>1, <1>3, <1>4 DEF HandleInv, TaskOK, Has

\* The running transaction has no open handle when it is switched.
LEMMA SwitchHandle ==
  ASSUME IInv, commit_switch
  PROVE  HandleInv' /\ OpenTasks = {} /\ OpenTasks' = {}
  <1> USE Zenon
  <1>0. /\ HandleInv /\ HandleType /\ Kinds /\ FsType /\ StageInv /\ TidType /\ (\A q \in Task : TaskOK(q))
        /\ running.updates = Cardinality(OpenTasks)
    BY BufFacts, HandleInvIs
  <1>1. running.updates = 0 /\ running' = NoTrans /\ committing'.tid = running.tid /\ K("locked")
    BY <1>0, SwitchIs
  <1>2. UNCHANGED handle
    BY DEF commit_switch
  <1>3. OpenTasks = {}
    <2>1. IsFiniteSet(OpenTasks)
      BY JournalAssumption, FS_Subset DEF OpenTasks
    <2> QED BY <1>0, <1>1, <2>1, FS_EmptySet
  <1>4. OpenTasks' = {}
    BY <1>2, <1>3 DEF OpenTasks
  <1>5. running.tid # 0
    BY <1>0, <1>1 DEF StageInv, K
  <1>6. running'.tid = 0 /\ running'.updates = 0
    BY <1>1 DEF NoTrans
  <1>7. ASSUME NEW p \in Task PROVE TaskOK(p)'
    <2>1. handle'[p] = handle[p] /\ handle[p].pc \notin Open /\ handle[p].pc # "access"
      BY <1>2, <1>3 DEF OpenTasks, Open
    <2>2. TaskOK(p) /\ handle[p].pc \notin {"fckpt", "fscan"}
      BY <1>0, <1>5 DEF TaskOK
    <2>3. handle[p].pc = "fwait" => committing'.tid = handle[p].tid /\ handle[p].tid \in Nat
      BY <1>0, <1>1, <1>5, <2>2 DEF TaskOK, TidType
    <2>4. handle[p].pc = "fwait" => committing'.tid <= handle[p].tid
      BY <2>3, SMT
    <2> QED BY <1>6, <2>1, <2>2, <2>4 DEF TaskOK
  <1>8. Cardinality({}) = 0
    BY FS_EmptySet
  <1> QED BY <1>3, <1>4, <1>6, <1>7, <1>8 DEF HandleInv, TaskOK, Has

\* Every step keeps HandleInv.
LEMMA HandleStep ==
  ASSUME IInv, Next
  PROVE  HandleInv'
  <1> USE Zenon
  <1>0. HandleInv /\ HandleType /\ Kinds /\ BufType
    BY BufFacts
  <1>1. ASSUME NEW p \in Task, Handles(p) \/ Checkpoint(p) PROVE HandleInv'
    BY <1>1, HandlesHandle, CheckpointHandle
  <1>2. CASE IoDone \/ \E b \in Block : write_back(b) \/ journal_try_to_free_buffer(b)
    <2>1. /\ UNCHANGED <<running, committing, use>>
          /\ \A b \in Block : bh'[b].trans = bh[b].trans /\ bh'[b].next = bh[b].next
      BY <1>2, TouchBuf DEF Touched
    <2>2. UNCHANGED handle
      BY <1>2, IoKeep DEF journal_try_to_free_buffer
    <2> QED BY <1>0, <2>1, <2>2, HandleKept DEF Has
  <1>3. CASE (commit_timeout \/ Commit) /\ ~commit_switch
    <2>1. UNCHANGED <<handle, use>>
      BY <1>3, CommitKeep
    <2>2. \A b \in Block : Has(bh[b], running.tid) => Has(bh'[b], running.tid)
      BY <1>3, MetadataBuf, IobufBuf, IdleBuf, FinishBuf DEF Commit, Has
    <2>3. running'.tid = running.tid /\ running'.updates = running.updates
      <3>1. running' = running \/ running' = [running EXCEPT !.locked = TRUE]
        BY <1>3 DEF commit_timeout, Commit, commit_lock, write_out_data, commit_metadata, wait_for_iobuf,
                           commit_record, commit_finish
      <3> QED BY <1>0, <3>1 DEF Kinds, RunType
    <2>4. committing'.tid \in {0, committing.tid}
      <3>1. CASE commit_finish
        BY <3>1 DEF commit_finish, NoCommit
      <3>2. CASE ~commit_finish
        BY <1>0, <1>3, <3>2, MetadataIs, IobufIs DEF commit_timeout, Commit, commit_lock, write_out_data, commit_record
      <3> QED BY <3>1, <3>2, SMT
    <2> QED BY <1>0, <2>1, <2>2, <2>3, <2>4, HandleKept
  <1>4. CASE commit_switch
    BY <1>4, SwitchHandle, SMT
  <1>5. CASE Crash \/ Mount
    <2>1. handle' = [p \in Task |-> NoHandle] /\ running' = NoTrans
      <3>1. CASE Crash
        BY <3>1 DEF Crash
      <3>2. CASE Mount
        <4>1. mode # "mounted"
          BY <3>2 DEF Mount, journal_recover, do_one_pass, journal_reset
        <4> QED BY <3>2, <4>1, MountKeep DEF IInv, Down
      <3> QED BY <1>5, <3>1, <3>2, SMT
    <2>2. \A p \in Task : handle'[p].pc = "idle"
      BY <2>1 DEF NoHandle
    <2>3. OpenTasks' = {} /\ running'.updates = 0
      BY <2>1, <2>2 DEF OpenTasks, Open, NoTrans
    <2>4. Cardinality({}) = 0
      BY FS_EmptySet
    <2> QED BY <2>2, <2>3, <2>4 DEF HandleInv, Open
  <1> QED BY <1>1, <1>2, <1>3, <1>4, <1>5 DEF Next

-----------------------------------------------------------------------------
(* Credits. *)

\* Sets of blocks are finite, and a subset is no larger.
LEMMA BlockSets ==
  ASSUME NEW S \in SUBSET Block
  PROVE  IsFiniteSet(S) /\ Cardinality(S) \in Nat /\ \A T \in SUBSET S : Cardinality(T) <= Cardinality(S)
  <1> USE Zenon
  <1>1. IsFiniteSet(S)
    BY JournalAssumption, FS_Subset
  <1> QED BY <1>1, FS_CardinalityType, FS_Subset

\* The metadata that the commit under way still has to log stays the same.
LEMMA LoggedKept ==
  ASSUME StageInv, UNCHANGED <<committing, kjournald>>,
         \A b \in Block : \/ Same(bh[b], bh'[b], committing.tid)
                          \/ bh'[b].trans = bh[b].trans /\ bh'[b].jlist = bh[b].jlist
  PROVE  kjournald = "flush" => Logged' = Logged
  <1>1. ASSUME kjournald = "flush" PROVE Logged' = Logged
    <2>1. committing.tid # 0
      BY <1>1, Zenon DEF StageInv
    <2> QED BY <2>1, Zenon DEF Logged, Same
  <1> QED BY <1>1

\* The credits when task p moves: a buffer that joins the transaction is paid for.
LEMMA CreditMove ==
  ASSUME RunType, RunType', HandleType, HandleType', CreditInv, NEW p \in Task,
         \A q \in Task : q # p => handle'[q] = handle[q],
         handle'[p].credits <= MaxBuffers, handle'[p].need <= 2 * MaxBuffers, running'.credits <= MaxBuffers,
         Cardinality(Mine') + OwnTokens(handle'[p]) + running.credits
           <= Cardinality(Mine) + OwnTokens(handle[p]) + running'.credits,
         UNCHANGED <<committing, kjournald>>, kjournald = "flush" => Logged' = Logged
  PROVE  CreditInv'
  <1> USE Zenon
  <1>1. /\ Cardinality(Mine) + Cardinality(Tokens) <= running.credits
        /\ \A q \in Task : handle[q].credits <= MaxBuffers /\ handle[q].need <= 2 * MaxBuffers
        /\ committing.credits <= MaxBuffers
        /\ kjournald = "flush" => Cardinality(Logged) <= committing.credits
    BY DEF CreditInv
  <1> DEFINE o == Cardinality(OtherTokens(handle, p))
  <1>2. OtherTokens(handle', p) = OtherTokens(handle, p)
    BY DEF OtherTokens
  <1>3. handle \in [Task -> HSet] /\ handle' \in [Task -> HSet]
    BY DEF HandleType
  <1>4. o \in Nat
    BY OtherFinite, SMT
  <1>5. Cardinality(Tokens) = o + OwnTokens(handle[p])
    BY <1>1, <1>3, TokensAre, SMT DEF Tokens
  <1>6. Cardinality(Tokens') = o + OwnTokens(handle'[p])
    BY <1>2, <1>3, TokensAre, SMT DEF Tokens
  <1>7. Cardinality(Mine) \in Nat /\ Cardinality(Mine') \in Nat
    <2>1. Mine \in SUBSET Block /\ Mine' \in SUBSET Block
      BY DEF Mine
    <2> QED BY <2>1, BlockSets
  <1>8. OwnTokens(handle[p]) \in Nat /\ OwnTokens(handle'[p]) \in Nat
    BY <1>3 DEF OwnTokens, HSet
  <1>9. running.credits \in Nat /\ running'.credits \in Nat
    BY DEF RunType
  <1> HIDE DEF o
  <1>10. Cardinality(Mine') + Cardinality(Tokens') <= running'.credits
    BY <1>1, <1>4, <1>5, <1>6, <1>7, <1>8, <1>9, SMT
  <1>11. \A q \in Task : handle'[q].credits <= MaxBuffers /\ handle'[q].need <= 2 * MaxBuffers
    BY <1>1
  <1> QED BY <1>1, <1>10, <1>11 DEF CreditInv

\* journal_forget takes a buffer from the running transaction, never into it.
LEMMA ForgetHas ==
  ASSUME NEW r, Buffer(r), NEW R \in Nat, R # 0, Has(Forget(r, R), R)
  PROVE  Has(r, R)
  <1> USE Zenon
  <1>1. CASE r.trans = R
    BY <1>1 DEF Has
  <1>2. CASE r.trans # R
    <2>1. Forget(r, R).trans = r.trans /\ Forget(r, R).next = 0
      BY <1>2 DEF Forget, Buffer, Fields
    <2> QED BY <1>2, <2>1 DEF Has
  <1> QED BY <1>1, <1>2, SMT

\* A step that gives the running transaction no buffer adds none to its blocks.
LEMMA MineIs ==
  ASSUME running'.tid = running.tid, \A b \in Block : Has(bh'[b], running.tid) => Has(bh[b], running.tid)
  PROVE  Mine' \subseteq Mine
  BY Zenon DEF Mine, Has

\* A new transaction has no buffer yet.
LEMMA MineStart ==
  ASSUME IInv, NEW p \in Task, start_this_handle(p)
  PROVE  Mine' \subseteq Mine
  <1> USE Zenon
  <1>0. TidType /\ TidInv /\ Kinds /\ HandleType
    BY BufFacts
  <1>1. UNCHANGED bh
    BY DEF start_this_handle, buffers
  <1>2. running'.tid = running.tid \/ (running.tid = 0 /\ running'.tid = j.transaction_sequence)
    BY <1>0, StartIs DEF Kinds
  <1>3. ASSUME NEW b \in Block, running.tid = 0 PROVE ~Has(bh[b], j.transaction_sequence)
    <2>1. bh[b].trans \in {0, committing.tid} /\ bh[b].next = 0
      BY <1>3, BufFacts DEF BufOK
    <2>2. committing.tid # j.transaction_sequence \/ j.transaction_sequence = 0
      BY <1>0, SMT DEF TidInv, TidType
    <2> QED BY <2>1, <2>2 DEF Has
  <1> QED BY <1>1, <1>2, <1>3 DEF Mine, Has

\* The operations on handles keep CreditInv: a buffer the transaction gains is paid for by a credit.
LEMMA HandlesCredit ==
  ASSUME IInv, Next, NEW p \in Task, Handles(p)
  PROVE  CreditInv'
  <1> USE Zenon
  <1> DEFINE h == handle[p]
             g == handle'[p]
             Fits == g.credits <= MaxBuffers /\ g.need <= 2 * MaxBuffers /\ running'.credits <= MaxBuffers
             Paid == Cardinality(Mine') + OwnTokens(g) + running.credits
                       <= Cardinality(Mine) + OwnTokens(h) + running'.credits
             Mover == Fits /\ Paid
  <1>0. /\ TidType /\ TidInv /\ StageInv /\ HandleInv /\ HandleType /\ Kinds /\ BufType /\ CreditInv
        /\ RunType /\ JType /\ CommitType /\ RunType'
    BY BufFacts, Ids DEF Kinds, IInv
  <1>1. UNCHANGED <<committing, kjournald>>
    BY HandlesKeep
  <1>t. HandleType'
    BY HandleTypes, SMT
  <1>n. /\ h.credits \in Nat /\ h.need \in Nat /\ g.credits \in Nat /\ g.need \in Nat
        /\ running.credits \in Nat /\ running'.credits \in Nat /\ committing.credits \in Nat
        /\ h.credits <= MaxBuffers /\ h.need <= 2 * MaxBuffers /\ running.credits <= MaxBuffers
        /\ committing.credits <= MaxBuffers
    <2>1. h \in HSet /\ g \in HSet
      BY <1>0, <1>t DEF HandleType
    <2> QED BY <1>0, <2>1 DEF HSet, RunType, CommitType, CreditInv
  <1>N. MaxBuffers \in Nat /\ Credits \in Nat /\ Credits <= MaxBuffers /\ MaxBuffers <= 2 * MaxBuffers
    BY JournalAssumption, SMT
  <1>c. /\ Cardinality(Mine) \in Nat /\ Cardinality(Mine') \in Nat
        /\ Mine' \subseteq Mine => Cardinality(Mine') <= Cardinality(Mine)
        /\ IsFiniteSet(Mine) /\ Mine \subseteq Block
    <2>1. Mine \in SUBSET Block /\ Mine' \in SUBSET Block
      BY DEF Mine
    <2> QED BY <2>1, BlockSets
  <1>p. /\ "idle" \notin Open /\ "space" \notin Open /\ "wait" \notin Open /\ "fwait" \notin Open /\ "fckpt" \notin Open
        /\ "open" \in Open /\ "access" \in Open /\ "dwait" \in Open
    BY DEF Open
  <1>f. \A q \in Task : q # p => handle'[q] = handle[q]
    BY <1>0, HandleMoves DEF Ends, Joins, Waits, Takes, Returns, Pays, Awaits, Syncs, Turns, Sets
  <1>o. OwnTokens(h) \in Nat /\ OwnTokens(g) \in Nat
    BY <1>n DEF OwnTokens
  <1>q. ASSUME Mover PROVE CreditInv'
    <2>1. kjournald = "flush" => Logged' = Logged
      BY <1>0, <1>1, HandlesBuf, LoggedKept
    <2> QED BY <1>0, <1>1, <1>t, <1>f, <1>q, <2>1, CreditMove
  <1> SUFFICES Mover
    BY <1>q, SMT
  \* No buffer joins the transaction, and the task keeps its credits.
  <1>2. ASSUME UNCHANGED running, Mine' \subseteq Mine, h.pc \in Open <=> g.pc \in Open,
               g.credits = h.credits /\ g.need = h.need
        PROVE  Mover
    <2>1. OwnTokens(g) = OwnTokens(h)
      BY <1>2 DEF OwnTokens
    <2> HIDE DEF h, g
    <2>2. Paid
      BY <1>2, <1>c, <1>n, <1>o, <2>1, SMT
    <2> QED BY <1>2, <1>n, <2>2
  <1>3. ASSUME NEW b \in Block, UNCHANGED handle, journal_revoke(p, b) PROVE Mover
    <2>1. UNCHANGED running /\ bh' = [bh EXCEPT ![b] = Forget(bh[b], handle[p].tid)]
      BY <1>3 DEF journal_revoke
    <2>2. handle[p].tid = running.tid /\ running.tid # 0 /\ \A c \in Block : c # b => bh'[c] = bh[c]
      BY <1>3, RevokeBuf
    <2>3. bh'[b] = Forget(bh[b], running.tid) /\ Buffer(bh[b]) /\ running.tid \in Nat
      BY <1>0, <2>1, <2>2 DEF BufType, TidType
    <2>4. Mine' \subseteq Mine
      BY <2>1, <2>2, <2>3, ForgetHas, MineIs
    <2> QED BY <1>2, <1>3, <2>1, <2>4
  <1>4. CASE start_this_handle(p)
    <2>0. Mine' \subseteq Mine
      BY <1>4, MineStart, SMT
    <2>1. /\ h.pc = "idle"
          /\ \/ UNCHANGED <<running, handle>>
             \/ /\ running'.credits = (IF running.tid = 0 THEN 0 ELSE running.credits)
                /\ handle' = [handle EXCEPT ![p].pc = "space", ![p].need = space_needed]
             \/ /\ running'.credits = (IF running.tid = 0 THEN 0 ELSE running.credits) + Credits
                /\ running'.credits <= MaxBuffers
                /\ handle' = [handle EXCEPT ![p] = [NoHandle EXCEPT
                                !.pc = "open", !.tid = running'.tid, !.credits = Credits]]
      BY <1>0, <1>4, StartIs
    <2>2. running.tid = 0 => running.credits = 0
      BY <1>0, NullIs
    <2>o. OwnTokens(h) = 0
      BY <1>p, <2>1 DEF OwnTokens
    <2>3. CASE UNCHANGED <<running, handle>>
      BY <1>2, <2>0, <2>3
    <2>4. CASE /\ running'.credits = (IF running.tid = 0 THEN 0 ELSE running.credits)
               /\ handle' = [handle EXCEPT ![p].pc = "space", ![p].need = space_needed]
      <3>1. g.pc = "space" /\ g.credits = h.credits /\ g.need = MaxBuffers + committing.credits
        BY <1>0, <2>4 DEF HandleType, HSet, space_needed
      <3>2. OwnTokens(g) = 0
        BY <1>p, <3>1 DEF OwnTokens
      <3>3. running'.credits = running.credits
        BY <2>2, <2>4
      <3> HIDE DEF h, g
      <3> QED BY <1>c, <1>n, <1>N, <2>0, <2>o, <3>1, <3>2, <3>3, SMT
    <2>5. CASE /\ running'.credits = (IF running.tid = 0 THEN 0 ELSE running.credits) + Credits
               /\ running'.credits <= MaxBuffers
               /\ handle' = [handle EXCEPT ![p] = [NoHandle EXCEPT
                                !.pc = "open", !.tid = running'.tid, !.credits = Credits]]
      <3>1. g.pc = "open" /\ g.credits = Credits /\ g.need = 0
        BY <1>0, <2>5 DEF HandleType, HSet, NoHandle
      <3>2. OwnTokens(g) = Credits
        BY <1>p, <3>1 DEF OwnTokens
      <3>3. running'.credits = running.credits + Credits
        BY <2>2, <2>5
      <3> HIDE DEF h, g
      <3> QED BY <1>c, <1>n, <1>N, <2>0, <2>o, <2>5, <3>1, <3>2, <3>3, SMT
    <2> HIDE DEF Mover
    <2> QED BY <2>1, <2>3, <2>4, <2>5, SMT
  <1>m. ASSUME Quiet(p), running'.tid = running.tid PROVE Mine' \subseteq Mine
    <2>1. \A b \in Block : bh'[b].trans = bh[b].trans /\ bh'[b].next = bh[b].next
      BY <1>m, QuietBuf
    <2> QED BY <1>m, <2>1, MineIs DEF Has
  <1>5. ASSUME Quiet(p), UNCHANGED running, h.pc \in Open <=> g.pc \in Open, g.credits = h.credits /\ g.need = h.need
        PROVE  Mover
    BY <1>2, <1>5, <1>m
  <1>6. CASE (unused_access(p) \/ journal_dirty_metadata(p) \/ dirty_data_written(p)) /\ Returns(p)
    <2>1. UNCHANGED running /\ Quiet(p)
      BY <1>6 DEF unused_access, journal_dirty_metadata, dirty_data_written, Quiet
    <2>2. h.pc \in Open /\ g.pc \in Open /\ g.credits = h.credits /\ g.need = h.need
      BY <1>p, <1>6 DEF Returns, Sets
    <2> QED BY <1>5, <2>1, <2>2
  <1>7. ASSUME NEW b \in Block, journal_dirty_data(p, b), UNCHANGED handle \/ Awaits(p, b) PROVE Mover
    <2>1. UNCHANGED running /\ Quiet(p)
      BY <1>7 DEF journal_dirty_data, Quiet
    <2>2. (h.pc \in Open <=> g.pc \in Open) /\ g.credits = h.credits /\ g.need = h.need
      BY <1>p, <1>7 DEF Awaits, Sets
    <2> QED BY <1>5, <2>1, <2>2
  <1>8. ASSUME journal_flush(p), NEW pc \in {"fckpt", "fwait"}, NEW tid, Turns(p, pc, tid) PROVE Mover
    <2>1. UNCHANGED running /\ Quiet(p) /\ h.pc = "idle"
      BY <1>8 DEF journal_flush, At, Quiet
    <2>2. g.pc = pc /\ g.credits = h.credits /\ g.need = h.need
      BY <1>8 DEF Turns, Sets
    <2>3. h.pc \notin Open /\ g.pc \notin Open
      BY <1>p, <1>8, <2>1, <2>2
    <2> QED BY <1>5, <2>1, <2>2, <2>3
  <1>9. CASE journal_stop(p) /\ (Syncs(p) \/ Ends(p))
    <2>1. h.pc = "open" /\ running' = [running EXCEPT !.updates = @ - 1, !.credits = @ - handle[p].credits] /\ Quiet(p)
      BY <1>9 DEF journal_stop, At, Quiet
    <2>2. running'.tid = running.tid /\ running'.credits = running.credits - h.credits
      BY <1>0, <2>1 DEF RunType
    <2>3. g.pc \in {"wait", "idle"} /\ g.credits = 0 /\ g.need = 0
      BY <1>9 DEF Syncs, Ends, Sets
    <2>4. OwnTokens(h) = h.credits /\ OwnTokens(g) = 0
      BY <1>p, <2>1, <2>3 DEF OwnTokens
    <2>5. Cardinality(Mine') <= Cardinality(Mine)
      BY <1>m, <1>c, <2>1, <2>2
    <2> HIDE DEF h, g
    <2> QED BY <1>c, <1>n, <1>N, <2>2, <2>3, <2>4, <2>5, SMT
  <1>10. CASE log_wait_commit(p) /\ (Ends(p) \/ Sets(p, "fckpt", 0, 0, NoBlock, 0))
    <2>1. UNCHANGED running /\ Quiet(p) /\ h.pc \in {"wait", "fwait"}
      BY <1>10 DEF log_wait_commit, At, Quiet
    <2>2. g.pc \in {"fckpt", "idle"} /\ g.credits = 0 /\ g.need = 0
      BY <1>10 DEF Ends, Sets
    <2>3. OwnTokens(h) = 0 /\ OwnTokens(g) = 0
      BY <1>p, <2>1, <2>2 DEF OwnTokens
    <2>4. Cardinality(Mine') <= Cardinality(Mine)
      BY <1>m, <1>c, <2>1
    <2> HIDE DEF h, g
    <2> QED BY <1>c, <1>n, <1>N, <2>1, <2>2, <2>3, <2>4, SMT
  \* A buffer that joins the transaction costs a credit.
  <1>11. ASSUME NEW b \in Block, \/ journal_get_write_access(p, b) /\ Takes(p, b)
                                 \/ journal_get_create_access(p, b) /\ Pays(p, b)
         PROVE  Mover
    <2>1. UNCHANGED running
      BY <1>11 DEF journal_get_write_access, journal_get_create_access
    <2>2. h.tid = running.tid /\ running.tid # 0 /\ \A c \in Block : c # b => bh'[c] = bh[c]
      BY <1>11, AccessBuf
    <2>3. Mine' \subseteq Mine \cup {b}
      BY <2>1, <2>2 DEF Mine
    <2>5. g.credits = h.credits - (IF b \in Mine THEN 0 ELSE 1)
      BY <1>11, <2>2 DEF Mine, Takes, Pays, Sets, Charge
    <2>6. Cardinality(Mine') <= Cardinality(Mine) + (IF b \in Mine THEN 0 ELSE 1)
      <3>1. Cardinality(Mine \cup {b}) = IF b \in Mine THEN Cardinality(Mine) ELSE Cardinality(Mine) + 1
        BY <1>c, FS_AddElement
      <3>2. Cardinality(Mine') <= Cardinality(Mine \cup {b})
        <4>1. Mine \cup {b} \in SUBSET Block
          BY <1>c
        <4> QED BY <2>3, <4>1, BlockSets
      <3> QED BY <1>c, <3>1, <3>2, SMT
    <2>7. h.pc \in Open /\ g.pc \in Open /\ g.need = h.need
      BY <1>p, <1>11 DEF Takes, Pays, Sets
    <2>8. OwnTokens(h) = h.credits /\ OwnTokens(g) = g.credits
      BY <2>7 DEF OwnTokens
    <2> HIDE DEF h, g
    <2> QED BY <1>c, <1>n, <1>N, <2>1, <2>5, <2>6, <2>7, <2>8, SMT
  <1> HIDE DEF Mover
  <1> QED BY <1>0, <1>3, <1>4, <1>6, <1>7, <1>8, <1>9, <1>10, <1>11, HandleMoves

\* The credits when no task moves.
LEMMA CreditKept ==
  ASSUME CreditInv, RunType, UNCHANGED <<handle, running.credits>>, Mine' \subseteq Mine,
         committing'.credits <= MaxBuffers,
         kjournald' = "flush" => Cardinality(Logged') <= committing'.credits
  PROVE  CreditInv'
  <1> USE Zenon
  <1>1. Mine \in SUBSET Block /\ Mine' \in SUBSET Block
    BY DEF Mine
  <1>2. Cardinality(Mine') <= Cardinality(Mine) /\ Cardinality(Mine) \in Nat /\ Cardinality(Mine') \in Nat
    BY <1>1, BlockSets
  <1>3. Tokens' = Tokens
    BY DEF Tokens
  <1>4. Cardinality(Tokens) \in Nat
    <2>1. IsFiniteSet(Task \X (1 .. MaxBuffers))
      BY JournalAssumption, UpTo, FS_Product
    <2>2. Tokens \subseteq Task \X (1 .. MaxBuffers)
      BY DEF Tokens, CreditsOf
    <2> QED BY <2>1, <2>2, FS_Subset, FS_CardinalityType
  <1>5. Cardinality(Mine) + Cardinality(Tokens) <= running.credits /\ running.credits <= MaxBuffers /\ running.credits \in Nat
    BY DEF CreditInv, RunType
  <1>6. Cardinality(Mine') + Cardinality(Tokens') <= running'.credits /\ running'.credits <= MaxBuffers
    BY <1>2, <1>3, <1>4, <1>5, SMT
  <1> QED BY <1>6 DEF CreditInv

\* The checkpointer keeps CreditInv.
LEMMA CheckpointCredit ==
  ASSUME IInv, Next, NEW p \in Task, Checkpoint(p)
  PROVE  CreditInv'
  <1> USE Zenon
  <1>0. RunType /\ RunType' /\ HandleType /\ HandleType' /\ CreditInv /\ StageInv /\ Kinds /\ BufType /\ JType /\ CommitType
    BY BufFacts, Ids, HandleTypes DEF Kinds, IInv
  <1>1. /\ UNCHANGED <<running, committing, kjournald>>
        /\ \A b \in Block : bh'[b].trans = bh[b].trans /\ bh'[b].next = bh[b].next /\ bh'[b].jlist = bh[b].jlist
    BY TouchBuf DEF Touched
  <1>2. kjournald = "flush" => Logged' = Logged
    BY <1>0, <1>1, LoggedKept
  <1>3. Mine' = Mine
    BY <1>1 DEF Mine
  <1>5. \A q \in Task : q # p => handle'[q] = handle[q]
    BY <1>0, CheckpointMoves DEF Turns, Ends, Sets
  <1>6. CASE UNCHANGED handle
    BY <1>0, <1>1, <1>2, <1>3, <1>6, CreditKept DEF CreditInv
  <1>7. CASE /\ handle[p].pc \notin Open /\ handle'[p].pc \notin Open
             /\ \/ handle'[p].credits = handle[p].credits /\ handle'[p].need = handle[p].need
                \/ handle'[p].credits = 0 /\ handle'[p].need = 0
    <2>1. OwnTokens(handle[p]) = 0 /\ OwnTokens(handle'[p]) = 0
      BY <1>7 DEF OwnTokens
    <2>2. handle'[p].credits <= MaxBuffers /\ handle'[p].need <= 2 * MaxBuffers
      <3>1. handle[p].credits <= MaxBuffers /\ handle[p].need <= 2 * MaxBuffers
        BY <1>0 DEF CreditInv
      <3>2. 0 <= MaxBuffers /\ 0 <= 2 * MaxBuffers
        BY JournalAssumption, SMT
      <3> QED BY <1>7, <3>1, <3>2
    <2>3. running'.credits <= MaxBuffers
      BY <1>0, <1>1 DEF CreditInv
    <2>4. Cardinality(Mine') + OwnTokens(handle'[p]) + running.credits
            <= Cardinality(Mine) + OwnTokens(handle[p]) + running'.credits
      <3>1. Cardinality(Mine) \in Nat /\ running.credits \in Nat
        <4>1. Mine \in SUBSET Block
          BY DEF Mine
        <4> QED BY <1>0, <4>1, BlockSets DEF RunType
      <3> QED BY <1>1, <1>3, <2>1, <3>1, SMT
    <2> QED BY <1>0, <1>1, <1>2, <1>5, <2>2, <2>3, <2>4, CreditMove
  <1>8. \/ UNCHANGED handle
        \/ /\ handle[p].pc \in {"space", "scan", "fscan", "fckpt"}
           /\ handle'[p].pc \in {"space", "scan", "fscan", "fckpt", "idle"}
           /\ \/ handle'[p].credits = handle[p].credits /\ handle'[p].need = handle[p].need
              \/ handle'[p].credits = 0 /\ handle'[p].need = 0
    BY <1>0, CheckpointMoves DEF Turns, Ends, Sets
  <1> QED BY <1>6, <1>7, <1>8 DEF Open

\* The committing transaction takes over the credits of the running one, and
\* has no more metadata to log than they pay for.
LEMMA SwitchCredit ==
  ASSUME IInv, commit_switch
  PROVE  CreditInv'
  <1> USE Zenon
  <1>0. CreditInv /\ Kinds /\ FsType /\ RunType
    BY BufFacts DEF IInv, Kinds
  <1>1. UNCHANGED handle
    BY DEF commit_switch
  <1>2. /\ running' = NoTrans /\ committing'.tid = running.tid /\ committing'.credits = running.credits
        /\ kjournald' = "flush"
    BY <1>0, SwitchIs
  <1>3. OpenTasks = {} /\ running.tid # 0 /\ \A b \in Block : bh'[b].trans = running.tid => bh[b].trans = running.tid
    BY SwitchHandle, SwitchBuf
  <1>4. running'.tid = 0 /\ running'.credits = 0
    BY <1>2 DEF NoTrans
  <1>5. Mine' = {}
    BY <1>4 DEF Mine
  <1>6. Tokens' = {} /\ Tokens = {}
    BY <1>1, <1>3 DEF Tokens, CreditsOf, OpenTasks
  <1>7. Cardinality({}) = 0
    BY FS_EmptySet
  <1>8. Logged' \subseteq Mine /\ Mine \in SUBSET Block
    BY <1>2, <1>3 DEF Logged, Mine
  <1>9. Cardinality(Logged') <= Cardinality(Mine) /\ Cardinality(Mine) \in Nat /\ Cardinality(Logged') \in Nat
    <2>1. Logged' \in SUBSET Block
      BY <1>8
    <2> QED BY <1>8, <2>1, BlockSets
  <1>10. Cardinality(Mine) + Cardinality(Tokens) <= running.credits /\ running.credits <= MaxBuffers /\ running.credits \in Nat
    BY <1>0 DEF CreditInv, RunType
  <1>11. Cardinality(Logged') <= committing'.credits /\ committing'.credits <= MaxBuffers
    BY <1>2, <1>6, <1>7, <1>9, <1>10, SMT
  <1>12. Cardinality(Mine') + Cardinality(Tokens') <= running'.credits /\ running'.credits <= MaxBuffers
    BY <1>4, <1>5, <1>6, <1>7, JournalAssumption, SMT
  <1> QED BY <1>0, <1>1, <1>11, <1>12 DEF CreditInv

\* Every step keeps CreditInv.
LEMMA CreditStep ==
  ASSUME IInv, Next
  PROVE  CreditInv'
  <1> USE Zenon
  <1>0. CreditInv /\ Kinds /\ RunType /\ StageInv /\ CommitType
    BY BufFacts DEF IInv, Kinds
  <1>1. ASSUME NEW p \in Task, Handles(p) \/ Checkpoint(p) PROVE CreditInv'
    BY <1>1, HandlesCredit, CheckpointCredit
  <1>2. CASE IoDone \/ \E b \in Block : write_back(b) \/ journal_try_to_free_buffer(b)
    <2>1. /\ UNCHANGED <<running, committing, kjournald>>
          /\ \A b \in Block : bh'[b].trans = bh[b].trans /\ bh'[b].next = bh[b].next /\ bh'[b].jlist = bh[b].jlist
      BY <1>2, TouchBuf DEF Touched
    <2>2. UNCHANGED handle
      BY <1>2, IoKeep DEF journal_try_to_free_buffer
    <2>3. kjournald = "flush" => Logged' = Logged
      BY <1>0, <2>1, LoggedKept
    <2>4. Mine' = Mine
      BY <2>1 DEF Mine
    <2> QED BY <1>0, <2>1, <2>2, <2>3, <2>4, CreditKept DEF CreditInv
  <1>3. CASE (commit_timeout \/ Commit) /\ ~commit_switch
    <2>1. UNCHANGED handle
      BY <1>3, CommitKeep
    <2>2. \A b \in Block : Has(bh'[b], running.tid) => Has(bh[b], running.tid)
      BY <1>3, MetadataBuf, IobufBuf, IdleBuf, FinishBuf DEF Commit, Has
    <2>3. running'.tid = running.tid /\ running'.credits = running.credits
      <3>1. running' = running \/ running' = [running EXCEPT !.locked = TRUE]
        BY <1>3 DEF commit_timeout, Commit, commit_lock, write_out_data, commit_metadata, wait_for_iobuf,
                           commit_record, commit_finish
      <3> QED BY <1>0, <3>1 DEF RunType
    <2>4. Mine' \subseteq Mine
      BY <2>2, <2>3, MineIs
    <2>5. committing'.credits <= MaxBuffers /\ (kjournald' = "flush" => Cardinality(Logged') <= committing'.credits)
      <3>1. CASE commit_finish
        <4>1. committing'.credits = 0 /\ kjournald' = "sleep"
          BY <3>1 DEF commit_finish, NoCommit
        <4>2. 0 <= MaxBuffers
          BY JournalAssumption, SMT
        <4> QED BY <4>1, <4>2
      <3>2. CASE commit_metadata \/ wait_for_iobuf
        <4>1. committing'.credits = committing.credits /\ kjournald' = "iobuf"
          BY <1>0, <3>2, MetadataIs, IobufIs DEF K
        <4> QED BY <1>0, <4>1 DEF CreditInv
      <3>3. CASE commit_timeout \/ commit_lock \/ write_out_data \/ commit_record
        <4>1. UNCHANGED <<bh, committing>>
          BY <3>3, IdleBuf
        <4>2. kjournald' = kjournald \/ kjournald' \in {"locked", "record"}
          BY <3>3 DEF commit_timeout, commit_lock, write_out_data, commit_record
        <4>3. Logged' = Logged
          BY <4>1 DEF Logged
        <4> QED BY <1>0, <4>1, <4>2, <4>3 DEF CreditInv
      <3> QED BY <1>3, <3>1, <3>2, <3>3 DEF Commit
    <2> QED BY <1>0, <2>1, <2>3, <2>4, <2>5, CreditKept
  <1>4. CASE commit_switch
    BY <1>4, SwitchCredit, SMT
  <1>5. CASE Crash \/ Mount
    <2>1. /\ handle' = [p \in Task |-> NoHandle] /\ running' = NoTrans /\ committing' = NoCommit /\ kjournald' = "sleep"
      <3>1. CASE Crash
        BY <3>1 DEF Crash
      <3>2. CASE Mount
        <4>1. mode # "mounted"
          BY <3>2 DEF Mount, journal_recover, do_one_pass, journal_reset
        <4> QED BY <3>2, <4>1, MountKeep DEF IInv, Down
      <3> QED BY <1>5, <3>1, <3>2, SMT
    <2>2. running'.tid = 0 /\ running'.credits = 0 /\ committing'.credits = 0
      BY <2>1 DEF NoTrans, NoCommit
    <2>3. \A p \in Task : handle'[p].pc \notin Open /\ handle'[p].credits = 0 /\ handle'[p].need = 0
      BY <2>1 DEF NoHandle, Open
    <2>4. Mine' = {} /\ Tokens' = {}
      BY <2>2, <2>3 DEF Mine, Tokens, CreditsOf
    <2>5. Cardinality({}) = 0
      BY FS_EmptySet
    <2>6. 0 <= MaxBuffers /\ 0 <= 2 * MaxBuffers
      BY JournalAssumption, SMT
    <2>7. Cardinality(Mine') + Cardinality(Tokens') <= running'.credits
      BY <2>2, <2>4, <2>5, SMT
    <2> QED BY <2>1, <2>2, <2>3, <2>6, <2>7 DEF CreditInv
  <1> QED BY <1>1, <1>2, <1>3, <1>4, <1>5 DEF Next

-----------------------------------------------------------------------------
(* The ring of the log. *)

\* Distances on the ring, when its beginning moves from t to s.
LEMMA ShiftIs ==
  ASSUME NEW t \in 1 .. LogLen, NEW s \in 1 .. LogLen, NEW x \in 1 .. LogLen,
         ((s - t) % LogLen) <= ((x - t) % LogLen)
  PROVE  ((x - s) % LogLen) = ((x - t) % LogLen) - ((s - t) % LogLen)
  <1> DEFINE d == (s - t) % LogLen
             e == (x - t) % LogLen
             f == (x - s) % LogLen
  <1>1. /\ d = IF s >= t THEN s - t ELSE (s - t) + LogLen
        /\ e = IF x >= t THEN x - t ELSE (x - t) + LogLen
        /\ f = IF x >= s THEN x - s ELSE (x - s) + LogLen
    BY DistanceIs
  <1>2. d <= e /\ LogLen \in Nat
    BY JournalAssumption
  <1> HIDE DEF d, e, f
  <1>3. f = e - d
    BY <1>1, <1>2
  <1> QED BY <1>3 DEF d, e, f

\* A distance on the ring is less than the length of the log.
LEMMA DistType ==
  ASSUME NEW t \in 1 .. LogLen, NEW x \in 1 .. LogLen
  PROVE  ((x - t) % LogLen) \in 0 .. LogLen - 1
  <1>1. LogLen \in Nat
    BY JournalAssumption
  <1> QED BY <1>1, DistanceIs

\* The block n beyond t is n away from it.
LEMMA DistWrap ==
  ASSUME NEW t \in 1 .. LogLen, NEW n \in 0 .. LogLen - 1
  PROVE  Wrap(t, n) \in 1 .. LogLen /\ ((Wrap(t, n) - t) % LogLen) = n
  <1> DEFINE w == Wrap(t, n)
  <1>0. LogLen \in Nat
    BY JournalAssumption
  <1>1. w = IF t + n <= LogLen THEN t + n ELSE (t + n) - LogLen
    BY WrapIs
  <1> HIDE DEF w
  <1>2. w \in 1 .. LogLen
    BY <1>0, <1>1
  <1>3. ((w - t) % LogLen) = IF w >= t THEN w - t ELSE (w - t) + LogLen
    BY <1>2, DistanceIs
  <1>4. ((w - t) % LogLen) = n
    BY <1>0, <1>1, <1>2, <1>3
  <1> QED BY <1>2, <1>4 DEF w

\* The head of the log, seen from a new tail s.
LEMMA WrapFrom ==
  ASSUME NEW t \in 1 .. LogLen, NEW s \in 1 .. LogLen, NEW n \in 0 .. LogLen - 1, ((s - t) % LogLen) <= n
  PROVE  Wrap(s, n - ((s - t) % LogLen)) = Wrap(t, n)
  <1> DEFINE d == (s - t) % LogLen
             w == Wrap(t, n)
             v == Wrap(s, n - d)
  <1>0. LogLen \in Nat
    BY JournalAssumption
  <1>1. d = (IF s >= t THEN s - t ELSE (s - t) + LogLen) /\ d <= n
    BY DistanceIs
  <1>2. w = IF t + n <= LogLen THEN t + n ELSE (t + n) - LogLen
    BY WrapIs
  <1> HIDE DEF d, w
  <1>3. n - d \in 0 .. LogLen - 1
    BY <1>0, <1>1
  <1>4. v = IF s + (n - d) <= LogLen THEN s + (n - d) ELSE (s + (n - d)) - LogLen
    BY <1>3, WrapIs
  <1> HIDE DEF v
  <1>5. v = w
    BY <1>0, <1>1, <1>2, <1>4
  <1> QED BY <1>5 DEF d, w, v

\* Going on m and then n blocks is going on m + n.
LEMMA WrapTwice ==
  ASSUME NEW t \in 1 .. LogLen, NEW m \in Nat, NEW n \in Nat, m + n <= LogLen - 1
  PROVE  Wrap(Wrap(t, m), n) = Wrap(t, m + n)
  <1> DEFINE w == Wrap(t, m)
             v == Wrap(w, n)
             u == Wrap(t, m + n)
  <1>0. LogLen \in Nat
    BY JournalAssumption
  <1>1. m \in 0 .. LogLen - 1 /\ n \in 0 .. LogLen - 1 /\ m + n \in 0 .. LogLen - 1
    BY <1>0
  <1>2. /\ w = IF t + m <= LogLen THEN t + m ELSE (t + m) - LogLen
        /\ u = IF t + (m + n) <= LogLen THEN t + (m + n) ELSE (t + (m + n)) - LogLen
    BY <1>1, WrapIs
  <1> HIDE DEF w, u
  <1>3. w \in 1 .. LogLen
    BY <1>0, <1>1, <1>2
  <1>4. v = IF w + n <= LogLen THEN w + n ELSE (w + n) - LogLen
    BY <1>1, <1>3, WrapIs
  <1> HIDE DEF v
  <1>5. v = u
    BY <1>0, <1>1, <1>2, <1>4
  <1> QED BY <1>5 DEF w, v, u

\* The conjuncts of the invariant that the steps on the log use.
LEMMA RingFacts ==
  ASSUME IInv
  PROVE  /\ RingInv /\ Kinds /\ ListType /\ JType /\ TidType /\ TidInv
         /\ j.tail \in 1 .. LogLen /\ j.head \in 1 .. LogLen /\ j.free \in 1 .. LogLen
         /\ LogLen - j.free \in 0 .. LogLen - 1 /\ LogLen \in Nat /\ Dist(j.head) = LogLen - j.free
         /\ committing.tid # 0 => committing.log_start \in 1 .. LogLen
         /\ \A t \in cplist : t.tid \in Nat /\ t.log_start \in 1 .. LogLen
  <1> USE Zenon
  <1>1. RingInv /\ Kinds /\ ListType /\ JType /\ TidType /\ TidInv /\ LogLen \in Nat
    BY JournalAssumption, BufFacts DEF IInv, Types, Kinds
  <1>2. j.tail \in 1 .. LogLen /\ j.head \in 1 .. LogLen /\ j.free \in 1 .. LogLen
    BY <1>1 DEF JType, JSet, RingInv
  <1>3. LogLen - j.free \in 0 .. LogLen - 1
    BY <1>1, <1>2, SMT
  <1>4. j.head = Wrap(j.tail, LogLen - j.free)
    BY <1>1 DEF RingInv
  <1>5. Dist(j.head) = LogLen - j.free
    BY <1>2, <1>3, <1>4, DistWrap DEF Dist
  <1> QED BY <1>1, <1>2, <1>3, <1>5 DEF RingInv, ListType

\* The ring stays where it is.
LEMMA RingKept ==
  ASSUME RingInv, Still, UNCHANGED <<committing.tid, committing.log_start, j.commit_sequence>>, cplist' \subseteq cplist
  PROVE  RingInv'
  BY Zenon DEF RingInv, Still, Dist

\* The tail moves up to the oldest transaction that the log still has to hold.
LEMMA RingTail ==
  ASSUME IInv, ~TailIsOldest, j' = CleanedTail, UNCHANGED <<committing, cplist>>
  PROVE  RingInv' /\ j'.free = j.free + Dist(FirstBlock)
  <1> USE Zenon
  <1> DEFINE s == FirstBlock
             d == Dist(s)
             m == LogLen - j.free
  <1>0. /\ RingInv /\ Kinds /\ ListType /\ JType
        /\ j.tail \in 1 .. LogLen /\ j.head \in 1 .. LogLen /\ j.free \in 1 .. LogLen
        /\ m \in 0 .. LogLen - 1 /\ LogLen \in Nat /\ Dist(j.head) = m
        /\ committing.tid # 0 => committing.log_start \in 1 .. LogLen
        /\ \A t \in cplist : t.tid \in Nat /\ t.log_start \in 1 .. LogLen
    BY RingFacts
  <1>1. /\ s \in 1 .. LogLen /\ j'.head = j.head /\ j'.tail = s /\ j'.free = j.free + d
        /\ j'.commit_sequence = j.commit_sequence
    BY <1>0, TailIs DEF Kinds
  <1>2. d \in 0 .. LogLen - 1
    BY <1>0, <1>1, DistType DEF Dist
  <1>3. d <= m
    <2>1. CASE cplist # {}
      <3>1. Oldest \in cplist
        BY <1>0, <2>1, OldestIs, SMT
      <3> QED BY <1>0, <2>1, <3>1 DEF FirstBlock, RingInv
    <2>2. CASE cplist = {} /\ committing.tid # 0
      BY <1>0, <2>2 DEF FirstBlock, RingInv
    <2>3. CASE cplist = {} /\ committing.tid = 0
      <3>1. s = j.head
        BY <2>3 DEF FirstBlock
      <3> QED BY <1>0, <3>1, SMT
    <2> QED BY <2>1, <2>2, <2>3, SMT
  <1>4. j'.free \in 1 .. LogLen /\ LogLen - j'.free = m - d
    <2> HIDE DEF d
    <2> QED BY <1>0, <1>1, <1>2, <1>3, SMT
  <1>5. j'.head = Wrap(j'.tail, LogLen - j'.free)
    <2>1. j.head = Wrap(j.tail, m)
      BY <1>0 DEF RingInv
    <2>2. d = (s - j.tail) % LogLen
      BY SMT DEF Dist
    <2> HIDE DEF m, s, d
    <2>3. Wrap(s, m - d) = Wrap(j.tail, m)
      BY <1>0, <1>1, <1>3, <2>2, WrapFrom, SMT
    <2> QED BY <1>1, <1>4, <2>1, <2>3
  \* Nothing that the log has to hold is before the new tail.
  <1>6. ASSUME NEW x \in 1 .. LogLen, d <= Dist(x) PROVE ((x - j'.tail) % LogLen) = Dist(x) - d
    BY <1>0, <1>1, <1>6, ShiftIs DEF Dist
  <1>7. ASSUME NEW t \in cplist PROVE d <= Dist(t.log_start)
    <2>1. Oldest \in cplist /\ Oldest.tid <= t.tid /\ s = Oldest.log_start
      BY <1>0, <1>7, OldestIs DEF FirstBlock
    <2>2. Oldest.tid = t.tid \/ Oldest.tid < t.tid
      BY <1>0, <2>1, SMT
    <2>3. CASE Oldest.tid = t.tid
      <3>1. Oldest = t
        BY <1>0, <2>1, <2>3 DEF RingInv
      <3>2. d = Dist(t.log_start)
        BY <2>1, <3>1
      <3> HIDE DEF d
      <3> QED BY <1>2, <3>2, SMT
    <2>4. CASE Oldest.tid < t.tid
      BY <1>0, <2>1, <2>4 DEF RingInv
    <2> QED BY <2>2, <2>3, <2>4, SMT
  <1>8. committing.tid # 0 => d <= Dist(committing.log_start)
    <2>1. CASE cplist # {}
      <3>1. Oldest \in cplist
        BY <1>0, <2>1, OldestIs, SMT
      <3> QED BY <1>0, <2>1, <3>1 DEF FirstBlock, RingInv
    <2>2. CASE cplist = {} /\ committing.tid # 0
      <3>1. d = Dist(committing.log_start)
        BY <2>2 DEF FirstBlock
      <3> HIDE DEF d
      <3> QED BY <1>2, <3>1, SMT
    <2> QED BY <2>1, <2>2, SMT
  <1> DEFINE D(x) == (x - j'.tail) % LogLen
  <1>9. /\ committing.tid # 0 => D(committing.log_start) = Dist(committing.log_start) - d
        /\ \A t \in cplist : D(t.log_start) = Dist(t.log_start) - d
    BY <1>0, <1>6, <1>7, <1>8
  <1>10. \A x \in 1 .. LogLen : Dist(x) \in 0 .. LogLen - 1
    BY <1>0, DistType DEF Dist
  <1> HIDE DEF d, D
  <1>11. committing.tid # 0 => committing.log_start \in 1 .. LogLen /\ D(committing.log_start) <= LogLen - j'.free
    <2>1. committing.tid # 0 => Dist(committing.log_start) <= m
      BY <1>0 DEF RingInv
    <2> QED BY <1>0, <1>2, <1>4, <1>9, <1>10, <2>1, SMT
  <1>12. ASSUME NEW t \in cplist
         PROVE  /\ D(t.log_start) <= LogLen - j'.free
                /\ committing.tid # 0 => D(t.log_start) <= D(committing.log_start)
                /\ \A u \in cplist : t.tid < u.tid => D(t.log_start) <= D(u.log_start)
    <2>1. /\ Dist(t.log_start) <= m
          /\ committing.tid # 0 => Dist(t.log_start) <= Dist(committing.log_start)
          /\ \A u \in cplist : t.tid < u.tid => Dist(t.log_start) <= Dist(u.log_start)
      BY <1>0 DEF RingInv
    <2>2. D(t.log_start) <= LogLen - j'.free
      BY <1>0, <1>2, <1>4, <1>9, <1>10, <2>1, SMT
    <2>3. committing.tid # 0 => D(t.log_start) <= D(committing.log_start)
      BY <1>0, <1>2, <1>9, <1>10, <2>1, SMT
    <2>4. \A u \in cplist : t.tid < u.tid => D(t.log_start) <= D(u.log_start)
      BY <1>0, <1>2, <1>9, <1>10, <2>1, SMT
    <2> QED BY <2>2, <2>3, <2>4, SMT
  <1>13. \A t \in cplist : /\ committing.tid # 0 => t.tid < committing.tid
                           /\ t.tid <= j'.commit_sequence
                           /\ \A u \in cplist : t.tid = u.tid => t = u
    BY <1>0, <1>1 DEF RingInv
  <1>14. RingInv'
    BY <1>4, <1>5, <1>11, <1>12, <1>13 DEF RingInv, Dist, D
  <1> QED BY <1>1, <1>14, SMT DEF d
=============================================================================
