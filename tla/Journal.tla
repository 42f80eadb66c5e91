------------------------------- MODULE Journal -------------------------------
(***************************************************************************)
(* The journaling block device layer of ext3, fs/jbd: handles and the      *)
(* running transaction (transaction.c), the commit thread (commit.c),      *)
(* revoke records (revoke.c), checkpointing and the tail of the log        *)
(* (checkpoint.c), journal_flush (journal.c), and recovery after a crash   *)
(* (recovery.c).                                                           *)
(*                                                                         *)
(* Every operation runs under lock_journal, so an action is what happens   *)
(* between taking that lock and dropping or sleeping on it.  A write is in *)
(* flight from submit_bh to its completion, and takes the contents of the  *)
(* buffer's memory when it completes; a crash loses the writes in flight.  *)
(* The contents of a metadata block are named by the transaction that      *)
(* wrote them (1 before the first); file data is 0.  Transaction ids start *)
(* at 2, and 0 stands for a NULL transaction.                              *)
(***************************************************************************)
EXTENDS Integers, Sequences, FiniteSetsExt, Functions

CONSTANTS
  Task, Block, NoBlock,
  LogLen,              \* blocks of the log, s_maxlen - s_first
  MaxBuffers,          \* j_max_transaction_buffers
  Reserved,            \* MIN_LOG_RESERVED_BLOCKS
  Credits,             \* the blocks every handle asks for
  Magic,               \* the contents that begin with JFS_MAGIC_NUMBER
  LastTid              \* the last transaction that may start (bound)

ASSUME JournalAssumption ==
  /\ NoBlock \notin Block /\ IsFiniteSet(Block) /\ IsFiniteSet(Task)
  /\ LogLen \in Nat \ {0} /\ MaxBuffers \in Nat /\ Reserved \in Nat
  /\ Credits \in 1 .. MaxBuffers /\ LastTid \in Nat
  /\ Magic \subseteq 1 .. LastTid

\* The log has room for two full transactions beside the reserved blocks, which
\* cover the blocks a commit adds to the buffers it logs, and a commit record for
\* every task that starts an empty transaction while it waits for space.
ASSUME SpaceAssumption ==
  /\ Cardinality(Task) + 6 <= Reserved /\ Reserved <= LogLen
  /\ 2 * MaxBuffers <= (LogLen - Reserved) - (LogLen - Reserved) \div 8

VARIABLES
  disk,                \* the home location of every block
  log, sb,             \* the log and the journal superblock
  logio,               \* log writes in flight
  bh,                  \* the metadata buffer of every block, with its journal_head
  dbh,                 \* the page cache buffer of a block of file data
  j,                   \* journal_t
  running, committing, \* j_running_transaction, j_committing_transaction
  cplist,              \* j_checkpoint_transactions, in the order of their ids
  revoke,              \* the revoke table of the running transaction
  use, freed,          \* ext3's bitmaps: what a block is used for, and the
                       \* transaction whose commit a freed block waits for
  handle,              \* of every task
  kjournald,           \* where the commit thread is
  mode, info,          \* mounted or not; recovery_info
  stable, pending,     \* the committed file system, and the one being committed
  exposed              \* blocks whose contents on disk the log does not vouch for
                       \* (see journal_revoke and journal_dirty_data)

device == <<disk, log, sb>>
buffers == <<bh, dbh>>
fs == <<use, freed>>
history == <<stable, pending, exposed>>
memory == <<logio, bh, dbh, j, running, committing, cplist, revoke, use, freed,
            handle, kjournald, info>>
vars == <<device, memory, mode, history>>

NoTrans == [tid |-> 0, locked |-> FALSE, updates |-> 0, credits |-> 0]
NoCommit == [tid |-> 0, log_start |-> 0, credits |-> 0, iobufs |-> << >>]
NoHandle == [pc |-> "idle", tid |-> 0, credits |-> 0, b |-> NoBlock, need |-> 0]

\* The metadata buffer and its journal_head; jlist is one of None, Reserved,
\* Metadata, Shadow and Forget.
CleanBuffer(v) ==
  [data |-> v, dirty |-> FALSE, jdirty |-> FALSE, locked |-> FALSE, frozen |-> 0,
   jlist |-> "None", trans |-> 0, next |-> 0, cp |-> 0]
NoData == [dirty |-> FALSE, locked |-> FALSE, trans |-> 0]

-----------------------------------------------------------------------------
(* Blocks of the log, and the log as a ring of positions 1 .. LogLen. *)

LogBlock(type, seq, tags, revoked) ==
  [type |-> type, seq |-> seq, tags |-> tags, revoked |-> revoked, val |-> 0]
Copy(v) == [LogBlock("copy", 0, << >>, {}) EXCEPT !.val = v]

\* wrap: the position n blocks after pos.
Wrap(pos, n) == ((pos - 1 + n) % LogLen) + 1

\* journal_write_metadata_buffer: contents that begin with the magic number
\* are logged with their first word replaced by 0.
Escape(v) == IF v \in Magic THEN -v ELSE v

SpaceUnreserved == j.free - j.free \div 8
log_space_left ==
  LET left == j.free - Reserved
  IN  IF left <= 0 THEN 0 ELSE left - left \div 8

-----------------------------------------------------------------------------
(* Recovery: what do_one_pass makes of the log. *)

\* The first n header blocks of the log, as long as they carry the expected
\* sequence number, with their positions.
Headers[n \in 0 .. LogLen] ==
  IF n = 0 THEN << >>
  ELSE LET w   == Headers[n - 1]
           h   == w[Len(w)]
           pos == IF w = << >> THEN sb.start ELSE Wrap(h.val, 1 + Len(h.tags))
           seq == IF w = << >> THEN sb.sequence
                  ELSE h.seq + (IF h.type = "commit" THEN 1 ELSE 0)
       IN  IF /\ log[pos].type \in {"descriptor", "revoke", "commit"}
              /\ log[pos].seq = seq
           THEN Append(w, [log[pos] EXCEPT !.val = pos]) ELSE w
Walk == IF sb.start = 0 THEN << >> ELSE Headers[LogLen]

\* PASS_SCAN: the transaction after the last complete one.
EndTransaction(w) ==
  sb.sequence + Cardinality({pos \in 1 .. LogLen :
                               \E i \in DOMAIN w : w[i].val = pos /\ w[i].type = "commit"})

\* PASS_REVOKE, journal_set_revoke: the last complete transaction that
\* revokes b, or 0.
RevokedBy(w, end, b) ==
  Max({0} \cup {w[i].seq : i \in {n \in DOMAIN w : w[n].type = "revoke"
                                     /\ b \in w[n].revoked /\ w[n].seq < end}})

\* The descriptors whose copy of b is replayed: of a complete transaction that
\* no later one, and not itself, revokes.
Replayed(w, end, b) ==
  LET D == {i \in DOMAIN w : w[i].type = "descriptor" /\ w[i].seq < end /\ b \in Range(w[i].tags)}
  IN  IF D = {} THEN {} ELSE {i \in D : RevokedBy(w, end, b) < w[i].seq}

\* The copy of b after a descriptor.  The code restores the first word of an
\* escaped block in the descriptor block (bh), not in the one it writes (nbh).
CopyOf(d, b) == log[Wrap(d.val, CHOOSE n \in DOMAIN d.tags : d.tags[n] = b)].val

\* PASS_REPLAY of one transaction: the blocks that it writes, and what.
Replay(w, end, seq) ==
  LET from(b) == {i \in Replayed(w, end, b) : w[i].seq = seq}
  IN  [b \in {c \in Block : from(c) # {}} |-> CopyOf(w[CHOOSE i \in from(b) : TRUE], b)]

\* The device as the whole of journal_recover leaves it.
Recovered ==
  LET w   == Walk
      end == EndTransaction(w)
  IN  [b \in Block |-> LET R == Replayed(w, end, b)
                       IN  IF R = {} THEN disk[b] ELSE CopyOf(w[Max(R)], b)]

-----------------------------------------------------------------------------
(* The lists of a journal_head: r is the buffer, t the id of a transaction. *)

\* __journal_file_buffer, for a list of metadata: BH_Dirty becomes BH_JBDDirty.
File(r, t, list) ==
  IF r.trans # 0 /\ r.jlist = list THEN r
  ELSE [r EXCEPT !.trans = t, !.jlist = list, !.jdirty = @ \/ r.dirty, !.dirty = FALSE]

\* __journal_unfile_buffer: BH_JBDDirty becomes BH_Dirty.
Unfile(r) ==
  IF r.jlist = "None" THEN r
  ELSE [r EXCEPT !.jlist = "None", !.dirty = @ \/ r.jdirty, !.jdirty = FALSE]

\* __journal_refile_buffer
Refile(r) ==
  IF r.next = 0 THEN [Unfile(r) EXCEPT !.trans = 0]
  ELSE File([r EXCEPT !.jlist = "None", !.trans = r.next, !.next = 0], r.next, "Metadata")

\* do_get_write_access sleeps on a buffer under I/O, and on one whose memory
\* the committing transaction is writing to the log.
MustWait(r, t) ==
  \/ r.locked
  \/ r.jlist = "Shadow" /\ r.frozen = 0 /\ t \notin {r.trans, r.next}

GetWriteAccess(r, t) ==
  IF t \in {r.trans, r.next} THEN r
  ELSE IF r.frozen # 0 THEN [r EXCEPT !.next = t]
  ELSE IF r.trans # 0
       THEN [r EXCEPT !.next = t, !.frozen = IF r.jlist # "Forget" THEN r.data ELSE 0]
  ELSE File(r, t, "Reserved")

\* journal_dirty_metadata, after the caller has written v to the buffer.
DirtyMetadata(r, t, v) ==
  LET d == [r EXCEPT !.data = v, !.jdirty = TRUE]
  IN  IF r.trans = t THEN File(d, t, "Metadata") ELSE d

\* journal_forget
Forget(r, t) ==
  LET d == [Unfile([r EXCEPT !.dirty = FALSE, !.jdirty = FALSE]) EXCEPT !.trans = 0]
  IN  IF r.trans = t THEN IF r.cp # 0 THEN File(d, t, "Forget") ELSE d
      ELSE [r EXCEPT !.next = 0]

\* __try_to_free_cp_buf: the buffer leaves the checkpoint list once it is clean.
Written(r) == r.jlist = "None" /\ ~r.locked /\ ~r.dirty
CleanCheckpoint(r) == IF Written(r) THEN [r EXCEPT !.cp = 0] ELSE r

\* __journal_drop_transaction of the transactions with no buffer left.
NeverDropped(list, bufs) == list
Dropped(list, bufs) == {t \in list : \E b \in Block : bufs[b].cp = t.tid}

-----------------------------------------------------------------------------
\* The fields that journal_reset sets, and an empty log.
JournalReset(seq) ==
  [head |-> 1, tail |-> 1, free |-> LogLen, tail_sequence |-> seq,
   transaction_sequence |-> seq, commit_sequence |-> seq - 1, commit_request |-> seq - 1,
   flushed |-> FALSE]

\* What a transaction commits: the use of every block, and the metadata.
FileSystem(tid, u, data) ==
  [tid |-> tid, use |-> u, data |-> [b \in Block |-> IF u[b] = "meta" THEN data[b] ELSE 0]]

Init ==
  /\ disk = [b \in Block |-> 1]
  /\ log = [p \in 1 .. LogLen |-> LogBlock("none", 0, << >>, {})]
  /\ sb = [start |-> 1, sequence |-> 2]
  /\ logio = {}
  /\ bh = [b \in Block |-> CleanBuffer(1)]
  /\ dbh = [b \in Block |-> NoData]
  /\ j = JournalReset(2)
  /\ running = NoTrans /\ committing = NoCommit /\ cplist = {} /\ revoke = {}
  /\ use = [b \in Block |-> "meta"] /\ freed = [b \in Block |-> 0]
  /\ handle = [p \in Task |-> NoHandle]
  /\ kjournald = "sleep"
  /\ mode = "mounted" /\ info = [next |-> 0, end |-> 0]
  /\ stable = FileSystem(1, use, disk)
  /\ pending = stable
  /\ exposed = {}

-----------------------------------------------------------------------------
(* Handles. *)

At(p, pc) == mode = "mounted" /\ handle[p].pc = pc
Goto(p, pc) == handle' = [handle EXCEPT ![p].pc = pc]

\* log_start_commit
Request(jr, tid) == [jr EXCEPT !.commit_request = IF @ >= tid THEN @ ELSE tid]

\* j_barrier_count: journal_flush is called inside journal_lock_updates.
Barrier == \E p \in Task : handle[p].pc \in {"fwait", "fckpt", "fscan"}

\* __log_space_left has to reach this before a handle may join or start a
\* transaction.
space_needed == MaxBuffers + committing.credits

\* start_this_handle: join the running transaction, or a new one, unless it
\* would become too large (ask for its commit and sleep) or the log is short
\* of space (checkpoint first).
start_this_handle(p) ==
  LET new == running.tid = 0
      t   == IF new THEN [NoTrans EXCEPT !.tid = j.transaction_sequence] ELSE running
      jr  == IF new THEN [j EXCEPT !.transaction_sequence = @ + 1] ELSE j
      need == space_needed
  IN  /\ At(p, "idle") /\ ~Barrier /\ ~running.locked
      /\ t.tid <= LastTid
      /\ \/ /\ t.credits + Credits > MaxBuffers
            /\ running' = t /\ j' = Request(jr, t.tid) /\ j' # j
            /\ UNCHANGED handle
         \/ /\ t.credits + Credits <= MaxBuffers
            /\ log_space_left < need
            /\ running' = t /\ j' = jr
            /\ handle' = [handle EXCEPT ![p].pc = "space", ![p].need = need]
         \/ /\ t.credits + Credits <= MaxBuffers
            /\ log_space_left >= need
            /\ running' = [t EXCEPT !.credits = @ + Credits, !.updates = @ + 1]
            /\ j' = jr
            /\ handle' = [handle EXCEPT ![p] = [NoHandle EXCEPT
                             !.pc = "open", !.tid = t.tid, !.credits = Credits]]
      /\ UNCHANGED <<device, logio, buffers, committing, cplist, revoke, fs, kjournald,
                     mode, info, history>>

\* A buffer access costs the handle a credit the first time.
Charge(p, b) == handle[p].credits - (IF handle[p].tid \in {bh[b].trans, bh[b].next} THEN 0 ELSE 1)

\* A block is free for use again when the transaction that freed it has
\* committed: ext3_test_allocatable looks at the bitmap's b_committed_data.
Allocatable(b) == use[b] = "free" /\ freed[b] = 0

\* The access cancels a pending revoke of the block (journal_cancel_revoke).
journal_get_write_access(p, b) ==
  /\ At(p, "open") /\ use[b] = "meta"
  /\ Charge(p, b) >= 0
  /\ ~MustWait(bh[b], handle[p].tid)
  /\ bh' = [bh EXCEPT ![b] = GetWriteAccess(@, handle[p].tid)]
  /\ revoke' = revoke \ {b}
  /\ handle' = [handle EXCEPT ![p].pc = "access", ![p].b = b, ![p].credits = Charge(p, b)]
  /\ UNCHANGED <<device, logio, dbh, j, running, committing, cplist, fs, kjournald,
                 mode, info, history>>

\* The handle has no use for the access after all.
unused_access(p) ==
  /\ At(p, "access")
  /\ handle' = [handle EXCEPT ![p].pc = "open", ![p].b = NoBlock]
  /\ UNCHANGED <<device, logio, buffers, j, running, committing, cplist, revoke, fs,
                 kjournald, mode, info, history>>

journal_dirty_metadata(p) ==
  /\ At(p, "access")
  /\ LET b == handle[p].b
     IN  bh' = [bh EXCEPT ![b] = DirtyMetadata(@, handle[p].tid, handle[p].tid)]
  /\ handle' = [handle EXCEPT ![p].pc = "open", ![p].b = NoBlock]
  /\ UNCHANGED <<device, logio, dbh, j, running, committing, cplist, revoke, fs,
                 kjournald, mode, info, history>>

\* A newly allocated metadata block: journal_get_create_access, the block
\* filled under its buffer lock, journal_dirty_metadata.
journal_get_create_access(p, b) ==
  /\ At(p, "open") /\ Allocatable(b)
  /\ Charge(p, b) >= 0
  /\ ~bh[b].locked
  /\ LET t == handle[p].tid
     IN  bh' = [bh EXCEPT ![b] = DirtyMetadata(GetWriteAccess(@, t), t, t)]
  /\ revoke' = revoke \ {b}
  /\ use' = [use EXCEPT ![b] = "meta"]
  /\ handle' = [handle EXCEPT ![p].credits = Charge(p, b)]
  /\ UNCHANGED <<device, logio, dbh, j, running, committing, cplist, freed, kjournald,
                 mode, info, history>>

\* ext3_forget of a metadata block that is freed: journal_revoke, which calls
\* journal_forget and enters the block in the revoke table.  ext3's i_sem and
\* truncate_sem keep other tasks from using the block meanwhile.
journal_revoke(p, b) ==
  /\ At(p, "open") /\ use[b] = "meta"
  /\ \A q \in Task : handle[q].b # b
  /\ bh' = [bh EXCEPT ![b] = Forget(@, handle[p].tid)]
  /\ revoke' = revoke \cup {b}
  /\ use' = [use EXCEPT ![b] = "free"]
  /\ freed' = [freed EXCEPT ![b] = handle[p].tid]
  /\ exposed' = IF bh[b].next # 0 THEN exposed \cup {<<"forgot", b>>} ELSE exposed
  /\ UNCHANGED <<device, logio, dbh, j, running, committing, cplist, handle, kjournald,
                 mode, info, stable, pending>>

\* A write to a file in ordered mode, to a new block or to an old one: for a
\* new one unmap_underlying_metadata first gets rid of the metadata buffer.  A
\* dirty buffer of the committing transaction is written out, and waited for,
\* before it moves to the running one.
journal_dirty_data(p, b) ==
  LET r == dbh[b]
      t == handle[p].tid
  IN  /\ At(p, "open")
      /\ \/ use[b] = "data" /\ UNCHANGED bh
         \/ /\ Allocatable(b) /\ ~bh[b].locked
            /\ bh' = [bh EXCEPT ![b].dirty = FALSE]
      /\ use' = [use EXCEPT ![b] = "data"]
      /\ IF r.trans \notin {0, t} /\ r.dirty
         THEN /\ dbh' = [dbh EXCEPT ![b].locked = TRUE, ![b].dirty = r.locked]
              /\ handle' = [handle EXCEPT ![p].pc = "dwait", ![p].b = b]
         ELSE dbh' = [dbh EXCEPT ![b].dirty = TRUE, ![b].trans = t] /\ UNCHANGED handle
      /\ exposed' = IF r.trans \notin {0, t} /\ ~r.dirty /\ r.locked
                    THEN exposed \cup {<<"moved", b>>} ELSE exposed
      /\ UNCHANGED <<device, logio, j, running, committing, cplist, revoke, freed,
                     kjournald, mode, info, stable, pending>>

dirty_data_written(p) ==
  LET b == handle[p].b
  IN  /\ At(p, "dwait") /\ ~dbh[b].locked
      /\ dbh' = [dbh EXCEPT ![b].dirty = TRUE, ![b].trans = handle[p].tid]
      /\ handle' = [handle EXCEPT ![p].pc = "open", ![p].b = NoBlock]
      /\ UNCHANGED <<device, logio, bh, j, running, committing, cplist, revoke, fs,
                     kjournald, mode, info, history>>

\* journal_stop: a synchronous handle asks for the commit and waits for it, one
\* whose transaction has expired only asks.
journal_stop(p) ==
  LET tid == handle[p].tid
  IN  /\ At(p, "open")
      /\ running' = [running EXCEPT !.updates = @ - 1, !.credits = @ - handle[p].credits]
      /\ \E sync \in BOOLEAN, expired \in BOOLEAN :
           /\ j' = IF sync \/ expired THEN Request(j, tid) ELSE j
           /\ handle' = [handle EXCEPT ![p] =
                           IF sync THEN [NoHandle EXCEPT !.pc = "wait", !.tid = tid] ELSE NoHandle]
      /\ UNCHANGED <<device, logio, buffers, committing, cplist, revoke, fs, kjournald,
                     mode, info, history>>

\* log_wait_commit returns to a task that synchronises, or to journal_flush.
log_wait_commit(p) ==
  /\ At(p, "wait") \/ At(p, "fwait")
  /\ j.commit_sequence >= handle[p].tid
  /\ handle' = [handle EXCEPT ![p] = [NoHandle EXCEPT
                   !.pc = IF handle[p].pc = "wait" THEN "idle" ELSE "fckpt"]]
  /\ UNCHANGED <<device, logio, buffers, j, running, committing, cplist, revoke, fs,
                 kjournald, mode, info, history>>

-----------------------------------------------------------------------------
(* Checkpoints. *)

\* The head of j_checkpoint_transactions.
Oldest == CHOOSE t \in cplist : \A u \in cplist : t.tid <= u.tid

\* cleanup_journal_tail: the oldest transaction that the log still has to hold.
FirstTid ==
  IF cplist # {} THEN Oldest.tid
  ELSE IF committing.tid # 0 THEN committing.tid
  ELSE IF running.tid # 0 THEN running.tid
  ELSE j.transaction_sequence
FirstBlock ==
  IF cplist # {} THEN Oldest.log_start
  ELSE IF committing.tid # 0 THEN committing.log_start
  ELSE j.head

TailIsOldest == j.tail_sequence = FirstTid
CleanedTail ==
  IF TailIsOldest THEN j
  ELSE [j EXCEPT !.free = @ + ((FirstBlock - j.tail) % LogLen),
                 !.tail = FirstBlock, !.tail_sequence = FirstTid, !.flushed = FALSE]

cleanup_journal_tail ==
  /\ j' = CleanedTail
  /\ sb' = IF TailIsOldest THEN sb ELSE [start |-> FirstBlock, sequence |-> FirstTid]

\* log_wait_for_space: checkpoint until there is room, one task at a time
\* (j_checkpoint_sem), then try to start the handle again.
log_wait_for_space(p) ==
  /\ At(p, "space")
  /\ \/ /\ log_space_left >= handle[p].need
        /\ handle' = [handle EXCEPT ![p] = NoHandle] /\ UNCHANGED <<j, sb>>
     \/ /\ log_space_left < handle[p].need
        /\ \A q \in Task : handle[q].pc # "scan"
        /\ cleanup_journal_tail
        /\ IF TailIsOldest THEN Goto(p, "scan") ELSE UNCHANGED handle
  /\ UNCHANGED <<disk, log, logio, buffers, running, committing, cplist, revoke, fs,
                 kjournald, mode, info, history>>

\* log_do_checkpoint, one walk over the oldest transaction: __flush_buffer
\* submits the dirty buffers and drops the clean ones.
ToFlush == {b \in Block : bh[b].cp = Oldest.tid /\ bh[b].dirty /\ ~bh[b].locked
                             /\ bh[b].jlist = "None"}
ToDrop == {b \in Block : bh[b].cp = Oldest.tid /\ Written(bh[b])}

\* The task is not waiting for the commit of handle[p].tid.
Scanning(p) == (At(p, "scan") \/ At(p, "fscan")) /\ j.commit_sequence >= handle[p].tid

flush_buffers(p) ==
  /\ Scanning(p)
  /\ cplist # {} /\ ToFlush \cup ToDrop # {}
  /\ bh' = [b \in Block |->
              IF b \in ToFlush THEN [bh[b] EXCEPT !.locked = TRUE, !.dirty = FALSE]
              ELSE IF b \in ToDrop THEN [bh[b] EXCEPT !.cp = 0] ELSE bh[b]]
  /\ cplist' = Dropped(cplist, bh')
  /\ UNCHANGED <<device, logio, dbh, j, running, committing, revoke, fs, handle,
                 kjournald, mode, info, history>>

\* __cleanup_transaction: nothing to submit; wait for the I/O of a buffer, or
\* for the commit of the transaction that has it now.
cleanup_transaction(p) ==
  /\ Scanning(p)
  /\ cplist # {} /\ ToFlush \cup ToDrop = {}
  /\ \E b \in Block : /\ bh[b].cp = Oldest.tid /\ ~bh[b].locked /\ bh[b].trans # 0
                      /\ j' = Request(j, bh[b].trans)
                      /\ handle' = [handle EXCEPT ![p].tid = bh[b].trans]
  /\ UNCHANGED <<device, logio, buffers, running, committing, cplist, revoke, fs,
                 kjournald, mode, info, history>>

checkpoint_done(p) ==
  /\ Scanning(p) /\ cplist = {}
  /\ cleanup_journal_tail
  /\ handle' = [handle EXCEPT ![p].pc = IF @ = "scan" THEN "space" ELSE "fckpt", ![p].tid = 0]
  /\ UNCHANGED <<disk, log, logio, buffers, running, committing, cplist, revoke, fs,
                 kjournald, mode, info, history>>

\* journal_flush, under journal_lock_updates: commit what there is,
journal_flush(p) ==
  LET tid == IF running.tid # 0 THEN running.tid ELSE committing.tid
  IN  /\ At(p, "idle") /\ ~Barrier /\ running.updates = 0
      /\ j' = Request(j, tid)
      /\ handle' = [handle EXCEPT ![p].pc = IF tid = 0 THEN "fckpt" ELSE "fwait", ![p].tid = tid]
      /\ UNCHANGED <<device, logio, buffers, running, committing, cplist, revoke, fs,
                     kjournald, mode, info, history>>

\* checkpoint all of it, and mark the log empty.
journal_flush_log(p) ==
  /\ At(p, "fckpt")
  /\ \/ /\ ~TailIsOldest \/ cplist # {}
        /\ cleanup_journal_tail
        /\ IF TailIsOldest THEN Goto(p, "fscan") ELSE UNCHANGED handle
     \/ /\ TailIsOldest /\ cplist = {}
        /\ sb' = [start |-> 0, sequence |-> j.tail_sequence]
        /\ j' = [j EXCEPT !.flushed = TRUE]
        /\ handle' = [handle EXCEPT ![p] = NoHandle]
  /\ UNCHANGED <<disk, log, logio, buffers, running, committing, cplist, revoke, fs,
                 kjournald, mode, info, history>>

\* journal_try_to_free_buffers, called by the VM: a data buffer, or a metadata
\* buffer kept for a checkpoint, that has been written.
journal_try_to_free_buffer(b) ==
  /\ mode = "mounted"
  /\ \/ /\ bh[b].cp # 0 /\ bh[b].trans = 0 /\ Written(bh[b])
        /\ bh' = [bh EXCEPT ![b].cp = 0] /\ UNCHANGED dbh
        /\ cplist' = Dropped(cplist, bh')
     \/ /\ dbh[b].trans # 0 /\ ~dbh[b].dirty /\ ~dbh[b].locked
        /\ dbh' = [dbh EXCEPT ![b].trans = 0] /\ UNCHANGED <<bh, cplist>>
  /\ UNCHANGED <<device, logio, j, running, committing, revoke, fs, handle,
                 kjournald, mode, info, history>>

-----------------------------------------------------------------------------
(* The commit thread. *)

\* A write in flight to the log: of blk, or of the memory of the buffer ref.
LogWrite(pos, blk, ref) == [pos |-> pos, blk |-> blk, ref |-> ref]

\* journal_next_log_block, n times.
journal_next_log_block(n) == [j EXCEPT !.head = Wrap(@, n), !.free = @ - n]

K(pc) == mode = "mounted" /\ kjournald = pc

\* kjournald: the commit timer of the running transaction has expired.
commit_timeout ==
  /\ K("sleep") /\ running.tid # 0
  /\ j' = [j EXCEPT !.commit_request = running.tid] /\ j' # j
  /\ UNCHANGED <<device, logio, buffers, running, committing, cplist, revoke, fs, handle,
                 kjournald, mode, info, history>>

\* journal_commit_transaction: lock the running transaction.
commit_lock ==
  /\ K("sleep") /\ j.commit_sequence # j.commit_request
  /\ running' = [running EXCEPT !.locked = TRUE]
  /\ kjournald' = "locked"
  /\ UNCHANGED <<device, logio, buffers, j, committing, cplist, revoke, fs, handle,
                 mode, info, history>>

\* With the transaction locked: undo journal_flush, refile unused buffers, clean
\* the checkpoint lists, and write the revoke records; then the transaction is
\* the committing one and a new one may start.
commit_switch ==
  LET tid == running.tid
      unused(b) == bh[b].trans = tid /\ bh[b].jlist = "Reserved"
  IN  /\ K("locked") /\ running.updates = 0
      /\ sb' = IF j.flushed THEN [start |-> j.tail, sequence |-> j.tail_sequence] ELSE sb
      /\ bh' = [b \in Block |-> CleanCheckpoint(IF unused(b) THEN Refile(bh[b]) ELSE bh[b])]
      /\ cplist' = Dropped(cplist, bh')
      /\ LET n == IF revoke = {} THEN 0 ELSE 1
             r == LogWrite(j.head, LogBlock("revoke", tid, << >>, revoke), NoBlock)
             jr == journal_next_log_block(n)
         IN  /\ logio' = IF n = 0 THEN logio ELSE logio \cup {r}
             /\ j' = [jr EXCEPT !.flushed = FALSE]
             /\ committing' = [NoCommit EXCEPT !.tid = tid, !.log_start = jr.head,
                                               !.credits = running.credits]
      /\ revoke' = {} /\ running' = NoTrans
      /\ kjournald' = "flush"
      /\ pending' = FileSystem(tid, use, [b \in Block |-> bh[b].data])
      /\ UNCHANGED <<disk, log, dbh, fs, handle, mode, info, stable, exposed>>

\* write_out_data: submit the dirty data buffers, unfile the clean ones.  The
\* lock is dropped to submit and to wait.
write_out_data ==
  LET S == {b \in Block : dbh[b].trans = committing.tid /\ ~dbh[b].locked}
  IN  /\ K("flush") /\ S # {}
      /\ dbh' = [b \in Block |->
                   IF b \notin S THEN dbh[b]
                   ELSE IF dbh[b].dirty THEN [dbh[b] EXCEPT !.locked = TRUE, !.dirty = FALSE]
                   ELSE [dbh[b] EXCEPT !.trans = 0]]
      /\ UNCHANGED <<device, logio, bh, j, running, committing, cplist, revoke, fs, handle,
                     kjournald, mode, info, history>>

\* journal_write_metadata_buffer: what the log write of a buffer carries.  It
\* is the memory of the buffer itself, unless that has been copied out.
LoggedCopy(b) ==
  IF bh[b].frozen # 0 THEN bh[b].frozen ELSE bh[b].data
MetadataWrite(b, pos) ==
  IF bh[b].frozen # 0 \/ bh[b].data \in Magic
  THEN LogWrite(pos, Copy(Escape(LoggedCopy(b))), NoBlock)
  ELSE LogWrite(pos, Copy(0), b)
Shadowed(b) ==
  LET r == File(bh[b], committing.tid, "Shadow")
  IN  IF r.frozen # 0 \/ r.data \in Magic
      THEN [r EXCEPT !.frozen = Escape(LoggedCopy(b))] ELSE r

\* No data buffer is left: a descriptor block and the metadata go to the log.
commit_metadata ==
  LET S == {b \in Block : bh[b].trans = committing.tid /\ bh[b].jlist = "Metadata"}
      n == IF S = {} THEN 0 ELSE Cardinality(S) + 1
  IN  /\ K("flush")
      /\ \A b \in Block : dbh[b].trans # committing.tid
      /\ \E s \in Bijection(1 .. Cardinality(S), S) :
           LET io(i) == [b |-> s[i], pos |-> Wrap(j.head, i)]
               desc  == LogWrite(j.head, LogBlock("descriptor", committing.tid, s, {}), NoBlock)
           IN  /\ logio' = logio \cup (IF S = {} THEN {} ELSE {desc})
                                 \cup {MetadataWrite(s[i], Wrap(j.head, i)) : i \in DOMAIN s}
               /\ committing' = [committing EXCEPT !.iobufs = [i \in DOMAIN s |-> io(i)]]
      /\ bh' = [b \in Block |-> IF b \in S THEN Shadowed(b) ELSE bh[b]]
      /\ j' = journal_next_log_block(n)
      /\ kjournald' = "iobuf"
      /\ UNCHANGED <<device, dbh, running, cplist, revoke, fs, handle, mode, info, history>>

\* wait_for_iobuf: the log writes, the last first; the buffer is free again.
wait_for_iobuf ==
  LET n  == Len(committing.iobufs)
      io == committing.iobufs[n]
  IN  /\ K("iobuf") /\ committing.iobufs # << >>
      /\ \A w \in logio : w.pos # io.pos
      /\ bh' = [bh EXCEPT ![io.b] = File(@, committing.tid, "Forget")]
      /\ committing' = [committing EXCEPT !.iobufs = SubSeq(@, 1, n - 1)]
      /\ UNCHANGED <<device, logio, dbh, j, running, cplist, revoke, fs, handle, kjournald,
                     mode, info, history>>

\* wait_for_ctlbuf: the descriptor and the revoke records; then the commit
\* record.
NoWait == TRUE
wait_for_ctlbuf == logio = {}

commit_record ==
  /\ K("iobuf") /\ committing.iobufs = << >> /\ wait_for_ctlbuf
  /\ logio' = logio \cup {LogWrite(j.head, LogBlock("commit", committing.tid, << >>, {}), NoBlock)}
  /\ j' = journal_next_log_block(1)
  /\ kjournald' = "record"
  /\ UNCHANGED <<device, buffers, running, committing, cplist, revoke, fs, handle, mode,
                 info, history>>

\* The commit record is on disk: checkpoint lists, and the end of the commit.
wait_on_record == logio = {}

CheckpointedFrozen(r, tid) ==
  LET c == [r EXCEPT !.cp = 0]
  IN  IF r.jdirty THEN Refile([c EXCEPT !.cp = tid]) ELSE [Unfile(c) EXCEPT !.trans = 0]
Checkpointed(r, tid) ==
  LET c == [r EXCEPT !.frozen = 0, !.cp = 0]
  IN  IF r.jdirty THEN Refile([c EXCEPT !.cp = tid]) ELSE [Unfile(c) EXCEPT !.trans = 0]

commit_finish ==
  LET tid == committing.tid
      done(b) == bh[b].trans = tid /\ bh[b].jlist = "Forget"
      this == [tid |-> tid, log_start |-> committing.log_start]
  IN  /\ K("record") /\ wait_on_record
      /\ bh' = [b \in Block |-> IF done(b) THEN Checkpointed(bh[b], tid) ELSE bh[b]]
      /\ cplist' = Dropped(cplist \cup {this}, bh')
      /\ j' = [j EXCEPT !.commit_sequence = tid]
      /\ committing' = NoCommit
      /\ freed' = [b \in Block |-> IF freed[b] = tid THEN 0 ELSE freed[b]]
      /\ kjournald' = "sleep"
      /\ UNCHANGED <<device, logio, dbh, running, revoke, use, handle, mode, info, history>>

-----------------------------------------------------------------------------
(* Writes in flight.  bdflush, or anyone, may write a dirty buffer back. *)

write_back(b) ==
  /\ \/ /\ bh[b].dirty /\ ~bh[b].locked
        /\ bh' = [bh EXCEPT ![b].dirty = FALSE, ![b].locked = TRUE] /\ UNCHANGED dbh
     \/ /\ dbh[b].dirty /\ ~dbh[b].locked
        /\ dbh' = [dbh EXCEPT ![b].dirty = FALSE, ![b].locked = TRUE] /\ UNCHANGED bh
  /\ UNCHANGED <<device, logio, j, running, committing, cplist, revoke, fs, handle,
                 kjournald, mode, info, history>>

home_written(b) ==
  /\ \/ /\ bh[b].locked
        /\ disk' = [disk EXCEPT ![b] = bh[b].data]
        /\ bh' = [bh EXCEPT ![b].locked = FALSE] /\ UNCHANGED <<dbh, exposed>>
     \/ /\ dbh[b].locked
        /\ disk' = [disk EXCEPT ![b] = 0]
        /\ dbh' = [dbh EXCEPT ![b].locked = FALSE] /\ UNCHANGED bh
        /\ exposed' = exposed \ {<<"moved", b>>}
  /\ UNCHANGED <<log, sb, logio, j, running, committing, cplist, revoke, fs, handle,
                 kjournald, mode, info, stable, pending>>

\* A log write completes.  With the commit record the transaction becomes
\* permanent.
log_written(w) ==
  /\ log' = [log EXCEPT ![w.pos] = IF w.ref = NoBlock THEN w.blk ELSE Copy(bh[w.ref].data)]
  /\ logio' = logio \ {w}
  /\ IF w.blk.type = "commit"
     THEN /\ stable' = pending
          /\ exposed' = exposed \ {<<"forgot", b>> : b \in {c \in Block : pending.use[c] # "meta"}}
     ELSE UNCHANGED <<stable, exposed>>
  /\ UNCHANGED <<disk, sb, buffers, j, running, committing, cplist, revoke, fs, handle,
                 kjournald, mode, info, pending>>

-----------------------------------------------------------------------------
(* A crash, and the mount that follows it. *)

Crash ==
  /\ mode # "down"
  /\ j.transaction_sequence <= LastTid
  /\ mode' = "down"
  /\ logio' = {} /\ bh' = [b \in Block |-> CleanBuffer(0)] /\ dbh' = [b \in Block |-> NoData]
  /\ j' = JournalReset(2)
  /\ running' = NoTrans /\ committing' = NoCommit /\ cplist' = {} /\ revoke' = {}
  /\ use' = stable.use /\ freed' = [b \in Block |-> 0]
  /\ handle' = [p \in Task |-> NoHandle]
  /\ kjournald' = "sleep" /\ info' = [next |-> 0, end |-> 0]
  /\ pending' = stable
  /\ exposed' = {e \in exposed : e[1] = "moved" => stable.use[e[2]] = "data"}
  /\ UNCHANGED <<device, stable>>

\* journal_recover: the scan pass finds the end of the log; a log that was
\* flushed has nothing to replay.
journal_recover ==
  /\ mode = "down"
  /\ mode' = "replay"
  /\ info' = [next |-> sb.sequence, end |-> EndTransaction(Walk)]
  /\ UNCHANGED <<device, logio, buffers, j, running, committing, cplist, revoke, fs,
                 handle, kjournald, history>>

\* do_one_pass(PASS_REPLAY), the blocks of one transaction: they are dirtied in
\* the buffer cache.
do_one_pass ==
  LET r == Replay(Walk, info.end, info.next)
  IN  /\ mode = "replay" /\ info.next < info.end
      /\ \A b \in DOMAIN r : ~bh[b].locked
      /\ bh' = [b \in Block |-> IF b \in DOMAIN r THEN [CleanBuffer(r[b]) EXCEPT !.dirty = TRUE]
                                ELSE bh[b]]
      /\ info' = [info EXCEPT !.next = @ + 1]
      /\ UNCHANGED <<device, logio, dbh, j, running, committing, cplist, revoke, fs,
                     handle, kjournald, mode, history>>

\* fsync_no_super has written every buffer; journal_reset restarts the log at
\* the next transaction id.
journal_reset ==
  LET seq == info.end + 1
  IN  /\ mode = "replay" /\ info.next = info.end
      /\ \A b \in Block : ~bh[b].locked /\ ~bh[b].dirty
      /\ j' = JournalReset(seq)
      /\ sb' = [start |-> 1, sequence |-> seq]
      /\ bh' = [b \in Block |-> CleanBuffer(disk[b])]
      /\ info' = [next |-> 0, end |-> 0]
      /\ mode' = "mounted"
      /\ stable' = FileSystem(stable.tid, use, disk) /\ pending' = stable'
      /\ exposed' = exposed \ ({"forgot"} \X Block)
      /\ UNCHANGED <<disk, log, logio, dbh, running, committing, cplist, revoke, fs,
                     handle, kjournald>>

-----------------------------------------------------------------------------
Handles(p) ==
  \/ start_this_handle(p) \/ unused_access(p) \/ journal_dirty_metadata(p)
  \/ dirty_data_written(p) \/ journal_stop(p) \/ log_wait_commit(p) \/ journal_flush(p)
  \/ \E b \in Block : \/ journal_get_write_access(p, b) \/ journal_get_create_access(p, b)
                       \/ journal_revoke(p, b) \/ journal_dirty_data(p, b)
Checkpoint(p) ==
  \/ log_wait_for_space(p) \/ flush_buffers(p) \/ cleanup_transaction(p)
  \/ checkpoint_done(p) \/ journal_flush_log(p)
Commit ==
  \/ commit_lock \/ commit_switch \/ write_out_data \/ commit_metadata
  \/ wait_for_iobuf \/ commit_record \/ commit_finish
IoDone == (\E b \in Block : home_written(b)) \/ (\E w \in logio : log_written(w))
Mount == journal_recover \/ do_one_pass \/ journal_reset

Next ==
  \/ \E p \in Task : Handles(p) \/ Checkpoint(p)
  \/ commit_timeout \/ Commit \/ IoDone \/ Crash \/ Mount
  \/ \E b \in Block : write_back(b) \/ journal_try_to_free_buffer(b)

Spec == Init /\ [][Next]_vars

-----------------------------------------------------------------------------
(* Properties. *)


\* The space kept free by log_wait_for_space is enough for the commits under
\* way, revoke, descriptor and commit blocks included: journal_next_log_block
\* never finds the log full (its assertion), and j_free is exactly the distance
\* from the head to the tail.
LogNeverFull ==
  mode = "mounted" => j.free >= 1 /\ j.head = Wrap(j.tail, LogLen - j.free)

\* When log_wait_commit lets a task go, in journal_stop or journal_flush, its
\* transaction is on disk, and by Recoverable any recovery finds it.
SyncedIsDurable ==
  \A p \in Task : (At(p, "wait") \/ At(p, "fwait")) /\ j.commit_sequence >= handle[p].tid
    => handle[p].tid <= stable.tid

\* A task that lacks log space is not stuck: the tail can move, a commit is on
\* its way, or log_do_checkpoint has a buffer to write, to drop or to wait for,
\* so log_wait_for_space does not spin over an empty list for ever.
SpaceIsReclaimable ==
  \A p \in Task : (At(p, "space") \/ At(p, "scan")) /\ log_space_left < handle[p].need
    => \/ ~TailIsOldest \/ committing.tid # 0 \/ j.commit_request > j.commit_sequence
       \/ cplist # {} /\ \E b \in Block : bh[b].cp = Oldest.tid

\* The J_ASSERTs of journal_commit_transaction, do_get_write_access,
\* journal_get_create_access, journal_dirty_metadata, journal_forget,
\* log_do_checkpoint (it makes progress) and journal_flush hold wherever the code
\* is about to evaluate them.
CommitAsserts ==
  LET tid == committing.tid
  IN  /\ K("sleep") /\ j.commit_sequence # j.commit_request
        => running.tid # 0 /\ tid = 0 /\ ~running.locked
      /\ K("locked") /\ running.updates = 0 => running.credits <= MaxBuffers
      /\ \A b \in Block : tid # 0 /\ bh[b].trans = tid
           => /\ bh[b].jlist \in {"Metadata", "Shadow"} => bh[b].jdirty
              /\ K("record") => /\ bh[b].jlist = "Forget" /\ bh[b].cp # tid
                                /\ bh[b].jdirty \/ (~bh[b].dirty /\ bh[b].next = 0)
HandleAsserts ==
  \A p \in Task, b \in Block :
    LET t == handle[p].tid
        r == bh[b]
    IN  /\ At(p, "open") \/ At(p, "access")
          => /\ r.trans \in {0, t, committing.tid} /\ r.next \in {0, t}
             /\ r.trans = t => r.frozen = 0
        /\ At(p, "access") /\ handle[p].b = b /\ r.trans # t
          => r.trans # 0 /\ r.next = t
        /\ At(p, "open") /\ Allocatable(b)
          => r.next = 0 /\ (r.trans \in {0, t} \/ r.jlist = "Forget")
FlushAsserts ==
  \A p \in Task : At(p, "fckpt") /\ cplist = {} /\ TailIsOldest
    => /\ running.tid = 0 /\ committing.tid = 0
       /\ j.head = j.tail /\ j.tail_sequence = j.transaction_sequence
CheckpointAsserts ==
  \A p \in Task : Scanning(p) /\ cplist # {} /\ ToFlush \cup ToDrop = {}
    => \E b \in Block : bh[b].cp = Oldest.tid /\ (bh[b].locked \/ bh[b].trans # 0)
JAsserts == CommitAsserts /\ HandleAsserts /\ FlushAsserts /\ CheckpointAsserts

=============================================================================
